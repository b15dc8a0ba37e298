------------------------------- MODULE WriteLog -------------------------------
(***************************************************************************)
(* What a server promises its clients about writes (include/tree_skel.h):  *)
(* a write is accepted with the next number, and the accepted writes are   *)
(* run on the tree one at a time, in the order of their numbers, each      *)
(* exactly once, as long as the server lives.                              *)
(***************************************************************************)
EXTENDS TreeStore

VARIABLES accepted, done, tree

wvars == <<accepted, done, tree>>

WInit == accepted = <<>> /\ done = 0 /\ tree = tree_create

Accept ==
    /\ \E op \in {0, 1}, k \in Keys, v \in Values \union {NoValue} :
        accepted' = Append(accepted, [op_n |-> Len(accepted) + 1, op |-> op,
                                      key |-> k, data |-> v])
    /\ UNCHANGED <<done, tree>>

Run ==
    /\ done < Len(accepted)
    /\ tree' = Apply(tree, accepted[done + 1])
    /\ done' = done + 1
    /\ UNCHANGED accepted

WNext == Accept \/ Run

WSafety == WInit /\ [][WNext]_wvars

WSpec == WSafety /\ WF_wvars(Run)
=============================================================================
