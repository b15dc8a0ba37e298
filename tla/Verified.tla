------------------------------- MODULE Verified -------------------------------
(***************************************************************************)
(* Reconfig with a client that asks verify for the first write             *)
(* (rtree_verify in source/client_stub.c), and what the documentation says *)
(* of a write that verify reports as done.                                 *)
(***************************************************************************)
EXTENDS Reconfig

VARIABLES
    id,         \* the id the head gave the first write
    done        \* whether verify has reported it as done

verify == <<id, done>>
vvars == <<rvars, verify>>

VerifiedInit == ReconfigInit /\ id = 0 /\ done = FALSE

\* The first write gets the number that the head counts it by.
SendFirst ==
    /\ sent = 0 /\ SendWrite
    /\ LET h == FirstOf(nodes) IN id' = Len(log[h]) + Len(queue[h]) + 1
    /\ UNCHANGED done

LastOf(S) == CHOOSE n \in S : \A m \in S : n >= m

\* The writes a server is done with, as many as its max_proc.
Finished(s) == Len(log[s]) - (IF wpc[s] = "lock" THEN 0 ELSE 1)

\* rtree_verify of the first write: the last server of the chain counts that many.
VerifyFirst ==
    /\ sent > 0 /\ ~done /\ nodes # {}
    /\ LastOf(nodes) \in listening /\ Finished(LastOf(nodes)) >= id
    /\ done' = TRUE
    /\ UNCHANGED <<rvars, id>>

Others == (sent = 0 => sent' = 0) /\ ReconfigNext /\ UNCHANGED verify

VerifiedSpec == VerifiedInit /\ [][SendFirst \/ VerifyFirst \/ Others]_vvars

-----------------------------------------------------------------------------
\* All servers take part in the chain, each connected to the next, and nothing is
\* under way.
Quiet ==
    /\ nodes = alive /\ listening = alive
    /\ \A s \in alive :
        /\ Resting(s) /\ At(s, "lock") /\ queue[s] = <<>> /\ wire[s] = <<>>
        /\ Successor(nodes, s) # None => nextSocket[s] = Successor(nodes, s) /\ up[s]

Kept == \E s \in alive : 1 \in RangeOf(log[s])

\* README.txt:8-10: the state of a server is replicated for fault tolerance, so that
\* when one of several servers dies the first write, once verify has reported it as
\* done, is not lost.
DoneSurvives == [][done /\ Quiet /\ Kept => alive' = {} \/ Kept']_vvars
=============================================================================
