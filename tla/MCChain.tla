------------------------------- MODULE MCChain -------------------------------
(***************************************************************************)
(* Workloads for model checking Chain: what users ask their clients for.   *)
(***************************************************************************)
EXTENDS Chain, TLC

WriteCommand(op, k, v) == [opcode |-> op, key |-> k, data |-> v, number |-> 0]

PutCommands == {WriteCommand(OP_PUT, k, v) : k \in Keys, v \in Values}
DelCommands == {WriteCommand(OP_DEL, k, NoValue) : k \in Keys}
AllCommands == PutCommands \union DelCommands

\* Uninitialised memory that holds zeroes.
ZeroSlot == [s \in Servers |-> 0]

\* Clients differ in nothing but their name (for runs without liveness).
ClientSymmetry == Permutations(Clients)
==============================================================================
