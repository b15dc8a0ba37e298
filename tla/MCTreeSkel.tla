------------------------------ MODULE MCTreeSkel ------------------------------
(***************************************************************************)
(* Workloads for model checking TreeSkel: what clients send one server.    *)
(***************************************************************************)
EXTENDS TreeSkel

Message(op, k, v, n) == [opcode |-> op, key |-> k, data |-> v, number |-> n]

AnyKey == CHOOSE k \in Keys : TRUE

Puts == {Message(OP_PUT, k, v, 0) : k \in Keys, v \in Values}
Dels == {Message(OP_DEL, k, NoValue, 0) : k \in Keys}
Gets == {Message(OP_GET, k, NoValue, 0) : k \in Keys}
Plain(ops) == {Message(op, AnyKey, NoValue, 0) : op \in ops}

\* Ids below, at and above those given out, and the ids verify rejects.
Verifies == {Message(OP_VERIFY, AnyKey, NoValue, n) : n \in -1 .. MaxOps + 1}

\* Writes and their verification, with the reads that take the tree lock.
WriteInbox == Puts \union Dels \union Verifies
              \union {Message(OP_GET, AnyKey, NoValue, 0)}

\* Listings among writes and reads; they can kill the server.
ListingInbox == Puts \union Dels \union {Message(OP_GET, AnyKey, NoValue, 0)}
                \union Plain({OP_GETKEYS, OP_GETVALUES})

\* Every request there is.
FullInbox == WriteInbox \union ListingInbox \union Gets
             \union Plain({OP_BAD, OP_SIZE, OP_HEIGHT})
=============================================================================
