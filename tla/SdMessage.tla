------------------------------ MODULE SdMessage ------------------------------
(***************************************************************************)
(* The message clients and servers exchange (sdmessage.proto).             *)
(***************************************************************************)
EXTENDS TreeStore

\* Opcodes of sdmessage.proto; a reply carries the opcode of its request + 1.
OP_BAD == 0
OP_SIZE == 10
OP_HEIGHT == 20
OP_DEL == 30
OP_GET == 40
OP_PUT == 50
OP_GETKEYS == 60
OP_GETVALUES == 70
OP_VERIFY == 80
OP_ERROR == 99

Requests == {OP_BAD, OP_SIZE, OP_HEIGHT, OP_DEL, OP_GET, OP_PUT,
             OP_GETKEYS, OP_GETVALUES, OP_VERIFY}

\* MessageT, the fields invoke reads and writes; number also stands for the
\* repeated-field counts n_keys and n_values.
Messages == [opcode : Int, key : Keys, data : Values \union {NoValue}, number : Int]
==============================================================================
