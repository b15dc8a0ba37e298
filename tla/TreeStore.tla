------------------------------ MODULE TreeStore ------------------------------
(***************************************************************************)
(* The binary search tree behind every server (include/tree.h, shipped as  *)
(* object/tree.o): what each operation does to the set of key/value pairs. *)
(* A tree is a total function from Keys to Values with NoValue (NULL) for  *)
(* the keys it does not hold.  Its shape is left out; only tree_height     *)
(* depends on it, and returns one of the heights some shape has.           *)
(***************************************************************************)
EXTENDS Integers, Sequences, FiniteSets, SequencesExt

CONSTANTS
    Keys,       \* the keys clients use
    Values,     \* the data blocks clients store
    NoValue     \* a NULL data_t: no entry for the key

ASSUME StoreAssumption ==
    /\ NoValue \notin Values
    /\ IsFiniteSet(Keys) /\ Keys # {}

Trees == [Keys -> Values \union {NoValue}]

\* A write as queue_add builds it (struct request_t): op 1 is put, 0 is del.
Writes == [op_n : Nat, op : {0, 1}, key : Keys, data : Values \union {NoValue}]

tree_create == [k \in Keys |-> NoValue]

tree_put(t, k, v) == [t EXCEPT ![k] = v]

tree_del(t, k) == [t EXCEPT ![k] = NoValue]

\* tree_get: the value of the key, or NULL.
tree_get(t, k) == t[k]

tree_keys(t) == {k \in Keys : t[k] # NoValue}

tree_size(t) == Cardinality(tree_keys(t))

\* The tree is not balanced: n entries fit any height h with h <= n < 2^h.
tree_height(t) == {h \in 0 .. tree_size(t) : tree_size(t) < 2^h}

-----------------------------------------------------------------------------
\* What a write does to the tree, and the code it returns: 0, or -1 for a del
\* of a key the tree does not hold (tree_del, include/tree.h).
Apply(t, r) == IF r.op = 1 THEN tree_put(t, r.key, r.data) ELSE tree_del(t, r.key)

ResultOf(t, r) == IF r.op = 0 /\ tree_get(t, r.key) = NoValue THEN -1 ELSE 0

\* The reference: run a sequence of writes in order, from an empty tree; the tree
\* they leave, and those of them that succeed.
Replay(writes) ==
    FoldLeft(LAMBDA acc, r :
                [tree |-> Apply(acc.tree, r),
                 done |-> IF ResultOf(acc.tree, r) = 0 THEN Append(acc.done, r) ELSE acc.done],
             [tree |-> tree_create, done |-> <<>>], writes)
=============================================================================
