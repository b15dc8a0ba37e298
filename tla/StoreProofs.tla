------------------------------ MODULE StoreProofs ------------------------------
(***************************************************************************)
(* Facts about the store every server keeps (TreeStore): what one more     *)
(* write adds to a replay, what a replay returns, and the induction both   *)
(* rest on.                                                                *)
(***************************************************************************)
EXTENDS TreeStore, TLAPS, SequenceTheorems, LeastNumbers

\* Induction, for the set of the numbers that have a property.
LEMMA Induction ==
    ASSUME NEW T, 0 \in T, \A n \in Nat : n \in T => n + 1 \in T
    PROVE  \A n \in Nat : n \in T
<1>. SUFFICES ASSUME Nat \ T # {} PROVE FALSE
  OBVIOUS
<1>1. PICK n \in Nat \ T : \A m \in Nat \ T : n <= m
  BY LeastNumber
<1>2. n # 0 /\ n - 1 \in Nat /\ n - 1 \in T
  BY <1>1
<1>. QED
  BY <1>1, <1>2

\* The last number of 1 .. n is n, which leaves 1 .. n - 1.
LEMMA LastOfInterval ==
    ASSUME NEW n \in Nat \ {0}
    PROVE  Max(1 .. n) = n /\ (1 .. n) \ {n} = 1 .. n - 1 /\ 1 .. n # {}
BY DEF Max

\* The last number of a set that holds n and none past it is n.
LEMMA LastOfSet ==
    ASSUME NEW n \in Nat, NEW s \in SUBSET (1 .. n), n \in s
    PROVE  Max(s) = n
<1>1. n >= n /\ \A m \in s : n >= m
  OBVIOUS
<1>2. \A x \in s : (\A y \in s : x >= y) => x = n
  OBVIOUS
<1>. QED
  BY <1>1, <1>2 DEF Max

-----------------------------------------------------------------------------
\* Replay, a fold, is a recursive function on the sets of positions.

\* The outcome of no write, and of one more write after an outcome.
NoOutcome == [tree |-> tree_create, done |-> <<>>]
Extend(acc, r) ==
    [tree |-> Apply(acc.tree, r),
     done |-> IF ResultOf(acc.tree, r) = 0 THEN Append(acc.done, r) ELSE acc.done]

IsReplay(f, D, writes) ==
    f = [s \in SUBSET D |-> IF s = {} THEN NoOutcome
                            ELSE Extend(f[s \ {Max(s)}], writes[Max(s)])]

\* The recursive function of Replay (FoldLeft, MapThenFoldSet).
LEMMA ReplayUnfolded ==
    \A writes : Replay(writes) = (CHOOSE f : IsReplay(f, DOMAIN writes, writes))[DOMAIN writes]
BY DEF Replay, FoldLeft, MapThenFoldSet, IsReplay, Extend, NoOutcome

\* There is such a function for the first n writes.
LEMMA ReplayExists ==
    ASSUME NEW writes, NEW n \in Nat
    PROVE  \E f : IsReplay(f, 1 .. n, writes)
<1>. DEFINE T == {m \in Nat : \E f : IsReplay(f, 1 .. m, writes)}
<1>1. 0 \in T
  <2>. DEFINE f == [s \in SUBSET (1 .. 0) |-> NoOutcome]
  <2>1. 1 .. 0 = {}
    OBVIOUS
  <2>2. IsReplay(f, 1 .. 0, writes)
    BY <2>1 DEF IsReplay
  <2>. QED
    BY <2>2
<1>2. ASSUME NEW m \in Nat, m \in T
      PROVE  m + 1 \in T
  <2>1. PICK f : IsReplay(f, 1 .. m, writes)
    BY <1>2
  <2>. DEFINE g == [s \in SUBSET (1 .. m + 1) |->
                      IF m + 1 \in s THEN Extend(f[s \ {m + 1}], writes[m + 1]) ELSE f[s]]
              body(s) == IF s = {} THEN NoOutcome
                         ELSE Extend(g[s \ {Max(s)}], writes[Max(s)])
  <2>2. ASSUME NEW s \in SUBSET (1 .. m + 1)
        PROVE  g[s] = body(s)
    <3>1. CASE m + 1 \in s
      <4>1. Max(s) = m + 1
        BY <3>1, LastOfSet
      <4>2. s \ {m + 1} \in SUBSET (1 .. m + 1) /\ m + 1 \notin s \ {m + 1}
        OBVIOUS
      <4>3. g[s \ {m + 1}] = f[s \ {m + 1}]
        BY <4>2
      <4>4. g[s] = Extend(f[s \ {m + 1}], writes[m + 1])
        BY <3>1
      <4>. HIDE DEF g
      <4>. QED
        BY <3>1, <4>1, <4>3, <4>4
    <3>2. CASE m + 1 \notin s
      <4>1. s \in SUBSET (1 .. m) /\ s \ {Max(s)} \in SUBSET (1 .. m)
        <5>. \A i \in s : i \in 1 .. m
          BY <3>2
        <5>. QED
          OBVIOUS
      <4>2. s \ {Max(s)} \in SUBSET (1 .. m + 1) /\ m + 1 \notin s \ {Max(s)}
        BY <3>2
      <4>3. g[s] = f[s] /\ g[s \ {Max(s)}] = f[s \ {Max(s)}]
        BY <3>2, <4>2
      <4>4. f[s] = IF s = {} THEN NoOutcome ELSE Extend(f[s \ {Max(s)}], writes[Max(s)])
        BY <2>1, <4>1 DEF IsReplay
      <4>. HIDE DEF g
      <4>. QED
        BY <4>3, <4>4
    <3>. QED
      BY <3>1, <3>2
  <2>3. g = [s \in SUBSET (1 .. m + 1) |-> g[s]]
    OBVIOUS
  <2>. HIDE DEF g
  <2>4. [s \in SUBSET (1 .. m + 1) |-> g[s]] = [s \in SUBSET (1 .. m + 1) |-> body(s)]
    BY <2>2
  <2>5. IsReplay(g, 1 .. m + 1, writes)
    BY <2>3, <2>4 DEF IsReplay
  <2>. QED
    BY <2>5
<1>3. \A m \in Nat : m \in T
  <2>. HIDE DEF T
  <2>. QED
    BY <1>1, <1>2, Induction
<1>. QED
  BY <1>3

\* On the first n positions it is what the last write adds to the positions before.
LEMMA ReplayStep ==
    ASSUME NEW writes, NEW m \in Nat, NEW f, IsReplay(f, 1 .. m, writes)
    PROVE  /\ f[1 .. 0] = NoOutcome
           /\ \A n \in 1 .. m : f[1 .. n] = Extend(f[1 .. n - 1], writes[n])
<1>1. f[1 .. 0] = NoOutcome
  <2>. 1 .. 0 = {}
    OBVIOUS
  <2>. QED
    BY DEF IsReplay
<1>2. ASSUME NEW n \in 1 .. m
      PROVE  f[1 .. n] = Extend(f[1 .. n - 1], writes[n])
  <2>1. 1 .. n \in SUBSET (1 .. m)
    OBVIOUS
  <2>2. Max(1 .. n) = n /\ (1 .. n) \ {n} = 1 .. n - 1 /\ 1 .. n # {}
    <3>. n \in Nat \ {0}
      OBVIOUS
    <3>. QED
      BY LastOfInterval
  <2>. QED
    BY <2>1, <2>2 DEF IsReplay
<1>. QED
  BY <1>1, <1>2

\* Nothing to run leaves the empty tree (Replay).
LEMMA ReplayEmpty == Replay(<<>>) = NoOutcome
<1>1. DOMAIN <<>> = 1 .. 0
  OBVIOUS
<1>2. PICK f : IsReplay(f, 1 .. 0, <<>>)
  BY ReplayExists
<1>3. IsReplay(CHOOSE g : IsReplay(g, 1 .. 0, <<>>), 1 .. 0, <<>>)
  BY <1>2
<1>. QED
  BY <1>1, <1>3, ReplayStep, ReplayUnfolded

\* One more write is run on the tree the others left, and is one of those that succeed
\* if it does there (Replay).
LEMMA ReplayAppend ==
    ASSUME NEW S, NEW writes \in Seq(S), NEW r \in S
    PROVE  Replay(Append(writes, r)) = Extend(Replay(writes), r)
<1>. DEFINE n == Len(writes)
            more == Append(writes, r)
            f == CHOOSE h : IsReplay(h, 1 .. n, writes)
            g == CHOOSE h : IsReplay(h, 1 .. n + 1, more)
<1>1. n \in Nat /\ DOMAIN writes = 1 .. n /\ DOMAIN more = 1 .. n + 1
      /\ more[n + 1] = r /\ \A i \in 1 .. n : more[i] = writes[i]
  OBVIOUS
<1>2. IsReplay(f, 1 .. n, writes)
  <2>1. \E h : IsReplay(h, 1 .. n, writes)
    BY <1>1, ReplayExists
  <2>. QED
    BY <2>1
<1>3. IsReplay(g, 1 .. n + 1, more)
  <2>1. \E h : IsReplay(h, 1 .. n + 1, more)
    <3>. n + 1 \in Nat
      BY <1>1
    <3>. HIDE DEF n, more
    <3>. QED
      BY ReplayExists
  <2>. QED
    BY <2>1
<1>4. Replay(writes) = f[1 .. n] /\ Replay(more) = g[1 .. n + 1]
  BY <1>1, ReplayUnfolded
<1>. HIDE DEF n, more, f, g
<1>5. /\ f[1 .. 0] = NoOutcome
      /\ \A i \in 1 .. n : f[1 .. i] = Extend(f[1 .. i - 1], writes[i])
  BY <1>1, <1>2, ReplayStep
<1>6. /\ g[1 .. 0] = NoOutcome
      /\ \A i \in 1 .. n + 1 : g[1 .. i] = Extend(g[1 .. i - 1], more[i])
  <2>. n + 1 \in Nat
    BY <1>1
  <2>. QED
    BY <1>3, ReplayStep
<1>7. \A i \in Nat : i <= n => f[1 .. i] = g[1 .. i]
  <2>. DEFINE T == {i \in Nat : i <= n => f[1 .. i] = g[1 .. i]}
  <2>1. 0 \in T
    BY <1>5, <1>6
  <2>2. ASSUME NEW i \in Nat, i \in T PROVE i + 1 \in T
    <3>. SUFFICES ASSUME i + 1 <= n PROVE f[1 .. i + 1] = g[1 .. i + 1]
      OBVIOUS
    <3>1. i + 1 \in 1 .. n /\ i + 1 \in 1 .. n + 1 /\ i + 1 - 1 = i /\ i <= n
      BY <1>1
    <3>. QED
      BY <1>1, <1>5, <1>6, <2>2, <3>1
  <2>3. \A i \in Nat : i \in T
    <3>. HIDE DEF T
    <3>. QED
      BY <2>1, <2>2, Induction
  <2>. QED
    BY <2>3
<1>8. g[1 .. n + 1] = Extend(g[1 .. n], r)
  <2>. n + 1 \in 1 .. n + 1 /\ n + 1 - 1 = n
    BY <1>1
  <2>. QED
    BY <1>1, <1>6
<1>. QED
  BY <1>1, <1>4, <1>7, <1>8 DEF more

-----------------------------------------------------------------------------
\* What a replay returns.

\* The fields of an outcome.
LEMMA ExtendFields ==
    \A acc, r : /\ Extend(acc, r).tree = Apply(acc.tree, r)
                /\ ResultOf(acc.tree, r) = 0 => Extend(acc, r).done = Append(acc.done, r)
                /\ ResultOf(acc.tree, r) # 0 => Extend(acc, r).done = acc.done
BY DEF Extend

\* A write leaves a tree a tree (tree_put, tree_del).
LEMMA ApplyIsTree ==
    ASSUME NEW t \in Trees, NEW r, r.key \in Keys, r.data \in Values \union {NoValue}
    PROVE  Apply(t, r) \in Trees
BY DEF Trees, Apply, tree_put, tree_del

\* The writes that succeed are no more than those that were run, each one of them, and
\* what they leave is a tree (Replay).
LEMMA ReplayType ==
    ASSUME NEW S, NEW writes \in Seq(S),
           \A r \in S : r.key \in Keys /\ r.data \in Values \union {NoValue}
    PROVE  /\ Replay(writes).tree \in Trees
           /\ Replay(writes).done \in Seq(S)
           /\ Len(Replay(writes).done) <= Len(writes)
<1>. DEFINE Typed(ws) == /\ Replay(ws).tree \in Trees
                         /\ Replay(ws).done \in Seq(S)
                         /\ Len(Replay(ws).done) <= Len(ws)
            T == {n \in Nat : \A ws \in Seq(S) : Len(ws) = n => Typed(ws)}
<1>1. 0 \in T
  <2>. SUFFICES ASSUME NEW ws \in Seq(S), Len(ws) = 0 PROVE Typed(ws)
    OBVIOUS
  <2>1. ws = <<>>
    OBVIOUS
  <2>2. Replay(ws) = NoOutcome
    BY <2>1, ReplayEmpty
  <2>3. tree_create \in Trees
    BY DEF Trees, tree_create
  <2>4. Replay(ws).tree = tree_create /\ Replay(ws).done = <<>>
    BY <2>2 DEF NoOutcome
  <2>5. <<>> \in Seq(S) /\ Len(<<>>) <= 0
    OBVIOUS
  <2>. QED
    BY <2>3, <2>4, <2>5, Zenon
<1>2. ASSUME NEW n \in Nat, n \in T PROVE n + 1 \in T
  <2>. SUFFICES ASSUME NEW ws \in Seq(S), Len(ws) = n + 1 PROVE Typed(ws)
    OBVIOUS
  <2>1. PICK front \in Seq(S), r \in S : ws = Append(front, r)
    <3>. ws # <<>>
      OBVIOUS
    <3>. QED
      BY SequenceEmptyOrAppend
  <2>2. Len(front) = n /\ Typed(front)
    <3>1. Len(front) = n
      BY <2>1
    <3>. QED
      BY <1>2, <3>1
  <2>3. Replay(ws) = Extend(Replay(front), r)
    BY <2>1, ReplayAppend
  <2>4. Replay(ws).tree \in Trees
    BY <2>2, <2>3, ExtendFields, ApplyIsTree
  <2>5. Replay(ws).done \in {Replay(front).done, Append(Replay(front).done, r)}
    BY <2>3, ExtendFields
  <2>6. \A q \in Seq(S) : Append(q, r) \in Seq(S) /\ Len(Append(q, r)) = Len(q) + 1
    OBVIOUS
  <2>7. Replay(ws).done \in Seq(S) /\ Len(Replay(ws).done) <= n + 1
    <3>. DEFINE d == Replay(front).done
                e == Replay(ws).done
    <3>1. d \in Seq(S) /\ Len(d) <= n /\ e \in {d, Append(d, r)}
      BY <2>2, <2>5
    <3>. HIDE DEF d, e
    <3>2. Append(d, r) \in Seq(S) /\ Len(Append(d, r)) = Len(d) + 1
      BY <3>1, <2>6
    <3>3. Len(d) \in Nat /\ Len(d) + 1 <= n + 1 /\ Len(d) <= n + 1
      BY <3>1
    <3>4. e \in Seq(S) /\ Len(e) <= n + 1
      BY <3>1, <3>2, <3>3, Zenon
    <3>. QED
      BY <3>4 DEF e
  <2>. QED
    BY <2>4, <2>7
<1>3. \A n \in Nat : n \in T
  <2>. HIDE DEF T
  <2>. QED
    BY <1>1, <1>2, Induction
<1>. QED
  BY <1>3
=============================================================================
