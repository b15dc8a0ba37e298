---------------------------- MODULE ReconfigProofs ----------------------------
(***************************************************************************)
(* Theorems about Reconfig: however servers join and die while writes      *)
(* travel, for any number of servers and writes.                           *)
(***************************************************************************)
EXTENDS Reconfig, MembershipProofs, SequenceTheorems

-----------------------------------------------------------------------------
\* Sequences.

\* What Append does to the positions of a sequence, and to what is in it.
LEMMA LongerBy ==
    ASSUME NEW S, NEW q \in Seq(S), NEW x \in S
    PROVE  /\ Append(q, x) \in Seq(S) /\ Len(Append(q, x)) = Len(q) + 1 /\ Len(q) \in Nat
           /\ Append(q, x) # <<>>
           /\ DOMAIN q = 1 .. Len(q) /\ DOMAIN Append(q, x) = 1 .. Len(q) + 1
           /\ \A i \in DOMAIN q : i \in DOMAIN Append(q, x) /\ Append(q, x)[i] = q[i]
           /\ Append(q, x)[Len(q) + 1] = x
           /\ \A i \in DOMAIN Append(q, x) :
                \/ i \in DOMAIN q /\ Append(q, x)[i] = q[i]
                \/ i = Len(q) + 1 /\ Append(q, x)[i] = x
OBVIOUS

\* The elements of a sequence one longer.
LEMMA RangeLonger ==
    ASSUME NEW S, NEW q \in Seq(S), NEW x \in S
    PROVE  RangeOf(Append(q, x)) = RangeOf(q) \union {x}
<1>1. /\ \A i \in DOMAIN q : i \in DOMAIN Append(q, x) /\ Append(q, x)[i] = q[i]
      /\ Len(q) + 1 \in DOMAIN Append(q, x) /\ Append(q, x)[Len(q) + 1] = x
      /\ \A i \in DOMAIN Append(q, x) :
                \/ i \in DOMAIN q /\ Append(q, x)[i] = q[i]
                \/ i = Len(q) + 1 /\ Append(q, x)[i] = x
  BY LongerBy
<1>. QED
  BY <1>1, Zenon DEF RangeOf

\* The elements of two sequences joined.
LEMMA RangeJoined ==
    ASSUME NEW S, NEW l \in Seq(S), NEW q \in Seq(S)
    PROVE  RangeOf(l \o q) = RangeOf(l) \union RangeOf(q)
<1>1. /\ Len(l) \in Nat /\ Len(q) \in Nat /\ l \o q \in Seq(S)
      /\ DOMAIN l = 1 .. Len(l) /\ DOMAIN q = 1 .. Len(q)
      /\ DOMAIN (l \o q) = 1 .. Len(l) + Len(q)
      /\ \A i \in 1 .. Len(l) + Len(q) :
            (l \o q)[i] = IF i <= Len(l) THEN l[i] ELSE q[i - Len(l)]
  BY ConcatProperties, LenProperties
<1>2. ASSUME NEW i \in DOMAIN (l \o q)
      PROVE  (l \o q)[i] \in RangeOf(l) \union RangeOf(q)
  <2>1. CASE i <= Len(l)
    BY <1>1, <2>1 DEF RangeOf
  <2>2. CASE ~(i <= Len(l))
    <3>1. i - Len(l) \in DOMAIN q /\ (l \o q)[i] = q[i - Len(l)]
      BY <1>1, <2>2
    <3>. QED
      BY <3>1 DEF RangeOf
  <2>. QED
    BY <2>1, <2>2
<1>3. ASSUME NEW i \in DOMAIN l PROVE l[i] \in RangeOf(l \o q)
  <2>1. i \in DOMAIN (l \o q) /\ (l \o q)[i] = l[i]
    BY <1>1
  <2>. QED
    BY <2>1 DEF RangeOf
<1>4. ASSUME NEW i \in DOMAIN q PROVE q[i] \in RangeOf(l \o q)
  <2>1. Len(l) + i \in DOMAIN (l \o q) /\ (l \o q)[Len(l) + i] = q[i]
    BY <1>1
  <2>. QED
    BY <2>1 DEF RangeOf
<1>. QED
  BY <1>2, <1>3, <1>4 DEF RangeOf

\* A sequence joined with nothing, with one element more, and with one element moved
\* from the second part to the first.
LEMMA Joined ==
    ASSUME NEW S, NEW l \in Seq(S), NEW q \in Seq(S)
    PROVE  /\ l \o q \in Seq(S)
           /\ \A x \in S : l \o Append(q, x) = Append(l \o q, x)
           /\ q # <<>> => Append(l, Head(q)) \o Tail(q) = l \o q
<1>1. l \o q \in Seq(S)
  OBVIOUS
<1>2. ASSUME NEW x \in S PROVE l \o Append(q, x) = Append(l \o q, x)
  <2>1. /\ Append(q, x) \in Seq(S) /\ Append(l \o q, x) \in Seq(S)
        /\ Len(l) \in Nat /\ Len(q) \in Nat /\ Len(Append(q, x)) = Len(q) + 1
        /\ Len(l \o q) = Len(l) + Len(q)
        /\ Len(Append(l \o q, x)) = Len(l) + Len(q) + 1
    BY <1>1, ConcatProperties, LenProperties
  <2>2. /\ l \o Append(q, x) \in Seq(S)
        /\ Len(l \o Append(q, x)) = Len(l) + Len(q) + 1
        /\ \A i \in 1 .. Len(l) + Len(q) + 1 : (l \o Append(q, x))[i] =
                IF i <= Len(l) THEN l[i] ELSE Append(q, x)[i - Len(l)]
    BY <2>1, ConcatProperties
  <2>3. ASSUME NEW i \in 1 .. Len(l) + Len(q) + 1
        PROVE  (l \o Append(q, x))[i] = Append(l \o q, x)[i]
    <3>1. CASE i <= Len(l) + Len(q)
      <4>1. Append(l \o q, x)[i] = (l \o q)[i]
        BY <1>1, <2>1, <3>1
      <4>2. (l \o q)[i] = IF i <= Len(l) THEN l[i] ELSE q[i - Len(l)]
        BY <2>1, <3>1, ConcatProperties
      <4>3. ~(i <= Len(l)) => Append(q, x)[i - Len(l)] = q[i - Len(l)]
        BY <2>1, <3>1
      <4>. QED
        BY <2>2, <4>1, <4>2, <4>3
    <3>2. CASE i = Len(l) + Len(q) + 1
      BY <1>1, <2>1, <2>2, <3>2
    <3>. QED
      BY <2>1, <3>1, <3>2
  <2>. QED
    BY <2>1, <2>2, <2>3, SeqEqual
<1>3. ASSUME q # <<>> PROVE Append(l, Head(q)) \o Tail(q) = l \o q
  <2>. DEFINE m == Append(l, Head(q))
              r == Tail(q)
  <2>1. /\ m \in Seq(S) /\ r \in Seq(S) /\ Len(l) \in Nat /\ Len(q) \in Nat /\ Len(q) > 0
        /\ Len(m) = Len(l) + 1 /\ Len(r) = Len(q) - 1 /\ m[Len(l) + 1] = q[1]
        /\ \A i \in 1 .. Len(l) : m[i] = l[i]
        /\ \A i \in 1 .. Len(q) - 1 : r[i] = q[i + 1]
    BY <1>3
  <2>2. /\ Len(l \o q) = Len(l) + Len(q)
        /\ \A i \in 1 .. Len(l) + Len(q) :
                (l \o q)[i] = IF i <= Len(l) THEN l[i] ELSE q[i - Len(l)]
    BY ConcatProperties
  <2>. HIDE DEF m, r
  <2>3. /\ m \o r \in Seq(S) /\ Len(m \o r) = Len(l) + Len(q)
        /\ \A i \in 1 .. Len(l) + Len(q) :
                (m \o r)[i] = IF i <= Len(l) + 1 THEN m[i] ELSE r[i - (Len(l) + 1)]
    <3>1. /\ m \o r \in Seq(S) /\ Len(m \o r) = Len(m) + Len(r)
          /\ \A i \in 1 .. Len(m) + Len(r) :
                (m \o r)[i] = IF i <= Len(m) THEN m[i] ELSE r[i - Len(m)]
      BY <2>1, ConcatProperties
    <3>. QED
      BY <2>1, <3>1
  <2>4. ASSUME NEW i \in 1 .. Len(l) + Len(q) PROVE (m \o r)[i] = (l \o q)[i]
    <3>1. CASE i <= Len(l)
      BY <2>1, <2>2, <2>3, <3>1
    <3>2. CASE i = Len(l) + 1
      BY <2>1, <2>2, <2>3, <3>2
    <3>3. CASE i > Len(l) + 1
      <4>1. r[i - (Len(l) + 1)] = q[i - Len(l)]
        BY <2>1, <3>3
      <4>. QED
        BY <2>1, <2>2, <2>3, <3>3, <4>1
    <3>. QED
      BY <2>1, <3>1, <3>2, <3>3
  <2>5. m \o r = l \o q
    BY <1>1, <2>2, <2>3, <2>4, SeqEqual
  <2>. QED
    BY <2>5 DEF m, r
<1>. QED
  BY <1>1, <1>2, <1>3

\* The second of them.
LEMMA JoinedLonger ==
    ASSUME NEW S, NEW l \in Seq(S), NEW q \in Seq(S), NEW x \in S
    PROVE  l \o Append(q, x) = Append(l \o q, x)
<1>1. \A y \in S : l \o Append(q, y) = Append(l \o q, y)
  BY Joined
<1>. QED
  BY <1>1

\* The third of them.
LEMMA JoinedTail ==
    ASSUME NEW S, NEW l \in Seq(S), NEW q \in Seq(S), q # <<>>
    PROVE  Append(l, Head(q)) \o Tail(q) = l \o q
<1>1. q # <<>> => Append(l, Head(q)) \o Tail(q) = l \o q
  BY Joined, Zenon
<1>. QED
  BY <1>1, Zenon

\* The position at which an element stood before the one at i was taken out.
Old(i, j) == IF j < i THEN j ELSE j + 1

\* A sequence with an element taken out has the others, in the same order.
LEMMA WithoutOne ==
    ASSUME NEW S, NEW q \in Seq(S), NEW i \in DOMAIN q
    PROVE  /\ Without(q, i) \in Seq(S)
           /\ \A j \in DOMAIN Without(q, i) :
                /\ Old(i, j) \in DOMAIN q /\ Old(i, j) # i
                /\ Without(q, i)[j] = q[Old(i, j)]
           /\ \A j, k \in DOMAIN Without(q, i) : j < k => Old(i, j) < Old(i, k)
           /\ \A j, k \in DOMAIN Without(q, i) : j # k => Old(i, j) # Old(i, k)
<1>. DEFINE n == Len(q) - 1
            p == [j \in 1 .. n |-> IF j < i THEN q[j] ELSE q[j + 1]]
<1>1. Len(q) \in Nat /\ DOMAIN q = 1 .. Len(q) /\ n \in Nat /\ Without(q, i) = p
  BY DEF Without
<1>2. \A j \in 1 .. n : Old(i, j) \in DOMAIN q /\ Old(i, j) # i /\ p[j] = q[Old(i, j)]
  BY <1>1 DEF Old
<1>3. p \in Seq(S)
  <2>1. p \in [1 .. n -> S]
    BY <1>1, <1>2, ElementOfSeq
  <2>. QED
    BY <1>1, <2>1
<1>4. \A j, k \in 1 .. n : (j < k => Old(i, j) < Old(i, k)) /\ (j # k => Old(i, j) # Old(i, k))
  BY <1>1 DEF Old
<1>5. DOMAIN p = 1 .. n
  OBVIOUS
<1>. HIDE DEF p, n
<1>. QED
  BY <1>1, <1>2, <1>3, <1>4, <1>5

-----------------------------------------------------------------------------
\* Types.

\* A worker that is done with its write has nothing in its hands.
LEMMA DoneForgets ==
    ASSUME ReconfigTypeOK, NEW s \in Servers, DoneWith(s)
    PROVE  /\ wpc' \in [Servers -> {"lock", "pick", "write", "stray", "sent", "read"}]
           /\ hand' \in [Servers -> Writes \union {NoWrite}]
           /\ peer' \in [Servers -> Servers \union {None}]
           /\ held' \in [Servers -> BOOLEAN]
           /\ wpc'[s] = "lock" /\ hand'[s] = NoWrite /\ peer'[s] = None /\ ~held'[s]
           /\ \A r \in Servers \ {s} : /\ wpc'[r] = wpc[r] /\ hand'[r] = hand[r]
                                       /\ peer'[r] = peer[r] /\ held'[r] = held[r]
BY DEF DoneWith, ReconfigTypeOK

\* A worker that goes on holds what it held.
LEMMA StepMoves ==
    ASSUME ReconfigTypeOK, NEW s \in Servers,
           NEW label \in {"lock", "pick", "write", "stray", "sent", "read"}, StepTo(s, label)
    PROVE  /\ wpc' \in [Servers -> {"lock", "pick", "write", "stray", "sent", "read"}]
           /\ wpc'[s] = label
           /\ \A r \in Servers \ {s} : wpc'[r] = wpc[r]
BY DEF StepTo, ReconfigTypeOK

\* The first of the nodes is a server's (rtree_put sends to it).
LEMMA FirstServes ==
    ASSUME TypeOK, nodes # {}
    PROVE  FirstOf(nodes) \in nodes /\ FirstOf(nodes) \in Servers
<1>1. nodes \subseteq Nat
  BY MembershipAssumption DEF TypeOK, Servers
<1>. QED
  BY <1>1, FirstExists DEF TypeOK

\* The parts of ReconfigTypeOK that concern a worker.
WorkerTypes ==
    /\ wpc \in [Servers -> {"lock", "pick", "write", "stray", "sent", "read"}]
    /\ hand \in [Servers -> Writes \union {NoWrite}]
    /\ peer \in [Servers -> Servers \union {None}]
    /\ held \in [Servers -> BOOLEAN]
    /\ \A s \in Servers : At(s, "lock") => hand[s] = NoWrite /\ peer[s] = None /\ ~held[s]

\* Those that concern the writes.
WriteTypes ==
    /\ queue \in [Servers -> Seq(Writes)] /\ log \in [Servers -> Seq(Writes)]
    /\ wire \in [Servers -> Seq([from : Servers, w : Writes])]
    /\ sent \in 0 .. MaxWrites /\ overtaken \in BOOLEAN /\ expelled \subseteq Servers

\* Those that concern the descriptors.
LinkTypes == up \in [Servers -> BOOLEAN] /\ zero \in [Servers -> BOOLEAN]

\* Together they are ReconfigTypeOK.
LEMMA TypeParts == ReconfigTypeOK <=> WorkerTypes /\ WriteTypes /\ LinkTypes
BY DEF ReconfigTypeOK, WorkerTypes, WriteTypes, LinkTypes

\* A worker takes the first write of its queue, or drops it (process_request).
LEMMA ProcessTypes ==
    ASSUME ReconfigTypeOK, NEW s \in Servers, Process(s)
    PROVE  WorkerTypes' /\ WriteTypes' /\ LinkTypes'
<1>1. /\ queue[s] \in Seq(Writes) /\ queue[s] # <<>> /\ log[s] \in Seq(Writes)
      /\ Head(queue[s]) \in Writes /\ Tail(queue[s]) \in Seq(Writes)
      /\ Append(log[s], Head(queue[s])) \in Seq(Writes)
  BY HeadTailProperties DEF ReconfigTypeOK, Process
<1>2. WriteTypes'
  BY <1>1 DEF ReconfigTypeOK, WriteTypes, Process, link, history
<1>3. WorkerTypes'
  <2>1. CASE UNCHANGED worker
    BY <2>1 DEF worker, ReconfigTypeOK, WorkerTypes, At
  <2>2. CASE StepTo(s, "pick") /\ hand' = [hand EXCEPT ![s] = Head(queue[s])]
             /\ UNCHANGED <<peer, held>>
    BY <1>1, <2>2, StepMoves DEF ReconfigTypeOK, WorkerTypes, At
  <2>. QED
    BY <2>1, <2>2 DEF Process
<1>4. LinkTypes'
  BY DEF ReconfigTypeOK, LinkTypes, Process, link
<1>. QED
  BY <1>2, <1>3, <1>4

\* The write a worker has in its hands is one it has run (process_request).
LEMMA LastWrite ==
    ASSUME ReconfigTypeOK, Handed, NEW s \in Servers, wpc[s] # "lock"
    PROVE  hand[s] \in RangeOf(log[s]) /\ hand[s] \in Writes
<1>1. log[s] \in Seq(Writes) /\ log[s] # <<>> /\ hand[s] = log[s][Len(log[s])]
  BY DEF ReconfigTypeOK, Handed, At
<1>2. Len(log[s]) \in DOMAIN log[s]
  BY <1>1
<1>. QED
  BY <1>1, <1>2 DEF RangeOf

\* A worker sends its write, or gives up (propagate_request, send_receive).
LEMMA SendTypes ==
    ASSUME TypeOK, ReconfigTypeOK, Handed, NEW s \in Servers,
           \/ Pick(s) \/ WriteOut(s) \/ WriteFails(s) \/ WriteAstray(s)
           \/ StartRead(s) \/ Answered(s) \/ ReadFails(s) \/ StrayEnds(s)
    PROVE  WorkerTypes' /\ WriteTypes' /\ LinkTypes'
<1>1. WorkerTypes'
  <2>1. CASE DoneWith(s)
    BY <2>1, DoneForgets DEF ReconfigTypeOK, WorkerTypes, At
  <2>2. CASE /\ \E label \in {"write", "stray", "sent", "read"} : StepTo(s, label)
             /\ UNCHANGED <<hand, peer, held>>
    <3>1. PICK label \in {"write", "stray", "sent", "read"} : StepTo(s, label)
      BY <2>2
    <3>2. /\ wpc' \in [Servers -> {"lock", "pick", "write", "stray", "sent", "read"}]
          /\ wpc'[s] # "lock" /\ \A r \in Servers \ {s} : wpc'[r] = wpc[r]
      BY <3>1, StepMoves
    <3>. QED
      BY <2>2, <3>2 DEF ReconfigTypeOK, WorkerTypes, At
  <2>3. CASE /\ peer' = [peer EXCEPT ![s] = nextSocket[s]]
             /\ held' = [held EXCEPT ![s] = TRUE]
             /\ StepTo(s, "write") /\ UNCHANGED hand
    <3>1. nextSocket[s] \in Servers \union {None}
      BY DEF TypeOK
    <3>. QED
      BY <2>3, <3>1, StepMoves DEF ReconfigTypeOK, WorkerTypes, At
  <2>. QED
    BY <2>1, <2>2, <2>3
       DEF Pick, WriteOut, WriteFails, WriteAstray, StartRead, Answered, ReadFails,
           StrayEnds, GiveUp
<1>2. WriteTypes'
  <2>1. CASE UNCHANGED <<queue, log, wire, sent, history>>
    BY <2>1 DEF ReconfigTypeOK, WriteTypes, history
  <2>2. CASE WriteOut(s)
    <3>1. peer[s] \in Servers
      BY <2>2 DEF WriteOut, Connected, TypeOK
    <3>2. hand[s] \in Writes
      BY <2>2, LastWrite DEF WriteOut, At
    <3>3. wire' \in [Servers -> Seq([from : Servers, w : Writes])]
      <4>. DEFINE M == [from : Servers, w : Writes]
                  m == [from |-> s, w |-> hand[s]]
      <4>1. wire \in [Servers -> Seq(M)] /\ wire[peer[s]] \in Seq(M) /\ m \in M
        BY <3>1, <3>2 DEF ReconfigTypeOK
      <4>2. wire' = [wire EXCEPT ![peer[s]] = Append(wire[peer[s]], m)]
        BY <2>2 DEF WriteOut
      <4>. HIDE DEF M, m
      <4>3. Append(wire[peer[s]], m) \in Seq(M)
        BY <4>1
      <4>4. wire' \in [Servers -> Seq(M)]
        BY <3>1, <4>1, <4>2, <4>3
      <4>. QED
        BY <4>4 DEF M
    <3>. QED
      BY <2>2, <3>3 DEF ReconfigTypeOK, WriteTypes, WriteOut, history
  <2>. QED
    BY <2>1, <2>2
       DEF Pick, WriteFails, WriteAstray, StartRead, Answered, ReadFails,
           StrayEnds, OnlyWorker, link
<1>3. LinkTypes'
  BY DEF ReconfigTypeOK, LinkTypes, Pick, WriteOut, WriteFails, WriteAstray, StartRead,
         Answered, ReadFails, StrayEnds, link
<1>. QED
  BY <1>1, <1>2, <1>3

\* A write arrives at a server, or is lost (queue_add, network_main_loop).
LEMMA NetworkTypes ==
    ASSUME ReconfigTypeOK, NEW s \in Servers, Arrive(s) \/ Lose(s)
    PROVE  WorkerTypes' /\ WriteTypes' /\ LinkTypes'
<1>1. WorkerTypes' /\ LinkTypes'
  BY DEF ReconfigTypeOK, WorkerTypes, LinkTypes, At, Arrive, Lose, worker
<1>2. wire[s] \in Seq([from : Servers, w : Writes])
  BY DEF ReconfigTypeOK
<1>3. CASE Arrive(s)
  <2>1. PICK i \in DOMAIN wire[s] :
            /\ queue' = [queue EXCEPT ![s] = Append(@, wire[s][i].w)]
            /\ wire' = [wire EXCEPT ![s] = Without(@, i)]
            /\ overtaken' = (overtaken \/ i > 1)
    BY <1>3 DEF Arrive, Enqueue
  <2>2. wire[s][i] \in [from : Servers, w : Writes]
    BY <1>2, ElementOfSeq, LenProperties
  <2>3. Without(wire[s], i) \in Seq([from : Servers, w : Writes])
    BY <1>2, WithoutOne
  <2>4. wire[s][i].w \in Writes /\ overtaken' \in BOOLEAN
    BY <2>1, <2>2
  <2>5. queue' \in [Servers -> Seq(Writes)]
    BY <2>1, <2>4 DEF ReconfigTypeOK
  <2>6. wire' \in [Servers -> Seq([from : Servers, w : Writes])]
    BY <2>1, <2>3 DEF ReconfigTypeOK
  <2>. QED
    BY <1>1, <1>3, <2>4, <2>5, <2>6 DEF ReconfigTypeOK, WriteTypes, Arrive
<1>4. CASE Lose(s)
  <2>1. PICK i \in DOMAIN wire[s] : wire' = [wire EXCEPT ![s] = Without(@, i)]
    BY <1>4 DEF Lose
  <2>2. Without(wire[s], i) \in Seq([from : Servers, w : Writes])
    BY <1>2, WithoutOne
  <2>3. wire' \in [Servers -> Seq([from : Servers, w : Writes])]
    BY <2>1, <2>2 DEF ReconfigTypeOK
  <2>. QED
    BY <1>1, <1>4, <2>3 DEF ReconfigTypeOK, WriteTypes, Lose, history
<1>. QED
  BY <1>3, <1>4

\* A client sends a write (rtree_put).
LEMMA ClientTypes ==
    ASSUME TypeOK, ReconfigTypeOK, SendWrite
    PROVE  WorkerTypes' /\ WriteTypes' /\ LinkTypes'
<1>1. WorkerTypes' /\ LinkTypes'
  BY DEF ReconfigTypeOK, WorkerTypes, LinkTypes, At, SendWrite, worker, link
<1>. DEFINE h == FirstOf(nodes)
<1>2. h \in Servers
  BY FirstServes DEF SendWrite
<1>3. /\ sent < MaxWrites /\ queue' = [queue EXCEPT ![h] = Append(@, sent + 1)]
      /\ sent' = sent + 1 /\ UNCHANGED <<log, wire, history>>
  BY DEF SendWrite, Enqueue, link
<1>. HIDE DEF h
<1>4. sent + 1 \in Writes /\ sent' \in 0 .. MaxWrites
  BY <1>3, ReconfigAssumption DEF ReconfigTypeOK, Writes
<1>5. queue' \in [Servers -> Seq(Writes)]
  BY <1>2, <1>3, <1>4 DEF ReconfigTypeOK
<1>. QED
  BY <1>1, <1>3, <1>4, <1>5 DEF ReconfigTypeOK, WriteTypes, history

\* The steps of Membership that leave the writes and the workers alone.  They change
\* who is expelled only where a session ends.
Quietly(s) ==
    /\ \/ /\ \/ Register(s) \/ SessionEvent(s) \/ Deliver(s) \/ Listen(s)
             \/ \E t \in Threads :
                \/ GetChildren(s, t) \/ GetChildrenFails(s, t) \/ SetNext(s, t)
                \/ GetAddress(s, t) \/ GetAddressFails(s, t) \/ ConnectFails(s, t)
          /\ UNCHANGED expelled
       \/ Expire(s) /\ expelled' = expelled \union ({s} \intersect alive)
    /\ UNCHANGED <<queue, log, worker, link, sent, overtaken>>

\* A server dies, is connected anew, or something happens to its session
\* (connect_to_server).
LEMMA MemberTypes ==
    ASSUME ReconfigTypeOK, NEW s \in Servers,
           Quietly(s) \/ Die(s) \/ \E t \in Threads : Reconnect(s, t)
    PROVE  WorkerTypes' /\ WriteTypes' /\ LinkTypes'
<1>1. CASE Quietly(s)
  <2>1. UNCHANGED <<queue, log, worker, link, sent, overtaken>>
    BY <1>1 DEF Quietly
  <2>2. expelled' \subseteq Servers
    BY <1>1 DEF Quietly, ReconfigTypeOK
  <2>3. WorkerTypes' /\ LinkTypes'
    BY <2>1 DEF worker, link, ReconfigTypeOK, WorkerTypes, LinkTypes, At
  <2>. QED
    BY <2>1, <2>2, <2>3 DEF link, ReconfigTypeOK, WriteTypes
<1>2. CASE Die(s)
  <2>1. WorkerTypes'
    BY <1>2, DoneForgets DEF ReconfigTypeOK, WorkerTypes, At, Die
  <2>2. <<>> \in Seq(Writes) /\ <<>> \in Seq([from : Servers, w : Writes])
    OBVIOUS
  <2>3. WriteTypes' /\ LinkTypes'
    BY <1>2, <2>2 DEF ReconfigTypeOK, WriteTypes, LinkTypes, Die, history
  <2>. QED
    BY <2>1, <2>3
<1>3. ASSUME NEW t \in Threads, Reconnect(s, t) PROVE WorkerTypes' /\ WriteTypes' /\ LinkTypes'
  <2>1. UNCHANGED <<queue, log, wpc, hand, peer, zero, wire, sent, history>>
    BY <1>3 DEF Reconnect
  <2>2. held' = [held EXCEPT ![s] = FALSE]
    BY <1>3 DEF Reconnect
  <2>3. up' \in [Servers -> BOOLEAN]
    BY <1>3 DEF Reconnect, Replace, ReconfigTypeOK
  <2>. QED
    BY <2>1, <2>2, <2>3
       DEF ReconfigTypeOK, WorkerTypes, WriteTypes, LinkTypes, At, history
<1>. QED
  BY <1>1, <1>2, <1>3

\* The steps of a worker that has a write in its hands (propagate_request).
Sends(s) ==
    \/ Pick(s) \/ WriteOut(s) \/ WriteFails(s) \/ WriteAstray(s)
    \/ StartRead(s) \/ Answered(s) \/ ReadFails(s) \/ StrayEnds(s)

\* What a step of the system is: one of these.
LEMMA Steps ==
    ASSUME [ReconfigNext]_rvars
    PROVE  \/ UNCHANGED rvars
           \/ SendWrite
           \/ \E s \in Servers :
                \/ Process(s) \/ Sends(s) \/ Arrive(s) \/ Lose(s) \/ Die(s)
                \/ \E t \in Threads : Reconnect(s, t)
                \/ Quietly(s)
<1>1. ASSUME NEW s \in Servers,
             \/ Worker(s) \/ StrayEnds(s) \/ Arrive(s) \/ Lose(s)
             \/ Join(s) \/ End(s) \/ Resume(s) \/ Watching(s) \/ Die(s)
      PROVE  \/ Process(s) \/ Sends(s) \/ Arrive(s) \/ Lose(s) \/ Die(s)
             \/ \E t \in Threads : Reconnect(s, t)
             \/ Quietly(s)
  <2>1. CASE Worker(s) \/ StrayEnds(s)
    BY <2>1 DEF Worker, Sends
  <2>2. CASE Join(s) \/ End(s) \/ Resume(s)
    BY <2>2 DEF Join, End, Resume, Quietly, chain, history
  <2>3. CASE Watching(s)
    BY <2>3 DEF Watching, Watcher, Notice, Ready, Quietly, chain, history
  <2>. QED
    BY <1>1, <2>1, <2>2, <2>3
<1>2. CASE UNCHANGED rvars
  BY <1>2
<1>3. CASE ReconfigNext
  BY <1>1, <1>3 DEF ReconfigNext
<1>. QED
  BY <1>2, <1>3

\* Every step of the system is a step of Membership or leaves its variables alone.
LEMMA StepIsMembers ==
    ASSUME [ReconfigNext]_rvars
    PROVE  [Next]_vars
<1>1. CASE UNCHANGED rvars
  BY <1>1 DEF rvars
<1>2. CASE SendWrite
  BY <1>2 DEF SendWrite
<1>3. ASSUME NEW s \in Servers,
             Process(s) \/ Sends(s) \/ Arrive(s) \/ Lose(s)
      PROVE  UNCHANGED vars
  BY <1>3 DEF Process, Sends, Arrive, Lose, Pick, WriteOut, WriteFails, WriteAstray,
              StartRead, Answered, ReadFails, StrayEnds, OnlyWorker
<1>4. ASSUME NEW s \in Servers, Die(s) PROVE Next
  BY <1>4 DEF Die, Next
<1>5. ASSUME NEW s \in Servers, NEW t \in Threads, Reconnect(s, t) PROVE Next
  BY <1>5 DEF Reconnect, Next, child_watcher
<1>6. ASSUME NEW s \in Servers, Quietly(s) PROVE Next
  BY <1>6 DEF Quietly, Next, child_watcher
<1>. QED
  BY <1>1, <1>2, <1>3, <1>4, <1>5, <1>6, Steps

\* Every step keeps the types.
LEMMA TypesKept ==
    ASSUME TypeOK, ReconfigTypeOK, Handed, [ReconfigNext]_rvars
    PROVE  ReconfigTypeOK'
<1>. DEFINE Parts == WorkerTypes /\ WriteTypes /\ LinkTypes
<1>0. Parts' => ReconfigTypeOK'
  BY DEF ReconfigTypeOK, WorkerTypes, WriteTypes, LinkTypes
<1>1. CASE UNCHANGED chain
  BY <1>1 DEF chain, worker, link, history, ReconfigTypeOK, At
<1>2. ASSUME SendWrite PROVE Parts'
  BY <1>2, ClientTypes
<1>3. ASSUME NEW s \in Servers, Process(s) PROVE Parts'
  BY <1>3, ProcessTypes
<1>4. ASSUME NEW s \in Servers, Sends(s) PROVE Parts'
  BY <1>4, SendTypes DEF Sends
<1>5. ASSUME NEW s \in Servers, Arrive(s) \/ Lose(s) PROVE Parts'
  BY <1>5, NetworkTypes
<1>6. ASSUME NEW s \in Servers, Quietly(s) \/ Die(s) \/ \E t \in Threads : Reconnect(s, t)
      PROVE  Parts'
  BY <1>6, MemberTypes
<1>. HIDE DEF Parts
<1>. QED
  BY <1>0, <1>1, <1>2, <1>3, <1>4, <1>5, <1>6, Steps DEF rvars

-----------------------------------------------------------------------------
\* Who stands next to whom.

\* A step adds no node but the one with the next number (zookeeper_connect).
LEMMA NodesGrow ==
    ASSUME TypeOK, [Next]_vars
    PROVE  /\ nodes' \subseteq nodes \union {created + 1}
           /\ created' \in Nat /\ created \in Nat /\ created <= created'
<1>1. created \in Nat
  BY MembershipAssumption DEF TypeOK
<1>2. CASE UNCHANGED vars
  BY <1>1, <1>2 DEF vars, zookeeper
<1>3. CASE Next
  <2>1. PICK s \in Servers :
            \/ Register(s) \/ Expire(s) \/ SessionEvent(s) \/ Deliver(s)
            \/ (\E t \in Threads : child_watcher(s, t)) \/ Listen(s) \/ Crash(s)
    BY <1>3 DEF Next
  <2>2. CASE \E t \in Threads : child_watcher(s, t)
    BY <1>1, <2>2, WatcherMoves
  <2>3. CASE Register(s)
    BY <1>1, <2>3 DEF Register
  <2>. QED
    BY <1>1, <2>1, <2>2, <2>3
       DEF Expire, SessionEvent, Deliver, Listen, Crash, zookeeper
<1>. QED
  BY <1>2, <1>3

\* So none comes to stand between a server and the one it has taken for the next.
LEMMA NextToStays ==
    ASSUME TypeOK, [Next]_vars, NEW s \in Servers, NEW p \in Servers \union {None},
           NextTo(s, p)
    PROVE  NextTo(s, p)'
<1>1. Servers \subseteq Nat /\ None \in Nat /\ s \in Nat /\ p \in Nat
  BY MembershipAssumption DEF Servers, None
<1>2. nodes \subseteq Nat
  BY <1>1 DEF TypeOK
<1>3. /\ nodes' \subseteq nodes \union {created + 1}
      /\ created' \in Nat /\ created \in Nat /\ created <= created'
  BY NodesGrow
<1>4. CASE p = None
  BY <1>4 DEF NextTo
<1>5. CASE p # None
  <2>1. s < p /\ p <= created /\ \A n \in nodes : ~(s < n /\ n < p)
    BY <1>5 DEF NextTo
  <2>2. \A n \in nodes' : ~(s < n /\ n < p)
    BY <1>1, <1>2, <1>3, <2>1
  <2>. QED
    BY <1>1, <1>3, <2>1, <2>2 DEF NextTo
<1>. QED
  BY <1>4, <1>5

\* The next in the list of the nodes stands next (child_watcher).
LEMMA SuccessorIsNextTo ==
    ASSUME TypeOK, Unborn, NEW s \in Servers
    PROVE  NextTo(s, Successor(nodes, s))
<1>. DEFINE F == Followers(nodes, s)
<1>1. nodes \subseteq Nat /\ nodes \subseteq Servers /\ s \in Nat /\ created \in Nat
  BY MembershipAssumption DEF TypeOK, Servers
<1>2. CASE Successor(nodes, s) = None
  BY <1>2 DEF NextTo
<1>3. CASE Successor(nodes, s) # None
  <2>1. F # {} /\ Successor(nodes, s) = FirstOf(F)
    BY <1>3 DEF Successor
  <2>2. F \subseteq Nat
    BY <1>1 DEF Followers
  <2>3. FirstOf(F) \in F /\ \A m \in F : FirstOf(F) <= m
    BY <2>1, <2>2, FirstIsLeast
  <2>4. FirstOf(F) \in nodes /\ FirstOf(F) > s
    BY <2>3 DEF Followers, Follows
  <2>5. \A n \in nodes : s < n => n \in F
    BY <1>1 DEF Followers, Follows
  <2>. HIDE DEF F
  <2>6. FirstOf(F) <= created
    <3>1. FirstOf(F) \in Servers /\ FirstOf(F) \in Nat
      BY <1>1, <2>4
    <3>2. ~(FirstOf(F) > created)
      BY <2>4, <3>1 DEF Unborn
    <3>. QED
      BY <1>1, <3>1, <3>2
  <2>7. \A n \in nodes : ~(s < n /\ n < FirstOf(F))
    <3>. SUFFICES ASSUME NEW n \in nodes, s < n, n < FirstOf(F) PROVE FALSE
      OBVIOUS
    <3>1. FirstOf(F) <= n /\ FirstOf(F) \in Nat /\ n \in Nat
      BY <1>1, <2>3, <2>4, <2>5
    <3>. QED
      BY <3>1
  <2>8. s < FirstOf(F)
    BY <1>1, <2>4
  <2>. QED
    BY <2>1, <2>6, <2>7, <2>8 DEF NextTo
<1>. QED
  BY <1>2, <1>3

\* A server that runs has its node, or has lost it with its session (zookeeper_connect).
LEMMA KnownKept ==
    ASSUME TypeOK, Known, [ReconfigNext]_rvars
    PROVE  Known'
<1>1. CASE UNCHANGED <<alive, nodes, expelled>>
  BY <1>1 DEF Known
<1>2. ASSUME UNCHANGED rvars \/ SendWrite PROVE UNCHANGED <<alive, nodes, expelled>>
  BY <1>2 DEF rvars, vars, zookeeper, process, chain, history, SendWrite
<1>3. ASSUME NEW s \in Servers, Process(s) \/ Sends(s) \/ Arrive(s) \/ Lose(s)
      PROVE  UNCHANGED <<alive, nodes, expelled>>
  BY <1>3 DEF Process, Sends, Arrive, Lose, Pick, WriteOut, WriteFails, WriteAstray,
              StartRead, Answered, ReadFails, StrayEnds, OnlyWorker, vars, zookeeper,
              process, history
<1>4. ASSUME NEW s \in Servers, Die(s) PROVE Known'
  BY <1>4 DEF Die, Crash, history, Known
<1>5. ASSUME NEW s \in Servers, NEW t \in Threads, child_watcher(s, t)
      PROVE  UNCHANGED <<alive, nodes>>
  BY <1>5, WatcherMoves DEF process
<1>6. ASSUME NEW s \in Servers, NEW t \in Threads, Reconnect(s, t)
      PROVE  UNCHANGED <<alive, nodes, expelled>>
  BY <1>5, <1>6 DEF Reconnect, child_watcher, history
<1>7. ASSUME NEW s \in Servers, Quietly(s) PROVE Known'
  <2>1. CASE Expire(s) /\ expelled' = expelled \union ({s} \intersect alive)
    BY <2>1 DEF Expire, process, Known
  <2>2. CASE Register(s) /\ UNCHANGED expelled
    BY <2>2 DEF Register, Known
  <2>3. CASE (SessionEvent(s) \/ Deliver(s) \/ Listen(s)) /\ UNCHANGED expelled
    BY <2>3 DEF SessionEvent, Deliver, Listen, zookeeper, process, Known
  <2>4. CASE UNCHANGED expelled /\ \E t \in Threads : child_watcher(s, t)
    BY <1>1, <1>5, <2>4
  <2>. QED
    BY <1>7, <2>1, <2>2, <2>3, <2>4 DEF Quietly, child_watcher
<1>. QED
  BY <1>1, <1>2, <1>3, <1>4, <1>6, <1>7, Steps

\* Whom a server takes for the next it has read from the list (child_watcher).
LEMMA NextRead ==
    ASSUME TypeOK, [Next]_vars, NEW s \in Servers
    PROVE  /\ \/ nextSocket'[s] \in {nextSocket[s], None}
              \/ \E t \in Threads : nextSocket'[s] = next[s][t]
           /\ \A t \in Threads : next'[s][t] \in {next[s][t], None, Successor(nodes, s)}
<1>. DEFINE Goal == /\ \/ nextSocket'[s] \in {nextSocket[s], None}
                       \/ \E t \in Threads : nextSocket'[s] = next[s][t]
                    /\ \A t \in Threads :
                            next'[s][t] \in {next[s][t], None, Successor(nodes, s)}
<1>1. CASE UNCHANGED <<next, nextSocket>>
  BY <1>1
<1>2. ASSUME NEW r \in Servers, NEW u \in Threads, GetChildren(r, u) PROVE Goal
  BY <1>2 DEF GetChildren, TypeOK
<1>3. ASSUME NEW r \in Servers, NEW u \in Threads, Return(r, u), UNCHANGED nextSocket
      PROVE  Goal
  BY <1>3 DEF Return, TypeOK
<1>4. ASSUME NEW r \in Servers, NEW u \in Threads, Connect(r, u) PROVE Goal
  BY <1>4 DEF Connect, UseSocket, Return, TypeOK
<1>5. ASSUME NEW r \in Servers, Crash(r) PROVE Goal
  BY <1>5 DEF Crash, TypeOK
<1>6. ASSUME NEW r \in Servers, NEW u \in Threads, child_watcher(r, u) PROVE Goal
  BY <1>1, <1>2, <1>3, <1>4, <1>6
     DEF child_watcher, GetChildrenFails, SetNext, GetAddress, GetAddressFails, ConnectFails
<1>7. ASSUME NEW r \in Servers,
             Register(r) \/ Expire(r) \/ SessionEvent(r) \/ Deliver(r) \/ Listen(r)
      PROVE  UNCHANGED <<next, nextSocket>>
  BY <1>7 DEF Register, Expire, SessionEvent, Deliver, Listen
<1>8. CASE UNCHANGED vars
  BY <1>1, <1>8 DEF vars
<1>9. CASE Next
  BY <1>1, <1>5, <1>6, <1>7, <1>9 DEF Next
<1>. QED
  BY <1>8, <1>9

\* A worker writes to the server that it reads from nextSocket (propagate_request).
LEMMA PeerRead ==
    ASSUME ReconfigTypeOK, [ReconfigNext]_rvars, NEW s \in Servers
    PROVE  peer'[s] \in {peer[s], None, nextSocket[s]}
<1>1. ASSUME NEW r \in Servers, DoneWith(r) PROVE peer'[s] \in {peer[s], None}
  BY <1>1 DEF DoneWith, ReconfigTypeOK
<1>2. ASSUME NEW r \in Servers, Sends(r) PROVE peer'[s] \in {peer[s], None, nextSocket[s]}
  <2>1. CASE DoneWith(r) \/ UNCHANGED peer
    BY <1>1, <2>1
  <2>2. CASE peer' = [peer EXCEPT ![r] = nextSocket[r]]
    BY <2>2 DEF ReconfigTypeOK
  <2>. QED
    BY <1>2, <2>1, <2>2
       DEF Sends, Pick, WriteOut, WriteFails, WriteAstray, StartRead, Answered, ReadFails,
           StrayEnds, GiveUp
<1>3. ASSUME NEW r \in Servers, Die(r) PROVE DoneWith(r)
  BY <1>3 DEF Die
<1>4. ASSUME NEW r \in Servers,
             \/ Process(r) \/ Arrive(r) \/ Lose(r) \/ Quietly(r)
             \/ \E t \in Threads : Reconnect(r, t)
      PROVE  UNCHANGED peer
  BY <1>4 DEF Process, Arrive, Lose, Quietly, Reconnect, worker
<1>5. ASSUME SendWrite \/ UNCHANGED rvars PROVE UNCHANGED peer
  BY <1>5 DEF SendWrite, rvars, chain, worker
<1>. QED
  BY <1>1, <1>2, <1>3, <1>4, <1>5, Steps

\* No server stands between one and the next it has a connection to, or is about to
\* connect to (child_watcher, connect_to_server).
LEMMA AdjacentKept ==
    ASSUME TypeOK, Unborn, ReconfigTypeOK, Adjacent, [ReconfigNext]_rvars,
           TypeOK', ReconfigTypeOK'
    PROVE  Adjacent'
<1>1. [Next]_vars
  BY StepIsMembers
<1>2. SUFFICES ASSUME NEW s \in Servers
               PROVE  /\ NextTo(s, nextSocket[s])' /\ NextTo(s, peer[s])'
                      /\ \A t \in Threads : NextTo(s, next[s][t])'
  BY DEF Adjacent
<1>3. NextTo(s, None) /\ NextTo(s, Successor(nodes, s))
  BY SuccessorIsNextTo DEF NextTo
<1>4. NextTo(s, nextSocket[s]) /\ NextTo(s, peer[s]) /\ \A t \in Threads : NextTo(s, next[s][t])
  BY DEF Adjacent
<1>5. NextTo(s, nextSocket[s])'
  <2>1. PICK p \in Servers \union {None} : p = nextSocket'[s]
    BY DEF TypeOK
  <2>2. NextTo(s, p)
    BY <1>1, <1>3, <1>4, <2>1, NextRead
  <2>3. NextTo(s, p)'
    BY <1>1, <2>2, NextToStays
  <2>. QED
    BY <2>1, <2>3 DEF NextTo
<1>6. NextTo(s, peer[s])'
  <2>1. PICK p \in Servers \union {None} : p = peer'[s]
    BY DEF ReconfigTypeOK
  <2>2. NextTo(s, p)
    BY <1>3, <1>4, <2>1, PeerRead
  <2>3. NextTo(s, p)'
    BY <1>1, <2>2, NextToStays
  <2>. QED
    BY <2>1, <2>3 DEF NextTo
<1>7. ASSUME NEW t \in Threads PROVE NextTo(s, next[s][t])'
  <2>1. PICK p \in Servers \union {None} : p = next'[s][t]
    BY DEF TypeOK
  <2>2. NextTo(s, p)
    BY <1>1, <1>3, <1>4, <2>1, NextRead
  <2>3. NextTo(s, p)'
    BY <1>1, <2>2, NextToStays
  <2>. QED
    BY <2>1, <2>3 DEF NextTo
<1>. QED
  BY <1>5, <1>6, <1>7

-----------------------------------------------------------------------------
\* Who has something to do.

\* Only a server that runs works on a write, and only such a one is sent any.
LEMMA RunsWhatActs ==
    ASSUME TypeOK, Buried, NEW s \in Servers,
           Process(s) \/ Sends(s) \/ Arrive(s) \/ Lose(s) \/ Die(s)
    PROVE  s \in alive
<1>1. CASE Process(s)
  BY <1>1 DEF Process, Buried
<1>2. CASE Sends(s)
  BY <1>2 DEF Sends, Pick, WriteOut, WriteFails, WriteAstray, StartRead, Answered, ReadFails,
              StrayEnds, At, Buried
<1>3. CASE Arrive(s)
  BY <1>3 DEF Arrive, TypeOK
<1>4. CASE Lose(s)
  <2>1. DOMAIN wire[s] # {}
    BY <1>4 DEF Lose
  <2>2. DOMAIN <<>> = {}
    OBVIOUS
  <2>. QED
    BY <2>1, <2>2 DEF Buried
<1>5. CASE Die(s)
  BY <1>5 DEF Die, Crash
<1>. QED
  BY <1>1, <1>2, <1>3, <1>4, <1>5

\* Of Sends, all but WriteOut leave the writes where they are.
LEMMA SendsLeave ==
    ASSUME NEW s \in Servers, Sends(s)
    PROVE  /\ UNCHANGED <<alive, nodes, queue, log, sent, overtaken, expelled>>
           /\ WriteOut(s) \/ UNCHANGED wire
BY DEF Sends, Pick, WriteOut, WriteFails, WriteAstray, StartRead, Answered, ReadFails,
       StrayEnds, OnlyWorker, link, history, vars, zookeeper, process

\* A worker keeps its write until it is done with it, and sends it only once.
LEMMA SendsKeep ==
    ASSUME ReconfigTypeOK, NEW s \in Servers, Sends(s)
    PROVE  /\ \A r \in Servers \ {s} : wpc'[r] = wpc[r] /\ hand'[r] = hand[r]
           /\ wpc[s] # "lock"
           /\ wpc'[s] # "lock" => hand'[s] = hand[s]
           /\ wpc'[s] \in {"pick", "write"} => wpc[s] \in {"pick", "write"} /\ ~WriteOut(s)
<1>1. CASE DoneWith(s)
  BY <1>1, DoneForgets
     DEF Sends, Pick, WriteOut, WriteFails, WriteAstray, StartRead, Answered, ReadFails,
         StrayEnds, At
<1>2. CASE UNCHANGED hand /\ \E label \in {"stray", "sent", "read"} : StepTo(s, label)
  BY <1>2, StepMoves
     DEF Sends, Pick, WriteOut, WriteFails, WriteAstray, StartRead, Answered, ReadFails,
         StrayEnds, At
<1>3. CASE UNCHANGED hand /\ StepTo(s, "write") /\ At(s, "pick")
  BY <1>3, StepMoves DEF WriteOut, At
<1>. QED
  BY <1>1, <1>2, <1>3
     DEF Sends, Pick, WriteOut, WriteFails, WriteAstray, StartRead, Answered, ReadFails,
         StrayEnds, GiveUp

\* Of the steps of Membership, only Register and Crash change who runs.  None takes back
\* that a session has ended.
LEMMA QuietlyAlive ==
    ASSUME TypeOK, NEW r \in Servers, Quietly(r) \/ \E t \in Threads : Reconnect(r, t)
    PROVE  /\ alive' = alive \/ (Register(r) /\ alive' = alive \union {r} /\ r = created + 1)
           /\ expelled \subseteq expelled'
<1>0. expelled \subseteq expelled'
  BY DEF Quietly, Reconnect, history
<1>1. ASSUME NEW t \in Threads, child_watcher(r, t) PROVE alive' = alive
  BY <1>1, WatcherMoves DEF process
<1>2. CASE \E t \in Threads : Reconnect(r, t)
  BY <1>0, <1>1, <1>2 DEF Reconnect, child_watcher
<1>3. CASE Quietly(r)
  BY <1>0, <1>1, <1>3
     DEF Quietly, Register, Expire, SessionEvent, Deliver, Listen, process, child_watcher
<1>. QED
  BY <1>0, <1>2, <1>3

\* Servers that do not run have nothing to do after a step either.
LEMMA BuriedKept ==
    ASSUME TypeOK, ReconfigTypeOK, Buried, [ReconfigNext]_rvars
    PROVE  Buried'
<1>. DEFINE Idle(s) == queue[s] = <<>> /\ log[s] = <<>> /\ wire[s] = <<>> /\ wpc[s] = "lock"
<1>0. \A s \in Servers \ alive : Idle(s)
  BY DEF Buried, At
<1>. SUFFICES ASSUME NEW s \in Servers, s \notin alive' PROVE Idle(s)'
  BY DEF Buried, At
<1>1. CASE UNCHANGED rvars
  BY <1>0, <1>1 DEF rvars, vars, process, chain, worker, link
<1>2. CASE SendWrite
  <2>1. UNCHANGED <<alive, log, wire, wpc>>
    BY <1>2 DEF SendWrite, vars, process, link, worker
  <2>2. queue'[s] = queue[s]
    BY <1>2, <2>1 DEF SendWrite, TypeOK, ReconfigTypeOK
  <2>. QED
    BY <1>0, <2>1, <2>2
<1>3. ASSUME NEW r \in Servers, Process(r) PROVE Idle(s)'
  <2>1. r \in alive /\ UNCHANGED <<alive, wire>>
    BY <1>3, RunsWhatActs DEF Process, vars, process, link
  <2>2. queue'[s] = queue[s] /\ log'[s] = log[s]
    BY <1>3, <2>1 DEF Process, ReconfigTypeOK
  <2>3. wpc'[s] = wpc[s]
    BY <1>3, <2>1 DEF Process, StepTo, worker, ReconfigTypeOK
  <2>. QED
    BY <1>0, <2>1, <2>2, <2>3
<1>4. ASSUME NEW r \in Servers, Sends(r) PROVE Idle(s)'
  <2>1. r \in alive /\ UNCHANGED <<alive, queue, log>>
    BY <1>4, RunsWhatActs, SendsLeave
  <2>2. wpc'[s] = wpc[s]
    BY <1>4, <2>1, SendsKeep
  <2>3. wire'[s] = wire[s]
    <3>1. CASE WriteOut(r)
      <4>1. peer[r] # s
        BY <2>1, <3>1 DEF WriteOut, Connected
      <4>. QED
        BY <3>1, <4>1 DEF WriteOut, ReconfigTypeOK
    <3>. QED
      BY <1>4, <3>1, SendsLeave
  <2>. QED
    BY <1>0, <2>1, <2>2, <2>3
<1>5. ASSUME NEW r \in Servers, Arrive(r) \/ Lose(r) PROVE Idle(s)'
  <2>1. r \in alive /\ UNCHANGED <<alive, log, wpc>>
    BY <1>5, RunsWhatActs DEF Arrive, Lose, vars, process, worker
  <2>2. wire'[s] = wire[s] /\ queue'[s] = queue[s]
    BY <1>5, <2>1 DEF Arrive, Lose, ReconfigTypeOK
  <2>. QED
    BY <1>0, <2>1, <2>2
<1>6. ASSUME NEW r \in Servers, Die(r) PROVE Idle(s)'
  <2>1. alive' = alive \ {r}
    BY <1>6 DEF Die, Crash
  <2>2. CASE s = r
    BY <1>6, <2>2, DoneForgets DEF Die, ReconfigTypeOK
  <2>3. CASE s # r
    BY <1>0, <1>6, <2>1, <2>3, DoneForgets DEF Die, ReconfigTypeOK
  <2>. QED
    BY <2>2, <2>3
<1>7. ASSUME NEW r \in Servers, Quietly(r) \/ \E t \in Threads : Reconnect(r, t)
      PROVE  Idle(s)'
  <2>1. UNCHANGED <<queue, log, wire, wpc>>
    BY <1>7 DEF Quietly, Reconnect, worker, link
  <2>2. alive \subseteq alive'
    BY <1>7, QuietlyAlive
  <2>. QED
    BY <1>0, <2>1, <2>2
<1>. QED
  BY <1>1, <1>2, <1>3, <1>4, <1>5, <1>6, <1>7, Steps

\* What a worker holds is still the last write it has run after a step.
LEMMA HandedKept ==
    ASSUME TypeOK, ReconfigTypeOK, Handed, [ReconfigNext]_rvars
    PROVE  Handed'
<1>. DEFINE Held(s) == wpc[s] # "lock" => log[s] # <<>> /\ hand[s] = log[s][Len(log[s])]
<1>0. \A s \in Servers : Held(s)
  BY DEF Handed, At
<1>. SUFFICES ASSUME NEW s \in Servers PROVE Held(s)'
  BY DEF Handed, At
<1>1. CASE UNCHANGED <<wpc, log, hand>>
  BY <1>0, <1>1
<1>2. ASSUME NEW r \in Servers, Process(r) PROVE Held(s)'
  <2>1. CASE s = r
    <3>1. log[s] \in Seq(Writes) /\ Head(queue[s]) \in Writes
      BY <1>2, <2>1, HeadTailProperties DEF Process, ReconfigTypeOK
    <3>2. log'[s] = Append(log[s], Head(queue[s])) /\ wpc[s] = "lock"
      BY <1>2, <2>1 DEF Process, ReconfigTypeOK, At
    <3>3. log'[s] # <<>> /\ log'[s][Len(log'[s])] = Head(queue[s])
      BY <3>1, <3>2, LongerBy
    <3>4. wpc'[s] = "lock" \/ hand'[s] = Head(queue[s])
      BY <1>2, <2>1, <3>2 DEF Process, ReconfigTypeOK, worker
    <3>. QED
      BY <3>3, <3>4
  <2>2. CASE s # r
    <3>1. log'[s] = log[s] /\ wpc'[s] = wpc[s] /\ hand'[s] = hand[s]
      BY <1>2, <2>2 DEF Process, ReconfigTypeOK, worker, StepTo
    <3>. QED
      BY <1>0, <3>1
  <2>. QED
    BY <2>1, <2>2
<1>3. ASSUME NEW r \in Servers, Sends(r) PROVE Held(s)'
  <2>1. log' = log
    BY <1>3, SendsLeave
  <2>2. wpc'[s] # "lock" => wpc[s] # "lock" /\ hand'[s] = hand[s]
    BY <1>3, SendsKeep
  <2>. QED
    BY <1>0, <2>1, <2>2
<1>4. ASSUME NEW r \in Servers, Die(r) PROVE Held(s)'
  <2>0. DoneWith(r) /\ log' = [log EXCEPT ![r] = <<>>]
    BY <1>4 DEF Die
  <2>1. s # r => log'[s] = log[s] /\ wpc'[s] = wpc[s] /\ hand'[s] = hand[s]
    <3>1. s # r => wpc'[s] = wpc[s] /\ hand'[s] = hand[s]
      BY <2>0, DoneForgets
    <3>. QED
      BY <2>0, <3>1 DEF ReconfigTypeOK
  <2>2. s = r => wpc'[s] = "lock"
    BY <1>4, DoneForgets DEF Die
  <2>. QED
    BY <1>0, <2>1, <2>2
<1>5. ASSUME NEW r \in Servers,
             \/ Arrive(r) \/ Lose(r) \/ Quietly(r) \/ \E t \in Threads : Reconnect(r, t)
      PROVE  UNCHANGED <<wpc, log, hand>>
  BY <1>5 DEF Arrive, Lose, Quietly, Reconnect, worker
<1>6. ASSUME SendWrite \/ UNCHANGED rvars PROVE UNCHANGED <<wpc, log, hand>>
  BY <1>6 DEF SendWrite, rvars, chain, worker
<1>. QED
  BY <1>1, <1>2, <1>3, <1>4, <1>5, <1>6, Steps

-----------------------------------------------------------------------------
\* Where the writes are.

\* The parts of the invariant that say where the writes are.
Placed == Counted /\ Once /\ Passed /\ Unsent /\ InOrder

\* What a server was given is a sequence of writes, and what it has run is part of it.
LEMMA GivenWrites ==
    ASSUME ReconfigTypeOK, NEW s \in Servers
    PROVE  /\ log[s] \in Seq(Writes) /\ queue[s] \in Seq(Writes) /\ Given(s) \in Seq(Writes)
           /\ wire[s] \in Seq([from : Servers, w : Writes])
           /\ RangeOf(log[s]) \subseteq RangeOf(Given(s))
           /\ RangeOf(queue[s]) \subseteq RangeOf(Given(s))
           /\ RangeOf(Given(s)) \subseteq Writes
<1>1. /\ log[s] \in Seq(Writes) /\ queue[s] \in Seq(Writes)
      /\ wire[s] \in Seq([from : Servers, w : Writes])
  BY DEF ReconfigTypeOK
<1>2. Given(s) \in Seq(Writes) /\ RangeOf(Given(s)) = RangeOf(log[s]) \union RangeOf(queue[s])
  BY <1>1, Joined, RangeJoined DEF Given
<1>3. RangeOf(Given(s)) \subseteq Writes
  BY <1>2, ElementOfSeq, LenProperties DEF RangeOf
<1>. QED
  BY <1>1, <1>2, <1>3

\* What a worker has run is no longer in its queue (process_request).
LEMMA LogApart ==
    ASSUME ReconfigTypeOK, Once, NEW s \in Servers
    PROVE  RangeOf(log[s]) \intersect RangeOf(queue[s]) = {}
<1>. DEFINE g == log[s] \o queue[s]
<1>1. log[s] \in Seq(Writes) /\ queue[s] \in Seq(Writes)
  BY DEF ReconfigTypeOK
<1>2. PICK n \in Nat, r \in Nat : n = Len(log[s]) /\ r = Len(queue[s])
  BY <1>1
<1>3. /\ g \in Seq(Writes) /\ Len(g) = n + r
      /\ DOMAIN log[s] = 1 .. n /\ DOMAIN queue[s] = 1 .. r
      /\ \A m \in 1 .. n + r : g[m] = IF m <= n THEN log[s][m] ELSE queue[s][m - n]
  BY <1>1, <1>2, ConcatProperties, LenProperties
<1>4. DOMAIN g = 1 .. n + r
  BY <1>3, LenProperties
<1>5. \A m, o \in DOMAIN g : m # o => g[m] # g[o]
  BY DEF Once, Given
<1>. HIDE DEF g
<1>. SUFFICES ASSUME NEW i \in DOMAIN log[s], NEW j \in DOMAIN queue[s], log[s][i] = queue[s][j]
              PROVE  FALSE
  BY DEF RangeOf
<1>6. i \in DOMAIN g /\ n + j \in DOMAIN g /\ i # n + j
  BY <1>3, <1>4
<1>7. g[i] = log[s][i]
  BY <1>3
<1>8. g[n + j] = queue[s][n + j - n]
  BY <1>3
<1>9. n + j - n = j
  BY <1>3
<1>. QED
  BY <1>5, <1>6, <1>7, <1>8, <1>9

\* What a server may still send on has reached it.
LEMMA PendingReaches ==
    ASSUME ReconfigTypeOK, Handed, NEW s \in Servers
    PROVE  Pending(s) \subseteq Reaching(s)
<1>1. wpc[s] \in {"pick", "write"} => hand[s] \in RangeOf(log[s])
  BY LastWrite
<1>2. /\ RangeOf(log[s]) \subseteq RangeOf(Given(s))
      /\ RangeOf(queue[s]) \subseteq RangeOf(Given(s))
  BY GivenWrites
<1>. QED
  BY <1>1, <1>2 DEF Pending, Reaching

\* What is left to send on, and what has reached the servers, stays apart if neither
\* grows.
LEMMA UnsentKept ==
    ASSUME Unsent, \A s \in Servers : Pending(s)' \subseteq Pending(s),
           \A s \in Servers : Reaching(s)' \subseteq Reaching(s)
    PROVE  Unsent'
<1>. SUFFICES ASSUME NEW s \in Servers, NEW t \in Servers, s < t
              PROVE  Pending(s)' \intersect Reaching(t)' = {}
  BY DEF Unsent
<1>1. Pending(s) \intersect Reaching(t) = {}
  BY DEF Unsent
<1>. QED
  BY <1>1

\* A server with its session's end behind it stays so.
LEMMA StillBroken ==
    ASSUME expelled \subseteq expelled', NEW s, NEW t, Unbroken(s, t)'
    PROVE  Unbroken(s, t)
BY DEF Unbroken

\* A server with nothing to do is reached by no write.
LEMMA NothingReaches ==
    ASSUME NEW s \in Servers, queue[s] = <<>>, log[s] = <<>>, wire[s] = <<>>
    PROVE  /\ Given(s) = <<>> /\ DOMAIN Given(s) = {} /\ DOMAIN wire[s] = {}
           /\ Reaching(s) = {} /\ RangeOf(Given(s)) = {} /\ Coming(s) = {}
<1>1. DOMAIN <<>> = {} /\ <<>> \o <<>> = <<>>
  OBVIOUS
<1>. QED
  BY <1>1 DEF Given, Reaching, RangeOf, Coming

\* Where nothing is moved, everything stays where it was.
LEMMA NothingMoves ==
    ASSUME UNCHANGED <<queue, log, wire>>, NEW s \in Servers
    PROVE  /\ Given(s)' = Given(s) /\ Coming(s)' = Coming(s) /\ Reaching(s)' = Reaching(s)
BY DEF Given, Coming, Reaching

\* A server that starts is the last, and has been sent nothing (zookeeper_connect).
LEMMA NewcomerIsLast ==
    ASSUME TypeOK, Unborn, Buried, NEW t \in Servers, t = created + 1
    PROVE  /\ t \notin alive /\ Reaching(t) = {}
           /\ DOMAIN Given(t) = {} /\ DOMAIN wire[t] = {}
           /\ \A s \in alive : s < t
<1>1. t \notin alive
  BY MembershipAssumption DEF TypeOK, Unborn, Servers
<1>2. \A s \in alive : s < t
  BY MembershipAssumption DEF TypeOK, Unborn, Servers
<1>. QED
  BY <1>1, <1>2, NothingReaches DEF Buried

\* A step that moves no write keeps all in its place, also when a server joins.
LEMMA StillPlaced ==
    ASSUME TypeOK, Unborn, ReconfigTypeOK, Buried, Placed,
           UNCHANGED <<queue, log, wire, sent, overtaken>>, expelled \subseteq expelled',
           \A t \in alive' : t \in Servers /\ (t \in alive \/ t = created + 1),
           nodes' \subseteq nodes \union {created + 1},
           \A s \in Servers : wpc'[s] \in {"pick", "write"} =>
                                wpc[s] \in {"pick", "write"} /\ hand'[s] = hand[s]
    PROVE  Placed'
<1>1. \A s \in Servers : /\ Given(s)' = Given(s) /\ Coming(s)' = Coming(s)
                         /\ Reaching(s)' = Reaching(s)
  BY NothingMoves
<1>2. Counted' /\ Once'
  BY <1>1 DEF Placed, Counted, Once
<1>3. ASSUME NEW s \in alive', NEW t \in alive', s < t
      PROVE  /\ s \in alive /\ (s \in nodes' => s \in nodes)
             /\ \/ t \in alive
                \/ /\ t \in Servers /\ Reaching(t) = {}
                   /\ DOMAIN Given(t) = {} /\ DOMAIN wire[t] = {}
  <2>1. s \in Nat /\ t \in Nat /\ created \in Nat /\ alive \subseteq Servers
        /\ Servers \subseteq Nat
    BY MembershipAssumption DEF Servers, TypeOK
  <2>2. s \in alive
    BY <1>3, <2>1, NewcomerIsLast
  <2>3. s # created + 1
    BY <2>1, <2>2, NewcomerIsLast
  <2>. QED
    BY <2>2, <2>3, NewcomerIsLast
<1>4. Passed'
  BY <1>1, <1>3 DEF Placed, Passed
<1>5. Unsent'
  <2>1. \A s \in Servers : Pending(s)' \subseteq Pending(s)
    BY <1>1 DEF Pending
  <2>. QED
    BY <1>1, <2>1, UnsentKept DEF Placed
<1>6. ASSUME ~overtaken', NEW s \in alive', NEW t \in alive', s < t, Unbroken(s, t)'
      PROVE  Ordered(s, t)'
  <2>1. t \in Servers /\ Given(t)' = Given(t)
    BY <1>1
  <2>2. CASE t \in alive
    <3>1. Ordered(s, t)
      BY <1>3, <1>6, <2>2, StillBroken DEF Placed, InOrder
    <3>. QED
      BY <2>1, <3>1 DEF Ordered
  <2>3. CASE DOMAIN Given(t) = {} /\ DOMAIN wire[t] = {}
    BY <2>1, <2>3 DEF Ordered
  <2>. QED
    BY <1>3, <1>6, <2>2, <2>3
<1>. QED
  BY <1>2, <1>4, <1>5, <1>6 DEF Placed, InOrder

\* One write after another in a sequence stays so as the sequence grows.
LEMMA BeforeGrows ==
    ASSUME NEW S, NEW q \in Seq(S), NEW z \in S
    PROVE  /\ \A x, y : Before(q, x, y) => Before(Append(q, z), x, y)
           /\ \A x \in RangeOf(q) : Before(Append(q, z), x, z)
<1>1. /\ \A i \in DOMAIN q : i \in DOMAIN Append(q, z) /\ Append(q, z)[i] = q[i] /\ i < Len(q) + 1
      /\ Len(q) + 1 \in DOMAIN Append(q, z) /\ Append(q, z)[Len(q) + 1] = z
  BY LongerBy
<1>. DEFINE a == Append(q, z)
            n == Len(q) + 1
<1>. HIDE DEF a, n
<1>2. ASSUME NEW x, NEW y, Before(q, x, y) PROVE Before(a, x, y)
  <2>1. PICK i \in DOMAIN q, j \in DOMAIN q : i < j /\ q[i] = x /\ q[j] = y
    BY <1>2 DEF Before
  <2>2. i \in DOMAIN a /\ j \in DOMAIN a /\ a[i] = x /\ a[j] = y
    BY <1>1, <2>1 DEF a
  <2>. QED
    BY <2>1, <2>2 DEF Before
<1>3. ASSUME NEW x \in RangeOf(q) PROVE Before(a, x, z)
  <2>1. PICK i \in DOMAIN q : q[i] = x
    BY DEF RangeOf
  <2>2. i \in DOMAIN a /\ n \in DOMAIN a /\ a[i] = x /\ a[n] = z /\ i < n
    BY <1>1, <2>1 DEF a, n
  <2>. QED
    BY <2>2 DEF Before
<1>. QED
  BY <1>2, <1>3 DEF a

\* What a worker takes from its queue it has not run yet, and what it was given stays
\* the same (process_request).
LEMMA ProcessMoves ==
    ASSUME ReconfigTypeOK, Once, NEW s \in Servers, Process(s)
    PROVE  /\ Head(queue[s]) \in Writes /\ Head(queue[s]) \notin RangeOf(log[s])
           /\ log'[s] = Append(log[s], Head(queue[s]))
           /\ \A r \in Servers \ {s} : log'[r] = log[r]
           /\ \A r \in Servers : Given(r)' = Given(r)
<1>. DEFINE h == Head(queue[s])
<1>1. /\ log[s] \in Seq(Writes) /\ queue[s] \in Seq(Writes) /\ queue[s] # <<>> /\ h \in Writes
  BY HeadTailProperties DEF ReconfigTypeOK, Process
<1>2. /\ log'[s] = Append(log[s], h) /\ queue'[s] = Tail(queue[s])
      /\ \A r \in Servers \ {s} : log'[r] = log[r] /\ queue'[r] = queue[r]
  BY DEF Process, ReconfigTypeOK
<1>3. Given(s)' = Given(s)
  <2>1. PICK l \in Seq(Writes), q \in Seq(Writes) : l = log[s] /\ q = queue[s] /\ q # <<>>
    BY <1>1, Zenon
  <2>2. Append(l, Head(q)) \o Tail(q) = l \o q
    BY <2>1, JoinedTail
  <2>. QED
    BY <1>2, <2>1, <2>2, Zenon DEF Given
<1>4. h \notin RangeOf(log[s])
  <2>1. h \in RangeOf(queue[s])
    BY <1>1 DEF RangeOf
  <2>. QED
    BY <2>1, LogApart
<1>5. ASSUME NEW r \in Servers PROVE Given(r)' = Given(r)
  BY <1>2, <1>3 DEF Given
<1>. QED
  BY <1>1, <1>2, <1>4, <1>5

\* A worker that takes a write keeps the others in their place: it has not been sent to
\* anybody (process_request).
LEMMA ProcessPlaced ==
    ASSUME TypeOK, ReconfigTypeOK, Placed, NEW s \in Servers, Process(s)
    PROVE  Placed'
<1>1. UNCHANGED <<alive, nodes, wire, sent, overtaken, expelled>>
  BY DEF Process, vars, zookeeper, process, link, history
<1>2. /\ Head(queue[s]) \in Writes /\ Head(queue[s]) \notin RangeOf(log[s])
      /\ log'[s] = Append(log[s], Head(queue[s]))
      /\ \A r \in Servers \ {s} : log'[r] = log[r]
      /\ \A r \in Servers : Given(r)' = Given(r)
  BY ProcessMoves DEF Placed
<1>3. \A r \in Servers : Coming(r)' = Coming(r) /\ Reaching(r)' = Reaching(r)
  BY <1>1, <1>2 DEF Coming, Reaching
<1>4. log[s] \in Seq(Writes)
  BY DEF ReconfigTypeOK
<1>5. \A r \in Servers : RangeOf(log[r]) \subseteq RangeOf(log'[r])
  <2>1. RangeOf(Append(log[s], Head(queue[s]))) = RangeOf(log[s]) \union {Head(queue[s])}
    BY <1>2, <1>4, RangeLonger
  <2>. QED
    BY <1>2, <2>1, Zenon
<1>6. \A r \in Servers : \A x, y : Before(log[r], x, y) => Before(log'[r], x, y)
  BY <1>2, <1>4, BeforeGrows
<1>7. alive \subseteq Servers
  BY DEF TypeOK
<1>8. Counted' /\ Once'
  BY <1>1, <1>2, <1>3 DEF Placed, Counted, Once
<1>9. Passed'
  BY <1>1, <1>3, <1>5, <1>7 DEF Placed, Passed
<1>10. Unsent'
  <2>1. /\ queue[s] \in Seq(Writes) /\ queue[s] # <<>> /\ queue'[s] = Tail(queue[s])
        /\ \A r \in Servers \ {s} : queue'[r] = queue[r]
    BY DEF Process, ReconfigTypeOK
  <2>2. Head(queue[s]) \in RangeOf(queue[s]) /\ RangeOf(queue'[s]) \subseteq RangeOf(queue[s])
    BY <2>1 DEF RangeOf
  <2>3. wpc'[s] \in {"pick", "write"} => hand'[s] = Head(queue[s])
    BY DEF Process, At, worker, ReconfigTypeOK
  <2>4. \A r \in Servers \ {s} : wpc'[r] = wpc[r] /\ hand'[r] = hand[r]
    BY DEF Process, StepTo, worker, ReconfigTypeOK
  <2>5. Pending(s)' \subseteq Pending(s)
    BY <1>3, <2>2, <2>3 DEF Pending
  <2>6. \A r \in Servers \ {s} : Pending(r)' = Pending(r)
    BY <1>3, <2>1, <2>4 DEF Pending
  <2>. QED
    BY <1>3, <2>5, <2>6, UnsentKept DEF Placed
<1>11. ASSUME ~overtaken', NEW r \in alive', NEW t \in alive', r < t, Unbroken(r, t)'
       PROVE  Ordered(r, t)'
  <2>1. r \in Servers /\ t \in Servers /\ Ordered(r, t)
    BY <1>1, <1>7, <1>11, StillBroken DEF Placed, InOrder
  <2>. QED
    BY <1>1, <1>2, <1>6, <2>1 DEF Ordered
<1>. QED
  BY <1>8, <1>9, <1>10, <1>11 DEF Placed, InOrder

\* A server that dies takes what it had with it.
LEMMA DiePlaced ==
    ASSUME TypeOK, ReconfigTypeOK, Placed, NEW s \in Servers, Die(s)
    PROVE  Placed'
<1>1. /\ alive' = alive \ {s} /\ UNCHANGED <<nodes, sent, overtaken, expelled>>
      /\ alive \subseteq Servers
  BY DEF Die, Crash, history, TypeOK
<1>2. /\ queue'[s] = <<>> /\ log'[s] = <<>> /\ wire'[s] = <<>>
      /\ \A r \in Servers \ {s} : /\ queue'[r] = queue[r] /\ log'[r] = log[r]
                                  /\ wire'[r] = wire[r]
  BY DEF Die, ReconfigTypeOK
<1>3. \A r \in Servers \ {s} : wpc'[r] = wpc[r] /\ hand'[r] = hand[r]
  BY DoneForgets DEF Die
<1>4. \A r \in Servers \ {s} : /\ Given(r)' = Given(r) /\ Coming(r)' = Coming(r)
                               /\ Reaching(r)' = Reaching(r)
  BY <1>2 DEF Given, Coming, Reaching
<1>5. /\ (DOMAIN Given(s))' = {} /\ (DOMAIN wire[s])' = {} /\ Reaching(s)' = {}
      /\ RangeOf(Given(s))' = {}
  <2>1. DOMAIN <<>> = {} /\ <<>> \o <<>> = <<>>
    OBVIOUS
  <2>. QED
    BY <1>2, <2>1 DEF Given, Reaching, RangeOf, Coming
<1>6. Counted'
  BY <1>1, <1>4, <1>5 DEF Placed, Counted
<1>7. Once'
  <2>. SUFFICES ASSUME NEW r \in Servers
                PROVE  /\ \A i, j \in DOMAIN Given(r)' : i # j => Given(r)'[i] # Given(r)'[j]
                       /\ \A i, j \in DOMAIN wire'[r] : i # j => wire'[r][i].w # wire'[r][j].w
                       /\ RangeOf(Given(r)') \intersect Coming(r)' = {}
    BY DEF Once
  <2>1. CASE r = s
    BY <1>5, <2>1
  <2>2. CASE r # s
    BY <1>2, <1>4, <2>2 DEF Placed, Once
  <2>. QED
    BY <2>1, <2>2
<1>8. Passed'
  BY <1>1, <1>2, <1>4 DEF Placed, Passed
<1>9. Unsent'
  <2>1. wpc'[s] = "lock"
    BY DoneForgets DEF Die
  <2>2. Pending(s)' = {}
    <3>1. RangeOf(queue[s])' = {}
      BY <1>2 DEF RangeOf
    <3>2. Coming(s)' = {}
      BY <1>5 DEF Coming
    <3>. QED
      BY <2>1, <3>1, <3>2 DEF Pending
  <2>3. \A r \in Servers \ {s} : Pending(r)' = Pending(r)
    BY <1>2, <1>3, <1>4 DEF Pending
  <2>. QED
    BY <1>4, <1>5, <2>2, <2>3, UnsentKept DEF Placed
<1>10. ASSUME ~overtaken', NEW r \in alive', NEW t \in alive', r < t, Unbroken(r, t)'
       PROVE  Ordered(r, t)'
  <2>1. r \in Servers \ {s} /\ t \in Servers \ {s} /\ Ordered(r, t)
    BY <1>1, <1>10, StillBroken DEF Placed, InOrder
  <2>. QED
    BY <1>2, <1>4, <2>1 DEF Ordered
<1>. QED
  BY <1>6, <1>7, <1>8, <1>9, <1>10 DEF Placed, InOrder

\* A worker sends to a server that runs, and no other stands between them; what it sends
\* has not been sent there or further on (propagate_request, send_receive).
LEMMA WriteOutMoves ==
    ASSUME TypeOK, ReconfigTypeOK, Buried, Adjacent, Handed, Placed,
           NEW s \in Servers, WriteOut(s)
    PROVE  /\ s \in alive /\ peer[s] \in alive /\ s < peer[s]
           /\ hand[s] \in RangeOf(log[s]) /\ hand[s] \in Pending(s)
           /\ \A r \in Servers : s < r => hand[s] \notin Reaching(r)
           /\ \A r \in nodes : r < peer[s] => r = s \/ r < s
           /\ wire'[peer[s]] = Append(wire[peer[s]], [from |-> s, w |-> hand[s]])
           /\ [from |-> s, w |-> hand[s]] \in [from : Servers, w : Writes]
           /\ \A r \in Servers : r # peer[s] => wire'[r] = wire[r]
<1>1. s \in alive
  BY RunsWhatActs DEF Sends
<1>2. peer[s] \in alive /\ wpc[s] = "write"
  BY DEF WriteOut, Connected, At
<1>3. /\ alive \subseteq Servers /\ peer[s] \in Servers /\ Servers \subseteq Nat
      /\ peer[s] # None
  <2>1. alive \subseteq Servers
    BY DEF TypeOK
  <2>2. \A n \in Servers : n \in Nat /\ n # None
    BY MembershipAssumption DEF Servers, None
  <2>. QED
    BY <1>2, <2>1, <2>2
<1>4. s < peer[s] /\ \A n \in nodes : ~(s < n /\ n < peer[s])
  BY <1>3 DEF Adjacent, NextTo
<1>5. ASSUME NEW r \in nodes, r < peer[s] PROVE r = s \/ r < s
  <2>1. r \in Nat /\ s \in Nat
    BY <1>3 DEF TypeOK
  <2>. QED
    BY <1>4, <1>5, <2>1
<1>6. hand[s] \in RangeOf(log[s]) /\ hand[s] \in Writes
  BY <1>2, LastWrite
<1>7. /\ hand[s] \in Pending(s)
      /\ \A r \in Servers : s < r => hand[s] \notin Reaching(r)
  <2>1. hand[s] \in Pending(s)
    BY <1>2 DEF Pending
  <2>2. \A r \in Servers : s < r => Pending(s) \intersect Reaching(r) = {}
    BY DEF Placed, Unsent
  <2>. QED
    BY <2>1, <2>2
<1>8. /\ wire'[peer[s]] = Append(wire[peer[s]], [from |-> s, w |-> hand[s]])
      /\ \A r \in Servers : r # peer[s] => wire'[r] = wire[r]
  BY <1>3 DEF WriteOut, ReconfigTypeOK
<1>9. [from |-> s, w |-> hand[s]] \in [from : Servers, w : Writes]
  BY <1>6
<1>. QED
  BY <1>1, <1>2, <1>4, <1>5, <1>6, <1>7, <1>8, <1>9

\* What was run before the last write comes before it, also where it was given to the
\* worker (process_request).
LEMMA BeforeLast ==
    ASSUME NEW S, NEW q \in Seq(S), q # <<>>, NEW x \in RangeOf(q), x # q[Len(q)]
    PROVE  Before(q, x, q[Len(q)])
<1>1. PICK i \in DOMAIN q : q[i] = x
  BY DEF RangeOf
<1>2. Len(q) \in DOMAIN q /\ i < Len(q)
  BY <1>1
<1>. QED
  BY <1>1, <1>2 DEF Before

\* What is ordered in the first part of a sequence is so in the whole.
LEMMA BeforeJoined ==
    ASSUME NEW S, NEW l \in Seq(S), NEW q \in Seq(S), NEW x, NEW y, Before(l, x, y)
    PROVE  Before(l \o q, x, y)
<1>1. PICK i \in DOMAIN l, j \in DOMAIN l : i < j /\ l[i] = x /\ l[j] = y
  BY DEF Before
<1>2. /\ Len(l) \in Nat /\ Len(q) \in Nat /\ l \o q \in Seq(S) /\ DOMAIN l = 1 .. Len(l)
      /\ Len(l \o q) = Len(l) + Len(q)
      /\ \A k \in 1 .. Len(l) + Len(q) :
            (l \o q)[k] = IF k <= Len(l) THEN l[k] ELSE q[k - Len(l)]
  BY ConcatProperties, LenProperties
<1>3. i \in DOMAIN (l \o q) /\ j \in DOMAIN (l \o q) /\ (l \o q)[i] = x /\ (l \o q)[j] = y
  <2>1. DOMAIN (l \o q) = 1 .. Len(l) + Len(q)
    BY <1>2
  <2>. QED
    BY <1>1, <1>2, <2>1
<1>. QED
  BY <1>1, <1>3 DEF Before

\* The order of two writes that s has run is that in which those before it ran them.
LEMMA OrderCarried ==
    ASSUME ReconfigTypeOK, NEW r \in Servers, NEW s \in Servers, Ordered(r, s),
           NEW x, NEW y, Before(log[s], x, y)
    PROVE  Before(log[r], x, y)
<1>1. log[s] \in Seq(Writes) /\ queue[s] \in Seq(Writes)
  BY DEF ReconfigTypeOK
<1>2. Before(Given(s), x, y)
  BY <1>1, BeforeJoined DEF Given
<1>. QED
  BY <1>2 DEF Before, Ordered

\* The write on its way keeps all in their place (propagate_request, send_receive).
LEMMA WriteOutPlaced ==
    ASSUME TypeOK, ReconfigTypeOK, Buried, Known, Adjacent, Handed, Placed,
           NEW s \in Servers, WriteOut(s)
    PROVE  Placed'
<1>. DEFINE M == [from : Servers, w : Writes]
            m == [from |-> s, w |-> hand[s]]
<1>1. PICK p \in alive : p = peer[s]
  BY WriteOutMoves
<1>2. PICK w \in Writes : w = hand[s]
  BY LastWrite DEF WriteOut, At
<1>3. /\ s \in alive /\ s < p /\ w \in RangeOf(log[s]) /\ w \in Pending(s)
      /\ \A r \in Servers : s < r => w \notin Reaching(r)
      /\ \A r \in nodes : r < p => r = s \/ r < s
      /\ wire'[p] = Append(wire[p], m) /\ m \in M /\ m.w = w
      /\ \A r \in Servers : r # p => wire'[r] = wire[r]
  BY <1>1, <1>2, WriteOutMoves
<1>4. /\ UNCHANGED <<alive, nodes, queue, log, sent, overtaken, expelled, hand>>
      /\ alive \subseteq Servers /\ Servers \subseteq Nat /\ nodes \subseteq Servers
      /\ p \in Servers /\ wire[p] \in Seq(M) /\ w \notin Reaching(p)
  <2>1. UNCHANGED <<alive, nodes, queue, log, sent, overtaken, expelled, hand>>
    BY DEF WriteOut, vars, zookeeper, process, history
  <2>2. alive \subseteq Servers /\ Servers \subseteq Nat /\ nodes \subseteq Servers
    BY MembershipAssumption DEF TypeOK, Servers
  <2>. QED
    BY <1>1, <1>3, <2>1, <2>2 DEF ReconfigTypeOK
<1>5. \A r \in Servers : /\ Given(r)' = Given(r)
                         /\ log[r] \in Seq(Writes) /\ Given(r) \in Seq(Writes)
                         /\ RangeOf(log[r]) \subseteq RangeOf(Given(r))
  BY <1>4, GivenWrites DEF Given
<1>. HIDE DEF M, m
<1>6. /\ Len(wire[p]) \in Nat /\ DOMAIN wire[p] = 1 .. Len(wire[p])
      /\ wire'[p][Len(wire[p]) + 1] = m
      /\ \A i \in DOMAIN wire[p] : i \in DOMAIN wire'[p] /\ wire'[p][i] = wire[p][i]
      /\ Len(wire[p]) + 1 \in DOMAIN wire'[p]
      /\ \A i \in DOMAIN wire'[p] :
                \/ i \in DOMAIN wire[p] /\ wire'[p][i] = wire[p][i]
                \/ i = Len(wire[p]) + 1 /\ wire'[p][i] = m
  BY <1>3, <1>4, LongerBy
<1>7. Coming(p)' = Coming(p) \union {w} /\ Reaching(p)' = Reaching(p) \union {w}
  <2>1. Coming(p)' \subseteq Coming(p) \union {w}
    BY <1>3, <1>6 DEF Coming
  <2>2. Coming(p) \subseteq Coming(p)' /\ w \in Coming(p)'
    BY <1>3, <1>6 DEF Coming
  <2>. QED
    BY <1>4, <1>5, <2>1, <2>2 DEF Reaching
<1>8. \A r \in Servers : r # p => Coming(r)' = Coming(r) /\ Reaching(r)' = Reaching(r)
  BY <1>3, <1>5 DEF Coming, Reaching
<1>9. \A r \in alive \intersect nodes : r < p => w \in RangeOf(log[r])
  <2>. SUFFICES ASSUME NEW r \in alive \intersect nodes, r < s PROVE w \in RangeOf(log[r])
    BY <1>3
  <2>1. Reaching(s) \subseteq RangeOf(log[r])
    BY <1>3 DEF Placed, Passed
  <2>. QED
    BY <1>3, <1>4, <1>5, <2>1 DEF Reaching
<1>10. Counted'
  <2>1. w <= sent
    BY <1>3, <1>4, <1>5 DEF Placed, Counted, Reaching
  <2>. QED
    BY <1>4, <1>7, <1>8, <2>1 DEF Placed, Counted
<1>11. Once'
  <2>1. \A r \in Servers : \A i, j \in DOMAIN Given(r)' : i # j => Given(r)'[i] # Given(r)'[j]
    BY <1>5 DEF Placed, Once
  <2>2. \A i \in DOMAIN wire[p] : wire[p][i].w # w
    BY <1>4 DEF Reaching, Coming
  <2>3. \A i, j \in DOMAIN wire'[p] : i # j => wire'[p][i].w # wire'[p][j].w
    BY <1>3, <1>4, <1>6, <2>2 DEF Placed, Once
  <2>4. RangeOf(Given(p)) \intersect (Coming(p) \union {w}) = {}
    BY <1>4 DEF Placed, Once, Reaching
  <2>5. ASSUME NEW r \in Servers
        PROVE  /\ \A i, j \in DOMAIN wire'[r] : i # j => wire'[r][i].w # wire'[r][j].w
               /\ RangeOf(Given(r)) \intersect Coming(r)' = {}
    <3>1. CASE r = p
      BY <1>7, <2>3, <2>4, <3>1
    <3>2. CASE r # p
      BY <1>3, <1>8, <3>2 DEF Placed, Once
    <3>. QED
      BY <3>1, <3>2
  <2>6. \A r \in Servers : RangeOf(Given(r))' = RangeOf(Given(r))
    BY <1>5 DEF RangeOf
  <2>. QED
    BY <2>1, <2>5, <2>6 DEF Once
<1>12. Passed'
  BY <1>4, <1>7, <1>8, <1>9 DEF Placed, Passed
<1>13. Unsent'
  <2>1. \A r \in Servers \ {s} : wpc'[r] = wpc[r]
    BY DEF WriteOut, StepTo, ReconfigTypeOK
  <2>2. wpc'[s] = "sent" /\ s # p /\ s \in Nat /\ p \in Nat
    BY <1>3, <1>4 DEF WriteOut, StepTo, ReconfigTypeOK
  <2>3. \A r \in Servers \ {s, p} : Pending(r)' = Pending(r)
    BY <1>4, <1>8, <2>1 DEF Pending
  <2>4. Pending(p)' = Pending(p) \union {w}
    BY <1>4, <1>7, <2>1, <2>2 DEF Pending
  <2>5. Pending(s)' \subseteq Pending(s) /\ w \notin Pending(s)'
    <3>1. Pending(s)' = RangeOf(queue[s]) \union Coming(s)
      BY <1>4, <1>8, <2>2 DEF Pending
    <3>2. w \notin RangeOf(queue[s])
      BY <1>3, LogApart DEF Placed
    <3>3. w \notin Coming(s)
      BY <1>3, <1>5 DEF Placed, Once
    <3>. QED
      BY <3>1, <3>2, <3>3 DEF Pending
  <2>6. \A r, t \in Servers : r < t => Pending(r) \intersect Reaching(t) = {}
    BY DEF Placed, Unsent
  <2>7. \A r \in Servers : Pending(r) \subseteq Reaching(r)
    BY PendingReaches
  <2>8. \A r \in Servers : r < s => w \notin Pending(r)
    <3>1. w \in Reaching(s)
      BY <1>3, <1>5 DEF Reaching
    <3>. QED
      BY <2>6, <3>1
  <2>9. \A r \in Servers : r < p => w \notin Pending(r)'
    <3>. SUFFICES ASSUME NEW r \in Servers, r < p PROVE w \notin Pending(r)'
      OBVIOUS
    <3>1. CASE r = s
      BY <2>5, <3>1
    <3>2. CASE r < s
      <4>1. r # p /\ r # s
        BY <1>3, <1>4, <2>2, <3>2
      <4>. QED
        BY <2>3, <2>8, <3>2, <4>1
    <3>3. CASE s < r
      <4>1. w \notin Pending(r)
        BY <1>3, <2>7, <3>3
      <4>2. r # p /\ r # s
        BY <1>4, <2>2, <3>3
      <4>. QED
        BY <2>3, <4>1, <4>2
    <3>. QED
      BY <1>4, <2>2, <3>1, <3>2, <3>3
  <2>10. \A r \in Servers : p < r => w \notin Reaching(r)
    BY <1>3, <1>4, <2>2
  <2>. SUFFICES ASSUME NEW r \in Servers, NEW t \in Servers, r < t
                PROVE  Pending(r)' \intersect Reaching(t)' = {}
    BY DEF Unsent
  <2>11. Pending(r)' \intersect Reaching(t) = {}
    <3>1. Pending(r) \intersect Reaching(t) = {}
      BY <2>6
    <3>2. CASE r = p
      BY <2>4, <2>10, <3>1, <3>2
    <3>3. CASE r # p
      <4>1. Pending(r)' \subseteq Pending(r)
        BY <2>3, <2>5, <3>3
      <4>. QED
        BY <3>1, <4>1
    <3>. QED
      BY <3>2, <3>3
  <2>. QED
    BY <1>7, <1>8, <2>9, <2>11
<1>14. ASSUME ~overtaken, NEW r \in alive, NEW t \in alive, r < t, Unbroken(r, t)
       PROVE  Ordered(r, t)'
  <2>1. r \in Servers /\ t \in Servers /\ Ordered(r, t) /\ log'[r] = log[r]
    BY <1>4, <1>14 DEF Placed, InOrder
  <2>2. CASE t # p
    BY <1>3, <1>5, <2>1, <2>2 DEF Ordered
  <2>3. CASE t = p
    <3>0. r \in nodes /\ (r = s \/ r < s) /\ s \in nodes /\ Unbroken(r, s)
      <4>1. r \in Nat /\ s \in Nat /\ p \in Nat /\ expelled \subseteq Nat
        BY <1>4 DEF ReconfigTypeOK
      <4>2. r \notin expelled
        BY <1>14, <4>1 DEF Unbroken
      <4>3. r \in nodes
        BY <4>2 DEF Known
      <4>4. r = s \/ r < s
        BY <1>3, <1>14, <2>3, <4>3
      <4>5. s \notin expelled
        BY <1>3, <1>14, <2>3, <4>1, <4>4 DEF Unbroken
      <4>6. s \in nodes
        BY <1>3, <4>5 DEF Known
      <4>7. Unbroken(r, s)
        BY <1>3, <1>14, <2>3, <4>1 DEF Unbroken
      <4>. QED
        BY <4>3, <4>4, <4>6, <4>7
    <3>1. ASSUME NEW x \in Reaching(p) PROVE Before(log[r], x, w)
      <4>1. x \in RangeOf(log[s]) /\ x # w
        BY <1>1, <1>3, <1>4, <3>0 DEF Placed, Passed
      <4>2. log[s] # <<>> /\ w = log[s][Len(log[s])] /\ log[s] \in Seq(Writes)
        BY <1>2, <1>5 DEF WriteOut, At, Handed
      <4>3. Before(log[s], x, w)
        BY <4>1, <4>2, BeforeLast
      <4>4. CASE r < s
        <5>1. Ordered(r, s)
          BY <1>3, <1>14, <3>0, <4>4 DEF Placed, InOrder
        <5>. QED
          BY <2>1, <4>3, <5>1, OrderCarried
      <4>. QED
        BY <3>0, <4>3, <4>4
    <3>2. \A i \in DOMAIN Given(p) : Before(log[r], Given(p)[i], w)
      BY <3>1 DEF Reaching, RangeOf
    <3>3. \A i \in DOMAIN wire[p] : Before(log[r], wire[p][i].w, w)
      BY <3>1 DEF Reaching, Coming
    <3>4. \A i \in DOMAIN Given(p), j \in DOMAIN wire'[p] :
                Before(log[r], Given(p)[i], wire'[p][j].w)
      BY <1>3, <1>6, <2>1, <2>3, <3>2 DEF Ordered
    <3>5. \A i, j \in DOMAIN wire'[p] :
                i < j => Before(log[r], wire'[p][i].w, wire'[p][j].w)
      <4>. SUFFICES ASSUME NEW i \in DOMAIN wire'[p], NEW j \in DOMAIN wire'[p], i < j
                    PROVE  Before(log[r], wire'[p][i].w, wire'[p][j].w)
        OBVIOUS
      <4>1. i \in DOMAIN wire[p] /\ wire'[p][i] = wire[p][i]
        BY <1>6
      <4>2. CASE j \in DOMAIN wire[p] /\ wire'[p][j] = wire[p][j]
        BY <2>1, <2>3, <4>1, <4>2 DEF Ordered
      <4>3. CASE wire'[p][j] = m
        BY <1>3, <3>3, <4>1, <4>3
      <4>. QED
        BY <1>6, <4>2, <4>3
    <3>. QED
      BY <1>5, <2>1, <2>3, <3>4, <3>5 DEF Ordered
  <2>. QED
    BY <2>2, <2>3
<1>. QED
  <2>1. InOrder'
    BY <1>4, <1>14 DEF InOrder, Unbroken
  <2>. QED
    BY <1>10, <1>11, <1>12, <1>13, <2>1 DEF Placed

\* What a server was given is one write longer when a write is queued (queue_add).
LEMMA QueueGrows ==
    ASSUME ReconfigTypeOK, UNCHANGED log, NEW s \in Servers, NEW w \in Writes,
           queue' = [queue EXCEPT ![s] = Append(queue[s], w)]
    PROVE  /\ Given(s)' = Append(Given(s), w)
           /\ RangeOf(Given(s))' = RangeOf(Given(s)) \union {w}
           /\ \A r \in Servers \ {s} : /\ Given(r)' = Given(r)
                                       /\ RangeOf(Given(r))' = RangeOf(Given(r))
<1>1. queue'[s] = Append(queue[s], w) /\ \A r \in Servers \ {s} : queue'[r] = queue[r]
  BY DEF ReconfigTypeOK
<1>2. log[s] \in Seq(Writes) /\ queue[s] \in Seq(Writes) /\ Given(s) \in Seq(Writes)
  BY GivenWrites
<1>3. log[s] \o Append(queue[s], w) = Append(log[s] \o queue[s], w)
  <2>1. PICK l \in Seq(Writes), q \in Seq(Writes) : l = log[s] /\ q = queue[s]
    BY <1>2, Zenon
  <2>2. l \o Append(q, w) = Append(l \o q, w)
    BY JoinedLonger
  <2>. QED
    BY <2>1, <2>2, Zenon
<1>4. Given(s)' = Append(Given(s), w)
  BY <1>1, <1>3, Zenon DEF Given
<1>5. \A r \in Servers \ {s} : Given(r)' = Given(r)
  BY <1>1 DEF Given
<1>6. RangeOf(Append(Given(s), w)) = RangeOf(Given(s)) \union {w}
  BY <1>2, RangeLonger
<1>7. RangeOf(Given(s))' = RangeOf(Append(Given(s), w))
  BY <1>4 DEF RangeOf
<1>. QED
  BY <1>4, <1>5, <1>6, <1>7 DEF RangeOf

\* A client sends its write to the server whose node is the first (rtree_put).
LEMMA SendWritePlaced ==
    ASSUME TypeOK, ReconfigTypeOK, Known, Handed, Placed, SendWrite
    PROVE  Placed'
<1>1. PICK h \in Servers : h = FirstOf(nodes)
  BY FirstServes DEF SendWrite
<1>2. nodes \subseteq Nat /\ nodes # {} /\ alive \subseteq Servers /\ Servers \subseteq Nat
  BY MembershipAssumption DEF TypeOK, Servers, SendWrite
<1>3. \A r \in nodes : ~(r < h)
  <2>1. \A r \in nodes : h <= r
    BY <1>1, <1>2, FirstIsLeast
  <2>. QED
    BY <1>2, <2>1
<1>4. PICK w \in Writes : w = sent + 1
  BY ReconfigAssumption DEF SendWrite, ReconfigTypeOK, Writes
<1>5. /\ queue' = [queue EXCEPT ![h] = Append(queue[h], w)]
      /\ UNCHANGED <<alive, nodes, log, wire, wpc, hand, overtaken, expelled>>
      /\ sent' = sent + 1
  BY <1>1, <1>4 DEF SendWrite, Enqueue, vars, zookeeper, process, worker, link, history
<1>6. /\ log[h] \in Seq(Writes) /\ queue[h] \in Seq(Writes) /\ Given(h) \in Seq(Writes)
  BY GivenWrites
<1>7. /\ Given(h)' = Append(Given(h), w)
      /\ RangeOf(Given(h))' = RangeOf(Given(h)) \union {w}
      /\ \A r \in Servers \ {h} : Given(r)' = Given(r) /\ RangeOf(Given(r))' = RangeOf(Given(r))
  BY <1>5, QueueGrows
<1>8. \A r \in Servers : Coming(r)' = Coming(r)
  BY <1>5 DEF Coming
<1>9. /\ Reaching(h)' = Reaching(h) \union {w}
      /\ \A r \in Servers \ {h} : Reaching(r)' = Reaching(r)
  BY <1>7, <1>8 DEF Reaching
<1>10. \A r \in Servers : w \notin Reaching(r)
  BY <1>4 DEF Placed, Counted, ReconfigTypeOK
<1>11. \A r \in Servers : \A v \in Reaching(r) : v \in Writes /\ v <= sent
  <2>. SUFFICES ASSUME NEW r \in Servers, NEW v \in Coming(r) PROVE v \in Writes
    BY GivenWrites DEF Placed, Counted, Reaching
  <2>1. wire[r] \in Seq([from : Servers, w : Writes])
    BY GivenWrites
  <2>2. PICK i \in DOMAIN wire[r] : v = wire[r][i].w
    BY DEF Coming
  <2>3. wire[r][i] \in [from : Servers, w : Writes]
    BY <2>1, ElementOfSeq, LenProperties
  <2>. QED
    BY <2>2, <2>3
<1>12. Counted'
  <2>1. sent \in Nat /\ Writes \subseteq Nat
    BY ReconfigAssumption DEF ReconfigTypeOK, Writes
  <2>2. ASSUME NEW r \in Servers, NEW v \in Reaching(r)' PROVE v <= sent + 1
    <3>1. v \in Reaching(r) \/ v = w
      BY <1>9
    <3>2. CASE v \in Reaching(r)
      <4>1. v \in Nat /\ v <= sent
        BY <1>11, <2>1, <3>2
      <4>. QED
        BY <2>1, <4>1
    <3>3. CASE v = w
      BY <1>4, <2>1, <3>3
    <3>. QED
      BY <3>1, <3>2, <3>3
  <2>. QED
    BY <1>5, <2>2 DEF Counted
<1>13. Once'
  <2>. SUFFICES ASSUME NEW r \in Servers
                PROVE  /\ \A i, j \in DOMAIN Given(r)' : i # j => Given(r)'[i] # Given(r)'[j]
                       /\ RangeOf(Given(r))' \intersect Coming(r) = {}
    BY <1>5, <1>8 DEF Placed, Once
  <2>1. CASE r # h
    BY <1>7, <1>9, <2>1 DEF Placed, Once
  <2>2. CASE r = h
    <3>1. \A i \in DOMAIN Given(h) : Given(h)[i] # w
      BY <1>10 DEF Reaching, RangeOf
    <3>2. /\ \A i \in DOMAIN Append(Given(h), w) :
                \/ i \in DOMAIN Given(h) /\ Append(Given(h), w)[i] = Given(h)[i]
                \/ i = Len(Given(h)) + 1 /\ Append(Given(h), w)[i] = w
      BY <1>6, LongerBy
    <3>3. \A i, j \in DOMAIN Append(Given(h), w) :
                i # j => Append(Given(h), w)[i] # Append(Given(h), w)[j]
      BY <3>1, <3>2 DEF Placed, Once
    <3>4. (RangeOf(Given(h)) \union {w}) \intersect Coming(h) = {}
      BY <1>10 DEF Placed, Once, Reaching
    <3>5. \A i, j \in DOMAIN Given(h)' : i # j => Given(h)'[i] # Given(h)'[j]
      BY <1>7, <3>3, Zenon
    <3>. QED
      BY <1>7, <2>2, <3>4, <3>5
  <2>. QED
    BY <2>1, <2>2
<1>14. Passed'
  BY <1>2, <1>3, <1>5, <1>9 DEF Placed, Passed
<1>15. Unsent'
  <2>1. \A r \in Servers : Pending(r) \subseteq Reaching(r)
    BY PendingReaches
  <2>2. \A r, t \in Servers : r < t => Pending(r) \intersect Reaching(t) = {}
    BY DEF Placed, Unsent
  <2>3. Pending(h)' \subseteq Pending(h) \union {w}
    <3>1. queue'[h] = Append(queue[h], w)
      BY <1>5 DEF ReconfigTypeOK
    <3>2. RangeOf(queue[h])' = RangeOf(queue[h]) \union {w}
      <4>1. RangeOf(Append(queue[h], w)) = RangeOf(queue[h]) \union {w}
        BY <1>6, RangeLonger
      <4>. QED
        BY <3>1, <4>1 DEF RangeOf
    <3>. QED
      BY <1>5, <1>8, <3>2 DEF Pending
  <2>4. \A r \in Servers \ {h} : Pending(r)' = Pending(r)
    <3>1. \A r \in Servers \ {h} : queue'[r] = queue[r]
      BY <1>5 DEF ReconfigTypeOK
    <3>. QED
      BY <1>5, <1>8, <3>1 DEF Pending
  <2>. SUFFICES ASSUME NEW r \in Servers, NEW t \in Servers, r < t
                PROVE  Pending(r)' \intersect Reaching(t)' = {}
    BY DEF Unsent
  <2>5. Pending(r) \intersect Reaching(t) = {} /\ w \notin Reaching(t) /\ w \notin Pending(r)
    BY <1>10, <2>1, <2>2
  <2>6. r # t
    BY <1>2
  <2>7. CASE t = h
    BY <1>9, <2>4, <2>5, <2>6, <2>7
  <2>8. CASE t # h
    <3>1. Pending(r)' \subseteq Pending(r) \union {w}
      BY <2>3, <2>4
    <3>2. Reaching(t)' = Reaching(t)
      BY <1>9, <2>8
    <3>. QED
      BY <2>5, <3>1, <3>2
  <2>. QED
    BY <2>7, <2>8
<1>16. ASSUME ~overtaken, NEW r \in alive, NEW t \in alive, r < t, Unbroken(r, t)
       PROVE  Ordered(r, t)'
  <2>1. r \in nodes
    <3>1. r \in Nat /\ t \in Nat
      BY <1>2
    <3>2. r \notin expelled
      BY <1>16, <3>1 DEF Unbroken
    <3>. QED
      BY <3>2 DEF Known
  <2>2. Ordered(r, t) /\ t \in Servers \ {h}
    BY <1>2, <1>3, <1>16, <2>1 DEF Placed, InOrder
  <2>. QED
    BY <1>5, <1>7, <2>2 DEF Ordered
<1>17. InOrder'
  BY <1>5, <1>16 DEF InOrder, Unbroken
<1>. QED
  BY <1>12, <1>13, <1>14, <1>15, <1>17 DEF Placed

\* What is left on the way to a server when one write has gone from there.
LEMMA OneGone ==
    ASSUME ReconfigTypeOK, Once, NEW s \in Servers, NEW i \in DOMAIN wire[s],
           wire' = [wire EXCEPT ![s] = Without(wire[s], i)]
    PROVE  /\ Coming(s)' \subseteq Coming(s) \ {wire[s][i].w}
           /\ \A r \in Servers \ {s} : wire'[r] = wire[r] /\ Coming(r)' = Coming(r)
           /\ \A j \in DOMAIN wire'[s] :
                /\ Old(i, j) \in DOMAIN wire[s] /\ Old(i, j) # i
                /\ wire'[s][j] = wire[s][Old(i, j)]
           /\ \A j, k \in DOMAIN wire'[s] : j < k => Old(i, j) < Old(i, k)
           /\ \A j, k \in DOMAIN wire'[s] : j # k => wire'[s][j].w # wire'[s][k].w
<1>1. wire[s] \in Seq([from : Servers, w : Writes])
  BY GivenWrites
<1>2. wire'[s] = Without(wire[s], i) /\ \A r \in Servers \ {s} : wire'[r] = wire[r]
  BY DEF ReconfigTypeOK
<1>3. /\ \A j \in DOMAIN wire'[s] :
            /\ Old(i, j) \in DOMAIN wire[s] /\ Old(i, j) # i
            /\ wire'[s][j] = wire[s][Old(i, j)]
      /\ \A j, k \in DOMAIN wire'[s] : j < k => Old(i, j) < Old(i, k)
      /\ \A j, k \in DOMAIN wire'[s] : j # k => Old(i, j) # Old(i, k)
  BY <1>1, <1>2, WithoutOne
<1>4. \A j, k \in DOMAIN wire[s] : j # k => wire[s][j].w # wire[s][k].w
  BY DEF Once
<1>5. \A j, k \in DOMAIN wire'[s] : j # k => wire'[s][j].w # wire'[s][k].w
  BY <1>3, <1>4
<1>6. Coming(s)' \subseteq Coming(s) \ {wire[s][i].w}
  BY <1>3, <1>4 DEF Coming
<1>. QED
  BY <1>2, <1>3, <1>5, <1>6 DEF Coming

\* A write that is lost leaves the others in their place and order.
LEMMA LosePlaced ==
    ASSUME TypeOK, ReconfigTypeOK, Placed, NEW s \in Servers, Lose(s)
    PROVE  Placed'
<1>1. PICK i \in DOMAIN wire[s] : wire' = [wire EXCEPT ![s] = Without(wire[s], i)]
  BY DEF Lose
<1>2. /\ UNCHANGED <<alive, nodes, queue, log, wpc, hand, sent, overtaken, expelled>>
      /\ alive \subseteq Servers
  BY DEF Lose, vars, zookeeper, process, worker, history, TypeOK
<1>3. /\ Coming(s)' \subseteq Coming(s)
      /\ \A r \in Servers \ {s} : wire'[r] = wire[r] /\ Coming(r)' = Coming(r)
      /\ \A j \in DOMAIN wire'[s] :
            /\ Old(i, j) \in DOMAIN wire[s] /\ wire'[s][j] = wire[s][Old(i, j)]
      /\ \A j, k \in DOMAIN wire'[s] : j < k => Old(i, j) < Old(i, k)
      /\ \A j, k \in DOMAIN wire'[s] : j # k => wire'[s][j].w # wire'[s][k].w
  <2>1. /\ Coming(s)' \subseteq Coming(s) \ {wire[s][i].w}
        /\ \A r \in Servers \ {s} : wire'[r] = wire[r] /\ Coming(r)' = Coming(r)
        /\ \A j \in DOMAIN wire'[s] :
            /\ Old(i, j) \in DOMAIN wire[s] /\ Old(i, j) # i
            /\ wire'[s][j] = wire[s][Old(i, j)]
        /\ \A j, k \in DOMAIN wire'[s] : j < k => Old(i, j) < Old(i, k)
        /\ \A j, k \in DOMAIN wire'[s] : j # k => wire'[s][j].w # wire'[s][k].w
    BY <1>1, OneGone DEF Placed
  <2>. QED
    BY <2>1, Zenon
<1>4. \A r \in Servers : /\ Given(r)' = Given(r) /\ RangeOf(Given(r))' = RangeOf(Given(r))
                         /\ Coming(r)' \subseteq Coming(r) /\ Reaching(r)' \subseteq Reaching(r)
  <2>1. \A r \in Servers : Given(r)' = Given(r) /\ RangeOf(Given(r))' = RangeOf(Given(r))
    BY <1>2 DEF Given, RangeOf
  <2>2. \A r \in Servers : Coming(r)' \subseteq Coming(r)
    BY <1>3, Zenon
  <2>. QED
    BY <2>1, <2>2 DEF Reaching
<1>5. Counted' /\ Passed' /\ Unsent'
  <2>1. \A r \in Servers : Pending(r)' \subseteq Pending(r)
    BY <1>2, <1>4 DEF Pending
  <2>2. Unsent'
    BY <1>4, <2>1, UnsentKept DEF Placed
  <2>. QED
    BY <1>2, <1>4, <2>2 DEF Placed, Counted, Passed
<1>6. Once'
  <2>. SUFFICES ASSUME NEW r \in Servers
                PROVE  \A j, k \in DOMAIN wire'[r] : j # k => wire'[r][j].w # wire'[r][k].w
    BY <1>4 DEF Placed, Once
  <2>. QED
    BY <1>3 DEF Placed, Once
<1>7. ASSUME ~overtaken, NEW r \in alive, NEW t \in alive, r < t, Unbroken(r, t)
      PROVE  Ordered(r, t)'
  <2>1. Ordered(r, t) /\ t \in Servers /\ log'[r] = log[r] /\ Given(t)' = Given(t)
    BY <1>2, <1>4, <1>7 DEF Placed, InOrder
  <2>2. CASE t # s
    BY <1>3, <2>1, <2>2 DEF Ordered
  <2>3. CASE t = s
    BY <1>3, <2>1, <2>3 DEF Ordered
  <2>. QED
    BY <2>2, <2>3
<1>. QED
  <2>1. InOrder'
    BY <1>2, <1>7 DEF InOrder, Unbroken
  <2>. QED
    BY <1>5, <1>6, <2>1 DEF Placed

\* A write that arrives is given to the server at last, unless it has overtaken another
\* one (queue_add).
LEMMA ArrivePlaced ==
    ASSUME TypeOK, ReconfigTypeOK, Placed, NEW s \in Servers, Arrive(s)
    PROVE  Placed'
<1>1. PICK i \in DOMAIN wire[s] :
            /\ wire' = [wire EXCEPT ![s] = Without(wire[s], i)]
            /\ queue' = [queue EXCEPT ![s] = Append(queue[s], wire[s][i].w)]
            /\ overtaken' = (overtaken \/ i > 1)
  BY DEF Arrive, Enqueue
<1>2. /\ UNCHANGED <<alive, nodes, log, wpc, hand, sent, expelled>> /\ alive \subseteq Servers
  BY DEF Arrive, vars, zookeeper, process, worker, TypeOK
<1>3. /\ Coming(s)' \subseteq Coming(s) \ {wire[s][i].w}
      /\ \A r \in Servers \ {s} : wire'[r] = wire[r] /\ Coming(r)' = Coming(r)
      /\ \A j \in DOMAIN wire'[s] :
            /\ Old(i, j) \in DOMAIN wire[s] /\ Old(i, j) # i
            /\ wire'[s][j] = wire[s][Old(i, j)]
      /\ \A j, k \in DOMAIN wire'[s] : j < k => Old(i, j) < Old(i, k)
      /\ \A j, k \in DOMAIN wire'[s] : j # k => wire'[s][j].w # wire'[s][k].w
  BY <1>1, OneGone DEF Placed
<1>4. /\ log[s] \in Seq(Writes) /\ queue[s] \in Seq(Writes) /\ Given(s) \in Seq(Writes)
      /\ wire[s] \in Seq([from : Servers, w : Writes])
  BY GivenWrites
<1>5. PICK w \in Writes : w = wire[s][i].w
  <2>1. wire[s][i] \in [from : Servers, w : Writes]
    BY <1>4, ElementOfSeq, LenProperties
  <2>. QED
    BY <2>1
<1>6. w \in Coming(s) /\ w \in Reaching(s) /\ w \notin RangeOf(Given(s))
  BY <1>5 DEF Coming, Reaching, Placed, Once
<1>7. /\ Given(s)' = Append(Given(s), w)
      /\ RangeOf(Given(s))' = RangeOf(Given(s)) \union {w}
      /\ \A r \in Servers \ {s} : Given(r)' = Given(r) /\ RangeOf(Given(r))' = RangeOf(Given(r))
  BY <1>1, <1>2, <1>5, QueueGrows
<1>9. \A r \in Servers : Reaching(r)' \subseteq Reaching(r)
  BY <1>3, <1>6, <1>7 DEF Reaching
<1>10. Counted' /\ Passed' /\ Unsent'
  <2>1. queue'[s] = Append(queue[s], w) /\ \A r \in Servers \ {s} : queue'[r] = queue[r]
    BY <1>1, <1>5 DEF ReconfigTypeOK
  <2>2. RangeOf(queue[s])' = RangeOf(queue[s]) \union {w}
    <3>1. RangeOf(Append(queue[s], w)) = RangeOf(queue[s]) \union {w}
      BY <1>4, RangeLonger
    <3>. QED
      BY <2>1, <3>1 DEF RangeOf
  <2>3. Pending(s)' \subseteq Pending(s)
    BY <1>2, <1>3, <1>6, <2>2 DEF Pending
  <2>4. \A r \in Servers \ {s} : Pending(r)' = Pending(r)
    BY <1>2, <1>3, <2>1 DEF Pending
  <2>5. Unsent'
    BY <1>9, <2>3, <2>4, UnsentKept DEF Placed
  <2>. QED
    BY <1>2, <1>9, <2>5 DEF Placed, Counted, Passed
<1>11. \A j \in DOMAIN Append(Given(s), w) :
            \/ j \in DOMAIN Given(s) /\ Append(Given(s), w)[j] = Given(s)[j]
            \/ j = Len(Given(s)) + 1 /\ Append(Given(s), w)[j] = w
  BY <1>4, LongerBy
<1>12. Once'
  <2>. SUFFICES ASSUME NEW r \in Servers
                PROVE  /\ \A j, k \in DOMAIN Given(r)' : j # k => Given(r)'[j] # Given(r)'[k]
                       /\ \A j, k \in DOMAIN wire'[r] : j # k => wire'[r][j].w # wire'[r][k].w
                       /\ RangeOf(Given(r))' \intersect Coming(r)' = {}
    BY DEF Once
  <2>1. CASE r # s
    BY <1>3, <1>7, <2>1 DEF Placed, Once
  <2>2. CASE r = s
    <3>1. \A j \in DOMAIN Given(s) : Given(s)[j] # w
      BY <1>6 DEF RangeOf
    <3>2. \A j, k \in DOMAIN Append(Given(s), w) :
                j # k => Append(Given(s), w)[j] # Append(Given(s), w)[k]
      BY <1>11, <3>1 DEF Placed, Once
    <3>3. (RangeOf(Given(s)) \union {w}) \intersect Coming(s)' = {}
      BY <1>3, <1>5 DEF Placed, Once
    <3>4. \A j, k \in DOMAIN Given(s)' : j # k => Given(s)'[j] # Given(s)'[k]
      BY <1>7, <3>2, Zenon
    <3>. QED
      BY <1>3, <1>7, <2>2, <3>3, <3>4
  <2>. QED
    BY <2>1, <2>2
<1>13. ASSUME ~overtaken', NEW r \in alive, NEW t \in alive, r < t, Unbroken(r, t)
       PROVE  Ordered(r, t)'
  <2>1. ~overtaken /\ ~(i > 1)
    BY <1>1, <1>13 DEF ReconfigTypeOK
  <2>2. Ordered(r, t) /\ t \in Servers /\ log'[r] = log[r]
    BY <1>2, <1>13, <2>1 DEF Placed, InOrder
  <2>3. CASE t # s
    BY <1>3, <1>7, <2>2, <2>3 DEF Ordered
  <2>4. CASE t = s
    <3>. DEFINE g == Append(Given(s), w)
    <3>1. \A j \in DOMAIN Given(s) : Before(log[r], Given(s)[j], w)
      BY <1>5, <2>2, <2>4 DEF Ordered
    <3>2. \A j \in DOMAIN wire'[s] : Before(log[r], w, wire'[s][j].w)
      <4>. SUFFICES ASSUME NEW j \in DOMAIN wire'[s] PROVE Before(log[r], w, wire'[s][j].w)
        OBVIOUS
      <4>1. Old(i, j) \in DOMAIN wire[s] /\ i < Old(i, j)
        BY <1>3, <1>4, <2>1
      <4>. QED
        BY <1>3, <1>5, <2>2, <2>4, <4>1 DEF Ordered
    <3>3. \A j, k \in DOMAIN g : j < k => Before(log[r], g[j], g[k])
      <4>. SUFFICES ASSUME NEW j \in DOMAIN g, NEW k \in DOMAIN g, j < k
                    PROVE  Before(log[r], g[j], g[k])
        OBVIOUS
      <4>1. j \in DOMAIN Given(s) /\ g[j] = Given(s)[j]
        <5>1. Len(Given(s)) \in Nat /\ DOMAIN g = 1 .. Len(Given(s)) + 1
          BY <1>4, LongerBy
        <5>. QED
          BY <1>11, <5>1
      <4>2. CASE k \in DOMAIN Given(s) /\ g[k] = Given(s)[k]
        BY <2>2, <2>4, <4>1, <4>2 DEF Ordered
      <4>3. CASE g[k] = w
        BY <3>1, <4>1, <4>3
      <4>. QED
        BY <1>11, <4>2, <4>3
    <3>. HIDE DEF g
    <3>4. \A j \in DOMAIN g, k \in DOMAIN wire'[s] : Before(log[r], g[j], wire'[s][k].w)
      <4>. SUFFICES ASSUME NEW j \in DOMAIN g, NEW k \in DOMAIN wire'[s]
                    PROVE  Before(log[r], g[j], wire'[s][k].w)
        OBVIOUS
      <4>1. CASE j \in DOMAIN Given(s) /\ g[j] = Given(s)[j]
        BY <1>3, <2>2, <2>4, <4>1 DEF Ordered
      <4>2. CASE g[j] = w
        BY <3>2, <4>2
      <4>. QED
        BY <1>11, <4>1, <4>2 DEF g
    <3>5. \A j, k \in DOMAIN wire'[s] : j < k => Before(log[r], wire'[s][j].w, wire'[s][k].w)
      BY <1>3, <2>2, <2>4 DEF Ordered
    <3>. QED
      BY <1>7, <2>2, <2>4, <3>3, <3>4, <3>5 DEF Ordered, g
  <2>. QED
    BY <2>3, <2>4
<1>. QED
  <2>1. InOrder'
    BY <1>2, <1>13 DEF InOrder, Unbroken
  <2>. QED
    BY <1>10, <1>12, <2>1 DEF Placed

-----------------------------------------------------------------------------
\* The theorems.

\* Every step keeps the writes in their place and order.
LEMMA PlacedKept ==
    ASSUME TypeOK, Unborn, ReconfigTypeOK, Known, Buried, Adjacent, Handed, Placed,
           [ReconfigNext]_rvars
    PROVE  Placed'
<1>. DEFINE Still ==
        /\ UNCHANGED <<queue, log, wire, sent, overtaken>> /\ expelled \subseteq expelled'
        /\ \A t \in alive' : t \in Servers /\ (t \in alive \/ t = created + 1)
        /\ nodes' \subseteq nodes \union {created + 1}
        /\ \A s \in Servers : wpc'[s] \in {"pick", "write"} =>
                                wpc[s] \in {"pick", "write"} /\ hand'[s] = hand[s]
<1>0. alive \subseteq Servers /\ (Still => Placed')
  BY StillPlaced DEF TypeOK
<1>a. nodes' \subseteq nodes \union {created + 1}
  BY StepIsMembers, NodesGrow
<1>1. ASSUME UNCHANGED rvars PROVE Still
  BY <1>0, <1>1, <1>a DEF rvars, vars, process, chain, worker, link, history
<1>2. ASSUME SendWrite PROVE Placed'
  BY <1>2, SendWritePlaced
<1>3. ASSUME NEW s \in Servers, Process(s) PROVE Placed'
  BY <1>3, ProcessPlaced
<1>4. ASSUME NEW s \in Servers, Sends(s) PROVE Placed'
  <2>1. CASE WriteOut(s)
    BY <2>1, WriteOutPlaced
  <2>2. CASE ~WriteOut(s)
    <3>1. UNCHANGED <<alive, queue, log, wire, sent, overtaken, expelled>>
      BY <1>4, <2>2, SendsLeave
    <3>2. \A r \in Servers : wpc'[r] \in {"pick", "write"} =>
                                wpc[r] \in {"pick", "write"} /\ hand'[r] = hand[r]
      BY <1>0, <1>4, SendsKeep
    <3>. QED
      BY <1>0, <1>a, <3>1, <3>2
  <2>. QED
    BY <2>1, <2>2
<1>5. ASSUME NEW s \in Servers, Arrive(s) \/ Lose(s) PROVE Placed'
  BY <1>5, ArrivePlaced, LosePlaced
<1>6. ASSUME NEW s \in Servers, Die(s) PROVE Placed'
  BY <1>6, DiePlaced
<1>7. ASSUME NEW s \in Servers, Quietly(s) \/ \E t \in Threads : Reconnect(s, t) PROVE Still
  <2>1. UNCHANGED <<queue, log, wire, sent, overtaken, wpc, hand>>
    BY <1>7 DEF Quietly, Reconnect, worker, link, history
  <2>2. /\ \A t \in alive' : t \in Servers /\ (t \in alive \/ t = created + 1)
        /\ expelled \subseteq expelled'
    BY <1>0, <1>7, QuietlyAlive
  <2>. QED
    BY <1>a, <2>1, <2>2
<1>. HIDE DEF Still
<1>. QED
  BY <1>0, <1>1, <1>2, <1>3, <1>4, <1>5, <1>6, <1>7, Steps

\* Before any server has started no write is anywhere.
LEMMA ReconfigInitInv == ReconfigInit => RInv
<1>. SUFFICES ASSUME ReconfigInit PROVE RInv
  OBVIOUS
<1>1. MInv /\ alive = {} /\ nodes = {}
  BY InitInv DEF ReconfigInit, Init
<1>2. ReconfigTypeOK
  <2>1. <<>> \in Seq(Writes) /\ <<>> \in Seq([from : Servers, w : Writes])
    OBVIOUS
  <2>2. WriteTypes
    <3>1. 0 \in 0 .. MaxWrites
      BY ReconfigAssumption
    <3>. QED
      BY <2>1, <3>1 DEF ReconfigInit, WriteTypes
  <2>3. WorkerTypes /\ LinkTypes
    BY DEF ReconfigInit, WorkerTypes, LinkTypes, At
  <2>. QED
    BY <2>2, <2>3, TypeParts
<1>3. Known /\ Passed /\ InOrder
  BY <1>1 DEF Known, Passed, InOrder
<1>4. Buried /\ Handed
  BY DEF ReconfigInit, Buried, Handed, At
<1>5. Adjacent
  BY DEF ReconfigInit, Init, Adjacent, NextTo
<1>6. ASSUME NEW s \in Servers
      PROVE  /\ DOMAIN Given(s) = {} /\ DOMAIN wire[s] = {} /\ Reaching(s) = {}
             /\ RangeOf(Given(s)) = {}
  BY NothingReaches DEF ReconfigInit
<1>7. Counted /\ Once /\ Unsent
  BY <1>6 DEF Counted, Once, Unsent
<1>. QED
  BY <1>1, <1>2, <1>3, <1>4, <1>5, <1>7 DEF RInv

\* Every step keeps the inductive invariant.
LEMMA ReconfigStepInv == RInv /\ [ReconfigNext]_rvars => RInv'
<1>. SUFFICES ASSUME RInv, [ReconfigNext]_rvars PROVE RInv'
  OBVIOUS
<1>1. [Next]_vars
  BY StepIsMembers
<1>2. TypeOK /\ Unborn /\ MInv'
  BY <1>1, StepInv DEF RInv, MInv
<1>3. TypeOK' /\ ReconfigTypeOK'
  BY <1>2, TypesKept DEF RInv, MInv
<1>4. Known' /\ Buried' /\ Handed'
  BY <1>2, KnownKept, BuriedKept, HandedKept DEF RInv
<1>5. Adjacent'
  BY <1>2, <1>3, AdjacentKept DEF RInv
<1>6. Placed'
  BY <1>2, PlacedKept DEF RInv, Placed
<1>. QED
  BY <1>2, <1>3, <1>4, <1>5, <1>6 DEF RInv, Placed

\* The inductive invariant holds however servers come and go, die or lose their
\* sessions: each sends only to a next one that runs, and only what it has run last and
\* not sent yet (child_watcher, process_request, propagate_request).
THEOREM ReconfigInvariance == ReconfigSpec => []RInv
BY ReconfigInitInv, ReconfigStepInv, PTL DEF ReconfigSpec

\* The system with its writes is one of those Membership describes, so that what is
\* proved there holds here (child_watcher).
THEOREM MembersRefined == ReconfigSpec => Spec
<1>1. ReconfigInit => Init
  BY DEF ReconfigInit
<1>2. [ReconfigNext]_rvars => [Next]_vars
  BY StepIsMembers
<1>. QED
  BY <1>1, <1>2, PTL DEF ReconfigSpec, Spec

\* The types, and that a worker that is done holds nothing (send_receive).
THEOREM ReconfigTypeCorrect == ReconfigSpec => []ReconfigTypeOK
<1>1. RInv => ReconfigTypeOK
  BY DEF RInv
<1>. QED
  BY <1>1, ReconfigInvariance, PTL

\* However servers join, die and lose their sessions while writes travel, none is given
\* a write twice (send_receive, child_watcher, connect_to_server).
THEOREM RunOnceCorrect == ReconfigSpec => []RunOnce
<1>1. RInv => RunOnce
  BY DEF RInv, Once, RunOnce
<1>. QED
  BY <1>1, ReconfigInvariance, PTL

\* However servers join, die and lose their sessions, no write reaches a server past
\* another that runs, joined before it and has its node (propagate_request,
\* child_watcher).
THEOREM NoneBypassedCorrect == ReconfigSpec => []NoneBypassed
<1>1. RInv => NoneBypassed
  BY DEF RInv, Passed, Reaching, NoneBypassed
<1>. QED
  BY <1>1, ReconfigInvariance, PTL

\* Where a write stands in a sequence that has it once.
LEMMA PlaceIs ==
    ASSUME NEW q, \A i, j \in DOMAIN q : i # j => q[i] # q[j], NEW k \in DOMAIN q
    PROVE  Place(q, q[k]) = k
BY DEF Place

\* Two servers that run have the writes both were given in the same order, whatever was
\* lost as others died, unless a connection overtook another or a server from the first
\* to the second lost its session while it ran (process_request, send_receive).
THEOREM OrderCorrect == ReconfigSpec => []OrderKept
<1>1. RInv => OrderKept
  <2>. SUFFICES ASSUME RInv, ~overtaken, NEW s \in alive, NEW t \in alive, s < t,
                       Unbroken(s, t),
                       NEW i \in DOMAIN Given(t), NEW j \in DOMAIN Given(t), i < j
                PROVE  Place(log[s], Given(t)[i]) < Place(log[s], Given(t)[j])
    BY DEF OrderKept
  <2>1. s \in Servers /\ ReconfigTypeOK /\ Once
    BY DEF RInv, MInv, TypeOK
  <2>2. Before(log[s], Given(t)[i], Given(t)[j])
    BY DEF RInv, InOrder, Ordered
  <2>3. PICK k \in DOMAIN log[s], l \in DOMAIN log[s] :
            k < l /\ log[s][k] = Given(t)[i] /\ log[s][l] = Given(t)[j]
    BY <2>2 DEF Before
  <2>4. \A m, n \in DOMAIN log[s] : m # n => log[s][m] # log[s][n]
    <3>. DEFINE g == log[s] \o queue[s]
    <3>1. log[s] \in Seq(Writes) /\ queue[s] \in Seq(Writes)
      BY <2>1 DEF ReconfigTypeOK
    <3>2. PICK n \in Nat, r \in Nat : n = Len(log[s]) /\ r = Len(queue[s])
      BY <3>1
    <3>3. /\ g \in Seq(Writes) /\ Len(g) = n + r /\ DOMAIN log[s] = 1 .. n
          /\ \A m \in 1 .. n + r : g[m] = IF m <= n THEN log[s][m] ELSE queue[s][m - n]
      BY <3>1, <3>2, ConcatProperties, LenProperties
    <3>4. DOMAIN g = 1 .. n + r
      BY <3>3, LenProperties
    <3>. HIDE DEF g
    <3>5. \A m \in DOMAIN log[s] : m \in DOMAIN g /\ g[m] = log[s][m]
      BY <3>3, <3>4
    <3>6. \A m, o \in DOMAIN g : m # o => g[m] # g[o]
      BY <2>1 DEF Once, Given, g
    <3>. QED
      BY <3>5, <3>6
  <2>5. Place(log[s], log[s][k]) = k /\ Place(log[s], log[s][l]) = l
    BY <2>4, PlaceIs
  <2>. QED
    BY <2>3, <2>5
<1>. QED
  BY <1>1, ReconfigInvariance, PTL
===============================================================================
