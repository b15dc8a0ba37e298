--------------------------- MODULE MembershipProofs ---------------------------
(***************************************************************************)
(* Theorems about Membership, for any number of servers.                   *)
(***************************************************************************)
EXTENDS Membership, TLAPS, LeastNumbers

-----------------------------------------------------------------------------
\* The next server in the list.

\* A set of numbers that is not empty has a first one.
LEMMA FirstIsLeast ==
    ASSUME NEW S, S \subseteq Nat, S # {}
    PROVE  FirstOf(S) \in S /\ \A m \in S : FirstOf(S) <= m
BY LeastNumber DEF FirstOf

\* It is one of them.
LEMMA FirstExists ==
    ASSUME NEW S, S \subseteq Nat, S # {}
    PROVE  FirstOf(S) \in S
BY FirstIsLeast

\* The next of a set of servers is one of them, and follows (child_watcher).
LEMMA SuccessorFollows ==
    ASSUME NEW children \in SUBSET Servers, NEW s \in Servers
    PROVE  /\ Successor(children, s) \in Servers \union {None}
           /\ Successor(children, s) # None => Successor(children, s) > s
<1>1. Followers(children, s) \subseteq Nat
  <2>1. Followers(children, s) \subseteq children
    BY DEF Followers
  <2>2. Servers \subseteq Nat
    BY MembershipAssumption DEF Servers
  <2>. QED
    BY <2>1, <2>2
<1>2. CASE Followers(children, s) = {}
  BY <1>2 DEF Successor
<1>3. CASE Followers(children, s) # {}
  <2>1. FirstOf(Followers(children, s)) \in Followers(children, s)
    BY <1>1, <1>3, FirstExists
  <2>2. FirstOf(Followers(children, s)) \in Servers /\ FirstOf(Followers(children, s)) > s
    BY <2>1 DEF Followers, Follows
  <2>. QED
    BY <2>2 DEF Successor
<1>. QED
  BY <1>2, <1>3

-----------------------------------------------------------------------------
\* Where the threads are.

\* A thread that goes on in child_watcher leaves the others where they are.
LEMMA GotoMoves ==
    ASSUME pc \in [Servers -> [Threads -> Stages]],
           NEW s \in Servers, NEW t \in Threads, NEW label \in Stages, Goto(s, t, label)
    PROVE  /\ pc' \in [Servers -> [Threads -> Stages]]
           /\ pc'[s][t] = label
           /\ \A r \in Servers, u \in Threads : r # s \/ u # t => pc'[r][u] = pc[r][u]
BY DEF Goto

\* A thread that returns from child_watcher forgets its own next only.
LEMMA ReturnForgets ==
    ASSUME next \in [Servers -> [Threads -> Servers \union {None}]],
           NEW s \in Servers, NEW t \in Threads, Return(s, t)
    PROVE  /\ Goto(s, t, "idle")
           /\ next' \in [Servers -> [Threads -> Servers \union {None}]]
           /\ next'[s][t] = None
           /\ \A r \in Servers, u \in Threads : r # s \/ u # t => next'[r][u] = next[r][u]
BY DEF Return

\* The server that starts is one of those there is a number for (zookeeper_connect).
LEMMA Numbered ==
    ASSUME TypeOK, NEW s \in Servers, Register(s)
    PROVE  s \in 1 .. MaxServers /\ created' \in 0 .. MaxServers
BY MembershipAssumption DEF TypeOK, Register, Servers

-----------------------------------------------------------------------------
\* The types.

\* Every step keeps the types: the next server is always a server or none.
LEMMA TypeStep == TypeOK /\ [Next]_vars => TypeOK'
<1>. SUFFICES ASSUME TypeOK, [Next]_vars PROVE TypeOK'
  OBVIOUS
<1>0. None \in Servers \union {None}
  OBVIOUS
<1>1. CASE UNCHANGED vars
  BY <1>1 DEF TypeOK, vars, zookeeper, process
<1>2. CASE Next
  <2>. PICK s \in Servers :
            \/ Register(s) \/ Expire(s) \/ SessionEvent(s) \/ Deliver(s)
            \/ \E t \in Threads : child_watcher(s, t)
            \/ Listen(s) \/ Crash(s)
    BY <1>2 DEF Next
  <2>1. CASE Register(s)
    <3>1. pc' \in [Servers -> [Threads -> Stages]]
      BY <2>1, GotoMoves DEF TypeOK, Register, Threads, Stages
    <3>. QED
      BY <2>1, <3>1, Numbered DEF TypeOK, Register, Notify
  <2>2. CASE Expire(s)
    <3>1. cuts' \in 0 .. MaxCuts
      BY <2>2, MembershipAssumption DEF TypeOK, Expire, Cut, NoCut
    <3>. QED
      BY <2>2, <3>1 DEF TypeOK, Expire, Notify, process
  <2>3. CASE SessionEvent(s)
    <3>1. cuts' \in 0 .. MaxCuts
      BY <2>3, MembershipAssumption DEF TypeOK, SessionEvent, Cut
    <3>. QED
      BY <2>3, <3>1 DEF TypeOK, SessionEvent, process
  <2>4. CASE Deliver(s)
    <3>1. pc' \in [Servers -> [Threads -> Stages]]
      BY <2>4, GotoMoves DEF TypeOK, Deliver, Threads, Stages
    <3>. QED
      BY <2>4, <3>1 DEF TypeOK, Deliver, process
  <2>5. CASE \E t \in Threads : child_watcher(s, t)
    <3>. PICK t \in Threads : child_watcher(s, t)
      BY <2>5
    <3>1. CASE GetChildren(s, t)
      <4>1. pc' \in [Servers -> [Threads -> Stages]]
        BY <3>1, GotoMoves DEF TypeOK, GetChildren, Stages
      <4>2. Successor(nodes, s) \in Servers \union {None}
        BY SuccessorFollows DEF TypeOK
      <4>3. next' \in [Servers -> [Threads -> Servers \union {None}]]
        BY <3>1, <4>2 DEF TypeOK, GetChildren
      <4>. QED
        BY <3>1, <4>1, <4>3 DEF TypeOK, GetChildren, WatchAgain, process
    <3>2. CASE GetChildrenFails(s, t) \/ GetAddressFails(s, t)
      <4>1. cuts' \in 0 .. MaxCuts /\ deaf' \subseteq Servers
        BY <3>2, MembershipAssumption
        DEF TypeOK, GetChildrenFails, GetAddressFails, Cut, NoCut
      <4>2. Return(s, t) /\ UNCHANGED <<zookeeper, process, zNextNode, nextSocket>>
        BY <3>2 DEF GetChildrenFails, GetAddressFails
      <4>3. /\ pc' \in [Servers -> [Threads -> Stages]]
            /\ next' \in [Servers -> [Threads -> Servers \union {None}]]
        BY <4>2, GotoMoves, ReturnForgets DEF TypeOK, Stages
      <4>. QED
        BY <4>1, <4>2, <4>3 DEF TypeOK, zookeeper, process
    <3>3. CASE SetNext(s, t)
      <4>1. /\ pc' \in [Servers -> [Threads -> Stages]]
            /\ next' \in [Servers -> [Threads -> Servers \union {None}]]
        <5>1. CASE Return(s, t)
          BY <5>1, GotoMoves, ReturnForgets DEF TypeOK, Stages
        <5>2. CASE Goto(s, t, "get_address") /\ UNCHANGED next
          BY <5>2, GotoMoves DEF TypeOK, Stages
        <5>. QED
          BY <3>3, <5>1, <5>2 DEF SetNext
      <4>2. zNextNode' \in [Servers -> Servers \union {None}]
        BY <3>3 DEF TypeOK, SetNext
      <4>. QED
        BY <3>3, <4>1, <4>2 DEF TypeOK, SetNext, zookeeper, process
    <3>4. CASE GetAddress(s, t)
      <4>1. pc' \in [Servers -> [Threads -> Stages]]
        BY <3>4, GotoMoves DEF TypeOK, GetAddress, Stages
      <4>. QED
        BY <3>4, <4>1 DEF TypeOK, GetAddress, zookeeper, process
    <3>5. CASE Connect(s, t) \/ ConnectFails(s, t)
      <4>1. Return(s, t) /\ UNCHANGED <<zookeeper, process, zNextNode, cuts, deaf>>
        BY <3>5 DEF Connect, ConnectFails
      <4>2. nextSocket' \in [Servers -> Servers \union {None}]
        BY <3>5 DEF TypeOK, Connect, ConnectFails, UseSocket
      <4>3. /\ pc' \in [Servers -> [Threads -> Stages]]
            /\ next' \in [Servers -> [Threads -> Servers \union {None}]]
        BY <4>1, GotoMoves, ReturnForgets DEF TypeOK, Stages
      <4>. QED
        BY <4>1, <4>2, <4>3 DEF TypeOK, zookeeper, process
    <3>. QED
      BY <3>1, <3>2, <3>3, <3>4, <3>5 DEF child_watcher
  <2>6. CASE Listen(s)
    BY <2>6 DEF TypeOK, Listen, zookeeper
  <2>7. CASE Crash(s)
    <3>1. /\ pc' \in [Servers -> [Threads -> Stages]]
          /\ next' \in [Servers -> [Threads -> Servers \union {None}]]
      BY <2>7 DEF TypeOK, Crash, Stages
    <3>. QED
      BY <2>7, <3>1 DEF TypeOK, Crash
  <2>. QED
    BY <2>1, <2>2, <2>3, <2>4, <2>5, <2>6, <2>7
<1>. QED
  BY <1>1, <1>2

-----------------------------------------------------------------------------
\* What a step in child_watcher does to the rest.

\* A step of child_watcher moves one thread of one server, which was in it, and leaves
\* the nodes, the notifications and the other servers alone.
LEMMA WatcherMoves ==
    ASSUME TypeOK, NEW s \in Servers, NEW t \in Threads, child_watcher(s, t)
    PROVE  /\ pc[s][t] # "idle"
           /\ UNCHANGED <<nodes, created, notice, process>>
           /\ watch \subseteq watch' /\ watch' \subseteq watch \union {s}
           /\ deaf \subseteq deaf' /\ deaf' \subseteq deaf \union {s}
           /\ \E label \in Stages : Goto(s, t, label)
           /\ \A r \in Servers, u \in Threads : r # s \/ u # t => next'[r][u] = next[r][u]
           /\ \A r \in Servers : r # s => zNextNode'[r] = zNextNode[r]
<1>1. CASE GetChildren(s, t)
  <2>1. \A r \in Servers, u \in Threads : r # s \/ u # t => next'[r][u] = next[r][u]
    BY <1>1 DEF GetChildren, TypeOK
  <2>. QED
    BY <1>1, <2>1 DEF GetChildren, WatchAgain, Stages, process
<1>2. CASE GetChildrenFails(s, t) \/ GetAddressFails(s, t)
  <2>1. Return(s, t) /\ UNCHANGED <<zookeeper, process, zNextNode>>
    BY <1>2 DEF GetChildrenFails, GetAddressFails
  <2>2. /\ Goto(s, t, "idle")
        /\ \A r \in Servers, u \in Threads : r # s \/ u # t => next'[r][u] = next[r][u]
    BY <2>1, ReturnForgets DEF TypeOK
  <2>3. pc[s][t] # "idle" /\ deaf \subseteq deaf' /\ deaf' \subseteq deaf \union {s}
    BY <1>2 DEF GetChildrenFails, GetAddressFails
  <2>. QED
    BY <2>1, <2>2, <2>3 DEF Stages, zookeeper
<1>3. CASE SetNext(s, t)
  <2>1. /\ \E label \in Stages : Goto(s, t, label)
        /\ \A r \in Servers, u \in Threads : r # s \/ u # t => next'[r][u] = next[r][u]
    <3>1. CASE Return(s, t)
      BY <3>1, ReturnForgets DEF TypeOK, Stages
    <3>2. CASE Goto(s, t, "get_address") /\ UNCHANGED next
      BY <3>2 DEF Stages
    <3>. QED
      BY <1>3, <3>1, <3>2 DEF SetNext
  <2>2. \A r \in Servers : r # s => zNextNode'[r] = zNextNode[r]
    BY <1>3 DEF SetNext, TypeOK
  <2>. QED
    BY <1>3, <2>1, <2>2 DEF SetNext, zookeeper
<1>4. CASE GetAddress(s, t)
  BY <1>4 DEF GetAddress, Stages, zookeeper
<1>5. CASE Connect(s, t) \/ ConnectFails(s, t)
  <2>1. /\ pc[s][t] # "idle"
        /\ Return(s, t) /\ UNCHANGED <<zookeeper, process, zNextNode, cuts, deaf>>
    BY <1>5 DEF Connect, ConnectFails
  <2>2. /\ Goto(s, t, "idle")
        /\ \A r \in Servers, u \in Threads : r # s \/ u # t => next'[r][u] = next[r][u]
    BY <2>1, ReturnForgets DEF TypeOK
  <2>. QED
    BY <2>1, <2>2 DEF Stages, zookeeper
<1>. QED
  BY <1>1, <1>2, <1>3, <1>4, <1>5 DEF child_watcher

\* Numbers that were not given out still belong to nobody after a step.
LEMMA UnbornStep == TypeOK /\ Unborn /\ [Next]_vars => Unborn'
<1>. SUFFICES ASSUME TypeOK, Unborn, [Next]_vars, NEW r \in Servers, r > created'
              PROVE  /\ r \notin nodes' \union alive' \union watch' \union notice' \union deaf'
                     /\ \A u \in Threads : pc'[r][u] = "idle" /\ next'[r][u] = None
  BY DEF Unborn
<1>. Servers \subseteq Int /\ created \in Int
  BY MembershipAssumption DEF Servers, TypeOK
<1>a. r > created =>
        /\ r \notin nodes \union alive \union watch \union notice \union deaf
        /\ \A u \in Threads : pc[r][u] = "idle" /\ next[r][u] = None
  BY DEF Unborn
<1>1. CASE UNCHANGED vars
  BY <1>1, <1>a DEF vars, zookeeper, process
<1>2. ASSUME NEW s \in Servers, Register(s) PROVE r > created /\ r # s
  BY <1>2 DEF Register
<1>3. CASE \E s \in Servers : Register(s)
  <2>. PICK s \in Servers : Register(s)
    BY <1>3
  <2>1. \A u \in Threads : pc'[r][u] = pc[r][u]
    BY <1>2 DEF Register, Goto, TypeOK
  <2>. QED
    BY <2>1, <1>2, <1>a DEF Register, Notify
<1>4. CASE \E s \in Servers : Expire(s)
  BY <1>4, <1>a DEF Expire, Notify, process
<1>5. CASE \E s \in Servers : SessionEvent(s)
  BY <1>5, <1>a DEF SessionEvent, process
<1>6. CASE \E s \in Servers : Deliver(s)
  <2>. PICK s \in Servers : Deliver(s)
    BY <1>6
  <2>1. r > created /\ r # s
    BY <1>a DEF Deliver
  <2>2. \A u \in Threads : pc'[r][u] = pc[r][u]
    BY <2>1 DEF Deliver, Goto, TypeOK
  <2>. QED
    BY <2>1, <2>2, <1>a DEF Deliver, process
<1>7. CASE \E s \in Servers, t \in Threads : child_watcher(s, t)
  <2>. PICK s \in Servers, t \in Threads : child_watcher(s, t)
    BY <1>7
  <2>1. r > created /\ r # s
    BY <1>a, WatcherMoves
  <2>2. \A u \in Threads : pc'[r][u] = pc[r][u] /\ next'[r][u] = next[r][u]
    BY <2>1, WatcherMoves, GotoMoves DEF TypeOK
  <2>. QED
    BY <2>1, <2>2, <1>a, WatcherMoves DEF process
<1>8. CASE \E s \in Servers : Listen(s)
  BY <1>8, <1>a DEF Listen, zookeeper
<1>9. CASE \E s \in Servers : Crash(s)
  <2>. PICK s \in Servers : Crash(s)
    BY <1>9
  <2>1. r > created /\ r # s
    BY <1>a DEF Crash
  <2>2. \A u \in Threads : pc'[r][u] = pc[r][u] /\ next'[r][u] = next[r][u]
    BY <2>1 DEF Crash, TypeOK
  <2>. QED
    BY <2>1, <2>2, <1>a DEF Crash
<1>. QED
  BY <1>1, <1>3, <1>4, <1>5, <1>6, <1>7, <1>8, <1>9 DEF Next

\* With Serial a notification starts child_watcher only when no thread is in it.
LEMMA OneThreadStep == TypeOK /\ Unborn /\ OneThread /\ [Next]_vars => OneThread'
<1>. SUFFICES ASSUME TypeOK, Unborn, OneThread, [Next]_vars, Serial, NEW r \in Servers
              PROVE  pc'[r]["main"] = "idle" \/ pc'[r]["zk"] = "idle"
  BY DEF OneThread
<1>. Servers \subseteq Int /\ created \in Int
  BY MembershipAssumption DEF Servers, TypeOK
<1>a. pc[r]["main"] = "idle" \/ pc[r]["zk"] = "idle"
  BY DEF OneThread
<1>1. CASE pc' = pc
  BY <1>1, <1>a
<1>2. CASE \E s \in Servers : Register(s)
  <2>. PICK s \in Servers : Register(s)
    BY <1>2
  <2>1. pc[s]["zk"] = "idle"
    BY DEF Register, Unborn, Threads
  <2>2. \A q \in Servers, u \in Threads : q # s \/ u # "main" => pc'[q][u] = pc[q][u]
    BY GotoMoves DEF Register, TypeOK, Threads, Stages
  <2>. QED
    BY <2>1, <2>2, <1>a DEF Threads
<1>3. CASE \E s \in Servers : Deliver(s)
  <2>. PICK s \in Servers : Deliver(s)
    BY <1>3
  <2>1. \A q \in Servers, u \in Threads : q # s \/ u # "zk" => pc'[q][u] = pc[q][u]
    BY GotoMoves DEF Deliver, TypeOK, Threads, Stages
  <2>. QED
    BY <2>1, <1>a DEF Deliver, Threads
<1>4. CASE \E s \in Servers, t \in Threads : child_watcher(s, t)
  <2>. PICK s \in Servers, t \in Threads : child_watcher(s, t)
    BY <1>4
  <2>1. /\ pc[s][t] # "idle"
        /\ \A q \in Servers, u \in Threads : q # s \/ u # t => pc'[q][u] = pc[q][u]
    BY WatcherMoves, GotoMoves DEF TypeOK
  <2>. QED
    BY <2>1, <1>a DEF Threads
<1>5. CASE \E s \in Servers : Crash(s)
  <2>. PICK s \in Servers : Crash(s)
    BY <1>5
  <2>1. pc' = [pc EXCEPT ![s] = [t \in Threads |-> "idle"]]
    BY DEF Crash
  <2>. QED
    BY <2>1, <1>a DEF TypeOK, Threads
<1>6. ASSUME NEW s \in Servers, Expire(s) \/ SessionEvent(s) \/ Listen(s) PROVE pc' = pc
  BY <1>6 DEF Expire, SessionEvent, Listen
<1>. QED
  BY <1>1, <1>2, <1>3, <1>4, <1>5, <1>6 DEF Next, vars

-----------------------------------------------------------------------------
\* No way back.

\* A server takes only later servers for its next, and connects only to those.
LEMMA ForwardStep == TypeOK /\ Forward /\ [Next]_vars => Forward'
<1>. SUFFICES ASSUME TypeOK, Forward, [Next]_vars, NEW r \in Servers
              PROVE  /\ zNextNode'[r] # None => zNextNode'[r] > r
                     /\ nextSocket'[r] # None => nextSocket'[r] > r
                     /\ \A u \in Threads : next'[r][u] # None => next'[r][u] > r
  BY DEF Forward
<1>a. /\ zNextNode[r] # None => zNextNode[r] > r
      /\ nextSocket[r] # None => nextSocket[r] > r
      /\ \A u \in Threads : next[r][u] # None => next[r][u] > r
  BY DEF Forward
<1>1. CASE UNCHANGED <<next, zNextNode, nextSocket>>
  BY <1>1, <1>a
<1>2. CASE \E s \in Servers, t \in Threads : GetChildren(s, t)
  <2>. PICK s \in Servers, t \in Threads : GetChildren(s, t)
    BY <1>2
  <2>1. Successor(nodes, s) # None => Successor(nodes, s) > s
    BY SuccessorFollows DEF TypeOK
  <2>2. \A u \in Threads : next'[r][u] = next[r][u] \/ (r = s /\ next'[r][u] = Successor(nodes, s))
    BY DEF GetChildren, TypeOK
  <2>. QED
    BY <2>1, <2>2, <1>a DEF GetChildren
<1>3. CASE \E s \in Servers, t \in Threads :
             Return(s, t) /\ UNCHANGED <<zNextNode, nextSocket>>
  <2>1. \A u \in Threads : next'[r][u] = next[r][u] \/ next'[r][u] = None
    BY <1>3, ReturnForgets DEF TypeOK
  <2>. QED
    BY <1>3, <2>1, <1>a
<1>4. CASE \E s \in Servers, t \in Threads : SetNext(s, t)
  <2>. PICK s \in Servers, t \in Threads : SetNext(s, t)
    BY <1>4
  <2>1. \A u \in Threads : next'[r][u] = next[r][u] \/ next'[r][u] = None
    BY ReturnForgets DEF SetNext, TypeOK
  <2>2. zNextNode'[r] = zNextNode[r] \/ (r = s /\ zNextNode'[r] = next[r][t])
    BY DEF SetNext, TypeOK
  <2>. QED
    BY <2>1, <2>2, <1>a DEF SetNext
<1>5. CASE \E s \in Servers, t \in Threads : Connect(s, t)
  <2>. PICK s \in Servers, t \in Threads : Connect(s, t)
    BY <1>5
  <2>1. \A u \in Threads : next'[r][u] = next[r][u] \/ next'[r][u] = None
    BY ReturnForgets DEF Connect, TypeOK
  <2>2. nextSocket'[r] = nextSocket[r] \/ (r = s /\ nextSocket'[r] = next[r][t])
    BY DEF Connect, UseSocket, TypeOK
  <2>. QED
    BY <2>1, <2>2, <1>a DEF Connect
<1>6. CASE \E s \in Servers : Crash(s)
  <2>. PICK s \in Servers : Crash(s)
    BY <1>6
  <2>1. zNextNode'[r] = zNextNode[r] \/ zNextNode'[r] = None
    BY DEF Crash, TypeOK
  <2>2. nextSocket'[r] = nextSocket[r] \/ nextSocket'[r] = None
    BY DEF Crash, TypeOK
  <2>3. \A u \in Threads : next'[r][u] = next[r][u] \/ next'[r][u] = None
    BY DEF Crash, TypeOK
  <2>. QED
    BY <2>1, <2>2, <2>3, <1>a
<1>7. ASSUME NEW s \in Servers,
             Register(s) \/ Expire(s) \/ SessionEvent(s) \/ Deliver(s) \/ Listen(s)
      PROVE  UNCHANGED <<next, zNextNode, nextSocket>>
  BY <1>7 DEF Register, Expire, SessionEvent, Deliver, Listen
<1>8. ASSUME NEW s \in Servers, NEW t \in Threads, child_watcher(s, t)
      PROVE  \/ UNCHANGED <<next, zNextNode, nextSocket>>
             \/ GetChildren(s, t) \/ SetNext(s, t) \/ Connect(s, t)
             \/ Return(s, t) /\ UNCHANGED <<zNextNode, nextSocket>>
  BY <1>8 DEF child_watcher, GetChildrenFails, GetAddress, GetAddressFails, ConnectFails
<1>. QED
  BY <1>1, <1>2, <1>3, <1>4, <1>5, <1>6, <1>7, <1>8 DEF Next, vars

-----------------------------------------------------------------------------
\* No change is missed.

\* Nothing that happens elsewhere changes what a server has seen.
LEMMA SeenKept ==
    ASSUME NEW r \in Servers, Seen(r),
           nodes' = nodes, watch \subseteq watch', zNextNode'[r] = zNextNode[r],
           r \in notice => r \in notice',
           \A u \in Threads : pc'[r][u] = pc[r][u] /\ next'[r][u] = next[r][u]
    PROVE  Seen(r)'
BY DEF Seen, WillLook, WillSet

\* A change of the nodes makes every member look again.
LEMMA SeenChange ==
    ASSUME NEW r \in Servers, Seen(r), Notify,
           \A u \in Threads : pc'[r][u] = pc[r][u]
    PROVE  Seen(r)'
<1>1. CASE WillLook(r)
  BY <1>1 DEF Seen, WillLook, Notify
<1>2. CASE r \in watch
  BY <1>2 DEF Seen, WillLook, Notify
<1>. QED
  BY <1>1, <1>2 DEF Seen

\* What a step of child_watcher makes of what its own server has seen.
LEMMA SeenOwn ==
    ASSUME TypeOK, OneThread, Serial, NEW s \in Servers, NEW t \in Threads,
           child_watcher(s, t), s \in Members', Seen(s)
    PROVE  Seen(s)'
<1>a. \A u \in Threads : u # t => pc[s][u] = "idle" /\ pc'[s][u] = "idle"
  <2>1. pc[s][t] # "idle"
    BY WatcherMoves
  <2>2. \A u \in Threads : u # t => pc[s][u] = "idle"
    BY <2>1 DEF OneThread, Threads
  <2>3. \A u \in Threads : u # t => pc'[s][u] = pc[s][u]
    BY WatcherMoves, GotoMoves DEF TypeOK
  <2>. QED
    BY <2>2, <2>3
<1>1. CASE GetChildren(s, t)
  <2>1. pc'[s][t] = "set_next"
    BY <1>1, GotoMoves DEF GetChildren, TypeOK, Stages
  <2>2. next'[s][t] = Successor(nodes, s)
    BY <1>1 DEF GetChildren, TypeOK
  <2>3. s \in watch' /\ nodes' = nodes
    BY <1>1 DEF GetChildren, WatchAgain
  <2>4. Successor(nodes, s)' = Successor(nodes, s)
    BY <2>3 DEF Successor, Followers
  <2>. QED
    BY <2>1, <2>2, <2>3, <2>4 DEF Seen
<1>2. CASE GetChildrenFails(s, t)
  BY <1>2 DEF GetChildrenFails, Members
<1>b. CASE nodes' = nodes /\ watch' = watch /\ notice' = notice
  <2>0. Successor(nodes, s)' = Successor(nodes, s)
    BY <1>b DEF Successor, Followers
  <2>1. CASE SetNext(s, t)
    <3>1. pc[s][t] = "set_next" /\ zNextNode'[s] = next[s][t]
      BY <2>1 DEF SetNext, TypeOK
    <3>2. pc'[s][t] \in {"idle", "get_address"}
      BY <2>1, GotoMoves, ReturnForgets DEF SetNext, TypeOK, Stages
    <3>3. ~WillSet(s)'
      BY <3>2, <1>a DEF WillSet
    <3>4. CASE WillLook(s)
      BY <3>1, <3>4, <1>a, <1>b DEF Seen, WillLook
    <3>5. CASE ~WillLook(s)
      <4>1. s \in watch /\ next[s][t] = Successor(nodes, s)
        BY <3>1, <3>5, <1>a DEF Seen, WillSet
      <4>. QED
        BY <4>1, <3>1, <3>3, <2>0, <1>b DEF Seen
    <3>. QED
      BY <3>4, <3>5
  <2>2. CASE GetAddress(s, t) \/ GetAddressFails(s, t) \/ Connect(s, t) \/ ConnectFails(s, t)
    <3>1. /\ pc[s][t] \in {"get_address", "connect"}
          /\ zNextNode' = zNextNode
          /\ Goto(s, t, "connect") \/ Return(s, t)
      BY <2>2 DEF GetAddress, GetAddressFails, Connect, ConnectFails
    <3>2. pc'[s][t] \in {"connect", "idle"}
      BY <3>1, GotoMoves, ReturnForgets DEF TypeOK, Stages
    <3>3. ~WillSet(s)' /\ ~WillSet(s)
      BY <3>1, <3>2, <1>a DEF WillSet
    <3>4. CASE s \in notice
      BY <3>4, <1>b DEF Seen, WillLook
    <3>5. CASE s \notin notice
      <4>1. ~WillLook(s)
        BY <3>1, <3>5, <1>a DEF WillLook
      <4>2. s \in watch /\ zNextNode[s] = Successor(nodes, s)
        BY <4>1, <3>3 DEF Seen, WillSet
      <4>. QED
        BY <4>2, <3>1, <3>3, <2>0, <1>b DEF Seen
    <3>. QED
      BY <3>4, <3>5
  <2>. QED
    BY <2>1, <2>2, <1>1, <1>2 DEF child_watcher
<1>3. CASE ~GetChildren(s, t) /\ ~GetChildrenFails(s, t)
  <2>1. nodes' = nodes /\ watch' = watch /\ notice' = notice
    BY <1>3 DEF child_watcher, SetNext, GetAddress, GetAddressFails, Connect, ConnectFails,
                zookeeper
  <2>. QED
    BY <2>1, <1>b
<1>. QED
  BY <1>1, <1>2, <1>3

\* Every step keeps what the members know: a change fires the watches, and child_watcher
\* leaves a watch whenever it reads the nodes.
LEMMA SeenStep ==
    ASSUME TypeOK, Unborn, OneThread, Serial, \A s \in Members : Seen(s), [Next]_vars
    PROVE  (\A s \in Members : Seen(s))'
<1>. SUFFICES ASSUME NEW r \in Members' PROVE Seen(r)'
  OBVIOUS
<1>a. r \in Servers
  <2>1. TypeOK'
    BY TypeStep
  <2>. QED
    BY <2>1 DEF TypeOK, Members
<1>1. CASE UNCHANGED vars
  <2>1. r \in Members /\ Seen(r)
    BY <1>1 DEF vars, zookeeper, process, Members
  <2>. QED
    BY <1>1, <1>a, <2>1, SeenKept DEF vars, zookeeper
<1>2. CASE \E s \in Servers : Register(s)
  <2>. PICK s \in Servers : Register(s)
    BY <1>2
  <2>1. /\ pc'[s]["main"] = "get_children"
        /\ \A q \in Servers, u \in Threads : q # s => pc'[q][u] = pc[q][u]
    BY GotoMoves DEF Register, TypeOK, Threads, Stages
  <2>2. CASE r = s
    BY <2>1, <2>2 DEF Seen, WillLook, Threads
  <2>3. CASE r # s
    <3>1. r \in Members
      BY <2>3 DEF Register, Members
    <3>. QED
      BY <2>1, <2>3, <3>1, <1>a, SeenChange DEF Register
  <2>. QED
    BY <2>2, <2>3
<1>3. CASE \E s \in Servers : Expire(s)
  <2>. PICK s \in Servers : Expire(s)
    BY <1>3
  <2>1. r \in Members
    BY DEF Expire, Members, process
  <2>. QED
    BY <2>1, <1>a, SeenChange DEF Expire
<1>4. CASE \E s \in Servers : SessionEvent(s) \/ Listen(s)
  <2>. PICK s \in Servers : SessionEvent(s) \/ Listen(s)
    BY <1>4
  <2>1. r \in Members
    BY DEF SessionEvent, Listen, Members, process, zookeeper
  <2>. QED
    BY <2>1, <1>a, SeenKept DEF SessionEvent, Listen, zookeeper
<1>5. CASE \E s \in Servers : Deliver(s)
  <2>. PICK s \in Servers : Deliver(s)
    BY <1>5
  <2>1. r \in Members
    BY DEF Deliver, Members, process
  <2>2. /\ pc'[s]["zk"] = "get_children"
        /\ \A q \in Servers, u \in Threads : q # s => pc'[q][u] = pc[q][u]
    BY GotoMoves DEF Deliver, TypeOK, Threads, Stages
  <2>3. CASE r = s
    BY <2>2, <2>3 DEF Seen, WillLook, Threads
  <2>4. CASE r # s
    BY <2>1, <2>2, <2>4, <1>a, SeenKept DEF Deliver
  <2>. QED
    BY <2>3, <2>4
<1>6. CASE \E s \in Servers, t \in Threads : child_watcher(s, t)
  <2>. PICK s \in Servers, t \in Threads : child_watcher(s, t)
    BY <1>6
  <2>1. r \in Members
    BY WatcherMoves DEF Members, process
  <2>2. CASE r = s
    BY <2>1, <2>2, SeenOwn
  <2>3. CASE r # s
    <3>1. \A u \in Threads : pc'[r][u] = pc[r][u] /\ next'[r][u] = next[r][u]
      BY <1>a, <2>3, WatcherMoves, GotoMoves DEF TypeOK
    <3>. QED
      BY <1>a, <2>1, <2>3, <3>1, SeenKept, WatcherMoves
  <2>. QED
    BY <2>2, <2>3
<1>7. CASE \E s \in Servers : Crash(s)
  <2>. PICK s \in Servers : Crash(s)
    BY <1>7
  <2>1. r \in Members /\ r # s
    BY DEF Crash, Members
  <2>2. \A u \in Threads : pc'[r][u] = pc[r][u] /\ next'[r][u] = next[r][u]
    BY <1>a, <2>1 DEF Crash, TypeOK
  <2>3. zNextNode'[r] = zNextNode[r] /\ nodes' = nodes
    BY <1>a, <2>1 DEF Crash, TypeOK
  <2>4. (r \in notice => r \in notice') /\ (r \in watch => r \in watch')
    BY <2>1 DEF Crash
  <2>5. Successor(nodes, r)' = Successor(nodes, r)
    BY <2>3 DEF Successor, Followers
  <2>. QED
    BY <2>1, <2>2, <2>3, <2>4, <2>5 DEF Seen, WillLook, WillSet
<1>. QED
  BY <1>1, <1>2, <1>3, <1>4, <1>5, <1>6, <1>7 DEF Next

-----------------------------------------------------------------------------
\* The theorems.

\* Before any server has started there is nothing to know.
LEMMA InitInv == Init => MInv
<1>. SUFFICES ASSUME Init PROVE MInv
  OBVIOUS
<1>1. TypeOK
  BY MembershipAssumption DEF Init, TypeOK, Stages
<1>2. Unborn /\ OneThread
  BY DEF Init, Unborn, OneThread, Threads
<1>3. Forward
  BY DEF Init, Forward
<1>4. Members = {}
  BY DEF Init, Members
<1>. QED
  BY <1>1, <1>2, <1>3, <1>4 DEF MInv

\* Every step keeps the inductive invariant.
LEMMA StepInv == MInv /\ [Next]_vars => MInv'
<1>. SUFFICES ASSUME MInv, [Next]_vars PROVE MInv'
  OBVIOUS
<1>1. TypeOK' /\ Unborn' /\ OneThread' /\ Forward'
  BY TypeStep, UnbornStep, OneThreadStep, ForwardStep DEF MInv
<1>2. ASSUME Serial PROVE (\A s \in Members : Seen(s))'
  BY <1>2, SeenStep DEF MInv
<1>. QED
  BY <1>1, <1>2 DEF MInv

\* The inductive invariant holds in every state (child_watcher).
THEOREM Invariance == Spec => []MInv
BY InitInv, StepInv, PTL DEF Spec

\* The types (rtree.zNextNode and rtree.nextSocket hold a server that was there, or none).
THEOREM TypeCorrect == Spec => []TypeOK
<1>1. MInv => TypeOK
  BY DEF MInv
<1>. QED
  BY <1>1, Invariance, PTL

\* However many servers come and go, and whatever each has seen of it, writes never
\* return to a server they have been at (child_watcher, connect_to_server).
THEOREM ForwardCorrect == Spec => []WritesGoForward
<1>1. MInv => WritesGoForward
  BY DEF MInv, Forward, WritesGoForward
<1>. QED
  BY <1>1, Invariance, PTL

\* With child_watcher on one thread at a time, its one-shot watch misses no change of
\* the chain (child_watcher).
THEOREM NothingMissed == Spec => [](Serial => NoMissedChange)
<1>1. MInv => (Serial => NoMissedChange)
  BY DEF MInv, NoMissedChange, Seen, WillSet
<1>. QED
  BY <1>1, Invariance, PTL

=============================================================================
