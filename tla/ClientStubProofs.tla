--------------------------- MODULE ClientStubProofs ---------------------------
(***************************************************************************)
(* Proofs about the connections of a client (ClientStub), for any number   *)
(* of servers, descriptors and calls: the invariant UInv, and from it the  *)
(* invariants the run ClientFollows checks.                                *)
(***************************************************************************)
EXTENDS ClientStub, TLAPS, FiniteSetTheorems, LeastNumbers

\* The bounds are numbers.
LEMMA Bounds ==
    /\ MaxServers \in Nat /\ MaxServers > 0 /\ MaxFd \in Nat /\ MaxFd > 1 /\ MaxCalls \in Nat
    /\ 1 \in Numbers /\ 2 \in Numbers /\ 0 \notin Numbers /\ Numbers \subseteq Nat
    /\ Servers \subseteq Nat /\ Nobody \notin Servers
BY ClientStubAssumption DEF Numbers, Servers, Nobody

\* The lowest free number is free, and none below it is.
LEMMA LowestIsFree ==
    ASSUME FreeNumbers # {}
    PROVE  /\ Lowest \in Numbers /\ fd[Lowest] = Free
           /\ \A m \in Numbers : fd[m] = Free => Lowest <= m
<1>1. FreeNumbers \in SUBSET Nat
  BY Bounds DEF FreeNumbers
<1>2. \E n \in FreeNumbers : \A m \in FreeNumbers : n <= m
  BY <1>1, LeastNumber
<1>. QED
  BY <1>2 DEF Lowest, FreeNumbers

\* The first and the last server of a list are servers in it.
LEMMA FirstAndLast ==
    ASSUME NEW S \in SUBSET Servers, S # {}
    PROVE  FirstOf(S) \in S /\ LastOf(S) \in S
<1>1. S \in SUBSET Nat /\ S \in SUBSET (0 .. MaxServers)
  BY Bounds DEF Servers
<1>2. \E n \in S : \A m \in S : n <= m
  BY <1>1, LeastNumber
<1>3. \E n \in S : \A m \in S : n >= m
  BY <1>1, Bounds, GreatestNumber
<1>. QED
  BY <1>2, <1>3 DEF FirstOf, LastOf

-----------------------------------------------------------------------------
\* The types of the variables.

\* The values of the variables.
Sockets == [to : Servers \union {Nobody}, role : Roles] \union {Free}
Calling == {"write", "sent", "again", "read", "wait", "wait_again", "close", "close_again"}
Connects == {"connect", "addresses", "head_socket", "tail_socket", "dial"}

\* The parts of TypeOK for the groups of variables.
ChainTyped ==
    /\ created \in Servers /\ alive \subseteq nodes /\ nodes \subseteq 1 .. created
    /\ watch \in BOOLEAN /\ event \in BOOLEAN
FdTyped ==
    /\ fd \in [Numbers -> Sockets] /\ new \in Pairs /\ list \subseteq Servers
    /\ mine \in Pairs /\ stub \in Pairs /\ freed \in BOOLEAN
    /\ status \in {"up", "quit", "exit", "undefined"}
    /\ zpc \in {"idle", "children", "close_head", "close_tail", "free", "head_socket",
                "tail_socket", "dial"}
MainTyped ==
    /\ mpc \in Connects \union {"idle"} \union Calling
    /\ mfd \in Numbers \union {0} /\ peer \in Servers \union {Nobody} /\ held \in BOOLEAN
    /\ mpc = "idle" => mfd = 0 /\ peer = Nobody /\ ~held
HistoryTyped ==
    /\ calls \in 0 .. MaxCalls
    /\ died \in BOOLEAN /\ raced \in BOOLEAN /\ failed \in BOOLEAN /\ astray \in BOOLEAN
FailuresTyped == headFailures \in 0 .. 2 * MaxCalls

\* TypeOK is the conjunction of its parts, in a state and in the next one.
LEMMA TypedParts ==
    /\ TypeOK <=> ChainTyped /\ FdTyped /\ MainTyped /\ HistoryTyped /\ FailuresTyped
    /\ TypeOK' <=> ChainTyped' /\ FdTyped' /\ MainTyped' /\ HistoryTyped' /\ FailuresTyped'
BY DEF TypeOK, ChainTyped, FdTyped, MainTyped, HistoryTyped, FailuresTyped,
    Sockets, Calling, Connects

\* A descriptor that is free, and the numbers of the structures.
LEMMA Values ==
    /\ Free \in Sockets /\ NoPair \in Pairs /\ Free.to = Nobody
    /\ \A s \in Servers, role \in Roles : [to |-> s, role |-> role] \in Sockets
    /\ \A role \in Roles : [to |-> Nobody, role |-> role] \in Sockets
    /\ \A s \in Sockets : s.to \in Servers \union {Nobody} /\ (s.to # Nobody => s.role \in Roles)
    /\ \A role \in Roles : [to |-> Nobody, role |-> role] # Free
    /\ \A s \in Sockets : s.to # Nobody => s # Free
BY Bounds DEF Sockets, Free, NoPair, Pairs, Roles, Nobody

\* The end of the process leaves the variables typed and nothing to do.
LEMMA EndsTyped ==
    ASSUME NEW how \in {"quit", "exit", "undefined"}, Ends(how)
    PROVE  FdTyped' /\ MainTyped' /\ status' = how /\ ~Up' /\ MayFail' = 0
<1>1. [n \in Numbers |-> Free] \in [Numbers -> Sockets]
  BY Values
<1>2. FdTyped'
  BY <1>1, Values DEF Ends, FdTyped
<1>. QED
  BY <1>2 DEF Ends, MainTyped, Up, MayFail

\* Less to come counts less.
LEMMA Sum ==
    /\ \A h, m, k, c \in Nat : h + m <= 2 * c /\ k <= m => h + k <= 2 * c
    /\ \A h, m, c \in Nat : h + m <= 2 * c => h <= 2 * c
OBVIOUS

-----------------------------------------------------------------------------
\* Servers come and go, and the process ends.

\* What the invariant says while the process runs.
LEMMA Running ==
    ASSUME UInv, Up
    PROVE  /\ ChainTyped /\ FdTyped /\ MainTyped /\ HistoryTyped /\ FailuresTyped
           /\ Counted /\ SmoothJoins /\ Sided /\ Reopened
           /\ Connecting => FirstSockets
           /\ ~Connecting => Placed /\ Leaking
           /\ ~Connecting /\ ~failed => Unfailed
           /\ mpc # "connect" /\ zpc # "children" /\ ~event => Watched
           /\ ~died => alive = nodes /\ nodes # {}
           /\ ~died /\ ~raced => Smooth
BY TypedParts DEF UInv, Kept

\* The process ends: with an exit only after a server died or a call met child_watcher.
LEMMA EndKeeps ==
    ASSUME UInv, Up, NEW how \in {"quit", "exit", "undefined"}, Ends(how),
           UNCHANGED <<nodes, alive, created, died, calls, failed, headFailures, astray>>,
           watch' \in BOOLEAN, event' \in BOOLEAN, raced' \in BOOLEAN, raced => raced',
           how = "exit" => died \/ raced'
    PROVE  UInv'
<1>1. /\ ChainTyped /\ FdTyped /\ MainTyped /\ HistoryTyped /\ FailuresTyped
      /\ Counted /\ SmoothJoins
  BY Running
<1>2. FdTyped' /\ MainTyped' /\ status' = how /\ ~Up' /\ MayFail' = 0
  BY EndsTyped
<1>3. ChainTyped' /\ HistoryTyped' /\ FailuresTyped'
  BY <1>1 DEF ChainTyped, HistoryTyped, FailuresTyped
<1>4. Counted'
  <2>1. MayFail \in {0, 1, 2} /\ headFailures \in Nat /\ calls \in Nat
    BY <1>1, Bounds DEF MayFail, FailuresTyped, HistoryTyped
  <2>. QED
    BY <1>1, <1>2, <2>1 DEF Counted
<1>5. SmoothJoins'
  BY <1>1, <1>2 DEF SmoothJoins
<1>. QED
  BY <1>2, <1>3, <1>4, <1>5, TypedParts DEF UInv

\* The chain changes, and nothing of the client.
ChainMoves ==
    /\ OnlyChain /\ ChainTyped' /\ died' \in BOOLEAN /\ (died => died')
    /\ ~event' => ~event /\ (watch => watch' /\ nodes' = nodes)
    /\ ~died' => alive' = nodes' /\ nodes \subseteq nodes'

\* The steps of the chain are such steps, if ~died means that all servers run.
LEMMA ChainStepMoves ==
    ASSUME ChainTyped, died \in BOOLEAN, ~died => alive = nodes,
           Join \/ \E s \in Servers : Die(s) \/ Expire(s)
    PROVE  ChainMoves
<1>1. CASE Join
  <2>1. /\ created' = created + 1 /\ alive' = alive \union {created + 1}
        /\ nodes' = nodes \union {created + 1} /\ event' = (event \/ watch) /\ watch' = FALSE
        /\ died' = died /\ OnlyChain /\ created < MaxServers
    BY <1>1 DEF Join, Children
  <2>2. created \in Nat /\ created + 1 \in Servers
    BY <2>1, Bounds DEF ChainTyped, Servers
  <2>3. nodes' \subseteq 1 .. created' /\ alive' \subseteq nodes'
    BY <2>1, <2>2 DEF ChainTyped
  <2>4. ChainTyped'
    BY <2>1, <2>2, <2>3 DEF ChainTyped
  <2>. QED
    BY <2>1, <2>4 DEF ChainMoves
<1>2. ASSUME NEW s \in Servers, Die(s)
      PROVE  ChainMoves
  BY <1>2 DEF Die, ChainTyped, ChainMoves
<1>3. ASSUME NEW s \in Servers, Expire(s)
      PROVE  ChainMoves
  <2>1. /\ s \in nodes \ alive /\ nodes' = nodes \ {s} /\ event' = (event \/ watch)
        /\ watch' = FALSE /\ UNCHANGED <<alive, created, died>> /\ OnlyChain
    BY <1>3 DEF Expire, Children
  <2>2. ChainTyped'
    BY <2>1 DEF ChainTyped
  <2>3. died
    BY <2>1
  <2>. QED
    BY <2>1, <2>2, <2>3 DEF ChainMoves
<1>. QED
  BY <1>1, <1>2, <1>3

\* A server joins, dies or is seen to have died.
LEMMA ChainKeeps ==
    ASSUME UInv, Up, Join \/ \E s \in Servers : Die(s) \/ Expire(s)
    PROVE  UInv'
<1>1. /\ ChainTyped /\ FdTyped /\ MainTyped /\ HistoryTyped /\ FailuresTyped
      /\ Counted /\ SmoothJoins /\ Sided /\ Reopened
      /\ Connecting => FirstSockets
      /\ ~Connecting => Placed /\ Leaking
      /\ ~Connecting /\ ~failed => Unfailed
      /\ mpc # "connect" /\ zpc # "children" /\ ~event => Watched
      /\ ~died => alive = nodes /\ nodes # {}
      /\ ~died /\ ~raced => Smooth
  BY Running
<1>2. ChainMoves
  BY <1>1, ChainStepMoves DEF HistoryTyped
<1>3. /\ UNCHANGED <<status, fd, mine, stub, freed, mpc, mfd, peer, held, zpc, list, new>>
      /\ UNCHANGED <<calls, raced, failed, headFailures, astray>>
      /\ ChainTyped' /\ died' \in BOOLEAN /\ (died => died')
      /\ ~event' => ~event /\ (watch => watch' /\ nodes' = nodes)
      /\ ~died' => alive' = nodes' /\ nodes \subseteq nodes'
  BY <1>2 DEF ChainMoves, OnlyChain, rtrees, main, watcher
<1>4. TypeOK'
  <2>1. FdTyped'
    BY <1>1, <1>3 DEF FdTyped
  <2>2. MainTyped'
    BY <1>1, <1>3 DEF MainTyped
  <2>3. HistoryTyped'
    BY <1>1, <1>3 DEF HistoryTyped
  <2>4. FailuresTyped'
    BY <1>1, <1>3 DEF FailuresTyped
  <2>. QED
    BY <1>3, <2>1, <2>2, <2>3, <2>4, TypedParts
<1>5. (Connecting' <=> Connecting) /\ Up' /\ (Resting' <=> Resting)
  BY <1>3 DEF Connecting, Up, Resting
<1>6. Counted'
  BY <1>1, <1>3, <1>5 DEF Counted, MayFail
<1>7. SmoothJoins'
  BY <1>1, <1>3 DEF SmoothJoins
<1>8. Sided' /\ Reopened' /\ (Placed => Placed') /\ (Leaking => Leaking')
  BY <1>1, <1>3 DEF Sided, Reopened, Placed, Leaking, Opened, Reserved, Owed
<1>9. (Unfailed => Unfailed') /\ (FirstSockets => FirstSockets')
  BY <1>3 DEF Unfailed, FirstSockets, Opened
<1>10. mpc' # "connect" /\ zpc' # "children" /\ ~event' => Watched'
  BY <1>1, <1>3, <1>5 DEF Watched
<1>11. ~died' => alive' = nodes' /\ nodes' # {}
  BY <1>1, <1>3
<1>12. ~died' /\ ~raced' => Smooth'
  BY <1>1, <1>3, <1>5, <1>11 DEF Smooth
<1>13. Kept'
  BY <1>1, <1>3, <1>5, <1>8, <1>9, <1>10, <1>11, <1>12 DEF Kept
<1>. QED
  BY <1>4, <1>6, <1>7, <1>13 DEF UInv

-----------------------------------------------------------------------------
\* socket() and connect(), on either thread.

\* socket() opens the lowest number, unconnected.
LEMMA OpenForKeeps ==
    ASSUME FdTyped, Sided, FreeNumbers # {}, NEW role \in Roles, OpenFor(role)
    PROVE  /\ fd' \in [Numbers -> Sockets] /\ new' \in Pairs /\ Sided'
           /\ Lowest \in Numbers /\ Lowest \notin Opened
           /\ \A m \in Numbers : m \notin Opened => Lowest <= m
           /\ Opened' = Opened \union {Lowest}
           /\ \A n \in Numbers : n # Lowest => fd'[n] = fd[n]
           /\ \A n \in Numbers : n # Lowest \/ fd[n].to # Nobody => fd'[n].to = fd[n].to
           /\ new'[role] = Lowest /\ \A r \in Roles \ {role} : new'[r] = new[r]
<1>1. /\ Lowest \in Numbers /\ fd[Lowest] = Free
      /\ \A m \in Numbers : fd[m] = Free => Lowest <= m
  BY LowestIsFree
<1>2. fd \in [Numbers -> Sockets] /\ new \in Pairs
  BY DEF FdTyped
<1> DEFINE socket == [to |-> Nobody, role |-> role]
<1>3. socket \in Sockets /\ socket # Free /\ Free.to = Nobody
  BY Values
<1>4. socket.to = Nobody
  OBVIOUS
<1>5. fd' = [fd EXCEPT ![Lowest] = socket] /\ new' = [new EXCEPT ![role] = Lowest]
  BY DEF OpenFor
<1> HIDE DEF socket
<1>6. fd' \in [Numbers -> Sockets]
  BY <1>1, <1>2, <1>3, <1>5
<1>7. fd'[Lowest] = socket /\ \A n \in Numbers : n # Lowest => fd'[n] = fd[n]
  BY <1>1, <1>2, <1>5
<1>8. new' \in Pairs /\ new'[role] = Lowest /\ \A r \in Roles \ {role} : new'[r] = new[r]
  BY <1>1, <1>2, <1>5 DEF Pairs, Roles
<1>9. Opened' = Opened \union {Lowest}
  BY <1>1, <1>3, <1>7 DEF Opened
<1>10. Sided'
  BY <1>4, <1>7 DEF Sided
<1>11. Lowest \notin Opened /\ \A m \in Numbers : m \notin Opened => Lowest <= m
  BY <1>1 DEF Opened
<1>12. \A n \in Numbers : n # Lowest \/ fd[n].to # Nobody => fd'[n].to = fd[n].to
  BY <1>1, <1>3, <1>7
<1>. QED
  BY <1>1, <1>6, <1>7, <1>8, <1>9, <1>10, <1>11, <1>12

\* connect() connects the two sockets of new and leaves the others alone.
LEMMA ConnectKeeps ==
    ASSUME FdTyped, Sided, BothConnect, list # {}, new.head = 1, new.tail \in Numbers,
           fd' = Connected
    PROVE  /\ fd' \in [Numbers -> Sockets] /\ Sided' /\ Opened' = Opened
           /\ new.tail \in 2 .. MaxFd
           /\ FirstOf(list) \in list /\ LastOf(list) \in list
           /\ fd'[1] = [to |-> FirstOf(list), role |-> "head"]
           /\ fd'[new.tail] = [to |-> LastOf(list), role |-> "tail"]
           /\ \A n \in Numbers \ {1, new.tail} : fd'[n] = fd[n]
           /\ fd[1] # Free
<1>1. fd \in [Numbers -> Sockets] /\ list \subseteq Servers
  BY DEF FdTyped
<1>2. FirstOf(list) \in list /\ LastOf(list) \in list
  BY <1>1, FirstAndLast
<1>3. new.tail # 1 /\ fd[1] # Free /\ fd[new.tail] # Free
  <2>1. "head" \in Roles /\ "tail" \in Roles
    BY DEF Roles
  <2>2. new["head"] = 1
    OBVIOUS
  <2>3. fd[new["head"]] # Free /\ fd[new["tail"]] # Free /\ new.head # new.tail
    BY <2>1 DEF BothConnect
  <2>. QED
    BY <2>2, <2>3
<1> DEFINE h == [to |-> FirstOf(list), role |-> "head"]
           t == [to |-> LastOf(list), role |-> "tail"]
<1>4. h \in Sockets /\ t \in Sockets
  BY <1>1, <1>2, Values DEF Roles
<1>5. h.to = FirstOf(list) /\ h.role = "head" /\ t.to = LastOf(list) /\ t.role = "tail"
  OBVIOUS
<1>6. h # Free /\ t # Free
  BY <1>1, <1>2, <1>4, <1>5, Values, Bounds
<1>7. fd' = [n \in Numbers |-> IF n = 1 THEN h ELSE IF n = new.tail THEN t ELSE fd[n]]
  BY DEF Connected
<1> HIDE DEF h, t
<1>8. fd' \in [Numbers -> Sockets]
  BY <1>1, <1>4, <1>7
<1>9. fd'[1] = h /\ fd'[new.tail] = t /\ \A n \in Numbers \ {1, new.tail} : fd'[n] = fd[n]
  BY <1>3, <1>7, Bounds
<1>10. Opened' = Opened
  BY <1>3, <1>6, <1>9, Bounds DEF Opened
<1>11. Sided'
  BY <1>3, <1>5, <1>9 DEF Sided
<1>12. new.tail \in 2 .. MaxFd
  BY <1>3, Bounds DEF Numbers
<1>. QED
  BY <1>2, <1>3, <1>8, <1>9, <1>10, <1>11, <1>12 DEF h, t

-----------------------------------------------------------------------------
\* The main thread: rtree_connect.

\* A step of rtree_connect that leaves the chain and the history alone.
LEMMA ConnectingKept ==
    ASSUME UInv, Up, Connecting, Connecting', OnlyMain \/ watch' = TRUE,
           UNCHANGED <<nodes, alive, created, event, calls, died, raced, failed,
                       headFailures, astray, status, zpc>>,
           FdTyped', MainTyped', Sided', FirstSockets', list' \subseteq list \union nodes,
           mpc' # "connect" /\ ~event => watch' /\ list' = nodes
    PROVE  UInv'
<1>1. /\ ChainTyped /\ FdTyped /\ MainTyped /\ HistoryTyped /\ FailuresTyped
      /\ Counted /\ SmoothJoins /\ Sided /\ Reopened /\ FirstSockets
      /\ ~died => alive = nodes /\ nodes # {}
      /\ ~died /\ ~raced => Smooth
  BY Running
<1>2. watch' \in BOOLEAN
  BY <1>1 DEF ChainTyped, OnlyMain, zookeeper
<1>3. ChainTyped'
  BY <1>1, <1>2 DEF ChainTyped
<1>4. HistoryTyped'
  BY <1>1 DEF HistoryTyped
<1>5. FailuresTyped'
  BY <1>1 DEF FailuresTyped
<1>6. MayFail = 0 /\ MayFail' = 0
  BY DEF MayFail, Connecting
<1>7. Counted'
  BY <1>1, <1>6 DEF Counted
<1>8. SmoothJoins'
  BY <1>1 DEF SmoothJoins
<1>9. zpc = "idle" /\ zpc' = "idle" /\ Up' /\ ~Resting'
  BY <1>1 DEF FirstSockets, Up, Resting
<1>10. Reopened'
  BY <1>9 DEF Reopened
<1>11. mpc' # "connect" /\ ~event' => Watched'
  BY <1>9 DEF Watched
<1>12. ~died' /\ ~raced' => Smooth'
  BY <1>1, <1>9 DEF Smooth, Connecting
<1>13. Kept'
  BY <1>1, <1>10, <1>11, <1>12 DEF Kept
<1>. QED
  BY <1>3, <1>4, <1>5, <1>7, <1>8, <1>13, TypedParts DEF UInv

\* The children of /chain are read and the watch is left.
LEMMA WatchChainKeeps ==
    ASSUME UInv, Up, WatchChain
    PROVE  UInv'
<1>1. /\ ChainTyped /\ FdTyped /\ MainTyped /\ HistoryTyped /\ Sided
      /\ Connecting => FirstSockets
  BY Running
<1>2. /\ mpc = "connect" /\ watch' = TRUE
      /\ UNCHANGED <<nodes, alive, created, event, calls, history>>
  BY DEF WatchChain
<1>3. Connecting
  BY <1>2 DEF Connecting
<1>4. UNCHANGED <<nodes, alive, created, event, calls, died, raced, failed, headFailures, astray>>
  BY <1>2 DEF history
<1>5. CASE nodes = {}
  <2>1. Ends("quit")
    BY <1>5 DEF WatchChain
  <2>2. event' \in BOOLEAN /\ raced' \in BOOLEAN /\ (raced => raced')
    BY <1>1, <1>4 DEF ChainTyped, HistoryTyped
  <2>. QED
    BY <1>2, <1>4, <2>1, <2>2, EndKeeps
<1>6. CASE nodes # {}
  <2>1. /\ list' = nodes /\ mpc' = "addresses" /\ UNCHANGED <<mfd, peer, held>>
        /\ UNCHANGED <<status, fd, mine, stub, freed, zpc, new>>
    BY <1>6 DEF WatchChain, Step, rtrees
  <2>2. nodes \subseteq Servers
    BY <1>1, Bounds DEF ChainTyped, Servers
  <2>3. FdTyped'
    BY <1>1, <2>1, <2>2 DEF FdTyped
  <2>4. MainTyped'
    BY <1>1, <2>1 DEF MainTyped, Connects
  <2>5. Connecting' /\ Sided'
    BY <1>1, <2>1 DEF Connecting, Sided
  <2>6. FirstSockets'
    BY <1>1, <1>2, <1>3, <1>6, <2>1 DEF FirstSockets, Opened
  <2>. QED
    BY <1>2, <1>3, <1>4, <2>1, <2>3, <2>4, <2>5, <2>6, ConnectingKept
<1>. QED
  BY <1>5, <1>6

\* The addresses are read.
LEMMA AddressesKeeps ==
    ASSUME UInv, Up, Addresses
    PROVE  UInv'
<1>1. /\ ChainTyped /\ FdTyped /\ MainTyped /\ HistoryTyped /\ Sided
      /\ Connecting => FirstSockets
      /\ mpc # "connect" /\ zpc # "children" /\ ~event => Watched
      /\ ~died /\ ~raced => Smooth
  BY Running
<1>2. /\ mpc = "addresses"
      /\ UNCHANGED <<nodes, alive, created, watch, event, calls>>
      /\ UNCHANGED <<died, raced, failed, headFailures, astray>>
  BY DEF Addresses, OnlyMain, zookeeper, history
<1>3. Connecting /\ FirstSockets
  BY <1>1, <1>2 DEF Connecting
<1>4. list # {} /\ list \subseteq Servers
  BY <1>1, <1>2, <1>3 DEF FirstSockets, FdTyped
<1>5. CASE {FirstOf(list), LastOf(list)} \subseteq nodes
  <2>1. /\ mpc' = "head_socket" /\ UNCHANGED <<mfd, peer, held>>
        /\ UNCHANGED <<status, fd, mine, stub, freed, zpc, list, new>>
    BY <1>5 DEF Addresses, Step, rtrees, watcher
  <2>2. FdTyped'
    BY <1>1, <2>1 DEF FdTyped
  <2>3. MainTyped'
    BY <1>1, <2>1 DEF MainTyped, Connects
  <2>4. Connecting' /\ Sided'
    BY <1>1, <2>1 DEF Connecting, Sided
  <2>5. FirstSockets'
    BY <1>2, <1>3, <2>1 DEF FirstSockets, Opened
  <2>6. ~event => watch /\ list = nodes
    BY <1>1, <1>2, <1>3 DEF Watched, FirstSockets
  <2>7. OnlyMain
    BY DEF Addresses
  <2>. QED
    BY <1>2, <1>3, <2>1, <2>2, <2>3, <2>4, <2>5, <2>6, <2>7, ConnectingKept
<1>6. CASE ~({FirstOf(list), LastOf(list)} \subseteq nodes)
  <2>1. Ends("exit")
    BY <1>6 DEF Addresses
  <2>2. /\ event' \in BOOLEAN /\ raced' \in BOOLEAN /\ (raced => raced')
        /\ watch' \in BOOLEAN
    BY <1>1, <1>2 DEF ChainTyped, HistoryTyped
  <2>3. died \/ raced
    BY <1>1, <1>4, <1>6, FirstAndLast DEF Smooth
  <2>. QED
    BY <1>2, <2>1, <2>2, <2>3, EndKeeps
<1>. QED
  BY <1>5, <1>6

\* A socket is opened: there always is a number for it.
LEMMA OpenSocketKeeps ==
    ASSUME UInv, Up, NEW role \in Roles, NEW label \in {"head_socket", "tail_socket"},
           role = "head" <=> label = "head_socket", OpenSocket(role, label)
    PROVE  UInv'
<1>1. /\ ChainTyped /\ FdTyped /\ MainTyped /\ HistoryTyped /\ Sided
      /\ Connecting => FirstSockets
      /\ mpc # "connect" /\ zpc # "children" /\ ~event => Watched
  BY Running
<1>2. /\ mpc = label
      /\ UNCHANGED <<nodes, alive, created, watch, event, calls>>
      /\ UNCHANGED <<died, raced, failed, headFailures, astray>>
  BY DEF OpenSocket, OnlyMain, zookeeper, history
<1>3. Connecting /\ FirstSockets
  BY <1>1, <1>2 DEF Connecting
<1>4. (role = "head" => Opened = {}) /\ (role = "tail" => Opened = {1})
  BY <1>2, <1>3 DEF FirstSockets
<1>5. FreeNumbers # {}
  <2>1. 2 \notin Opened
    BY <1>4 DEF Roles
  <2>. QED
    BY <2>1, Bounds DEF FreeNumbers, Opened
<1>6. /\ OpenFor(role)
      /\ mpc' = (IF role = "head" THEN "tail_socket" ELSE "dial")
      /\ UNCHANGED <<mfd, peer, held>>
      /\ UNCHANGED <<status, mine, stub, freed, zpc, list>>
  BY <1>5 DEF OpenSocket, Step, rtrees
<1>7. /\ fd' \in [Numbers -> Sockets] /\ new' \in Pairs /\ Sided'
      /\ Lowest \in Numbers /\ Lowest \notin Opened
      /\ \A m \in Numbers : m \notin Opened => Lowest <= m
      /\ Opened' = Opened \union {Lowest}
      /\ new'[role] = Lowest /\ \A r \in Roles \ {role} : new'[r] = new[r]
  BY <1>1, <1>5, <1>6, OpenForKeeps
<1>8. (role = "head" => Lowest = 1) /\ (role = "tail" => Lowest = 2)
  <2>1. role = "head" => Lowest <= 1
    BY <1>4, <1>7, Bounds
  <2>2. role = "tail" => Lowest <= 2 /\ Lowest # 1
    BY <1>4, <1>7, Bounds
  <2>3. Lowest \in Nat /\ Lowest >= 1
    BY <1>7 DEF Numbers
  <2>. QED
    BY <2>1, <2>2, <2>3
<1>9. FirstSockets'
  <2>1. zpc' = "idle" /\ list' # {} /\ mfd' = 0 /\ peer' = Nobody /\ ~held'
    BY <1>2, <1>3, <1>6 DEF FirstSockets
  <2>2. CASE role = "head"
    BY <1>4, <1>6, <1>7, <1>8, <2>1, <2>2 DEF FirstSockets
  <2>3. CASE role = "tail"
    <3>1. new.head = 1
      BY <1>2, <1>3, <2>3 DEF FirstSockets
    <3>2. "head" \in Roles \ {role} /\ new'["head"] = new["head"]
      BY <1>7, <2>3 DEF Roles
    <3>3. new'.head = 1 /\ new'.tail = 2
      BY <1>7, <1>8, <2>3, <3>1, <3>2
    <3>. QED
      BY <1>4, <1>6, <1>7, <1>8, <2>1, <2>3, <3>3 DEF FirstSockets
  <2>. QED
    BY <2>2, <2>3 DEF Roles
<1>10. FdTyped'
  BY <1>1, <1>6, <1>7 DEF FdTyped
<1>11. MainTyped'
  BY <1>1, <1>6 DEF MainTyped, Connects
<1>12. Connecting'
  BY <1>6 DEF Connecting
<1>13. ~event => watch /\ list = nodes
  BY <1>1, <1>2, <1>3 DEF Watched, FirstSockets
<1>14. OnlyMain
  BY DEF OpenSocket
<1>. QED
  BY <1>2, <1>3, <1>6, <1>7, <1>9, <1>10, <1>11, <1>12, <1>13, <1>14, ConnectingKept

\* rtree_connect ends with the two first numbers, connected.
LEMMA DialKeeps ==
    ASSUME UInv, Up, Dial
    PROVE  UInv'
<1>1. /\ ChainTyped /\ FdTyped /\ MainTyped /\ HistoryTyped /\ FailuresTyped
      /\ Counted /\ SmoothJoins /\ Sided
      /\ Connecting => FirstSockets
      /\ mpc # "connect" /\ zpc # "children" /\ ~event => Watched
      /\ ~died => alive = nodes /\ nodes # {}
      /\ ~died /\ ~raced => Smooth
  BY Running
<1>2. /\ mpc = "dial"
      /\ UNCHANGED <<nodes, alive, created, watch, event, calls>>
      /\ UNCHANGED <<died, raced, failed, headFailures, astray>>
  BY DEF Dial, OnlyMain, zookeeper, history
<1>3. Connecting
  BY <1>2 DEF Connecting
<1>4. /\ Opened = {1, 2} /\ new.head = 1 /\ new.tail = 2 /\ list # {} /\ zpc = "idle"
      /\ list \subseteq Servers
  BY <1>1, <1>2, <1>3 DEF FirstSockets, FdTyped
<1>5. CASE ~BothConnect
  <2>1. Ends("quit")
    BY <1>5 DEF Dial
  <2>2. /\ event' \in BOOLEAN /\ raced' \in BOOLEAN /\ (raced => raced')
        /\ watch' \in BOOLEAN
    BY <1>1, <1>2 DEF ChainTyped, HistoryTyped
  <2>. QED
    BY <1>2, <2>1, <2>2, EndKeeps
<1>6. CASE BothConnect
  <2>1. /\ mine' = new /\ stub' = new /\ fd' = Connected /\ list' = {} /\ new' = NoPair
        /\ mpc' = "idle" /\ UNCHANGED <<mfd, peer, held>> /\ UNCHANGED <<status, freed, zpc>>
    BY <1>6 DEF Dial, Step
  <2>2. /\ fd' \in [Numbers -> Sockets] /\ Sided' /\ Opened' = Opened
        /\ FirstOf(list) \in list /\ LastOf(list) \in list
        /\ fd'[1] = [to |-> FirstOf(list), role |-> "head"]
        /\ fd'[2] = [to |-> LastOf(list), role |-> "tail"]
    BY <1>1, <1>4, <1>6, <2>1, Bounds, ConnectKeeps
  <2>3. new = [head |-> 1, tail |-> 2]
    BY <1>1, <1>4 DEF FdTyped, Pairs
  <2>4. FdTyped'
    BY <1>1, <2>1, <2>2, Values DEF FdTyped
  <2>5. MainTyped'
    <3>1. mfd = 0 /\ peer = Nobody /\ ~held
      BY <1>1, <1>3 DEF FirstSockets
    <3>. QED
      BY <1>1, <2>1, <3>1 DEF MainTyped
  <2>6. ~Connecting' /\ Up' /\ zpc' = "idle"
    BY <1>4, <2>1 DEF Connecting, Up
  <2>7. Counted'
    <3>1. MayFail = 0 /\ MayFail' = 0
      BY <1>2, <2>1 DEF MayFail, Connecting
    <3>. QED
      BY <1>1, <1>2, <3>1 DEF Counted
  <2>8. SmoothJoins'
    BY <1>1, <1>2, <2>1 DEF SmoothJoins
  <2>9. TypeOK'
    <3>1. ChainTyped'
      BY <1>1, <1>2 DEF ChainTyped
    <3>2. HistoryTyped'
      BY <1>1, <1>2 DEF HistoryTyped
    <3>3. FailuresTyped'
      BY <1>1, <1>2 DEF FailuresTyped
    <3>. QED
      BY <2>4, <2>5, <3>1, <3>2, <3>3, TypedParts
  <2>10. Reopened'
    BY <2>6 DEF Reopened
  <2>11. Placed'
    BY <2>1, <2>3, Bounds DEF Placed
  <2>12. Opened' = {1, 2}
    BY <1>4, <2>2
  <2>13. Leaking'
    <3>1. Opened' \ Reserved' = {}
      BY <2>1, <2>3, <2>6, <2>12 DEF Reserved
    <3>2. Owed' = 0
      BY <2>12, Bounds DEF Owed, Opened
    <3>3. headFailures' \in Nat
      BY <1>1, <1>2 DEF FailuresTyped
    <3>. QED
      BY <3>1, <3>2, <3>3, FS_EmptySet DEF Leaking
  <2>14. Unfailed'
    BY <2>1, <2>3, <2>6, <2>12 DEF Unfailed
  <2>15. ~event' => Watched'
    <3>1. ~event => watch /\ list = nodes
      BY <1>1, <1>2, <1>3, <1>4 DEF Watched
    <3>2. mine'.head = 1 /\ mine'.tail = 2
      BY <2>1, <2>3
    <3>3. ~event => \A role \in Roles : fd'[mine'[role]].to = ServerOf(role, nodes')
      BY <1>2, <2>2, <3>1, <3>2 DEF Roles, ServerOf
    <3>. QED
      BY <1>2, <2>6, <3>1, <3>3 DEF Watched
  <2>16. ~died' /\ ~raced' => Smooth'
    <3>1. FirstOf(list) \in alive /\ LastOf(list) \in alive
      BY <1>6 DEF BothConnect
    <3>2. fd'[1].to \in alive' /\ fd'[2].to \in alive'
      BY <1>2, <2>2, <3>1
    <3>. QED
      BY <1>1, <1>2, <2>1, <2>6, <3>2 DEF Smooth
  <2>. QED
    BY <1>1, <1>2, <2>2, <2>6, <2>7, <2>8, <2>9, <2>10, <2>11, <2>13, <2>14, <2>15, <2>16
    DEF UInv, Kept
<1>. QED
  BY <1>5, <1>6

-----------------------------------------------------------------------------
\* The main thread: a call.

\* A call uses a step that leaves the sockets, the structures and the watcher alone.
LEMMA CallKept ==
    ASSUME UInv, Up, ~Connecting, mpc' \in {"idle"} \union Calling,
           UNCHANGED <<nodes, alive, created, watch, event, status, fd, mine, stub, freed,
                       zpc, list, new, died, failed, headFailures>>,
           MainTyped', HistoryTyped', raced => raced', Counted',
           mpc' # "idle" => mfd' \in Numbers,
           ~died /\ ~raced' => Smooth'
    PROVE  UInv'
<1>1. /\ ChainTyped /\ FdTyped /\ MainTyped /\ HistoryTyped /\ FailuresTyped
      /\ SmoothJoins /\ Sided /\ Reopened /\ Placed /\ Leaking
      /\ ~failed => Unfailed
      /\ mpc # "connect" /\ zpc # "children" /\ ~event => Watched
      /\ ~died => alive = nodes /\ nodes # {}
  BY Running
<1>2. ~Connecting' /\ Up' /\ (Resting' <=> Resting) /\ mpc # "connect"
  BY DEF Connecting, Calling, Up, Resting
<1>3. ChainTyped'
  BY <1>1 DEF ChainTyped
<1>4. FdTyped'
  BY <1>1 DEF FdTyped
<1>5. FailuresTyped'
  BY <1>1 DEF FailuresTyped
<1>6. SmoothJoins'
  BY <1>1 DEF SmoothJoins
<1>7. Sided' /\ Reopened' /\ Leaking'
  BY <1>1 DEF Sided, Reopened, Leaking, Opened, Reserved, Owed
<1>8. Placed'
  BY <1>1 DEF Placed
<1>9. ~failed' => Unfailed'
  BY <1>1 DEF Unfailed, Opened
<1>10. zpc' # "children" /\ ~event' => Watched'
  BY <1>1, <1>2 DEF Watched
<1>11. Kept'
  BY <1>1, <1>2, <1>7, <1>8, <1>9, <1>10 DEF Kept
<1>. QED
  BY <1>3, <1>4, <1>5, <1>6, <1>11, TypedParts DEF UInv

\* A call begins: no socket is closed and none is opened.
LEMMA CallKeeps ==
    ASSUME UInv, Up, NEW role \in Roles, Call(role)
    PROVE  UInv'
<1>1. /\ FdTyped /\ MainTyped /\ HistoryTyped /\ FailuresTyped /\ Counted
      /\ ~Connecting => Placed /\ Leaking
      /\ ~Connecting /\ ~failed => Unfailed
      /\ ~died /\ ~raced => Smooth
  BY Running
<1>2. /\ mpc = "idle" /\ mpc' = "write" /\ calls < MaxCalls /\ calls' = calls + 1
      /\ mfd' = mine[role] /\ peer' = fd[mine[role]].to /\ held' = (fd[mine[role]] # Free)
      /\ raced' = (raced \/ zpc # "idle")
      /\ UNCHANGED <<nodes, alive, created, watch, event, status, fd, mine, stub, freed,
                     zpc, list, new, died, failed, headFailures, astray>>
  BY DEF Call, NoFailure, zookeeper, rtrees, watcher
<1>3. ~Connecting /\ ~Connecting' /\ mpc' \in Calling
  BY <1>2 DEF Connecting, Calling
<1>4. mfd' \in Numbers
  BY <1>1, <1>2, <1>3, Bounds DEF Placed, Roles, Numbers
<1>5. MainTyped'
  <2>1. peer' \in Servers \union {Nobody}
    BY <1>1, <1>2, <1>4, Values DEF FdTyped
  <2>2. held' \in BOOLEAN
    BY <1>2
  <2>. QED
    BY <1>2, <1>3, <1>4, <2>1, <2>2 DEF MainTyped
<1>6. HistoryTyped'
  <2>1. calls' \in 0 .. MaxCalls
    BY <1>1, <1>2, Bounds DEF HistoryTyped
  <2>2. raced' \in BOOLEAN
    BY <1>1, <1>2 DEF HistoryTyped
  <2>. QED
    BY <1>1, <1>2, <2>1, <2>2 DEF HistoryTyped
<1>7. Counted'
  <2>1. MayFail = 0 /\ MayFail' = 2
    BY <1>2, <1>3 DEF MayFail, Connecting
  <2>2. headFailures \in Nat /\ calls \in Nat
    BY <1>1, Bounds DEF FailuresTyped, HistoryTyped
  <2>. QED
    BY <1>1, <1>2, <2>1, <2>2 DEF Counted
<1>8. ~died /\ ~raced' => Smooth'
  <2> SUFFICES ASSUME ~died, ~raced'
               PROVE  Smooth'
    OBVIOUS
  <2>1. ~raced /\ zpc = "idle"
    BY <1>2
  <2>2. Smooth /\ Unfailed
    BY <1>1, <1>3, <2>1 DEF Smooth
  <2>3. mfd' \in {1, 2}
    BY <1>2, <2>2 DEF Unfailed, Roles
  <2>. QED
    BY <1>2, <1>3, <2>1, <2>2, <2>3 DEF Smooth
<1>9. raced => raced'
  BY <1>2
<1>. QED
  BY <1>2, <1>3, <1>4, <1>5, <1>6, <1>7, <1>8, <1>9, CallKept

\* What a step of a call may do to count less and to keep the call smooth.
LEMMA InCallKept ==
    ASSUME UInv, Up, mpc \in Calling, mpc' \in {"idle"} \union Calling, NoFailure, OnlyCall,
           MayFail' <= MayFail, MainTyped', mpc' # "idle" => mfd' = mfd, Smooth => Smooth'
    PROVE  UInv'
<1>1. /\ MainTyped /\ HistoryTyped /\ FailuresTyped /\ Counted
      /\ ~Connecting => Placed /\ Leaking
      /\ ~died /\ ~raced => Smooth
  BY Running
<1>2. UNCHANGED <<nodes, alive, created, watch, event, status, fd, mine, stub, freed, zpc,
                  list, new, calls, died, raced, failed, headFailures, astray>>
  BY DEF OnlyCall, NoFailure, zookeeper, rtrees, watcher
<1>3. ~Connecting /\ ~Connecting' /\ mpc # "idle"
  BY DEF Connecting, Calling
<1>4. mpc' # "idle" => mfd' \in Numbers
  BY <1>1, <1>3 DEF Placed
<1>5. HistoryTyped'
  BY <1>1, <1>2 DEF HistoryTyped
<1>6. Counted'
  <2>1. MayFail \in {0, 1, 2} /\ MayFail' \in {0, 1, 2}
    BY DEF MayFail
  <2>2. headFailures \in Nat /\ calls \in Nat
    BY <1>1, Bounds DEF FailuresTyped, HistoryTyped
  <2>3. headFailures + MayFail <= 2 * calls
    BY <1>1 DEF Counted
  <2>4. MayFail \in Nat /\ MayFail' \in Nat
    BY <2>1
  <2>5. headFailures + MayFail' <= 2 * calls
    BY <2>2, <2>3, <2>4, Sum
  <2>. QED
    BY <1>2, <2>5 DEF Counted
<1>7. ~died /\ ~raced' => Smooth'
  BY <1>1, <1>2
<1>8. raced => raced'
  BY <1>2
<1>. QED
  BY <1>2, <1>3, <1>4, <1>5, <1>6, <1>7, <1>8, CallKept

\* The request is written, or the write fails.
LEMMA WriteKeeps ==
    ASSUME UInv, Up, Write \/ WriteFails
    PROVE  UInv'
<1>1. /\ FdTyped /\ MainTyped
      /\ ~Connecting => Placed /\ Leaking
  BY Running
<1>2. /\ mpc = "write" /\ mfd' = mfd /\ mpc' = (IF Write THEN "sent" ELSE "close")
      /\ NoFailure /\ OnlyCall
      /\ UNCHANGED <<nodes, alive, created, watch, event, status, fd, mine, stub, freed, zpc,
                     list, new, calls, died, raced, failed, headFailures, astray>>
  BY DEF Write, WriteFails, OnlyCall, NoFailure, zookeeper, rtrees, watcher
<1>3. mpc \in Calling /\ mpc' \in Calling /\ ~Connecting /\ ~Connecting' /\ mpc' # "idle"
  BY <1>2 DEF Connecting, Calling
<1>4. mfd \in Numbers
  BY <1>1, <1>2, <1>3 DEF Placed
<1>5. MayFail' <= MayFail
  <2>1. MayFail = 2 /\ MayFail' \in {1, 2}
    BY <1>2, <1>3 DEF MayFail
  <2>. QED
    BY <2>1
<1>6. MainTyped'
  <2>1. peer' \in Servers \union {Nobody}
    BY <1>1, <1>4, Values DEF Write, WriteFails, FdTyped, MainTyped
  <2>2. held' \in BOOLEAN
    BY DEF Write, WriteFails
  <2>. QED
    BY <1>1, <1>2, <1>3, <2>1, <2>2 DEF MainTyped
<1>7. Smooth => Smooth'
  <2> SUFFICES ASSUME Smooth
               PROVE  Smooth'
    OBVIOUS
  <2>1. /\ list \subseteq nodes /\ ~failed /\ zpc = "idle" /\ mfd \in {1, 2}
        /\ fd[1].to \in alive /\ fd[2].to \in alive
    BY <1>2, <1>3 DEF Smooth
  <2>2. Write
    BY <2>1 DEF WriteFails, Refused
  <2>3. mpc' = "sent" /\ peer' \in alive /\ held'
    BY <2>2 DEF Write
  <2>. QED
    BY <1>2, <1>3, <2>1, <2>3 DEF Smooth
<1>. QED
  BY <1>2, <1>3, <1>5, <1>6, <1>7, InCallKept

\* The answer is awaited.
LEMMA StartReadKeeps ==
    ASSUME UInv, Up, StartRead
    PROVE  UInv'
<1>1. /\ FdTyped /\ MainTyped
      /\ ~Connecting => Placed /\ Leaking
  BY Running
<1>2. /\ mpc \in {"sent", "again"} /\ mfd' = mfd
      /\ mpc = "sent" => mpc' \in {"read", "wait", "close"}
      /\ mpc = "again" => mpc' \in {"wait_again", "close"}
      /\ NoFailure /\ OnlyCall
      /\ UNCHANGED <<nodes, alive, created, watch, event, status, fd, mine, stub, freed, zpc,
                     list, new, calls, died, raced, failed, headFailures, astray>>
  BY DEF StartRead, Step, OnlyCall, NoFailure, zookeeper, rtrees, watcher
<1>3. mpc \in Calling /\ mpc' \in Calling /\ ~Connecting /\ ~Connecting' /\ mpc' # "idle"
  BY <1>2 DEF Connecting, Calling
<1>4. mfd \in Numbers
  BY <1>1, <1>2, <1>3 DEF Placed, Calling
<1>5. MayFail' <= MayFail
  <2>1. mpc = "sent" => MayFail = 2 /\ MayFail' \in {1, 2}
    BY <1>2, <1>3 DEF MayFail, Calling
  <2>2. mpc = "again" => MayFail = 1 /\ MayFail' = 1
    BY <1>2, <1>3 DEF MayFail, Calling
  <2>. QED
    BY <1>2, <2>1, <2>2
<1>6. MainTyped'
  <2>1. peer' \in Servers \union {Nobody}
    BY <1>1, <1>4, Values DEF StartRead, Step, FdTyped, MainTyped
  <2>2. held' \in BOOLEAN
    BY <1>1 DEF StartRead, Step, MainTyped
  <2>. QED
    BY <1>1, <1>2, <1>3, <2>1, <2>2 DEF MainTyped
<1>7. Smooth => Smooth'
  <2> SUFFICES ASSUME Smooth
               PROVE  Smooth'
    OBVIOUS
  <2>1. /\ list \subseteq nodes /\ ~failed /\ zpc = "idle" /\ mfd \in {1, 2}
        /\ fd[1].to \in alive /\ fd[2].to \in alive
        /\ mpc = "sent" /\ held /\ peer \in alive
    BY <1>2, <1>3 DEF Smooth
  <2>2. mpc' = "read" /\ peer' = peer
    BY <2>1 DEF StartRead, Step
  <2>. QED
    BY <1>2, <1>3, <2>1, <2>2 DEF Smooth
<1>. QED
  BY <1>2, <1>3, <1>5, <1>6, <1>7, InCallKept

\* The answer comes, or the read fails.
LEMMA ReadKeeps ==
    ASSUME UInv, Up, Answered \/ ReadFails
    PROVE  UInv'
<1>1. MainTyped
  BY Running
<1>2. CASE Answered
  <2>1. /\ mpc = "read" /\ mpc' = "idle" /\ mfd' = 0 /\ peer' = Nobody /\ held' = FALSE
        /\ NoFailure /\ OnlyCall
        /\ UNCHANGED <<nodes, alive, created, watch, event, status, fd, mine, stub, freed,
                       zpc, list, new, calls, died, raced, failed, headFailures, astray>>
    BY <1>2 DEF Answered, Return, OnlyCall, NoFailure, zookeeper, rtrees, watcher
  <2>2. mpc \in Calling /\ ~Connecting /\ ~Connecting'
    BY <2>1 DEF Connecting, Calling
  <2>3. MayFail = 2 /\ MayFail' = 0
    BY <2>1, <2>2 DEF MayFail, Connecting
  <2>4. MainTyped'
    BY <2>1 DEF MainTyped
  <2>5. Smooth => Smooth'
    BY <2>1, <2>2 DEF Smooth
  <2>6. MayFail' <= MayFail
    BY <2>3
  <2>. QED
    BY <2>1, <2>2, <2>4, <2>5, <2>6, InCallKept
<1>3. CASE ReadFails
  <2>1. /\ mpc \in {"read", "wait", "wait_again"} /\ mpc' \in {"close", "close_again"}
        /\ mpc = "wait_again" => mpc' = "close"
        /\ UNCHANGED <<mfd, peer, held>> /\ peer \notin alive
        /\ NoFailure /\ OnlyCall
    BY <1>3 DEF ReadFails
  <2>2. mpc \in Calling /\ mpc' \in Calling /\ ~Connecting /\ ~Connecting' /\ mpc' # "idle"
    BY <2>1 DEF Connecting, Calling
  <2>3. MainTyped'
    BY <1>1, <2>1, <2>2 DEF MainTyped
  <2>4. ~Smooth
    BY <2>1, <2>2 DEF Smooth
  <2>5. MayFail' <= MayFail
    <3>1. mpc = "wait_again" => MayFail = 1 /\ MayFail' = 1
      BY <2>1, <2>2 DEF MayFail, Calling
    <3>2. mpc # "wait_again" => MayFail = 2 /\ MayFail' \in {1, 2}
      BY <2>1, <2>2 DEF MayFail, Calling
    <3>. QED
      BY <3>1, <3>2
  <2>. QED
    BY <2>1, <2>2, <2>3, <2>4, <2>5, InCallKept
<1>. QED
  BY <1>2, <1>3

-----------------------------------------------------------------------------
\* Sets of numbers and how many they are.

\* Fewer numbers, and at most one number more.
LEMMA Sizes ==
    ASSUME NEW A \in SUBSET Numbers, NEW B \in SUBSET Numbers
    PROVE  /\ Cardinality(A) \in Nat
           /\ A \subseteq B => Cardinality(A) <= Cardinality(B)
           /\ \A x \in Numbers :
                A \subseteq B \union {x} => Cardinality(A) <= Cardinality(B) + 1
<1>1. IsFiniteSet(Numbers)
  BY Bounds, FS_Interval DEF Numbers
<1>2. IsFiniteSet(A) /\ IsFiniteSet(B)
  BY <1>1, FS_Subset
<1>3. Cardinality(A) \in Nat /\ Cardinality(B) \in Nat
  BY <1>2, FS_CardinalityType
<1>4. A \subseteq B => Cardinality(A) <= Cardinality(B)
  BY <1>2, FS_Subset
<1>5. ASSUME NEW x \in Numbers, A \subseteq B \union {x}
      PROVE  Cardinality(A) <= Cardinality(B) + 1
  <2>1. /\ IsFiniteSet(B \union {x})
        /\ Cardinality(B \union {x}) = Cardinality(B)
           \/ Cardinality(B \union {x}) = Cardinality(B) + 1
    BY <1>2, FS_AddElement
  <2>2. Cardinality(A) <= Cardinality(B \union {x})
    BY <1>5, <2>1, FS_Subset
  <2>. QED
    BY <1>3, <2>1, <2>2
<1>. QED
  BY <1>3, <1>4, <1>5

\* Sets of numbers the invariant counts, and what it counts on top.
LEMMA CountedSets ==
    /\ Opened \in SUBSET Numbers /\ Opened' \in SUBSET Numbers
    /\ Owed \in {0, 1} /\ Owed' \in {0, 1}
BY DEF Opened, Owed

\* A call that failed closes its socket: if that is the head's, one more failure counts.
LEMMA CloseFailedKeeps ==
    ASSUME UInv, Up, CloseFailed
    PROVE  UInv'
<1>1. /\ ChainTyped /\ FdTyped /\ MainTyped /\ HistoryTyped /\ FailuresTyped
      /\ Counted /\ Sided /\ Reopened
      /\ ~Connecting => Placed /\ Leaking
      /\ mpc # "connect" /\ zpc # "children" /\ ~event => Watched
      /\ ~died => alive = nodes /\ nodes # {}
      /\ ~died /\ ~raced => Smooth
  BY Running
<1>2. /\ mpc \in {"close", "close_again"}
      /\ fd' = [fd EXCEPT ![mfd] = Free] /\ failed' = TRUE
      /\ headFailures' = headFailures + (IF mfd = mine.head THEN 1 ELSE 0)
      /\ UNCHANGED <<nodes, alive, created, watch, event, status, mine, stub, freed, zpc,
                     list, new, calls, died, raced>>
  BY DEF CloseFailed, zookeeper, rtrees, watcher
<1>3. /\ mpc = "close" => mpc' = "idle" /\ mfd' = 0 /\ peer' = Nobody /\ held' = FALSE
      /\ mpc = "close_again" => mpc' = "again" /\ held' = FALSE /\ UNCHANGED <<mfd, peer>>
  BY DEF CloseFailed, Return
<1>4. ~Connecting /\ ~Connecting' /\ mpc # "connect" /\ Up'
  BY <1>2, <1>3 DEF Connecting, Up
<1>5. Placed /\ Leaking /\ mfd \in Numbers /\ mine.head = 1
  BY <1>1, <1>2, <1>4 DEF Placed
<1>6. /\ fd' \in [Numbers -> Sockets] /\ fd'[mfd] = Free
      /\ \A n \in Numbers : n # mfd => fd'[n] = fd[n]
  BY <1>1, <1>2, <1>5, Values DEF FdTyped
<1>7. Opened' = Opened \ {mfd}
  BY <1>5, <1>6 DEF Opened
<1>8. headFailures \in Nat /\ calls \in 0 .. MaxCalls
  BY <1>1, Bounds DEF FailuresTyped, HistoryTyped
<1>9. Counted'
  <2>1. \/ MayFail = 1 /\ MayFail' = 0
        \/ MayFail = 2 /\ MayFail' = 1
    BY <1>2, <1>3, <1>4 DEF MayFail
  <2>2. headFailures' \in {headFailures, headFailures + 1}
    BY <1>2, <1>8
  <2>3. headFailures + MayFail <= 2 * calls
    BY <1>1 DEF Counted
  <2>4. headFailures' + MayFail' <= 2 * calls
    BY <1>8, <2>1, <2>2, <2>3, Bounds
  <2>. QED
    BY <1>2, <2>4 DEF Counted
<1>10. TypeOK'
  <2>1. ChainTyped'
    BY <1>1, <1>2 DEF ChainTyped
  <2>2. FdTyped'
    BY <1>1, <1>2, <1>6 DEF FdTyped
  <2>3. MainTyped'
    BY <1>1, <1>2, <1>3 DEF MainTyped, Calling
  <2>4. HistoryTyped'
    <3>1. astray' \in BOOLEAN
      BY DEF CloseFailed
    <3>. QED
      BY <1>1, <1>2, <3>1 DEF HistoryTyped
  <2>5. FailuresTyped'
    <3>1. headFailures' \in Nat /\ headFailures' <= 2 * calls
      <4>1. headFailures' \in Nat
        BY <1>2, <1>8
      <4>2. MayFail' \in Nat
        BY DEF MayFail
      <4>3. headFailures' + MayFail' <= 2 * calls
        BY <1>2, <1>9 DEF Counted
      <4>4. calls \in Nat
        BY <1>8, Bounds
      <4>. QED
        BY <4>1, <4>2, <4>3, <4>4, Sum
    <3>. QED
      BY <1>8, <3>1, Bounds DEF FailuresTyped
  <2>. QED
    BY <2>1, <2>2, <2>3, <2>4, <2>5, TypedParts
<1>11. died \/ raced
  BY <1>1, <1>2, <1>4 DEF Smooth
<1>12. SmoothJoins'
  BY <1>2, <1>11 DEF SmoothJoins
<1>13. Sided'
  BY <1>1, <1>5, <1>6, Values DEF Sided
<1>14. Reopened'
  BY <1>1, <1>2, <1>6, Bounds DEF Reopened
<1>15. Placed'
  <2>1. mpc' # "idle" => mfd' \in Numbers
    BY <1>2, <1>3, <1>5
  <2>. QED
    BY <1>2, <1>5, <2>1 DEF Placed
<1>16. Leaking'
  <2>1. Reserved' = Reserved
    BY <1>2 DEF Reserved
  <2>2. Cardinality(Opened' \ Reserved') <= Cardinality(Opened \ Reserved)
    BY <1>7, <2>1, CountedSets, Sizes
  <2>3. /\ Cardinality(Opened' \ Reserved') \in Nat
        /\ Cardinality(Opened \ Reserved) \in Nat
    BY CountedSets, Sizes
  <2>4. Cardinality(Opened \ Reserved) + Owed <= headFailures
    BY <1>5 DEF Leaking
  <2>5. mfd # 1 => Owed' = Owed
    BY <1>2, <1>6, Bounds DEF Owed
  <2>6. headFailures' = headFailures + (IF mfd = 1 THEN 1 ELSE 0)
    BY <1>2, <1>5
  <2>7. Cardinality(Opened' \ Reserved') + Owed' <= headFailures'
    <3>1. CASE mfd = 1
      BY <1>8, <2>2, <2>3, <2>4, <2>6, <3>1, CountedSets
    <3>2. CASE mfd # 1
      BY <1>8, <2>2, <2>3, <2>4, <2>5, <2>6, <3>2, CountedSets
    <3>. QED
      BY <3>1, <3>2
  <2>. QED
    BY <2>7 DEF Leaking
<1>17. zpc' # "children" /\ ~event' => Watched'
  BY <1>1, <1>2, <1>4 DEF Watched
<1>18. Kept'
  BY <1>1, <1>2, <1>4, <1>11, <1>13, <1>14, <1>15, <1>16, <1>17 DEF Kept
<1>. QED
  BY <1>9, <1>10, <1>12, <1>18 DEF UInv

\* The client quits, or reads freed memory.
LEMMA QuitKeeps ==
    ASSUME UInv, Up, Quit \/ Garbage
    PROVE  UInv'
<1>1. ChainTyped /\ HistoryTyped
  BY Running
<1>2. /\ \E how \in {"quit", "undefined"} : Ends(how)
      /\ UNCHANGED <<nodes, alive, created, watch, event, calls, died, raced, failed,
                     headFailures, astray>>
  BY DEF Quit, Garbage, OnlyMain, zookeeper, history
<1>3. /\ event' \in BOOLEAN /\ raced' \in BOOLEAN /\ (raced => raced')
      /\ watch' \in BOOLEAN
  BY <1>1, <1>2 DEF ChainTyped, HistoryTyped
<1>. QED
  BY <1>2, <1>3, EndKeeps

-----------------------------------------------------------------------------
\* ZooKeeper's thread: child_watcher.

\* A step of child_watcher after which the process still runs and calls count as before.
LEMMA WatcherCounts ==
    ASSUME UInv, Up, ~Connecting, raced => raced',
           UNCHANGED <<calls, died, failed, headFailures, status, mpc>>
    PROVE  Counted' /\ SmoothJoins' /\ ~Connecting' /\ Up'
<1>1. Counted /\ SmoothJoins
  BY Running
<1>2. ~Connecting' /\ Up'
  BY DEF Connecting, Up
<1>3. Counted'
  <2>1. MayFail' = MayFail
    BY <1>2 DEF MayFail
  <2>. QED
    BY <1>1, <2>1 DEF Counted
<1>4. SmoothJoins'
  BY <1>1 DEF SmoothJoins
<1>. QED
  BY <1>2, <1>3, <1>4

\* Such a step leaves the variables typed.
LEMMA WatcherTyped ==
    ASSUME UInv, Up,
           UNCHANGED <<nodes, alive, created, calls, died, failed, headFailures, astray,
                       mpc, mfd, peer>>,
           held' \in BOOLEAN, mpc = "idle" => ~held',
           watch' \in BOOLEAN, event' \in BOOLEAN, raced' \in BOOLEAN, FdTyped'
    PROVE  TypeOK'
<1>1. ChainTyped /\ FdTyped /\ MainTyped /\ HistoryTyped /\ FailuresTyped
  BY Running
<1>2. ChainTyped'
  BY <1>1 DEF ChainTyped
<1>3. MainTyped'
  BY <1>1 DEF MainTyped
<1>4. HistoryTyped'
  BY <1>1 DEF HistoryTyped
<1>5. FailuresTyped'
  BY <1>1 DEF FailuresTyped
<1>. QED
  BY <1>2, <1>3, <1>4, <1>5, TypedParts

\* Such a step keeps the invariant if it keeps what is about sockets.
LEMMA WatcherKept ==
    ASSUME UInv, Up, ~Connecting,
           UNCHANGED <<nodes, alive, created, calls, died, failed, headFailures, astray,
                       status, mpc, mfd, peer>>,
           held' \in BOOLEAN, mpc = "idle" => ~held',
           watch' \in BOOLEAN, event' \in BOOLEAN, raced' \in BOOLEAN, raced => raced',
           FdTyped', Sided', Reopened', Placed', Leaking', Unfailed => Unfailed',
           zpc' # "children" /\ ~event' => Watched',
           ~died /\ ~raced' => Smooth'
    PROVE  UInv'
<1>1. (~failed => Unfailed) /\ (~died => alive = nodes /\ nodes # {})
  BY Running
<1>2. Counted' /\ SmoothJoins' /\ ~Connecting' /\ Up'
  BY WatcherCounts
<1>3. TypeOK'
  BY WatcherTyped
<1>4. ~failed' => Unfailed'
  BY <1>1
<1>5. ~died' => alive' = nodes' /\ nodes' # {}
  BY <1>1
<1>6. ~died' /\ ~raced' => Smooth'
  OBVIOUS
<1>7. Kept'
  BY <1>2, <1>4, <1>5, <1>6 DEF Kept
<1>. QED
  BY <1>2, <1>3, <1>7 DEF UInv

\* What holds when child_watcher is to take a step that is not its first.
LEMMA WatcherRuns ==
    ASSUME UInv, Up, zpc # "idle"
    PROVE  /\ FdTyped /\ MainTyped /\ Sided /\ Reopened /\ Placed /\ Leaking /\ ~Connecting
           /\ watch \in BOOLEAN /\ event \in BOOLEAN /\ raced \in BOOLEAN /\ held \in BOOLEAN
           /\ mpc = "idle" => ~held
           /\ mpc # "connect" /\ ~Resting /\ headFailures \in Nat
           /\ zpc # "children" /\ ~event => watch /\ list = nodes
           /\ ~died => alive = nodes /\ nodes # {}
           /\ ~died /\ ~raced =>
                /\ Smooth /\ Unfailed /\ mpc = "idle" /\ list \subseteq nodes
<1>1. /\ ChainTyped /\ FdTyped /\ MainTyped /\ HistoryTyped /\ FailuresTyped
      /\ Sided /\ Reopened
      /\ Connecting => FirstSockets
      /\ ~Connecting => Placed /\ Leaking
      /\ ~Connecting /\ ~failed => Unfailed
      /\ mpc # "connect" /\ zpc # "children" /\ ~event => Watched
      /\ ~died => alive = nodes /\ nodes # {}
      /\ ~died /\ ~raced => Smooth
  BY Running
<1>2. ~Connecting
  BY <1>1 DEF FirstSockets
<1>3. mpc # "connect" /\ ~Resting
  BY <1>2 DEF Connecting, Resting
<1>4. zpc # "children" /\ ~event => watch /\ list = nodes
  BY <1>1, <1>3 DEF Watched
<1>5. ~died /\ ~raced => Smooth /\ Unfailed /\ mpc = "idle" /\ list \subseteq nodes
  BY <1>1, <1>2 DEF Smooth
<1>6. watch \in BOOLEAN /\ event \in BOOLEAN
  BY <1>1 DEF ChainTyped
<1>7. raced \in BOOLEAN
  BY <1>1 DEF HistoryTyped
<1>8. held \in BOOLEAN /\ (mpc = "idle" => ~held)
  BY <1>1 DEF MainTyped
<1>9. headFailures \in Nat
  BY <1>1 DEF FailuresTyped
<1>. QED
  BY <1>1, <1>2, <1>3, <1>4, <1>5, <1>6, <1>7, <1>8, <1>9

\* The notification is delivered.
LEMMA DeliverKeeps ==
    ASSUME UInv, Up, Deliver
    PROVE  UInv'
<1>1. /\ ChainTyped /\ FdTyped /\ MainTyped /\ HistoryTyped /\ Sided /\ Reopened
      /\ ~Connecting => Placed /\ Leaking
      /\ ~died /\ ~raced => Smooth
  BY Running
<1>2. /\ zpc = "idle" /\ event' = FALSE /\ watch' = watch /\ raced' = (raced \/ mpc # "idle")
      /\ UNCHANGED <<nodes, alive, created, calls, died, failed, headFailures, astray>>
  BY DEF Deliver, OnlyWatcher
<1>3. watch' \in BOOLEAN /\ event' \in BOOLEAN /\ raced' \in BOOLEAN /\ (raced => raced')
  <2>1. watch' \in BOOLEAN
    BY <1>1, <1>2 DEF ChainTyped
  <2>2. raced' \in BOOLEAN
    BY <1>1, <1>2 DEF HistoryTyped
  <2>. QED
    BY <1>2, <2>1, <2>2
<1>4. CASE Connecting
  <2>1. Ends("undefined")
    BY <1>4 DEF Deliver
  <2>. QED
    BY <1>2, <1>3, <2>1, EndKeeps
<1>5. CASE ~Connecting
  <2>1. /\ zpc' = "children"
        /\ UNCHANGED <<list, new, status, fd, mine, stub, freed, mpc, mfd, peer, held>>
    BY <1>5 DEF Deliver, StepZ, Still, rtrees, main
  <2>2. FdTyped'
    BY <1>1, <2>1 DEF FdTyped
  <2>3. Sided' /\ Reopened'
    BY <1>1, <2>1 DEF Sided, Reopened
  <2>4. Placed'
    BY <1>1, <1>5, <2>1 DEF Placed
  <2>5. Leaking'
    <3>1. Opened' = Opened /\ Reserved' = Reserved /\ Owed' = Owed
      BY <1>2, <2>1 DEF Opened, Reserved, Owed
    <3>. QED
      BY <1>1, <1>2, <1>5, <3>1 DEF Leaking
  <2>6. Unfailed => Unfailed'
    BY <1>2, <2>1 DEF Unfailed, Opened
  <2>7. ~died /\ ~raced' => Smooth'
    <3> SUFFICES ASSUME ~died, ~raced'
                 PROVE  Smooth'
      OBVIOUS
    <3>1. Smooth /\ mpc = "idle"
      BY <1>1, <1>2
    <3>. QED
      BY <1>2, <1>5, <2>1, <3>1 DEF Smooth
  <2>8. held' \in BOOLEAN /\ (mpc = "idle" => ~held')
    BY <1>1, <2>1 DEF MainTyped
  <2>. QED
    BY <1>2, <1>3, <1>5, <2>1, <2>2, <2>3, <2>4, <2>5, <2>6, <2>7, <2>8, WatcherKept
<1>. QED
  BY <1>4, <1>5

\* The children of /chain are read, and the watch is left again.
LEMMA GetChildrenKeeps ==
    ASSUME UInv, Up, GetChildren
    PROVE  UInv'
<1>1. /\ zpc = "children" /\ watch' = TRUE /\ event' = event /\ raced' = raced
      /\ UNCHANGED <<nodes, alive, created, calls, died, failed, headFailures, astray>>
  BY DEF GetChildren, NewWatch, OnlyWatcher
<1>2. /\ FdTyped /\ MainTyped /\ Sided /\ Reopened /\ Placed /\ Leaking /\ ~Connecting
      /\ watch \in BOOLEAN /\ event \in BOOLEAN /\ raced \in BOOLEAN /\ held \in BOOLEAN
      /\ mpc = "idle" => ~held
      /\ ~died => alive = nodes /\ nodes # {}
      /\ ~died /\ ~raced =>
           /\ Smooth /\ Unfailed /\ mpc = "idle" /\ list \subseteq nodes
  BY <1>1, WatcherRuns
<1>3. CASE nodes = {}
  <2>1. Ends("exit")
    BY <1>3 DEF GetChildren
  <2>2. died
    BY <1>2, <1>3
  <2>. QED
    BY <1>1, <1>2, <2>1, <2>2, EndKeeps
<1>4. CASE nodes # {}
  <2>1. /\ zpc' = "close_head" /\ list' = nodes
        /\ UNCHANGED <<new, status, fd, mine, stub, freed, mpc, mfd, peer, held>>
    BY <1>4 DEF GetChildren, Still, rtrees, main
  <2>2. FdTyped'
    <3>1. ChainTyped
      BY Running
    <3>2. nodes \subseteq Servers
      BY <3>1, Bounds DEF ChainTyped, Servers
    <3>. QED
      BY <1>2, <2>1, <3>2 DEF FdTyped
  <2>3. Sided' /\ Reopened'
    BY <1>2, <1>4, <2>1 DEF Sided, Reopened
  <2>4. Placed'
    BY <1>2, <2>1 DEF Placed
  <2>5. Leaking'
    <3>1. Opened' = Opened /\ Reserved' = Reserved /\ Owed' = Owed
      BY <1>1, <2>1 DEF Opened, Reserved, Owed
    <3>. QED
      BY <1>1, <1>2, <3>1 DEF Leaking
  <2>6. Unfailed => Unfailed'
    BY <1>1, <2>1 DEF Unfailed, Opened
  <2>7. ~died /\ ~raced' => Smooth'
    BY <1>1, <1>2, <2>1 DEF Smooth
  <2>8. Watched'
    BY <1>1, <2>1 DEF Watched, Resting
  <2>. QED
    BY <1>1, <1>2, <2>1, <2>2, <2>3, <2>4, <2>5, <2>6, <2>7, <2>8, WatcherKept
<1>. QED
  BY <1>3, <1>4

\* The head's socket is closed; if a call had closed it before, the tail's is lost.
LEMMA CloseHeadKeeps ==
    ASSUME UInv, Up, CloseHead
    PROVE  UInv'
<1>1. zpc = "close_head"
  BY DEF CloseHead
<1>2. /\ FdTyped /\ MainTyped /\ Sided /\ Reopened /\ Placed /\ Leaking /\ ~Connecting
      /\ watch \in BOOLEAN /\ event \in BOOLEAN /\ raced \in BOOLEAN /\ held \in BOOLEAN
      /\ mpc = "idle" => ~held
      /\ headFailures \in Nat
      /\ zpc # "children" /\ ~event => watch /\ list = nodes
      /\ ~died /\ ~raced =>
           /\ Smooth /\ Unfailed /\ mpc = "idle" /\ list \subseteq nodes
  BY <1>1, WatcherRuns
<1>3. stub["head"] = 1 /\ stub.tail \in Numbers
  BY <1>2, Bounds DEF Placed, Numbers
<1>4. /\ fd' = [fd EXCEPT ![1] = Free] /\ held' = (held /\ mfd # 1)
      /\ zpc' = (IF fd[1] # Free THEN "close_tail" ELSE "free")
      /\ UNCHANGED <<nodes, alive, created, calls, died, failed, headFailures, astray>>
      /\ UNCHANGED <<list, new, status, mine, stub, freed, mpc, mfd, peer, watch, event, raced>>
  BY <1>3 DEF CloseHead, ToClose, KeepsHeld, AfterHead, StepZ, OnlyWatcher, rtrees
<1>5. /\ fd' \in [Numbers -> Sockets] /\ fd'[1] = Free
      /\ \A n \in Numbers : n # 1 => fd'[n] = fd[n]
  BY <1>2, <1>4, Bounds, Values DEF FdTyped
<1>6. Opened' = Opened \ {1}
  BY <1>5, Bounds DEF Opened
<1>7. FdTyped'
  BY <1>2, <1>4, <1>5 DEF FdTyped
<1>8. Sided'
  BY <1>2, <1>5, Values DEF Sided
<1>9. Reopened'
  BY <1>1, <1>2, <1>4, <1>5 DEF Reopened
<1>10. Placed'
  BY <1>2, <1>4 DEF Placed
<1>11. Leaking'
  <2>1. Reserved = {1, stub.tail} /\ Owed' = 0
    BY <1>1, <1>4 DEF Reserved, Owed
  <2>2. CASE fd[1] # Free
    <3>1. Reserved' = {1, stub.tail} /\ Owed = 0
      BY <1>4, <2>2 DEF Reserved, Owed
    <3>2. Opened' \ Reserved' = Opened \ Reserved
      BY <1>6, <2>1, <3>1
    <3>. QED
      BY <1>2, <1>4, <2>1, <3>1, <3>2 DEF Leaking
  <2>3. CASE fd[1] = Free
    <3>1. Reserved' = {1} /\ Owed = 1
      BY <1>1, <1>4, <2>3 DEF Reserved, Owed
    <3>2. Opened' \ Reserved' \subseteq (Opened \ Reserved) \union {stub.tail}
      BY <1>6, <2>1, <3>1
    <3>3. Cardinality(Opened' \ Reserved') <= Cardinality(Opened \ Reserved) + 1
      BY <1>3, <3>2, CountedSets, Sizes
    <3>4. /\ Cardinality(Opened' \ Reserved') \in Nat
          /\ Cardinality(Opened \ Reserved) \in Nat
      BY CountedSets, Sizes
    <3>5. Cardinality(Opened' \ Reserved') + Owed' <= headFailures
      BY <1>2, <2>1, <3>1, <3>3, <3>4 DEF Leaking
    <3>. QED
      BY <1>4, <3>5 DEF Leaking
  <2>. QED
    BY <2>2, <2>3
<1>12. Unfailed => Unfailed'
  <2> SUFFICES ASSUME Unfailed
               PROVE  Unfailed'
    OBVIOUS
  <2>1. Opened = {1, 2}
    BY <1>1 DEF Unfailed
  <2>2. zpc' = "close_tail" /\ Opened' = {2}
    BY <1>4, <1>6, <2>1 DEF Opened
  <2>. QED
    BY <1>4, <2>2 DEF Unfailed
<1>13. ~event' => Watched'
  BY <1>1, <1>2, <1>4 DEF Watched, Resting
<1>14. ~died /\ ~raced' => Smooth'
  BY <1>2, <1>4 DEF Smooth
<1>15. held' \in BOOLEAN /\ (mpc = "idle" => ~held')
  BY <1>2, <1>4
<1>. QED
  BY <1>2, <1>4, <1>7, <1>8, <1>9, <1>10, <1>11, <1>12, <1>13, <1>14, <1>15, WatcherKept

\* The tail's socket is closed.
LEMMA CloseTailKeeps ==
    ASSUME UInv, Up, CloseTail
    PROVE  UInv'
<1>1. zpc = "close_tail"
  BY DEF CloseTail
<1>2. /\ FdTyped /\ MainTyped /\ Sided /\ Reopened /\ Placed /\ Leaking /\ ~Connecting
      /\ watch \in BOOLEAN /\ event \in BOOLEAN /\ raced \in BOOLEAN /\ held \in BOOLEAN
      /\ mpc = "idle" => ~held
      /\ zpc # "children" /\ ~event => watch /\ list = nodes
      /\ ~died /\ ~raced =>
           /\ Smooth /\ Unfailed /\ mpc = "idle" /\ list \subseteq nodes
  BY <1>1, WatcherRuns
<1> DEFINE t == stub.tail
<1>3. stub["tail"] = t /\ t \in Numbers /\ t # 1
  BY <1>2, Bounds DEF Placed, Numbers
<1>4. /\ fd' = [fd EXCEPT ![t] = Free] /\ held' = (held /\ mfd # t) /\ zpc' = "free"
      /\ UNCHANGED <<nodes, alive, created, calls, died, failed, headFailures, astray>>
      /\ UNCHANGED <<list, new, status, mine, stub, freed, mpc, mfd, peer, watch, event, raced>>
  BY <1>3 DEF CloseTail, ToClose, KeepsHeld, StepZ, OnlyWatcher, rtrees
<1>5. /\ fd' \in [Numbers -> Sockets] /\ fd'[t] = Free
      /\ \A n \in Numbers : n # t => fd'[n] = fd[n]
  BY <1>2, <1>3, <1>4, Values DEF FdTyped
<1>6. Opened' = Opened \ {t}
  BY <1>3, <1>5 DEF Opened
<1>7. FdTyped'
  BY <1>2, <1>4, <1>5 DEF FdTyped
<1>8. Sided'
  BY <1>2, <1>5, Values DEF Sided
<1>9. Reopened'
  BY <1>1, <1>2, <1>3, <1>4, <1>5, Bounds DEF Reopened
<1>10. Placed'
  BY <1>2, <1>4 DEF Placed
<1>11. Leaking'
  <2>1. Reserved = {1, t} /\ Reserved' = {1} /\ Owed = 0 /\ Owed' = 0
    BY <1>1, <1>4 DEF Reserved, Owed
  <2>2. Opened' \ Reserved' = Opened \ Reserved
    BY <1>6, <2>1
  <2>. QED
    BY <1>2, <1>4, <2>1, <2>2 DEF Leaking
<1>12. Unfailed => Unfailed'
  BY <1>1, <1>4, <1>6 DEF Unfailed
<1>13. ~event' => Watched'
  BY <1>1, <1>2, <1>4 DEF Watched, Resting
<1>14. ~died /\ ~raced' => Smooth'
  BY <1>2, <1>4 DEF Smooth
<1>15. held' \in BOOLEAN /\ (mpc = "idle" => ~held')
  BY <1>2, <1>4
<1>. QED
  BY <1>2, <1>4, <1>7, <1>8, <1>9, <1>10, <1>11, <1>12, <1>13, <1>14, <1>15, WatcherKept

\* The structure is freed and the addresses of the new one are read.
LEMMA NewRtreeKeeps ==
    ASSUME UInv, Up, NewRtree
    PROVE  UInv'
<1>1. /\ zpc = "free" /\ UNCHANGED <<watch, event, raced>>
      /\ UNCHANGED <<nodes, alive, created, calls, died, failed, headFailures, astray>>
  BY DEF NewRtree, OnlyWatcher
<1>2. /\ FdTyped /\ MainTyped /\ Sided /\ Reopened /\ Placed /\ Leaking /\ ~Connecting
      /\ watch \in BOOLEAN /\ event \in BOOLEAN /\ raced \in BOOLEAN /\ held \in BOOLEAN
      /\ mpc = "idle" => ~held
      /\ zpc # "children" /\ ~event => watch /\ list = nodes
      /\ ~died /\ ~raced =>
           /\ Smooth /\ Unfailed /\ mpc = "idle" /\ list \subseteq nodes
  BY <1>1, WatcherRuns
<1>3. list # {} /\ list \subseteq Servers
  BY <1>1, <1>2 DEF Reopened, FdTyped
<1>4. CASE ~({FirstOf(list), LastOf(list)} \subseteq nodes)
  <2>1. Ends("exit")
    BY <1>4 DEF NewRtree
  <2>2. died \/ raced
    BY <1>2, <1>3, <1>4, FirstAndLast
  <2>. QED
    BY <1>1, <1>2, <2>1, <2>2, EndKeeps
<1>5. CASE {FirstOf(list), LastOf(list)} \subseteq nodes
  <2>1. /\ zpc' = "head_socket" /\ freed' \in BOOLEAN
        /\ UNCHANGED <<list, new, status, fd, mine, stub, mpc, mfd, peer, held>>
    BY <1>5 DEF NewRtree, StepZ, main
  <2>2. FdTyped'
    BY <1>2, <2>1 DEF FdTyped
  <2>3. Sided' /\ Reopened'
    BY <1>1, <1>2, <2>1 DEF Sided, Reopened
  <2>4. Placed'
    BY <1>2, <2>1 DEF Placed
  <2>5. Leaking'
    <3>1. Opened' = Opened /\ Reserved' = Reserved /\ Owed' = Owed
      BY <1>1, <2>1 DEF Opened, Reserved, Owed
    <3>. QED
      BY <1>1, <1>2, <3>1 DEF Leaking
  <2>6. Unfailed => Unfailed'
    BY <1>1, <2>1 DEF Unfailed, Opened
  <2>7. ~died /\ ~raced' => Smooth'
    BY <1>1, <1>2, <2>1 DEF Smooth
  <2>8. ~event' => Watched'
    BY <1>1, <1>2, <2>1 DEF Watched, Resting
  <2>9. held' \in BOOLEAN /\ (mpc = "idle" => ~held') /\ watch' \in BOOLEAN
        /\ event' \in BOOLEAN /\ raced' \in BOOLEAN
    BY <1>1, <1>2, <2>1
  <2>. QED
    BY <1>1, <1>2, <2>1, <2>2, <2>3, <2>4, <2>5, <2>6, <2>7, <2>8, <2>9, WatcherKept
<1>. QED
  BY <1>4, <1>5

\* There is a number for a new socket unless a call failed; what a step with it does.
LEMMA ReopenSteps ==
    ASSUME UInv, Up, NEW role \in Roles, NEW label \in {"head_socket", "tail_socket"},
           role = "head" <=> label = "head_socket", Reopen(role, label)
    PROVE  /\ zpc = label /\ UNCHANGED <<watch, event, raced>>
           /\ UNCHANGED <<nodes, alive, created, calls, died, failed, headFailures, astray>>
           /\ FreeNumbers = {} => Ends("exit") /\ (died \/ raced)
           /\ FreeNumbers # {} =>
                /\ OpenFor(role) /\ zpc' = IF role = "head" THEN "tail_socket" ELSE "dial"
                /\ UNCHANGED <<status, mine, stub, freed, mpc, mfd, peer, held, list>>
<1>1. /\ zpc = label /\ UNCHANGED <<watch, event, raced>>
      /\ UNCHANGED <<nodes, alive, created, calls, died, failed, headFailures, astray>>
  BY DEF Reopen, OnlyWatcher
<1>2. ASSUME FreeNumbers = {}
      PROVE  Ends("exit") /\ (died \/ raced)
  <2>1. Ends("exit")
    BY <1>2 DEF Reopen
  <2>2. ~died /\ ~raced => Unfailed
    BY <1>1, WatcherRuns
  <2>3. Unfailed => 2 \notin Opened
    BY <1>1 DEF Unfailed
  <2>4. 2 \in Opened
    BY <1>2, Bounds DEF FreeNumbers, Opened
  <2>. QED
    BY <2>1, <2>2, <2>3, <2>4
<1>3. ASSUME FreeNumbers # {}
      PROVE  /\ OpenFor(role) /\ zpc' = IF role = "head" THEN "tail_socket" ELSE "dial"
             /\ UNCHANGED <<status, mine, stub, freed, mpc, mfd, peer, held, list>>
  BY <1>3 DEF Reopen, rtrees, main
<1>. QED
  BY <1>1, <1>2, <1>3

\* The head's socket is opened again: its number is 1.
LEMMA ReopenHeadKeeps ==
    ASSUME UInv, Up, Reopen("head", "head_socket")
    PROVE  UInv'
<1>1. /\ zpc = "head_socket" /\ UNCHANGED <<watch, event, raced>>
      /\ UNCHANGED <<nodes, alive, created, calls, died, failed, headFailures, astray>>
      /\ FreeNumbers = {} => Ends("exit") /\ (died \/ raced)
      /\ FreeNumbers # {} =>
           /\ OpenFor("head") /\ zpc' = "tail_socket"
           /\ UNCHANGED <<status, mine, stub, freed, mpc, mfd, peer, held, list>>
  BY ReopenSteps DEF Roles
<1>2. /\ FdTyped /\ MainTyped /\ Sided /\ Reopened /\ Placed /\ Leaking /\ ~Connecting
      /\ watch \in BOOLEAN /\ event \in BOOLEAN /\ raced \in BOOLEAN /\ held \in BOOLEAN
      /\ mpc = "idle" => ~held
      /\ zpc # "children" /\ ~event => watch /\ list = nodes
      /\ ~died /\ ~raced =>
           /\ Smooth /\ Unfailed /\ mpc = "idle" /\ list \subseteq nodes
  BY <1>1, WatcherRuns
<1>3. CASE FreeNumbers = {}
  BY <1>1, <1>2, <1>3, EndKeeps
<1>4. CASE FreeNumbers # {}
  <2>1. /\ OpenFor("head") /\ zpc' = "tail_socket"
        /\ UNCHANGED <<status, mine, stub, freed, mpc, mfd, peer, held, list>>
    BY <1>1, <1>4
  <2>2. /\ fd' \in [Numbers -> Sockets] /\ new' \in Pairs /\ Sided'
        /\ Lowest \in Numbers
        /\ \A m \in Numbers : m \notin Opened => Lowest <= m
        /\ Opened' = Opened \union {Lowest}
        /\ new'["head"] = Lowest
    BY <1>2, <1>4, <2>1, OpenForKeeps DEF Roles
  <2>3. Lowest = 1
    <3>1. 1 \notin Opened
      BY <1>1, <1>2 DEF Reopened, Opened
    <3>2. Lowest <= 1
      BY <2>2, <3>1, Bounds
    <3>. QED
      BY <2>2, <3>2 DEF Numbers
  <2>4. FdTyped'
    BY <1>2, <2>1, <2>2 DEF FdTyped
  <2>5. Reopened'
    BY <1>1, <1>2, <2>1, <2>2, <2>3 DEF Reopened
  <2>6. Placed'
    BY <1>2, <2>1 DEF Placed
  <2>7. Leaking'
    <3>1. Reserved = {1} /\ Reserved' = {1} /\ Owed = 0
      BY <1>1, <2>1 DEF Reserved, Owed
    <3>2. Owed' = 0
      BY <2>2, <2>3 DEF Owed, Opened
    <3>3. Opened' \ Reserved' = Opened \ Reserved
      BY <2>2, <2>3, <3>1
    <3>. QED
      BY <1>1, <1>2, <3>1, <3>2, <3>3 DEF Leaking
  <2>8. Unfailed => Unfailed'
    <3> SUFFICES ASSUME Unfailed
                 PROVE  Unfailed'
      OBVIOUS
    <3>1. Opened = {}
      BY <1>1 DEF Unfailed
    <3>2. Opened' = {1}
      BY <2>2, <2>3, <3>1
    <3>. QED
      BY <2>1, <3>2 DEF Unfailed
  <2>9. ~died /\ ~raced' => Smooth'
    BY <1>1, <1>2, <2>1 DEF Smooth
  <2>10. ~event' => Watched'
    BY <1>1, <1>2, <2>1 DEF Watched, Resting
  <2>11. held' \in BOOLEAN /\ (mpc = "idle" => ~held') /\ watch' \in BOOLEAN
         /\ event' \in BOOLEAN /\ raced' \in BOOLEAN
    BY <1>1, <1>2, <2>1
  <2>. QED
    BY <1>1, <1>2, <2>1, <2>2, <2>4, <2>5, <2>6, <2>7, <2>8, <2>9, <2>10, <2>11, WatcherKept
<1>. QED
  BY <1>3, <1>4

\* The tail's socket is opened again: unless a call failed its number is 2.
LEMMA ReopenTailKeeps ==
    ASSUME UInv, Up, Reopen("tail", "tail_socket")
    PROVE  UInv'
<1>1. /\ zpc = "tail_socket" /\ UNCHANGED <<watch, event, raced>>
      /\ UNCHANGED <<nodes, alive, created, calls, died, failed, headFailures, astray>>
      /\ FreeNumbers = {} => Ends("exit") /\ (died \/ raced)
      /\ FreeNumbers # {} =>
           /\ OpenFor("tail") /\ zpc' = "dial"
           /\ UNCHANGED <<status, mine, stub, freed, mpc, mfd, peer, held, list>>
  BY ReopenSteps DEF Roles
<1>2. /\ FdTyped /\ MainTyped /\ Sided /\ Reopened /\ Placed /\ Leaking /\ ~Connecting
      /\ watch \in BOOLEAN /\ event \in BOOLEAN /\ raced \in BOOLEAN /\ held \in BOOLEAN
      /\ mpc = "idle" => ~held
      /\ headFailures \in Nat
      /\ zpc # "children" /\ ~event => watch /\ list = nodes
      /\ ~died /\ ~raced =>
           /\ Smooth /\ Unfailed /\ mpc = "idle" /\ list \subseteq nodes
  BY <1>1, WatcherRuns
<1>3. CASE FreeNumbers = {}
  BY <1>1, <1>2, <1>3, EndKeeps
<1>4. CASE FreeNumbers # {}
  <2>1. /\ OpenFor("tail") /\ zpc' = "dial"
        /\ UNCHANGED <<status, mine, stub, freed, mpc, mfd, peer, held, list>>
    BY <1>1, <1>4
  <2>2. /\ fd' \in [Numbers -> Sockets] /\ new' \in Pairs /\ Sided'
        /\ Lowest \in Numbers /\ Lowest \notin Opened
        /\ \A m \in Numbers : m \notin Opened => Lowest <= m
        /\ Opened' = Opened \union {Lowest}
        /\ new'["tail"] = Lowest /\ new'["head"] = new["head"]
    BY <1>2, <1>4, <2>1, OpenForKeeps DEF Roles
  <2>3. new.head = 1 /\ new'.head = 1 /\ new'.tail = Lowest
    BY <1>1, <1>2, <2>2 DEF Reopened
  <2>4. FdTyped'
    BY <1>2, <2>1, <2>2 DEF FdTyped
  <2>5. Reopened'
    BY <1>1, <1>2, <2>1, <2>2, <2>3 DEF Reopened
  <2>6. Placed'
    BY <1>2, <2>1 DEF Placed
  <2>7. Leaking'
    <3>1. Reserved = {1} /\ Reserved' = {1, Lowest}
      BY <1>1, <2>1, <2>3 DEF Reserved
    <3>2. Owed' <= Owed
      <4>1. fd'[1] = Free => fd[1] = Free
        BY <2>2, Bounds DEF Opened
      <4>. QED
        BY <1>1, <2>1, <4>1 DEF Owed
    <3>3. Opened' \ Reserved' \subseteq Opened \ Reserved
      BY <2>2, <3>1
    <3>4. Cardinality(Opened' \ Reserved') <= Cardinality(Opened \ Reserved)
      BY <3>3, CountedSets, Sizes
    <3>5. /\ Cardinality(Opened' \ Reserved') \in Nat
          /\ Cardinality(Opened \ Reserved) \in Nat
      BY CountedSets, Sizes
    <3>6. Cardinality(Opened \ Reserved) + Owed <= headFailures
      BY <1>2 DEF Leaking
    <3>7. Cardinality(Opened' \ Reserved') + Owed' <= headFailures
      BY <1>2, <3>2, <3>4, <3>5, <3>6, CountedSets
    <3>. QED
      BY <1>1, <3>7 DEF Leaking
  <2>8. Unfailed => Unfailed'
    <3> SUFFICES ASSUME Unfailed
                 PROVE  Unfailed'
      OBVIOUS
    <3>1. Opened = {1} /\ mine = [head |-> 1, tail |-> 2]
      BY <1>1 DEF Unfailed
    <3>2. Lowest = 2
      <4>1. Lowest <= 2 /\ Lowest # 1
        BY <2>2, <3>1, Bounds
      <4>. QED
        BY <2>2, <4>1 DEF Numbers
    <3>3. Opened' = {1, 2}
      BY <2>2, <3>1, <3>2
    <3>4. new' = [head |-> 1, tail |-> 2]
      BY <2>2, <2>3, <3>2 DEF Pairs
    <3>. QED
      BY <2>1, <3>1, <3>3, <3>4 DEF Unfailed
  <2>9. ~died /\ ~raced' => Smooth'
    BY <1>1, <1>2, <2>1 DEF Smooth
  <2>10. ~event' => Watched'
    BY <1>1, <1>2, <2>1 DEF Watched, Resting
  <2>11. held' \in BOOLEAN /\ (mpc = "idle" => ~held') /\ watch' \in BOOLEAN
         /\ event' \in BOOLEAN /\ raced' \in BOOLEAN
    BY <1>1, <1>2, <2>1
  <2>. QED
    BY <1>1, <1>2, <2>1, <2>2, <2>4, <2>5, <2>6, <2>7, <2>8, <2>9, <2>10, <2>11, WatcherKept
<1>. QED
  BY <1>3, <1>4

\* The new sockets are connected.
LEMMA RedialKeeps ==
    ASSUME UInv, Up, Redial
    PROVE  UInv'
<1>1. /\ zpc = "dial" /\ UNCHANGED <<watch, event, raced>>
      /\ UNCHANGED <<nodes, alive, created, calls, died, failed, headFailures, astray>>
  BY DEF Redial, OnlyWatcher
<1>2. /\ FdTyped /\ MainTyped /\ Sided /\ Reopened /\ Placed /\ Leaking /\ ~Connecting
      /\ watch \in BOOLEAN /\ event \in BOOLEAN /\ raced \in BOOLEAN /\ held \in BOOLEAN
      /\ mpc = "idle" => ~held
      /\ zpc # "children" /\ ~event => watch /\ list = nodes
      /\ ~died => alive = nodes /\ nodes # {}
      /\ ~died /\ ~raced =>
           /\ Smooth /\ Unfailed /\ mpc = "idle" /\ list \subseteq nodes
  BY <1>1, WatcherRuns
<1>3. list # {} /\ list \subseteq Servers /\ new.head = 1 /\ new.tail \in Numbers
  BY <1>1, <1>2 DEF Reopened, FdTyped
<1>4. CASE ~BothConnect
  <2>1. Ends("exit")
    BY <1>4 DEF Redial
  <2>2. died \/ raced
    <3> SUFFICES ASSUME ~died, ~raced
                 PROVE  BothConnect
      BY <1>4
    <3>1. FirstOf(list) \in alive /\ LastOf(list) \in alive
      BY <1>2, <1>3, FirstAndLast
    <3>2. new = [head |-> 1, tail |-> 2] /\ Opened = {1, 2}
      BY <1>1, <1>2 DEF Unfailed
    <3>3. fd[1] # Free /\ fd[2] # Free
      BY <3>2 DEF Opened
    <3>4. \A role \in Roles : fd[new[role]] # Free
      BY <3>2, <3>3 DEF Roles
    <3>5. new.head # new.tail
      BY <3>2
    <3>. QED
      BY <3>1, <3>4, <3>5 DEF BothConnect
  <2>. QED
    BY <1>1, <1>2, <2>1, <2>2, EndKeeps
<1>5. CASE BothConnect
  <2>1. /\ stub' = new /\ mine' \in {mine, new} /\ fd' = Connected /\ list' = {}
        /\ new' = NoPair /\ zpc' = "idle"
        /\ UNCHANGED <<status, freed, mpc, mfd, peer, held>>
    BY <1>5 DEF Redial, main
  <2>2. /\ fd' \in [Numbers -> Sockets] /\ Sided' /\ Opened' = Opened
        /\ new.tail \in 2 .. MaxFd
        /\ fd'[1] = [to |-> FirstOf(list), role |-> "head"]
        /\ fd'[new.tail] = [to |-> LastOf(list), role |-> "tail"]
        /\ fd[1] # Free
    BY <1>2, <1>3, <1>5, <2>1, ConnectKeeps
  <2>3. FdTyped'
    BY <1>2, <2>1, <2>2, Values DEF FdTyped
  <2>4. Reopened'
    BY <2>1 DEF Reopened
  <2>5. Placed'
    BY <1>2, <1>3, <2>1, <2>2 DEF Placed
  <2>6. Leaking'
    <3>1. Reserved = {1, new.tail} /\ Reserved' = {1, new.tail} /\ Owed = 0
      BY <1>1, <2>1, <2>2 DEF Reserved, Owed
    <3>2. Owed' = 0
      <4>1. 1 \in Opened'
        BY <2>2, Bounds DEF Opened
      <4>. QED
        BY <4>1 DEF Owed, Opened
    <3>3. Opened' \ Reserved' = Opened \ Reserved
      BY <2>2, <3>1
    <3>. QED
      BY <1>1, <1>2, <3>1, <3>2, <3>3 DEF Leaking
  <2>7. Unfailed => Unfailed' /\ mine' = new /\ new = [head |-> 1, tail |-> 2]
    <3> SUFFICES ASSUME Unfailed
                 PROVE  Unfailed' /\ mine' = new /\ new = [head |-> 1, tail |-> 2]
      OBVIOUS
    <3>1. /\ mine = [head |-> 1, tail |-> 2] /\ new = mine /\ Opened = {1, 2}
      BY <1>1 DEF Unfailed
    <3>. QED
      BY <2>1, <2>2, <3>1 DEF Unfailed
  <2>8. ~died /\ ~raced' => Smooth'
    <3> SUFFICES ASSUME ~died, ~raced'
                 PROVE  Smooth'
      OBVIOUS
    <3>1. Smooth /\ Unfailed /\ mpc = "idle"
      BY <1>1, <1>2
    <3>2. FirstOf(list) \in alive /\ LastOf(list) \in alive
      BY <1>5 DEF BothConnect
    <3>3. new.tail = 2
      BY <2>7, <3>1
    <3>4. fd'[1].to \in alive' /\ fd'[2].to \in alive'
      BY <1>1, <2>2, <3>2, <3>3
    <3>. QED
      BY <1>1, <1>2, <2>1, <3>1, <3>4 DEF Smooth
  <2>9. ~event' => Watched'
    <3> SUFFICES ASSUME ~event'
                 PROVE  Watched'
      OBVIOUS
    <3>1. watch /\ list = nodes
      BY <1>1, <1>2
    <3>2. ~failed => Unfailed
      BY <1>2, Running
    <3>3. ~failed => mine'.head = 1 /\ mine'.tail = 2 /\ new.tail = 2
      BY <2>7, <3>2
    <3>4. ~failed => \A role \in Roles : fd'[mine'[role]].to = ServerOf(role, nodes')
      BY <1>1, <2>2, <3>1, <3>3 DEF Roles, ServerOf
    <3>5. ~Connecting'
      BY <1>2, <2>1 DEF Connecting
    <3>. QED
      BY <1>1, <2>1, <3>1, <3>4, <3>5 DEF Watched
  <2>10. held' \in BOOLEAN /\ (mpc = "idle" => ~held') /\ watch' \in BOOLEAN
         /\ event' \in BOOLEAN /\ raced' \in BOOLEAN
    BY <1>1, <1>2, <2>1
  <2>11. Unfailed => Unfailed'
    BY <2>7
  <2>. QED
    BY <1>1, <1>2, <2>1, <2>2, <2>3, <2>4, <2>5, <2>6, <2>8, <2>9, <2>10, <2>11, WatcherKept
<1>. QED
  BY <1>4, <1>5

-----------------------------------------------------------------------------
\* The invariant.

\* It holds at the start: nothing is open and no server has died.
LEMMA InitKeeps == Init => UInv
<1> SUFFICES ASSUME Init
             PROVE  UInv
  OBVIOUS
<1>1. /\ created \in 1 .. MaxServers /\ nodes = 1 .. created /\ alive = nodes
      /\ watch = FALSE /\ event = FALSE /\ status = "up"
      /\ fd = [n \in Numbers |-> Free]
      /\ mine = NoPair /\ stub = NoPair /\ freed = FALSE
      /\ mpc = "connect" /\ mfd = 0 /\ peer = Nobody /\ held = FALSE
      /\ zpc = "idle" /\ list = {} /\ new = NoPair
  BY DEF Init
<1>2. /\ calls = 0 /\ died = FALSE /\ raced = FALSE
      /\ failed = FALSE /\ headFailures = 0 /\ astray = FALSE
  BY DEF Init
<1>3. ChainTyped
  BY <1>1 DEF ChainTyped, Servers
<1>4. FdTyped
  <2>1. fd \in [Numbers -> Sockets]
    BY <1>1, Values
  <2>. QED
    BY <1>1, <2>1, Values DEF FdTyped
<1>5. MainTyped
  BY <1>1 DEF MainTyped, Connects
<1>6. HistoryTyped
  <2>1. 0 \in 0 .. MaxCalls
    BY Bounds
  <2>. QED
    BY <1>2, <2>1 DEF HistoryTyped
<1>7. FailuresTyped
  BY <1>2, Bounds DEF FailuresTyped
<1>8. Connecting
  BY <1>1 DEF Connecting
<1>9. Counted
  <2>1. MayFail = 0
    BY <1>1 DEF MayFail, Connecting
  <2>. QED
    BY <1>2, <2>1 DEF Counted
<1>10. SmoothJoins
  BY <1>1, <1>2 DEF SmoothJoins
<1>11. Sided /\ Reopened
  BY <1>1, Values DEF Sided, Reopened
<1>12. FirstSockets
  <2>1. Opened = {}
    BY <1>1 DEF Opened
  <2>. QED
    BY <1>1, <2>1 DEF FirstSockets
<1>13. nodes # {}
  BY <1>1, ClientStubAssumption
<1>14. Smooth
  BY <1>1, <1>2, <1>8 DEF Smooth
<1>15. Kept
  BY <1>1, <1>8, <1>11, <1>12, <1>13, <1>14 DEF Kept
<1>. QED
  BY <1>3, <1>4, <1>5, <1>6, <1>7, <1>9, <1>10, <1>15, TypedParts DEF UInv

\* Every step keeps it; nothing happens once the process has ended.
LEMMA NextKeeps == UInv /\ [Next]_vars => UInv'
<1> SUFFICES ASSUME UInv, [Next]_vars
             PROVE  UInv'
  OBVIOUS
<1>1. CASE Join \/ \E s \in Servers : Die(s) \/ Expire(s)
  <2>1. Up
    BY <1>1 DEF Join, Die, Expire
  <2>. QED
    BY <1>1, <2>1, ChainKeeps
<1>2. CASE MainStep
  <2>1. Up
    BY <1>2 DEF MainStep
  <2>2. CASE WatchChain
    BY <2>1, <2>2, WatchChainKeeps
  <2>3. CASE Addresses
    BY <2>1, <2>3, AddressesKeeps
  <2>4. CASE OpenSocket("head", "head_socket")
    BY <2>1, <2>4, OpenSocketKeeps DEF Roles
  <2>5. CASE OpenSocket("tail", "tail_socket")
    BY <2>1, <2>5, OpenSocketKeeps DEF Roles
  <2>6. CASE Dial
    BY <2>1, <2>6, DialKeeps
  <2>7. CASE Write \/ WriteFails
    BY <2>1, <2>7, WriteKeeps
  <2>8. CASE StartRead
    BY <2>1, <2>8, StartReadKeeps
  <2>9. CASE Answered \/ ReadFails
    BY <2>1, <2>9, ReadKeeps
  <2>10. CASE CloseFailed
    BY <2>1, <2>10, CloseFailedKeeps
  <2>. QED
    BY <1>2, <2>2, <2>3, <2>4, <2>5, <2>6, <2>7, <2>8, <2>9, <2>10 DEF MainStep
<1>3. CASE Command
  <2>1. Up /\ (Garbage \/ \E role \in Roles : Call(role))
    BY <1>3 DEF Command
  <2>. QED
    BY <2>1, QuitKeeps, CallKeeps
<1>4. CASE Quit
  <2>1. Up
    BY <1>4 DEF Quit
  <2>. QED
    BY <1>4, <2>1, QuitKeeps
<1>5. CASE WatcherStep
  <2>1. Up
    BY <1>5 DEF WatcherStep
  <2>2. CASE Deliver
    BY <2>1, <2>2, DeliverKeeps
  <2>3. CASE GetChildren
    BY <2>1, <2>3, GetChildrenKeeps
  <2>4. CASE CloseHead
    BY <2>1, <2>4, CloseHeadKeeps
  <2>5. CASE CloseTail
    BY <2>1, <2>5, CloseTailKeeps
  <2>6. CASE NewRtree
    BY <2>1, <2>6, NewRtreeKeeps
  <2>7. CASE Reopen("head", "head_socket")
    BY <2>1, <2>7, ReopenHeadKeeps
  <2>8. CASE Reopen("tail", "tail_socket")
    BY <2>1, <2>8, ReopenTailKeeps
  <2>9. CASE Redial
    BY <2>1, <2>9, RedialKeeps
  <2>. QED
    BY <1>5, <2>2, <2>3, <2>4, <2>5, <2>6, <2>7, <2>8, <2>9 DEF WatcherStep
<1>6. CASE UNCHANGED vars
  <2>1. /\ UNCHANGED <<nodes, alive, created, watch, event, status, fd, mine, stub, freed>>
        /\ UNCHANGED <<mpc, mfd, peer, held, zpc, list, new, calls>>
        /\ UNCHANGED <<died, raced, failed, headFailures, astray>>
    BY <1>6 DEF vars, zookeeper, rtrees, main, watcher, history
  <2>2. /\ ChainTyped /\ FdTyped /\ MainTyped /\ HistoryTyped /\ FailuresTyped
        /\ Counted /\ SmoothJoins
    BY TypedParts DEF UInv
  <2>3. ChainTyped' /\ FdTyped'
    BY <2>1, <2>2 DEF ChainTyped, FdTyped
  <2>4. MainTyped'
    BY <2>1, <2>2 DEF MainTyped
  <2>5. HistoryTyped'
    BY <2>1, <2>2 DEF HistoryTyped
  <2>6. FailuresTyped'
    BY <2>1, <2>2 DEF FailuresTyped
  <2>7. (Connecting' <=> Connecting) /\ (Up' <=> Up) /\ (Resting' <=> Resting)
    BY <2>1 DEF Connecting, Up, Resting
  <2>8. Counted'
    BY <2>1, <2>2, <2>7 DEF Counted, MayFail
  <2>9. SmoothJoins'
    BY <2>1, <2>2 DEF SmoothJoins
  <2>10. Kept => Kept'
    <3>1. (Sided => Sided') /\ (Reopened => Reopened') /\ (Placed => Placed')
      BY <2>1 DEF Sided, Reopened, Placed
    <3>2. (FirstSockets => FirstSockets') /\ (Unfailed => Unfailed')
      BY <2>1 DEF FirstSockets, Unfailed, Opened
    <3>3. Leaking => Leaking'
      BY <2>1 DEF Leaking, Opened, Reserved, Owed
    <3>4. Watched => Watched'
      BY <2>1, <2>7 DEF Watched
    <3>5. Smooth => Smooth'
      BY <2>1, <2>7 DEF Smooth
    <3>. QED
      BY <2>1, <2>7, <3>1, <3>2, <3>3, <3>4, <3>5 DEF Kept
  <2>. QED
    BY <2>3, <2>4, <2>5, <2>6, <2>7, <2>8, <2>9, <2>10, TypedParts DEF UInv
<1>. QED
  BY <1>1, <1>2, <1>3, <1>4, <1>5, <1>6 DEF Next

\* UInv holds in every state: whatever the client's two threads and the servers do, the
\* head's socket is 1 and the invariant of the numbers is kept.
THEOREM ClientInvariance == Spec => []UInv
BY InitKeeps, NextKeeps, PTL DEF Spec

\* The variables keep their types; in particular a call fails at most twice, for any
\* number of calls (network_send_receive).
THEOREM ClientTypeCorrect == Spec => []TypeOK
<1>1. UInv => TypeOK
  BY DEF UInv
<1>. QED
  BY <1>1, ClientInvariance, PTL

\* While no call has failed the numbers in the structure that was freed are those of the
\* new sockets, to the first and the last server (child_watcher, network_connect).
THEOREM NumbersCorrect == Spec => []NumbersComeBack
<1>1. UInv => NumbersComeBack
  <2> SUFFICES ASSUME UInv, Resting, ~failed
               PROVE  /\ mine = stub
                      /\ ~event => \A role \in Roles : fd[mine[role]].to = ServerOf(role, nodes)
    BY DEF NumbersComeBack
  <2>1. Up /\ ~Connecting /\ zpc = "idle" /\ mpc # "connect"
    BY DEF Resting, Connecting
  <2>2. Unfailed /\ (~event => Watched)
    BY <2>1, Running
  <2>. QED
    BY <2>2 DEF Unfailed, Watched
<1>. QED
  BY <1>1, ClientInvariance, PTL

\* A write never goes to a socket to a tail, nor a read to one to a head, whatever fails
\* and however often sockets are closed and opened (network_send_receive, child_watcher).
THEOREM RolesCorrect == Spec => []RolesKept
<1>1. UInv => RolesKept
  <2> SUFFICES ASSUME UInv, Up, ~Connecting, NEW role \in Roles, fd[mine[role]].to # Nobody
               PROVE  fd[mine[role]].role = role
    BY DEF RolesKept
  <2>1. Placed /\ Sided
    BY Running
  <2>. QED
    BY <2>1, Bounds DEF Placed, Sided, Roles, Numbers
<1>. QED
  BY <1>1, ClientInvariance, PTL

\* No more sockets are lost than calls to the head have failed (network_close).
THEOREM LeaksCorrect == Spec => []LeaksAreFailures
<1>1. UInv => LeaksAreFailures
  <2> SUFFICES ASSUME UInv, Resting
               PROVE  Cardinality(Leaked) <= headFailures
    BY DEF LeaksAreFailures
  <2>1. Up /\ ~Connecting /\ zpc = "idle"
    BY DEF Resting
  <2>2. Placed /\ Leaking /\ FailuresTyped
    BY <2>1, Running
  <2>3. Leaked = Opened \ Reserved
    BY <2>1, <2>2 DEF Leaked, Opened, Reserved, Placed
  <2>4. Cardinality(Opened \ Reserved) \in Nat /\ headFailures \in Nat
    BY <2>2, CountedSets, Sizes DEF FailuresTyped
  <2>5. Cardinality(Opened \ Reserved) <= headFailures
    BY <2>2, <2>4, CountedSets DEF Leaking
  <2>. QED
    BY <2>3, <2>5
<1>. QED
  BY <1>1, ClientInvariance, PTL

\* While no server dies and no call meets child_watcher no call fails and the client does
\* not exit, however many servers join (child_watcher, network_send_receive).
THEOREM SmoothCorrect == Spec => []SmoothJoins
<1>1. UInv => SmoothJoins
  BY DEF UInv
<1>. QED
  BY <1>1, ClientInvariance, PTL

=============================================================================
