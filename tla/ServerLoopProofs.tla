--------------------------- MODULE ServerLoopProofs ---------------------------
(***************************************************************************)
(* Proofs about the descriptors of a server (ServerLoop), for any          *)
(* connections, numbers and bounds: the invariant SInv, and from it the    *)
(* invariants the run ServerServes checks.                                 *)
(***************************************************************************)
EXTENDS ServerLoop, TLAPS, SequenceTheorems, LeastNumbers

USE ServerLoopAssumption

\* The values of the variables.
Kinds == Conns \union {"free", "terminal", "listening", "next"}
Places == {"poll", "accept", "scan", "body", "unread", "send", "drop", "end", "restarted"}
Within == {"scan", "body", "unread", "send", "drop"}
Entries == [n : Numbers, revents : SUBSET {"in", "invalid"}]
Peers == [st : {"new", "waiting", "accepted", "closed"}, eof : BOOLEAN,
          buf : {"none", "half", "whole"}, asked : 0 .. MaxAsks, out : Seq(Messages)]

\* TypeOK, with its sets named.
LEMMA Typed ==
    TypeOK <=>
        /\ fd \in [Numbers -> Kinds]
        /\ socketfd \in Numbers \union {Invalid} /\ nextSocket \in Numbers
        /\ hasNext \in BOOLEAN
        /\ npc \in Places /\ pollset \in Seq(Entries)
        /\ npc \in Within => i \in 2 .. Len(pollset)
        /\ msg \in Messages
        /\ wpc \in {"idle", "write", "read", "close", "close and read", "read again"}
        /\ zpc \in {"idle", "socket", "connect", "assign"}
        /\ wfd \in Numbers /\ zfd \in Numbers
        /\ conn \in [Conns -> Peers]
        /\ crossed \in BOOLEAN /\ cause \in BOOLEAN
BY DEF TypeOK, Kinds, Places, Within, Entries, Peers

\* The three messages that are no request.
LEMMA NoRequest ==
    /\ {NoMsg, Empty, Remains} \subseteq Messages
    /\ {NoMsg.from, Empty.from, Remains.from} \intersect Conns = {}
BY DEF NoMsg, Empty, Remains, Messages

\* The lowest free number is free.
LEMMA LowestIsFree ==
    ASSUME FreeNumbers # {}
    PROVE  Lowest \in Numbers /\ fd[Lowest] = "free"
<1>1. FreeNumbers \in SUBSET Nat
  BY DEF FreeNumbers, Numbers
<1>2. \E n \in FreeNumbers : \A m \in FreeNumbers : n <= m
  BY <1>1, LeastNumber
<1>. QED
  BY <1>2 DEF Lowest, FreeNumbers

-----------------------------------------------------------------------------
\* The steps the actions share.

\* The fields of an entry of a set.
LEMMA EntryFields ==
    ASSUME NEW set \in Seq(Entries), NEW j \in DOMAIN set
    PROVE  /\ set[j] \in Entries /\ set[j].n \in Numbers
           /\ set[j].revents \in SUBSET {"in", "invalid"}
<1>1. set[j] \in Entries
  OBVIOUS
<1>. QED
  BY <1>1 DEF Entries

\* Scan goes on to an entry with events, or back to poll; the numbers stay.
LEMMA ScanGoesOn ==
    ASSUME NEW set \in Seq(Entries), NEW k \in Nat, k >= 2, Scan(k, set)
    PROVE  /\ npc' \in {"poll", "scan"} /\ pollset' \in Seq(Entries)
           /\ npc' = "scan" => i' \in 2 .. Len(pollset')
           /\ Len(pollset') = Len(set)
           /\ \A j \in DOMAIN set : /\ pollset'[j].n = set[j].n
                                    /\ pollset'[j].revents \in {set[j].revents, {}}
<1>1. CASE WithEvents(k, set) = {}
  <2>1. /\ npc' = "poll"
        /\ pollset' = [j \in 1 .. Len(set) |-> [n |-> set[j].n, revents |-> {}]]
    BY <1>1 DEF Scan, Entry
  <2>2. \A j \in 1 .. Len(set) : [n |-> set[j].n, revents |-> {}] \in Entries
    <3>1. \A j \in 1 .. Len(set) : set[j].n \in Numbers
      BY EntryFields
    <3>. QED
      BY <3>1 DEF Entries
  <2>3. pollset' \in Seq(Entries)
    BY <2>1, <2>2, IsASeq
  <2>4. Len(pollset') = Len(set)
    BY <2>1, <2>3
  <2>. QED
    BY <2>1, <2>3, <2>4
<1>2. CASE WithEvents(k, set) # {}
  <2>. DEFINE J == WithEvents(k, set)
  <2>1. J \in SUBSET Nat /\ J \subseteq 2 .. Len(set)
    BY DEF WithEvents
  <2>2. \E j \in J : \A m \in J : j <= m
    BY <1>2, <2>1, LeastNumber
  <2>3. /\ npc' = "scan" /\ pollset' = set
        /\ i' = CHOOSE j \in J : \A m \in J : j <= m
    BY <1>2 DEF Scan
  <2>4. i' \in J
    BY <2>2, <2>3
  <2>. QED
    BY <2>1, <2>3, <2>4
<1>. QED
  BY <1>1, <1>2

\* A record for a connection that has no socket.
LEMMA UnusedTyped ==
    /\ Unused("new") \in Peers /\ Unused("closed") \in Peers
    /\ \A st : /\ Unused(st).st = st /\ Unused(st).eof = FALSE /\ Unused(st).buf = "none"
               /\ Unused(st).asked = 0 /\ Unused(st).out = <<>>
BY DEF Unused, Peers

\* A connection's record with another state, end or data has its type.
LEMMA PeerChanged ==
    ASSUME NEW f \in [Conns -> Peers], NEW c \in Conns
    PROVE  /\ \A v \in {"new", "waiting", "accepted", "closed"} :
                [f EXCEPT ![c].st = v] \in [Conns -> Peers]
           /\ \A v \in BOOLEAN : [f EXCEPT ![c].eof = v] \in [Conns -> Peers]
           /\ \A v \in {"none", "half", "whole"} :
                [f EXCEPT ![c].buf = v] \in [Conns -> Peers]
<1>1. f[c] \in Peers
  OBVIOUS
<1>2. \A v \in {"new", "waiting", "accepted", "closed"} : [f[c] EXCEPT !.st = v] \in Peers
  BY <1>1 DEF Peers
<1>3. \A v \in BOOLEAN : [f[c] EXCEPT !.eof = v] \in Peers
  BY <1>1 DEF Peers
<1>4. \A v \in {"none", "half", "whole"} : [f[c] EXCEPT !.buf = v] \in Peers
  BY <1>1 DEF Peers
<1>5. \A p \in Peers : [f EXCEPT ![c] = p] \in [Conns -> Peers]
  OBVIOUS
<1>. QED
  BY <1>2, <1>3, <1>4, <1>5

\* What Close does to the variables.
LEMMA CloseTyped ==
    ASSUME TypeOK, NEW n \in Numbers, NEW mine, Close(n, mine)
    PROVE  /\ fd' \in [Numbers -> Kinds] /\ conn' \in [Conns -> Peers] /\ crossed' \in BOOLEAN
           /\ \A m \in Numbers : fd'[m] = IF m = n THEN "free" ELSE fd[m]
<1>1. fd' = [fd EXCEPT ![n] = "free"] /\ fd \in [Numbers -> Kinds] /\ "free" \in Kinds
  BY Typed DEF Close, Kinds
<1>2. \A c \in Conns : (IF c \in EndWith(n) THEN Unused("closed") ELSE conn[c]) \in Peers
  BY Typed, UnusedTyped
<1>3. conn' \in [Conns -> Peers]
  BY <1>2 DEF Close
<1>. QED
  BY <1>1, <1>3, Typed DEF Close, Use

\* What a write that fails does to the variables.
LEMMA WriteErrorTyped ==
    ASSUME TypeOK, NEW n, NEW label, WriteError(n, label)
    PROVE  /\ npc' \in {label, "restarted"} /\ socketfd' \in Numbers \union {Invalid}
           /\ npc' # label => \A m \in Numbers : fd[m] # "listening"
<1>1. FreeNumbers # {} => Lowest \in Numbers
  BY LowestIsFree
<1>2. socketfd \in Numbers \union {Invalid}
  BY Typed
<1>. QED
  BY <1>1, <1>2 DEF WriteError, Listening

\* What accept adds to the set.
LEMMA EntryTyped ==
    ASSUME NEW n \in Numbers
    PROVE  Entry(n) \in Entries /\ Entry(n).n = n /\ Entry(n).revents = {}
BY DEF Entry, Entries

\* What poll reports of a descriptor.
LEMMA EventsTyped ==
    ASSUME TypeOK, NEW n \in Numbers
    PROVE  /\ Events(n) \subseteq {"in", "invalid"}
           /\ IsConn(n) => "invalid" \notin Events(n)
BY DEF Events, IsConn

\* The entry at i.
LEMMA CurrentTyped ==
    ASSUME TypeOK, npc \in Within
    PROVE  /\ i \in DOMAIN pollset /\ i \in Nat /\ i >= 2 /\ Current \in Numbers
           /\ pollset \in Seq(Entries)
<1>1. pollset \in Seq(Entries) /\ i \in 2 .. Len(pollset)
  BY Typed
<1>2. i \in DOMAIN pollset
  BY <1>1
<1>. QED
  BY <1>1, <1>2, EntryFields DEF Current

\* remove_fd takes out one entry.
LEMMA RemoveTyped ==
    ASSUME TypeOK, npc \in Within
    PROVE  /\ Remove(Current) \in Seq(Entries) /\ Len(Remove(Current)) = Len(pollset) - 1
           /\ \E p \in DOMAIN pollset :
                /\ pollset[p].n = Current
                /\ \A k \in DOMAIN Remove(Current) :
                     Remove(Current)[k] = IF k < p THEN pollset[k] ELSE pollset[k + 1]
<1>1. pollset \in Seq(Entries) /\ i \in 2 .. Len(pollset)
  BY Typed
<1>2. \E j \in DOMAIN pollset : pollset[j].n = Current
  BY <1>1 DEF Current
<1>. DEFINE p == CHOOSE j \in DOMAIN pollset : pollset[j].n = Current
            result == [k \in 1 .. Len(pollset) - 1 |->
                         IF k < p THEN pollset[k] ELSE pollset[k + 1]]
<1>3. p \in DOMAIN pollset /\ pollset[p].n = Current
  BY <1>2
<1>4. Remove(Current) = result
  BY DEF Remove
<1>5. p \in 1 .. Len(pollset)
  BY <1>1, <1>3
<1>. HIDE DEF p
<1>6. Len(pollset) - 1 \in Nat
  BY <1>1
<1>7. \A k \in 1 .. Len(pollset) - 1 :
        (IF k < p THEN pollset[k] ELSE pollset[k + 1]) \in Entries
  BY <1>1, <1>5
<1>8. result \in Seq(Entries) /\ Len(result) = Len(pollset) - 1
  BY <1>6, <1>7, IsASeq
<1>. QED
  BY <1>3, <1>4, <1>8

-----------------------------------------------------------------------------
\* The types of the variables.

\* The parts of TypeOK for the groups of variables.
FdTyped == fd \in [Numbers -> Kinds] /\ crossed \in BOOLEAN /\ conn \in [Conns -> Peers]
GlobalTyped ==
    /\ socketfd \in Numbers \union {Invalid} /\ nextSocket \in Numbers
    /\ hasNext \in BOOLEAN /\ cause \in BOOLEAN
LoopTyped ==
    /\ npc \in Places /\ pollset \in Seq(Entries)
    /\ npc \in Within => i \in 2 .. Len(pollset)
    /\ msg \in Messages
WorkerTyped ==
    /\ wpc \in {"idle", "write", "read", "close", "close and read", "read again"}
    /\ wfd \in Numbers
WatcherTyped == zpc \in {"idle", "socket", "connect", "assign"} /\ zfd \in Numbers

\* TypeOK is the conjunction of its parts, in a state and in the next one.
LEMMA TypedParts ==
    /\ TypeOK <=> FdTyped /\ GlobalTyped /\ LoopTyped /\ WorkerTyped /\ WatcherTyped
    /\ TypeOK' <=> FdTyped' /\ GlobalTyped' /\ LoopTyped' /\ WorkerTyped' /\ WatcherTyped'
BY DEF TypeOK, FdTyped, GlobalTyped, LoopTyped, WorkerTyped, WatcherTyped,
    Kinds, Places, Within, Entries, Peers

\* A client's step keeps the types.
LEMMA ClientTyped ==
    ASSUME TypeOK, ClientStep
    PROVE  TypeOK'
<1>1. FdTyped /\ GlobalTyped /\ LoopTyped /\ WorkerTyped /\ WatcherTyped
  BY TypedParts
<1>2. conn' \in [Conns -> Peers] /\ cause' \in BOOLEAN /\ OnlyClient
  <2>1. CASE Dial
    <3>1. /\ conn' = [conn EXCEPT ![CHOOSE c \in New : TRUE].st = "waiting"]
          /\ New # {} /\ New \subseteq Conns
      BY <2>1 DEF Dial, New
    <3>2. PICK c \in Conns : conn' = [conn EXCEPT ![c].st = "waiting"]
      BY <3>1
    <3>3. conn' \in [Conns -> Peers]
      BY <1>1, <3>2, PeerChanged DEF FdTyped
    <3>. QED
      BY <1>1, <2>1, <3>3 DEF Dial, GlobalTyped
  <2>2. ASSUME NEW c \in Conns, Ask(c)
                PROVE  conn' \in [Conns -> Peers] /\ cause' \in BOOLEAN /\ OnlyClient
    <3>1. PICK part \in {"half", "whole"} :
            conn' = [conn EXCEPT ![c].buf = part, ![c].asked = @ + 1]
      BY <2>2 DEF Ask
    <3>2. conn[c].asked + 1 \in 0 .. MaxAsks
      <4>1. conn[c].asked \in 0 .. MaxAsks /\ conn[c].asked < MaxAsks /\ MaxAsks \in Nat
        BY <1>1, <2>2 DEF Ask, FdTyped, Peers
      <4>. QED
        BY <4>1
    <3>3. conn' \in [Conns -> Peers]
      BY <1>1, <3>1, <3>2 DEF FdTyped, Peers
    <3>. QED
      BY <1>1, <2>2, <3>3 DEF Ask, GlobalTyped
  <2>3. ASSUME NEW c \in Conns, AskRest(c)
                PROVE  conn' \in [Conns -> Peers] /\ cause' \in BOOLEAN /\ OnlyClient
    BY <1>1, <2>3, PeerChanged DEF AskRest, FdTyped, GlobalTyped
  <2>4. ASSUME NEW c \in Conns, HangUp(c)
                PROVE  conn' \in [Conns -> Peers] /\ cause' \in BOOLEAN /\ OnlyClient
    BY <1>1, <2>4, PeerChanged DEF HangUp, FdTyped, GlobalTyped
  <2>. QED
    BY <2>1, <2>2, <2>3, <2>4 DEF ClientStep
<1>3. FdTyped' /\ GlobalTyped' /\ LoopTyped' /\ WorkerTyped' /\ WatcherTyped'
  BY <1>1, <1>2 DEF OnlyClient, table, network, others, FdTyped, GlobalTyped, LoopTyped,
    WorkerTyped, WatcherTyped
<1>. QED
  BY <1>3, TypedParts

\* A step of ZooKeeper's thread keeps the types.
LEMMA WatcherStepTyped ==
    ASSUME TypeOK, WatcherStep
    PROVE  TypeOK'
<1>1. FdTyped /\ GlobalTyped /\ LoopTyped /\ WorkerTyped /\ WatcherTyped
  BY TypedParts
<1>2. OnlyWatcher
  BY DEF WatcherStep, SetNext, OpenSocket, ConnectFails, CloseOld, Assign
<1>3. LoopTyped' /\ WorkerTyped' /\ socketfd' = socketfd
  BY <1>1, <1>2 DEF OnlyWatcher, network, LoopTyped, WorkerTyped
<1>4. 0 \in Numbers /\ "next" \in Kinds
  BY DEF Numbers, Kinds
<1>5. FdTyped' /\ GlobalTyped' /\ WatcherTyped'
  <2>1. CASE SetNext
    BY <1>1, <1>3, <2>1 DEF SetNext, FdTyped, GlobalTyped, WatcherTyped
  <2>2. CASE OpenSocket
    BY <1>1, <1>3, <1>4, <2>2, LowestIsFree
    DEF OpenSocket, FdTyped, GlobalTyped, WatcherTyped
  <2>3. CASE ConnectFails
    <3>1. FdTyped'
      BY <1>1, <2>3, CloseTyped DEF ConnectFails, WatcherTyped, FdTyped
    <3>. QED
      BY <1>1, <1>3, <1>4, <2>3, <3>1 DEF ConnectFails, Return, GlobalTyped, WatcherTyped
  <2>4. CASE CloseOld
    <3>1. FdTyped'
      BY <1>1, <2>4, CloseTyped DEF CloseOld, GlobalTyped, FdTyped
    <3>. QED
      BY <1>1, <1>3, <2>4, <3>1 DEF CloseOld, GlobalTyped, WatcherTyped
  <2>5. CASE Assign
    BY <1>1, <1>3, <1>4, <2>5 DEF Assign, FdTyped, GlobalTyped, WatcherTyped
  <2>. QED
    BY <2>1, <2>2, <2>3, <2>4, <2>5 DEF WatcherStep
<1>. QED
  BY <1>3, <1>5, TypedParts

\* WriteError at a place of the loop leaves it at a place of the loop.
LEMMA WriteErrorKeepsLoop ==
    ASSUME TypeOK, NEW n, WriteError(n, npc), Elsewhere
    PROVE  LoopTyped' /\ socketfd' \in Numbers \union {Invalid}
<1>1. /\ npc' \in {npc, "restarted"} /\ socketfd' \in Numbers \union {Invalid}
      /\ pollset' = pollset /\ i' = i /\ msg' = msg
  BY WriteErrorTyped DEF Elsewhere
<1>2. LoopTyped
  BY TypedParts
<1>. QED
  BY <1>1, <1>2 DEF LoopTyped, Places, Within

\* A step of the worker keeps the types.
LEMMA WorkerStepTyped ==
    ASSUME TypeOK, WorkerStep
    PROVE  TypeOK'
<1>1. FdTyped /\ GlobalTyped /\ LoopTyped /\ WorkerTyped /\ WatcherTyped
  BY TypedParts
<1>2. Elsewhere
  BY DEF WorkerStep, Pick, Write, WriteFails, Read, ReadFails, CloseNext, OnlyWorker
<1>3. WatcherTyped'
  BY <1>1, <1>2 DEF Elsewhere, WatcherTyped
<1>4. /\ OnlyWorker => LoopTyped' /\ socketfd' \in Numbers \union {Invalid}
      /\ nextSocket' \in Numbers /\ hasNext' \in BOOLEAN
  BY <1>1, <1>2 DEF OnlyWorker, Elsewhere, LoopTyped, GlobalTyped
<1>5. 0 \in Numbers
  BY DEF Numbers
<1>6. LoopTyped' /\ GlobalTyped' /\ FdTyped' /\ WorkerTyped'
  <2>1. CASE Pick
    BY <1>1, <1>4, <2>1 DEF Pick, FdTyped, GlobalTyped, WorkerTyped
  <2>2. CASE Write
    BY <1>1, <1>4, <2>2 DEF Write, Use, FdTyped, GlobalTyped, WorkerTyped
  <2>3. CASE WriteFails
    <3>1. LoopTyped' /\ socketfd' \in Numbers \union {Invalid}
      BY <1>2, <2>3, WriteErrorKeepsLoop DEF WriteFails
    <3>. QED
      BY <1>1, <1>4, <2>3, <3>1 DEF WriteFails, Use, FdTyped, GlobalTyped, WorkerTyped
  <2>4. CASE Read
    BY <1>1, <1>4, <1>5, <2>4 DEF Read, FdTyped, GlobalTyped, WorkerTyped
  <2>5. CASE ReadFails
    BY <1>1, <1>4, <2>5 DEF ReadFails, FdTyped, GlobalTyped, WorkerTyped
  <2>6. CASE CloseNext
    <3>1. FdTyped'
      BY <1>1, <2>6, CloseTyped DEF CloseNext, WorkerTyped, FdTyped
    <3>. QED
      BY <1>1, <1>4, <1>5, <2>6, <3>1 DEF CloseNext, GlobalTyped, WorkerTyped
  <2>. QED
    BY <2>1, <2>2, <2>3, <2>4, <2>5, <2>6 DEF WorkerStep
<1>. QED
  BY <1>3, <1>6, TypedParts

\* SIGINT keeps the types.
LEMMA InterruptTyped ==
    ASSUME TypeOK, Interrupt
    PROVE  TypeOK'
<1>1. FdTyped /\ GlobalTyped /\ LoopTyped /\ WorkerTyped /\ WatcherTyped
  BY TypedParts
<1>2. WorkerTyped' /\ WatcherTyped' /\ GlobalTyped'
  BY <1>1 DEF Interrupt, others, WorkerTyped, WatcherTyped, GlobalTyped
<1>3. FdTyped'
  <2>1. CASE socketfd # Invalid
    <3>1. socketfd \in Numbers /\ Close(socketfd, {"listening"})
      BY <1>1, <2>1 DEF Interrupt, GlobalTyped
    <3>. QED
      BY <3>1, CloseTyped DEF FdTyped
  <2>2. CASE socketfd = Invalid
    BY <1>1, <2>2 DEF Interrupt, FdTyped
  <2>. QED
    BY <2>1, <2>2
<1>4. LoopTyped'
  BY <1>1 DEF Interrupt, GoTo, LoopTyped, Places, Within
<1>. QED
  BY <1>2, <1>3, <1>4, TypedParts

\* A step of the network thread keeps the types.
LEMMA NetworkTyped ==
    ASSUME TypeOK, NetworkStep
    PROVE  TypeOK'
<1>1. FdTyped /\ GlobalTyped /\ LoopTyped /\ WorkerTyped /\ WatcherTyped
  BY TypedParts
<1>2. OnlyNetwork
  BY DEF NetworkStep, Poll, Accept, AcceptFails, InvalidEvent, ReadSize, CloseUnread,
    ReadBody, ReadHalf, Send, SendFails, CloseAndRemove
<1>3. WorkerTyped' /\ WatcherTyped'
  BY <1>1, <1>2 DEF OnlyNetwork, others, WorkerTyped, WatcherTyped
<1>4. socketfd' \in Numbers \union {Invalid} => GlobalTyped'
  BY <1>1, <1>2 DEF OnlyNetwork, GlobalTyped
<1>5. UNCHANGED socketfd => GlobalTyped'
  BY <1>1, <1>4 DEF GlobalTyped
<1>6. UNCHANGED <<fd, conn, crossed>> => FdTyped'
  BY <1>1 DEF FdTyped
<1>7. ASSUME NEW label \in Within, npc \in Within, GoTo(label), msg' \in Messages
      PROVE  LoopTyped'
  BY <1>1, <1>7 DEF GoTo, LoopTyped, Places, Within
<1>8. ASSUME NEW set \in Seq(Entries), NEW k \in Nat, k >= 2, Scan(k, set), msg' \in Messages
      PROVE  LoopTyped'
  <2>1. /\ npc' \in {"poll", "scan"} /\ pollset' \in Seq(Entries)
        /\ npc' = "scan" => i' \in 2 .. Len(pollset')
    BY <1>8, ScanGoesOn
  <2>. QED
    BY <1>8, <2>1 DEF LoopTyped, Places, Within
<1>9. msg \in Messages /\ pollset \in Seq(Entries)
  BY <1>1 DEF LoopTyped
<1>10. FdTyped' /\ GlobalTyped' /\ LoopTyped'
  <2>1. CASE Poll
    <3>. DEFINE set == [j \in 1 .. Len(pollset) |->
                          [n |-> pollset[j].n, revents |-> Events(pollset[j].n)]]
    <3>1. set \in Seq(Entries)
      <4>1. \A j \in 1 .. Len(pollset) : pollset[j].n \in Numbers
        BY <1>9, EntryFields
      <4>2. \A j \in 1 .. Len(pollset) : Events(pollset[j].n) \in SUBSET {"in", "invalid"}
        BY <4>1, EventsTyped
      <4>3. \A j \in 1 .. Len(pollset) :
              [n |-> pollset[j].n, revents |-> Events(pollset[j].n)] \in Entries
        BY <4>1, <4>2 DEF Entries
      <4>. QED
        BY <1>9, <4>3, IsASeq
    <3>2. DOMAIN pollset = 1 .. Len(pollset)
      BY <1>9
    <3>3. \/ npc' = "accept" /\ pollset' = set
          \/ Scan(2, set)
      BY <2>1, <3>2 DEF Poll
    <3>4. msg' \in Messages
      BY <1>9, <2>1 DEF Poll
    <3>. HIDE DEF set
    <3>5. Scan(2, set) => LoopTyped'
      BY <1>8, <3>1, <3>4
    <3>6. npc' = "accept" /\ pollset' = set => LoopTyped'
      BY <3>1, <3>4 DEF LoopTyped, Places, Within
    <3>. QED
      BY <1>5, <1>6, <2>1, <3>3, <3>5, <3>6 DEF Poll
  <2>2. CASE Accept
    <3>1. Lowest \in Numbers
      BY <2>2, LowestIsFree DEF Accept
    <3>. DEFINE set == Append(pollset, Entry(Lowest))
    <3>2. set \in Seq(Entries)
      BY <1>9, <3>1, EntryTyped, AppendProperties
    <3>3. LoopTyped'
      <4>1. Scan(2, set) /\ msg' \in Messages
        BY <1>9, <2>2 DEF Accept
      <4>. HIDE DEF set
      <4>. QED
        BY <1>8, <3>2, <4>1
    <3>4. PICK c \in Conns : /\ fd' = [fd EXCEPT ![Lowest] = c]
                             /\ conn' = [conn EXCEPT ![c].st = "accepted"]
      BY <2>2 DEF Accept, Waiting
    <3>5. conn' \in [Conns -> Peers]
      BY <1>1, <3>4, PeerChanged DEF FdTyped
    <3>6. fd' \in [Numbers -> Kinds]
      BY <1>1, <3>4 DEF FdTyped, Kinds
    <3>. QED
      BY <1>1, <1>5, <2>2, <3>3, <3>5, <3>6 DEF Accept, FdTyped
  <2>3. CASE AcceptFails
    <3>1. LoopTyped'
      BY <1>1, <2>3 DEF AcceptFails, LoopTyped, Places, Within
    <3>. QED
      BY <1>5, <1>6, <2>3, <3>1 DEF AcceptFails
  <2>4. CASE InvalidEvent
    <3>1. LoopTyped'
      BY <1>7, <1>9, <2>4 DEF InvalidEvent, Within
    <3>. QED
      BY <1>5, <1>6, <2>4, <3>1 DEF InvalidEvent
  <2>5. CASE ReadSize
    <3>1. msg' \in Messages
      BY <1>9, <2>5, NoRequest DEF ReadSize
    <3>2. LoopTyped'
      BY <1>7, <2>5, <3>1 DEF ReadSize, Within
    <3>3. FdTyped'
      BY <1>1, <2>5 DEF ReadSize, Use, FdTyped
    <3>. QED
      BY <1>5, <2>5, <3>2, <3>3 DEF ReadSize
  <2>6. CASE CloseUnread
    <3>1. LoopTyped'
      BY <1>7, <1>9, <2>6 DEF CloseUnread, Within
    <3>2. FdTyped'
      BY <2>6, CloseTyped, CurrentTyped DEF CloseUnread, FdTyped, Within
    <3>. QED
      BY <1>5, <2>6, <3>1, <3>2 DEF CloseUnread
  <2>7. CASE ReadBody
    <3>1. fd[Current] \in Conns
      BY <2>7 DEF ReadBody, IsConn
    <3>2. msg' = [from |-> fd[Current], k |-> conn[fd[Current]].asked]
      BY <2>7 DEF ReadBody, Peer
    <3>3. conn[fd[Current]].asked \in 0 .. MaxAsks
      BY <1>1, <3>1 DEF FdTyped, Peers
    <3>4. msg' \in Messages
      BY <3>1, <3>2, <3>3 DEF Messages
    <3>5. LoopTyped'
      BY <1>7, <2>7, <3>4 DEF ReadBody, Within
    <3>6. conn' = [conn EXCEPT ![fd[Current]].buf = "none"]
      BY <2>7 DEF ReadBody
    <3>7. conn' \in [Conns -> Peers]
      BY <1>1, <3>1, <3>6, PeerChanged DEF FdTyped
    <3>. QED
      BY <1>1, <1>5, <2>7, <3>5, <3>7 DEF ReadBody, FdTyped
  <2>8. CASE ReadHalf
    <3>1. msg' \in Messages
      BY <2>8, NoRequest DEF ReadHalf
    <3>2. LoopTyped'
      BY <1>7, <2>8, <3>1 DEF ReadHalf, Within
    <3>. QED
      BY <1>5, <1>6, <2>8, <3>2 DEF ReadHalf
  <2>9. CASE Send
    <3>1. i \in Nat /\ i >= 2
      BY <2>9, CurrentTyped DEF Send, Within
    <3>2. msg' \in Messages /\ Scan(i + 1, pollset) /\ i + 1 \in Nat /\ i + 1 >= 2
      BY <2>9, <3>1, NoRequest DEF Send
    <3>3. LoopTyped'
      BY <1>8, <1>9, <3>2
    <3>4. conn' \in [Conns -> Peers]
      <4>1. CASE IsConn(Current)
        <5>1. /\ conn' = [conn EXCEPT ![fd[Current]].out = Append(@, msg)]
              /\ fd[Current] \in Conns
          BY <2>9, <4>1 DEF Send, Answer, IsConn
        <5>2. conn[fd[Current]] \in Peers
          BY <1>1, <5>1 DEF FdTyped
        <5>3. Append(conn[fd[Current]].out, msg) \in Seq(Messages)
          BY <1>9, <5>2, AppendProperties DEF Peers
        <5>. QED
          BY <1>1, <5>1, <5>2, <5>3 DEF FdTyped, Peers
      <4>2. CASE ~IsConn(Current)
        BY <1>1, <2>9, <4>2 DEF Send, FdTyped
      <4>. QED
        BY <4>1, <4>2
    <3>. QED
      BY <1>1, <1>5, <2>9, <3>3, <3>4 DEF Send, Use, FdTyped
  <2>10. CASE SendFails
    <3>1. FdTyped'
      BY <2>10, CloseTyped, CurrentTyped DEF SendFails, FdTyped, Within
    <3>2. npc' \in {"drop", "restarted"} /\ socketfd' \in Numbers \union {Invalid}
      BY <2>10, WriteErrorTyped DEF SendFails
    <3>3. LoopTyped'
      BY <1>1, <2>10, <3>2, NoRequest DEF SendFails, LoopTyped, Places, Within
    <3>. QED
      BY <1>4, <3>1, <3>2, <3>3
  <2>11. CASE CloseAndRemove
    <3>1. FdTyped'
      BY <2>11, CloseTyped, CurrentTyped DEF CloseAndRemove, FdTyped, Within
    <3>2. Remove(Current) \in Seq(Entries) /\ i \in Nat /\ i >= 2
      BY <2>11, RemoveTyped, CurrentTyped DEF CloseAndRemove, Within
    <3>3. LoopTyped'
      BY <1>8, <1>9, <2>11, <3>2 DEF CloseAndRemove
    <3>. QED
      BY <1>5, <2>11, <3>1, <3>3 DEF CloseAndRemove
  <2>. QED
    BY <2>1, <2>2, <2>3, <2>4, <2>5, <2>6, <2>7, <2>8, <2>9, <2>10, <2>11 DEF NetworkStep
<1>. QED
  BY <1>3, <1>10, TypedParts

-----------------------------------------------------------------------------
\* What the shared steps keep of the invariant.

\* Close keeps the connections and their numbers together, and the answers matched.
LEMMA CloseKeeps ==
    ASSUME TypeOK, Sockets, Listener, Matched, NEW n \in Numbers, NEW mine, Close(n, mine)
    PROVE  /\ Sockets' /\ Matched'
           /\ \A m \in Numbers : fd'[m] = "listening" => m = 1
           /\ \A c \in Conns : conn'[c] \in {conn[c], Unused("closed")}
           /\ \A c \in Conns : conn[c].st = "accepted" /\ c # fd[n] => conn'[c] = conn[c]
<1>1. /\ fd' \in [Numbers -> Kinds] /\ conn' \in [Conns -> Peers]
      /\ \A m \in Numbers : fd'[m] = IF m = n THEN "free" ELSE fd[m]
  BY CloseTyped
<1>2. \A c \in Conns : conn'[c] = IF c \in EndWith(n) THEN Unused("closed") ELSE conn[c]
  BY DEF Close
<1>3. Unused("closed").st = "closed"
  BY UnusedTyped
<1>4. \A c \in Conns : conn[c].st = "accepted" => (c \in EndWith(n) <=> c = fd[n])
  BY DEF EndWith
<1>5. Sockets'
  <2>1. \A m, l \in Numbers : fd'[m] \in Conns /\ fd'[m] = fd'[l] => m = l
    BY <1>1 DEF Sockets, IsConn
  <2>2. ASSUME NEW c \in Conns
        PROVE  conn'[c].st = "accepted" <=> \E m \in Numbers : fd'[m] = c
    <3>1. conn[c].st = "accepted" <=> \E m \in Numbers : fd[m] = c
      BY DEF Sockets
    <3>2. CASE c \in EndWith(n)
      <4>1. conn'[c].st = "closed"
        BY <1>2, <1>3, <3>2
      <4>2. ~ \E m \in Numbers : fd'[m] = c
        <5>1. CASE fd[n] = "listening"
          <6>1. conn[c].st = "waiting"
            BY <3>2, <5>1 DEF EndWith
          <6>. QED
            BY <1>1, <3>1, <6>1
        <5>2. CASE fd[n] # "listening"
          <6>1. c = fd[n]
            BY <3>2, <5>2 DEF EndWith
          <6>. QED
            BY <1>1, <6>1 DEF Sockets, IsConn
        <5>. QED
          BY <5>1, <5>2
      <4>. QED
        BY <4>1, <4>2
    <3>3. CASE c \notin EndWith(n)
      <4>1. conn'[c] = conn[c]
        BY <1>2, <3>3
      <4>2. c # fd[n]
        BY <3>3 DEF EndWith
      <4>. QED
        BY <1>1, <3>1, <4>1, <4>2
    <3>. QED
      BY <3>2, <3>3
  <2>3. \A c \in Conns : conn'[c].st = "accepted" <=> c \in {fd'[m] : m \in Numbers}
    BY <2>2
  <2>. QED
    BY <2>1, <2>3 DEF Sockets, IsConn
<1>6. Matched'
  <2>. SUFFICES ASSUME NEW c \in Conns
                PROVE  /\ conn'[c].out =
                            [k \in 1 .. Len(conn'[c].out) |-> [from |-> c, k |-> k]]
                       /\ conn'[c].asked \in {Len(conn'[c].out), Len(conn'[c].out) + 1}
                       /\ conn'[c].buf # "none" => conn'[c].asked = Len(conn'[c].out) + 1
    BY DEF Matched
  <2>1. CASE conn'[c] = conn[c]
    BY <2>1 DEF Matched
  <2>2. CASE conn'[c] = Unused("closed")
    <3>1. conn'[c].out = <<>> /\ conn'[c].asked = 0 /\ conn'[c].buf = "none"
      BY <2>2, UnusedTyped
    <3>2. Len(<<>>) = 0 /\ <<>> = [k \in 1 .. 0 |-> [from |-> c, k |-> k]]
      OBVIOUS
    <3>. QED
      BY <3>1, <3>2
  <2>. QED
    BY <1>2, <2>1, <2>2
<1>7. \A m \in Numbers : fd'[m] = "listening" => m = 1
  BY <1>1 DEF Listener
<1>. QED
  BY <1>2, <1>4, <1>5, <1>6, <1>7

\* A thread that never takes a connection's number for its own closes none.
LEMMA CloseApart ==
    ASSUME TypeOK, Sockets, Listener, Matched, NEW n \in Numbers, NEW mine, Close(n, mine),
           mine \intersect Conns = {}, ~crossed'
    PROVE  /\ \A m \in Numbers : IsConn(m) \/ fd'[m] \in Conns => fd'[m] = fd[m]
           /\ \A c \in Conns : conn[c].st = "accepted" => conn'[c] = conn[c]
<1>1. ~IsConn(n)
  BY DEF Close, Use, IsConn
<1>2. \A m \in Numbers : fd'[m] = IF m = n THEN "free" ELSE fd[m]
  BY CloseTyped
<1>3. \A c \in Conns : conn[c].st = "accepted" /\ c # fd[n] => conn'[c] = conn[c]
  BY CloseKeeps
<1>. QED
  BY <1>1, <1>2, <1>3 DEF IsConn

\* The set and the message keep their parts while another thread or a client takes a step
\* that leaves the numbers of connections and the request in hand alone.
LEMMA LoopKept ==
    ASSUME TypeOK, Sockets, Listener, Distinct, Polled, InHand,
           UNCHANGED <<pollset, i, msg>>,
           npc' = npc \/ npc' \in {"end", "restarted"} \/ (npc = "body" /\ npc' = "unread"),
           \A m \in Numbers : fd'[m] = "listening" => m = 1,
           \A m \in Numbers : IsConn(m) \/ fd'[m] \in Conns => fd'[m] = fd[m],
           \A c \in Conns :
               /\ conn[c].st = "accepted" /\ conn[c].buf = "none"
               /\ conn[c].asked = Len(conn[c].out) + 1
               => /\ conn'[c].buf = "none" /\ conn'[c].asked = conn[c].asked
                  /\ conn'[c].out = conn[c].out
    PROVE  /\ Listener' /\ Distinct'
           /\ npc' \notin {"end", "restarted"} => Polled' /\ InHand' /\ (Removing' <=> Removing)
<1>1. Listener' /\ Distinct'
  BY DEF Listener, Distinct
<1>2. ASSUME npc' \notin {"end", "restarted"}
      PROVE  Removing' <=> Removing
  BY <1>2 DEF Removing
<1>3. ASSUME npc' \notin {"end", "restarted"}
      PROVE  Polled'
  <2>1. \A j \in 2 .. Len(pollset) : pollset[j].n \in Numbers
    <3>1. pollset \in Seq(Entries)
      BY Typed
    <3>2. 2 .. Len(pollset) \subseteq DOMAIN pollset
      BY <3>1
    <3>. QED
      BY <3>1, <3>2, EntryFields
  <2>2. \A m \in Numbers : IsConn(m) <=> fd'[m] \in Conns
    BY DEF IsConn
  <2>. QED
    BY <1>2, <1>3, <2>1, <2>2 DEF Polled, IsConn
<1>4. ASSUME npc' \notin {"end", "restarted"}
      PROVE  InHand'
  <2>1. CASE npc = "send" /\ msg.from \in Conns
    <3>1. /\ fd[Current] = msg.from /\ conn[fd[Current]].buf = "none"
          /\ msg.k = Len(conn[fd[Current]].out) + 1 /\ conn[fd[Current]].asked = msg.k
      BY <2>1 DEF InHand, Peer
    <3>2. Current \in Numbers
      BY <2>1, CurrentTyped DEF Within
    <3>3. conn[msg.from].st = "accepted"
      BY <2>1, <3>1, <3>2 DEF Sockets
    <3>4. fd'[Current] = fd[Current] /\ Current' = Current /\ npc' = "send"
      BY <1>4, <2>1, <3>1, <3>2 DEF IsConn, Current
    <3>5. /\ conn'[msg.from].buf = "none" /\ conn'[msg.from].asked = conn[msg.from].asked
          /\ conn'[msg.from].out = conn[msg.from].out
      BY <2>1, <3>1, <3>3
    <3>. QED
      BY <2>1, <3>1, <3>4, <3>5 DEF InHand, Peer
  <2>2. CASE ~(npc = "send" /\ msg.from \in Conns)
    BY <1>4, <2>2 DEF InHand
  <2>. QED
    BY <2>1, <2>2
<1>. QED
  BY <1>1, <1>2, <1>3, <1>4

\* The set of the next state has the numbers of set, which are those of the connections.
LEMMA SetKept ==
    ASSUME NEW set \in Seq(Entries), set # <<>>, set[1].n = 1,
           \A j, m \in DOMAIN set : set[j].n = set[m].n => j = m,
           \A j \in 2 .. Len(set) : "invalid" \notin set[j].revents,
           \A j \in 2 .. Len(set) : fd'[set[j].n] \in Conns,
           \A n \in Numbers : fd'[n] \in Conns => \E j \in 2 .. Len(set) : set[j].n = n,
           \A n \in Numbers : fd'[n] = "listening" => n = 1,
           msg'.from \notin Conns,
           npc' \in {"poll", "accept", "scan"}, pollset' \in Seq(Entries),
           Len(pollset') = Len(set),
           \A j \in DOMAIN set : /\ pollset'[j].n = set[j].n
                                 /\ pollset'[j].revents \in {set[j].revents, {}}
    PROVE  Listener' /\ Distinct' /\ Polled' /\ InHand' /\ ~Removing'
<1>1. /\ DOMAIN set = 1 .. Len(set) /\ DOMAIN pollset' = 1 .. Len(set)
      /\ Len(set) \in Nat /\ Len(set) >= 1
  BY EmptySeq
<1>2. 1 \in DOMAIN set /\ \A j \in 2 .. Len(set) : j \in DOMAIN set
  BY <1>1
<1>3. Listener'
  <2>1. pollset' # <<>>
    BY <1>1
  <2>. QED
    BY <1>2, <2>1 DEF Listener
<1>4. Distinct'
  BY <1>1, <1>2 DEF Distinct
<1>5. ~Removing' /\ InHand'
  BY DEF Removing, InHand
<1>6. Polled'
  BY <1>2, <1>5 DEF Polled, IsConn
<1>. QED
  BY <1>3, <1>4, <1>5, <1>6

-----------------------------------------------------------------------------
\* Every step keeps the invariant.

\* What the invariant says of a state in which the process runs.
LEMMA Running ==
    ASSUME SInv, Runs
    PROVE  /\ TypeOK /\ ~crossed /\ npc \notin {"end", "restarted"}
           /\ Sockets /\ Listener /\ Matched /\ Distinct /\ Polled /\ InHand
           /\ ~cause => NoneGone /\ Owned
BY DEF SInv, Runs, Kept

\* The fields of a connection's record.
LEMMA PeerFields ==
    ASSUME TypeOK, NEW c \in Conns
    PROVE  /\ conn[c] \in Peers /\ conn[c].out \in Seq(Messages)
           /\ conn[c].asked \in Nat /\ Len(conn[c].out) \in Nat
<1>1. conn[c] \in Peers
  BY Typed
<1>2. conn[c].out \in Seq(Messages) /\ conn[c].asked \in 0 .. MaxAsks
  BY <1>1 DEF Peers
<1>. QED
  BY <1>1, <1>2

\* What a client's step may do to its connection.
ClientMoves(c) ==
    /\ conn'[c].out = conn[c].out /\ (cause => cause')
    /\ conn'[c].st # conn[c].st => conn[c].st = "new" /\ conn'[c].st = "waiting"
    /\ conn'[c].eof # conn[c].eof => cause'
    /\ conn'[c].asked # conn[c].asked =>
        conn[c].asked = Len(conn[c].out) /\ conn'[c].asked = Len(conn[c].out) + 1
    /\ conn'[c].buf # conn[c].buf =>
        /\ conn'[c].asked = Len(conn[c].out) + 1
        /\ conn[c].asked = Len(conn[c].out) \/ conn[c].buf = "half"

\* A client's step.
LEMMA ClientKeeps ==
    ASSUME SInv, ClientStep
    PROVE  ~crossed' /\ Kept'
<1>1. Runs /\ OnlyClient
  BY DEF ClientStep, Dial, Ask, AskRest, HangUp
<1>2. /\ TypeOK /\ ~crossed /\ npc \notin {"end", "restarted"}
      /\ Sockets /\ Listener /\ Matched /\ Distinct /\ Polled /\ InHand
      /\ ~cause => NoneGone /\ Owned
  BY <1>1, Running
<1>3. /\ UNCHANGED <<fd, socketfd, nextSocket, npc, pollset, i, msg, wpc, wfd, zpc, zfd>>
      /\ crossed' = crossed
  BY <1>1 DEF OnlyClient, table, network, others
<1>4. conn \in [Conns -> Peers] /\ fd \in [Numbers -> Kinds]
  BY <1>2, Typed
<1>5. PICK c \in Conns :
        \/ conn' = [conn EXCEPT ![c].st = "waiting"] /\ conn[c].st = "new" /\ cause' = cause
        \/ Ask(c) \/ AskRest(c) \/ HangUp(c)
  <2>1. CASE Dial
    <3>1. /\ conn' = [conn EXCEPT ![CHOOSE c \in New : TRUE].st = "waiting"]
          /\ New # {} /\ cause' = cause
      BY <2>1 DEF Dial
    <3>2. (CHOOSE c \in New : TRUE) \in New
      BY <3>1
    <3>. QED
      BY <3>1, <3>2 DEF New
  <2>. QED
    BY <2>1 DEF ClientStep
<1>6. \A d \in Conns : d # c => conn'[d] = conn[d]
  BY <1>4, <1>5 DEF Ask, AskRest, HangUp
<1>7. ClientMoves(c)
  <2>1. conn[c] \in Peers /\ conn[c].asked \in Nat /\ Len(conn[c].out) \in Nat
    BY <1>2, PeerFields
  <2>2. ASSUME conn' = [conn EXCEPT ![c].st = "waiting"], conn[c].st = "new", cause' = cause
        PROVE  ClientMoves(c)
    BY <1>4, <2>1, <2>2 DEF Peers, ClientMoves
  <2>3. CASE Ask(c)
    BY <1>4, <2>1, <2>3 DEF Ask, Peers, ClientMoves
  <2>4. CASE AskRest(c)
    <3>1. conn[c].asked = Len(conn[c].out) + 1
      BY <1>2, <2>4 DEF AskRest, Matched
    <3>. QED
      BY <1>4, <2>1, <2>4, <3>1 DEF AskRest, Peers, ClientMoves
  <2>5. CASE HangUp(c)
    BY <1>4, <2>1, <2>5 DEF HangUp, Peers, ClientMoves
  <2>. QED
    BY <1>5, <2>2, <2>3, <2>4, <2>5
<1>8. \A d \in Conns : conn[d].st = "accepted" <=> conn'[d].st = "accepted"
  BY <1>6, <1>7 DEF ClientMoves
<1>9. Sockets'
  BY <1>2, <1>3, <1>8 DEF Sockets, IsConn
<1>10. Matched'
  <2>1. \A d \in Conns : Len(conn[d].out) \in Nat /\ conn[d].asked \in Nat
    BY <1>2, PeerFields
  <2>2. \A d \in Conns :
          /\ conn'[d].asked \in {Len(conn[d].out), Len(conn[d].out) + 1}
          /\ conn'[d].buf # "none" => conn'[d].asked = Len(conn[d].out) + 1
    <3>. SUFFICES ASSUME NEW d \in Conns
                  PROVE  /\ conn'[d].asked \in {Len(conn[d].out), Len(conn[d].out) + 1}
                         /\ conn'[d].buf # "none" => conn'[d].asked = Len(conn[d].out) + 1
      OBVIOUS
    <3>1. /\ conn[d].asked \in {Len(conn[d].out), Len(conn[d].out) + 1}
          /\ conn[d].buf # "none" => conn[d].asked = Len(conn[d].out) + 1
      BY <1>2 DEF Matched
    <3>2. CASE d = c
      BY <1>7, <2>1, <3>1, <3>2 DEF ClientMoves
    <3>3. CASE d # c
      BY <1>6, <3>1, <3>3
    <3>. QED
      BY <3>2, <3>3
  <2>3. \A d \in Conns : conn'[d].out = conn[d].out
    BY <1>6, <1>7 DEF ClientMoves
  <2>. QED
    BY <1>2, <2>2, <2>3 DEF Matched
<1>11. \A d \in Conns :
        /\ conn[d].st = "accepted" /\ conn[d].buf = "none"
        /\ conn[d].asked = Len(conn[d].out) + 1
        => /\ conn'[d].buf = "none" /\ conn'[d].asked = conn[d].asked
           /\ conn'[d].out = conn[d].out
  <2>1. Len(conn[c].out) \in Nat
    BY <1>2, PeerFields
  <2>. QED
    BY <1>6, <1>7, <2>1 DEF ClientMoves
<1>12. /\ Listener' /\ Distinct' /\ Polled' /\ InHand' /\ (Removing' <=> Removing)
       /\ npc' \notin {"end", "restarted"}
  <2>1. \A m \in Numbers : fd'[m] = "listening" => m = 1
    BY <1>2, <1>3 DEF Listener
  <2>2. \A m \in Numbers : IsConn(m) \/ fd'[m] \in Conns => fd'[m] = fd[m]
    BY <1>3
  <2>. QED
    BY <1>2, <1>3, <1>11, <2>1, <2>2, LoopKept
<1>13. ~cause' => NoneGone' /\ Owned'
  <2>1. ASSUME ~cause'
        PROVE  \A d \in Conns : ~conn'[d].eof
    BY <1>2, <1>4, <1>6, <1>7, <2>1 DEF ClientMoves, NoneGone
  <2>2. ASSUME ~cause'
        PROVE  NoneGone /\ Owned
    BY <1>2, <1>7, <2>2 DEF ClientMoves
  <2>. QED
    BY <1>3, <1>12, <2>1, <2>2 DEF NoneGone, Owned
<1>. QED
  BY <1>2, <1>3, <1>9, <1>10, <1>12, <1>13 DEF Kept
\* The closed number of another thread leaves the loop's part of the invariant alone.
LEMMA ClosedApart ==
    ASSUME TypeOK, Sockets, Listener, Matched, Distinct, Polled, InHand,
           NEW n \in Numbers, NEW mine, Close(n, mine), mine \intersect Conns = {}, ~crossed',
           UNCHANGED <<pollset, i, msg>>,
           npc' = npc \/ npc' \in {"end", "restarted"} \/ (npc = "body" /\ npc' = "unread")
    PROVE  /\ Sockets' /\ Matched' /\ Listener' /\ Distinct'
           /\ npc' \notin {"end", "restarted"} => Polled' /\ InHand' /\ (Removing' <=> Removing)
<1>1. Sockets' /\ Matched' /\ \A m \in Numbers : fd'[m] = "listening" => m = 1
  BY CloseKeeps
<1>2. /\ \A m \in Numbers : IsConn(m) \/ fd'[m] \in Conns => fd'[m] = fd[m]
      /\ \A c \in Conns : conn[c].st = "accepted" => conn'[c] = conn[c]
  BY CloseApart
<1>3. /\ Listener' /\ Distinct'
      /\ npc' \notin {"end", "restarted"} => Polled' /\ InHand' /\ (Removing' <=> Removing)
  BY <1>1, <1>2, LoopKept
<1>. QED
  BY <1>1, <1>3

\* No close makes a client go.
LEMMA ClosedNoneGone ==
    ASSUME TypeOK, Sockets, Listener, Matched, NEW n \in Numbers, NEW mine, Close(n, mine),
           \A c \in Conns : ~conn[c].eof
    PROVE  \A c \in Conns : ~conn'[c].eof
BY CloseKeeps, UnusedTyped

\* Nothing but the process's place in the loop has changed for it and the connections.
LEMMA LoopApart ==
    ASSUME TypeOK, Sockets, Listener, Matched, Distinct, Polled, InHand,
           UNCHANGED <<pollset, i, msg, conn>>,
           npc' = npc \/ npc' \in {"end", "restarted"} \/ (npc = "body" /\ npc' = "unread"),
           \A m \in Numbers : fd'[m] = "listening" => m = 1,
           \A m \in Numbers : IsConn(m) \/ fd'[m] \in Conns => fd'[m] = fd[m]
    PROVE  /\ Sockets' /\ Matched' /\ Listener' /\ Distinct'
           /\ npc' \notin {"end", "restarted"} => Polled' /\ InHand' /\ (Removing' <=> Removing)
<1>1. Matched'
  BY DEF Matched
<1>2. Sockets'
  <2>1. \A c \in Conns : (\E m \in Numbers : fd'[m] = c) <=> (\E m \in Numbers : fd[m] = c)
    BY DEF IsConn
  <2>2. \A c \in Conns : conn'[c].st = "accepted" <=> c \in {fd'[m] : m \in Numbers}
    BY <2>1 DEF Sockets
  <2>3. \A m, l \in Numbers : fd'[m] \in Conns /\ fd'[m] = fd'[l] => m = l
    BY DEF Sockets, IsConn
  <2>. QED
    BY <2>2, <2>3 DEF Sockets, IsConn
<1>3. /\ Listener' /\ Distinct'
      /\ npc' \notin {"end", "restarted"} => Polled' /\ InHand' /\ (Removing' <=> Removing)
  BY LoopKept
<1>. QED
  BY <1>1, <1>2, <1>3

\* SIGINT.
LEMMA InterruptKeeps ==
    ASSUME SInv, Interrupt
    PROVE  CrossingHasCause' /\ (~crossed' => Kept')
<1>1. Runs
  BY DEF Interrupt
<1>2. /\ TypeOK /\ ~crossed /\ npc \notin {"end", "restarted"}
      /\ Sockets /\ Listener /\ Matched /\ Distinct /\ Polled /\ InHand
      /\ ~cause => NoneGone /\ Owned
  BY <1>1, Running
<1>3. /\ UNCHANGED <<socketfd, nextSocket, pollset, i, msg, wpc, wfd, zpc, zfd>>
      /\ npc' = npc \/ npc' \in {"end", "restarted"} \/ (npc = "body" /\ npc' = "unread")
      /\ cause' = (cause \/ npc # "poll") /\ (npc = "poll" => npc' = "end")
  BY DEF Interrupt, GoTo, others
<1>4. /\ socketfd # Invalid => socketfd \in Numbers /\ Close(socketfd, {"listening"})
      /\ socketfd = Invalid => UNCHANGED <<fd, conn, crossed>>
  BY <1>2, Typed DEF Interrupt
<1>5. ASSUME ~crossed'
      PROVE  /\ Sockets' /\ Matched' /\ Listener' /\ Distinct'
             /\ npc' \notin {"end", "restarted"} =>
                 Polled' /\ InHand' /\ (Removing' <=> Removing)
  <2>1. CASE socketfd # Invalid
    <3>1. {"listening"} \intersect Conns = {}
      OBVIOUS
    <3>. QED
      BY <1>2, <1>3, <1>4, <1>5, <2>1, <3>1, ClosedApart
  <2>2. CASE socketfd = Invalid
    <3>1. UNCHANGED <<pollset, i, msg, conn>> /\ fd' = fd
      BY <1>3, <1>4, <2>2
    <3>2. \A m \in Numbers : fd'[m] = "listening" => m = 1
      BY <1>2, <3>1 DEF Listener
    <3>3. \A m \in Numbers : IsConn(m) \/ fd'[m] \in Conns => fd'[m] = fd[m]
      BY <3>1
    <3>. QED
      BY <1>2, <1>3, <3>1, <3>2, <3>3, LoopApart
  <2>. QED
    BY <2>1, <2>2
<1>6. ASSUME ~cause'
      PROVE  ~crossed' /\ NoneGone' /\ Owned'
  <2>1. NoneGone /\ Owned /\ npc = "poll" /\ npc' = "end" /\ socketfd = 1
    BY <1>2, <1>3, <1>6 DEF NoneGone
  <2>2. fd[1] = "listening" /\ 1 \in Numbers /\ 1 # Invalid
    BY <2>1 DEF NoneGone, Numbers, Invalid
  <2>3. Close(1, {"listening"})
    BY <1>4, <2>1, <2>2
  <2>4. ~crossed'
    BY <1>2, <2>2, <2>3 DEF Close, Use
  <2>5. \A m \in Numbers : m # 1 => fd'[m] = fd[m]
    BY <1>2, <2>2, <2>3, CloseTyped
  <2>6. Owned'
    <3>1. nextSocket \in Numbers /\ zfd \in Numbers
      BY <1>2, Typed
    <3>. QED
      BY <1>3, <2>1, <2>2, <2>5, <3>1 DEF Owned
  <2>7. \A c \in Conns : ~conn'[c].eof
    BY <1>2, <2>1, <2>2, <2>3, ClosedNoneGone DEF NoneGone
  <2>8. NoneGone'
    BY <1>3, <2>1, <2>7 DEF NoneGone, Removing
  <2>. QED
    BY <2>4, <2>6, <2>8
<1>. QED
  BY <1>5, <1>6 DEF Kept, CrossingHasCause

\* The part of Kept that is about the loop.
LoopPart ==
    /\ Sockets /\ Listener /\ Matched /\ Distinct
    /\ npc \notin {"end", "restarted"} => Polled /\ InHand

\* Kept is its part about the loop, and that about what happens before any cause.
LEMMA KeptParts ==
    /\ Kept <=> LoopPart /\ (~cause => NoneGone /\ Owned)
    /\ Kept' <=> LoopPart' /\ (~cause' => NoneGone' /\ Owned')
BY DEF Kept, LoopPart

\* A step of ZooKeeper's thread.
LEMMA WatcherKeeps ==
    ASSUME SInv, WatcherStep
    PROVE  CrossingHasCause' /\ (~crossed' => Kept')
<1>1. Runs /\ OnlyWatcher
  BY DEF WatcherStep, SetNext, OpenSocket, ConnectFails, CloseOld, Assign
<1>2. /\ TypeOK /\ ~crossed /\ npc \notin {"end", "restarted"}
      /\ Sockets /\ Listener /\ Matched /\ Distinct /\ Polled /\ InHand
      /\ ~cause => NoneGone /\ Owned
  BY <1>1, Running
<1>3. UNCHANGED <<socketfd, npc, pollset, i, msg, wpc, wfd>>
  BY <1>1 DEF OnlyWatcher, network
<1>4. nextSocket \in Numbers /\ zfd \in Numbers /\ fd \in [Numbers -> Kinds]
  BY <1>2, Typed
\* A step that closes a number of its own.
<1>5. ASSUME NEW n \in Numbers, NEW mine, Close(n, mine), mine \intersect Conns = {}
      PROVE  /\ ~crossed' => LoopPart' /\ (Removing' <=> Removing)
             /\ \A m \in Numbers : m # n => fd'[m] = fd[m]
             /\ NoneGone => \A c \in Conns : ~conn'[c].eof
             /\ fd[n] \in mine => ~crossed'
  <2>1. ~crossed' => LoopPart' /\ (Removing' <=> Removing)
    BY <1>2, <1>3, <1>5, ClosedApart DEF LoopPart
  <2>2. \A m \in Numbers : m # n => fd'[m] = fd[m]
    BY <1>2, <1>5, CloseTyped
  <2>3. NoneGone => \A c \in Conns : ~conn'[c].eof
    BY <1>2, <1>5, ClosedNoneGone DEF NoneGone
  <2>. QED
    BY <1>2, <1>5, <2>1, <2>2, <2>3 DEF Close, Use
\* A step that leaves the numbers of connections alone.
<1>6. ASSUME UNCHANGED <<conn, crossed>>,
             \A m \in Numbers : fd'[m] = "listening" <=> fd[m] = "listening",
             \A m \in Numbers : IsConn(m) \/ fd'[m] \in Conns => fd'[m] = fd[m]
      PROVE  /\ ~crossed' /\ LoopPart' /\ (Removing' <=> Removing)
             /\ NoneGone => NoneGone'
  <2>1. \A m \in Numbers : fd'[m] = "listening" => m = 1
    BY <1>2, <1>6 DEF Listener
  <2>2. LoopPart' /\ (Removing' <=> Removing)
    BY <1>2, <1>3, <1>6, <2>1, LoopApart DEF LoopPart
  <2>3. 1 \in Numbers
    BY DEF Numbers
  <2>. QED
    BY <1>2, <1>3, <1>6, <2>2, <2>3 DEF NoneGone
\* The rest of NoneGone.
<1>7. ASSUME NoneGone, \A c \in Conns : ~conn'[c].eof, fd'[1] = fd[1], Removing' <=> Removing
      PROVE  NoneGone'
  BY <1>2, <1>3, <1>7 DEF NoneGone
<1>8. CASE SetNext
  <2>1. UNCHANGED <<conn, crossed, cause, fd, zfd, nextSocket>> /\ zpc' \in {"idle", "socket"}
    BY <1>8 DEF SetNext
  <2>2. ~crossed' /\ LoopPart' /\ (NoneGone => NoneGone')
    BY <1>6, <2>1
  <2>3. zpc = "idle" /\ (Owned => Owned')
    BY <1>3, <1>8, <2>1 DEF SetNext, Owned
  <2>. QED
    BY <1>2, <2>1, <2>2, <2>3, KeptParts DEF CrossingHasCause
<1>9. CASE OpenSocket
  <2>1. UNCHANGED <<conn, crossed, cause, nextSocket>> /\ zpc = "socket"
    BY <1>9 DEF OpenSocket
  <2>2. CASE FreeNumbers = {}
    <3>1. zpc' = "idle" /\ UNCHANGED <<fd, zfd>>
      BY <1>9, <2>2 DEF OpenSocket
    <3>2. ~crossed' /\ LoopPart' /\ (NoneGone => NoneGone')
      BY <1>6, <2>1, <3>1
    <3>3. Owned => Owned'
      BY <1>3, <2>1, <3>1 DEF Owned
    <3>. QED
      BY <1>2, <2>1, <3>2, <3>3, KeptParts DEF CrossingHasCause
  <2>3. CASE FreeNumbers # {}
    <3>1. /\ fd' = [fd EXCEPT ![Lowest] = "next"] /\ zfd' = Lowest /\ zpc' = "connect"
          /\ Lowest \in Numbers /\ fd[Lowest] = "free"
      BY <1>9, <2>3, LowestIsFree DEF OpenSocket
    <3>2. ~crossed' /\ LoopPart' /\ (NoneGone => NoneGone')
      <4>1. \A m \in Numbers : fd'[m] = IF m = Lowest THEN "next" ELSE fd[m]
        BY <1>4, <3>1
      <4>2. \A m \in Numbers : fd'[m] = "listening" <=> fd[m] = "listening"
        BY <3>1, <4>1
      <4>3. \A m \in Numbers : IsConn(m) \/ fd'[m] \in Conns => fd'[m] = fd[m]
        BY <3>1, <4>1 DEF IsConn
      <4>. QED
        BY <1>6, <2>1, <4>2, <4>3
    <3>3. Owned => Owned'
      BY <1>3, <1>4, <2>1, <3>1 DEF Owned
    <3>. QED
      BY <1>2, <2>1, <3>2, <3>3, KeptParts DEF CrossingHasCause
  <2>. QED
    BY <2>2, <2>3
<1>10. CASE ConnectFails
  <2>1. /\ Close(zfd, {"next"}) /\ UNCHANGED <<nextSocket, cause>>
        /\ zpc = "connect" /\ zpc' = "idle"
    BY <1>10 DEF ConnectFails, Return
  <2>2. /\ ~crossed' => LoopPart' /\ (Removing' <=> Removing)
        /\ \A m \in Numbers : m # zfd => fd'[m] = fd[m]
        /\ NoneGone => \A c \in Conns : ~conn'[c].eof
        /\ fd[zfd] \in {"next"} => ~crossed'
    BY <1>4, <1>5, <2>1
  <2>3. ASSUME ~cause'
        PROVE  ~crossed' /\ NoneGone' /\ Owned'
    <3>1. NoneGone /\ Owned
      BY <1>2, <2>1, <2>3
    <3>2. fd[zfd] = "next" /\ zfd # nextSocket /\ fd[1] = "listening" /\ 1 \in Numbers
      BY <1>2, <2>1, <3>1 DEF Owned, NoneGone, Numbers
    <3>. QED
      BY <1>3, <1>4, <1>7, <2>1, <2>2, <3>1, <3>2 DEF Owned
  <2>. QED
    BY <2>2, <2>3, KeptParts DEF CrossingHasCause
<1>11. CASE CloseOld
  <2>1. /\ Close(nextSocket, {"next", "terminal"}) /\ UNCHANGED <<nextSocket, zfd>>
        /\ zpc = "connect" /\ zpc' = "assign" /\ cause' = (cause \/ wpc # "idle")
    BY <1>11 DEF CloseOld
  <2>2. /\ ~crossed' => LoopPart' /\ (Removing' <=> Removing)
        /\ \A m \in Numbers : m # nextSocket => fd'[m] = fd[m]
        /\ NoneGone => \A c \in Conns : ~conn'[c].eof
        /\ fd[nextSocket] \in {"next", "terminal"} => ~crossed'
    BY <1>4, <1>5, <2>1
  <2>3. ASSUME ~cause'
        PROVE  ~crossed' /\ NoneGone' /\ Owned'
    <3>1. NoneGone /\ Owned /\ wpc = "idle"
      BY <1>2, <2>1, <2>3
    <3>2. /\ fd[nextSocket] \in {"next", "terminal"} /\ zfd # nextSocket /\ fd[zfd] = "next"
          /\ fd[1] = "listening" /\ 1 \in Numbers
      BY <1>2, <2>1, <3>1 DEF Owned, NoneGone, Numbers
    <3>. QED
      BY <1>3, <1>4, <1>7, <2>1, <2>2, <3>1, <3>2 DEF Owned
  <2>. QED
    BY <2>2, <2>3, KeptParts DEF CrossingHasCause
<1>12. CASE Assign
  <2>1. /\ UNCHANGED <<conn, crossed, cause, fd>> /\ nextSocket' = zfd
        /\ zpc = "assign" /\ zpc' = "idle"
    BY <1>12 DEF Assign
  <2>2. ~crossed' /\ LoopPart' /\ (NoneGone => NoneGone')
    BY <1>6, <2>1
  <2>3. Owned => Owned'
    BY <1>3, <2>1 DEF Owned
  <2>. QED
    BY <1>2, <2>1, <2>2, <2>3, KeptParts DEF CrossingHasCause
<1>. QED
  BY <1>8, <1>9, <1>10, <1>11, <1>12 DEF WatcherStep

\* A step of the worker.
LEMMA WorkerKeeps ==
    ASSUME SInv, WorkerStep
    PROVE  CrossingHasCause' /\ (~crossed' => Kept')
<1>1. Runs /\ Elsewhere
  BY DEF WorkerStep, Pick, Write, WriteFails, Read, ReadFails, CloseNext, OnlyWorker
<1>2. /\ TypeOK /\ ~crossed /\ npc \notin {"end", "restarted"}
      /\ Sockets /\ Listener /\ Matched /\ Distinct /\ Polled /\ InHand
      /\ ~cause => NoneGone /\ Owned
  BY <1>1, Running
<1>3. UNCHANGED <<nextSocket, pollset, i, msg, zpc, zfd>>
  BY <1>1 DEF Elsewhere
<1>4. nextSocket \in Numbers /\ wfd \in Numbers /\ fd \in [Numbers -> Kinds]
  BY <1>2, Typed
\* A step that closes no number.
<1>5. ASSUME UNCHANGED <<fd, conn>>, npc' = npc \/ npc' = "restarted"
      PROVE  /\ LoopPart'
             /\ UNCHANGED <<npc, socketfd>> => (NoneGone => NoneGone')
  <2>1. /\ \A m \in Numbers : fd'[m] = "listening" => m = 1
        /\ \A m \in Numbers : IsConn(m) \/ fd'[m] \in Conns => fd'[m] = fd[m]
    BY <1>2, <1>5 DEF Listener
  <2>2. /\ Sockets' /\ Matched' /\ Listener' /\ Distinct'
        /\ npc' \notin {"end", "restarted"} => Polled' /\ InHand' /\ (Removing' <=> Removing)
    BY <1>2, <1>3, <1>5, <2>1, LoopApart
  <2>. QED
    BY <1>2, <1>3, <1>5, <2>2 DEF LoopPart, NoneGone
<1>6. CASE Pick
  <2>1. /\ UNCHANGED <<fd, conn, crossed, socketfd, npc>> /\ wpc' = "write"
        /\ wfd' = nextSocket /\ cause' = (cause \/ zpc = "assign")
    BY <1>6 DEF Pick, OnlyWorker
  <2>2. ~cause' => NoneGone' /\ Owned'
    BY <1>2, <1>3, <1>5, <2>1 DEF Owned
  <2>. QED
    BY <1>2, <1>5, <2>1, <2>2, KeptParts DEF CrossingHasCause
<1>7. CASE Write
  <2>1. /\ UNCHANGED <<fd, conn, cause, wfd, socketfd, npc>> /\ wpc = "write" /\ wpc' = "read"
        /\ Use(wfd, {"next", "terminal"})
    BY <1>7 DEF Write, OnlyWorker
  <2>2. ASSUME ~cause
        PROVE  ~crossed' /\ NoneGone' /\ Owned'
    <3>1. Owned /\ NoneGone
      BY <1>2, <2>2
    <3>2. ~crossed'
      BY <1>2, <2>1, <3>1 DEF Owned, Use
    <3>. QED
      BY <1>3, <1>5, <2>1, <3>1, <3>2 DEF Owned
  <2>. QED
    BY <1>5, <2>1, <2>2, KeptParts DEF CrossingHasCause
<1>8. CASE WriteFails
  <2>1. UNCHANGED <<fd, conn>> /\ cause' = TRUE /\ (npc' = npc \/ npc' = "restarted")
    BY <1>2, <1>8, WriteErrorTyped DEF WriteFails
  <2>. QED
    BY <1>5, <2>1, KeptParts DEF CrossingHasCause
<1>9. CASE Read
  <2>1. /\ UNCHANGED <<fd, conn, cause, socketfd, npc>> /\ wpc = "read" /\ wpc' = "idle"
        /\ crossed' \in {crossed, crossed \/ (IsConn(wfd) /\ conn[fd[wfd]].buf # "none")}
    BY <1>9 DEF Read, OnlyWorker
  <2>2. ASSUME ~cause
        PROVE  ~crossed' /\ NoneGone' /\ Owned'
    <3>1. Owned /\ NoneGone
      BY <1>2, <2>2
    <3>2. ~IsConn(wfd)
      BY <2>1, <3>1 DEF Owned, IsConn
    <3>3. crossed' = crossed \/ crossed' = (crossed \/ FALSE)
      BY <2>1, <3>2
    <3>4. ~crossed'
      BY <1>2, <3>3
    <3>. QED
      BY <1>3, <1>5, <2>1, <3>1, <3>4 DEF Owned
  <2>. QED
    BY <1>5, <2>1, <2>2, KeptParts DEF CrossingHasCause
<1>10. CASE ReadFails
  <2>1. UNCHANGED <<fd, conn, npc>> /\ cause' = TRUE
    BY <1>10 DEF ReadFails, OnlyWorker
  <2>. QED
    BY <1>5, <2>1, KeptParts DEF CrossingHasCause
<1>11. CASE CloseNext
  <2>1. /\ Close(wfd, {"next", "terminal"}) /\ UNCHANGED <<cause, npc>>
        /\ wpc \in {"close", "close and read"}
    BY <1>11 DEF CloseNext, OnlyWorker
  <2>2. {"next", "terminal"} \intersect Conns = {}
    OBVIOUS
  <2>3. ~crossed' => LoopPart'
    BY <1>2, <1>3, <1>4, <2>1, <2>2, ClosedApart DEF LoopPart
  <2>4. cause
    BY <1>2, <2>1 DEF Owned
  <2>. QED
    BY <2>1, <2>3, <2>4, KeptParts DEF CrossingHasCause
<1>. QED
  BY <1>6, <1>7, <1>8, <1>9, <1>10, <1>11 DEF WorkerStep

\* Scan of a set whose numbers are those of the connections.
LEMMA ScanKept ==
    ASSUME NEW set \in Seq(Entries), set # <<>>, set[1].n = 1, NEW k \in Nat, k >= 2,
           Scan(k, set),
           \A j, m \in DOMAIN set : set[j].n = set[m].n => j = m,
           \A j \in 2 .. Len(set) : "invalid" \notin set[j].revents,
           \A j \in 2 .. Len(set) : fd'[set[j].n] \in Conns,
           \A n \in Numbers : fd'[n] \in Conns => \E j \in 2 .. Len(set) : set[j].n = n,
           \A n \in Numbers : fd'[n] = "listening" => n = 1,
           msg'.from \notin Conns
    PROVE  /\ Listener' /\ Distinct' /\ Polled' /\ InHand' /\ ~Removing'
           /\ npc' \in {"poll", "scan"}
<1>1. /\ npc' \in {"poll", "scan"} /\ pollset' \in Seq(Entries) /\ Len(pollset') = Len(set)
      /\ \A j \in DOMAIN set : /\ pollset'[j].n = set[j].n
                               /\ pollset'[j].revents \in {set[j].revents, {}}
  BY ScanGoesOn
<1>. QED
  BY <1>1, SetKept

\* The set, by its numbers.
LEMMA SetNumbers ==
    ASSUME TypeOK, Listener
    PROVE  /\ pollset \in Seq(Entries) /\ Len(pollset) \in Nat /\ Len(pollset) >= 1
           /\ DOMAIN pollset = 1 .. Len(pollset) /\ 2 .. Len(pollset) \subseteq DOMAIN pollset
           /\ \A j \in DOMAIN pollset : pollset[j].n \in Numbers
<1>1. pollset \in Seq(Entries) /\ pollset # <<>>
  BY Typed DEF Listener
<1>2. /\ Len(pollset) \in Nat /\ Len(pollset) >= 1
      /\ DOMAIN pollset = 1 .. Len(pollset) /\ 2 .. Len(pollset) \subseteq DOMAIN pollset
  BY <1>1, EmptySeq
<1>. QED
  BY <1>1, <1>2, EntryFields

\* The loop polls.
LEMMA PollKeeps ==
    ASSUME SInv, Runs, Poll
    PROVE  ~crossed' /\ Kept'
<1>1. /\ TypeOK /\ ~crossed /\ npc \notin {"end", "restarted"}
      /\ Sockets /\ Listener /\ Matched /\ Distinct /\ Polled /\ InHand
      /\ ~cause => NoneGone /\ Owned
  BY Running
<1>2. /\ npc = "poll" /\ UNCHANGED <<fd, socketfd, msg, conn, crossed>>
      /\ UNCHANGED <<nextSocket, wpc, wfd, zpc, zfd, cause>>
  BY DEF Poll, OnlyNetwork, others
<1>3. /\ pollset \in Seq(Entries) /\ Len(pollset) \in Nat /\ Len(pollset) >= 1
      /\ DOMAIN pollset = 1 .. Len(pollset) /\ 2 .. Len(pollset) \subseteq DOMAIN pollset
      /\ \A j \in DOMAIN pollset : pollset[j].n \in Numbers
  BY <1>1, SetNumbers
<1>. DEFINE set == [j \in 1 .. Len(pollset) |->
                      [n |-> pollset[j].n, revents |-> Events(pollset[j].n)]]
<1>4. \/ npc' = "accept" /\ pollset' = set
      \/ Scan(2, set)
  BY <1>3 DEF Poll
<1>5. set \in Seq(Entries) /\ Len(set) = Len(pollset)
  <2>1. \A j \in 1 .. Len(pollset) : Events(pollset[j].n) \in SUBSET {"in", "invalid"}
    BY <1>1, <1>3, EventsTyped
  <2>2. \A j \in 1 .. Len(pollset) :
          [n |-> pollset[j].n, revents |-> Events(pollset[j].n)] \in Entries
    BY <1>3, <2>1 DEF Entries
  <2>3. set \in Seq(Entries)
    BY <1>3, <2>2, IsASeq
  <2>. QED
    BY <1>3, <2>3
<1>6. \A j \in DOMAIN pollset : set[j].n = pollset[j].n
  BY <1>3
<1>7. DOMAIN set = DOMAIN pollset
  BY <1>3
<1>8. \A j \in 2 .. Len(set) : "invalid" \notin set[j].revents
  <2>1. ~Removing
    BY <1>2 DEF Removing
  <2>2. \A j \in 2 .. Len(pollset) : IsConn(pollset[j].n)
    BY <1>1, <2>1 DEF Polled
  <2>3. \A j \in 2 .. Len(pollset) : "invalid" \notin Events(pollset[j].n)
    BY <1>1, <1>3, <2>2, EventsTyped
  <2>. QED
    BY <1>3, <1>5, <2>3
<1>. HIDE DEF set
<1>9. /\ set # <<>> /\ set[1].n = 1
      /\ \A j, m \in DOMAIN set : set[j].n = set[m].n => j = m
  BY <1>1, <1>3, <1>5, <1>6, <1>7 DEF Listener, Distinct
<1>10. /\ \A j \in 2 .. Len(set) : fd'[set[j].n] \in Conns
       /\ \A n \in Numbers : fd'[n] \in Conns => \E j \in 2 .. Len(set) : set[j].n = n
  <2>1. ~Removing
    BY <1>2 DEF Removing
  <2>2. /\ \A j \in 2 .. Len(pollset) : fd[pollset[j].n] \in Conns
        /\ \A n \in Numbers : fd[n] \in Conns =>
             \E j \in 2 .. Len(pollset) : pollset[j].n = n
    BY <1>1, <2>1 DEF Polled, IsConn
  <2>. QED
    BY <1>2, <1>3, <1>5, <1>6, <2>2
<1>11. /\ \A n \in Numbers : fd'[n] = "listening" => n = 1
       /\ msg'.from \notin Conns
  BY <1>1, <1>2 DEF Listener, InHand
<1>12. /\ Listener' /\ Distinct' /\ Polled' /\ InHand' /\ ~Removing'
       /\ npc' \in {"poll", "scan", "accept"}
  <2>1. CASE npc' = "accept" /\ pollset' = set
    BY <1>5, <1>8, <1>9, <1>10, <1>11, <2>1, SetKept
  <2>2. CASE Scan(2, set)
    BY <1>5, <1>8, <1>9, <1>10, <1>11, <2>2, ScanKept
  <2>. QED
    BY <1>4, <2>1, <2>2
<1>13. Sockets' /\ Matched'
  BY <1>1, <1>2 DEF Sockets, IsConn, Matched
<1>14. ~cause' => NoneGone' /\ Owned'
  BY <1>1, <1>2, <1>12 DEF NoneGone, Owned
<1>. QED
  BY <1>1, <1>2, <1>12, <1>13, <1>14 DEF Kept

\* A step of the loop that keeps the set, the descriptors and the connections.
LEMMA LoopOnly ==
    ASSUME SInv, Runs, UNCHANGED <<fd, conn, socketfd, pollset, i>>, OnlyNetwork,
           npc \in {"accept", "scan", "body"}, npc' \in {"end", "body", "unread"},
           npc' = "unread" => cause,
           npc' = "end" \/ msg'.from \notin Conns
    PROVE  Kept'
<1>1. /\ TypeOK /\ ~crossed /\ npc \notin {"end", "restarted"}
      /\ Sockets /\ Listener /\ Matched /\ Distinct /\ Polled /\ InHand
      /\ ~cause => NoneGone /\ Owned
  BY Running
<1>2. Sockets' /\ Listener' /\ Matched' /\ Distinct'
  BY <1>1 DEF Sockets, IsConn, Listener, Matched, Distinct
<1>3. ~Removing' /\ ~Removing
  BY DEF Removing
<1>4. Polled'
  BY <1>1, <1>3 DEF Polled, IsConn
<1>5. npc' # "end" => InHand'
  BY DEF InHand
<1>6. ~cause' => NoneGone' /\ Owned'
  BY <1>1, <1>3 DEF OnlyNetwork, others, NoneGone, Owned
<1>. QED
  BY <1>2, <1>4, <1>5, <1>6 DEF Kept

\* A step that answers nothing and asks nothing keeps the answers matched.
LEMMA MatchedKept ==
    ASSUME Matched,
           \A c \in Conns : /\ conn'[c].out = conn[c].out /\ conn'[c].asked = conn[c].asked
                           /\ conn'[c].buf \in {conn[c].buf, "none"}
    PROVE  Matched'
<1>. SUFFICES ASSUME NEW c \in Conns
              PROVE  /\ conn'[c].out =
                          [k \in 1 .. Len(conn'[c].out) |-> [from |-> c, k |-> k]]
                     /\ conn'[c].asked \in {Len(conn'[c].out), Len(conn'[c].out) + 1}
                     /\ conn'[c].buf # "none" => conn'[c].asked = Len(conn'[c].out) + 1
  BY DEF Matched
<1>1. /\ conn[c].out = [k \in 1 .. Len(conn[c].out) |-> [from |-> c, k |-> k]]
      /\ conn[c].asked \in {Len(conn[c].out), Len(conn[c].out) + 1}
      /\ conn[c].buf # "none" => conn[c].asked = Len(conn[c].out) + 1
  BY DEF Matched
<1>2. conn'[c].out = conn[c].out /\ conn'[c].asked = conn[c].asked
  OBVIOUS
<1>3. conn'[c].buf \in {conn[c].buf, "none"}
  OBVIOUS
<1>. QED
  BY <1>1, <1>2, <1>3

\* The loop accepts a connection.
LEMMA AcceptKeeps ==
    ASSUME SInv, Runs, Accept
    PROVE  ~crossed' /\ Kept'
<1>1. /\ TypeOK /\ ~crossed /\ npc \notin {"end", "restarted"}
      /\ Sockets /\ Listener /\ Matched /\ Distinct /\ Polled /\ InHand
      /\ ~cause => NoneGone /\ Owned
  BY Running
<1>2. /\ npc = "accept" /\ UNCHANGED <<socketfd, msg, crossed>>
      /\ UNCHANGED <<nextSocket, wpc, wfd, zpc, zfd, cause>>
      /\ fd[pollset[1].n] = "listening" /\ FreeNumbers # {}
  BY DEF Accept, OnlyNetwork, others
<1>3. /\ pollset \in Seq(Entries) /\ Len(pollset) \in Nat /\ Len(pollset) >= 1
      /\ DOMAIN pollset = 1 .. Len(pollset) /\ 2 .. Len(pollset) \subseteq DOMAIN pollset
      /\ \A j \in DOMAIN pollset : pollset[j].n \in Numbers
  BY <1>1, SetNumbers
<1>4. PICK c \in Conns : /\ conn[c].st = "waiting" /\ fd' = [fd EXCEPT ![Lowest] = c]
                         /\ conn' = [conn EXCEPT ![c].st = "accepted"]
  BY DEF Accept, Waiting
<1>5. PICK low \in Numbers : low = Lowest /\ fd[low] = "free"
  BY <1>2, LowestIsFree
<1>6. /\ \A m \in Numbers : fd'[m] = IF m = low THEN c ELSE fd[m]
      /\ \A m \in Numbers : fd[m] # c
  BY <1>1, <1>4, <1>5, Typed DEF Sockets
<1>7. /\ \A d \in Conns : d # c => conn'[d] = conn[d]
      /\ conn'[c].st = "accepted" /\ conn'[c].eof = conn[c].eof /\ conn'[c].buf = conn[c].buf
      /\ conn'[c].asked = conn[c].asked /\ conn'[c].out = conn[c].out
  BY <1>1, <1>4, Typed DEF Peers
<1>8. PICK entry \in Entries : entry = Entry(low) /\ entry.n = low /\ entry.revents = {}
  BY EntryTyped
<1>9. PICK longer \in Seq(Entries) :
        /\ Scan(2, longer) /\ Len(longer) = Len(pollset) + 1
        /\ \A j \in 1 .. Len(pollset) : longer[j] = pollset[j]
        /\ longer[Len(pollset) + 1] = entry
  <2>1. Scan(2, Append(pollset, entry))
    BY <1>5, <1>8 DEF Accept
  <2>2. /\ Append(pollset, entry) \in Seq(Entries)
        /\ Len(Append(pollset, entry)) = Len(pollset) + 1
        /\ \A j \in 1 .. Len(pollset) : Append(pollset, entry)[j] = pollset[j]
        /\ Append(pollset, entry)[Len(pollset) + 1] = entry
    BY <1>3, AppendProperties
  <2>. QED
    BY <2>1, <2>2
<1>10. ~Removing
  BY <1>2 DEF Removing
<1>11. /\ \A j \in 2 .. Len(pollset) : fd[pollset[j].n] \in Conns
       /\ \A n \in Numbers : fd[n] \in Conns => \E j \in 2 .. Len(pollset) : pollset[j].n = n
  BY <1>1, <1>10 DEF Polled, IsConn
<1>12. \A j \in 1 .. Len(pollset) : pollset[j].n # low
  <2>1. fd[pollset[1].n] # "free"
    BY <1>2
  <2>2. \A j \in 2 .. Len(pollset) : fd[pollset[j].n] # "free"
    BY <1>11
  <2>. QED
    BY <1>3, <1>5, <2>1, <2>2
<1>13. \A j \in DOMAIN longer : j \in 1 .. Len(pollset) \/ j = Len(pollset) + 1
  BY <1>3, <1>9
<1>14. /\ longer # <<>> /\ longer[1].n = 1
       /\ \A j, m \in DOMAIN longer : longer[j].n = longer[m].n => j = m
  <2>1. longer # <<>> /\ longer[1].n = 1
    BY <1>1, <1>3, <1>9 DEF Listener
  <2>. QED
    BY <1>1, <1>3, <1>8, <1>9, <1>12, <1>13, <2>1 DEF Distinct
<1>15. \A j \in 2 .. Len(longer) : "invalid" \notin longer[j].revents
  <2>1. \A j \in 2 .. Len(pollset) : "invalid" \notin longer[j].revents
    BY <1>1, <1>3, <1>9 DEF Distinct
  <2>2. "invalid" \notin longer[Len(pollset) + 1].revents
    BY <1>8, <1>9
  <2>. QED
    BY <1>3, <1>9, <2>1, <2>2
<1>16. \A j \in 2 .. Len(longer) : fd'[longer[j].n] \in Conns
  <2>1. \A j \in 2 .. Len(pollset) : fd'[longer[j].n] \in Conns
    BY <1>3, <1>6, <1>9, <1>11
  <2>2. fd'[longer[Len(pollset) + 1].n] \in Conns
    BY <1>6, <1>8, <1>9
  <2>. QED
    BY <1>3, <1>9, <2>1, <2>2
<1>17. \A n \in Numbers : fd'[n] \in Conns => \E j \in 2 .. Len(longer) : longer[j].n = n
  <2>. SUFFICES ASSUME NEW n \in Numbers, fd'[n] \in Conns
                PROVE  \E j \in 2 .. Len(longer) : longer[j].n = n
    OBVIOUS
  <2>1. CASE n = low
    <3>1. Len(pollset) + 1 \in 2 .. Len(longer)
      BY <1>3, <1>9
    <3>. QED
      BY <1>8, <1>9, <2>1, <3>1
  <2>2. CASE n # low
    <3>1. PICK j \in 2 .. Len(pollset) : pollset[j].n = n
      BY <1>6, <1>11, <2>2
    <3>. QED
      BY <1>3, <1>9, <3>1
  <2>. QED
    BY <2>1, <2>2
<1>18. /\ \A n \in Numbers : fd'[n] = "listening" => n = 1
       /\ msg'.from \notin Conns
  BY <1>1, <1>2, <1>6 DEF Listener, InHand
<1>19. /\ Listener' /\ Distinct' /\ Polled' /\ InHand' /\ ~Removing'
       /\ npc' \in {"poll", "scan"}
  <2>1. Scan(2, longer) /\ 2 \in Nat /\ 2 >= 2
    BY <1>9
  <2>. QED
    BY <1>14, <1>15, <1>16, <1>17, <1>18, <2>1, ScanKept, SMTT(30)
<1>20. Sockets'
  <2>1. \A m, l \in Numbers : fd'[m] \in Conns /\ fd'[m] = fd'[l] => m = l
    BY <1>1, <1>6 DEF Sockets, IsConn
  <2>2. \A d \in Conns : conn'[d].st = "accepted" <=> \E m \in Numbers : fd'[m] = d
    <3>1. \A d \in Conns : conn[d].st = "accepted" <=> \E m \in Numbers : fd[m] = d
      BY <1>1 DEF Sockets
    <3>2. \A d \in Conns \ {c} :
            (\E m \in Numbers : fd'[m] = d) <=> (\E m \in Numbers : fd[m] = d)
      BY <1>5, <1>6
    <3>. QED
      BY <1>6, <1>7, <3>1, <3>2
  <2>3. \A d \in Conns : conn'[d].st = "accepted" <=> d \in {fd'[m] : m \in Numbers}
    BY <2>2
  <2>. QED
    BY <2>1, <2>3 DEF Sockets, IsConn
<1>21. Matched'
  <2>1. \A d \in Conns : /\ conn'[d].out = conn[d].out /\ conn'[d].asked = conn[d].asked
                         /\ conn'[d].buf \in {conn[d].buf, "none"}
    BY <1>7
  <2>. QED
    BY <1>1, <2>1, MatchedKept
<1>22. ASSUME ~cause'
       PROVE  NoneGone' /\ Owned'
  <2>1. NoneGone /\ Owned
    BY <1>1, <1>2, <1>22
  <2>2. nextSocket \in Numbers /\ zfd \in Numbers /\ 1 \in Numbers
    <3>1. 1 \in Numbers
      BY DEF Numbers
    <3>. QED
      BY <1>1, <3>1, Typed
  <2>3. NoneGone'
    BY <1>2, <1>5, <1>6, <1>7, <1>19, <2>1, <2>2 DEF NoneGone
  <2>4. Owned'
    BY <1>2, <1>5, <1>6, <2>1, <2>2 DEF Owned
  <2>. QED
    BY <2>3, <2>4
<1>. QED
  BY <1>1, <1>2, <1>19, <1>20, <1>21, <1>22 DEF Kept

\* A request is read and executed.
LEMMA ReadBodyKeeps ==
    ASSUME SInv, Runs, ReadBody
    PROVE  ~crossed' /\ Kept'
<1>1. /\ TypeOK /\ ~crossed /\ npc \notin {"end", "restarted"}
      /\ Sockets /\ Listener /\ Matched /\ Distinct /\ Polled /\ InHand
      /\ ~cause => NoneGone /\ Owned
  BY Running
<1>2. /\ npc = "body" /\ npc' = "send"
      /\ UNCHANGED <<fd, socketfd, crossed, pollset, i>>
      /\ UNCHANGED <<nextSocket, wpc, wfd, zpc, zfd, cause>>
  BY DEF ReadBody, GoTo, OnlyNetwork, others
<1>3. PICK c \in Conns : /\ c = fd[Current] /\ conn[c].buf = "whole"
                         /\ conn' = [conn EXCEPT ![c].buf = "none"]
                         /\ msg' = [from |-> c, k |-> conn[c].asked]
  BY DEF ReadBody, IsConn, Peer
<1>4. /\ conn'[c].buf = "none" /\ conn'[c].st = conn[c].st /\ conn'[c].eof = conn[c].eof
      /\ conn'[c].asked = conn[c].asked /\ conn'[c].out = conn[c].out
      /\ \A d \in Conns : d # c => conn'[d] = conn[d]
  <2>1. conn[c] \in Peers /\ conn \in [Conns -> Peers]
    BY <1>1, Typed
  <2>2. conn'[c] = [conn[c] EXCEPT !.buf = "none"]
    BY <1>3, <2>1
  <2>3. \A d \in Conns : d # c => conn'[d] = conn[d]
    BY <1>3, <2>1
  <2>. QED
    BY <2>1, <2>2, <2>3 DEF Peers
<1>5. conn[c].asked = Len(conn[c].out) + 1
  BY <1>1, <1>3 DEF Matched
<1>6. Listener' /\ Distinct'
  BY <1>1, <1>2 DEF Listener, Distinct
<1>7. ~Removing' /\ ~Removing
  BY <1>2, <1>3 DEF Removing
<1>8. Polled'
  BY <1>1, <1>2, <1>7 DEF Polled, IsConn
<1>9. InHand'
  <2>1. Current' = Current
    BY <1>2 DEF Current
  <2>. QED
    BY <1>2, <1>3, <1>4, <1>5, <2>1 DEF InHand, Peer
<1>10. Sockets'
  <2>1. \A d \in Conns : conn'[d].st = conn[d].st
    BY <1>4
  <2>. QED
    BY <1>1, <1>2, <2>1 DEF Sockets, IsConn
<1>11. Matched'
  <2>1. \A d \in Conns : /\ conn'[d].out = conn[d].out /\ conn'[d].asked = conn[d].asked
                         /\ conn'[d].buf \in {conn[d].buf, "none"}
    BY <1>4
  <2>. QED
    BY <1>1, <2>1, MatchedKept
<1>12. ~cause' => NoneGone' /\ Owned'
  <2>1. \A d \in Conns : conn'[d].eof = conn[d].eof
    BY <1>4
  <2>. QED
    BY <1>1, <1>2, <1>7, <2>1 DEF NoneGone, Owned
<1>. QED
  BY <1>1, <1>2, <1>6, <1>8, <1>9, <1>10, <1>11, <1>12 DEF Kept

\* The number at i is not the first of the set.
LEMMA CurrentNotFirst ==
    ASSUME TypeOK, Listener, Distinct, npc \in Within
    PROVE  /\ Current # 1 /\ i \in 2 .. Len(pollset)
           /\ \A j \in DOMAIN pollset : pollset[j].n = Current => j = i
<1>1. i \in 2 .. Len(pollset) /\ i \in DOMAIN pollset
  BY CurrentTyped, Typed
<1>2. 1 \in DOMAIN pollset /\ i # 1
  BY <1>1, SetNumbers
<1>. QED
  BY <1>1, <1>2 DEF Listener, Distinct, Current

\* Entries other than that at i are connections', and each connection has one.
OthersPolled ==
    /\ \A j \in 2 .. Len(pollset) : j # i => IsConn(pollset[j].n)
    /\ \A n \in Numbers : IsConn(n) => \E j \in 2 .. Len(pollset) : pollset[j].n = n

\* The loop closes the number at i.
LEMMA CurrentClosed ==
    ASSUME TypeOK, Sockets, Listener, Matched, Distinct, OthersPolled, npc \in Within,
           Close(Current, Conns), UNCHANGED <<pollset, i>>, msg'.from \notin Conns,
           npc' \notin {"end", "restarted"} => Removing'
    PROVE  LoopPart'
<1>1. /\ Sockets' /\ Matched' /\ \A m \in Numbers : fd'[m] = "listening" => m = 1
  BY CurrentTyped, CloseKeeps
<1>2. \A m \in Numbers : fd'[m] = IF m = Current THEN "free" ELSE fd[m]
  BY CurrentTyped, CloseTyped
<1>3. Listener' /\ Distinct'
  BY <1>1 DEF Listener, Distinct
<1>4. ASSUME npc' \notin {"end", "restarted"}
      PROVE  Polled' /\ InHand'
  <2>1. Removing'
    BY <1>4
  <2>2. /\ 2 .. Len(pollset) \subseteq DOMAIN pollset
        /\ \A j \in DOMAIN pollset : pollset[j].n \in Numbers
    BY SetNumbers
  <2>3. i \in 2 .. Len(pollset) /\ \A j \in DOMAIN pollset : pollset[j].n = Current => j = i
    BY CurrentNotFirst
  <2>4. \A j \in 2 .. Len(pollset) :
          IF j = i THEN fd'[pollset[j].n] \notin Conns ELSE fd'[pollset[j].n] \in Conns
    <3>1. fd'[pollset[i].n] = "free"
      BY <1>2, <2>2, <2>3 DEF Current
    <3>2. \A j \in 2 .. Len(pollset) : j # i => fd'[pollset[j].n] = fd[pollset[j].n]
      BY <1>2, <2>2, <2>3
    <3>. QED
      BY <3>1, <3>2 DEF OthersPolled, IsConn
  <2>5. \A n \in Numbers : fd'[n] \in Conns => \E j \in 2 .. Len(pollset) : pollset[j].n = n
    BY <1>2 DEF OthersPolled, IsConn
  <2>6. Polled'
    BY <2>1, <2>4, <2>5 DEF Polled, IsConn
  <2>7. InHand'
    BY DEF InHand
  <2>. QED
    BY <2>6, <2>7
<1>. QED
  BY <1>1, <1>3, <1>4 DEF LoopPart

\* While the loop serves an entry, the others are connections'.
LEMMA OthersArePolled ==
    ASSUME Polled
    PROVE  OthersPolled
BY DEF Polled, OthersPolled

\* read_all has failed and closes the number.
LEMMA CloseUnreadKeeps ==
    ASSUME SInv, Runs, CloseUnread
    PROVE  CrossingHasCause' /\ Kept'
<1>1. /\ TypeOK /\ ~crossed /\ npc \notin {"end", "restarted"}
      /\ Sockets /\ Listener /\ Matched /\ Distinct /\ Polled /\ InHand
      /\ ~cause => NoneGone /\ Owned
  BY Running
<1>2. /\ npc = "unread" /\ npc' = (IF msg = NoMsg THEN "drop" ELSE "send")
      /\ Close(Current, Conns) /\ UNCHANGED <<pollset, i, msg, cause>>
  BY DEF CloseUnread, GoTo, OnlyNetwork
<1>3. npc \in Within /\ cause
  BY <1>1, <1>2 DEF Within, NoneGone
<1>4. msg'.from \notin Conns
  BY <1>1, <1>2 DEF InHand
<1>5. Removing'
  BY <1>2, <1>4 DEF Removing
<1>6. LoopPart'
  BY <1>1, <1>2, <1>3, <1>4, <1>5, OthersArePolled, CurrentClosed
<1>. QED
  BY <1>2, <1>3, <1>6, KeptParts DEF CrossingHasCause

\* The answer cannot be sent.
LEMMA SendFailsKeeps ==
    ASSUME SInv, Runs, SendFails
    PROVE  CrossingHasCause' /\ (~crossed' => Kept')
<1>1. /\ TypeOK /\ ~crossed /\ npc \notin {"end", "restarted"}
      /\ Sockets /\ Listener /\ Matched /\ Distinct /\ Polled /\ InHand
      /\ ~cause => NoneGone /\ Owned
  BY Running
<1>2. /\ npc = "send" /\ npc' \in {"drop", "restarted"}
      /\ fd[Current] \in {"free", "listening"} \/ (IsConn(Current) /\ Peer.eof)
      /\ Close(Current, Conns) /\ UNCHANGED <<pollset, i, cause>> /\ msg' = NoMsg
  BY <1>1, WriteErrorTyped DEF SendFails, OnlyNetwork
<1>3. msg'.from \notin Conns
  BY <1>2, NoRequest
<1>4. npc' \notin {"end", "restarted"} => Removing'
  BY <1>2 DEF Removing
<1>5. npc \in Within
  BY <1>2 DEF Within
<1>6. LoopPart'
  BY <1>1, <1>2, <1>3, <1>4, <1>5, OthersArePolled, CurrentClosed
<1>7. cause
  <2>. SUFFICES ASSUME ~cause PROVE FALSE
    OBVIOUS
  <2>1. msg.from \in Conns
    BY <1>1, <1>2 DEF NoneGone, Removing
  <2>2. fd[Current] \in Conns
    BY <1>1, <1>2, <2>1 DEF InHand
  <2>3. ~conn[fd[Current]].eof
    BY <1>1, <2>2 DEF NoneGone
  <2>. QED
    BY <1>2, <2>2, <2>3 DEF Peer
<1>. QED
  BY <1>2, <1>6, <1>7, KeptParts DEF CrossingHasCause

\* One more answer, to the request after those answered.
LEMMA OneMoreAnswer ==
    ASSUME NEW c, NEW out \in Seq(Messages), NEW m \in Messages,
           out = [n \in 1 .. Len(out) |-> [from |-> c, k |-> n]],
           m = [from |-> c, k |-> Len(out) + 1]
    PROVE  /\ Len(Append(out, m)) = Len(out) + 1
           /\ Append(out, m) = [n \in 1 .. Len(out) + 1 |-> [from |-> c, k |-> n]]
<1>1. /\ Append(out, m) \in Seq(Messages) /\ Len(Append(out, m)) = Len(out) + 1
      /\ \A n \in 1 .. Len(out) : Append(out, m)[n] = out[n]
      /\ Append(out, m)[Len(out) + 1] = m
  BY AppendProperties
<1>2. PICK s \in Seq(Messages) : s = Append(out, m)
  BY <1>1
<1>3. PICK l \in Nat : l = Len(out)
  BY LenProperties
<1>4. /\ Len(s) = l + 1 /\ DOMAIN s = 1 .. l + 1
      /\ \A n \in 1 .. l : s[n] = [from |-> c, k |-> n]
      /\ s[l + 1] = [from |-> c, k |-> l + 1]
  <2>1. Len(s) = l + 1 /\ DOMAIN s = 1 .. l + 1
    BY <1>1, <1>2, <1>3
  <2>2. \A n \in 1 .. l : s[n] = out[n]
    BY <1>1, <1>2, <1>3
  <2>3. \A n \in 1 .. l : out[n] = [from |-> c, k |-> n]
    BY <1>3
  <2>4. s[l + 1] = m
    BY <1>1, <1>2, <1>3
  <2>. QED
    BY <1>3, <2>1, <2>2, <2>3, <2>4
<1>5. \A n \in 1 .. l + 1 : s[n] = [from |-> c, k |-> n]
  <2>1. \A n \in 1 .. l + 1 : n \in 1 .. l \/ n = l + 1
    OBVIOUS
  <2>. QED
    BY <1>4, <2>1
<1>6. s = [n \in 1 .. l + 1 |-> [from |-> c, k |-> n]]
  BY <1>4, <1>5
<1>. QED
  BY <1>1, <1>2, <1>3, <1>6

\* An answer is sent.
LEMMA SendKeeps ==
    ASSUME SInv, Runs, Send
    PROVE  CrossingHasCause' /\ (~crossed' => Kept')
<1>1. /\ TypeOK /\ ~crossed /\ npc \notin {"end", "restarted"}
      /\ Sockets /\ Listener /\ Matched /\ Distinct /\ Polled /\ InHand
      /\ ~cause => NoneGone /\ Owned
  BY Running
<1>2. /\ npc = "send" /\ fd[Current] \notin {"free", "listening"}
      /\ IsConn(Current) => conn' = [conn EXCEPT ![fd[Current]].out = Append(@, msg)]
      /\ Use(Current, {msg.from} \intersect Conns) /\ Scan(i + 1, pollset)
      /\ UNCHANGED <<fd, socketfd, nextSocket, wpc, wfd, zpc, zfd, cause>> /\ msg' = NoMsg
  BY DEF Send, Answer, OnlyNetwork, others
<1>3. CASE msg.from \in Conns
  <2>1. PICK c \in Conns : c = msg.from /\ c = fd[Current]
    BY <1>1, <1>2, <1>3 DEF InHand
  <2>2. conn[c].buf = "none" /\ msg.k = Len(conn[c].out) + 1 /\ conn[c].asked = msg.k
    BY <1>1, <1>2, <2>1 DEF InHand, Peer
  <2>3. ~crossed'
    BY <1>1, <1>2, <2>1 DEF Use
  <2>4. conn[c].out \in Seq(Messages) /\ msg \in Messages
    BY <1>1, PeerFields, Typed
  <2>5. msg = [from |-> c, k |-> Len(conn[c].out) + 1]
    BY <2>1, <2>2, <2>4 DEF Messages
  <2>6. PICK out : out = Append(conn[c].out, msg)
    OBVIOUS
  <2>7. conn' = [conn EXCEPT ![c].out = out]
    BY <1>2, <2>1, <2>6 DEF IsConn
  <2>8. /\ conn'[c].out = out /\ conn'[c].buf = "none" /\ conn'[c].asked = conn[c].asked
        /\ conn'[c].eof = conn[c].eof /\ conn'[c].st = conn[c].st
        /\ \A d \in Conns : d # c => conn'[d] = conn[d]
    BY <1>1, <2>2, <2>7, Typed DEF Peers
  <2>9. conn[c].out = [n \in 1 .. Len(conn[c].out) |-> [from |-> c, k |-> n]]
    BY <1>1 DEF Matched
  <2>10. PICK l \in Nat : l = Len(conn[c].out)
    BY <2>4
  <2>11. Len(out) = l + 1 /\ out = [n \in 1 .. l + 1 |-> [from |-> c, k |-> n]]
    BY <2>4, <2>5, <2>6, <2>9, <2>10, OneMoreAnswer
  <2>12. conn'[c].asked = Len(out)
    BY <2>2, <2>8, <2>10, <2>11
  <2>13. Matched'
    <3>. SUFFICES ASSUME NEW d \in Conns
                  PROVE  /\ conn'[d].out =
                              [k \in 1 .. Len(conn'[d].out) |-> [from |-> d, k |-> k]]
                         /\ conn'[d].asked \in {Len(conn'[d].out), Len(conn'[d].out) + 1}
                         /\ conn'[d].buf # "none" => conn'[d].asked = Len(conn'[d].out) + 1
      BY DEF Matched
    <3>1. CASE d = c
      <4>1. conn'[d].out = out /\ conn'[d].buf = "none" /\ conn'[d].asked = Len(out)
        BY <2>8, <2>12, <3>1
      <4>2. out = [k \in 1 .. Len(out) |-> [from |-> d, k |-> k]]
        BY <2>11, <3>1
      <4>. QED
        BY <4>1, <4>2
    <3>2. CASE d # c
      <4>1. conn'[d] = conn[d]
        BY <2>8, <3>2
      <4>. QED
        BY <1>1, <4>1 DEF Matched
    <3>. QED
      BY <3>1, <3>2
  <2>14. Sockets'
    <3>1. \A d \in Conns : conn'[d].st = conn[d].st
      BY <2>8
    <3>. QED
      BY <1>1, <1>2, <3>1 DEF Sockets, IsConn
  <2>15. /\ pollset \in Seq(Entries) /\ pollset # <<>> /\ i \in Nat /\ i >= 2
         /\ i + 1 \in Nat /\ i + 1 >= 2
    BY <1>1, <1>2, CurrentTyped DEF Within, Listener
  <2>16. ~Removing
    BY <1>2, <1>3 DEF Removing
  <2>17. /\ \A j \in 2 .. Len(pollset) : fd'[pollset[j].n] \in Conns
         /\ \A n \in Numbers : fd'[n] \in Conns =>
              \E j \in 2 .. Len(pollset) : pollset[j].n = n
    BY <1>1, <1>2, <2>16 DEF Polled, IsConn
  <2>18. msg'.from \notin Conns
    BY <1>2, NoRequest
  <2>19. /\ pollset[1].n = 1
         /\ \A j, m \in DOMAIN pollset : pollset[j].n = pollset[m].n => j = m
         /\ \A j \in 2 .. Len(pollset) : "invalid" \notin pollset[j].revents
         /\ \A n \in Numbers : fd'[n] = "listening" => n = 1
    BY <1>1, <1>2 DEF Listener, Distinct
  <2>20. /\ Listener' /\ Distinct' /\ Polled' /\ InHand' /\ ~Removing'
         /\ npc' \in {"poll", "scan"}
    BY <1>2, <2>15, <2>17, <2>18, <2>19, ScanKept
  <2>21. ~cause' => NoneGone' /\ Owned'
    <3>1. \A d \in Conns : conn'[d].eof = conn[d].eof
      BY <2>8
    <3>. QED
      BY <1>1, <1>2, <2>20, <3>1 DEF NoneGone, Owned
  <2>. QED
    BY <2>3, <2>13, <2>14, <2>20, <2>21 DEF Kept, CrossingHasCause
<1>4. CASE msg.from \notin Conns
  <2>1. crossed'
    BY <1>2, <1>4 DEF Use
  <2>2. cause
    BY <1>1, <1>2, <1>4 DEF NoneGone, Removing
  <2>. QED
    BY <1>2, <2>1, <2>2 DEF CrossingHasCause
<1>. QED
  BY <1>3, <1>4

\* The number is closed once more, and its entry removed.
LEMMA CloseAndRemoveKeeps ==
    ASSUME SInv, Runs, CloseAndRemove
    PROVE  CrossingHasCause' /\ (~crossed' => Kept')
<1>1. /\ TypeOK /\ ~crossed /\ npc \notin {"end", "restarted"}
      /\ Sockets /\ Listener /\ Matched /\ Distinct /\ Polled /\ InHand
      /\ ~cause => NoneGone /\ Owned
  BY Running
<1>2. /\ npc = "drop" /\ Close(Current, Conns) /\ Scan(i + 1, Remove(Current))
      /\ UNCHANGED <<socketfd, msg, nextSocket, wpc, wfd, zpc, zfd, cause>>
  BY DEF CloseAndRemove, OnlyNetwork, others
<1>3. npc \in Within /\ cause /\ Removing
  BY <1>1, <1>2 DEF Within, NoneGone, Removing
<1>4. ASSUME ~crossed'
      PROVE  LoopPart'
  <2>1. /\ i \in 2 .. Len(pollset) /\ Current \in Numbers
        /\ \A j \in DOMAIN pollset : pollset[j].n = Current => j = i
    BY <1>1, <1>3, CurrentTyped, CurrentNotFirst
  <2>2. ~IsConn(Current)
    BY <1>1, <1>3, <2>1 DEF Polled, Current
  <2>3. fd[Current] = "free"
    BY <1>2, <1>4, <2>2 DEF Close, Use, IsConn
  <2>4. \A m \in Numbers : fd'[m] = fd[m]
    BY <1>1, <1>2, <2>1, <2>3, CloseTyped
  <2>5. Sockets' /\ Matched' /\ \A m \in Numbers : fd'[m] = "listening" => m = 1
    BY <1>1, <1>2, <2>1, CloseKeeps
  <2>6. /\ pollset \in Seq(Entries) /\ Len(pollset) \in Nat /\ Len(pollset) >= 1
        /\ DOMAIN pollset = 1 .. Len(pollset) /\ 2 .. Len(pollset) \subseteq DOMAIN pollset
        /\ \A j \in DOMAIN pollset : pollset[j].n \in Numbers
    BY <1>1, SetNumbers
  <2>7. PICK set \in Seq(Entries) :
          /\ Scan(i + 1, set) /\ Len(set) = Len(pollset) - 1
          /\ \A k \in DOMAIN set : set[k] = IF k < i THEN pollset[k] ELSE pollset[k + 1]
    <3>1. PICK set \in Seq(Entries) : set = Remove(Current)
      BY <1>1, <1>3, RemoveTyped
    <3>2. PICK p \in DOMAIN pollset :
            /\ pollset[p].n = Current
            /\ \A k \in DOMAIN set : set[k] = IF k < p THEN pollset[k] ELSE pollset[k + 1]
      BY <1>1, <1>3, <3>1, RemoveTyped
    <3>3. p = i
      BY <2>1, <3>2
    <3>4. Len(set) = Len(pollset) - 1
      BY <1>1, <1>3, <3>1, RemoveTyped
    <3>. QED
      BY <1>2, <3>1, <3>2, <3>3, <3>4
  <2>8. PICK l \in Nat : l = Len(pollset) /\ i \in 2 .. l
    BY <2>1, <2>6
  <2>9. DOMAIN set = 1 .. l - 1 /\ Len(set) = l - 1 /\ DOMAIN pollset = 1 .. l
    BY <2>6, <2>7, <2>8
  <2>10. /\ \A k \in 1 .. l - 1 : k < i => set[k] = pollset[k]
         /\ \A k \in 1 .. l - 1 : k >= i => set[k] = pollset[k + 1]
    <3>1. \A k \in 1 .. l - 1 : ~(k >= i /\ k < i)
      BY <2>8
    <3>. QED
      BY <2>7, <2>9, <3>1
  <2>11. set # <<>> /\ set[1].n = 1
    <3>1. 1 \in 1 .. l - 1 /\ 1 < i
      BY <2>8
    <3>2. set[1] = pollset[1] /\ set # <<>>
      BY <2>9, <2>10, <3>1
    <3>. QED
      BY <1>1, <3>2 DEF Listener
  <2>12. \A j, m \in DOMAIN set : set[j].n = set[m].n => j = m
    <3>. SUFFICES ASSUME NEW j \in 1 .. l - 1, NEW m \in 1 .. l - 1, set[j].n = set[m].n
                  PROVE  j = m
      BY <2>9
    <3>1. PICK p \in 1 .. l : set[j] = pollset[p] /\ p = IF j < i THEN j ELSE j + 1
      BY <2>8, <2>10
    <3>2. PICK q \in 1 .. l : set[m] = pollset[q] /\ q = IF m < i THEN m ELSE m + 1
      BY <2>8, <2>10
    <3>3. p = q
      BY <1>1, <2>9, <3>1, <3>2 DEF Distinct
    <3>. QED
      BY <2>8, <3>1, <3>2, <3>3
  <2>13. \A j \in 2 .. Len(set) : \E p \in 2 .. l : p # i /\ set[j] = pollset[p]
    <3>. SUFFICES ASSUME NEW j \in 2 .. l - 1
                  PROVE  \E p \in 2 .. l : p # i /\ set[j] = pollset[p]
      BY <2>9
    <3>1. CASE j < i
      BY <2>8, <2>10, <3>1
    <3>2. CASE j >= i
      <4>1. j + 1 \in 2 .. l /\ j + 1 # i /\ set[j] = pollset[j + 1]
        BY <2>8, <2>10, <3>2
      <4>. QED
        BY <4>1
    <3>. QED
      BY <2>8, <3>1, <3>2
  <2>14. \A j \in 2 .. Len(set) : "invalid" \notin set[j].revents
    BY <1>1, <2>8, <2>13 DEF Distinct
  <2>15. \A j \in 2 .. Len(set) : fd'[set[j].n] \in Conns
    <3>1. \A p \in 2 .. l : p # i => fd[pollset[p].n] \in Conns /\ pollset[p].n \in Numbers
      BY <1>1, <2>6, <2>8 DEF Polled, IsConn
    <3>. QED
      BY <2>4, <2>13, <3>1
  <2>16. \A n \in Numbers : fd'[n] \in Conns => \E j \in 2 .. Len(set) : set[j].n = n
    <3>. SUFFICES ASSUME NEW n \in Numbers, fd[n] \in Conns
                  PROVE  \E j \in 2 .. l - 1 : set[j].n = n
      BY <2>4, <2>9
    <3>1. PICK p \in 2 .. l : pollset[p].n = n
      BY <1>1, <2>8 DEF Polled, IsConn
    <3>2. p # i
      BY <2>2, <3>1 DEF IsConn, Current
    <3>3. CASE p < i
      BY <2>8, <2>10, <3>1, <3>3
    <3>4. CASE p > i
      <4>1. p - 1 \in 2 .. l - 1 /\ p - 1 >= i /\ (p - 1) + 1 = p /\ p - 1 \in 1 .. l - 1
        BY <2>8, <3>4
      <4>2. set[p - 1] = pollset[p]
        BY <2>10, <4>1
      <4>. QED
        BY <3>1, <4>1, <4>2
    <3>. QED
      BY <2>8, <3>2, <3>3, <3>4
  <2>17. msg'.from \notin Conns
    BY <1>1, <1>2 DEF InHand
  <2>18. i + 1 \in Nat /\ i + 1 >= 2
    BY <2>8
  <2>19. /\ Listener' /\ Distinct' /\ Polled' /\ InHand' /\ ~Removing'
         /\ npc' \in {"poll", "scan"}
    BY <2>5, <2>7, <2>11, <2>12, <2>14, <2>15, <2>16, <2>17, <2>18, ScanKept
  <2>. QED
    BY <2>5, <2>19 DEF LoopPart
<1>. QED
  BY <1>2, <1>3, <1>4, KeptParts DEF CrossingHasCause

\* A step of the network thread.
LEMMA NetworkKeeps ==
    ASSUME SInv, NetworkStep
    PROVE  CrossingHasCause' /\ (~crossed' => Kept')
<1>1. Runs
  BY DEF NetworkStep
<1>2. /\ TypeOK /\ ~crossed /\ npc \notin {"end", "restarted"}
      /\ Sockets /\ Listener /\ Matched /\ Distinct /\ Polled /\ InHand
      /\ ~cause => NoneGone /\ Owned
  BY <1>1, Running
\* While the loop reads, the number at i is a connection's.
<1>3. ASSUME npc \in {"scan", "body"}
      PROVE  /\ fd[Current] \in Conns /\ i \in 2 .. Len(pollset)
             /\ msg.from \notin Conns
  <2>1. i \in 2 .. Len(pollset) /\ ~Removing /\ npc # "send"
    BY <1>2, <1>3, CurrentNotFirst DEF Within, Removing
  <2>. QED
    BY <1>2, <2>1 DEF Polled, IsConn, Current, InHand
<1>4. CASE Poll
  BY <1>1, <1>4, PollKeeps DEF CrossingHasCause
<1>5. CASE Accept
  BY <1>1, <1>5, AcceptKeeps DEF CrossingHasCause
<1>6. CASE AcceptFails
  <2>1. /\ UNCHANGED <<fd, conn, socketfd, pollset, i, crossed>> /\ OnlyNetwork
        /\ npc = "accept" /\ npc' = "end"
    BY <1>6 DEF AcceptFails
  <2>2. Kept'
    BY <1>1, <2>1, LoopOnly
  <2>. QED
    BY <1>2, <2>1, <2>2 DEF CrossingHasCause
<1>7. CASE InvalidEvent
  <2>1. npc = "scan" /\ "invalid" \in pollset[i].revents
    BY <1>7 DEF InvalidEvent
  <2>. QED
    BY <1>2, <1>3, <2>1 DEF Distinct
<1>8. CASE ReadSize
  <2>1. /\ UNCHANGED <<fd, conn, socketfd, pollset, i>> /\ OnlyNetwork /\ cause' = cause
        /\ npc = "scan" /\ npc' \in {"body", "unread"} /\ Use(Current, Conns)
        /\ npc' = "body" => msg' = msg
        /\ npc' = "unread" => /\ msg' \in {Empty, NoMsg}
                              /\ IsConn(Current) => Peer.buf = "none" /\ Peer.eof
    BY <1>8 DEF ReadSize, GoTo, OnlyNetwork
  <2>2. fd[Current] \in Conns /\ msg.from \notin Conns
    BY <1>3, <2>1
  <2>3. ~crossed'
    BY <1>2, <2>1, <2>2 DEF Use
  <2>4. npc' = "unread" => cause
    BY <1>2, <2>1, <2>2 DEF IsConn, Peer, NoneGone
  <2>5. msg'.from \notin Conns
    BY <2>1, <2>2, NoRequest
  <2>6. Kept'
    BY <1>1, <2>1, <2>4, <2>5, LoopOnly
  <2>. QED
    BY <2>3, <2>6 DEF CrossingHasCause
<1>9. CASE CloseUnread
  BY <1>1, <1>9, CloseUnreadKeeps
<1>10. CASE ReadBody
  BY <1>1, <1>10, ReadBodyKeeps DEF CrossingHasCause
<1>11. CASE ReadHalf
  <2>1. /\ UNCHANGED <<fd, conn, socketfd, pollset, i, crossed>> /\ OnlyNetwork
        /\ npc = "body" /\ npc' = "unread" /\ msg' \in {Remains, NoMsg}
        /\ IsConn(Current) => Peer.eof
    BY <1>11 DEF ReadHalf, GoTo
  <2>2. fd[Current] \in Conns
    BY <1>3, <2>1
  <2>3. cause
    BY <1>2, <2>1, <2>2 DEF IsConn, Peer, NoneGone
  <2>4. msg'.from \notin Conns
    BY <2>1, NoRequest
  <2>5. Kept'
    BY <1>1, <2>1, <2>3, <2>4, LoopOnly
  <2>. QED
    BY <1>2, <2>1, <2>5 DEF CrossingHasCause
<1>12. CASE Send
  BY <1>1, <1>12, SendKeeps
<1>13. CASE SendFails
  BY <1>1, <1>13, SendFailsKeeps
<1>14. CASE CloseAndRemove
  BY <1>1, <1>14, CloseAndRemoveKeeps
<1>. QED
  BY <1>4, <1>5, <1>6, <1>7, <1>8, <1>9, <1>10, <1>11, <1>12, <1>13, <1>14 DEF NetworkStep

-----------------------------------------------------------------------------
\* The invariant, and what follows from it.

\* The invariant holds when the server starts.
LEMMA InitKeeps ==
    ASSUME Init
    PROVE  SInv
<1>1. 0 \in Numbers /\ 1 \in Numbers /\ 2 \in Numbers /\ Numbers \subseteq Nat
  BY DEF Numbers
<1>2. /\ npc = "poll" /\ pollset = <<Entry(1)>> /\ msg = NoMsg /\ socketfd = 1
      /\ wpc = "idle" /\ wfd = 0 /\ zpc = "idle" /\ zfd = 0
      /\ conn = [c \in Conns |-> Unused("new")] /\ crossed = FALSE /\ cause = FALSE
      /\ hasNext \in BOOLEAN /\ nextSocket \in {0, 2}
  BY DEF Init
<1>3. /\ fd \in [Numbers -> Kinds]
      /\ fd[1] = "listening" /\ fd[nextSocket] \in {"next", "terminal"}
      /\ \A n \in Numbers : fd[n] = "listening" => n = 1
      /\ \A n \in Numbers : fd[n] \notin Conns
  BY <1>1 DEF Init, Kinds
<1>4. /\ pollset \in Seq(Entries) /\ Len(pollset) = 1 /\ pollset # <<>>
      /\ pollset[1].n = 1 /\ DOMAIN pollset = {1}
  BY <1>1, <1>2, EntryTyped
<1>5. \A c \in Conns : /\ conn[c] = Unused("new") /\ conn[c].st = "new" /\ ~conn[c].eof
                       /\ conn[c].buf = "none" /\ conn[c].asked = 0 /\ conn[c].out = <<>>
  BY <1>2, UnusedTyped
<1>6. TypeOK
  <2>1. conn \in [Conns -> Peers]
    BY <1>2, UnusedTyped
  <2>. QED
    BY <1>1, <1>2, <1>3, <1>4, <2>1, NoRequest, Typed DEF Places, Within
<1>7. Sockets /\ Listener /\ Distinct
  BY <1>3, <1>4, <1>5 DEF Sockets, IsConn, Listener, Distinct
<1>8. Matched
  <2>1. Len(<<>>) = 0 /\ \A c : <<>> = [k \in 1 .. 0 |-> [from |-> c, k |-> k]]
    OBVIOUS
  <2>. QED
    BY <1>5, <2>1 DEF Matched
<1>9. Polled /\ InHand /\ ~Removing
  BY <1>2, <1>3, <1>4, NoRequest DEF Polled, IsConn, InHand, Removing
<1>10. NoneGone /\ Owned
  BY <1>2, <1>3, <1>5, <1>9 DEF NoneGone, Owned
<1>. QED
  <2>1. Matched => AnswersMatch
    BY DEF Matched, AnswersMatch
  <2>. QED
    BY <1>2, <1>6, <1>7, <1>8, <1>9, <1>10, <2>1 DEF SInv, Kept, CrossingHasCause

\* A connection's answers stay, or are forgotten as it closes.
OutsStay == \A c \in Conns : conn'[c].out = conn[c].out \/ conn'[c].out = <<>>

\* So that they match as before.
LEMMA OutsMatch ==
    ASSUME AnswersMatch, OutsStay
    PROVE  AnswersMatch'
<1>. SUFFICES ASSUME NEW c \in Conns
              PROVE  conn'[c].out = [n \in 1 .. Len(conn'[c].out) |-> [from |-> c, k |-> n]]
  BY DEF AnswersMatch
<1>1. CASE conn'[c].out = conn[c].out
  <2>1. conn[c].out = [n \in 1 .. Len(conn[c].out) |-> [from |-> c, k |-> n]]
    BY DEF AnswersMatch
  <2>. QED
    BY <1>1, <2>1
<1>2. CASE conn'[c].out = <<>>
  <2>1. Len(<<>>) = 0 /\ <<>> = [n \in 1 .. 0 |-> [from |-> c, k |-> n]]
    OBVIOUS
  <2>. QED
    BY <1>2, <2>1
<1>. QED
  BY <1>1, <1>2 DEF OutsStay

\* Close forgets those of the connections that end.
LEMMA CloseOuts ==
    ASSUME NEW n, NEW mine, Close(n, mine)
    PROVE  OutsStay
<1>1. \A c \in Conns : conn'[c] = Unused("closed") \/ conn'[c] = conn[c]
  BY DEF Close
<1>. QED
  BY <1>1, UnusedTyped DEF OutsStay

\* In the step in which a thread first uses a number that is not its own, nobody is sent
\* the answer to another's request (network_send, write_all).
LEMMA CrossingAnswersNobody ==
    ASSUME SInv, Next, crossed'
    PROVE  AnswersMatch'
<1>0. AnswersMatch
  BY DEF SInv
<1>1. Runs
  BY DEF Next, ClientStep, Dial, Ask, AskRest, HangUp, NetworkStep, Interrupt, WorkerStep, Pick,
         Write, WriteFails, Read, ReadFails, CloseNext, WatcherStep, SetNext, OpenSocket,
         ConnectFails, CloseOld, Assign
<1>2. /\ TypeOK /\ ~crossed /\ npc \notin {"end", "restarted"}
      /\ Sockets /\ Listener /\ Matched /\ Distinct /\ Polled /\ InHand
  BY <1>1, Running
<1>3. UNCHANGED conn => OutsStay
  BY DEF OutsStay
<1>4. ASSUME ClientStep PROVE FALSE
  BY <1>2, <1>4, ClientKeeps
<1>5. ASSUME NetworkStep PROVE OutsStay
  <2>1. CASE Poll \/ Accept \/ AcceptFails \/ InvalidEvent \/ ReadBody \/ ReadHalf
    BY <1>2, <2>1 DEF Poll, Accept, AcceptFails, InvalidEvent, ReadBody, ReadHalf
  <2>2. CASE ReadSize
    BY <1>3, <2>2 DEF ReadSize
  <2>3. CASE CloseUnread \/ SendFails \/ CloseAndRemove
    BY <2>3, CloseOuts DEF CloseUnread, SendFails, CloseAndRemove
  <2>4. CASE Send
    <3>1. npc = "send" /\ (IsConn(Current) \/ UNCHANGED conn)
      BY <2>4 DEF Send
    <3>2. msg.from \notin Conns
      BY <1>2, <2>4 DEF Send, Use, InHand
    <3>3. i \in 2 .. Len(pollset)
      BY <1>2, <3>1, Typed DEF Within
    <3>4. ~IsConn(Current)
      BY <1>2, <3>1, <3>2, <3>3 DEF Polled, Removing, Current
    <3>. QED
      BY <1>3, <3>1, <3>4
  <2>. QED
    BY <1>5, <2>1, <2>2, <2>3, <2>4 DEF NetworkStep
<1>6. ASSUME Interrupt PROVE OutsStay
  BY <1>3, <1>6, CloseOuts DEF Interrupt
<1>7. ASSUME WorkerStep PROVE OutsStay
  <2>1. CASE CloseNext
    BY <2>1, CloseOuts DEF CloseNext
  <2>. QED
    BY <1>3, <1>7, <2>1 DEF WorkerStep, Pick, Write, WriteFails, Read, ReadFails
<1>8. ASSUME WatcherStep PROVE OutsStay
  <2>1. CASE ConnectFails \/ CloseOld
    BY <2>1, CloseOuts DEF ConnectFails, CloseOld
  <2>. QED
    BY <1>3, <1>8, <2>1 DEF WatcherStep, SetNext, OpenSocket, Assign
<1>. QED
  BY <1>0, <1>4, <1>5, <1>6, <1>7, <1>8, OutsMatch DEF Next

\* Every answer is to a request of the client that gets it after a step as well.
LEMMA AnswersKept ==
    ASSUME SInv, [Next]_vars, ~crossed' => Kept'
    PROVE  AnswersMatch'
<1>1. CASE ~crossed'
  <2>1. Matched'
    BY <1>1 DEF Kept
  <2>. QED
    BY <2>1 DEF Matched, AnswersMatch
<1>2. CASE Next /\ crossed'
  BY <1>2, CrossingAnswersNobody
<1>3. CASE UNCHANGED vars
  <2>1. OutsStay /\ AnswersMatch
    BY <1>3 DEF vars, OutsStay, SInv
  <2>. QED
    BY <2>1, OutsMatch
<1>. QED
  BY <1>1, <1>2, <1>3

\* Every step keeps the invariant.
LEMMA StepKeeps ==
    ASSUME SInv, [Next]_vars
    PROVE  SInv'
<1>1. TypeOK
  BY DEF SInv
<1>2. CASE ClientStep
  <2>1. ~crossed' /\ Kept'
    BY <1>2, ClientKeeps
  <2>. QED
    BY <1>1, <1>2, <2>1, ClientTyped, AnswersKept DEF SInv, CrossingHasCause
<1>3. CASE NetworkStep
  BY <1>1, <1>3, NetworkTyped, NetworkKeeps, AnswersKept DEF SInv
<1>4. CASE Interrupt
  BY <1>1, <1>4, InterruptTyped, InterruptKeeps, AnswersKept DEF SInv
<1>5. CASE WorkerStep
  BY <1>1, <1>5, WorkerStepTyped, WorkerKeeps, AnswersKept DEF SInv
<1>6. CASE WatcherStep
  BY <1>1, <1>6, WatcherStepTyped, WatcherKeeps, AnswersKept DEF SInv
<1>7. CASE UNCHANGED vars
  <2>1. /\ UNCHANGED <<fd, socketfd, nextSocket, hasNext, npc, pollset, i, msg>>
        /\ UNCHANGED <<wpc, wfd, zpc, zfd, conn, crossed, cause>>
    BY <1>7 DEF vars, table, network, others
  <2>2. TypeOK'
    <3>1. FdTyped' /\ GlobalTyped' /\ LoopTyped' /\ WorkerTyped' /\ WatcherTyped'
      BY <1>1, <2>1, TypedParts
      DEF FdTyped, GlobalTyped, LoopTyped, WorkerTyped, WatcherTyped
    <3>. QED
      BY <3>1, TypedParts
  <2>3. Removing' <=> Removing
    BY <2>1 DEF Removing
  <2>4. ~crossed => Kept
    BY DEF SInv
  <2>5. /\ Sockets => Sockets'
        /\ Listener => Listener'
        /\ Matched => Matched'
        /\ Distinct => Distinct'
    BY <2>1 DEF Sockets, IsConn, Listener, Matched, Distinct
  <2>6. /\ Polled => Polled'
        /\ InHand => InHand'
        /\ NoneGone => NoneGone'
        /\ Owned => Owned'
    BY <2>1, <2>3 DEF Polled, IsConn, InHand, Peer, Current, NoneGone, Owned
  <2>7. ~crossed' => Kept'
    BY <2>1, <2>4, <2>5, <2>6 DEF Kept
  <2>8. CrossingHasCause'
    BY <2>1 DEF SInv, CrossingHasCause
  <2>. QED
    BY <2>2, <2>7, <2>8, AnswersKept DEF SInv
<1>. QED
  BY <1>2, <1>3, <1>4, <1>5, <1>6, <1>7 DEF Next

\* SInv is an invariant of the server's descriptors.
THEOREM ServerInvariance == Spec => []SInv
<1>1. Init => SInv
  BY InitKeeps
<1>2. SInv /\ [Next]_vars => SInv'
  BY StepKeeps
<1>. QED
  BY <1>1, <1>2, PTL DEF Spec

\* The variables keep their types, and while the loop serves an entry i is one of the set:
\* no step of network_main_loop or remove_fd leaves i past the end.
THEOREM ServerTypeCorrect == Spec => []TypeOK
<1>1. SInv => TypeOK
  BY DEF SInv
<1>. QED
  BY <1>1, ServerInvariance, PTL

\* What a client has been sent are the answers to its own requests, in their order and
\* once, up to and in the step in which a thread first uses a number that is not its own
\* (network_main_loop, network_send, write_all).
THEOREM AnswersCorrect == Spec => []AnswersMatch
<1>1. SInv => AnswersMatch
  BY DEF SInv
<1>. QED
  BY <1>1, ServerInvariance, PTL

\* Whenever the loop polls, its set holds the open connections, each once (remove_fd).
THEOREM PollSetCorrect == Spec => []PollSetIsOpen
<1>1. SInv => PollSetIsOpen
  <2>. SUFFICES ASSUME SInv, ~crossed, npc = "poll"
                PROVE  /\ \A j, m \in 2 .. Len(pollset) :
                            j # m => pollset[j].n # pollset[m].n
                       /\ {pollset[j].n : j \in 2 .. Len(pollset)} = {n \in Numbers : IsConn(n)}
    BY DEF PollSetIsOpen
  <2>1. TypeOK /\ Listener /\ Distinct /\ Polled
    BY DEF SInv, Kept
  <2>2. /\ 2 .. Len(pollset) \subseteq DOMAIN pollset
        /\ \A j \in DOMAIN pollset : pollset[j].n \in Numbers
    BY <2>1, SetNumbers
  <2>3. ~Removing
    BY DEF Removing
  <2>4. \A j, m \in 2 .. Len(pollset) : j # m => pollset[j].n # pollset[m].n
    BY <2>1, <2>2 DEF Distinct
  <2>5. /\ \A j \in 2 .. Len(pollset) : IsConn(pollset[j].n) /\ pollset[j].n \in Numbers
        /\ \A n \in Numbers : IsConn(n) => \E j \in 2 .. Len(pollset) : pollset[j].n = n
    BY <2>1, <2>2, <2>3 DEF Polled
  <2>. QED
    BY <2>4, <2>5
<1>. QED
  BY <1>1, ServerInvariance, PTL

\* No thread uses the number of another one before a connection has failed, nextSocket was
\* replaced under the worker or SIGINT closed socketfd while the loop ran on.
THEOREM CrossingCorrect == Spec => []CrossingHasCause
<1>1. SInv => CrossingHasCause
  BY DEF SInv
<1>. QED
  BY <1>1, ServerInvariance, PTL

=============================================================================
