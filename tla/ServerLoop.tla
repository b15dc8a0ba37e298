------------------------------ MODULE ServerLoop ------------------------------
(***************************************************************************)
(* The descriptors of a server process and the threads that use them: the  *)
(* network loop (source/network_server.c), the worker while it sends a     *)
(* write to the next server, and connect_to_server on ZooKeeper's thread   *)
(* (source/tree_skel.c).  read_all and write_all (source/message.c) close  *)
(* a descriptor when they fail, their callers close the number again, and  *)
(* a closed number is given to the next socket opened.  The signals of     *)
(* source/tree_server.c are the fourth actor.                              *)
(*                                                                         *)
(* What a message says is left to TreeSkel: here it is the connection it   *)
(* came on and its number there.  1, 2 and ZooKeeper's own descriptor are  *)
(* never closed and are left out, so the socket that listens is 1.         *)
(* A behaviour is followed up to the first time a thread uses a number     *)
(* that is not its own any more (crossed).                                 *)
(***************************************************************************)
EXTENDS Integers, Sequences, FiniteSets

CONSTANTS
    Conns,      \* bound: the connections clients make
    MaxFd,      \* the largest descriptor a process may have
    MaxAsks,    \* bound: requests on one connection, or on any two together
    MaxMoves    \* bound: runs of child_watcher, writes the worker sends on, SIGINTs

ASSUME ServerLoopAssumption ==
    /\ MaxFd \in Nat /\ MaxFd > 1
    /\ {MaxAsks, MaxMoves} \subseteq Nat
    /\ Conns \intersect {"free", "terminal", "listening", "next"} = {}
    /\ Conns \intersect {"nobody", "closed", "heap"} = {}

Numbers == 0 .. MaxFd
Invalid == -1

VARIABLES
    fd,         \* what each descriptor is
    socketfd,   \* the global variable of network_server.c
    nextSocket, \* rtree.nextSocket
    hasNext,    \* whether rtree.zNextNode is set
    npc, pollset, i, msg,   \* network thread: where it is, desc_set, i, message
    wpc, wfd,   \* worker: where it is in send_receive, its socketfd
    zpc, zfd,   \* ZooKeeper's thread: where it is in child_watcher, the new socket
    conn,       \* each connection: its state; whether its client has closed it; what the
                \* server can read: nothing, half a request or all of it; the number of
                \* requests its client has sent; the answers it was sent
    moves,      \* what is used up of MaxMoves
    \* History, read by no action of the code:
    crossed,    \* whether a thread has used a number that was another's by then
    cause       \* whether a connection has failed, or child_watcher replaced nextSocket
                \* while the worker used it, or SIGINT came outside poll

table == <<fd, socketfd, nextSocket, hasNext>>
network == <<npc, pollset, i, msg>>
others == <<wpc, wfd, zpc, zfd>>
vars == <<table, network, others, conn, moves, crossed, cause>>

NoMsg == [from |-> "nobody", k |-> 0]
Empty == [from |-> "closed", k |-> 0]   \* the message a closed connection is taken for
Remains == [from |-> "heap", k |-> 0]   \* ... and the one made of half a request

Entry(n) == [n |-> n, revents |-> {}]
Unused(st) == [st |-> st, eof |-> FALSE, buf |-> "none", asked |-> 0, out |-> <<>>]

\* network_server_init, tree_skel_init and listen.  If another server has joined since
\* this one did, child_watcher has connected to it, and closed nextSocket, which was 0.
Init ==
    /\ \/ /\ hasNext = FALSE /\ nextSocket = 0
          /\ fd = [n \in Numbers |-> IF n = 0 THEN "terminal"
                                     ELSE IF n = 1 THEN "listening" ELSE "free"]
       \/ /\ hasNext = TRUE /\ nextSocket = 2
          /\ fd = [n \in Numbers |-> IF n = 2 THEN "next"
                                     ELSE IF n = 1 THEN "listening" ELSE "free"]
    /\ socketfd = 1
    /\ npc = "poll" /\ pollset = <<Entry(1)>> /\ i = 1 /\ msg = NoMsg
    /\ wpc = "idle" /\ wfd = 0 /\ zpc = "idle" /\ zfd = 0
    /\ conn = [c \in Conns |-> Unused("new")]
    /\ moves = 0
    /\ crossed = FALSE /\ cause = FALSE

Runs == npc \notin {"end", "restarted"} /\ ~crossed

Move == moves < MaxMoves /\ moves' = moves + 1

-----------------------------------------------------------------------------
\* Descriptors.

FreeNumbers == {n \in Numbers : fd[n] = "free"}
Lowest == CHOOSE n \in FreeNumbers : \A m \in FreeNumbers : n <= m
Listening == "listening" \in {fd[n] : n \in Numbers}

IsConn(n) == fd[n] \in Conns

\* Read from or write to n by a thread that takes it for one of mine.
Use(n, mine) ==
    crossed' = (crossed \/ fd[n] \notin mine \union {"free"})

\* The connections that end with n: its own, or those not yet accepted.
EndWith(n) ==
    IF fd[n] = "listening" THEN {c \in Conns : conn[c].st = "waiting"} ELSE {fd[n]}

\* close(n) by a thread that takes it for one of mine.
Close(n, mine) ==
    /\ fd' = [fd EXCEPT ![n] = "free"]
    /\ conn' = [c \in Conns |-> IF c \in EndWith(n) THEN Unused("closed") ELSE conn[c]]
    /\ Use(n, mine)

\* write_all fails while the network thread is at label.  If n is a socket SIGPIPE may
\* come first: signalRestart calls main, and network_server_init opens a socket, cannot
\* bind it to the port and closes it, but socketfd keeps its number.  If nothing listens
\* any more it can, and a second server starts inside the handler.
WriteError(n, label) ==
    \/ npc' = label /\ UNCHANGED socketfd
    \/ /\ fd[n] # "free"
       /\ IF Listening
          THEN /\ npc' = label
               /\ socketfd' = IF FreeNumbers = {} THEN Invalid ELSE Lowest
          ELSE npc' = "restarted" /\ UNCHANGED socketfd

-----------------------------------------------------------------------------
\* Clients: network_connect, network_send_receive, network_close.  A client waits for
\* the answer to a request before it sends the next, and may die anywhere.

OnlyClient == UNCHANGED <<table, network, others, moves, crossed>>

Open(c) == conn[c].st \in {"waiting", "accepted"} /\ ~conn[c].eof

New == {c \in Conns : conn[c].st = "new"}

\* Which of the names a connection gets makes no difference.
Dial ==
    /\ Runs /\ New # {} /\ Listening
    /\ conn' = [conn EXCEPT ![CHOOSE c \in New : TRUE].st = "waiting"]
    /\ UNCHANGED cause /\ OnlyClient

Ask(c) ==
    /\ Runs /\ Open(c)
    /\ conn[c].asked < MaxAsks /\ \A d \in Conns \ {c} : conn[c].asked + conn[d].asked < MaxAsks
    /\ conn[c].asked = Len(conn[c].out)
    /\ \E part \in {"half", "whole"} :
        conn' = [conn EXCEPT ![c].buf = part, ![c].asked = @ + 1]
    /\ UNCHANGED cause /\ OnlyClient

AskRest(c) ==
    /\ Runs /\ Open(c) /\ conn[c].buf = "half"
    /\ conn' = [conn EXCEPT ![c].buf = "whole"]
    /\ UNCHANGED cause /\ OnlyClient

HangUp(c) ==
    /\ Runs /\ Open(c)
    /\ conn' = [conn EXCEPT ![c].eof = TRUE]
    /\ cause' = TRUE
    /\ OnlyClient

-----------------------------------------------------------------------------
\* The network thread.

OnlyNetwork == UNCHANGED <<nextSocket, hasNext, others, moves, cause>>

Waiting == {c \in Conns : conn[c].st = "waiting"}

\* What poll reports of a descriptor: poll does not look at the half of a request.
EventsOfData(n) ==                              \* mutant: the end of a stream is no event
    IF (IsConn(n) /\ conn[fd[n]].buf # "none") \/ (fd[n] = "listening" /\ Waiting # {})
    THEN {"in"} ELSE {}
Events(n) ==
    CASE fd[n] = "free" -> {"invalid"}
      [] fd[n] = "listening" -> IF Waiting # {} THEN {"in"} ELSE {}
      [] IsConn(n) -> IF conn[fd[n]].eof \/ conn[fd[n]].buf # "none" THEN {"in"} ELSE {}
      [] OTHER -> {}

WithEventsAll(k, set) == {j \in DOMAIN set : set[j].revents # {}}   \* mutant: from 0 on
WithEventsButLast(k, set) ==                    \* mutant: i < nfds - 1
    {j \in k .. Len(set) - 1 : set[j].revents # {}}
WithEvents(k, set) == {j \in k .. Len(set) : set[j].revents # {}}

\* On to the next entry with events from the k-th of set, or back to poll.
Scan(k, set) ==
    LET J == WithEvents(k, set)
    IN  IF J = {}
        THEN npc' = "poll" /\ i' = 1 /\ pollset' = [j \in DOMAIN set |-> Entry(set[j].n)]
        ELSE /\ npc' = "scan" /\ pollset' = set
             /\ i' = CHOOSE j \in J : \A m \in J : j <= m

Poll ==
    /\ npc = "poll"
    /\ \E j \in DOMAIN pollset : Events(pollset[j].n) # {}
    /\ LET set == [j \in DOMAIN pollset |->
                      [n |-> pollset[j].n, revents |-> Events(pollset[j].n)]]
       IN  IF "in" \in set[1].revents
           THEN npc' = "accept" /\ pollset' = set /\ UNCHANGED i
           ELSE Scan(2, set)
    /\ UNCHANGED <<fd, socketfd, msg, conn, crossed>> /\ OnlyNetwork

\* accept: the new socket goes to the end of the set, with no events yet.
Accept ==
    /\ npc = "accept" /\ fd[pollset[1].n] = "listening" /\ FreeNumbers # {}
    /\ \E c \in Waiting :
        /\ fd' = [fd EXCEPT ![Lowest] = c]
        /\ conn' = [conn EXCEPT ![c].st = "accepted"]
    /\ Scan(2, Append(pollset, Entry(Lowest)))
    /\ UNCHANGED <<socketfd, msg, crossed>> /\ OnlyNetwork

\* No number is free, or the socket does not listen any more: the server ends.
AcceptFails ==
    /\ npc = "accept" /\ (fd[pollset[1].n] # "listening" \/ FreeNumbers = {})
    /\ npc' = "end"
    /\ UNCHANGED <<fd, socketfd, pollset, i, msg, conn, crossed>> /\ OnlyNetwork

Current == pollset[i].n
Peer == conn[fd[Current]]

GoTo(label) == npc' = label /\ UNCHANGED <<pollset, i>>

\* POLLNVAL: the loop closes the number and removes it.
InvalidEvent ==
    /\ npc = "scan" /\ "invalid" \in pollset[i].revents
    /\ GoTo("drop")
    /\ UNCHANGED <<fd, socketfd, msg, conn, crossed>> /\ OnlyNetwork

\* network_receive: read_all of the size.  At the end of the stream it is 0, which makes
\* an empty message; after an error there is no message.
ReadSize ==
    /\ npc = "scan" /\ "in" \in pollset[i].revents
    /\ \/ /\ IsConn(Current) /\ Peer.buf # "none"
          /\ GoTo("body") /\ UNCHANGED msg
       \/ /\ IsConn(Current) => Peer.buf = "none" /\ Peer.eof
          /\ GoTo("unread") /\ msg' \in {Empty, NoMsg}
    /\ Use(Current, Conns)
    /\ UNCHANGED <<fd, socketfd, conn>> /\ OnlyNetwork

\* read_all of the message itself, and invoke, which answers whatever it gets.
ReadBody ==
    /\ npc = "body" /\ IsConn(Current) /\ Peer.buf = "whole"
    /\ conn' = [conn EXCEPT ![fd[Current]].buf = "none"]
    /\ msg' = [from |-> fd[Current], k |-> Peer.asked]
    /\ GoTo("send")
    /\ UNCHANGED <<fd, socketfd, crossed>> /\ OnlyNetwork

\* The client died within its request: at the end of the stream what was not read of the
\* buffer is whatever malloc left in it, which may be a message or none.
ReadHalf ==
    /\ npc = "body"
    /\ IsConn(Current) => Peer.buf # "whole" /\ Peer.eof
    /\ GoTo("unread") /\ msg' \in {Remains, NoMsg}
    /\ UNCHANGED <<fd, socketfd, conn, crossed>> /\ OnlyNetwork

\* read_all closes the descriptor.
CloseUnread ==
    /\ npc = "unread"
    /\ Close(Current, Conns)
    /\ GoTo(IF msg = NoMsg THEN "drop" ELSE "send")
    /\ UNCHANGED <<socketfd, msg>> /\ OnlyNetwork

AnswerSecond(c) ==                              \* mutant: always the second entry
    conn' = [conn EXCEPT ![fd[pollset[2].n]].out = Append(@, msg)]
Answer(c) == conn' = [conn EXCEPT ![c].out = Append(@, msg)]

\* network_send, to whatever the number is by now.
Send ==
    /\ npc = "send" /\ fd[Current] \notin {"free", "listening"}
    /\ IF IsConn(Current) THEN Answer(fd[Current]) ELSE UNCHANGED conn
    /\ msg' = NoMsg
    /\ Scan(i + 1, pollset)
    /\ Use(Current, {msg.from} \intersect Conns)
    /\ UNCHANGED <<fd, socketfd>> /\ OnlyNetwork

\* The client is gone, or the number is not a connection: write_all closes it.
SendFails ==
    /\ npc = "send" /\ (fd[Current] \in {"free", "listening"} \/ (IsConn(Current) /\ Peer.eof))
    /\ Close(Current, Conns)
    /\ msg' = NoMsg
    /\ WriteError(Current, "drop")
    /\ UNCHANGED <<pollset, i>> /\ OnlyNetwork

RemoveLast(n) == SubSeq(pollset, 1, Len(pollset) - 1)   \* mutant: the wrong entry
\* remove_fd: the entries after the one with this number move down.
Remove(n) ==
    LET p == CHOOSE j \in DOMAIN pollset : pollset[j].n = n
    IN  [k \in 1 .. Len(pollset) - 1 |-> IF k < p THEN pollset[k] ELSE pollset[k + 1]]

\* The loop goes on with the next index, so it passes over the entry that moved up.
CloseAndRemove ==
    /\ npc = "drop"
    /\ Close(Current, Conns)
    /\ Scan(i + 1, Remove(Current))
    /\ UNCHANGED <<socketfd, msg>> /\ OnlyNetwork

NetworkStep ==
    /\ Runs
    /\ \/ Poll \/ Accept \/ AcceptFails
       \/ InvalidEvent \/ ReadSize \/ CloseUnread \/ ReadBody \/ ReadHalf
       \/ Send \/ SendFails \/ CloseAndRemove

-----------------------------------------------------------------------------
\* The signals of tree_server.c, which the main thread takes.

\* SIGINT: network_server_close.  poll returns an error and the loop ends; a read that
\* waits returns an error as well; any other moment goes unnoticed.
Interrupt ==
    /\ Runs /\ Move
    /\ IF socketfd # Invalid THEN Close(socketfd, {"listening"})
       ELSE UNCHANGED <<fd, conn, crossed>>
    /\ \/ npc = "poll" /\ GoTo("end")
       \/ npc # "poll" /\ GoTo(npc)
       \/ npc = "body" /\ GoTo("unread")
    /\ cause' = (cause \/ npc # "poll")
    /\ UNCHANGED <<socketfd, nextSocket, hasNext, msg, others>>

-----------------------------------------------------------------------------
\* The worker: propagate_request and send_receive.

Elsewhere == UNCHANGED <<nextSocket, hasNext, pollset, i, msg, zpc, zfd>>
OnlyWorker == Elsewhere /\ UNCHANGED <<socketfd, npc>>

Pick ==
    /\ Runs /\ Move /\ wpc = "idle" /\ hasNext
    /\ wfd' = nextSocket
    /\ wpc' = "write"
    /\ cause' = (cause \/ zpc = "assign")
    /\ UNCHANGED <<fd, conn, crossed>> /\ OnlyWorker

\* write_all succeeds on whatever is open.
Write ==
    /\ Runs /\ wpc = "write" /\ fd[wfd] \notin {"free", "listening"}
    /\ wpc' = "read"
    /\ Use(wfd, {"next", "terminal"})
    /\ UNCHANGED <<fd, conn, cause, wfd, moves>> /\ OnlyWorker

\* The next server is gone, or the number was closed.
WriteFails ==
    /\ Runs /\ wpc = "write" /\ fd[wfd] # "terminal"
    /\ IsConn(wfd) => conn[fd[wfd]].eof
    /\ wpc' = "close"
    /\ Use(wfd, {"next"})
    /\ cause' = TRUE
    /\ WriteError(wfd, npc)
    /\ UNCHANGED <<fd, conn, wfd, moves>> /\ Elsewhere

\* read_all: the answer of the next server, also when the number was closed while the
\* read waited; or what is typed, or what a client has sent, if the number is theirs.
Read ==
    /\ Runs /\ wpc = "read"
    /\ wpc' = "idle" /\ wfd' = 0
    /\ crossed' \in {crossed, crossed \/ (IsConn(wfd) /\ conn[fd[wfd]].buf # "none")}
    /\ UNCHANGED <<fd, conn, cause, moves>> /\ OnlyWorker

\* An error, or the end of the stream: read_all closes the number.  After the end of
\* the stream send_receive reads on, from a descriptor that it has closed.
ReadFails ==
    /\ Runs /\ wpc \in {"read", "read again"}
    /\ wpc' \in IF wpc = "read" THEN {"close", "close and read"} ELSE {"close"}
    /\ cause' = TRUE
    /\ UNCHANGED <<fd, conn, crossed, wfd, moves>> /\ OnlyWorker

CloseNext ==
    /\ Runs /\ wpc \in {"close", "close and read"}
    /\ Close(wfd, {"next", "terminal"})
    /\ IF wpc = "close" THEN wpc' = "idle" /\ wfd' = 0
       ELSE wpc' = "read again" /\ UNCHANGED wfd
    /\ UNCHANGED <<cause, moves>> /\ OnlyWorker

WorkerStep == Pick \/ Write \/ WriteFails \/ Read \/ ReadFails \/ CloseNext

-----------------------------------------------------------------------------
\* ZooKeeper's thread: child_watcher and connect_to_server.

OnlyWatcher == UNCHANGED <<socketfd, network, wpc, wfd>>

\* The chain has changed, and there is a next server or none.
SetNext ==
    /\ Runs /\ Move /\ zpc = "idle"
    /\ hasNext' \in BOOLEAN
    /\ zpc' = IF hasNext' THEN "socket" ELSE "idle"
    /\ UNCHANGED <<fd, nextSocket, zfd, conn, crossed, cause>> /\ OnlyWatcher

OpenSocket ==
    /\ Runs /\ zpc = "socket"
    /\ IF FreeNumbers = {} THEN zpc' = "idle" /\ UNCHANGED <<fd, zfd>>
       ELSE /\ fd' = [fd EXCEPT ![Lowest] = "next"]
            /\ zfd' = Lowest
            /\ zpc' = "connect"
    /\ UNCHANGED <<nextSocket, hasNext, moves, conn, crossed, cause>> /\ OnlyWatcher

AssignAnyway == zpc' = "assign" /\ UNCHANGED zfd        \* mutant: no return
Return == zpc' = "idle" /\ zfd' = 0

\* connect fails: close the new socket.
ConnectFails ==
    /\ Runs /\ zpc = "connect"
    /\ Close(zfd, {"next"})
    /\ Return
    /\ UNCHANGED <<nextSocket, hasNext, moves, cause>> /\ OnlyWatcher

\* connect succeeds: close(rtree.nextSocket).
CloseOld ==
    /\ Runs /\ zpc = "connect"
    /\ Close(nextSocket, {"next", "terminal"})
    /\ zpc' = "assign"
    /\ cause' = (cause \/ wpc # "idle")
    /\ UNCHANGED <<nextSocket, hasNext, zfd, moves>> /\ OnlyWatcher

Assign ==
    /\ Runs /\ zpc = "assign"
    /\ nextSocket' = zfd
    /\ zpc' = "idle" /\ zfd' = 0
    /\ UNCHANGED <<fd, hasNext, moves, conn, crossed, cause>> /\ OnlyWatcher

WatcherStep == SetNext \/ OpenSocket \/ ConnectFails \/ CloseOld \/ Assign

-----------------------------------------------------------------------------
ClientStep == Dial \/ \E c \in Conns : Ask(c) \/ AskRest(c) \/ HangUp(c)

Next ==
    \/ ClientStep \/ NetworkStep \/ Interrupt \/ WorkerStep \/ WatcherStep

Spec == Init /\ [][Next]_vars

\* The network thread runs.
FairSpec == Spec /\ WF_vars(NetworkStep)

-----------------------------------------------------------------------------
Messages == [from : Conns \union {"nobody", "closed", "heap"}, k : 0 .. MaxAsks]

\* Types and ranges of the variables (of no code in particular).
TypeOK ==
    /\ fd \in [Numbers -> Conns \union {"free", "terminal", "listening", "next"}]
    /\ socketfd \in Numbers \union {Invalid} /\ nextSocket \in Numbers /\ hasNext \in BOOLEAN
    /\ npc \in {"poll", "accept", "scan", "body", "unread", "send", "drop", "end", "restarted"}
    /\ pollset \in Seq([n : Numbers, revents : SUBSET {"in", "invalid"}])
    /\ npc \in {"scan", "body", "unread", "send", "drop"} => i \in 2 .. Len(pollset)
    /\ msg \in Messages
    /\ wpc \in {"idle", "write", "read", "close", "close and read", "read again"}
    /\ zpc \in {"idle", "socket", "connect", "assign"}
    /\ wfd \in Numbers /\ zfd \in Numbers
    /\ conn \in [Conns -> [st : {"new", "waiting", "accepted", "closed"}, eof : BOOLEAN,
                           buf : {"none", "half", "whole"}, asked : 0 .. MaxAsks,
                           out : Seq(Messages)]]
    /\ crossed \in BOOLEAN /\ cause \in BOOLEAN

\* What a client has been sent are the answers to its own requests, in their order and
\* once, although the numbers of closed connections are given to new ones.  The step in
\* which a thread first uses a number of another one counts as well: whatever that thread
\* writes then, it is no answer to another client (network_main_loop, network_receive,
\* network_send, write_all).
AnswersMatch ==
    \A c \in Conns :
        conn[c].out = [n \in 1 .. Len(conn[c].out) |-> [from |-> c, k |-> n]]

\* Every time the loop polls, the set holds the open connections, each once: none was
\* forgotten, and none is left of those that were closed up to three times (remove_fd,
\* read_all, write_all).
PollSetIsOpen ==
    ~crossed /\ npc = "poll" =>
        /\ \A j, m \in 2 .. Len(pollset) : j # m => pollset[j].n # pollset[m].n
        /\ {pollset[j].n : j \in 2 .. Len(pollset)} = {n \in Numbers : IsConn(n)}

\* No thread uses a number of another one unless a connection has failed, which closes
\* it twice, child_watcher replaced nextSocket while the worker was at it, or SIGINT closed
\* socketfd while the loop ran on: there is no fourth way (connect_to_server, send_receive,
\* read_all, write_all, network_server_close).
CrossingHasCause == crossed => cause

-----------------------------------------------------------------------------
\* Why AnswersMatch, PollSetIsOpen and CrossingHasCause hold: an invariant that every step
\* preserves.  The parts of Kept are about the states before a thread uses a number of
\* another.

\* A number is that of one connection, and an accepted connection has a number.
Sockets ==
    /\ \A n, m \in Numbers : IsConn(n) /\ fd[n] = fd[m] => n = m
    /\ \A c \in Conns : conn[c].st = "accepted" <=> c \in {fd[n] : n \in Numbers}

\* Only the first socket listens, and the set starts with it.
Listener ==
    /\ \A n \in Numbers : fd[n] = "listening" => n = 1
    /\ pollset # <<>> /\ pollset[1].n = 1

\* The answers of a connection are to its requests but, while it waits, the last.
Matched ==
    \A c \in Conns :
        /\ conn[c].out = [n \in 1 .. Len(conn[c].out) |-> [from |-> c, k |-> n]]
        /\ conn[c].asked \in {Len(conn[c].out), Len(conn[c].out) + 1}
        /\ conn[c].buf # "none" => conn[c].asked = Len(conn[c].out) + 1

\* The set has each number once, and poll found none of the connections closed.
Distinct ==
    /\ \A j, m \in DOMAIN pollset : pollset[j].n = pollset[m].n => j = m
    /\ \A j \in 2 .. Len(pollset) : "invalid" \notin pollset[j].revents

\* The loop is about to remove the entry at i, whose number it has closed.
Removing == npc = "drop" \/ (npc = "send" /\ msg.from \notin Conns)

\* The set holds the open connections, and the entry that is about to be removed.
Polled ==
    /\ \A j \in 2 .. Len(pollset) :
        IF Removing /\ j = i THEN ~IsConn(pollset[j].n) ELSE IsConn(pollset[j].n)
    /\ \A n \in Numbers : IsConn(n) => \E j \in 2 .. Len(pollset) : pollset[j].n = n

\* The message in hand is the request that the connection at i waits for.
InHand ==
    IF npc = "send" /\ msg.from \in Conns
    THEN /\ fd[Current] = msg.from
         /\ Peer.buf = "none" /\ msg.k = Len(Peer.out) + 1 /\ Peer.asked = msg.k
    ELSE msg.from \notin Conns

\* Before any cause, no connection has ended and the socket that listens is open.
NoneGone ==
    /\ \A c \in Conns : ~conn[c].eof
    /\ npc \notin {"unread", "drop", "restarted"} /\ ~Removing
    /\ socketfd = 1 /\ (npc # "end" => fd[1] = "listening")

\* ... and the worker and ZooKeeper's thread hold the numbers they opened.
Owned ==
    /\ wpc \in {"idle", "write", "read"}
    /\ wpc # "idle" => wfd = nextSocket /\ zpc # "assign"
    /\ zpc # "assign" => fd[nextSocket] \in {"next", "terminal"}
    /\ zpc \in {"connect", "assign"} => fd[zfd] = "next"
    /\ zpc = "connect" => zfd # nextSocket

Kept ==
    /\ Sockets /\ Listener /\ Matched /\ Distinct
    /\ npc \notin {"end", "restarted"} => Polled /\ InHand
    /\ ~cause => NoneGone /\ Owned

SInv == TypeOK /\ CrossingHasCause /\ AnswersMatch /\ (~crossed => Kept)

-----------------------------------------------------------------------------
\* A request that has arrived as a whole is answered in the end, unless its client goes,
\* another client never sends the rest of its request, or the server ends
\* (network_main_loop).
EveryRequestIsAnswered ==
    <>[](npc = "body" \/ ~Runs \/ \A c \in Conns : conn[c].buf = "whole" => conn[c].eof)

\* The number of a connection whose client has gone is free again in the end, also when
\* remove_fd makes the loop pass over an entry (network_main_loop, remove_fd).
GoneIsClosed ==
    <>[](npc = "body" \/ ~Runs \/ \A c \in Conns : conn[c].st = "accepted" => ~conn[c].eof)

=============================================================================
