------------------------------ MODULE ClientStub ------------------------------
(***************************************************************************)
(* The connections of a client: rtree_connect, the commands and            *)
(* rtree_disconnect on the main thread (source/client_stub.c,              *)
(* source/tree_client.c), child_watcher on ZooKeeper's thread, and         *)
(* source/network_client.c, which both use.  child_watcher closes the      *)
(* sockets in rtree_stub, frees it and connects a new one, but the         *)
(* commands go on with the pointer rtree_connect returned: they read the   *)
(* numbers of the old sockets from freed memory.                           *)
(*                                                                         *)
(* Servers are numbers in the order in which they join, as their nodes     *)
(* are.  Of the descriptors only those the client's sockets get are        *)
(* modelled.  The client's session does not end before the client.         *)
(***************************************************************************)
EXTENDS Integers, FiniteSets

CONSTANTS
    MaxServers, \* bound: servers that ever join
    MaxFd,      \* the descriptors the process may still open
    MaxCalls    \* bound: calls of network_send_receive

ASSUME ClientStubAssumption ==
    /\ {MaxServers, MaxFd, MaxCalls} \subseteq Nat
    /\ MaxServers > 0 /\ MaxFd > 1

Servers == 1 .. MaxServers
Numbers == 1 .. MaxFd
Roles == {"head", "tail"}

VARIABLES
    nodes, alive, created,  \* the children of /chain, the servers that run, the last one
    watch, event,   \* the client's watch on /chain, and its notification on its way
    status,     \* the process: up, quit, exit, or undefined: not followed any further
    fd,         \* each descriptor: connected to which server, opened for which role
    mine,       \* the descriptors in the structure tree_client.c's rtree points to
    stub,       \* ... and in the one client_stub.c's rtree_stub points to
    freed,      \* whether the first of them was freed
    mpc, mfd,   \* main thread: where it is, the descriptor network_send_receive uses
    peer,       \* ... the server its request or its connection is for
    held,       \* ... whether that descriptor was not closed since
    zpc, list,  \* ZooKeeper's thread: where it is, the children it has read
    new,        \* the sockets network_connect has opened
    calls,      \* how many calls there were
    \* History, read by no action of the code:
    died, raced,    \* whether a server died; whether a call and child_watcher overlapped
    failed, headFailures,   \* whether a call failed, how many of those to the head did
    astray      \* whether the main thread closed a socket it did not use

zookeeper == <<nodes, alive, created, watch, event>>
rtrees == <<mine, stub, freed>>
main == <<mpc, mfd, peer, held>>
watcher == <<zpc, list, new>>
history == <<died, raced, failed, headFailures, astray>>
vars == <<zookeeper, status, fd, rtrees, main, watcher, calls, history>>

Nobody == 0
Free == [to |-> Nobody, role |-> "none"]
NoPair == [head |-> 0, tail |-> 0]

FirstOf(S) == CHOOSE n \in S : \A m \in S : n <= m
LastOf(S) == CHOOSE n \in S : \A m \in S : n >= m
ServerOf(role, S) == IF role = "head" THEN FirstOf(S) ELSE LastOf(S)

Init ==
    /\ created \in 1 .. MaxServers /\ nodes = 1 .. created /\ alive = nodes
    /\ watch = FALSE /\ event = FALSE /\ status = "up"
    /\ fd = [n \in Numbers |-> Free]
    /\ mine = NoPair /\ stub = NoPair /\ freed = FALSE
    /\ mpc = "connect" /\ mfd = 0 /\ peer = Nobody /\ held = FALSE
    /\ zpc = "idle" /\ list = {} /\ new = NoPair
    /\ calls = 0 /\ died = FALSE /\ raced = FALSE
    /\ failed = FALSE /\ headFailures = 0 /\ astray = FALSE

Up == status = "up"

\* The process ends, and what it has is gone.
Ends(how) ==
    /\ status' = how
    /\ fd' = [n \in Numbers |-> Free]
    /\ mine' = NoPair /\ stub' = NoPair /\ freed' = FALSE
    /\ mpc' = "idle" /\ mfd' = 0 /\ peer' = Nobody /\ held' = FALSE
    /\ zpc' = "idle" /\ list' = {} /\ new' = NoPair

-----------------------------------------------------------------------------
\* The chain and ZooKeeper.

OnlyChain ==
    UNCHANGED <<status, fd, rtrees, main, watcher, calls, raced, failed, headFailures, astray>>

\* The children of /chain change: a watch is used up and its notification sent.
Children(S) ==
    /\ nodes' = S
    /\ event' = (event \/ watch)
    /\ watch' = FALSE

Join ==
    /\ Up /\ created < MaxServers
    /\ created' = created + 1
    /\ alive' = alive \union {created + 1}
    /\ Children(nodes \union {created + 1})
    /\ UNCHANGED died /\ OnlyChain

Die(s) ==
    /\ Up /\ s \in alive
    /\ alive' = alive \ {s}
    /\ died' = TRUE
    /\ UNCHANGED <<nodes, created, watch, event>> /\ OnlyChain

\* The session of a server that died ends, and its node is gone.
Expire(s) ==
    /\ Up /\ s \in nodes \ alive
    /\ Children(nodes \ {s})
    /\ UNCHANGED <<alive, created, died>> /\ OnlyChain

-----------------------------------------------------------------------------
\* network_connect and network_close, on either thread.

FreeNumbers == {n \in Numbers : fd[n] = Free}
Lowest == CHOOSE n \in FreeNumbers : \A m \in FreeNumbers : n <= m

\* socket() for the role.
OpenFor(role) ==
    /\ fd' = [fd EXCEPT ![Lowest] = [to |-> Nobody, role |-> role]]
    /\ new' = [new EXCEPT ![role] = Lowest]

\* connect() succeeds on both sockets.
BothConnect ==
    /\ FirstOf(list) \in alive /\ LastOf(list) \in alive
    /\ new.head # new.tail
    /\ \A role \in Roles : fd[new[role]] # Free

\* mutant: the tail's address for both
ConnectedToTail == [n \in Numbers |->
    IF n \in {new.head, new.tail} THEN [fd[n] EXCEPT !.to = LastOf(list)] ELSE fd[n]]
Connected == [n \in Numbers |->
    IF n = new.head THEN [to |-> FirstOf(list), role |-> "head"]
    ELSE IF n = new.tail THEN [to |-> LastOf(list), role |-> "tail"] ELSE fd[n]]

\* After close() of n, whether the main thread still has what it uses.
KeepsHeld(n) == held /\ mfd # n

-----------------------------------------------------------------------------
\* The main thread: rtree_connect.

OnlyMain == UNCHANGED <<zookeeper, calls, history>>
Step(label) == mpc' = label /\ UNCHANGED <<mfd, peer, held>>

\* zoo_wget_children; without children rtree_connect returns NULL and main ends.
WatchChain ==
    /\ mpc = "connect"
    /\ watch' = TRUE
    /\ IF nodes = {} THEN Ends("quit")
       ELSE /\ list' = nodes /\ Step("addresses")
            /\ UNCHANGED <<status, fd, rtrees, zpc, new>>
    /\ UNCHANGED <<nodes, alive, created, event, calls, history>>

\* set_rtree reads the addresses of both.  A node that is gone by then (ZNONODE) is no
\* error for it, and what the buffers hold is taken for an address.
Addresses ==
    /\ mpc = "addresses"
    /\ IF {FirstOf(list), LastOf(list)} \subseteq nodes
       THEN Step("head_socket") /\ UNCHANGED <<status, fd, rtrees, watcher>>
       ELSE Ends("exit")
    /\ OnlyMain

OpenSocket(role, label) ==
    /\ mpc = label
    /\ IF FreeNumbers = {} THEN Ends("exit")
       ELSE /\ OpenFor(role)
            /\ Step(IF role = "head" THEN "tail_socket" ELSE "dial")
            /\ UNCHANGED <<status, rtrees, zpc, list>>
    /\ OnlyMain

\* connect, twice; if it fails rtree_connect returns NULL and main ends.
Dial ==
    /\ mpc = "dial"
    /\ IF BothConnect
       THEN /\ mine' = new /\ stub' = new
            /\ fd' = Connected /\ list' = {} /\ new' = NoPair
            /\ Step("idle")
            /\ UNCHANGED <<status, freed, zpc>>
       ELSE Ends("quit")
    /\ OnlyMain

Connecting == mpc \in {"connect", "addresses", "head_socket", "tail_socket", "dial"}

-----------------------------------------------------------------------------
\* The main thread: a command, which is a call of network_send_receive or several.

OnlyCall == UNCHANGED <<zookeeper, status, fd, rtrees, watcher, calls, died, raced>>
NoFailure == UNCHANGED <<failed, headFailures, astray>>

\* The role by the opcode: put and del go to the head, the rest to the tail.  The
\* number is read from the structure, freed or not.
Call(role) ==
    /\ mpc = "idle" /\ calls < MaxCalls
    /\ calls' = calls + 1
    /\ mfd' = mine[role]
    /\ peer' = fd[mine[role]].to
    /\ held' = (fd[mine[role]] # Free)
    /\ mpc' = "write"
    /\ raced' = (raced \/ zpc # "idle")
    /\ UNCHANGED <<zookeeper, status, fd, rtrees, watcher, died>> /\ NoFailure

\* Freed memory may hold anything: it is followed only while it holds the numbers.
Garbage ==
    /\ mpc = "idle" /\ calls < MaxCalls /\ freed
    /\ Ends("undefined")
    /\ OnlyMain

RefusedIfClosed == fd[mfd].to = Nobody          \* mutant: a write that fails is tried again
Refused == fd[mfd].to \notin alive

\* write_all on whatever the number is by now.
Write ==
    /\ mpc = "write" /\ fd[mfd].to \in alive
    /\ mpc' = "sent" /\ peer' = fd[mfd].to /\ held' = TRUE
    /\ UNCHANGED mfd /\ NoFailure /\ OnlyCall

\* On a socket of child_watcher's that is not yet connected it fails too.
WriteFails ==
    /\ mpc = "write" /\ Refused
    /\ held' = (held /\ fd[mfd].to # Nobody)
    /\ mpc' = "close" /\ UNCHANGED <<mfd, peer>>
    /\ NoFailure /\ OnlyCall

\* read_all begins: on the connection the request went out on; on a number closed
\* since, which fails; or on the connection that has the number now, where no answer
\* will come.
StartRead ==
    /\ mpc \in {"sent", "again"}
    /\ IF mpc = "sent" /\ held THEN Step("read")
       ELSE IF fd[mfd].to = Nobody THEN Step("close")
       ELSE /\ mpc' = IF mpc = "sent" THEN "wait" ELSE "wait_again"
            /\ peer' = fd[mfd].to /\ held' = TRUE
            /\ UNCHANGED mfd
    /\ NoFailure /\ OnlyCall

ReturnOnly == mpc' = "idle" /\ UNCHANGED <<mfd, peer, held>>    \* mutant: not reset
Return == mpc' = "idle" /\ mfd' = 0 /\ peer' = Nobody /\ held' = FALSE

\* The answer comes also if the number was closed while read_all waited.
Answered ==
    /\ mpc = "read" /\ peer \in alive
    /\ Return
    /\ NoFailure /\ OnlyCall

\* The server at the other end is gone.  If read returns 0 for the size, the answer is
\* read from the number that read_all has closed, or taken as empty.
ReadFails ==
    /\ mpc \in {"read", "wait", "wait_again"} /\ peer \notin alive
    /\ mpc' \in IF mpc = "wait_again" THEN {"close"} ELSE {"close", "close_again"}
    /\ UNCHANGED <<mfd, peer, held>> /\ NoFailure /\ OnlyCall

\* read_all or write_all closes the number, whatever it is by now.
CloseFailed ==
    /\ mpc \in {"close", "close_again"}
    /\ fd' = [fd EXCEPT ![mfd] = Free]
    /\ failed' = TRUE
    /\ headFailures' = headFailures + (IF mfd = mine.head THEN 1 ELSE 0)
    /\ astray' = (astray \/ (fd[mfd] # Free /\ ~held))
    /\ IF mpc = "close" THEN Return
       ELSE mpc' = "again" /\ held' = FALSE /\ UNCHANGED <<mfd, peer>>
    /\ UNCHANGED <<zookeeper, status, rtrees, watcher, calls, died, raced>>

\* quit, or SIGINT anywhere: rtree_disconnect and exit.
Quit ==
    /\ Up /\ ~Connecting
    /\ Ends("quit")
    /\ OnlyMain

MainStep ==
    /\ Up
    /\ \/ WatchChain \/ Addresses \/ OpenSocket("head", "head_socket")
       \/ OpenSocket("tail", "tail_socket") \/ Dial
       \/ Write \/ WriteFails \/ StartRead \/ Answered \/ ReadFails \/ CloseFailed

Command == Up /\ (Garbage \/ \E role \in Roles : Call(role))

-----------------------------------------------------------------------------
\* ZooKeeper's thread: child_watcher.

OnlyWatcher ==
    UNCHANGED <<nodes, alive, created, calls, died, failed, headFailures, astray>>
StepZ(label) == zpc' = label /\ UNCHANGED <<list, new>>
Still == UNCHANGED <<status, fd, rtrees, main>>

\* The notification is delivered.  During rtree_connect it finds rtree_stub NULL, or
\* its sockets not yet set: what happens then is not followed.
Deliver ==
    /\ event /\ zpc = "idle"
    /\ event' = FALSE
    /\ IF Connecting THEN Ends("undefined")
       ELSE StepZ("children") /\ Still
    /\ raced' = (raced \/ mpc # "idle")
    /\ UNCHANGED watch /\ OnlyWatcher

NoWatch == UNCHANGED watch                      \* mutant: zoo_get_children
NewWatch == watch' = TRUE

\* zoo_wget_children; without children the process exits.
GetChildren ==
    /\ zpc = "children"
    /\ NewWatch
    /\ IF nodes = {} THEN Ends("exit")
       ELSE /\ list' = nodes /\ zpc' = "close_head" /\ UNCHANGED new
            /\ Still
    /\ UNCHANGED <<event, raced>> /\ OnlyWatcher

TailTwice(role) == stub.tail                    \* mutant: the tail's for both
ToClose(role) == stub[role]

AfterHeadOnly(open) == "free"                   \* mutant: the tail's is never closed
\* network_close returns if the head's socket was closed already.
AfterHead(open) == IF open THEN "close_tail" ELSE "free"

CloseHead ==
    /\ zpc = "close_head"
    /\ fd' = [fd EXCEPT ![ToClose("head")] = Free]
    /\ held' = KeepsHeld(ToClose("head"))
    /\ StepZ(AfterHead(fd[ToClose("head")] # Free))
    /\ UNCHANGED <<status, rtrees, mpc, mfd, peer, watch, event, raced>> /\ OnlyWatcher

CloseTail ==
    /\ zpc = "close_tail"
    /\ fd' = [fd EXCEPT ![ToClose("tail")] = Free]
    /\ held' = KeepsHeld(ToClose("tail"))
    /\ StepZ("free")
    /\ UNCHANGED <<status, rtrees, mpc, mfd, peer, watch, event, raced>> /\ OnlyWatcher

\* free(rtree_stub) and set_rtree, whose malloc may return the memory rtree points to;
\* as in Addresses a node may be gone.
NewRtree ==
    /\ zpc = "free"
    /\ IF {FirstOf(list), LastOf(list)} \subseteq nodes
       THEN /\ StepZ("head_socket") /\ freed' \in BOOLEAN
            /\ UNCHANGED <<status, fd, mine, stub, main>>
       ELSE Ends("exit")
    /\ UNCHANGED <<watch, event, raced>> /\ OnlyWatcher

Reopen(role, label) ==
    /\ zpc = label
    /\ IF FreeNumbers = {} THEN Ends("exit")
       ELSE /\ OpenFor(role)
            /\ zpc' = IF role = "head" THEN "tail_socket" ELSE "dial"
            /\ UNCHANGED <<status, rtrees, main, list>>
    /\ UNCHANGED <<watch, event, raced>> /\ OnlyWatcher

\* connect, twice; if it fails the process exits.
Redial ==
    /\ zpc = "dial"
    /\ IF BothConnect
       THEN /\ stub' = new
            /\ mine' = IF freed THEN mine ELSE new
            /\ fd' = Connected /\ list' = {} /\ new' = NoPair
            /\ zpc' = "idle"
            /\ UNCHANGED <<status, freed, main>>
       ELSE Ends("exit")
    /\ UNCHANGED <<watch, event, raced>> /\ OnlyWatcher

WatcherStep ==
    /\ Up
    /\ \/ Deliver \/ GetChildren \/ CloseHead \/ CloseTail \/ NewRtree
       \/ Reopen("head", "head_socket") \/ Reopen("tail", "tail_socket") \/ Redial

-----------------------------------------------------------------------------
Next ==
    \/ Join \/ (\E s \in Servers : Die(s) \/ Expire(s))
    \/ MainStep \/ Command \/ Quit \/ WatcherStep

Spec == Init /\ [][Next]_vars

\* Both threads run, and ZooKeeper ends the session of a server that died.  Nothing
\* makes the user give a command, or servers die or join.
FairSpec ==
    /\ Spec
    /\ WF_vars(MainStep) /\ WF_vars(WatcherStep)
    /\ WF_vars(\E s \in Servers : Expire(s))

-----------------------------------------------------------------------------
Pairs == [head : Numbers \union {0}, tail : Numbers \union {0}]

\* Types and ranges of the variables (of no code in particular).
TypeOK ==
    /\ created \in Servers /\ alive \subseteq nodes /\ nodes \subseteq 1 .. created
    /\ watch \in BOOLEAN /\ event \in BOOLEAN
    /\ status \in {"up", "quit", "exit", "undefined"}
    /\ fd \in [Numbers -> [to : Servers \union {Nobody}, role : Roles] \union {Free}]
    /\ mine \in Pairs /\ stub \in Pairs /\ freed \in BOOLEAN
    /\ mpc \in {"connect", "addresses", "head_socket", "tail_socket", "dial", "idle", "write",
                "sent", "again", "read", "wait", "wait_again", "close", "close_again"}
    /\ mfd \in Numbers \union {0} /\ peer \in Servers \union {Nobody} /\ held \in BOOLEAN
    /\ zpc \in {"idle", "children", "close_head", "close_tail", "free", "head_socket",
                "tail_socket", "dial"}
    /\ list \subseteq Servers /\ new \in Pairs /\ calls \in 0 .. MaxCalls
    /\ died \in BOOLEAN /\ raced \in BOOLEAN /\ failed \in BOOLEAN
    /\ headFailures \in 0 .. 2 * MaxCalls /\ astray \in BOOLEAN
    /\ mpc = "idle" => mfd = 0 /\ peer = Nobody /\ ~held

Resting == Up /\ ~Connecting /\ zpc = "idle"

\* The commands use the numbers of sockets that were closed and freed, and yet, unless a
\* call has failed, these are the numbers of the new sockets, to the first and the last
\* of the servers there are now (child_watcher, network_close, network_connect).
NumbersComeBack ==
    Resting /\ ~failed =>
        /\ mine = stub
        /\ ~event => \A role \in Roles : fd[mine[role]].to = ServerOf(role, nodes)

\* Whatever fails, and however often sockets are closed and opened, the number a write
\* goes to is never a socket to a tail, nor that of a read one to a head.
RolesKept ==
    Up /\ ~Connecting =>
        \A role \in Roles : fd[mine[role]].to # Nobody => fd[mine[role]].role = role

Leaked == {n \in Numbers : fd[n] # Free} \ {stub.head, stub.tail}

\* network_close leaves the tail's socket open when the head's was closed by a call that
\* failed, and only then: no more sockets are lost than calls to the head have failed.
LeaksAreFailures == Resting => Cardinality(Leaked) <= headFailures

\* While no server dies and no call overlaps child_watcher no call fails and the client
\* does not exit, however many servers join (child_watcher, network_send_receive).
SmoothJoins == ~died /\ ~raced => ~failed /\ status # "exit"

-----------------------------------------------------------------------------
\* Why these hold: an invariant that every step preserves.  The argument is about numbers:
\* socket() takes the lowest that is free and each thread opens the head's socket first, so
\* the head's is always 1.

Opened == {n \in Numbers : fd[n] # Free}

\* Both structures have 1 for the head and another number for the tail.
Placed ==
    /\ mine.head = 1 /\ mine.tail \in 2 .. MaxFd
    /\ stub.head = 1 /\ stub.tail \in 2 .. MaxFd
    /\ mpc # "idle" => mfd \in Numbers

\* A connection on 1 is to a head and one on another number to a tail.
Sided ==
    \A n \in Numbers :
        fd[n].to # Nobody => fd[n].role = IF n = 1 THEN "head" ELSE "tail"

\* rtree_connect opens 1 and then 2; no call is under way and the watcher waits.
FirstSockets ==
    /\ zpc = "idle" /\ (mpc # "connect" => list # {})
    /\ mfd = 0 /\ peer = Nobody /\ ~held
    /\ Opened = CASE mpc = "tail_socket" -> {1} [] mpc = "dial" -> {1, 2} [] OTHER -> {}
    /\ mpc \in {"tail_socket", "dial"} => new.head = 1
    /\ mpc = "dial" => new.tail = 2

\* From its close until child_watcher opens it again, 1 is free.
Reopened ==
    /\ zpc \in {"close_tail", "free", "head_socket"} => fd[1] = Free
    /\ zpc \in {"tail_socket", "dial"} => new.head = 1
    /\ zpc = "dial" => new.tail \in Numbers
    /\ zpc \notin {"idle", "children"} => list # {}

\* The numbers that are in a structure, or will be.
Reserved ==
    CASE zpc \in {"free", "head_socket", "tail_socket"} -> {1}
      [] zpc = "dial" -> {1, new.tail}
      [] OTHER -> {1, stub.tail}

\* A call has closed the head's socket: network_close will not close the tail's.
Owed == IF fd[1] = Free /\ zpc \notin {"close_tail", "free", "head_socket"} THEN 1 ELSE 0

Leaking == Cardinality(Opened \ Reserved) + Owed <= headFailures

\* What is open as long as no call has failed.
Unfailed ==
    /\ mine = [head |-> 1, tail |-> 2] /\ stub = mine
    /\ Opened = CASE zpc = "close_tail" -> {2}
                  [] zpc \in {"free", "head_socket"} -> {}
                  [] zpc = "tail_socket" -> {1}
                  [] OTHER -> {1, 2}
    /\ zpc = "dial" => new = mine

\* While no notification is on its way, what was read of /chain is still so.
Watched ==
    /\ watch
    /\ Connecting \/ zpc # "idle" => list = nodes
    /\ Resting /\ ~failed =>
        \A role \in Roles : fd[mine[role]].to = ServerOf(role, nodes)

\* While no server dies and no call overlaps child_watcher, a call finds its server.
Smooth ==
    /\ list \subseteq nodes /\ ~failed
    /\ zpc # "idle" => mpc = "idle"
    /\ Connecting \/ mpc \in {"idle", "write", "sent", "read"}
    /\ mpc \in {"write", "sent", "read"} => mfd \in {1, 2}
    /\ mpc = "sent" => held
    /\ mpc \in {"sent", "read"} => peer \in alive
    /\ ~Connecting /\ zpc \in {"idle", "children", "close_head"} =>
        fd[1].to \in alive /\ fd[2].to \in alive

\* How often the call under way may still fail, and how often calls can have failed.
MayFail ==
    CASE Connecting \/ mpc = "idle" -> 0
      [] mpc \in {"again", "wait_again", "close"} -> 1
      [] OTHER -> 2
Counted == headFailures + MayFail <= 2 * calls

Kept ==
    /\ Sided /\ Reopened
    /\ Connecting => FirstSockets
    /\ ~Connecting => Placed /\ Leaking
    /\ ~Connecting /\ ~failed => Unfailed
    /\ mpc # "connect" /\ zpc # "children" /\ ~event => Watched
    /\ ~died => alive = nodes /\ nodes # {}
    /\ ~died /\ ~raced => Smooth

UInv == TypeOK /\ Counted /\ SmoothJoins /\ (Up => Kept)

-----------------------------------------------------------------------------
\* Once servers have stopped coming and going, the stub is connected to the first and
\* the last of them, unless the process has ended or a call that failed has closed one
\* of the new sockets (child_watcher).
StubFollows ==
    <>[](~Up \/ astray \/
         (~Connecting /\ nodes # {} /\
          \A role \in Roles : fd[stub[role]].to = ServerOf(role, nodes)))

\* A call returns, also when the server dies or child_watcher closes the socket under
\* it, unless it began to read on a socket it has not written to
\* (network_send_receive, read_all).
CallsReturn == <>[](~Up \/ mpc \in {"idle", "wait", "wait_again"})
=============================================================================
