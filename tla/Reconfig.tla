------------------------------- MODULE Reconfig -------------------------------
(***************************************************************************)
(* Writes in a chain whose servers come and go: Membership together with   *)
(* the worker of each server (process_request, propagate_request and       *)
(* send_receive in source/tree_skel.c), which uses zNextNode and           *)
(* nextSocket while child_watcher, on ZooKeeper's thread, changes them.    *)
(*                                                                         *)
(* A write is its number, in the order in which clients sent them; what a  *)
(* server does with its content is in TreeSkel and Chain.  Here it         *)
(* succeeds or fails (Outcomes).                                           *)
(***************************************************************************)
EXTENDS Membership, Sequences

CONSTANTS
    MaxWrites,  \* bound: writes the clients send
    MaxTroubles,    \* bound: deaths of servers and cuts together
    Outcomes    \* whether put and del may fail: {TRUE} or {TRUE, FALSE}

ASSUME ReconfigAssumption ==
    /\ MaxWrites \in Nat /\ MaxTroubles \in Nat
    /\ TRUE \in Outcomes /\ Outcomes \subseteq BOOLEAN

VARIABLES
    queue,      \* the writes in the queue of each server
    log,        \* the writes it has run
    wpc, hand,  \* its worker: where it is, the write in its hands
    peer,       \* ... the server at the other end of the socket it has read from rtree
    held,       \* ... whether that descriptor is still the one in rtree.nextSocket
    up,         \* whether rtree.nextSocket is an open connection
    zero,       \* whether descriptor 0, the terminal, was closed by a failed write
    wire,       \* the writes on their way to each server
    sent,       \* how many writes clients have sent
    \* History, read by no action of the code:
    overtaken,  \* whether a connection was faster than another one
    expelled    \* the servers whose session ended while they ran

worker == <<wpc, hand, peer, held>>
link == <<up, zero, wire>>
history == <<overtaken, expelled>>
chain == <<queue, log, worker, link, sent, history>>
rvars == <<vars, chain>>

Writes == 1 .. MaxWrites
NoWrite == 0

ReconfigInit ==
    /\ Init
    /\ queue = [s \in Servers |-> <<>>] /\ log = [s \in Servers |-> <<>>]
    /\ wpc = [s \in Servers |-> "lock"] /\ hand = [s \in Servers |-> NoWrite]
    /\ peer = [s \in Servers |-> None] /\ held = [s \in Servers |-> FALSE]
    /\ up = [s \in Servers |-> FALSE] /\ zero = [s \in Servers |-> FALSE]
    /\ wire = [s \in Servers |-> <<>>]
    /\ sent = 0 /\ overtaken = FALSE /\ expelled = {}

RangeOf(q) == {q[i] : i \in DOMAIN q}

Without(q, i) == [j \in 1 .. Len(q) - 1 |-> IF j < i THEN q[j] ELSE q[j + 1]]

-----------------------------------------------------------------------------
\* Clients, which know the chain as it is.

EnqueueFront(q, w) == <<w>> \o q                \* mutant: a stack
Enqueue(q, w) == Append(q, w)

\* rtree_put: the first server of the chain takes the write.
SendWrite ==
    /\ sent < MaxWrites /\ nodes # {}
    /\ LET h == FirstOf(nodes)
       IN  h \in listening /\ queue' = [queue EXCEPT ![h] = Enqueue(@, sent + 1)]
    /\ sent' = sent + 1
    /\ UNCHANGED <<vars, log, worker, link, history>>

-----------------------------------------------------------------------------
\* The worker of a server.

OnlyWorker == UNCHANGED <<vars, queue, log, wire, sent, history>>

\* The worker is done with its write, whatever became of it.
DoneWith(s) ==
    /\ wpc' = [wpc EXCEPT ![s] = "lock"]
    /\ hand' = [hand EXCEPT ![s] = NoWrite]
    /\ peer' = [peer EXCEPT ![s] = None]
    /\ held' = [held EXCEPT ![s] = FALSE]

SendAgain(s) ==                                 \* mutant: send_receive tries again
    wpc' = [wpc EXCEPT ![s] = "pick"] /\ UNCHANGED <<hand, peer, held>>
Forget(s) ==                                    \* mutant: the descriptor is kept
    wpc' = [wpc EXCEPT ![s] = "lock"] /\ UNCHANGED <<hand, peer, held>>
\* write_all or read_all has failed: send_receive returns, and nobody is told.
GiveUp(s) == DoneWith(s)

At(s, label) == wpc[s] = label
StepTo(s, label) == wpc' = [wpc EXCEPT ![s] = label]

\* process_request up to the end of put/del.
Process(s) ==
    /\ At(s, "lock") /\ queue[s] # <<>>
    /\ queue' = [queue EXCEPT ![s] = Tail(@)]
    /\ log' = [log EXCEPT ![s] = Append(@, Head(queue[s]))]
    /\ \/ /\ StepTo(s, "pick")
          /\ hand' = [hand EXCEPT ![s] = Head(queue[s])]
          /\ UNCHANGED <<peer, held>>
       \/ /\ FALSE \in Outcomes
          /\ UNCHANGED worker
    /\ UNCHANGED <<vars, link, sent, history>>

\* propagate_request and send_receive: is there a next server, and on which socket.
Pick(s) ==
    /\ At(s, "pick")
    /\ IF zNextNode[s] = None THEN DoneWith(s)
       ELSE /\ peer' = [peer EXCEPT ![s] = nextSocket[s]]
            /\ held' = [held EXCEPT ![s] = TRUE]
            /\ StepTo(s, "write")
            /\ UNCHANGED hand
    /\ UNCHANGED link /\ OnlyWorker

\* The socket is a connection to a server that runs.
Connected(s) == held[s] /\ up[s] /\ peer[s] \in alive

\* write_all: the write is on its way.
WriteOut(s) ==
    /\ At(s, "write") /\ Connected(s)
    /\ wire' = [wire EXCEPT ![peer[s]] = Append(@, [from |-> s, w |-> hand[s]])]
    /\ StepTo(s, "sent")
    /\ UNCHANGED <<vars, queue, log, hand, peer, held, up, zero, sent, history>>

\* The number in nextSocket is 0: it starts as 0, and once descriptor 0 is closed
\* the next connection gets that number.
IsZero(s) == held[s] /\ (peer[s] = None \/ (zero[s] /\ ~up[s]))

\* The other end is gone, or the descriptor closed: write_all fails and closes it.
WriteFails(s) ==
    /\ At(s, "write") /\ ~Connected(s)
    /\ GiveUp(s)
    /\ up' = IF held[s] THEN [up EXCEPT ![s] = FALSE] ELSE up
    /\ zero' = IF IsZero(s) THEN [zero EXCEPT ![s] = TRUE] ELSE zero
    /\ UNCHANGED wire /\ OnlyWorker

\* Descriptor 0 is the terminal, or a client's connection: write_all succeeds, and
\* read_all waits for what somebody will type or send.
WriteAstray(s) ==
    /\ At(s, "write") /\ IsZero(s)
    /\ StepTo(s, "stray")
    /\ UNCHANGED <<hand, peer, held, link>> /\ OnlyWorker

StrayEnds(s) ==
    /\ At(s, "stray")
    /\ DoneWith(s)
    /\ zero' \in {zero, [zero EXCEPT ![s] = TRUE]}
    /\ UNCHANGED <<up, wire>> /\ OnlyWorker

\* read_all: on a descriptor that was closed meanwhile it fails at once, and
\* otherwise it waits.
StartRead(s) ==
    /\ At(s, "sent")
    /\ IF held[s] THEN StepTo(s, "read") /\ UNCHANGED <<hand, peer, held>>
       ELSE GiveUp(s)
    /\ UNCHANGED link /\ OnlyWorker

OnTheWire(s, t, w) == \E i \in DOMAIN wire[t] : wire[t][i] = [from |-> s, w |-> w]

\* The answer has come, or, if the other end has died, none will.
Answered(s) ==
    /\ At(s, "read") /\ peer[s] \in alive /\ ~OnTheWire(s, peer[s], hand[s])
    /\ DoneWith(s)
    /\ UNCHANGED link /\ OnlyWorker

NoticesNothing(s) == FALSE                      \* mutant: read_all waits for ever
NoticesDeath(s) == peer[s] \notin alive

ReadFails(s) ==
    /\ At(s, "read") /\ NoticesDeath(s)
    /\ GiveUp(s)
    /\ up' = IF held[s] THEN [up EXCEPT ![s] = FALSE] ELSE up
    /\ UNCHANGED <<zero, wire>> /\ OnlyWorker

-----------------------------------------------------------------------------
\* The network.

\* The network thread of t reads a write from one of its connections: queue_add.
Arrive(t) ==
    /\ t \in listening
    /\ \E i \in DOMAIN wire[t] :
        /\ queue' = [queue EXCEPT ![t] = Enqueue(@, wire[t][i].w)]
        /\ wire' = [wire EXCEPT ![t] = Without(@, i)]
        /\ overtaken' = (overtaken \/ i > 1)
    /\ UNCHANGED <<vars, log, worker, up, zero, sent, expelled>>

Awaited(t, m) ==
    wpc[m.from] \in {"sent", "read"} /\ peer[m.from] = t /\ hand[m.from] = m.w

\* What a server sent on a connection that it closed, or that closed as it died, may
\* be lost.
Lose(t) ==
    /\ \E i \in DOMAIN wire[t] :
        /\ ~Awaited(t, wire[t][i])
        /\ wire' = [wire EXCEPT ![t] = Without(@, i)]
    /\ UNCHANGED <<vars, queue, log, worker, up, zero, sent, history>>

-----------------------------------------------------------------------------
\* The actions of Membership, and what they do to the writes.

\* connect_to_server closes the old socket and assigns the new one.  If descriptor 0 is
\* closed the new one may be it, which close(rtree.nextSocket), still 0, closes at once.
Replace(s) == \E b \in IF zero[s] THEN BOOLEAN ELSE {TRUE} : up' = [up EXCEPT ![s] = b]

Reconnect(s, t) ==
    /\ Connect(s, t)
    /\ Replace(s)
    /\ held' = [held EXCEPT ![s] = FALSE]
    /\ UNCHANGED <<queue, log, wpc, hand, peer, zero, wire, sent, history>>

\* The deaths and the cuts so far.
Troubles == cuts + created - Cardinality(alive)
Bounded == cuts' = cuts \/ Troubles < MaxTroubles

\* The process dies: its tree, its queue and what was on its way to it are gone.
Die(s) ==
    /\ Troubles < MaxTroubles
    /\ Crash(s)
    /\ queue' = [queue EXCEPT ![s] = <<>>] /\ log' = [log EXCEPT ![s] = <<>>]
    /\ DoneWith(s)
    /\ up' = [up EXCEPT ![s] = FALSE] /\ zero' = [zero EXCEPT ![s] = FALSE]
    /\ wire' = [wire EXCEPT ![s] = <<>>]
    /\ UNCHANGED <<sent, history>>

Join(s) == Register(s) /\ UNCHANGED chain

\* The server may still run: its connections stay, and it goes on with what it has.
End(s) ==
    /\ Expire(s) /\ Bounded
    /\ expelled' = expelled \union ({s} \intersect alive)
    /\ UNCHANGED <<queue, log, worker, link, sent, overtaken>>

Resume(s) == SessionEvent(s) /\ Bounded /\ UNCHANGED chain
Notice(s) == Deliver(s) /\ UNCHANGED chain
Ready(s) == Listen(s) /\ UNCHANGED chain

Watcher(s, t) ==
    \/ Reconnect(s, t)
    \/ /\ \/ GetChildren(s, t) \/ GetChildrenFails(s, t) \/ SetNext(s, t)
          \/ GetAddress(s, t) \/ GetAddressFails(s, t) \/ ConnectFails(s, t)
       /\ Bounded /\ UNCHANGED chain

Worker(s) ==
    \/ Process(s) \/ Pick(s) \/ WriteOut(s) \/ WriteFails(s) \/ WriteAstray(s)
    \/ StartRead(s) \/ Answered(s) \/ ReadFails(s)

\* All that runs on the threads of a server but for its worker and its network thread.
Watching(s) == Notice(s) \/ Ready(s) \/ \E t \in Threads : Watcher(s, t)

ReconfigNext ==
    \/ SendWrite
    \/ \E s \in Servers :
        \/ Worker(s) \/ StrayEnds(s) \/ Arrive(s) \/ Lose(s)
        \/ Join(s) \/ End(s) \/ Resume(s) \/ Watching(s) \/ Die(s)

ReconfigSpec == ReconfigInit /\ [][ReconfigNext]_rvars

\* As in Membership; the workers run as well, and what was sent arrives or is lost.
\* Nothing makes anybody type at the terminal of a server.
FairReconfig ==
    /\ ReconfigSpec
    /\ \A s \in Servers :
        /\ WF_rvars(Watching(s)) /\ WF_rvars(s \notin alive /\ End(s))
        /\ WF_rvars(Worker(s)) /\ WF_rvars(Arrive(s))

-----------------------------------------------------------------------------
Given(s) == log[s] \o queue[s]

\* Types and ranges of the variables (of no code in particular).
ReconfigTypeOK ==
    /\ queue \in [Servers -> Seq(Writes)] /\ log \in [Servers -> Seq(Writes)]
    /\ wpc \in [Servers -> {"lock", "pick", "write", "stray", "sent", "read"}]
    /\ hand \in [Servers -> Writes \union {NoWrite}]
    /\ peer \in [Servers -> Servers \union {None}]
    /\ held \in [Servers -> BOOLEAN] /\ up \in [Servers -> BOOLEAN]
    /\ zero \in [Servers -> BOOLEAN]
    /\ wire \in [Servers -> Seq([from : Servers, w : Writes])]
    /\ \A s \in Servers : At(s, "lock") => hand[s] = NoWrite /\ peer[s] = None /\ ~held[s]
    /\ sent \in 0 .. MaxWrites
    /\ overtaken \in BOOLEAN /\ expelled \subseteq Servers

\* However often the chain is rewired while writes travel, no server is given a write
\* twice (send_receive, child_watcher, connect_to_server).
RunOnce ==
    \A s \in Servers : \A i, j \in DOMAIN Given(s) :
        i # j => Given(s)[i] # Given(s)[j]

\* No write reaches a server past another that runs, joined before it and has its node:
\* what a server was given, all those before it have run.  One that runs on after its
\* session has ended is passed by (propagate_request, child_watcher).
NoneBypassed ==
    \A s \in alive \intersect nodes, t \in alive :
        s < t => RangeOf(Given(t)) \subseteq RangeOf(log[s])

Place(q, w) == CHOOSE i \in DOMAIN q : q[i] = w

\* No server from s on and before t has lost its session while it ran.
Unbroken(s, t) == \A e \in expelled : ~(s <= e /\ e < t)

\* Two servers that run have the writes both were given in the same order, lost ones or
\* not, with two exceptions: one connection overtook another, or a server between them
\* lost its session and went on to send what it had, when others already sent past it
\* (process_request, send_receive).
OrderKept ==
    ~overtaken => \A s, t \in alive :
        s < t /\ Unbroken(s, t) => \A i, j \in DOMAIN Given(t) :
            i < j => Place(log[s], Given(t)[i]) < Place(log[s], Given(t)[j])

\* The parts of the inductive invariant.  A server that runs has its node, unless its
\* session has ended, and one that does not run has nothing to do.
Known == alive \ expelled \subseteq nodes

Buried ==
    \A s \in Servers \ alive :
        queue[s] = <<>> /\ log[s] = <<>> /\ wire[s] = <<>> /\ At(s, "lock")

\* No server stands between s and p, and none will: a new one gets a higher number.
NextTo(s, p) == p # None => s < p /\ p <= created /\ \A n \in nodes : ~(s < n /\ n < p)

Adjacent ==
    \A s \in Servers :
        /\ NextTo(s, nextSocket[s]) /\ NextTo(s, peer[s])
        /\ \A t \in Threads : NextTo(s, next[s][t])

\* A worker has the last write it has run in its hands.
Handed ==
    \A s \in Servers :
        ~At(s, "lock") => log[s] # <<>> /\ hand[s] = log[s][Len(log[s])]

\* The writes a server has, and those on their way to it.
Coming(s) == {wire[s][i].w : i \in DOMAIN wire[s]}
Reaching(s) == RangeOf(Given(s)) \union Coming(s)

Counted == \A s \in Servers : \A w \in Reaching(s) : w <= sent

Once ==
    \A s \in Servers :
        /\ \A i, j \in DOMAIN Given(s) : i # j => Given(s)[i] # Given(s)[j]
        /\ \A i, j \in DOMAIN wire[s] : i # j => wire[s][i].w # wire[s][j].w
        /\ RangeOf(Given(s)) \intersect Coming(s) = {}

\* What goes to a server was run by those before it that have their nodes.
Passed ==
    \A s \in alive \intersect nodes, t \in alive :
        s < t => Reaching(t) \subseteq RangeOf(log[s])

\* The writes that a server may still send on, and that no server after it has seen.
Pending(s) ==
    RangeOf(queue[s]) \union Coming(s)
    \union {w \in {hand[s]} : wpc[s] \in {"pick", "write"}}

Unsent == \A s, t \in Servers : s < t => Pending(s) \intersect Reaching(t) = {}

Before(q, x, y) == \E i, j \in DOMAIN q : i < j /\ q[i] = x /\ q[j] = y

\* The writes of t, and those on their way to it, come in the order in which s ran them.
Ordered(s, t) ==
    /\ \A i, j \in DOMAIN Given(t) : i < j => Before(log[s], Given(t)[i], Given(t)[j])
    /\ \A i \in DOMAIN Given(t), j \in DOMAIN wire[t] :
            Before(log[s], Given(t)[i], wire[t][j].w)
    /\ \A i, j \in DOMAIN wire[t] : i < j => Before(log[s], wire[t][i].w, wire[t][j].w)

InOrder == ~overtaken => \A s, t \in alive : s < t /\ Unbroken(s, t) => Ordered(s, t)

\* The inductive invariant: a write goes only to the next server that runs, from one that
\* has run it last and has not sent it yet (process_request, propagate_request,
\* child_watcher).
RInv ==
    /\ MInv /\ ReconfigTypeOK
    /\ Known /\ Buried /\ Adjacent /\ Handed
    /\ Counted /\ Once /\ Passed /\ Unsent /\ InOrder


\* Every write a server was given is processed, also when the next server dies or the
\* connection to it is closed meanwhile, unless the worker reads from descriptor 0 for
\* ever (process_request, send_receive, read_all).
WorkersFinish ==
    <>[](\A s \in Servers : At(s, "stray") \/ (At(s, "lock") /\ queue[s] = <<>>))
=============================================================================
