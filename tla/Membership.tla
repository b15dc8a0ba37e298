------------------------------ MODULE Membership ------------------------------
(***************************************************************************)
(* Who is in the chain, and whom each server takes for the next one        *)
(* (zookeeper_connect, child_watcher and connect_to_server in              *)
(* source/tree_skel.c).  A server creates an ephemeral sequence node in    *)
(* ZooKeeper and watches the others; child_watcher runs once on the main   *)
(* thread and then on ZooKeeper's own thread for every notification.       *)
(* ZooKeeper is external: its nodes, sessions and one-shot watches are     *)
(* modelled from how the code uses them.                                   *)
(***************************************************************************)
EXTENDS Integers, FiniteSets

CONSTANTS
    MaxServers, \* bound: servers that ever start; each is the number of its node
    Serial,     \* TRUE if no notification is delivered before the first
                \* child_watcher, on the main thread, has returned
    Prompt,     \* TRUE if sleep(2) outlasts the start of the server to connect to
    MaxCuts     \* bound: times a server that runs loses its connection to ZooKeeper

ASSUME MembershipAssumption ==
    /\ MaxServers \in Nat /\ MaxCuts \in Nat
    /\ Serial \in BOOLEAN /\ Prompt \in BOOLEAN

Servers == 1 .. MaxServers
Threads == {"main", "zk"}
Stages == {"idle", "get_children", "set_next", "get_address", "connect"}
None == 0       \* a NULL zNextNode; as a socket, the descriptor 0 it starts as

VARIABLES
    nodes,      \* the children of /chain
    created,    \* how many nodes were ever created there
    watch,      \* the servers with a watch on /chain
    notice,     \* the servers a notification is on its way to
    alive,      \* the servers that run
    listening,  \* ... and have called listen()
    pc,         \* where each thread of a server is in child_watcher
    next,       \* its local variable: the node it takes for the next
    zNextNode,  \* rtree.zNextNode of each server
    nextSocket, \* rtree.nextSocket: the server it was connected to
    cuts,       \* how often a connection to ZooKeeper was cut
    \* History, read by no action of the code:
    deaf        \* the servers a ZooKeeper call in child_watcher failed for

zookeeper == <<nodes, created, watch, notice>>
process == <<alive, listening>>
vars == <<zookeeper, process, pc, next, zNextNode, nextSocket, cuts, deaf>>

Init ==
    /\ nodes = {} /\ created = 0
    /\ watch = {} /\ notice = {}
    /\ alive = {} /\ listening = {}
    /\ pc = [s \in Servers |-> [t \in Threads |-> "idle"]]
    /\ next = [s \in Servers |-> [t \in Threads |-> None]]
    /\ zNextNode = [s \in Servers |-> None]
    /\ nextSocket = [s \in Servers |-> None]
    /\ cuts = 0 /\ deaf = {}

Goto(s, t, label) == pc' = [pc EXCEPT ![s][t] = label]

\* child_watcher returns, and its local variable is gone.
Return(s, t) == Goto(s, t, "idle") /\ next' = [next EXCEPT ![s][t] = None]

-----------------------------------------------------------------------------
\* ZooKeeper.

Cut == cuts < MaxCuts /\ cuts' = cuts + 1
NoCut == UNCHANGED cuts

\* A change of the children fires every watch, once.
Notify == notice' = notice \union watch /\ watch' = {}

\* zookeeper_connect: a server creates the node with the next number, and goes on
\* to call child_watcher itself.
Register(s) ==
    /\ s = created + 1
    /\ created' = s
    /\ nodes' = nodes \union {s}
    /\ alive' = alive \union {s}
    /\ Notify
    /\ Goto(s, "main", "get_children")
    /\ UNCHANGED <<listening, next, zNextNode, nextSocket, cuts, deaf>>

\* The session of a server ends and its node goes: the server has died, or ZooKeeper
\* has not heard of it for the session timeout.
Expire(s) ==
    /\ s \in nodes
    /\ IF s \in alive THEN Cut ELSE NoCut
    /\ nodes' = nodes \ {s}
    /\ Notify
    /\ UNCHANGED <<created, process, pc, next, zNextNode, nextSocket, deaf>>

\* A session that is cut and taken up again calls the watchers and keeps the watches.
SessionEvent(s) ==
    /\ s \in watch \ notice
    /\ Cut
    /\ notice' = notice \union {s}
    /\ UNCHANGED <<nodes, created, watch, process, pc, next, zNextNode, nextSocket, deaf>>

\* ZooKeeper's thread in a server calls child_watcher.
Deliver(s) ==
    /\ s \in notice /\ pc[s]["zk"] = "idle"
    /\ Serial => pc[s]["main"] = "idle"
    /\ notice' = notice \ {s}
    /\ Goto(s, "zk", "get_children")
    /\ UNCHANGED <<nodes, created, watch, process, next, zNextNode, nextSocket, cuts, deaf>>

-----------------------------------------------------------------------------
\* A server, on the thread t that runs child_watcher.

FollowsOrIs(n, s) == n >= s                     \* mutant: strcmp <= 0
\* strcmp on the paths of two nodes: the number has a fixed width.
Follows(n, s) == n > s

Followers(children, s) == {n \in children : Follows(n, s)}

FirstOf(S) == CHOOSE n \in S : \A m \in S : n <= m

PastTheEnd(children, s) ==                      \* mutant: counter <= count
    IF Followers(children, s) = {} THEN MaxServers + 1 ELSE FirstOf(Followers(children, s))
Farthest(children, s) ==                        \* mutant: sorted the other way round
    IF Followers(children, s) = {} THEN None
    ELSE CHOOSE n \in Followers(children, s) : \A m \in Followers(children, s) : n >= m
\* The first child that follows s in the sorted list, if there are two children.
Successor(children, s) ==
    IF Cardinality(children) < 2 \/ Followers(children, s) = {} THEN None
    ELSE FirstOf(Followers(children, s))

WatchOnce(s) == UNCHANGED watch                 \* mutant: zoo_get_children
WatchAgain(s) == watch' = watch \union {s}

\* zoo_wget_children: read the children and leave a watch; then find the next.
GetChildren(s, t) ==
    /\ pc[s][t] = "get_children" /\ s \in nodes
    /\ next' = [next EXCEPT ![s][t] = Successor(nodes, s)]
    /\ WatchAgain(s)
    /\ Goto(s, t, "set_next")
    /\ UNCHANGED <<nodes, created, notice, process, zNextNode, nextSocket, cuts, deaf>>

\* The call fails, the session lost or expired: return without a watch.
GetChildrenFails(s, t) ==
    /\ pc[s][t] = "get_children"
    /\ IF s \in nodes THEN Cut ELSE NoCut
    /\ deaf' = deaf \union {s}
    /\ Return(s, t)
    /\ UNCHANGED <<zookeeper, process, zNextNode, nextSocket>>

SetNext(s, t) ==
    /\ pc[s][t] = "set_next"
    /\ zNextNode' = [zNextNode EXCEPT ![s] = next[s][t]]
    /\ IF next[s][t] = None THEN Return(s, t)
       ELSE Goto(s, t, "get_address") /\ UNCHANGED next
    /\ UNCHANGED <<zookeeper, process, nextSocket, cuts, deaf>>

\* zoo_get of the next one's address.
GetAddress(s, t) ==
    /\ pc[s][t] = "get_address" /\ s \in nodes /\ next[s][t] \in nodes
    /\ Goto(s, t, "connect")
    /\ UNCHANGED <<zookeeper, process, next, zNextNode, nextSocket, cuts, deaf>>

\* The node has gone, or the call fails: return with zNextNode already set.
GetAddressFails(s, t) ==
    /\ pc[s][t] = "get_address"
    /\ IF s \in nodes /\ next[s][t] \in nodes THEN Cut ELSE NoCut
    /\ deaf' = IF next[s][t] \in nodes THEN deaf \union {s} ELSE deaf
    /\ Return(s, t)
    /\ UNCHANGED <<zookeeper, process, zNextNode, nextSocket>>

KeepSocket(s, t) == UNCHANGED nextSocket        \* mutant: the assignment is missing
UseSocket(s, t) == nextSocket' = [nextSocket EXCEPT ![s] = next[s][t]]

\* connect_to_server, after its sleep(2).
Connect(s, t) ==
    /\ pc[s][t] = "connect" /\ next[s][t] \in listening
    /\ UseSocket(s, t)
    /\ Return(s, t)
    /\ UNCHANGED <<zookeeper, process, zNextNode, cuts, deaf>>

\* Nobody listens there, or not yet: return with the old socket.
ConnectFails(s, t) ==
    /\ pc[s][t] = "connect" /\ next[s][t] \notin listening
    /\ Prompt => next[s][t] \notin alive
    /\ Return(s, t)
    /\ UNCHANGED <<zookeeper, process, zNextNode, nextSocket, cuts, deaf>>

\* The first child_watcher has returned: network_main_loop.
Listen(s) ==
    /\ s \in alive \ listening /\ pc[s]["main"] = "idle"
    /\ listening' = listening \union {s}
    /\ UNCHANGED <<zookeeper, alive, pc, next, zNextNode, nextSocket, cuts, deaf>>

\* The process dies with all it knows; its node stays until the session ends.
Crash(s) ==
    /\ s \in alive
    /\ alive' = alive \ {s} /\ listening' = listening \ {s}
    /\ watch' = watch \ {s} /\ notice' = notice \ {s} /\ deaf' = deaf \ {s}
    /\ pc' = [pc EXCEPT ![s] = [t \in Threads |-> "idle"]]
    /\ next' = [next EXCEPT ![s] = [t \in Threads |-> None]]
    /\ zNextNode' = [zNextNode EXCEPT ![s] = None]
    /\ nextSocket' = [nextSocket EXCEPT ![s] = None]
    /\ UNCHANGED <<nodes, created, cuts>>

-----------------------------------------------------------------------------
child_watcher(s, t) ==
    \/ GetChildren(s, t) \/ GetChildrenFails(s, t)
    \/ SetNext(s, t)
    \/ GetAddress(s, t) \/ GetAddressFails(s, t)
    \/ Connect(s, t) \/ ConnectFails(s, t)

Next ==
    \E s \in Servers :
        \/ Register(s) \/ Expire(s) \/ SessionEvent(s) \/ Deliver(s)
        \/ \E t \in Threads : child_watcher(s, t)
        \/ Listen(s) \/ Crash(s)

Spec == Init /\ [][Next]_vars

\* Threads run, notifications arrive, and the session of a server that has died
\* ends.  Nothing makes servers start, die or lose their session.
FairSpec ==
    /\ Spec
    /\ \A s \in Servers :
        /\ WF_vars(Deliver(s)) /\ WF_vars(Listen(s))
        /\ WF_vars(s \notin alive /\ Expire(s))
        /\ \A t \in Threads : WF_vars(child_watcher(s, t))

-----------------------------------------------------------------------------
\* Types and ranges of the variables (of no code in particular).
TypeOK ==
    /\ nodes \subseteq Servers /\ created \in 0 .. MaxServers
    /\ watch \subseteq Servers /\ notice \subseteq Servers
    /\ alive \subseteq Servers /\ listening \subseteq alive
    /\ pc \in [Servers -> [Threads -> Stages]]
    /\ next \in [Servers -> [Threads -> Servers \union {None}]]
    /\ zNextNode \in [Servers -> Servers \union {None}]
    /\ nextSocket \in [Servers -> Servers \union {None}]
    /\ cuts \in 0 .. MaxCuts /\ deaf \subseteq Servers

\* The servers the chain is made of: their node is there, and ZooKeeper has answered
\* them so far.
Members == (alive \intersect nodes) \ deaf

\* child_watcher of s is about to read the children, or will be called.
WillLook(s) == s \in notice \/ \E t \in Threads : pc[s][t] = "get_children"

\* It has read them and is about to set zNextNode.
WillSet(s) == \E t \in Threads : pc[s][t] = "set_next"

\* No change of the chain is missed: unless child_watcher is at it or a
\* notification on its way, zNextNode is the next of the nodes there are now, and a
\* watch is left for the change to come (child_watcher).
NoMissedChange ==
    \A s \in Members :
        ~WillLook(s) /\ ~WillSet(s) =>
            zNextNode[s] = Successor(nodes, s) /\ s \in watch

\* The parts of the inductive invariant.  Numbers that were not given out yet belong to
\* nobody, and with Serial child_watcher runs on one thread at a time.
Unborn ==
    \A s \in Servers : s > created =>
        /\ s \notin nodes \union alive \union watch \union notice \union deaf
        /\ \A t \in Threads : pc[s][t] = "idle" /\ next[s][t] = None

OneThread ==
    Serial => \A s \in Servers : pc[s]["main"] = "idle" \/ pc[s]["zk"] = "idle"

\* Who will not look again has a watch, and knows the nodes there are now.
Seen(s) ==
    \/ WillLook(s)
    \/ /\ s \in watch
       /\ \E t \in Threads : pc[s][t] = "set_next" /\ next[s][t] = Successor(nodes, s)
    \/ s \in watch /\ ~WillSet(s) /\ zNextNode[s] = Successor(nodes, s)

Forward ==
    \A s \in Servers :
        /\ zNextNode[s] # None => zNextNode[s] > s
        /\ nextSocket[s] # None => nextSocket[s] > s
        /\ \A t \in Threads : next[s][t] # None => next[s][t] > s

\* The inductive invariant: no two threads of a server are in child_watcher, and a
\* server that will not look again at the chain knows it as it is (child_watcher).
MInv ==
    /\ TypeOK /\ Unborn /\ OneThread /\ Forward
    /\ Serial => \A s \in Members : Seen(s)

\* Along zNextNode and along nextSocket writes only go to servers that joined later,
\* so that no write comes back to a server it has been at, whatever each server
\* has seen of the chain so far (child_watcher, connect_to_server).
WritesGoForward ==
    \A s \in Servers :
        /\ zNextNode[s] # None => zNextNode[s] > s
        /\ nextSocket[s] # None => nextSocket[s] > s

\* Once servers have stopped coming and going, the members of the chain are connected
\* each to the next (child_watcher, connect_to_server).
ChainSettles ==
    <>[](\A s \in Members :
            Successor(nodes, s) # None =>
                zNextNode[s] = Successor(nodes, s) /\ nextSocket[s] = zNextNode[s])

-----------------------------------------------------------------------------
\* What the documentation says and the code does not do.

Resting(s) == s \notin notice /\ \A t \in Threads : pc[s][t] = "idle"

\* tree_skel-private.h:15: struct rtree_t holds the current node and the next one, so
\* that at rest zNextNode is the next node there is.
NextIsNext ==
    \A s \in Members : Resting(s) => zNextNode[s] = Successor(nodes, s)
=============================================================================
