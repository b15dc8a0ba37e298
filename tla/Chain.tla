-------------------------------- MODULE Chain --------------------------------
(***************************************************************************)
(* A chain of servers that neither join nor leave, and its clients: how a  *)
(* write travels from the head to the tail (process_request,               *)
(* propagate_request, send_receive in source/tree_skel.c) and how a client *)
(* waits for it (rtree_put and rtree_del in source/client_stub.c: send,    *)
(* sleep, verify at the tail, and start again if it is not there).         *)
(*                                                                         *)
(* A server is the one of TreeSkel in larger steps: verify is one step,    *)
(* and so is all the worker does up to the end of put/del.  Every call is  *)
(* answered: lost connections belong to a chain whose servers come and go. *)
(***************************************************************************)
EXTENDS SdMessage

CONSTANTS
    N,          \* the number of servers; 1 is the head and N the tail
    Clients,    \* the client processes
    Commands,   \* the writes a user may ask a client for
    MaxWrites,  \* bound: writes the clients send, the repeated ones included
    Slot,       \* what the uninitialised in_progress of each server holds
    Garbage,    \* the ints a read of a freed request may return
    Patient     \* TRUE if sleep(2) outlasts the writes under way

Servers == 1 .. N
HeadServer == 1
TailServer == N
Callers == Clients \union Servers

ASSUME ChainAssumption ==
    /\ N \in Nat /\ N > 1
    /\ MaxWrites \in Nat
    /\ Clients \intersect (Servers \union {0}) = {}
    /\ Commands \subseteq [opcode : {OP_PUT, OP_DEL}, key : Keys,
                           data : Values \union {NoValue}, number : {0}]
    /\ \A m \in Commands : m.opcode = OP_PUT => m.data \in Values
    /\ Slot \in [Servers -> Int]
    /\ Garbage \subseteq Int
    /\ Patient \in BOOLEAN

VARIABLES
    tree, queue, last_assigned, max_proc,   \* of each server, as in TreeSkel
    wpc, request,   \* the worker of each server
    serving,        \* the caller whose write queue_add is still answering
    call,           \* the call each client and each worker has under way
    cpc, command,   \* each client: where it is in rtree_put/rtree_del, for what
    depth,          \* ... how many calls of itself it is inside
    result,         \* ... the id it waits for
    \* History, read by no action of the code:
    origin,         \* the id the head gave the write the client sent last
    log,            \* the writes each server has run, and whether they succeeded
    succeeded,      \* ... those that did
    acks            \* the writes clients have been told are done

past == <<log, succeeded>>
server == <<tree, queue, last_assigned, max_proc, wpc, request, serving, past>>
client == <<cpc, command, depth, result, origin, acks>>
vars == <<server, client, call>>

NoMessage == [opcode |-> OP_BAD, key |-> CHOOSE k \in Keys : TRUE,
              data |-> NoValue, number |-> 0]
NoCall == [stage |-> "none", to |-> HeadServer, msg |-> NoMessage, origin |-> 0]
NoRequest == [op_n |-> 0, op |-> 0, key |-> CHOOSE k \in Keys : TRUE,
              data |-> NoValue, origin |-> 0]
Nobody == 0

Init ==
    /\ tree = [s \in Servers |-> tree_create]
    /\ queue = [s \in Servers |-> <<>>]
    /\ last_assigned = [s \in Servers |-> 1]
    /\ max_proc = [s \in Servers |-> 0]
    /\ wpc = [s \in Servers |-> "lock"]
    /\ request = [s \in Servers |-> NoRequest]
    /\ serving = [s \in Servers |-> Nobody]
    /\ call = [p \in Callers |-> NoCall]
    /\ cpc = [c \in Clients |-> "ready"]
    /\ command = [c \in Clients |-> NoMessage]
    /\ depth = [c \in Clients |-> 0]
    /\ result = [c \in Clients |-> 0]
    /\ origin = [c \in Clients |-> 0]
    /\ log = [s \in Servers |-> <<>>] /\ succeeded = [s \in Servers |-> <<>>]
    /\ acks = {}

\* network_send_receive and send_receive: send a message, wait for the answer.
Send(p, s, m, n) ==
    call' = [call EXCEPT ![p] = [stage |-> "sent", to |-> s, msg |-> m, origin |-> n]]

Answer(p, number, n) ==
    call' = [call EXCEPT ![p] = [@ EXCEPT !.stage = "answered", !.msg.number = number,
                                          !.origin = n]]

Received(p) == call[p].stage = "answered"

-----------------------------------------------------------------------------
\* The network thread of a server.

Asks(p, s, ops) == call[p].stage = "sent" /\ call[p].to = s /\ call[p].msg.opcode \in ops

EnqueueFront(s, r) == queue' = [queue EXCEPT ![s] = <<r>> \o @]     \* mutant: a stack
Enqueue(s, r) == queue' = [queue EXCEPT ![s] = Append(@, r)]

\* queue_add: the write goes to the end of the queue.  Its origin is the id the
\* head gives it.
QueueAdd(s) ==
    /\ serving[s] = Nobody
    /\ \E p \in Callers :
        /\ Asks(p, s, {OP_PUT, OP_DEL})
        /\ LET m == call[p].msg
               r == [op_n   |-> last_assigned[s],
                     op     |-> IF m.opcode = OP_PUT THEN 1 ELSE 0,
                     key    |-> m.key,
                     data   |-> m.data,
                     origin |-> IF s = HeadServer THEN last_assigned[s] ELSE call[p].origin]
           IN  Enqueue(s, r)
        /\ serving' = [serving EXCEPT ![s] = p]
    /\ UNCHANGED <<tree, last_assigned, max_proc, wpc, request, past, client, call>>

\* queue_add after the unlock: answer with the id in the request, which the
\* worker may have freed by now.
Allocated(s) == {queue[s][i].op_n : i \in DOMAIN queue[s]}
                \union (IF wpc[s] = "lock" THEN {} ELSE {request[s].op_n})

QueueAddReply(s) ==
    LET p == serving[s]
        id == last_assigned[s]
    IN  /\ p # Nobody
        /\ \E n \in {id} \union (IF id \in Allocated(s) THEN {} ELSE Garbage) :
            Answer(p, n, IF s = HeadServer THEN id ELSE call[p].origin)
        /\ last_assigned' = [last_assigned EXCEPT ![s] = id + 1]
        /\ serving' = [serving EXCEPT ![s] = Nobody]
        /\ UNCHANGED <<tree, queue, max_proc, wpc, request, past, client>>

\* What in_progress holds: slot 0 is never written; slot 1 is the write the worker
\* is at, and between two writes 0, which is no id.
InProgress(s) == {Slot[s]} \union (IF wpc[s] = "lock" THEN {} ELSE {request[s].op_n})

VerifyResult(s, n) ==
    IF n <= 0 THEN -1
    ELSE IF n < max_proc[s] /\ n \in InProgress(s) THEN 0
    ELSE IF n > max_proc[s] THEN (IF n \in InProgress(s) THEN 0 ELSE -1)
    ELSE 1

Verify(s) ==
    /\ serving[s] = Nobody
    /\ \E p \in Callers :
        /\ Asks(p, s, {OP_VERIFY})
        /\ Answer(p, VerifyResult(s, call[p].msg.number), 0)
    /\ UNCHANGED <<server, client>>

-----------------------------------------------------------------------------
\* The worker thread of a server.

\* mutant: failures are propagated too
AlwaysPropagate(s, ok) == IF s # TailServer THEN "propagate" ELSE "finish"
\* Only a write that succeeded is for the next server, if there is one.
AfterWrite(s, ok) == IF ok /\ s # TailServer THEN "propagate" ELSE "finish"

KeepHead(q) == q                                \* mutant: queue_head stays
Dequeue(q) == Tail(q)

\* What a write asks for, whatever id a server gives it.
Content(r) == [op |-> r.op, key |-> r.key, data |-> r.data, origin |-> r.origin]
Contents(writes) == [i \in DOMAIN writes |-> Content(writes[i])]

\* process_request up to the end of put/del: take the head of the queue, run it.
Process(s) ==
    /\ wpc[s] = "lock" /\ queue[s] # <<>>
    /\ LET r == Head(queue[s])
           ok == ResultOf(tree[s], r) = 0
       IN  /\ request' = [request EXCEPT ![s] = r]
           /\ queue' = [queue EXCEPT ![s] = Dequeue(@)]
           /\ tree' = [tree EXCEPT ![s] = Apply(@, r)]
           /\ log' = [log EXCEPT ![s] = Append(@, [write |-> r, ok |-> ok])]
           /\ succeeded' = IF ok THEN [succeeded EXCEPT ![s] = Append(@, Content(r))]
                           ELSE succeeded
           /\ wpc' = [wpc EXCEPT ![s] = AfterWrite(s, ok)]
    /\ UNCHANGED <<last_assigned, max_proc, serving, client, call>>

NextIsTail(s) == TailServer                     \* mutant: the wrong neighbour
NextServer(s) == s + 1

\* propagate_request: send the write to the next server ...
Propagate(s) ==
    /\ wpc[s] = "propagate"
    /\ LET r == request[s]
           m == [opcode |-> IF r.op = 1 THEN OP_PUT ELSE OP_DEL, key |-> r.key,
                 data |-> r.data, number |-> 0]
       IN  Send(s, NextServer(s), m, r.origin)
    /\ wpc' = [wpc EXCEPT ![s] = "await"]
    /\ UNCHANGED <<tree, queue, last_assigned, max_proc, request, serving, past, client>>

\* ... and wait for its answer, which is thrown away.
Propagated(s) ==
    /\ wpc[s] = "await" /\ Received(s)
    /\ call' = [call EXCEPT ![s] = NoCall]
    /\ wpc' = [wpc EXCEPT ![s] = "finish"]
    /\ UNCHANGED <<tree, queue, last_assigned, max_proc, request, serving, past, client>>

AdvanceToNext(s) == last_assigned[s]            \* mutant: the wrong counter
AdvanceLate(s) ==                               \* mutant: off by one
    IF request[s].op_n > max_proc[s] + 1 THEN request[s].op_n ELSE max_proc[s]
Advance(s) == IF request[s].op_n > max_proc[s] THEN request[s].op_n ELSE max_proc[s]

\* process_request under op_proc_lock, and free(request).
Finish(s) ==
    /\ wpc[s] = "finish"
    /\ max_proc' = [max_proc EXCEPT ![s] = Advance(s)]
    /\ request' = [request EXCEPT ![s] = NoRequest]
    /\ wpc' = [wpc EXCEPT ![s] = "lock"]
    /\ UNCHANGED <<tree, queue, last_assigned, serving, past, client, call>>

-----------------------------------------------------------------------------
\* A client.

AlwaysHead(opcode) == HeadServer                \* mutant: verify asks the head
\* network_send_receive: writes go to the head, everything else to the tail.
ServerFor(opcode) == IF opcode \in {OP_PUT, OP_DEL} THEN HeadServer ELSE TailServer

\* The writes clients have sent so far, the one queue_add is adding included.
Sent == last_assigned[HeadServer] - 1
        + Cardinality({c \in Clients : cpc[c] = "write" /\ ~Received(c)})

\* The user asks for a write: rtree_put or rtree_del sends it.
Command(c) ==
    /\ cpc[c] = "ready" /\ Sent < MaxWrites
    /\ \E m \in Commands :
        /\ command' = [command EXCEPT ![c] = m]
        /\ Send(c, ServerFor(m.opcode), m, 0)
    /\ depth' = [depth EXCEPT ![c] = 1]
    /\ cpc' = [cpc EXCEPT ![c] = "write"]
    /\ UNCHANGED <<server, result, origin, acks>>

\* The answer with the id arrives, and the client sleeps.
TakeId(c) ==
    /\ cpc[c] = "write" /\ Received(c)
    /\ result' = [result EXCEPT ![c] = call[c].msg.number]
    /\ origin' = [origin EXCEPT ![c] = call[c].origin]
    /\ call' = [call EXCEPT ![c] = NoCall]
    /\ cpc' = [cpc EXCEPT ![c] = "sleep"]
    /\ UNCHANGED <<server, command, depth, acks>>

\* No write is under way in any server.
Quiet == \A s \in Servers : queue[s] = <<>> /\ wpc[s] = "lock" /\ serving[s] = Nobody

\* sleep(2) ends and rtree_verify asks the tail for the id.
AskVerify(c) ==
    /\ cpc[c] = "sleep" /\ (Patient => Quiet)
    /\ Send(c, ServerFor(OP_VERIFY), [opcode |-> OP_VERIFY, key |-> NoMessage.key,
                                     data |-> NoValue, number |-> result[c]], 0)
    /\ cpc' = [cpc EXCEPT ![c] = "verify"]
    /\ UNCHANGED <<server, command, depth, result, origin, acks>>

ReturnTwice(n) == n - 2                         \* mutant: two calls return at once
Return(n) == n - 1

\* The tail has run it: this call of rtree_put/rtree_del returns, and the one it
\* was made from, if any, sleeps and verifies again.
Done(c) ==
    /\ cpc[c] = "verify" /\ Received(c) /\ call[c].msg.number = 1
    /\ depth' = [depth EXCEPT ![c] = Return(@)]
    /\ cpc' = [cpc EXCEPT ![c] = IF depth[c] = 1 THEN "ready" ELSE "sleep"]
    /\ acks' = IF depth[c] = 1 THEN acks \union {[id |-> result[c], origin |-> origin[c]]}
               ELSE acks
    /\ call' = [call EXCEPT ![c] = NoCall]
    /\ UNCHANGED <<server, command, result, origin>>

\* It has not: do it all again, one call deeper.
Redo(c) ==
    /\ cpc[c] = "verify" /\ Received(c) /\ call[c].msg.number # 1
    /\ Sent < MaxWrites
    /\ Send(c, ServerFor(command[c].opcode), command[c], 0)
    /\ depth' = [depth EXCEPT ![c] = @ + 1]
    /\ cpc' = [cpc EXCEPT ![c] = "write"]
    /\ UNCHANGED <<server, command, result, origin, acks>>

-----------------------------------------------------------------------------
Network(s) == QueueAdd(s) \/ QueueAddReply(s) \/ Verify(s)

Worker(s) == Process(s) \/ Propagate(s) \/ Propagated(s) \/ Finish(s)

Waits(c) == TakeId(c) \/ AskVerify(c) \/ Done(c) \/ Redo(c)

Next ==
    \/ \E s \in Servers : Network(s) \/ Worker(s)
    \/ \E c \in Clients : Command(c) \/ Waits(c)

Spec == Init /\ [][Next]_vars

\* Every thread keeps running, and a client that waits goes on when it can.
\* Nothing makes the user type a command.
FairSpec ==
    /\ Spec
    /\ \A s \in Servers : WF_vars(Network(s)) /\ WF_vars(Worker(s))
    /\ \A c \in Clients : WF_vars(Waits(c))

-----------------------------------------------------------------------------
Write == [op_n : Nat, op : {0, 1}, key : Keys, data : Values \union {NoValue}, origin : Nat]

Asked == [op : {0, 1}, key : Keys, data : Values \union {NoValue}, origin : Nat]

\* Types and ranges of the variables (of no code in particular).
TypeOK ==
    /\ tree \in [Servers -> Trees]
    /\ queue \in [Servers -> Seq(Write)]
    /\ last_assigned \in [Servers -> Nat \ {0}]
    /\ max_proc \in [Servers -> Nat]
    /\ wpc \in [Servers -> {"lock", "propagate", "await", "finish"}]
    /\ request \in [Servers -> Write]
    /\ serving \in [Servers -> Callers \union {Nobody}]
    /\ call \in [Callers -> [stage : {"none", "sent", "answered"}, to : Servers,
                             msg : Messages, origin : Nat]]
    /\ cpc \in [Clients -> {"ready", "write", "sleep", "verify"}]
    /\ command \in [Clients -> Messages]
    /\ depth \in [Clients -> Nat] /\ result \in [Clients -> Int] /\ origin \in [Clients -> Nat]
    /\ log \in [Servers -> Seq([write : Write, ok : BOOLEAN])]
    /\ succeeded \in [Servers -> Seq(Asked)]
    /\ acks \subseteq [id : Int, origin : Nat]

\* What a server has run, and what it was given: run or still in its queue.
Ran(s) == [i \in DOMAIN log[s] |-> Content(log[s][i].write)]
Given(s) == Ran(s) \o Contents(queue[s])

\* A server is given the writes that succeeded at the one before it, in their
\* order and once each, and is at most one behind: the one its worker is handing
\* over (process_request, propagate_request).
SuccessorFollows ==
    \A s \in Servers \ {TailServer} :
        LET mine == succeeded[s]
            next == Given(s + 1)
        IN  /\ IsPrefix(next, mine)
            /\ Len(next) >= Len(mine) - (IF wpc[s] \in {"propagate", "await"} THEN 1 ELSE 0)

\* A write that succeeded at one server succeeds at all that follow, so none is
\* lost half way down the chain for failing there (process_request).
NoDivergence ==
    \A s \in Servers \ {HeadServer} : \A i \in DOMAIN log[s] : log[s][i].ok

\* The write that got id n at the head is on the tail's tree, or failed.
Settled(n) ==
    \/ \E i \in DOMAIN log[TailServer] : log[TailServer][i].write.origin = n
    \/ \E i \in DOMAIN log[HeadServer] :
        log[HeadServer][i].write.op_n = n /\ ~log[HeadServer][i].ok

\* The tail numbers the writes it is given by itself, yet an id of the head that
\* it calls done is settled, and so is every id below (verify, rtree_verify).
VerifiedIsSettled == \A n \in 1 .. max_proc[TailServer] : Settled(n)

\* When rtree_put or rtree_del returns, its write is on the tail's tree or has
\* failed, so no read that follows misses it (rtree_put, rtree_del).  The head's
\* answer may carry the wrong id, see ReplyIdIsRequestId in TreeSkel; this is
\* about the clients that got the right one.
AcknowledgedIsSettled == \A a \in acks : a.id = a.origin => Settled(a.origin)

\* The parts of the inductive invariant.  The writes a server is given get the numbers 1, 2
\* and so on, and at the head these are their ids; its worker holds the last it has run.
Numbering ==
    \A s \in Servers :
        /\ \A i \in DOMAIN log[s] : log[s][i].write.op_n = i
        /\ \A i \in DOMAIN queue[s] : queue[s][i].op_n = Len(log[s]) + i
        /\ last_assigned[s] = Len(log[s]) + Len(queue[s]) + (IF serving[s] = Nobody THEN 1 ELSE 0)
        /\ max_proc[s] = Len(log[s]) - (IF wpc[s] = "lock" THEN 0 ELSE 1)
        /\ wpc[s] # "lock" => Len(log[s]) > 0 /\ request[s] = log[s][Len(log[s])].write

Origins ==
    /\ \A i \in DOMAIN log[HeadServer] : log[HeadServer][i].write.origin = i
    /\ \A i \in DOMAIN queue[HeadServer] : queue[HeadServer][i].origin = queue[HeadServer][i].op_n

\* Who calls whom, and what for: clients the head to write and the tail to verify, and a
\* worker the server after its own to hand on the write it holds.
ClientCall(c) ==
    /\ cpc[c] = "ready" <=> depth[c] = 0
    /\ cpc[c] \in {"ready", "sleep"} => call[c].stage = "none"
    /\ cpc[c] = "write" =>
        /\ call[c].stage # "none" /\ call[c].to = HeadServer
        /\ call[c].msg.opcode \in {OP_PUT, OP_DEL}
    /\ cpc[c] = "verify" =>
        /\ call[c].stage # "none" /\ call[c].to = TailServer
        /\ call[c].msg.opcode = OP_VERIFY
        /\ call[c].stage = "sent" => call[c].msg.number = result[c]
        /\ call[c].stage = "answered" /\ call[c].msg.number = 1 => Settled(result[c])
    /\ command[c].opcode \in {OP_PUT, OP_DEL} \/ cpc[c] = "ready"

WorkerCall(s) ==
    /\ wpc[s] # "await" => call[s].stage = "none"
    /\ wpc[s] \in {"propagate", "await"} =>
        /\ s # TailServer /\ succeeded[s] # <<>>
        /\ succeeded[s][Len(succeeded[s])] = Content(request[s])
    /\ wpc[s] = "await" =>
        /\ call[s].stage # "none" /\ call[s].to = s + 1
        /\ call[s].msg.opcode = IF request[s].op = 1 THEN OP_PUT ELSE OP_DEL
        /\ call[s].msg.key = request[s].key /\ call[s].msg.data = request[s].data
        /\ call[s].origin = request[s].origin

ClientCalls == \A c \in Clients : ClientCall(c)
WorkerCalls == \A s \in Servers : WorkerCall(s)

Serves ==
    \A s \in Servers : serving[s] # Nobody =>
        Asks(serving[s], s, {OP_PUT, OP_DEL})

\* The next server has not been given the write the worker of s holds.
Behind(s) ==
    \/ wpc[s] = "propagate"
    \/ wpc[s] = "await" /\ call[s].stage = "sent" /\ serving[s + 1] # s

Follows ==
    \A s \in Servers \ {TailServer} :
        /\ Len(log[s + 1]) + Len(queue[s + 1])
                = Len(succeeded[s]) - (IF Behind(s) THEN 1 ELSE 0)
        /\ \A i \in DOMAIN log[s + 1] : Content(log[s + 1][i].write) = succeeded[s][i]
        /\ \A i \in DOMAIN queue[s + 1] :
                Content(queue[s + 1][i]) = succeeded[s][Len(log[s + 1]) + i]

\* All a server runs but the head succeeds, and has succeeded at the head.
AllSucceed ==
    \A s \in Servers \ {HeadServer} :
        /\ Len(succeeded[s]) = Len(log[s]) /\ Len(log[s]) <= Len(succeeded[HeadServer])
        /\ \A i \in DOMAIN log[s] :
            /\ log[s][i].ok
            /\ Content(log[s][i].write) = succeeded[s][i]
            /\ succeeded[s][i] = succeeded[HeadServer][i]

\* The head's writes that succeed are among the first of succeeded.
Reached ==
    /\ Len(succeeded[HeadServer]) <= Len(log[HeadServer])
    /\ \A i \in DOMAIN log[HeadServer] : log[HeadServer][i].ok =>
        \E j \in 1 .. i : j <= Len(succeeded[HeadServer])
                         /\ succeeded[HeadServer][j] = Content(log[HeadServer][i].write)

\* The tree is what those that succeeded leave, from an empty tree on, and each of them
\* succeeds after those before it.
Replayed ==
    \A s \in Servers :
        /\ tree[s] = Replay(succeeded[s]).tree
        /\ \A n \in DOMAIN succeeded[s] :
            ResultOf(Replay(SubSeq(succeeded[s], 1, n - 1)).tree, succeeded[s][n]) = 0

\* The inductive invariant: every write is at its place in the servers it has reached,
\* each call is for what its caller holds, and the trees are replays of the same writes
\* (process_request, propagate_request, queue_add, rtree_put, rtree_verify).
CInv ==
    /\ TypeOK /\ Numbering /\ Origins /\ ClientCalls /\ WorkerCalls /\ Serves
    /\ Follows /\ AllSucceed /\ Reached /\ Replayed
    /\ AcknowledgedIsSettled

\* If every write succeeds and sleep(2) is long enough, rtree_put and rtree_del
\* return (rtree_put, rtree_del, process_request).
EveryCallReturns == \A c \in Clients : (cpc[c] # "ready") ~> (cpc[c] = "ready")

\* The chain, seen from its tail, is one WriteLog: the writes that succeed at the
\* head are run on the tail's tree in their order, each once.
Numbered(writes) ==
    [i \in DOMAIN writes |-> [op_n |-> i, op |-> writes[i].op, key |-> writes[i].key,
                              data |-> writes[i].data]]

WL == INSTANCE WriteLog WITH
        accepted <- Numbered(succeeded[HeadServer]),
        done <- Len(succeeded[TailServer]),
        tree <- tree[TailServer]

\* The chain is one server to its clients: writes reach the tail, where reads go,
\* in one order, each once (process_request, propagate_request).
ImplementsLogInOrder == WL!WSafety

\* ... and all of them do.
ImplementsWriteLog == WL!WSpec

-----------------------------------------------------------------------------
\* What the documentation and the comments say and the code does not do.

\* README.txt:102-104: a write that fails, like the del of a key that is not
\* there, has been executed, and verify says so.
FailedIsVerifiable ==
    Quiet => \A i \in DOMAIN log[HeadServer] :
        VerifyResult(TailServer, log[HeadServer][i].write.op_n) = 1
==============================================================================
