------------------------------- MODULE TreeSkel -------------------------------
(***************************************************************************)
(* One server process (source/tree_skel.c): the network thread, which runs *)
(* invoke() on one message at a time, and the worker thread, which runs    *)
(* process_request().  They share the request queue, op_status and the     *)
(* tree.  A step is one critical section, or one access to shared memory   *)
(* made outside any lock: verify reads op_status without op_proc_lock,     *)
(* queue_add reads the request after unlocking, and get_keys/get_values    *)
(* call tree_size after unlocking.                                         *)
(***************************************************************************)
EXTENDS SdMessage

CONSTANTS
    Inbox,      \* the messages the network thread may receive
    MaxOps,     \* bound: write requests accepted in a behaviour
    Garbage     \* the ints a read of uninitialised or freed memory may return

ASSUME SkelAssumption ==
    /\ MaxOps \in Nat
    /\ Garbage \subseteq Int
    /\ Inbox \subseteq Messages
    /\ \A m \in Inbox : m.opcode \in Requests
    /\ \A m \in Inbox : m.opcode = OP_PUT => m.data \in Values

VARIABLES
    tree,           \* the tree, under tree_lock
    tree_lock,      \* "free", or "worker" inside put/del
    queue,          \* the list at queue_head, under queue_lock
    last_assigned,  \* the id the next write gets
    max_proc,       \* op_status.max_proc
    in_progress,    \* op_status.in_progress[0] and [1]
    heap,           \* ids of the struct request_t that are allocated
    mpc, msg,       \* network thread: where it is, the message in its hands
    snapshot,       \* network thread: length of the array tree_get_keys returned
    wpc, request,   \* worker thread: where it is, its request
    \* History, read by no action of the code:
    asked, before,  \* the message as received, and max_proc at that moment
    accepted,       \* every write queue_add put in the queue
    log,            \* every write put()/del() has run on the tree
    propagated      \* every write handed to propagate_request

main == <<mpc, msg, snapshot, asked, before>>
worker == <<wpc, request>>
history == <<accepted, log, propagated>>
status == <<max_proc, in_progress>>
vars == <<tree, tree_lock, queue, last_assigned, status, heap, main, worker, history>>

NoRequest == [op_n |-> 0, op |-> 0, key |-> CHOOSE k \in Keys : TRUE, data |-> NoValue]
NoMessage == [opcode |-> OP_BAD, key |-> CHOOSE k \in Keys : TRUE,
              data |-> NoValue, number |-> 0]

\* tree_skel_init.  in_progress comes from malloc(sizeof(int)) and is never
\* initialised; slot 1 lies past the int it asked for, inside the block malloc
\* rounds the request up to.  The worker starts at its first lock of the queue.
Init ==
    /\ tree = tree_create
    /\ tree_lock = "free"
    /\ queue = <<>>
    /\ last_assigned = 1
    /\ max_proc = 0
    /\ in_progress \in [{0, 1} -> Garbage]
    /\ heap = {}
    /\ mpc = "poll" /\ msg = NoMessage /\ snapshot = 0
    /\ wpc = "lock" /\ request = NoRequest
    /\ asked = NoMessage /\ before = 0
    /\ accepted = <<>> /\ log = <<>> /\ propagated = <<>>

-----------------------------------------------------------------------------
\* The network thread.

\* A handler turns the message it was given into the reply and returns.
Reply(op, v, n) ==
    /\ msg' = [opcode |-> op, key |-> msg.key, data |-> v, number |-> n]
    /\ mpc' = "send"

\* network_main_loop: a message arrives on some connection.
Receive ==
    /\ mpc = "poll"
    /\ \E m \in Inbox :
        /\ m.opcode \in {OP_PUT, OP_DEL} => last_assigned <= MaxOps
        /\ msg' = m /\ asked' = m
    /\ mpc' = "invoke"
    /\ before' = max_proc
    /\ UNCHANGED <<tree, tree_lock, queue, last_assigned, status, heap, snapshot,
                   worker, history>>

\* Where queue_add links a request, and whom it wakes.
EnqueueFront(r) == queue' = <<r>> \o queue     \* mutant: a stack
Enqueue(r) == queue' = Append(queue, r)

NoSignal == UNCHANGED wpc                       \* mutant: a lost wakeup
Signal == wpc' = IF wpc = "wait" THEN "lock" ELSE wpc

\* queue_add, its critical section: build the request, append it, signal.
QueueAdd ==
    /\ mpc = "invoke" /\ msg.opcode \in {OP_PUT, OP_DEL}
    /\ LET r == [op_n |-> last_assigned, key |-> msg.key,
                 op   |-> IF msg.opcode = OP_PUT THEN 1 ELSE 0,
                 data |-> IF msg.opcode = OP_PUT THEN msg.data ELSE NoValue]
       IN  /\ Enqueue(r)
           /\ accepted' = Append(accepted, r)
    /\ heap' = heap \union {last_assigned}
    /\ Signal
    /\ mpc' = "queued"
    /\ UNCHANGED <<tree, tree_lock, last_assigned, status, msg, snapshot, asked, before,
                   request, log, propagated>>

NoNextId == last_assigned' = 0                  \* mutant: the counter restarts
NextId == last_assigned' = last_assigned + 1

\* queue_add after the unlock: the reply's number is read from the request,
\* which the worker may have freed by now.
QueueAddReply ==
    /\ mpc = "queued"
    /\ \E n \in IF last_assigned \in heap THEN {last_assigned}
                ELSE {last_assigned} \union Garbage :
        Reply(msg.opcode + 1, msg.data, n)
    /\ NextId
    /\ UNCHANGED <<tree, tree_lock, queue, status, heap, snapshot, asked, before,
                   worker, history>>

OnlyMain == UNCHANGED <<tree, tree_lock, queue, last_assigned, status, heap,
                        snapshot, asked, before, worker, history>>

VerifyReply(result) ==
    IF result >= 0 THEN Reply(OP_VERIFY + 1, msg.data, result)
    ELSE Reply(OP_ERROR, msg.data, msg.number)

InProgress(n) == \E i \in {0, 1} : in_progress[i] = n

\* verify: op_n <= 0, then the first comparison with max_proc.
VerifyLess ==
    /\ mpc = "invoke" /\ msg.opcode = OP_VERIFY
    /\ IF msg.number <= 0 THEN VerifyReply(-1)
       ELSE /\ mpc' = IF msg.number < max_proc THEN "scan_done" ELSE "compare"
            /\ UNCHANGED msg
    /\ OnlyMain

\* verify: the scan of in_progress for an id below max_proc.
VerifyScanDone ==
    /\ mpc = "scan_done"
    /\ IF InProgress(msg.number) THEN VerifyReply(0)
       ELSE mpc' = "compare" /\ UNCHANGED msg
    /\ OnlyMain

IsNewLoose(n) == n > max_proc + 1               \* mutant: off by one
IsNewTight(n) == n >= max_proc                  \* mutant: off by one
IsNew(n) == n > max_proc

\* verify: max_proc is read again for the second comparison.
VerifyGreater ==
    /\ mpc = "compare"
    /\ IF IsNew(msg.number) THEN mpc' = "scan_new" /\ UNCHANGED msg
       ELSE VerifyReply(1)
    /\ OnlyMain

\* verify: the scan of in_progress for an id above max_proc.
VerifyScanNew ==
    /\ mpc = "scan_new"
    /\ VerifyReply(IF InProgress(msg.number) THEN 0 ELSE -1)
    /\ OnlyMain

\* get, size and height: one critical section each.
Get ==
    /\ mpc = "invoke" /\ msg.opcode = OP_GET /\ tree_lock = "free"
    /\ Reply(OP_GET + 1, tree_get(tree, msg.key), msg.number)
    /\ OnlyMain

Size ==
    /\ mpc = "invoke" /\ msg.opcode = OP_SIZE /\ tree_lock = "free"
    /\ Reply(OP_SIZE + 1, msg.data, tree_size(tree))
    /\ OnlyMain

Height ==
    /\ mpc = "invoke" /\ msg.opcode = OP_HEIGHT /\ tree_lock = "free"
    /\ \E h \in tree_height(tree) : Reply(OP_HEIGHT + 1, msg.data, h)
    /\ OnlyMain

\* get_keys and get_values, the critical section: copy the array.
Copy ==
    /\ mpc = "invoke" /\ msg.opcode \in {OP_GETKEYS, OP_GETVALUES} /\ tree_lock = "free"
    /\ snapshot' = tree_size(tree)
    /\ mpc' = "count"
    /\ UNCHANGED <<tree, tree_lock, queue, last_assigned, status, heap, msg, asked,
                   before, worker, history>>

\* What tree_size may return: inside put/del it is the size before or after the write.
Sizes == {tree_size(tree)}
         \union (IF tree_lock = "free" THEN {} ELSE {tree_size(Apply(tree, request))})

\* get_keys and get_values after the unlock: tree_size counts the tree again, which may
\* have changed; a count past the end of the array makes the loop over it dereference
\* its NULL terminator.
Count ==
    /\ mpc = "count"
    /\ \E n \in Sizes :
        IF n > snapshot THEN mpc' = "crashed" /\ UNCHANGED msg
        ELSE Reply(msg.opcode + 1, msg.data, n)
    /\ OnlyMain

\* invoke's default: nothing is done and the message goes back as it came.
BadOp ==
    /\ mpc = "invoke" /\ msg.opcode = OP_BAD
    /\ Reply(msg.opcode, msg.data, msg.number)
    /\ OnlyMain

\* network_send, then free the message and back to poll.
Send ==
    /\ mpc = "send"
    /\ mpc' = "poll" /\ msg' = NoMessage /\ asked' = NoMessage
    /\ before' = 0 /\ snapshot' = 0
    /\ UNCHANGED <<tree, tree_lock, queue, last_assigned, status, heap, worker, history>>

-----------------------------------------------------------------------------
\* The worker thread, process_request.

Alive == mpc # "crashed"

OnlyWorker == UNCHANGED <<last_assigned, main, accepted>>

\* Lock the queue; an empty one sends the thread into pthread_cond_wait.
Await ==
    /\ Alive /\ wpc = "lock" /\ queue = <<>>
    /\ wpc' = "wait"
    /\ UNCHANGED <<tree, tree_lock, queue, status, heap, request, log, propagated>>
    /\ OnlyWorker

\* POSIX lets pthread_cond_wait return without a signal.
SpuriousWakeup ==
    /\ Alive /\ wpc = "wait"
    /\ wpc' = "lock"
    /\ UNCHANGED <<tree, tree_lock, queue, status, heap, request, log, propagated>>
    /\ OnlyWorker

\* Take the head of the queue and unlock it.
Take ==
    /\ Alive /\ wpc = "lock" /\ queue # <<>>
    /\ request' = Head(queue)
    /\ queue' = Tail(queue)
    /\ wpc' = "taken"
    /\ UNCHANGED <<tree, tree_lock, status, heap, log, propagated>>
    /\ OnlyWorker

\* Under op_proc_lock: publish the request as in progress.
Begin ==
    /\ Alive /\ wpc = "taken"
    /\ in_progress' = [in_progress EXCEPT ![1] = request.op_n]
    /\ wpc' = "begun"
    /\ UNCHANGED <<tree, tree_lock, queue, max_proc, heap, request, log, propagated>>
    /\ OnlyWorker

\* put/del lock the tree.
LockTree ==
    /\ Alive /\ wpc = "begun" /\ tree_lock = "free"
    /\ tree_lock' = "worker"
    /\ wpc' = "locked"
    /\ UNCHANGED <<tree, queue, status, heap, request, log, propagated>>
    /\ OnlyWorker

\* put and del unlock the tree on their way out.
UnlockLater == tree_lock' = IF ResultOf(tree, request) = 0      \* mutant: held while
                            THEN "worker" ELSE "free"           \* propagating
Unlock == tree_lock' = "free"

\* Only a write that succeeded is for the next server.
AlwaysPropagate(result) == "propagate"          \* mutant: failures go there too
AfterWrite(result) == IF result = 0 THEN "propagate" ELSE "finish"

\* put/del run the operation and unlock; only a success is propagated.
Execute ==
    /\ Alive /\ wpc = "locked"
    /\ tree' = Apply(tree, request)
    /\ Unlock
    /\ log' = Append(log, request)
    /\ wpc' = AfterWrite(ResultOf(tree, request))
    /\ UNCHANGED <<queue, status, heap, request, propagated>>
    /\ OnlyWorker

\* propagate_request returns: the next server, if any, has taken the write.
Propagate ==
    /\ Alive /\ wpc = "propagate"
    /\ propagated' = Append(propagated, request)
    /\ wpc' = "finish"
    /\ UNCHANGED <<tree, tree_lock, queue, status, heap, request, log>>
    /\ OnlyWorker

Advance == max_proc' = IF request.op_n > max_proc THEN request.op_n ELSE max_proc

ClearSlot == in_progress' = [in_progress EXCEPT ![1] = 0]

\* Under op_proc_lock: advance max_proc, clear in_progress.
Finish ==
    /\ Alive /\ wpc = "finish"
    /\ Advance
    /\ ClearSlot
    /\ wpc' = "free"
    /\ UNCHANGED <<tree, tree_lock, queue, heap, request, log, propagated>>
    /\ OnlyWorker

Leak == UNCHANGED heap                          \* mutant: no free
Release == heap' = heap \ {request.op_n}

\* free(request), and round the loop.
Free ==
    /\ Alive /\ wpc = "free"
    /\ Release
    /\ request' = NoRequest
    /\ wpc' = "lock"
    /\ UNCHANGED <<tree, tree_lock, queue, status, log, propagated>>
    /\ OnlyWorker

-----------------------------------------------------------------------------
Invoke ==
    \/ QueueAdd \/ QueueAddReply
    \/ VerifyLess \/ VerifyScanDone \/ VerifyGreater \/ VerifyScanNew
    \/ Get \/ Size \/ Height \/ Copy \/ Count \/ BadOp

ProcessRequest ==
    Await \/ Take \/ Begin \/ LockTree \/ Execute \/ Finish \/ Free

Next ==
    \/ Receive \/ Invoke \/ Send
    \/ ProcessRequest \/ Propagate \/ SpuriousWakeup

Spec == Init /\ [][Next]_vars

\* Both threads keep running.  Nothing makes messages arrive, wakes the worker
\* without a signal, or makes the next server answer.
FairSpec == Spec /\ WF_vars(Invoke) /\ WF_vars(Send) /\ WF_vars(ProcessRequest)

-----------------------------------------------------------------------------
\* Types and ranges of the variables (of no code in particular).
TypeOK ==
    /\ tree \in Trees
    /\ tree_lock \in {"free", "worker"}
    /\ queue \in Seq(Writes)
    /\ last_assigned \in Nat \ {0}
    /\ max_proc \in Nat
    /\ in_progress \in [{0, 1} -> Int]
    /\ heap \subseteq Nat
    /\ mpc \in {"poll", "invoke", "queued", "scan_done", "compare", "scan_new",
                "count", "send", "crashed"}
    /\ msg \in Messages /\ asked \in Messages
    /\ snapshot \in Int /\ before \in Nat
    /\ wpc \in {"lock", "wait", "taken", "begun", "locked", "propagate", "finish", "free"}
    /\ request \in Writes
    /\ accepted \in Seq(Writes) /\ log \in Seq(Writes) /\ propagated \in Seq(Writes)

\* What is left of the request in the worker's hands: not yet on the tree ...
InHand == IF wpc \in {"taken", "begun", "locked"} THEN <<request>> ELSE <<>>

\* ... or on it and not yet handed to the next server.
InTransit == IF wpc = "propagate" THEN <<request>> ELSE <<>>

\* Every write queue_add accepts reaches the tree exactly once and in the order
\* of its id, whatever the two threads do (queue_add, process_request).
InOrderExactlyOnce ==
    /\ accepted = log \o InHand \o queue
    /\ \A i \in DOMAIN accepted : accepted[i].op_n = i

\* The tree is what the writes run so far leave, and the next server is handed
\* each of them that succeeded, in order, once (put, del, propagate_request).
TreeIsReplay ==
    LET outcome == Replay(log)
    IN  tree = outcome.tree /\ propagated \o InTransit = outcome.done

\* op_status follows the worker: max_proc counts the finished writes, and the
\* worker's slot names the next one from Begin to Finish (process_request).
StatusTracksLog ==
    /\ Len(log) = max_proc + (IF wpc \in {"propagate", "finish"} THEN 1 ELSE 0)
    /\ wpc \in {"begun", "locked", "propagate", "finish"} => in_progress[1] = max_proc + 1
    /\ max_proc > 0 /\ wpc \in {"lock", "wait", "taken", "free"} => in_progress[1] = 0

\* The worker never holds, nor finds in the queue, a request that was freed, and
\* no request stays allocated once it is processed (queue_add, process_request).
HeapIsLiveRequests ==
    heap = {queue[i].op_n : i \in DOMAIN queue}
           \union (IF wpc \in {"lock", "wait"} THEN {} ELSE {request.op_n})

Applied == wpc \in {"propagate", "finish", "free"}

\* The parts of the inductive invariant: where each accepted write is, what the
\* ids, the heap, the lock and the garbage then are, and what a verify that is
\* under way may rely on.
Positions ==
    /\ Len(accepted) = Len(log) + Len(InHand) + Len(queue)
    /\ \A i \in 1 .. Len(accepted) : accepted[i].op_n = i
    /\ \A i \in 1 .. Len(log) : log[i] = accepted[i]
    /\ \A i \in 1 .. Len(queue) : queue[i] = accepted[Len(log) + Len(InHand) + i]
    /\ wpc \in {"taken", "begun", "locked"} => request = accepted[Len(log) + 1]
    /\ Applied => Len(log) > 0 /\ request = accepted[Len(log)]

Bookkeeping ==
    /\ last_assigned = Len(accepted) + (IF mpc = "queued" THEN 0 ELSE 1)
    /\ heap = (IF Applied THEN Len(log) ELSE Len(log) + 1) .. Len(accepted)
    /\ (tree_lock = "worker") <=> (wpc = "locked")
    /\ in_progress[0] \in Garbage
    /\ max_proc = 0 /\ wpc \in {"lock", "wait", "taken"} => in_progress[1] \in Garbage

Verifying ==
    /\ before <= max_proc
    /\ mpc = "invoke" => msg = asked
    /\ mpc \in {"scan_done", "compare", "scan_new"} =>
           msg = asked /\ asked.opcode = OP_VERIFY /\ asked.number > 0
    /\ mpc = "scan_done" => asked.number < max_proc
    /\ mpc = "scan_new" => asked.number > before
    /\ mpc \in {"queued", "count"} => asked.opcode # OP_VERIFY

Answered(op) == mpc = "send" /\ asked.opcode = op

\* A write verify reports as done has run on the tree and been handed to the
\* next server, even though verify reads op_status without its lock (verify).
VerifySound ==
    Answered(OP_VERIFY) /\ msg.opcode = OP_VERIFY + 1 /\ msg.number = 1 =>
        asked.number \in 1 .. Len(log) - Len(InTransit)

\* Ids that uninitialised memory cannot show: a write finished before the call
\* is reported as done, and one reported in progress was accepted and was not
\* finished before the call (verify).
VerifyTimely ==
    Answered(OP_VERIFY) /\ asked.number \notin Garbage =>
        /\ asked.number \in 1 .. before => msg.opcode = OP_VERIFY + 1 /\ msg.number = 1
        /\ msg.opcode = OP_VERIFY + 1 /\ msg.number = 0 =>
               asked.number \in before + 1 .. Len(accepted)

\* The inductive invariant: the queue, the worker's hands and the log hold each
\* accepted write at its position, op_status follows them, and a verify that is
\* under way has seen a max_proc no larger than now (queue_add, process_request,
\* verify).
IInv ==
    /\ TypeOK /\ Positions /\ StatusTracksLog /\ Bookkeeping /\ Verifying
    /\ VerifySound /\ VerifyTimely

\* Once verify would report an id as done it always will: max_proc never goes
\* back, and passes over no write (process_request).
CompletionIsContiguous == [][max_proc' = max_proc + 1]_max_proc

\* Every accepted write is processed, if the next server always answers in the end: no
\* signal on queue_not_empty is lost (queue_add, process_request).
EveryWriteIsProcessed ==
    []<>(wpc # "propagate") =>
        \A n \in 1 .. MaxOps : (Len(accepted) >= n) ~> (max_proc >= n \/ ~Alive)

\* Every message is answered even if the next server never answers the worker:
\* nothing a handler waits for is held across propagate_request (invoke).
EveryCallIsAnswered == (mpc = "invoke") ~> (mpc = "send" \/ ~Alive)

\* The server implements WriteLog: the writes run are those in log.
WL == INSTANCE WriteLog WITH done <- Len(log)

\* A server accepts writes with consecutive numbers and runs them on its tree in
\* that order, each once, however its threads interleave (queue_add,
\* process_request).
ImplementsWriteLog == WL!WSafety

-----------------------------------------------------------------------------
\* What the documentation says and the code does not do.

\* tree_client.c:115 prints the number of the reply to a put as the id of the
\* request in the queue.
ReplyIdIsRequestId ==
    Answered(OP_PUT) \/ Answered(OP_DEL) => msg.number = Len(accepted)

\* tree_skel-private.h: get_keys returns all the keys of the tree, so the reply
\* carries exactly the array copied under tree_lock.
ListingIsWhole ==
    Alive /\ (Answered(OP_GETKEYS) => msg.number = snapshot)
=============================================================================
