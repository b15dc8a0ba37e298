---------------------------- MODULE TreeSkelProofs ----------------------------
(***************************************************************************)
(* The inductive invariant of one server, and what follows from it for any *)
(* keys, values, messages, number of writes and contents of uninitialised  *)
(* memory.                                                                 *)
(***************************************************************************)
EXTENDS TreeSkel, StoreProofs, FiniteSetTheorems

USE DEF Enqueue, Signal, NextId, IsNew, Unlock, AfterWrite, Advance, ClearSlot, Release
USE DEF OP_BAD, OP_SIZE, OP_HEIGHT, OP_DEL, OP_GET, OP_PUT, OP_GETKEYS,
        OP_GETVALUES, OP_VERIFY, OP_ERROR

\* The key a blank message and a blank request carry is one of Keys.
LEMMA SomeKey == (CHOOSE k \in Keys : TRUE) \in Keys
BY StoreAssumption

\* The blank message and the blank request are well typed.
LEMMA BlanksType == NoMessage \in Messages /\ NoRequest \in Writes
BY SomeKey DEF NoMessage, NoRequest, Messages, Writes

\* A message is a record of its fields.
LEMMA MessageFields == \A m \in Messages :
    m.opcode \in Int /\ m.key \in Keys /\ m.data \in Values \union {NoValue} /\ m.number \in Int
BY DEF Messages

\* What a handler replies is a message with the fields it gives.
LEMMA ReplyType ==
    ASSUME msg \in Messages, NEW op \in Int, NEW v \in Values \union {NoValue}, NEW n \in Int,
           Reply(op, v, n)
    PROVE  msg' \in Messages /\ msg'.opcode = op /\ msg'.number = n /\ mpc' = "send"
BY DEF Reply, Messages

\* A write leaves a tree a tree (tree_put, tree_del).
LEMMA ApplyType == \A t \in Trees, r \in Writes : Apply(t, r) \in Trees
BY DEF Trees, Writes, Apply, tree_put, tree_del

\* A step that leaves the queue, the worker and the history alone keeps every
\* write where it is; one that also leaves op_status alone keeps its meaning.
LEMMA PositionsKept ==
    ASSUME Positions, UNCHANGED <<queue, wpc, request, accepted, log>>
    PROVE  Positions'
BY DEF Positions, InHand, Applied

\* A step that moves no write and leaves op_status alone keeps what op_status says.
LEMMA StatusKept ==
    ASSUME StatusTracksLog, UNCHANGED <<status, wpc, log>>
    PROVE  StatusTracksLog'
BY DEF StatusTracksLog, status

\* tree_skel_init establishes the invariant.
LEMMA InitInv == Init => IInv
<1>. SUFFICES ASSUME Init PROVE IInv
  OBVIOUS
<1>1. TypeOK
  <2>1. tree \in Trees
    BY DEF Init, Trees, tree_create
  <2>2. in_progress \in [{0, 1} -> Int]
    BY SkelAssumption DEF Init
  <2>3. msg \in Messages /\ asked \in Messages /\ request \in Writes
    BY BlanksType DEF Init
  <2>4. queue = <<>> /\ accepted = <<>> /\ log = <<>> /\ propagated = <<>>
    BY DEF Init
  <2>. QED
    BY <2>1, <2>2, <2>3, <2>4 DEF Init, TypeOK
<1>2. Positions
  BY DEF Init, Positions, InHand, Applied
<1>3. StatusTracksLog
  BY DEF Init, StatusTracksLog
<1>4. Bookkeeping
  BY SkelAssumption DEF Init, Bookkeeping, Applied
<1>5. Verifying
  BY DEF Init, Verifying, NoMessage
<1>6. VerifySound /\ VerifyTimely
  BY DEF Init, VerifySound, VerifyTimely, Answered
<1>. QED
  BY <1>1, <1>2, <1>3, <1>4, <1>5, <1>6 DEF IInv

-----------------------------------------------------------------------------
\* The network thread's steps outside queue_add leave the shared state alone.
NetworkOnly == UNCHANGED <<tree, tree_lock, queue, last_assigned, status, heap,
                           worker, history>>

\* Steps of the network thread that change only the message in its hands (OnlyMain).
LEMMA NetworkOnlyKeeps ==
    ASSUME IInv, NetworkOnly, mpc # "queued", mpc' # "queued"
    PROVE  Positions' /\ StatusTracksLog' /\ Bookkeeping'
<1>1. Positions'
  BY PositionsKept DEF IInv, NetworkOnly, worker, history
<1>2. StatusTracksLog'
  BY StatusKept DEF IInv, NetworkOnly, worker, history, status
<1>3. Bookkeeping'
  BY DEF IInv, NetworkOnly, worker, history, status, Bookkeeping, Applied
<1>. QED
  BY <1>1, <1>2, <1>3

\* A message arrives, or a reply leaves.
LEMMA ReceiveSendInv ==
    ASSUME IInv, Receive \/ Send
    PROVE  IInv'
<1>1. NetworkOnly /\ mpc # "queued" /\ mpc' # "queued"
  BY DEF Receive, Send, NetworkOnly
<1>2. Positions' /\ StatusTracksLog' /\ Bookkeeping'
  BY <1>1, NetworkOnlyKeeps
<1>3. TypeOK'
  BY <1>1, BlanksType, SkelAssumption
     DEF IInv, TypeOK, Receive, Send, NetworkOnly, worker, history, status
<1>4. Verifying'
  BY DEF IInv, TypeOK, Verifying, Receive, Send, status
<1>5. VerifySound' /\ VerifyTimely'
  BY DEF Receive, Send, VerifySound, VerifyTimely, Answered
<1>. QED
  BY <1>2, <1>3, <1>4, <1>5 DEF IInv

\* A reply that no verify waits for keeps the properties of verify.
LEMMA OtherReplyInv ==
    ASSUME IInv, OnlyMain, asked.opcode # OP_VERIFY, mpc # "queued", mpc' # "queued",
           mpc' \in {"count", "send", "crashed"}, msg' \in Messages
    PROVE  IInv'
<1>1. NetworkOnly
  BY DEF OnlyMain, NetworkOnly
<1>2. Positions' /\ StatusTracksLog' /\ Bookkeeping'
  BY <1>1, NetworkOnlyKeeps
<1>3. TypeOK'
  BY DEF IInv, TypeOK, OnlyMain, worker, history, status
<1>4. Verifying' /\ VerifySound' /\ VerifyTimely'
  BY DEF IInv, Verifying, VerifySound, VerifyTimely, Answered, OnlyMain, status
<1>. QED
  BY <1>2, <1>3, <1>4 DEF IInv

\* tree_size is a number (tree_size).
LEMMA SizeType == \A t \in Trees : tree_size(t) \in Nat
<1>. SUFFICES ASSUME NEW t \in Trees PROVE tree_size(t) \in Nat
  OBVIOUS
<1>. tree_keys(t) \subseteq Keys
  BY DEF tree_keys
<1>. QED
  BY StoreAssumption, FS_Subset, FS_CardinalityType DEF tree_size

\* The reads and the default case of invoke: get, size, height, get_keys and
\* get_values.
LEMMA ReadInv ==
    ASSUME IInv, Get \/ Size \/ Height \/ Copy \/ Count \/ BadOp
    PROVE  IInv'
<1>1. msg \in Messages /\ tree \in Trees
  BY DEF IInv, TypeOK
<1>2. ASSUME OnlyMain, mpc = "invoke", msg.opcode # OP_VERIFY,
             NEW op \in Int, NEW v \in Values \union {NoValue}, NEW n \in Int, Reply(op, v, n)
      PROVE  IInv'
  <2>1. asked.opcode # OP_VERIFY
    BY <1>2 DEF IInv, Verifying
  <2>. QED
    BY <1>1, <1>2, <2>1, ReplyType, OtherReplyInv
<1>3. msg.data \in Values \union {NoValue} /\ msg.number \in Int /\ msg.opcode \in Int
      /\ msg.key \in Keys
  BY <1>1, MessageFields
<1>4. CASE Get
  <2>1. tree_get(tree, msg.key) \in Values \union {NoValue}
    BY <1>1, <1>3 DEF tree_get, Trees
  <2>. QED
    BY <1>2, <1>3, <1>4, <2>1 DEF Get
<1>5. CASE Size
  BY <1>1, <1>2, <1>3, <1>5, SizeType DEF Size
<1>6. CASE Height
  <2>1. tree_height(tree) \subseteq 0 .. tree_size(tree)
    BY DEF tree_height
  <2>2. tree_height(tree) \subseteq Int
    BY <1>1, <2>1, SizeType
  <2>. QED
    <3>1. PICK h \in Int : Reply(OP_HEIGHT + 1, msg.data, h)
      BY <1>6, <2>2 DEF Height
    <3>. QED
      BY <1>2, <1>3, <1>6, <3>1 DEF Height
<1>7. CASE Copy
  <2>1. NetworkOnly /\ mpc # "queued" /\ mpc' # "queued"
    BY <1>7 DEF Copy, NetworkOnly
  <2>2. Positions' /\ StatusTracksLog' /\ Bookkeeping'
    BY <2>1, NetworkOnlyKeeps
  <2>3. TypeOK'
    BY <1>7, <1>1, SizeType DEF Copy, IInv, TypeOK, worker, history, status
  <2>4. Verifying'
    BY <1>7 DEF Copy, IInv, Verifying, status
  <2>5. VerifySound' /\ VerifyTimely'
    BY <1>7 DEF Copy, VerifySound, VerifyTimely, Answered
  <2>. QED
    BY <2>2, <2>3, <2>4, <2>5 DEF IInv
<1>8. CASE Count
  <2>1. Sizes \subseteq Int
    <3>1. Apply(tree, request) \in Trees
      BY <1>1, ApplyType DEF IInv, TypeOK
    <3>. QED
      BY <1>1, <3>1, SizeType DEF Sizes
  <2>2. msg' \in Messages /\ mpc' \in {"send", "crashed"}
    BY <1>1, <1>3, <1>8, <2>1, ReplyType DEF Count
  <2>3. asked.opcode # OP_VERIFY /\ mpc # "queued" /\ OnlyMain
    BY <1>8 DEF Count, IInv, Verifying
  <2>. QED
    BY <2>2, <2>3, OtherReplyInv
<1>9. CASE BadOp
  BY <1>2, <1>3, <1>9 DEF BadOp
<1>. QED
  BY <1>4, <1>5, <1>6, <1>7, <1>8, <1>9

\* Lengths of the parts of a write's way through the server.
LEMMA HandLengths ==
    ASSUME IInv
    PROVE  /\ Len(InHand) = IF wpc \in {"taken", "begun", "locked"} THEN 1 ELSE 0
           /\ Len(InTransit) = IF wpc = "propagate" THEN 1 ELSE 0
           /\ Len(log) \in Nat /\ Len(accepted) \in Nat /\ Len(queue) \in Nat
BY DEF IInv, TypeOK, InHand, InTransit

\* What a reader of op_status may find in the worker's slot of in_progress.
LEMMA SlotValues ==
    ASSUME IInv
    PROVE  \/ in_progress[1] \in Garbage
           \/ in_progress[1] = 0
           \/ in_progress[1] = max_proc + 1 /\ max_proc + 1 <= Len(accepted)
<1>1. max_proc \in Nat
  BY DEF IInv, TypeOK
<1>2. CASE wpc \in {"begun", "locked", "propagate", "finish"}
  <2>1. in_progress[1] = max_proc + 1
    BY <1>2 DEF IInv, StatusTracksLog
  <2>2. max_proc + 1 <= Len(log) + Len(InHand)
    BY <1>1, <1>2, HandLengths DEF IInv, StatusTracksLog
  <2>. QED
    BY <1>1, <2>1, <2>2, HandLengths DEF IInv, Positions
<1>3. CASE wpc = "free"
  <2>1. max_proc > 0
    BY <1>1, <1>3, HandLengths DEF IInv, Positions, StatusTracksLog, Applied
  <2>. QED
    BY <1>3, <2>1 DEF IInv, StatusTracksLog
<1>4. CASE wpc \in {"lock", "wait", "taken"}
  BY <1>1, <1>4 DEF IInv, StatusTracksLog, Bookkeeping
<1>. QED
  BY <1>2, <1>3, <1>4 DEF IInv, TypeOK

\* verify goes on: what it compared still holds, whatever it compares next.
LEMMA VerifyGoesOn ==
    ASSUME IInv, OnlyMain, mpc # "queued", asked.opcode = OP_VERIFY, msg = asked,
           msg' = msg, mpc' \in {"scan_done", "compare", "scan_new"}, asked.number > 0,
           mpc' = "scan_done" => asked.number < max_proc,
           mpc' = "scan_new" => asked.number > before
    PROVE  IInv'
<1>1. NetworkOnly /\ mpc' # "queued" /\ asked' = asked /\ before' = before
  BY DEF OnlyMain, NetworkOnly
<1>2. Positions' /\ StatusTracksLog' /\ Bookkeeping'
  BY <1>1, NetworkOnlyKeeps
<1>3. TypeOK'
  BY DEF IInv, TypeOK, OnlyMain, worker, history, status
<1>4. Verifying'
  BY <1>1 DEF IInv, Verifying, NetworkOnly, status
<1>5. VerifySound' /\ VerifyTimely'
  BY DEF VerifySound, VerifyTimely, Answered
<1>. QED
  BY <1>2, <1>3, <1>4, <1>5 DEF IInv

\* verify answers 1, 0 or an error, knowing this of the id it was asked for.
LEMMA VerifyAnswers ==
    ASSUME IInv, OnlyMain, mpc # "queued", asked.opcode = OP_VERIFY,
           msg' \in Messages, mpc' = "send",
           \/ /\ msg'.opcode = OP_ERROR
              /\ asked.number <= 0 \/ asked.number > before
           \/ /\ msg'.opcode = OP_VERIFY + 1 /\ msg'.number = 0
              /\ asked.number \in Garbage \/ asked.number \in before + 1 .. Len(accepted)
           \/ /\ msg'.opcode = OP_VERIFY + 1 /\ msg'.number = 1
              /\ asked.number \in 1 .. max_proc
    PROVE  IInv'
<1>1. NetworkOnly /\ mpc' # "queued" /\ asked' = asked /\ before' = before
      /\ log' = log /\ accepted' = accepted /\ InTransit' = InTransit
  BY DEF OnlyMain, NetworkOnly, worker, history, InTransit
<1>2. Positions' /\ StatusTracksLog' /\ Bookkeeping'
  BY <1>1, NetworkOnlyKeeps
<1>3. TypeOK'
  BY DEF IInv, TypeOK, OnlyMain, worker, history, status
<1>4. Verifying'
  BY <1>1 DEF IInv, Verifying, NetworkOnly, status
<1>5. asked.number \in Int /\ before \in Nat /\ max_proc \in Nat /\ Len(log) \in Nat
      /\ Len(accepted) \in Nat
  BY MessageFields DEF IInv, TypeOK
<1>6. max_proc <= Len(log) - Len(InTransit)
  <2>1. Len(log) = max_proc + (IF wpc \in {"propagate", "finish"} THEN 1 ELSE 0)
    BY DEF IInv, StatusTracksLog
  <2>2. Len(InTransit) = IF wpc = "propagate" THEN 1 ELSE 0
    BY HandLengths
  <2>3. CASE wpc = "propagate"
    BY <1>5, <2>1, <2>2, <2>3
  <2>4. CASE wpc # "propagate"
    BY <1>5, <2>1, <2>2, <2>4
  <2>. QED
    BY <2>3, <2>4
<1>7. VerifySound'
  BY <1>1, <1>5, <1>6, HandLengths DEF VerifySound, Answered
<1>8. VerifyTimely'
  BY <1>1, <1>5 DEF VerifyTimely, Answered
<1>. QED
  BY <1>2, <1>3, <1>4, <1>7, <1>8 DEF IInv

\* verify: max_proc only grows and counts finished writes, so neither of the two
\* comparisons it makes outside the lock can be outdated in a way that matters.
LEMMA VerifyInv ==
    ASSUME IInv, VerifyLess \/ VerifyScanDone \/ VerifyGreater \/ VerifyScanNew
    PROVE  IInv'
<1>1. msg \in Messages /\ msg.number \in Int /\ msg.data \in Values \union {NoValue}
      /\ max_proc \in Nat /\ before \in Nat /\ Len(accepted) \in Nat
  BY MessageFields DEF IInv, TypeOK
<1>2. OnlyMain /\ mpc # "queued" /\ msg = asked /\ asked.opcode = OP_VERIFY
  BY DEF VerifyLess, VerifyScanDone, VerifyGreater, VerifyScanNew, IInv, Verifying
<1>3. ASSUME NEW r \in {-1, 0, 1}, VerifyReply(r)
      PROVE  /\ msg' \in Messages /\ mpc' = "send"
             /\ IF r = -1 THEN msg'.opcode = OP_ERROR
                ELSE msg'.opcode = OP_VERIFY + 1 /\ msg'.number = r
  <2>1. CASE r = -1
    <3>1. Reply(OP_ERROR, msg.data, msg.number)
      BY <1>3, <2>1 DEF VerifyReply
    <3>. QED
      BY <1>1, <2>1, <3>1 DEF Reply, Messages
  <2>2. CASE r \in {0, 1}
    <3>1. Reply(OP_VERIFY + 1, msg.data, r)
      BY <1>3, <2>2 DEF VerifyReply
    <3>. QED
      BY <1>1, <2>2, <3>1 DEF Reply, Messages
  <2>. QED
    BY <2>1, <2>2
<1>4. before <= max_proc
  BY DEF IInv, Verifying
<1>5. CASE VerifyLess
  <2>1. CASE asked.number <= 0
    <3>1. VerifyReply(-1)
      BY <1>2, <1>5, <2>1 DEF VerifyLess
    <3>. QED
      BY <1>2, <1>3, <2>1, <3>1, VerifyAnswers
  <2>2. CASE asked.number > 0
    BY <1>1, <1>2, <1>5, <2>2, VerifyGoesOn DEF VerifyLess
  <2>. QED
    BY <1>1, <1>2, <2>1, <2>2
<1>6. CASE VerifyScanDone
  <2>1. asked.number > 0 /\ asked.number < max_proc
    BY <1>6 DEF VerifyScanDone, IInv, Verifying
  <2>2. CASE InProgress(msg.number)
    <3>1. in_progress[0] \in Garbage
      BY DEF IInv, Bookkeeping
    <3>2. asked.number \in Garbage
      BY <1>1, <1>2, <2>1, <2>2, <3>1, SlotValues DEF InProgress
    <3>3. VerifyReply(0)
      BY <1>6, <2>2 DEF VerifyScanDone
    <3>. QED
      BY <1>2, <1>3, <3>2, <3>3, VerifyAnswers
  <2>3. CASE ~InProgress(msg.number)
    BY <1>2, <1>6, <2>1, <2>3, VerifyGoesOn DEF VerifyScanDone
  <2>. QED
    BY <2>2, <2>3
<1>7. CASE VerifyGreater
  <2>1. asked.number > 0
    BY <1>7 DEF VerifyGreater, IInv, Verifying
  <2>2. CASE asked.number > max_proc
    BY <1>1, <1>2, <1>4, <1>7, <2>1, <2>2, VerifyGoesOn DEF VerifyGreater
  <2>3. CASE ~(asked.number > max_proc)
    <3>1. VerifyReply(1)
      BY <1>2, <1>7, <2>3 DEF VerifyGreater
    <3>2. asked.number \in 1 .. max_proc
      BY <1>1, <1>2, <2>1, <2>3
    <3>. QED
      BY <1>2, <1>3, <3>1, <3>2, VerifyAnswers
  <2>. QED
    BY <2>2, <2>3
<1>8. CASE VerifyScanNew
  <2>1. asked.number > before
    BY <1>8 DEF VerifyScanNew, IInv, Verifying
  <2>2. CASE InProgress(msg.number)
    <3>1. in_progress[0] \in Garbage
      BY DEF IInv, Bookkeeping
    <3>2. asked.number \in Garbage \/ asked.number \in before + 1 .. Len(accepted)
      BY <1>1, <1>2, <1>4, <2>1, <2>2, <3>1, SlotValues DEF InProgress
    <3>3. VerifyReply(0)
      BY <1>8, <2>2 DEF VerifyScanNew
    <3>. QED
      BY <1>2, <1>3, <3>2, <3>3, VerifyAnswers
  <2>3. CASE ~InProgress(msg.number)
    <3>1. VerifyReply(-1)
      BY <1>8, <2>3 DEF VerifyScanNew
    <3>. QED
      BY <1>2, <1>3, <2>1, <3>1, VerifyAnswers
  <2>. QED
    BY <2>2, <2>3
<1>. QED
  BY <1>5, <1>6, <1>7, <1>8

\* queue_add appends the write after all those accepted before it.
LEMMA QueueAddInv ==
    ASSUME IInv, QueueAdd
    PROVE  IInv'
<1>. DEFINE r == [op_n |-> last_assigned, key |-> msg.key,
                  op   |-> IF msg.opcode = OP_PUT THEN 1 ELSE 0,
                  data |-> IF msg.opcode = OP_PUT THEN msg.data ELSE NoValue]
            n == Len(accepted)
<1>1. r \in Writes /\ r.op_n = n + 1 /\ last_assigned = n + 1 /\ n \in Nat
  <2>1. last_assigned = n + 1 /\ last_assigned \in Nat /\ n \in Nat
    BY DEF IInv, TypeOK, Bookkeeping, QueueAdd
  <2>. QED
    BY <2>1, MessageFields DEF IInv, TypeOK, Writes
<1>2. queue' = Append(queue, r) /\ accepted' = Append(accepted, r)
  BY DEF QueueAdd
<1>. HIDE DEF r
<1>3. accepted \in Seq(Writes) /\ queue \in Seq(Writes)
  BY DEF IInv, TypeOK
<1>4. /\ accepted' \in Seq(Writes) /\ Len(accepted') = n + 1 /\ accepted'[n + 1] = r
      /\ \A i \in 1 .. n : accepted'[i] = accepted[i]
  BY <1>1, <1>2, <1>3
<1>5. /\ queue' \in Seq(Writes) /\ Len(queue') = Len(queue) + 1 /\ queue'[Len(queue) + 1] = r
      /\ \A i \in 1 .. Len(queue) : queue'[i] = queue[i]
  BY <1>1, <1>2, <1>3
<1>6. InHand' = InHand /\ InTransit' = InTransit /\ (Applied' <=> Applied) /\ log' = log
      /\ max_proc' = max_proc /\ in_progress' = in_progress /\ request' = request
      /\ (wpc' = wpc \/ (wpc = "wait" /\ wpc' = "lock"))
  <2>1. /\ wpc' = IF wpc = "wait" THEN "lock" ELSE wpc
        /\ UNCHANGED <<request, log, max_proc, in_progress>>
    BY DEF QueueAdd, status
  <2>2. CASE wpc = "wait"
    BY <2>1, <2>2 DEF InHand, InTransit, Applied
  <2>3. CASE wpc # "wait"
    BY <2>1, <2>3 DEF InHand, InTransit, Applied
  <2>. QED
    BY <2>2, <2>3
<1>7. /\ Len(log) \in Nat /\ Len(queue) \in Nat /\ Len(InHand) \in {0, 1}
      /\ n = Len(log) + Len(InHand) + Len(queue)
      /\ (wpc \in {"taken", "begun", "locked"} => Len(InHand) = 1)
  BY <1>3, HandLengths DEF IInv, Positions
<1>8. TypeOK'
  <2>1. heap' = heap \union {n + 1} /\ mpc' = "queued"
        /\ UNCHANGED <<tree, tree_lock, last_assigned, status, msg, snapshot, asked, before,
                       request, log, propagated>>
    BY <1>1 DEF QueueAdd
  <2>. QED
    BY <1>1, <1>4, <1>5, <1>6, <2>1 DEF IInv, TypeOK, status
<1>9. Positions'
  <2>1. Len(accepted') = Len(log') + Len(InHand') + Len(queue')
    BY <1>1, <1>4, <1>5, <1>6, <1>7
  <2>2. \A i \in 1 .. Len(accepted') : accepted'[i].op_n = i
    BY <1>1, <1>4 DEF IInv, Positions
  <2>3. \A i \in 1 .. Len(log') : log'[i] = accepted'[i]
    BY <1>1, <1>4, <1>6, <1>7 DEF IInv, Positions
  <2>4. \A i \in 1 .. Len(queue') : queue'[i] = accepted'[Len(log') + Len(InHand') + i]
    <3>1. SUFFICES ASSUME NEW i \in 1 .. Len(queue) + 1
                   PROVE  queue'[i] = accepted'[Len(log) + Len(InHand) + i]
      BY <1>5, <1>6
    <3>2. CASE i = Len(queue) + 1
      BY <1>1, <1>4, <1>5, <1>7, <3>2
    <3>3. CASE i \in 1 .. Len(queue)
      <4>1. queue[i] = accepted[Len(log) + Len(InHand) + i]
        BY <3>3 DEF IInv, Positions
      <4>2. Len(log) + Len(InHand) + i \in 1 .. n
        BY <1>7, <3>3
      <4>. QED
        BY <1>4, <1>5, <3>3, <4>1, <4>2
    <3>. QED
      BY <1>7, <3>2, <3>3
  <2>5. wpc' \in {"taken", "begun", "locked"} => request' = accepted'[Len(log') + 1]
    <3>1. SUFFICES ASSUME wpc \in {"taken", "begun", "locked"}
                   PROVE  request = accepted'[Len(log) + 1]
      BY <1>6
    <3>2. request = accepted[Len(log) + 1]
      BY <3>1 DEF IInv, Positions
    <3>3. Len(log) + 1 \in 1 .. n
      BY <1>7, <3>1
    <3>. QED
      BY <1>4, <3>2, <3>3
  <2>6. Applied' => Len(log') > 0 /\ request' = accepted'[Len(log')]
    <3>1. SUFFICES ASSUME Applied PROVE Len(log) > 0 /\ request = accepted'[Len(log)]
      BY <1>6
    <3>2. Len(log) > 0 /\ request = accepted[Len(log)]
      BY <3>1 DEF IInv, Positions
    <3>3. Len(log) \in 1 .. n
      BY <1>7, <3>2
    <3>. QED
      BY <1>4, <3>2, <3>3
  <2>. QED
    BY <2>1, <2>2, <2>3, <2>4, <2>5, <2>6 DEF Positions
<1>10. StatusTracksLog'
  BY <1>6 DEF IInv, StatusTracksLog
<1>11. Bookkeeping'
  <2>1. heap' = heap \union {n + 1} /\ mpc' = "queued" /\ last_assigned' = last_assigned
        /\ tree_lock' = tree_lock
    BY <1>1 DEF QueueAdd
  <2>2. heap = (IF Applied THEN Len(log) ELSE Len(log) + 1) .. n
    BY DEF IInv, Bookkeeping
  <2>3. heap' = (IF Applied THEN Len(log) ELSE Len(log) + 1) .. n + 1
    BY <1>1, <1>7, <2>1, <2>2
  <2>4. heap' = (IF Applied' THEN Len(log') ELSE Len(log') + 1) .. Len(accepted')
    BY <1>4, <1>6, <2>3
  <2>. QED
    BY <1>1, <1>4, <1>6, <2>1, <2>4 DEF IInv, Bookkeeping
<1>12. Verifying' /\ VerifySound' /\ VerifyTimely'
  BY <1>6 DEF QueueAdd, IInv, Verifying, VerifySound, VerifyTimely, Answered
<1>. QED
  BY <1>8, <1>9, <1>10, <1>11, <1>12 DEF IInv

\* queue_add returns: the next id is one more, whatever it read for the reply.
LEMMA QueueAddReplyInv ==
    ASSUME IInv, QueueAddReply
    PROVE  IInv'
<1>1. msg \in Messages /\ last_assigned \in Nat \ {0} /\ Len(accepted) \in Nat
      /\ asked.opcode # OP_VERIFY
  BY DEF IInv, TypeOK, Verifying, QueueAddReply
<1>2. msg' \in Messages /\ mpc' = "send"
  <2>1. PICK x \in {last_assigned} \union Garbage : Reply(msg.opcode + 1, msg.data, x)
    BY DEF QueueAddReply
  <2>2. x \in Int
    BY <1>1, SkelAssumption
  <2>. QED
    BY <1>1, <2>1, <2>2 DEF Reply, Messages
<1>3. TypeOK'
  BY <1>1, <1>2 DEF QueueAddReply, IInv, TypeOK, status, worker, history
<1>4. Positions' /\ StatusTracksLog'
  BY PositionsKept, StatusKept DEF QueueAddReply, IInv, worker, history
<1>5. Bookkeeping'
  BY <1>1, <1>2 DEF QueueAddReply, IInv, Bookkeeping, Applied, status, worker, history
<1>6. Verifying' /\ VerifySound' /\ VerifyTimely'
  BY <1>1, <1>2 DEF QueueAddReply, IInv, Verifying, VerifySound, VerifyTimely, Answered, status
<1>. QED
  BY <1>3, <1>4, <1>5, <1>6 DEF IInv

-----------------------------------------------------------------------------
\* A worker step that never takes back a finished write keeps what a verify under
\* way has seen, and what the last one answered.
LEMMA WorkerKeepsVerify ==
    ASSUME IInv, OnlyWorker, max_proc' \in Nat, max_proc' >= max_proc,
           Len(log') - Len(InTransit') \in Int,
           Len(log') - Len(InTransit') >= Len(log) - Len(InTransit)
    PROVE  Verifying' /\ VerifySound' /\ VerifyTimely'
<1>1. /\ mpc' = mpc /\ msg' = msg /\ asked' = asked /\ before' = before
      /\ accepted' = accepted
  BY DEF OnlyWorker, main
<1>2. asked.number \in Int /\ before \in Nat /\ max_proc \in Nat
      /\ Len(log) - Len(InTransit) \in Int
  BY MessageFields, HandLengths DEF IInv, TypeOK
<1>3. Verifying'
  BY <1>1, <1>2 DEF IInv, Verifying
<1>4. VerifySound'
  BY <1>1, <1>2 DEF IInv, VerifySound, Answered
<1>5. VerifyTimely'
  BY <1>1 DEF IInv, VerifyTimely, Answered
<1>. QED
  BY <1>3, <1>4, <1>5

\* Steps of the worker that move no write and finish none.
LEMMA WorkerKeeps ==
    ASSUME IInv, OnlyWorker, UNCHANGED <<queue, max_proc, log>>,
           InHand' = InHand, InTransit' = InTransit, Applied' <=> Applied, request' = request,
           wpc' \in {"taken", "begun", "locked"} => wpc \in {"taken", "begun", "locked"}
    PROVE  Positions' /\ Verifying' /\ VerifySound' /\ VerifyTimely'
<1>1. Positions'
  BY DEF IInv, Positions, OnlyWorker
<1>2. max_proc \in Nat /\ Len(log) - Len(InTransit) \in Int
  BY HandLengths DEF IInv, TypeOK
<1>. QED
  BY <1>1, <1>2, WorkerKeepsVerify

\* The worker finds the queue empty, or wakes (process_request).
LEMMA WaitInv ==
    ASSUME IInv, Await \/ SpuriousWakeup
    PROVE  IInv'
<1>1. wpc \in {"lock", "wait"} /\ wpc' \in {"lock", "wait"} /\ OnlyWorker
      /\ UNCHANGED <<tree, tree_lock, queue, status, heap, request, log, propagated>>
  BY DEF Await, SpuriousWakeup
<1>2. InHand' = InHand /\ InTransit' = InTransit /\ (Applied' <=> Applied)
  BY <1>1 DEF InHand, InTransit, Applied
<1>3. Positions' /\ Verifying' /\ VerifySound' /\ VerifyTimely'
  BY <1>1, <1>2, WorkerKeeps DEF status
<1>4. TypeOK'
  BY <1>1 DEF IInv, TypeOK, OnlyWorker, status, main
<1>5. StatusTracksLog' /\ Bookkeeping'
  BY <1>1, <1>2 DEF IInv, StatusTracksLog, Bookkeeping, OnlyWorker, status, main
<1>. QED
  BY <1>3, <1>4, <1>5 DEF IInv

\* The write in the worker's hands is the one after those on the tree.
LEMMA InHandIsNext ==
    ASSUME IInv, wpc \in {"taken", "begun", "locked"}
    PROVE  /\ Len(log) = max_proc /\ max_proc \in Nat
           /\ Len(log) + 1 \in 1 .. Len(accepted)
           /\ request = accepted[Len(log) + 1] /\ request.op_n = Len(log) + 1
<1>1. Len(log) = max_proc /\ max_proc \in Nat
  BY HandLengths DEF IInv, TypeOK, StatusTracksLog
<1>2. Len(accepted) = Len(log) + 1 + Len(queue)
  BY HandLengths DEF IInv, Positions
<1>3. Len(log) + 1 \in 1 .. Len(accepted)
  BY <1>1, <1>2, HandLengths
<1>4. request = accepted[Len(log) + 1]
  BY DEF IInv, Positions
<1>. QED
  BY <1>1, <1>3, <1>4 DEF IInv, Positions

\* The write the worker has run is the last of those on the tree.
LEMMA AppliedIsLast ==
    ASSUME IInv, Applied
    PROVE  Len(log) \in 1 .. Len(accepted) /\ request = accepted[Len(log)]
           /\ request.op_n = Len(log)
<1>1. Len(InHand) = 0 /\ Len(log) \in Nat /\ Len(queue) \in Nat
  BY HandLengths DEF Applied
<1>2. Len(accepted) = Len(log) + Len(queue) /\ Len(log) > 0
  BY <1>1 DEF IInv, Positions
<1>3. Len(log) \in 1 .. Len(accepted)
  BY <1>1, <1>2
<1>. QED
  BY <1>3 DEF IInv, Positions

\* The worker publishes its request in op_status (process_request).
LEMMA BeginInv ==
    ASSUME IInv, Begin
    PROVE  IInv'
<1>1. wpc = "taken" /\ wpc' = "begun" /\ OnlyWorker
      /\ in_progress' = [in_progress EXCEPT ![1] = request.op_n]
      /\ UNCHANGED <<tree, tree_lock, queue, max_proc, heap, request, log, propagated>>
  BY DEF Begin
<1>2. InHand' = InHand /\ InTransit' = InTransit /\ (Applied' <=> Applied)
  BY <1>1 DEF InHand, InTransit, Applied
<1>3. Positions' /\ Verifying' /\ VerifySound' /\ VerifyTimely'
  BY <1>1, <1>2, WorkerKeeps
<1>4. request.op_n = max_proc + 1
  BY <1>1, InHandIsNext
<1>5. /\ in_progress' \in [{0, 1} -> Int]
      /\ in_progress'[0] = in_progress[0] /\ in_progress'[1] = max_proc + 1
  BY <1>1, <1>4 DEF IInv, TypeOK
<1>6. TypeOK'
  BY <1>1, <1>5 DEF IInv, TypeOK, OnlyWorker, main
<1>7. StatusTracksLog' /\ Bookkeeping'
  BY <1>1, <1>2, <1>5 DEF IInv, StatusTracksLog, Bookkeeping, OnlyWorker, main
<1>. QED
  BY <1>3, <1>6, <1>7 DEF IInv

\* put/del take tree_lock.
LEMMA LockTreeInv ==
    ASSUME IInv, LockTree
    PROVE  IInv'
<1>1. wpc = "begun" /\ wpc' = "locked" /\ tree_lock' = "worker" /\ OnlyWorker
      /\ UNCHANGED <<tree, queue, status, heap, request, log, propagated>>
  BY DEF LockTree
<1>2. InHand' = InHand /\ InTransit' = InTransit /\ (Applied' <=> Applied)
  BY <1>1 DEF InHand, InTransit, Applied
<1>3. Positions' /\ Verifying' /\ VerifySound' /\ VerifyTimely'
  BY <1>1, <1>2, WorkerKeeps DEF status
<1>4. TypeOK'
  BY <1>1 DEF IInv, TypeOK, OnlyWorker, status, main
<1>5. StatusTracksLog' /\ Bookkeeping'
  BY <1>1, <1>2 DEF IInv, StatusTracksLog, Bookkeeping, OnlyWorker, status, main
<1>. QED
  BY <1>3, <1>4, <1>5 DEF IInv

\* propagate_request returns.
LEMMA PropagateInv ==
    ASSUME IInv, Propagate
    PROVE  IInv'
<1>1. wpc = "propagate" /\ wpc' = "finish" /\ OnlyWorker
      /\ propagated' = Append(propagated, request)
      /\ UNCHANGED <<tree, tree_lock, queue, status, heap, request, log>>
  BY DEF Propagate
<1>2. InHand' = InHand /\ (Applied' <=> Applied) /\ Len(InTransit) = 1 /\ Len(InTransit') = 0
  BY <1>1 DEF InHand, InTransit, Applied
<1>3. Positions'
  BY <1>1, <1>2 DEF IInv, Positions, OnlyWorker
<1>4. TypeOK'
  BY <1>1 DEF IInv, TypeOK, OnlyWorker, status, main
<1>5. StatusTracksLog' /\ Bookkeeping'
  BY <1>1, <1>2 DEF IInv, StatusTracksLog, Bookkeeping, OnlyWorker, status, main
<1>6. Verifying' /\ VerifySound' /\ VerifyTimely'
  BY <1>1, <1>2, WorkerKeepsVerify, HandLengths DEF IInv, TypeOK, status
<1>. QED
  BY <1>3, <1>4, <1>5, <1>6 DEF IInv

\* The worker takes the head of the queue (process_request).
LEMMA TakeInv ==
    ASSUME IInv, Take
    PROVE  IInv'
<1>1. wpc = "lock" /\ wpc' = "taken" /\ OnlyWorker /\ queue # <<>>
      /\ request' = Head(queue) /\ queue' = Tail(queue)
      /\ UNCHANGED <<tree, tree_lock, status, heap, log, propagated>>
  BY DEF Take
<1>2. /\ queue \in Seq(Writes) /\ Len(queue) \in Nat /\ Len(queue) > 0
      /\ queue' \in Seq(Writes) /\ Len(queue') = Len(queue) - 1
      /\ \A i \in 1 .. Len(queue') : queue'[i] = queue[i + 1]
      /\ request' = queue[1] /\ request' \in Writes
  BY <1>1 DEF IInv, TypeOK
<1>3. InHand = <<>> /\ Len(InHand) = 0 /\ Len(InHand') = 1 /\ InTransit' = InTransit
      /\ ~Applied /\ ~Applied'
  BY <1>1 DEF InHand, InTransit, Applied
<1>4. accepted' = accepted /\ log' = log /\ max_proc' = max_proc /\ in_progress' = in_progress
  BY <1>1 DEF OnlyWorker, status
<1>5. Len(log) \in Nat /\ Len(accepted) \in Nat
  BY HandLengths
<1>6. TypeOK'
  BY <1>1, <1>2 DEF IInv, TypeOK, OnlyWorker, status, main
<1>7. Positions'
  <2>1. Len(accepted) = Len(log) + 1 + Len(queue')
    BY <1>2, <1>3, <1>5 DEF IInv, Positions
  <2>2. \A i \in 1 .. Len(queue') : queue'[i] = accepted[Len(log) + 1 + i]
    <3>1. SUFFICES ASSUME NEW i \in 1 .. Len(queue') PROVE queue'[i] = accepted[Len(log) + 1 + i]
      OBVIOUS
    <3>2. queue[i + 1] = accepted[Len(log) + (i + 1)]
      BY <1>2, <1>3, <1>5 DEF IInv, Positions
    <3>. QED
      BY <1>2, <1>5, <3>2
  <2>3. request' = accepted[Len(log) + 1]
    BY <1>2, <1>3, <1>5 DEF IInv, Positions
  <2>. QED
    BY <1>3, <1>4, <2>1, <2>2, <2>3 DEF IInv, Positions
<1>8. StatusTracksLog'
  BY <1>1, <1>4 DEF IInv, StatusTracksLog
<1>9. Bookkeeping'
  BY <1>1, <1>3, <1>4 DEF IInv, Bookkeeping, OnlyWorker, main
<1>10. max_proc \in Nat /\ Len(log) - Len(InTransit) \in Int
  BY HandLengths DEF IInv, TypeOK
<1>11. Verifying' /\ VerifySound' /\ VerifyTimely'
  BY <1>1, <1>3, <1>4, <1>10, WorkerKeepsVerify
<1>. QED
  BY <1>6, <1>7, <1>8, <1>9, <1>11 DEF IInv

\* put/del run the write on the tree and unlock it.
LEMMA ExecuteInv ==
    ASSUME IInv, Execute
    PROVE  IInv'
<1>1. wpc = "locked" /\ wpc' \in {"propagate", "finish"} /\ OnlyWorker
      /\ tree' = Apply(tree, request) /\ tree_lock' = "free" /\ log' = Append(log, request)
      /\ UNCHANGED <<queue, status, heap, request, propagated>>
  BY DEF Execute
<1>2. /\ Len(log) = max_proc /\ max_proc \in Nat
      /\ Len(log) + 1 \in 1 .. Len(accepted)
      /\ request = accepted[Len(log) + 1]
  BY <1>1, InHandIsNext
<1>3. /\ log' \in Seq(Writes) /\ Len(log') = Len(log) + 1 /\ log'[Len(log) + 1] = request
      /\ \A i \in 1 .. Len(log) : log'[i] = log[i]
  BY <1>1 DEF IInv, TypeOK
<1>4. Len(InHand) = 1 /\ Len(InHand') = 0 /\ Applied' /\ ~Applied
      /\ Len(InTransit) = 0 /\ Len(InTransit') \in {0, 1}
  BY <1>1 DEF InHand, InTransit, Applied
<1>5. accepted' = accepted /\ queue' = queue /\ max_proc' = max_proc /\ in_progress' = in_progress
      /\ request' = request
  BY <1>1 DEF OnlyWorker, status
<1>6. TypeOK'
  BY <1>1, <1>3, ApplyType DEF IInv, TypeOK, OnlyWorker, status, main
<1>7. Positions'
  <2>1. Len(accepted) = Len(log') + 0 + Len(queue)
    BY <1>2, <1>3, <1>4, HandLengths DEF IInv, Positions
  <2>2. \A i \in 1 .. Len(log') : log'[i] = accepted[i]
    BY <1>2, <1>3 DEF IInv, Positions
  <2>3. \A i \in 1 .. Len(queue) : queue[i] = accepted[Len(log') + 0 + i]
    BY <1>2, <1>3, <1>4, HandLengths DEF IInv, Positions
  <2>4. Len(log') > 0 /\ request = accepted[Len(log')]
    BY <1>2, <1>3
  <2>. QED
    BY <1>1, <1>4, <1>5, <2>1, <2>2, <2>3, <2>4 DEF IInv, Positions
<1>8. StatusTracksLog'
  BY <1>1, <1>2, <1>3, <1>5 DEF IInv, StatusTracksLog
<1>9. Bookkeeping'
  BY <1>1, <1>3, <1>4, <1>5 DEF IInv, Bookkeeping, OnlyWorker, main
<1>10. Len(log') - Len(InTransit') \in Int
       /\ Len(log') - Len(InTransit') >= Len(log) - Len(InTransit)
  <2>1. CASE Len(InTransit') = 0
    BY <1>2, <1>3, <1>4, <2>1
  <2>2. CASE Len(InTransit') = 1
    BY <1>2, <1>3, <1>4, <2>2
  <2>. QED
    BY <1>4, <2>1, <2>2
<1>11. Verifying' /\ VerifySound' /\ VerifyTimely'
  BY <1>1, <1>2, <1>5, <1>10, WorkerKeepsVerify
<1>. QED
  BY <1>6, <1>7, <1>8, <1>9, <1>11 DEF IInv

\* The worker advances max_proc and clears its slot (process_request).
LEMMA FinishInv ==
    ASSUME IInv, Finish
    PROVE  IInv' /\ max_proc' = max_proc + 1
<1>1. wpc = "finish" /\ wpc' = "free" /\ OnlyWorker
      /\ max_proc' = (IF request.op_n > max_proc THEN request.op_n ELSE max_proc)
      /\ in_progress' = [in_progress EXCEPT ![1] = 0]
      /\ UNCHANGED <<tree, tree_lock, queue, heap, request, log, propagated>>
  BY DEF Finish
<1>2. max_proc \in Nat /\ Len(log) = max_proc + 1
  BY <1>1 DEF IInv, TypeOK, StatusTracksLog
<1>3. max_proc' = max_proc + 1
  BY <1>1, <1>2, AppliedIsLast DEF Applied
<1>4. /\ in_progress' \in [{0, 1} -> Int]
      /\ in_progress'[0] = in_progress[0] /\ in_progress'[1] = 0
  BY <1>1 DEF IInv, TypeOK
<1>5. InHand' = InHand /\ InTransit' = InTransit /\ Applied /\ Applied'
  BY <1>1 DEF InHand, InTransit, Applied
<1>6. TypeOK'
  BY <1>1, <1>2, <1>3, <1>4 DEF IInv, TypeOK, OnlyWorker, main
<1>7. Positions'
  BY <1>1, <1>5 DEF IInv, Positions, OnlyWorker
<1>8. StatusTracksLog'
  BY <1>1, <1>2, <1>3, <1>4 DEF IInv, StatusTracksLog
<1>9. Bookkeeping'
  BY <1>1, <1>4, <1>5 DEF IInv, Bookkeeping, OnlyWorker, main
<1>10. Verifying' /\ VerifySound' /\ VerifyTimely'
  BY <1>1, <1>2, <1>3, <1>5, HandLengths, WorkerKeepsVerify
<1>. QED
  BY <1>3, <1>6, <1>7, <1>8, <1>9, <1>10 DEF IInv

\* The worker frees its request (process_request).
LEMMA FreeInv ==
    ASSUME IInv, Free
    PROVE  IInv'
<1>1. wpc = "free" /\ wpc' = "lock" /\ OnlyWorker
      /\ heap' = heap \ {request.op_n} /\ request' = NoRequest
      /\ UNCHANGED <<tree, tree_lock, queue, status, log, propagated>>
  BY DEF Free
<1>2. Applied /\ ~Applied' /\ InHand' = InHand /\ InTransit' = InTransit
  BY <1>1 DEF InHand, InTransit, Applied
<1>3. request.op_n = Len(log) /\ Len(log) \in 1 .. Len(accepted) /\ Len(log) = max_proc
  BY <1>1, <1>2, AppliedIsLast DEF IInv, TypeOK, StatusTracksLog
<1>4. accepted' = accepted /\ log' = log /\ max_proc' = max_proc /\ in_progress' = in_progress
  BY <1>1 DEF OnlyWorker, status
<1>5. heap' = Len(log) + 1 .. Len(accepted)
  <2>1. heap = Len(log) .. Len(accepted)
    BY <1>2 DEF IInv, Bookkeeping
  <2>2. Len(accepted) \in Nat
    BY HandLengths
  <2>. QED
    BY <1>1, <1>3, <2>1, <2>2
<1>6. TypeOK'
  BY <1>1, <1>5, BlanksType DEF IInv, TypeOK, OnlyWorker, status, main
<1>7. Positions'
  BY <1>1, <1>2, <1>4 DEF IInv, Positions
<1>8. StatusTracksLog'
  BY <1>1, <1>4 DEF IInv, StatusTracksLog
<1>9. Bookkeeping'
  BY <1>1, <1>2, <1>3, <1>4, <1>5 DEF IInv, Bookkeeping, OnlyWorker, main
<1>10. Verifying' /\ VerifySound' /\ VerifyTimely'
  BY <1>1, <1>2, <1>3, <1>4, HandLengths, WorkerKeepsVerify
<1>. QED
  BY <1>6, <1>7, <1>8, <1>9, <1>10 DEF IInv

-----------------------------------------------------------------------------
\* No step of either thread breaks the invariant.
LEMMA StepInv == IInv /\ [Next]_vars => IInv'
<1>. SUFFICES ASSUME IInv, [Next]_vars PROVE IInv'
  OBVIOUS
<1>1. CASE Receive \/ Send
  BY <1>1, ReceiveSendInv
<1>2. CASE Invoke
  BY <1>2, QueueAddInv, QueueAddReplyInv, VerifyInv, ReadInv DEF Invoke
<1>3. CASE ProcessRequest
  BY <1>3, WaitInv, TakeInv, BeginInv, LockTreeInv, ExecuteInv, FinishInv, FreeInv
     DEF ProcessRequest
<1>4. CASE Propagate
  BY <1>4, PropagateInv
<1>5. CASE SpuriousWakeup
  BY <1>5, WaitInv
<1>6. CASE UNCHANGED vars
  <2>1. NetworkOnly /\ UNCHANGED main
    BY <1>6 DEF vars, NetworkOnly
  <2>2. TypeOK'
    BY <2>1 DEF NetworkOnly, main, worker, history, status, IInv, TypeOK
  <2>3. Positions' /\ StatusTracksLog'
    BY <2>1, PositionsKept, StatusKept DEF NetworkOnly, worker, history, IInv
  <2>4. Bookkeeping'
    BY <2>1 DEF NetworkOnly, main, worker, history, status, IInv, Bookkeeping, Applied
  <2>5. Verifying' /\ VerifySound' /\ VerifyTimely'
    BY <2>1 DEF NetworkOnly, main, worker, history, status, IInv, Verifying, VerifySound,
       VerifyTimely, Answered, InTransit
  <2>. QED
    BY <2>2, <2>3, <2>4, <2>5 DEF IInv
<1>. QED
  BY <1>1, <1>2, <1>3, <1>4, <1>5, <1>6 DEF Next

\* Whatever the two threads of a server do, and in whatever order (tree_skel.c):
\* the invariant holds.
THEOREM Invariance == Spec => []IInv
BY InitInv, StepInv, PTL DEF Spec

\* The variables keep their types.
THEOREM TypeCorrect == Spec => []TypeOK
<1>1. IInv => TypeOK
  BY DEF IInv
<1>. QED
  BY <1>1, Invariance, PTL

\* op_status follows the worker (process_request).
THEOREM StatusCorrect == Spec => []StatusTracksLog
<1>1. IInv => StatusTracksLog
  BY DEF IInv
<1>. QED
  BY <1>1, Invariance, PTL

\* An id verify reports as done is on the tree, and with the next server if it
\* succeeded, although verify reads op_status without its lock (verify).
THEOREM VerifyIsSound == Spec => []VerifySound
<1>1. IInv => VerifySound
  BY DEF IInv
<1>. QED
  BY <1>1, Invariance, PTL

\* verify reports every write finished before the call as done, and calls no
\* other write in progress than an accepted one not finished before the call,
\* for the ids uninitialised memory cannot show (verify).
THEOREM VerifyIsTimely == Spec => []VerifyTimely
<1>1. IInv => VerifyTimely
  BY DEF IInv
<1>. QED
  BY <1>1, Invariance, PTL

\* Every accepted write reaches the tree exactly once, in the order of its id
\* (queue_add, process_request).
THEOREM OrderCorrect == Spec => []InOrderExactlyOnce
<1>1. IInv => InOrderExactlyOnce
  <2>. SUFFICES ASSUME IInv PROVE InOrderExactlyOnce
    OBVIOUS
  <2>1. log \in Seq(Writes) /\ InHand \in Seq(Writes) /\ queue \in Seq(Writes)
        /\ accepted \in Seq(Writes)
    BY DEF IInv, TypeOK, InHand
  <2>. DEFINE a == Len(log)
              b == Len(InHand)
              whole == log \o InHand \o queue
  <2>2. /\ log \o InHand \in Seq(Writes) /\ Len(log \o InHand) = a + b
        /\ \A i \in 1 .. a + b :
              (log \o InHand)[i] = IF i <= a THEN log[i] ELSE InHand[i - a]
    BY <2>1, ConcatProperties
  <2>3. /\ whole \in Seq(Writes) /\ Len(whole) = a + b + Len(queue)
        /\ \A i \in 1 .. a + b + Len(queue) :
              whole[i] = IF i <= a + b THEN (log \o InHand)[i] ELSE queue[i - (a + b)]
    BY <2>1, <2>2, ConcatProperties
  <2>4. Len(accepted) = a + b + Len(queue) /\ a \in Nat /\ b \in {0, 1} /\ Len(queue) \in Nat
    BY HandLengths DEF IInv, Positions
  <2>5. ASSUME NEW i \in 1 .. Len(accepted) PROVE accepted[i] = whole[i]
    <3>1. CASE i <= a
      BY <2>2, <2>3, <2>4, <2>5, <3>1 DEF IInv, Positions
    <3>2. CASE i = a + 1 /\ b = 1
      <4>1. wpc \in {"taken", "begun", "locked"}
        BY <3>2, HandLengths
      <4>2. InHand[1] = accepted[a + 1]
        BY <4>1 DEF IInv, Positions, InHand
      <4>. QED
        BY <2>2, <2>3, <2>4, <2>5, <3>2, <4>2
    <3>3. CASE i > a + b
      <4>1. i - (a + b) \in 1 .. Len(queue) /\ a + b + (i - (a + b)) = i
        BY <2>4, <2>5, <3>3
      <4>2. queue[i - (a + b)] = accepted[a + b + (i - (a + b))]
        BY <4>1 DEF IInv, Positions
      <4>. QED
        BY <2>3, <2>4, <2>5, <3>3, <4>1, <4>2
    <3>4. i <= a \/ (i = a + 1 /\ b = 1) \/ i > a + b
      <4>1. i \in Int /\ a \in Int /\ (b = 0 \/ b = 1)
        BY <2>4, <2>5
      <4>2. CASE b = 0
        BY <4>1, <4>2
      <4>3. CASE b = 1
        BY <4>1, <4>3
      <4>. QED
        BY <4>1, <4>2, <4>3
    <3>. QED
      BY <3>1, <3>2, <3>3, <3>4
  <2>6. accepted = whole
    BY <2>1, <2>3, <2>4, <2>5, SeqEqual
  <2>7. \A i \in DOMAIN accepted : accepted[i].op_n = i
    BY <2>1 DEF IInv, Positions
  <2>. QED
    BY <2>6, <2>7 DEF InOrderExactlyOnce
<1>. QED
  BY <1>1, Invariance, PTL

\* An interval is its least element and the rest.
LEMMA IntervalSplit == \A x, y \in Int : x <= y => x .. y = (x + 1 .. y) \union {x}
OBVIOUS

\* The worker never holds a request that was freed, and none is leaked
\* (queue_add, process_request).
THEOREM HeapCorrect == Spec => []HeapIsLiveRequests
<1>1. IInv => HeapIsLiveRequests
  <2>. SUFFICES ASSUME IInv PROVE HeapIsLiveRequests
    OBVIOUS
  <2>. DEFINE a == Len(log)
              n == Len(accepted)
              queued == {queue[i].op_n : i \in DOMAIN queue}
  <2>1. a \in Nat /\ n \in Nat /\ Len(queue) \in Nat /\ DOMAIN queue = 1 .. Len(queue)
        /\ n = a + Len(InHand) + Len(queue)
    BY HandLengths DEF IInv, TypeOK, Positions
  <2>2. queued = a + Len(InHand) + 1 .. n
    <3>1. \A i \in 1 .. Len(queue) : queue[i].op_n = a + Len(InHand) + i
      BY <2>1, HandLengths DEF IInv, Positions
    <3>2. queued \subseteq a + Len(InHand) + 1 .. n
      BY <2>1, <3>1, HandLengths
    <3>3. ASSUME NEW m \in a + Len(InHand) + 1 .. n PROVE m \in queued
      <4>1. m - (a + Len(InHand)) \in 1 .. Len(queue)
        BY <2>1, HandLengths
      <4>2. queue[m - (a + Len(InHand))].op_n = m
        BY <2>1, <3>1, <4>1, HandLengths
      <4>. QED
        BY <2>1, <4>1, <4>2
    <3>. QED
      BY <3>2, <3>3
  <2>. HIDE DEF queued
  <2>3. CASE wpc \in {"lock", "wait"}
    <3>1. Len(InHand) = 0 /\ ~Applied
      BY <2>3, HandLengths DEF Applied
    <3>. QED
      BY <2>1, <2>2, <2>3, <3>1 DEF IInv, Bookkeeping, HeapIsLiveRequests, queued
  <2>4. CASE wpc \in {"taken", "begun", "locked"}
    <3>1. Len(InHand) = 1 /\ ~Applied /\ request.op_n = a + 1
      BY <2>4, HandLengths, InHandIsNext DEF Applied
    <3>2. heap = a + 1 .. n
      BY <3>1 DEF IInv, Bookkeeping
    <3>3. queued = (a + 1) + 1 .. n /\ a + 1 <= n
      BY <2>1, <2>2, <3>1
    <3>4. a + 1 .. n = ((a + 1) + 1 .. n) \union {a + 1}
      BY <2>1, <3>3, IntervalSplit
    <3>5. heap = queued \union {request.op_n}
      BY <3>1, <3>2, <3>3, <3>4
    <3>. QED
      BY <2>4, <3>5 DEF HeapIsLiveRequests, queued
  <2>5. CASE Applied
    <3>1. Len(InHand) = 0 /\ request.op_n = a /\ a \in 1 .. n
      BY <2>5, HandLengths, AppliedIsLast DEF Applied
    <3>2. heap = a .. n
      BY <2>5 DEF IInv, Bookkeeping
    <3>3. queued = a + 1 .. n
      BY <2>1, <2>2, <3>1
    <3>4. heap = queued \union {request.op_n}
      BY <2>1, <3>1, <3>2, <3>3
    <3>. QED
      BY <2>5, <3>4 DEF HeapIsLiveRequests, Applied, queued
  <2>. QED
    BY <2>3, <2>4, <2>5 DEF IInv, TypeOK, Applied
<1>. QED
  BY <1>1, Invariance, PTL

\* A sequence followed by nothing, or by one write.
LEMMA ConcatOne ==
    \A q \in Seq(Writes), r \in Writes : q \o <<>> = q /\ q \o <<r>> = Append(q, r)
OBVIOUS

\* The tree is what the writes run so far leave, from an empty tree on, and the next
\* server is handed those of them that succeed, each once, in order (put, del,
\* process_request, propagate_request).
THEOREM ReplayCorrect == Spec => []TreeIsReplay
<1>1. Init => TreeIsReplay
  <2>1. <<>> \o <<>> = <<>>
    OBVIOUS
  <2>. QED
    BY <2>1, ReplayEmpty DEF Init, TreeIsReplay, NoOutcome, InTransit
<1>2. IInv /\ TreeIsReplay /\ [Next]_vars => TreeIsReplay'
  <2>. SUFFICES ASSUME IInv, TreeIsReplay, [Next]_vars PROVE TreeIsReplay'
    OBVIOUS
  <2>1. log \in Seq(Writes) /\ request \in Writes /\ propagated \in Seq(Writes)
    BY DEF IInv, TypeOK
  <2>2. CASE Execute
    <3>1. /\ tree' = Apply(tree, request) /\ log' = Append(log, request)
          /\ propagated' = propagated /\ request' = request
          /\ wpc = "locked" /\ wpc' = AfterWrite(ResultOf(tree, request))
      BY <2>2 DEF Execute
    <3>2. Replay(log') = Extend(Replay(log), request)
      BY <2>1, <3>1, ReplayAppend
    <3>3. tree = Replay(log).tree /\ propagated = Replay(log).done
      BY <2>1, <3>1, ConcatOne DEF TreeIsReplay, InTransit
    <3>4. tree' = Replay(log').tree
      BY <3>1, <3>2, <3>3, ExtendFields
    <3>5. CASE ResultOf(tree, request) = 0
      <4>1. Replay(log').done = Append(propagated, request)
        BY <3>2, <3>3, <3>5, ExtendFields
      <4>2. propagated' \o InTransit' = Append(propagated, request)
        BY <2>1, <3>1, <3>5, ConcatOne DEF InTransit
      <4>. QED
        BY <3>4, <4>1, <4>2 DEF TreeIsReplay
    <3>6. CASE ResultOf(tree, request) # 0
      <4>1. Replay(log').done = propagated
        BY <3>2, <3>3, <3>6, ExtendFields
      <4>2. propagated' \o InTransit' = propagated
        BY <2>1, <3>1, <3>6, ConcatOne DEF InTransit
      <4>. QED
        BY <3>4, <4>1, <4>2 DEF TreeIsReplay
    <3>. QED
      BY <3>5, <3>6
  <2>3. CASE Propagate
    <3>1. /\ propagated' = Append(propagated, request) /\ wpc = "propagate" /\ wpc' = "finish"
          /\ UNCHANGED <<tree, log, request>>
      BY <2>3 DEF Propagate
    <3>2. InTransit = <<request>> /\ InTransit' = <<>>
      BY <3>1 DEF InTransit
    <3>3. propagated' \in Seq(Writes)
      BY <2>1, <3>1
    <3>4. propagated \o InTransit = propagated' /\ propagated' \o InTransit' = propagated'
      BY <2>1, <3>1, <3>2, <3>3, ConcatOne
    <3>. QED
      BY <3>1, <3>4 DEF TreeIsReplay
  <2>4. CASE ~Execute /\ ~Propagate
    <3>1. /\ UNCHANGED <<tree, log, propagated>>
          /\ wpc' = "propagate" <=> wpc = "propagate"
          /\ wpc = "propagate" => request' = request
      BY <2>4 DEF Next, Invoke, ProcessRequest, Receive, QueueAdd, QueueAddReply, VerifyLess,
         VerifyScanDone, VerifyGreater, VerifyScanNew, Get, Size, Height, Copy, Count, BadOp,
         OnlyMain, Send, Await, Take, Begin, LockTree, Finish, Free,
         SpuriousWakeup, OnlyWorker, vars, history, worker
    <3>2. InTransit' = InTransit
      BY <3>1 DEF InTransit
    <3>. QED
      BY <3>1, <3>2 DEF TreeIsReplay
  <2>. QED
    BY <2>2, <2>3, <2>4
<1>. QED
  BY <1>1, <1>2, Invariance, PTL DEF Spec

\* max_proc never goes back and passes over no write (process_request).
THEOREM ContiguousCorrect == Spec => CompletionIsContiguous
<1>1. IInv /\ [Next]_vars => [max_proc' = max_proc + 1]_max_proc
  <2>. SUFFICES ASSUME IInv, Next, max_proc' # max_proc PROVE max_proc' = max_proc + 1
    BY DEF vars, status
  <2>1. Finish
    BY DEF Next, Invoke, ProcessRequest, Receive, QueueAdd, QueueAddReply, VerifyLess,
       VerifyScanDone, VerifyGreater, VerifyScanNew, Get, Size, Height, Copy, Count, BadOp,
       OnlyMain, Send, Await, Take, Begin, LockTree, Execute, Propagate, Free,
       SpuriousWakeup, status
  <2>. QED
    BY <2>1, FinishInv
<1>. QED
  BY <1>1, Invariance, PTL DEF Spec, CompletionIsContiguous

\* A server implements the abstract write log: it accepts writes with consecutive
\* numbers and runs them on its tree in that order, each once (queue_add,
\* process_request).  That it keeps running them is liveness, left to TLC.
THEOREM ImplementsLog == Spec => ImplementsWriteLog
<1>1. Init => WL!WInit
  BY DEF Init, WL!WInit
<1>2. IInv /\ [Next]_vars => [WL!WNext]_(WL!wvars)
  <2>. SUFFICES ASSUME IInv, [Next]_vars PROVE WL!WNext \/ UNCHANGED WL!wvars
    OBVIOUS
  <2>1. CASE QueueAdd
    <3>1. last_assigned = Len(accepted) + 1
      BY <2>1 DEF IInv, Bookkeeping, QueueAdd
    <3>2. msg.key \in Keys /\ msg.data \in Values \union {NoValue}
      BY MessageFields DEF IInv, TypeOK
    <3>3. \E op \in {0, 1}, v \in Values \union {NoValue} :
             accepted' = Append(accepted, [op_n |-> Len(accepted) + 1, op |-> op,
                                           key |-> msg.key, data |-> v])
      <4>1. CASE msg.opcode = OP_PUT
        BY <2>1, <3>1, <3>2, <4>1 DEF QueueAdd
      <4>2. CASE msg.opcode # OP_PUT
        BY <2>1, <3>1, <3>2, <4>2 DEF QueueAdd
      <4>. QED
        BY <4>1, <4>2
    <3>4. UNCHANGED <<Len(log), tree>>
      BY <2>1 DEF QueueAdd
    <3>. QED
      BY <3>2, <3>3, <3>4 DEF WL!WNext, WL!Accept
  <2>2. CASE Execute
    <3>1. /\ Len(log) + 1 \in 1 .. Len(accepted) /\ Len(log) \in Nat /\ Len(accepted) \in Nat
          /\ request = accepted[Len(log) + 1]
      BY <2>2, InHandIsNext, HandLengths DEF Execute
    <3>2. Len(log') = Len(log) + 1 /\ tree' = Apply(tree, request) /\ accepted' = accepted
      BY <2>2 DEF Execute, OnlyWorker, IInv, TypeOK
    <3>. QED
      BY <3>1, <3>2 DEF WL!WNext, WL!Run, WL!Apply, WL!tree_put, WL!tree_del,
                        Apply, tree_put, tree_del
  <2>3. CASE ~QueueAdd /\ ~Execute
    <3>1. UNCHANGED <<accepted, log, tree>>
      BY <2>3 DEF Next, Invoke, ProcessRequest, Receive, QueueAddReply, VerifyLess,
         VerifyScanDone, VerifyGreater, VerifyScanNew, Get, Size, Height, Copy, Count, BadOp,
         OnlyMain, Send, Await, Take, Begin, LockTree, Propagate, Finish, Free,
         SpuriousWakeup, OnlyWorker, vars, history
    <3>. QED
      BY <3>1 DEF WL!wvars
  <2>. QED
    BY <2>1, <2>2, <2>3
<1>. QED
  BY <1>1, <1>2, Invariance, PTL DEF Spec, ImplementsWriteLog, WL!WSafety
=============================================================================
