------------------------------ MODULE ChainProofs ------------------------------
(***************************************************************************)
(* The inductive invariant of a chain of servers, and what follows from it *)
(* for any number of servers, clients and writes, any keys and values, and *)
(* whatever uninitialised and freed memory holds: that a write that        *)
(* succeeds at the head reaches the tail, in order and once, that verify   *)
(* at the tail is sound for ids of the head, and that the chain implements *)
(* one WriteLog.                                                           *)
(***************************************************************************)
EXTENDS Chain, StoreProofs

USE DEF Enqueue, Dequeue, AfterWrite, NextServer, Advance, Return, ServerFor
USE DEF OP_BAD, OP_SIZE, OP_HEIGHT, OP_DEL, OP_GET, OP_PUT, OP_GETKEYS,
        OP_GETVALUES, OP_VERIFY, OP_ERROR

\* Who is who: the head is not the tail, every server but the tail has one after it and
\* every server but the head one before it, and clients are no servers.
LEMMA Names ==
    /\ HeadServer \in Servers /\ TailServer \in Servers /\ HeadServer # TailServer
    /\ Servers \subseteq Callers /\ Clients \subseteq Callers
    /\ \A c \in Clients : c \notin Servers
    /\ \A p \in Callers : p # Nobody /\ (p \in Clients \/ p \in Servers)
    /\ Servers \subseteq Nat
    /\ \A s \in Servers : s # TailServer =>
        s + 1 \in Servers /\ s + 1 # HeadServer /\ s + 1 # s
    /\ \A s \in Servers : s # HeadServer =>
        s - 1 \in Servers /\ s - 1 # TailServer /\ (s - 1) + 1 = s
    /\ \A s, t \in Servers : s # HeadServer /\ t + 1 = s => t = s - 1
<1>1. N \in Nat /\ N > 1 /\ Clients \intersect (Servers \union {0}) = {}
  BY ChainAssumption
<1>. QED
  BY <1>1 DEF HeadServer, TailServer, Servers, Callers, Nobody

\* The key a blank message and a blank write carry is one of Keys.
LEMMA SomeKey == (CHOOSE k \in Keys : TRUE) \in Keys
BY StoreAssumption

\* The blank message, write and call are well typed, and so is each command.
LEMMA BlanksType ==
    /\ NoMessage \in Messages /\ NoRequest \in Write
    /\ NoCall \in [stage : {"none", "sent", "answered"}, to : Servers,
                   msg : Messages, origin : Nat]
    /\ \A m \in Commands : m \in Messages /\ m.opcode \in {OP_PUT, OP_DEL}
<1>1. NoMessage \in Messages /\ NoRequest \in Write
  BY SomeKey DEF NoMessage, NoRequest, Messages, Write
<1>2. NoCall \in [stage : {"none", "sent", "answered"}, to : Servers,
                  msg : Messages, origin : Nat]
  BY <1>1, Names DEF NoCall
<1>3. \A m \in Commands : m \in Messages /\ m.opcode \in {OP_PUT, OP_DEL}
  BY ChainAssumption DEF Messages
<1>. QED
  BY <1>1, <1>2, <1>3

\* The fields of a message, of a write and of a call.
LEMMA Fields ==
    /\ \A m \in Messages : m.opcode \in Int /\ m.key \in Keys
                           /\ m.data \in Values \union {NoValue} /\ m.number \in Int
    /\ \A r \in Write : r.op_n \in Nat /\ r.op \in {0, 1} /\ r.key \in Keys
                        /\ r.data \in Values \union {NoValue} /\ r.origin \in Nat
    /\ \A r \in Write : Content(r) \in Asked
    /\ \A r \in Asked : r.op \in {0, 1} /\ r.key \in Keys
                        /\ r.data \in Values \union {NoValue} /\ r.origin \in Nat
BY DEF Messages, Write, Asked, Content

\* What a call holds.
CallType == [stage : {"none", "sent", "answered"}, to : Servers, msg : Messages, origin : Nat]

\* The length of a sequence.
LEMMA Length == \A S : \A q \in Seq(S) : Len(q) \in Nat /\ DOMAIN q = 1 .. Len(q)
OBVIOUS

\* The types of what a step reads.
LEMMA Types ==
    ASSUME TypeOK
    PROVE  /\ \A s \in Servers :
                /\ tree[s] \in Trees /\ queue[s] \in Seq(Write) /\ last_assigned[s] \in Nat \ {0}
                /\ max_proc[s] \in Nat /\ request[s] \in Write
                /\ log[s] \in Seq([write : Write, ok : BOOLEAN]) /\ succeeded[s] \in Seq(Asked)
                /\ wpc[s] \in {"lock", "propagate", "await", "finish"}
                /\ serving[s] \in Callers \union {Nobody}
                /\ Len(queue[s]) \in Nat /\ Len(log[s]) \in Nat /\ Len(succeeded[s]) \in Nat
           /\ \A p \in Callers : call[p] \in CallType
           /\ \A c \in Clients :
                /\ cpc[c] \in {"ready", "write", "sleep", "verify"}
                /\ command[c] \in Messages
                /\ depth[c] \in Nat /\ result[c] \in Int /\ origin[c] \in Nat
<1>1. \A s \in Servers :
        /\ tree[s] \in Trees /\ queue[s] \in Seq(Write) /\ last_assigned[s] \in Nat \ {0}
        /\ max_proc[s] \in Nat /\ request[s] \in Write
        /\ log[s] \in Seq([write : Write, ok : BOOLEAN]) /\ succeeded[s] \in Seq(Asked)
        /\ wpc[s] \in {"lock", "propagate", "await", "finish"}
        /\ serving[s] \in Callers \union {Nobody}
  BY DEF TypeOK
<1>2. \A s \in Servers : Len(queue[s]) \in Nat /\ Len(log[s]) \in Nat /\ Len(succeeded[s]) \in Nat
  BY <1>1, Length
<1>. QED
  BY <1>1, <1>2 DEF TypeOK, CallType

\* The initial state.
LEMMA InitInv == Init => CInv
<1>. SUFFICES ASSUME Init PROVE CInv
  OBVIOUS
<1>1. TypeOK
  BY BlanksType DEF Init, TypeOK, Trees, tree_create
<1>2. Numbering /\ Origins
  BY Names DEF Init, Numbering, Origins
<1>3. ClientCalls /\ WorkerCalls /\ Serves
  BY Names DEF Init, ClientCalls, WorkerCalls, ClientCall, WorkerCall, Serves, NoCall
<1>4. Follows
  BY Names DEF Init, Follows, Behind
<1>5. AllSucceed /\ Reached /\ AcknowledgedIsSettled
  BY Names DEF Init, AllSucceed, Reached, AcknowledgedIsSettled
<1>6. Replayed
  BY ReplayEmpty DEF Init, Replayed, NoOutcome
<1>. QED
  BY <1>1, <1>2, <1>3, <1>4, <1>5, <1>6 DEF CInv

-----------------------------------------------------------------------------
\* Facts about states.

\* The writes a server is sent come from the server before it, and the head's from
\* clients (propagate_request, network_send_receive).
LEMMA WhoAsks ==
    ASSUME CInv, NEW s \in Servers, NEW p \in Callers, Asks(p, s, {OP_PUT, OP_DEL})
    PROVE  IF s = HeadServer THEN p \in Clients /\ p \notin Servers /\ cpc[p] = "write"
           ELSE p = s - 1 /\ p \in Servers /\ p \notin Clients /\ wpc[p] = "await"
<1>1. call[p].stage = "sent" /\ call[p].to = s /\ call[p].msg.opcode \in {OP_PUT, OP_DEL}
  BY DEF Asks
<1>2. CASE p \in Clients
  <2>1. cpc[p] = "write"
    BY <1>1, <1>2, Types DEF CInv, ClientCalls, ClientCall
  <2>. QED
    BY <1>1, <1>2, <2>1, Names DEF CInv, ClientCalls, ClientCall
<1>3. CASE p \in Servers
  <2>1. wpc[p] = "await" /\ s = p + 1 /\ p # TailServer
    BY <1>1, <1>3 DEF CInv, WorkerCalls, WorkerCall
  <2>. QED
    BY <1>3, <2>1, Names
<1>. QED
  BY <1>2, <1>3, Names

\* An id of the head that the tail calls done is settled, and so are all below (verify).
LEMMA DoneIsSettled ==
    ASSUME CInv
    PROVE  VerifiedIsSettled
<1>. SUFFICES ASSUME NEW n \in 1 .. max_proc[TailServer] PROVE Settled(n)
  BY DEF VerifiedIsSettled
<1>. DEFINE head == log[HeadServer]
            tail == log[TailServer]
<1>1. /\ head \in Seq([write : Write, ok : BOOLEAN]) /\ tail \in Seq([write : Write, ok : BOOLEAN])
      /\ succeeded[HeadServer] \in Seq(Asked) /\ max_proc[TailServer] \in Nat
  BY Types, Names DEF CInv
<1>2. max_proc[TailServer] <= Len(tail)
  <2>1. max_proc[TailServer] = Len(tail) - (IF wpc[TailServer] = "lock" THEN 0 ELSE 1)
    BY Names DEF CInv, Numbering
  <2>2. Len(tail) \in Nat
    BY <1>1
  <2>. HIDE DEF tail
  <2>. QED
    BY <2>1, <2>2
<1>3. Len(tail) <= Len(succeeded[HeadServer]) /\ Len(succeeded[HeadServer]) <= Len(head)
  BY Names DEF CInv, AllSucceed, Reached
<1>4. n \in DOMAIN head /\ n \in Nat /\ head[n].write.op_n = n /\ head[n].write.origin = n
  <2>1. n \in DOMAIN head /\ n \in Nat
    BY <1>1, <1>2, <1>3
  <2>. QED
    BY <2>1, Names DEF CInv, Numbering, Origins
<1>5. CASE ~head[n].ok
  BY <1>4, <1>5 DEF Settled
<1>6. CASE head[n].ok
  <2>1. PICK j \in 1 .. n : j <= Len(succeeded[HeadServer])
                            /\ succeeded[HeadServer][j] = Content(head[n].write)
    BY <1>4, <1>6 DEF CInv, Reached
  <2>2. j \in DOMAIN tail
    BY <1>1, <1>2
  <2>3. Content(tail[j].write) = Content(head[n].write)
    <3>1. \A i \in DOMAIN tail : Content(tail[i].write) = succeeded[TailServer][i]
                                 /\ succeeded[TailServer][i] = succeeded[HeadServer][i]
      BY Names DEF CInv, AllSucceed
    <3>. QED
      BY <2>1, <2>2, <3>1, Zenon
  <2>4. tail[j].write.origin = n
    BY <1>4, <2>3 DEF Content
  <2>. QED
    BY <2>2, <2>4 DEF Settled
<1>. QED
  BY <1>5, <1>6

\* What is settled stays so while the logs keep what they hold.
LEMMA SettledStays ==
    ASSUME \A s \in Servers : \A i \in DOMAIN log[s] :
                i \in DOMAIN log'[s] /\ log'[s][i] = log[s][i]
    PROVE  \A n : Settled(n) => Settled(n)'
BY Names DEF Settled

\* What follows if no write moves.
LEMMA PastKept ==
    ASSUME CInv, UNCHANGED <<tree, past>>
    PROVE  /\ AllSucceed' /\ Reached' /\ Replayed'
           /\ \A n : Settled(n) => Settled(n)'
           /\ UNCHANGED acks => AcknowledgedIsSettled'
<1>1. log' = log /\ succeeded' = succeeded /\ tree' = tree
  BY DEF past
<1>2. AllSucceed' /\ Reached' /\ Replayed'
  BY <1>1 DEF CInv, AllSucceed, Reached, Replayed
<1>3. \A n : Settled(n) => Settled(n)'
  BY <1>1 DEF Settled
<1>4. UNCHANGED acks => AcknowledgedIsSettled'
  BY <1>3 DEF CInv, AcknowledgedIsSettled
<1>. QED
  BY <1>2, <1>3, <1>4

-----------------------------------------------------------------------------
\* A client's steps.

\* A client whose write is not being answered changes no server by what becomes of its
\* call (network_send_receive).
LEMMA ServersKept ==
    ASSUME CInv, NEW c \in Clients, UNCHANGED server,
           call[c].stage # "sent" \/ cpc[c] = "verify",
           \A p \in Callers : p # c => call'[p] = call[p]
    PROVE  /\ Numbering' /\ Origins' /\ WorkerCalls' /\ Serves' /\ Follows'
           /\ AllSucceed' /\ Reached' /\ Replayed'
<1>1. /\ tree' = tree /\ queue' = queue /\ last_assigned' = last_assigned
      /\ max_proc' = max_proc /\ wpc' = wpc /\ request' = request /\ serving' = serving
      /\ log' = log /\ succeeded' = succeeded
  BY DEF server, past
<1>2. \A s \in Servers : call'[s] = call[s]
  BY Names
<1>3. Numbering' /\ Origins'
  BY <1>1 DEF CInv, Numbering, Origins
<1>4. WorkerCalls'
  BY <1>1, <1>2 DEF CInv, WorkerCalls, WorkerCall
<1>5. Serves'
  <2>. SUFFICES ASSUME NEW s \in Servers, serving[s] # Nobody
                PROVE  Asks(serving[s], s, {OP_PUT, OP_DEL})'
    BY <1>1 DEF Serves
  <2>1. Asks(serving[s], s, {OP_PUT, OP_DEL}) /\ serving[s] \in Callers
    BY Types DEF CInv, Serves
  <2>2. serving[s] # c /\ serving'[s] = serving[s]
    BY <1>1, <2>1 DEF Asks, CInv, ClientCalls, ClientCall
  <2>3. call'[serving[s]] = call[serving[s]]
    BY <2>1, <2>2
  <2>. QED
    BY <2>1, <2>2, <2>3 DEF Asks
<1>6. Follows'
  <2>1. \A s \in Servers : Behind(s)' <=> Behind(s)
    BY <1>1, <1>2 DEF Behind
  <2>. QED
    BY <1>1, <2>1 DEF CInv, Follows
<1>7. AllSucceed' /\ Reached' /\ Replayed'
  BY <1>1, PastKept DEF past
<1>. QED
  BY <1>3, <1>4, <1>5, <1>6, <1>7

\* What a client holds is well typed after a step that leaves the servers alone and
\* writes well typed values.
LEMMA ClientTyped ==
    ASSUME TypeOK, UNCHANGED server,
           call' \in [Callers -> CallType],
           cpc' \in [Clients -> {"ready", "write", "sleep", "verify"}],
           command' \in [Clients -> Messages], depth' \in [Clients -> Nat],
           result' \in [Clients -> Int], origin' \in [Clients -> Nat],
           acks' \subseteq [id : Int, origin : Nat]
    PROVE  TypeOK'
BY DEF TypeOK, CallType, server, past

\* What a client of TypeOK holds before a step.
LEMMA ClientTypes ==
    ASSUME TypeOK
    PROVE  /\ call \in [Callers -> CallType]
           /\ cpc \in [Clients -> {"ready", "write", "sleep", "verify"}]
           /\ command \in [Clients -> Messages] /\ depth \in [Clients -> Nat]
           /\ result \in [Clients -> Int] /\ origin \in [Clients -> Nat]
           /\ acks \subseteq [id : Int, origin : Nat]
BY DEF TypeOK, CallType

\* A call is well typed if what it sends is (network_send_receive, send_receive).
LEMMA SendTyped ==
    ASSUME call \in [Callers -> CallType], NEW p \in Callers, NEW s \in Servers,
           NEW m \in Messages, NEW n \in Nat, Send(p, s, m, n)
    PROVE  /\ call' \in [Callers -> CallType]
           /\ call'[p].stage = "sent" /\ call'[p].to = s
           /\ call'[p].msg = m /\ call'[p].origin = n
           /\ \A q \in Callers : q # p => call'[q] = call[q]
BY DEF Send, CallType

\* So is a call that is answered with a number (network_main_loop).
LEMMA AnswerTyped ==
    ASSUME call \in [Callers -> CallType], NEW p \in Callers,
           NEW k \in Int, NEW n \in Nat, Answer(p, k, n)
    PROVE  /\ call' \in [Callers -> CallType]
           /\ call'[p].stage = "answered" /\ call'[p].to = call[p].to
           /\ call'[p].msg.number = k /\ call'[p].origin = n
           /\ call'[p].msg.opcode = call[p].msg.opcode
           /\ call'[p].msg.key = call[p].msg.key /\ call'[p].msg.data = call[p].msg.data
           /\ \A q \in Callers : q # p => call'[q] = call[q]
<1>1. call[p] \in CallType /\ call[p].msg \in Messages
  BY DEF CallType
<1>2. [call[p].msg EXCEPT !.number = k] \in Messages
  BY <1>1 DEF Messages
<1>3. call' = [call EXCEPT ![p] = [call[p] EXCEPT !.stage = "answered", !.msg.number = k,
                                                  !.origin = n]]
  BY DEF Answer
<1>4. call'[p] = [call[p] EXCEPT !.stage = "answered", !.msg.number = k, !.origin = n]
      /\ \A q \in Callers : q # p => call'[q] = call[q]
  BY <1>3
<1>5. call'[p] = [stage |-> "answered", to |-> call[p].to,
                  msg |-> [call[p].msg EXCEPT !.number = k], origin |-> n]
  BY <1>1, <1>4 DEF CallType
<1>6. call'[p] \in CallType
  BY <1>1, <1>2, <1>5 DEF CallType
<1>. QED
  BY <1>1, <1>3, <1>4, <1>5, <1>6 DEF Messages

\* The calls of the clients that take no part in a step are what they were.
LEMMA OthersCalls ==
    ASSUME CInv, NEW c \in Clients, \A n : Settled(n) => Settled(n)',
           \A d \in Clients : d # c =>
                /\ cpc'[d] = cpc[d] /\ call'[d] = call[d] /\ depth'[d] = depth[d]
                /\ result'[d] = result[d] /\ command'[d] = command[d],
           ClientCall(c)'
    PROVE  ClientCalls'
<1>. SUFFICES ASSUME NEW d \in Clients, d # c PROVE ClientCall(d)'
  BY DEF ClientCalls
<1>1. ClientCall(d)
  BY DEF CInv, ClientCalls
<1>. QED
  BY <1>1 DEF ClientCall

\* A step of a client keeps the invariant if it is well typed, leaves the servers and the
\* other clients alone, and its own call is for what it holds.
LEMMA ClientKeeps ==
    ASSUME CInv, NEW c \in Clients, UNCHANGED server, TypeOK',
           call[c].stage # "sent" \/ cpc[c] = "verify",
           \A p \in Callers : p # c => call'[p] = call[p],
           \A d \in Clients : d # c =>
                /\ cpc'[d] = cpc[d] /\ depth'[d] = depth[d]
                /\ result'[d] = result[d] /\ command'[d] = command[d],
           ClientCall(c)', AcknowledgedIsSettled'
    PROVE  CInv'
<1>1. \A n : Settled(n) => Settled(n)'
  BY DEF server, past, Settled
<1>2. ClientCalls'
  BY <1>1, OthersCalls, Names
<1>. QED
  BY <1>2, ServersKept DEF CInv

\* The answers of clients stay settled if none is added.
LEMMA AcksKept ==
    ASSUME CInv, UNCHANGED <<server, acks>>
    PROVE  AcknowledgedIsSettled'
BY PastKept DEF server

\* Command: a write is sent to the head.
LEMMA CommandKeeps ==
    ASSUME CInv, NEW c \in Clients, Command(c)
    PROVE  CInv'
<1>1. PICK m \in Commands : /\ command' = [command EXCEPT ![c] = m]
                            /\ Send(c, ServerFor(m.opcode), m, 0)
  BY DEF Command
<1>2. m \in Messages /\ m.opcode \in {OP_PUT, OP_DEL}
  BY BlanksType
<1>3. /\ cpc[c] = "ready" /\ depth' = [depth EXCEPT ![c] = 1]
      /\ cpc' = [cpc EXCEPT ![c] = "write"] /\ UNCHANGED <<server, result, origin, acks>>
  BY DEF Command
<1>4. /\ call' \in [Callers -> CallType]
      /\ call'[c].stage = "sent" /\ call'[c].to = HeadServer /\ call'[c].msg = m
      /\ \A q \in Callers : q # c => call'[q] = call[q]
  <2>1. call \in [Callers -> CallType] /\ c \in Callers /\ HeadServer \in Servers /\ 0 \in Nat
    BY ClientTypes, Names DEF CInv
  <2>2. Send(c, HeadServer, m, 0)
    BY <1>1, <1>2
  <2>. QED
    BY <1>2, <2>1, <2>2, SendTyped
<1>5. TypeOK'
  BY <1>1, <1>2, <1>3, <1>4, ClientTypes, ClientTyped DEF CInv
<1>6. call[c].stage = "none"
  BY <1>3 DEF CInv, ClientCalls, ClientCall
<1>7. ClientCall(c)'
  BY <1>1, <1>2, <1>3, <1>4, ClientTypes DEF CInv, ClientCall
<1>. QED
  BY <1>1, <1>3, <1>4, <1>5, <1>6, <1>7, ClientKeeps, AcksKept, ClientTypes DEF CInv

\* TakeId: the id arrives.
LEMMA TakeIdKeeps ==
    ASSUME CInv, NEW c \in Clients, TakeId(c)
    PROVE  CInv'
<1>1. /\ cpc[c] = "write" /\ call[c].stage = "answered"
      /\ result' = [result EXCEPT ![c] = call[c].msg.number]
      /\ origin' = [origin EXCEPT ![c] = call[c].origin]
      /\ call' = [call EXCEPT ![c] = NoCall] /\ cpc' = [cpc EXCEPT ![c] = "sleep"]
      /\ UNCHANGED <<server, command, depth, acks>>
  BY DEF TakeId, Received
<1>2. /\ call[c] \in CallType /\ call[c].msg.number \in Int /\ call[c].origin \in Nat
  BY Names, ClientTypes, Fields DEF CInv, CallType
<1>3. call' \in [Callers -> CallType] /\ call'[c].stage = "none"
      /\ \A q \in Callers : q # c => call'[q] = call[q]
  BY <1>1, Names, ClientTypes, BlanksType DEF CInv, CallType, NoCall
<1>4. TypeOK'
  BY <1>1, <1>2, <1>3, ClientTypes, ClientTyped DEF CInv
<1>5. ClientCall(c)
  BY DEF CInv, ClientCalls
<1>6. ClientCall(c)'
  BY <1>1, <1>3, <1>5, ClientTypes DEF CInv, ClientCall
<1>. QED
  BY <1>1, <1>3, <1>4, <1>6, ClientKeeps, AcksKept, ClientTypes DEF CInv

\* AskVerify: the tail is asked for the id.
LEMMA AskVerifyKeeps ==
    ASSUME CInv, NEW c \in Clients, AskVerify(c)
    PROVE  CInv'
<1>. DEFINE m == [opcode |-> OP_VERIFY, key |-> NoMessage.key, data |-> NoValue,
                  number |-> result[c]]
<1>1. /\ cpc[c] = "sleep" /\ Send(c, TailServer, m, 0) /\ cpc' = [cpc EXCEPT ![c] = "verify"]
      /\ UNCHANGED <<server, command, depth, result, origin, acks>>
  BY DEF AskVerify
<1>2. m \in Messages /\ m.opcode = OP_VERIFY /\ m.number = result[c]
  <2>1. NoMessage \in Messages /\ result[c] \in Int
    BY BlanksType, ClientTypes DEF CInv
  <2>. QED
    BY <2>1 DEF Messages
<1>. HIDE DEF m
<1>3. /\ call' \in [Callers -> CallType]
      /\ call'[c].stage = "sent" /\ call'[c].to = TailServer /\ call'[c].msg = m
      /\ \A q \in Callers : q # c => call'[q] = call[q]
  <2>. call \in [Callers -> CallType] /\ c \in Callers /\ TailServer \in Servers /\ 0 \in Nat
    BY ClientTypes, Names DEF CInv
  <2>. QED
    BY <1>1, <1>2, SendTyped
<1>4. TypeOK'
  BY <1>1, <1>3, ClientTypes, ClientTyped DEF CInv
<1>5. ClientCall(c)
  BY DEF CInv, ClientCalls
<1>6. ClientCall(c)'
  BY <1>1, <1>2, <1>3, <1>5, ClientTypes DEF CInv, ClientCall
<1>7. call[c].stage = "none"
  BY <1>1, <1>5 DEF ClientCall
<1>. QED
  BY <1>1, <1>3, <1>4, <1>6, <1>7, ClientKeeps, AcksKept, ClientTypes DEF CInv

\* Done: the tail has run it, and what the user is told is settled.
LEMMA DoneKeeps ==
    ASSUME CInv, NEW c \in Clients, Done(c)
    PROVE  CInv'
<1>. DEFINE a == [id |-> result[c], origin |-> origin[c]]
<1>1. /\ cpc[c] = "verify" /\ call[c].stage = "answered" /\ call[c].msg.number = 1
      /\ depth' = [depth EXCEPT ![c] = depth[c] - 1]
      /\ cpc' = [cpc EXCEPT ![c] = IF depth[c] = 1 THEN "ready" ELSE "sleep"]
      /\ acks' = IF depth[c] = 1 THEN acks \union {a} ELSE acks
      /\ call' = [call EXCEPT ![c] = NoCall]
      /\ UNCHANGED <<server, command, result, origin>>
  BY DEF Done, Received
<1>2. ClientCall(c)
  BY DEF CInv, ClientCalls
<1>3. depth[c] \in Nat /\ depth[c] # 0 /\ depth[c] - 1 \in Nat /\ Settled(result[c])
  BY <1>1, <1>2, ClientTypes DEF CInv, ClientCall
<1>4. call' \in [Callers -> CallType] /\ call'[c].stage = "none"
      /\ \A q \in Callers : q # c => call'[q] = call[q]
  BY <1>1, Names, ClientTypes, BlanksType DEF CInv, CallType, NoCall
<1>5. a \in [id : Int, origin : Nat] /\ a.id = result[c] /\ a.origin = origin[c]
  BY ClientTypes DEF CInv
<1>6. TypeOK'
  BY <1>1, <1>3, <1>4, <1>5, ClientTypes, ClientTyped DEF CInv
<1>7. ClientCall(c)'
  BY <1>1, <1>2, <1>3, <1>4, ClientTypes DEF CInv, ClientCall
<1>. HIDE DEF a
<1>8. AcknowledgedIsSettled'
  <2>. SUFFICES ASSUME NEW b \in acks', b.id = b.origin PROVE Settled(b.origin)'
    BY DEF AcknowledgedIsSettled
  <2>1. \A n : Settled(n) => Settled(n)'
    BY <1>1 DEF server, past, Settled
  <2>2. b \in acks => Settled(b.origin)
    BY DEF CInv, AcknowledgedIsSettled
  <2>3. b = a => Settled(b.origin)
    BY <1>3, <1>5
  <2>. QED
    BY <1>1, <2>1, <2>2, <2>3
<1>. QED
  BY <1>1, <1>4, <1>6, <1>7, <1>8, ClientKeeps, ClientTypes DEF CInv

\* Redo: the write is sent again.
LEMMA RedoKeeps ==
    ASSUME CInv, NEW c \in Clients, Redo(c)
    PROVE  CInv'
<1>1. /\ cpc[c] = "verify" /\ call[c].stage = "answered"
      /\ Send(c, ServerFor(command[c].opcode), command[c], 0)
      /\ depth' = [depth EXCEPT ![c] = depth[c] + 1] /\ cpc' = [cpc EXCEPT ![c] = "write"]
      /\ UNCHANGED <<server, command, result, origin, acks>>
  BY DEF Redo, Received
<1>2. ClientCall(c)
  BY DEF CInv, ClientCalls
<1>3. command[c] \in Messages /\ command[c].opcode \in {OP_PUT, OP_DEL}
  BY <1>1, <1>2, ClientTypes DEF CInv, ClientCall
<1>4. /\ call' \in [Callers -> CallType]
      /\ call'[c].stage = "sent" /\ call'[c].to = HeadServer /\ call'[c].msg = command[c]
      /\ \A q \in Callers : q # c => call'[q] = call[q]
  <2>1. call \in [Callers -> CallType] /\ c \in Callers /\ HeadServer \in Servers /\ 0 \in Nat
    BY ClientTypes, Names DEF CInv
  <2>2. Send(c, HeadServer, command[c], 0)
    BY <1>1, <1>3
  <2>. QED
    BY <1>3, <2>1, <2>2, SendTyped
<1>5. depth[c] \in Nat /\ depth[c] + 1 \in Nat /\ depth[c] + 1 # 0
  BY ClientTypes DEF CInv
<1>6. TypeOK'
  BY <1>1, <1>4, <1>5, ClientTypes, ClientTyped DEF CInv
<1>7. ClientCall(c)'
  BY <1>1, <1>3, <1>4, <1>5, ClientTypes DEF CInv, ClientCall
<1>. QED
  BY <1>1, <1>4, <1>6, <1>7, ClientKeeps, AcksKept, ClientTypes DEF CInv

-----------------------------------------------------------------------------
\* A server's steps.

\* What Append and Tail do to the positions of a sequence.
LEMMA AppendFacts ==
    ASSUME NEW S, NEW q \in Seq(S), NEW x \in S
    PROVE  /\ Append(q, x) \in Seq(S) /\ Len(Append(q, x)) = Len(q) + 1 /\ Len(q) \in Nat
           /\ DOMAIN q = 1 .. Len(q) /\ DOMAIN Append(q, x) = 1 .. Len(q) + 1
           /\ \A i \in DOMAIN q : i \in DOMAIN Append(q, x) /\ Append(q, x)[i] = q[i]
           /\ Append(q, x)[Len(q) + 1] = x
           /\ \A i \in DOMAIN Append(q, x) : i \in DOMAIN q \/ i = Len(q) + 1
OBVIOUS

\* What is found at a position of a sequence one element longer.
LEMMA AppendCases ==
    ASSUME NEW S, NEW q \in Seq(S), NEW x \in S, NEW i \in DOMAIN Append(q, x)
    PROVE  \/ i \in DOMAIN q /\ Append(q, x)[i] = q[i]
           \/ i = Len(q) + 1 /\ Append(q, x)[i] = x
OBVIOUS

\* What the rest of a sequence is, and what its head.
LEMMA TailFacts ==
    ASSUME NEW S, NEW q \in Seq(S), q # <<>>
    PROVE  /\ Tail(q) \in Seq(S) /\ Len(Tail(q)) = Len(q) - 1 /\ Len(q) \in Nat \ {0}
           /\ Head(q) = q[1] /\ Head(q) \in S /\ 1 \in DOMAIN q
           /\ \A i \in DOMAIN Tail(q) : i \in Nat /\ i + 1 \in DOMAIN q /\ Tail(q)[i] = q[i + 1]
OBVIOUS

\* One more write in a queue, after a writes that were run, gets the next number.
LEMMA NextNumber ==
    ASSUME NEW a \in Nat, NEW q \in Seq(Write), NEW r \in Write,
           \A i \in DOMAIN q : q[i].op_n = a + i, r.op_n = a + Len(q) + 1
    PROVE  \A i \in DOMAIN Append(q, r) : Append(q, r)[i].op_n = a + i
<1>. SUFFICES ASSUME NEW i \in DOMAIN Append(q, r) PROVE Append(q, r)[i].op_n = a + i
  OBVIOUS
<1>1. CASE i \in DOMAIN q /\ Append(q, r)[i] = q[i]
  BY <1>1
<1>2. CASE i = Len(q) + 1 /\ Append(q, r)[i] = r
  <2>. Len(q) \in Nat /\ a + Len(q) + 1 = a + (Len(q) + 1)
    OBVIOUS
  <2>. QED
    BY <1>2
<1>. QED
  BY <1>1, <1>2, AppendCases

\* If a queue holds the writes from position a + 1 on but the last one, it holds all of
\* them with it.
LEMMA NextWrite ==
    ASSUME NEW a \in Nat, NEW q \in Seq(Write), NEW r \in Write, NEW z, NEW n \in Nat,
           a + Len(q) = n - 1, \A i \in DOMAIN q : Content(q[i]) = z[a + i],
           Content(r) = z[n]
    PROVE  /\ a + Len(Append(q, r)) = n
           /\ \A i \in DOMAIN Append(q, r) : Content(Append(q, r)[i]) = z[a + i]
<1>1. Len(q) \in Nat /\ Len(Append(q, r)) = Len(q) + 1
  OBVIOUS
<1>2. a + (Len(q) + 1) = n
  BY <1>1
<1>3. ASSUME NEW i \in DOMAIN Append(q, r)
      PROVE  Content(Append(q, r)[i]) = z[a + i]
  <2>1. CASE i \in DOMAIN q /\ Append(q, r)[i] = q[i]
    BY <2>1
  <2>2. CASE i = Len(q) + 1 /\ Append(q, r)[i] = r
    BY <1>2, <2>2
  <2>. QED
    BY <2>1, <2>2, AppendCases
<1>. QED
  BY <1>1, <1>2, <1>3, Zenon

\* The clients' part of the invariant does not depend on what servers hold (queue_add,
\* process_request).
LEMMA ClientsKept ==
    ASSUME CInv, UNCHANGED client, \A c \in Clients : call'[c] = call[c],
           \A n : Settled(n) => Settled(n)'
    PROVE  ClientCalls'
<1>. SUFFICES ASSUME NEW c \in Clients PROVE ClientCall(c)'
  BY DEF ClientCalls
<1>1. ClientCall(c)
  BY DEF CInv, ClientCalls
<1>. QED
  BY <1>1 DEF ClientCall, client

\* The write queue_add builds from what a worker sends is the one the worker holds, but
\* for its id (queue_add, propagate_request).
LEMMA SameContent ==
    ASSUME CInv, NEW s \in Servers, NEW p \in Servers, NEW r,
           s # HeadServer, wpc[p] = "await",
           r.op = IF call[p].msg.opcode = OP_PUT THEN 1 ELSE 0,
           r.key = call[p].msg.key, r.data = call[p].msg.data, r.origin = call[p].origin
    PROVE  /\ Content(r) = succeeded[p][Len(succeeded[p])]
           /\ Len(succeeded[p]) \in Nat \ {0}
<1>1. WorkerCall(p)
  BY DEF CInv, WorkerCalls
<1>2. request[p].op \in {0, 1} /\ succeeded[p] \in Seq(Asked)
  BY Types, Fields DEF CInv
<1>3. r.op = request[p].op /\ r.key = request[p].key /\ r.data = request[p].data
      /\ r.origin = request[p].origin
  BY <1>1, <1>2 DEF WorkerCall
<1>4. Content(r) = Content(request[p])
  BY <1>3 DEF Content
<1>. QED
  BY <1>1, <1>2, <1>4 DEF WorkerCall

\* QueueAdd: the write goes to the end of the queue.
LEMMA QueueAddKeeps ==
    ASSUME CInv, NEW s \in Servers, QueueAdd(s)
    PROVE  CInv'
<1>1. /\ serving[s] = Nobody
      /\ UNCHANGED <<tree, last_assigned, max_proc, wpc, request, log, succeeded, client, call>>
  BY DEF QueueAdd, past
<1>2. PICK p \in Callers :
        /\ Asks(p, s, {OP_PUT, OP_DEL})
        /\ LET m == call[p].msg
               r == [op_n   |-> last_assigned[s],
                     op     |-> IF m.opcode = OP_PUT THEN 1 ELSE 0,
                     key    |-> m.key,
                     data   |-> m.data,
                     origin |-> IF s = HeadServer THEN last_assigned[s] ELSE call[p].origin]
           IN  Enqueue(s, r)
        /\ serving' = [serving EXCEPT ![s] = p]
  BY DEF QueueAdd
<1>. DEFINE m == call[p].msg
            r == [op_n   |-> last_assigned[s],
                  op     |-> IF m.opcode = OP_PUT THEN 1 ELSE 0,
                  key    |-> m.key,
                  data   |-> m.data,
                  origin |-> IF s = HeadServer THEN last_assigned[s] ELSE call[p].origin]
<1>3. queue' = [queue EXCEPT ![s] = Append(queue[s], r)]
  BY <1>2
<1>4. /\ r \in Write /\ r.op_n = last_assigned[s] /\ r.op = IF m.opcode = OP_PUT THEN 1 ELSE 0
      /\ r.key = m.key /\ r.data = m.data
      /\ r.origin = IF s = HeadServer THEN last_assigned[s] ELSE call[p].origin
  <2>1. call[p] \in CallType /\ last_assigned[s] \in Nat
    BY Types DEF CInv
  <2>2. m \in Messages /\ call[p].origin \in Nat
    BY <2>1 DEF CallType
  <2>3. m.key \in Keys /\ m.data \in Values \union {NoValue}
    BY <2>2, Fields
  <2>. QED
    BY <2>1, <2>2, <2>3 DEF Write
<1>. HIDE DEF r
<1>5. queue[s] \in Seq(Write) /\ log[s] \in Seq([write : Write, ok : BOOLEAN])
      /\ Len(log[s]) \in Nat
  BY Types DEF CInv
<1>6. /\ queue'[s] = Append(queue[s], r) /\ \A t \in Servers : t # s => queue'[t] = queue[t]
      /\ serving'[s] = p /\ \A t \in Servers : t # s => serving'[t] = serving[t]
  BY <1>2, <1>3 DEF CInv, TypeOK
<1>7. last_assigned[s] = Len(log[s]) + Len(queue[s]) + 1
  BY <1>1 DEF CInv, Numbering
<1>8. TypeOK'
  <2>1. queue' \in [Servers -> Seq(Write)]
    BY <1>3, <1>4, <1>5, AppendFacts DEF CInv, TypeOK
  <2>2. serving' \in [Servers -> Callers \union {Nobody}]
    BY <1>2 DEF CInv, TypeOK
  <2>. QED
    BY <1>1, <2>1, <2>2 DEF CInv, TypeOK, client
<1>9. Numbering'
  <2>. SUFFICES ASSUME NEW t \in Servers
       PROVE  /\ \A i \in DOMAIN queue'[t] : queue'[t][i].op_n = Len(log[t]) + i
              /\ last_assigned[t] = Len(log[t]) + Len(queue'[t])
                                    + (IF serving'[t] = Nobody THEN 1 ELSE 0)
    BY <1>1 DEF CInv, Numbering
  <2>1. CASE t # s
    <3>1. queue'[t] = queue[t] /\ serving'[t] = serving[t]
      BY <1>6, <2>1
    <3>. QED
      BY <1>1, <3>1, Zenon DEF CInv, Numbering
  <2>2. CASE t = s
    <3>1. \A i \in DOMAIN queue'[s] : queue'[s][i].op_n = Len(log[s]) + i
      <4>1. \A i \in DOMAIN queue[s] : queue[s][i].op_n = Len(log[s]) + i
        BY DEF CInv, Numbering
      <4>2. \A i \in DOMAIN Append(queue[s], r) :
                Append(queue[s], r)[i].op_n = Len(log[s]) + i
        BY <1>4, <1>5, <1>7, <4>1, NextNumber
      <4>. QED
        BY <1>6, <4>2, Zenon
    <3>2. Len(queue'[s]) = Len(queue[s]) + 1 /\ Len(queue[s]) \in Nat
      BY <1>4, <1>5, <1>6, AppendFacts
    <3>3. serving'[s] # Nobody
      BY <1>6, Names
    <3>4. last_assigned[s] = Len(log[s]) + Len(queue'[s])
      <4>. DEFINE a == Len(log[s])
                  b == Len(queue[s])
                  d == Len(queue'[s])
      <4>1. a \in Nat /\ b \in Nat /\ d = b + 1 /\ last_assigned[s] = a + b + 1
        BY <1>5, <1>7, <3>2
      <4>. HIDE DEF a, b, d
      <4>2. last_assigned[s] = a + d
        BY <4>1
      <4>. QED
        BY <4>2 DEF a, d
    <3>5. last_assigned[s] = Len(log[s]) + Len(queue'[s]) + 0
      BY <3>2, <3>4, <1>5
    <3>. QED
      BY <2>2, <3>1, <3>3, <3>5
  <2>. QED
    BY <2>1, <2>2
<1>10. Origins'
  <2>1. CASE s = HeadServer
    <3>1. \A i \in DOMAIN Append(queue[s], r) :
            Append(queue[s], r)[i].origin = Append(queue[s], r)[i].op_n
      BY <1>4, <1>5, <2>1, AppendCases DEF CInv, Origins
    <3>2. \A i \in DOMAIN queue'[s] : queue'[s][i].origin = queue'[s][i].op_n
      BY <1>6, <3>1, Zenon
    <3>. QED
      BY <1>1, <2>1, <3>2 DEF CInv, Origins
  <2>2. CASE s # HeadServer
    BY <1>1, <1>6, <2>2, Names DEF CInv, Origins
  <2>. QED
    BY <2>1, <2>2
<1>11. AllSucceed' /\ Reached' /\ Replayed' /\ ClientCalls' /\ AcknowledgedIsSettled'
  BY <1>1, PastKept, ClientsKept DEF client, past
<1>12. WorkerCalls'
  BY <1>1 DEF CInv, WorkerCalls, WorkerCall
<1>13. Serves'
  BY <1>1, <1>2, <1>6 DEF CInv, Serves, Asks
<1>14. Follows'
  <2>. SUFFICES ASSUME NEW t \in Servers \ {TailServer}
       PROVE  /\ Len(log[t + 1]) + Len(queue'[t + 1])
                    = Len(succeeded[t]) - (IF Behind(t)' THEN 1 ELSE 0)
              /\ \A i \in DOMAIN queue'[t + 1] :
                    Content(queue'[t + 1][i]) = succeeded[t][Len(log[t + 1]) + i]
    BY <1>1 DEF CInv, Follows
  <2>1. t + 1 \in Servers /\ t + 1 # HeadServer
    BY Names
  <2>2. CASE t + 1 # s
    <3>1. queue'[t + 1] = queue[t + 1] /\ serving'[t + 1] = serving[t + 1]
      BY <1>6, <2>1, <2>2
    <3>2. Behind(t)' <=> Behind(t)
      BY <1>1, <3>1 DEF Behind
    <3>. QED
      BY <3>1, <3>2 DEF CInv, Follows
  <2>3. CASE t + 1 = s
    <3>1. p = t /\ wpc[t] = "await" /\ call[t].stage = "sent"
      <4>1. p = s - 1 /\ p \in Servers /\ wpc[p] = "await"
        BY <1>2, <2>1, <2>3, WhoAsks
      <4>2. t = s - 1
        BY <2>1, <2>3, Names
      <4>. QED
        BY <1>2, <4>1, <4>2 DEF Asks
    <3>2. Behind(t) /\ ~ Behind(t)'
      BY <1>1, <1>6, <2>3, <3>1, Names DEF Behind
    <3>3. Len(log[s]) + Len(queue[s]) = Len(succeeded[t]) - 1
      BY <2>3, <3>2 DEF CInv, Follows
    <3>4. Content(r) = succeeded[t][Len(succeeded[t])] /\ Len(succeeded[t]) \in Nat
      BY <1>4, <2>1, <2>3, <3>1, SameContent
    <3>5. \A i \in DOMAIN queue[s] : Content(queue[s][i]) = succeeded[t][Len(log[s]) + i]
      BY <2>3 DEF CInv, Follows
    <3>6. /\ Len(log[s]) + Len(Append(queue[s], r)) = Len(succeeded[t])
          /\ \A i \in DOMAIN Append(queue[s], r) :
                Content(Append(queue[s], r)[i]) = succeeded[t][Len(log[s]) + i]
      <4>. DEFINE a == Len(log[s])
                  q == queue[s]
                  z == succeeded[t]
                  n == Len(succeeded[t])
      <4>1. /\ a \in Nat /\ q \in Seq(Write) /\ n \in Nat /\ a + Len(q) = n - 1
            /\ \A i \in DOMAIN q : Content(q[i]) = z[a + i]
            /\ Content(r) = z[n]
        BY <1>5, <3>3, <3>4, <3>5
      <4>. HIDE DEF a, q, z, n
      <4>2. /\ a + Len(Append(q, r)) = n
            /\ \A i \in DOMAIN Append(q, r) : Content(Append(q, r)[i]) = z[a + i]
        BY <1>4, <4>1, NextWrite
      <4>. QED
        BY <4>2 DEF a, q, z, n
    <3>7. /\ Len(log[s]) + Len(queue'[s]) = Len(succeeded[t])
          /\ \A i \in DOMAIN queue'[s] :
                Content(queue'[s][i]) = succeeded[t][Len(log[s]) + i]
      BY <1>6, <3>6, Zenon
    <3>8. Len(succeeded[t]) = Len(succeeded[t]) - (IF Behind(t)' THEN 1 ELSE 0)
      BY <3>2, <3>4
    <3>. QED
      BY <2>3, <3>7, <3>8, Zenon
  <2>. QED
    BY <2>2, <2>3
<1>. QED
  BY <1>8, <1>9, <1>10, <1>11, <1>12, <1>13, <1>14 DEF CInv

\* QueueAddReply: the caller gets an answer.
LEMMA QueueAddReplyKeeps ==
    ASSUME CInv, NEW s \in Servers, QueueAddReply(s)
    PROVE  CInv'
<1>. DEFINE id == last_assigned[s]
<1>1. /\ serving[s] # Nobody /\ last_assigned' = [last_assigned EXCEPT ![s] = id + 1]
      /\ serving' = [serving EXCEPT ![s] = Nobody]
      /\ UNCHANGED <<tree, queue, max_proc, wpc, request, log, succeeded, client>>
  BY DEF QueueAddReply, past
<1>. PICK p \in Callers : p = serving[s]
  BY <1>1, Types DEF CInv
<1>. DEFINE o == IF s = HeadServer THEN id ELSE call[p].origin
<1>2. PICK n \in {id} \union (IF id \in Allocated(s) THEN {} ELSE Garbage) : Answer(p, n, o)
  BY DEF QueueAddReply
<1>3. Asks(p, s, {OP_PUT, OP_DEL}) /\ id \in Nat /\ n \in Int /\ o \in Nat
  <2>1. Asks(p, s, {OP_PUT, OP_DEL}) /\ id \in Nat
    BY <1>1, Types DEF CInv, Serves
  <2>2. call[p].origin \in Nat
    BY Types DEF CInv, CallType
  <2>3. n \in Int
    <3>1. Garbage \subseteq Int
      BY ChainAssumption
    <3>2. n = id \/ n \in Garbage
      BY <1>2
    <3>3. id \in Int
      BY <2>1
    <3>. QED
      BY <3>1, <3>2, <3>3, Zenon
  <2>. QED
    BY <2>1, <2>2, <2>3
<1>. HIDE DEF o
<1>4. /\ call' \in [Callers -> CallType]
      /\ call'[p].stage = "answered" /\ call'[p].to = call[p].to
      /\ call'[p].msg.number = n /\ call'[p].origin = o
      /\ call'[p].msg.opcode = call[p].msg.opcode
      /\ call'[p].msg.key = call[p].msg.key /\ call'[p].msg.data = call[p].msg.data
      /\ \A q \in Callers : q # p => call'[q] = call[q]
  <2>. call \in [Callers -> CallType]
    BY ClientTypes DEF CInv
  <2>. QED
    BY <1>2, <1>3, AnswerTyped
<1>5. /\ serving'[s] = Nobody /\ last_assigned'[s] = id + 1
      /\ \A t \in Servers : t # s => serving'[t] = serving[t]
                                     /\ last_assigned'[t] = last_assigned[t]
  BY <1>1 DEF CInv, TypeOK
<1>6. call[p].stage = "sent" /\ call[p].to = s /\ call[p].msg.opcode \in {OP_PUT, OP_DEL}
  BY <1>3 DEF Asks
<1>7. IF s = HeadServer THEN p \in Clients /\ p \notin Servers /\ cpc[p] = "write"
      ELSE p = s - 1 /\ p \in Servers /\ p \notin Clients /\ wpc[p] = "await"
  BY <1>3, WhoAsks
<1>8. TypeOK'
  <2>1. last_assigned' \in [Servers -> Nat \ {0}]
    BY <1>1, <1>3, SMTT(30) DEF CInv, TypeOK
  <2>2. serving' \in [Servers -> Callers \union {Nobody}]
    BY <1>1 DEF CInv, TypeOK
  <2>. QED
    BY <1>1, <1>4, <2>1, <2>2 DEF CInv, TypeOK, CallType, client
<1>9. Numbering'
  <2>. SUFFICES ASSUME NEW t \in Servers
       PROVE  last_assigned'[t] = Len(log[t]) + Len(queue[t])
                                  + (IF serving'[t] = Nobody THEN 1 ELSE 0)
    BY <1>1 DEF CInv, Numbering
  <2>1. CASE t # s
    BY <1>5, <2>1 DEF CInv, Numbering
  <2>2. CASE t = s
    <3>1. id = Len(log[s]) + Len(queue[s]) + 0
      BY <1>1 DEF CInv, Numbering
    <3>2. Len(log[s]) \in Nat /\ Len(queue[s]) \in Nat
      BY Types DEF CInv
    <3>3. id + 1 = Len(log[s]) + Len(queue[s]) + 1
      BY <3>1, <3>2
    <3>. QED
      BY <1>5, <2>2, <3>3, Zenon
  <2>. QED
    BY <2>1, <2>2
<1>10. Origins'
  BY <1>1 DEF CInv, Origins
<1>11. AllSucceed' /\ Reached' /\ Replayed' /\ AcknowledgedIsSettled'
       /\ \A k : Settled(k) => Settled(k)'
  BY <1>1, PastKept DEF client, past
<1>12. ClientCalls'
  <2>1. CASE p \in Clients
    <3>1. ClientCall(p) /\ cpc[p] = "write"
      BY <1>7, <2>1, Names DEF CInv, ClientCalls
    <3>2. ClientCall(p)'
      BY <1>1, <1>4, <1>6, <3>1 DEF ClientCall, client
    <3>3. \A c \in Clients : c # p => /\ call'[c] = call[c] /\ cpc'[c] = cpc[c]
                                     /\ depth'[c] = depth[c] /\ result'[c] = result[c]
                                     /\ command'[c] = command[c]
      BY <1>1, <1>4, Names DEF client
    <3>. QED
      BY <1>11, <2>1, <3>2, <3>3, OthersCalls
  <2>2. CASE p \notin Clients
    <3>. \A c \in Clients : call'[c] = call[c]
      BY <1>4, <2>2, Names
    <3>. QED
      BY <1>1, <1>11, ClientsKept
  <2>. QED
    BY <2>1, <2>2
<1>13. WorkerCalls'
  <2>. SUFFICES ASSUME NEW t \in Servers PROVE WorkerCall(t)'
    BY DEF WorkerCalls
  <2>1. WorkerCall(t)
    BY DEF CInv, WorkerCalls
  <2>2. CASE t # p
    <3>. call'[t] = call[t]
      BY <1>4, <2>2, Names
    <3>. QED
      BY <1>1, <2>1 DEF WorkerCall
  <2>3. CASE t = p
    <3>1. wpc[t] = "await" /\ s # HeadServer
      BY <1>7, <2>3
    <3>2. call'[t].origin = call[t].origin
      BY <1>4, <2>3, <3>1 DEF o
    <3>3. /\ call'[t].stage = "answered" /\ call'[t].to = call[t].to
          /\ call'[t].msg.opcode = call[t].msg.opcode
          /\ call'[t].msg.key = call[t].msg.key /\ call'[t].msg.data = call[t].msg.data
      BY <1>4, <2>3
    <3>. QED
      BY <1>1, <2>1, <3>1, <3>2, <3>3 DEF WorkerCall
  <2>. QED
    BY <2>2, <2>3
<1>14. Serves'
  <2>. SUFFICES ASSUME NEW t \in Servers, serving'[t] # Nobody
                PROVE  Asks(serving[t], t, {OP_PUT, OP_DEL})'
    BY DEF Serves
  <2>1. t # s /\ serving'[t] = serving[t] /\ serving[t] \in Callers
    BY <1>5, Types DEF CInv
  <2>2. Asks(serving[t], t, {OP_PUT, OP_DEL})
    BY <2>1 DEF CInv, Serves
  <2>3. serving[t] # p
    BY <1>6, <2>1, <2>2 DEF Asks
  <2>4. call'[serving[t]] = call[serving[t]]
    BY <1>4, <2>1, <2>3
  <2>. QED
    BY <2>1, <2>2, <2>4 DEF Asks
<1>15. Follows'
  <2>1. \A t \in Servers \ {TailServer} : Behind(t)' <=> Behind(t)
    <3>. SUFFICES ASSUME NEW t \in Servers \ {TailServer} PROVE Behind(t)' <=> Behind(t)
      OBVIOUS
    <3>1. t + 1 \in Servers /\ t + 1 # HeadServer
      BY Names
    <3>2. CASE t + 1 = s
      <4>1. p = t
        BY <1>7, <3>1, <3>2, Names
      <4>2. wpc[t] = "await" /\ call'[t].stage = "answered" /\ serving[t + 1] = t
        BY <1>4, <1>7, <3>1, <3>2, <4>1
      <4>. QED
        BY <1>1, <4>2 DEF Behind
    <3>3. CASE t + 1 # s
      <4>1. p # t
        BY <1>7, <3>3, Names
      <4>2. call'[t] = call[t] /\ serving'[t + 1] = serving[t + 1]
        BY <1>4, <1>5, <3>1, <3>3, <4>1, Names
      <4>. QED
        BY <1>1, <4>2 DEF Behind
    <3>. QED
      BY <3>2, <3>3
  <2>. QED
    BY <1>1, <2>1 DEF CInv, Follows
<1>. QED
  BY <1>8, <1>9, <1>10, <1>11, <1>12, <1>13, <1>14, <1>15 DEF CInv

\* Verify: a client is told whether the tail has run an id, and if so it is settled.
LEMMA VerifyKeeps ==
    ASSUME CInv, NEW s \in Servers, Verify(s)
    PROVE  CInv'
<1>1. PICK p \in Callers : /\ Asks(p, s, {OP_VERIFY})
                           /\ Answer(p, VerifyResult(s, call[p].msg.number), 0)
  BY DEF Verify
<1>2. UNCHANGED <<server, client>>
  BY DEF Verify
<1>. DEFINE k == VerifyResult(s, call[p].msg.number)
<1>3. call[p].stage = "sent" /\ call[p].to = s /\ call[p].msg.opcode = OP_VERIFY
  BY <1>1 DEF Asks
<1>4. p \in Clients
  <2>. SUFFICES ASSUME p \in Servers PROVE FALSE
    BY Names
  <2>. QED
    BY <1>3 DEF CInv, WorkerCalls, WorkerCall
<1>5. ClientCall(p)
  BY <1>4 DEF CInv, ClientCalls
<1>6. /\ cpc[p] = "verify" /\ s = TailServer /\ call[p].msg.number = result[p]
      /\ result[p] \in Int
  <2>1. cpc[p] \in {"ready", "write", "sleep", "verify"} /\ result[p] \in Int
    BY <1>4, Types DEF CInv
  <2>. QED
    BY <1>3, <1>5, <2>1 DEF ClientCall
<1>7. k \in Int /\ (k = 1 => Settled(result[p]))
  <2>1. k \in Int
    BY DEF VerifyResult
  <2>2. ASSUME k = 1 PROVE Settled(result[p])
    <3>1. max_proc[TailServer] \in Nat
      BY Types, Names DEF CInv
    <3>2. result[p] > 0 /\ ~ (result[p] > max_proc[TailServer])
      BY <1>6, <2>2 DEF VerifyResult
    <3>3. result[p] \in 1 .. max_proc[TailServer]
      BY <1>6, <3>1, <3>2
    <3>. QED
      BY <3>3, DoneIsSettled DEF VerifiedIsSettled
  <2>. QED
    BY <2>1, <2>2
<1>8. Answer(p, k, 0)
  BY <1>1
<1>. HIDE DEF k
<1>9. /\ call' \in [Callers -> CallType]
      /\ call'[p].stage = "answered" /\ call'[p].to = call[p].to
      /\ call'[p].msg.number = k /\ call'[p].msg.opcode = call[p].msg.opcode
      /\ \A q \in Callers : q # p => call'[q] = call[q]
  <2>. call \in [Callers -> CallType] /\ 0 \in Nat
    BY ClientTypes DEF CInv
  <2>. QED
    BY <1>7, <1>8, AnswerTyped
<1>10. TypeOK'
  BY <1>2, <1>9 DEF CInv, TypeOK, CallType, client, server, past
<1>11. ClientCall(p)'
  <2>. \A n : Settled(n) => Settled(n)'
    BY <1>2 DEF Settled, server, past
  <2>. QED
    BY <1>2, <1>3, <1>5, <1>6, <1>7, <1>9 DEF ClientCall, client
<1>12. AcknowledgedIsSettled'
  BY <1>2, AcksKept DEF client
<1>13. \A d \in Clients : d # p =>
            /\ cpc'[d] = cpc[d] /\ depth'[d] = depth[d]
            /\ result'[d] = result[d] /\ command'[d] = command[d]
  BY <1>2 DEF client
<1>. QED
  BY <1>2, <1>4, <1>6, <1>9, <1>10, <1>11, <1>12, <1>13, ClientKeeps

\* A step of a worker between two writes keeps the invariant if it is well typed, leaves
\* all but its own place, request, number and call alone, and keeps with them what it has
\* still to hand on (process_request, propagate_request).
LEMMA WorkerKeeps ==
    ASSUME CInv, NEW s \in Servers, TypeOK', WorkerCall(s)', Behind(s)' <=> Behind(s),
           UNCHANGED <<tree, queue, last_assigned, serving, log, succeeded, client>>,
           wpc[s] # "lock", call[s].stage # "sent",
           max_proc'[s] = Len(log[s]) - (IF wpc'[s] = "lock" THEN 0 ELSE 1),
           wpc'[s] # "lock" => request'[s] = request[s],
           \A p \in Callers : p # s => call'[p] = call[p],
           \A t \in Servers : t # s => /\ wpc'[t] = wpc[t] /\ request'[t] = request[t]
                                       /\ max_proc'[t] = max_proc[t]
    PROVE  CInv'
<1>1. Numbering'
  <2>. SUFFICES ASSUME NEW t \in Servers
       PROVE  /\ max_proc'[t] = Len(log[t]) - (IF wpc'[t] = "lock" THEN 0 ELSE 1)
              /\ wpc'[t] # "lock" =>
                    Len(log[t]) > 0 /\ request'[t] = log[t][Len(log[t])].write
    BY DEF CInv, Numbering
  <2>1. /\ max_proc[t] = Len(log[t]) - (IF wpc[t] = "lock" THEN 0 ELSE 1)
        /\ wpc[t] # "lock" => Len(log[t]) > 0 /\ request[t] = log[t][Len(log[t])].write
    BY DEF CInv, Numbering
  <2>2. CASE t = s
    BY <2>1, <2>2
  <2>3. CASE t # s
    BY <2>1, <2>3
  <2>. QED
    BY <2>2, <2>3
<1>2. Origins'
  BY DEF CInv, Origins
<1>3. AllSucceed' /\ Reached' /\ Replayed' /\ AcknowledgedIsSettled'
       /\ \A k : Settled(k) => Settled(k)'
  BY PastKept DEF client, past
<1>4. ClientCalls'
  <2>. \A c \in Clients : call'[c] = call[c]
    BY Names
  <2>. QED
    BY <1>3, ClientsKept
<1>5. WorkerCalls'
  <2>. SUFFICES ASSUME NEW t \in Servers, t # s PROVE WorkerCall(t)'
    BY DEF WorkerCalls
  <2>1. WorkerCall(t) /\ call'[t] = call[t]
    BY Names DEF CInv, WorkerCalls
  <2>. QED
    BY <2>1 DEF WorkerCall
<1>6. Serves'
  <2>. SUFFICES ASSUME NEW t \in Servers, serving[t] # Nobody
                PROVE  Asks(serving[t], t, {OP_PUT, OP_DEL})'
    BY DEF Serves
  <2>1. Asks(serving[t], t, {OP_PUT, OP_DEL}) /\ serving[t] \in Callers
    BY Types DEF CInv, Serves
  <2>2. call'[serving[t]] = call[serving[t]]
    BY <2>1 DEF Asks
  <2>. QED
    BY <2>1, <2>2 DEF Asks
<1>7. Follows'
  <2>1. \A t \in Servers : Behind(t)' <=> Behind(t)
    <3>. SUFFICES ASSUME NEW t \in Servers, t # s PROVE Behind(t)' <=> Behind(t)
      OBVIOUS
    <3>. call'[t] = call[t] /\ wpc'[t] = wpc[t]
      BY Names
    <3>. QED
      BY DEF Behind
  <2>. QED
    BY <2>1 DEF CInv, Follows
<1>. QED
  BY <1>1, <1>2, <1>3, <1>4, <1>5, <1>6, <1>7 DEF CInv

\* Propagate: the write goes to the next server.
LEMMA PropagateKeeps ==
    ASSUME CInv, NEW s \in Servers, Propagate(s)
    PROVE  CInv'
<1>. DEFINE r == request[s]
            m == [opcode |-> IF r.op = 1 THEN OP_PUT ELSE OP_DEL, key |-> r.key,
                  data |-> r.data, number |-> 0]
<1>1. /\ wpc[s] = "propagate" /\ Send(s, s + 1, m, r.origin)
      /\ wpc' = [wpc EXCEPT ![s] = "await"]
      /\ UNCHANGED <<tree, queue, last_assigned, max_proc, request, serving, log, succeeded,
                     client>>
  BY DEF Propagate, past
<1>2. WorkerCall(s) /\ s + 1 \in Servers /\ call[s].stage = "none" /\ s \in Callers
  BY <1>1, Names DEF CInv, WorkerCalls, WorkerCall
<1>3. m \in Messages /\ r.origin \in Nat
  <2>. r \in Write
    BY Types DEF CInv
  <2>. QED
    BY Fields DEF Messages
<1>4. /\ call' \in [Callers -> CallType]
      /\ call'[s].stage = "sent" /\ call'[s].to = s + 1
      /\ call'[s].msg = m /\ call'[s].origin = r.origin
      /\ \A q \in Callers : q # s => call'[q] = call[q]
  <2>1. call \in [Callers -> CallType]
    BY ClientTypes DEF CInv
  <2>. HIDE DEF m
  <2>. QED
    BY <1>1, <1>2, <1>3, <2>1, SendTyped
<1>5. wpc'[s] = "await" /\ \A t \in Servers : t # s => wpc'[t] = wpc[t]
  BY <1>1 DEF CInv, TypeOK
<1>6. TypeOK'
  <2>. wpc' \in [Servers -> {"lock", "propagate", "await", "finish"}]
    BY <1>1 DEF CInv, TypeOK
  <2>. QED
    BY <1>1, <1>4 DEF CInv, TypeOK, CallType, client
<1>7. WorkerCall(s)'
  <2>. m.opcode = (IF r.op = 1 THEN OP_PUT ELSE OP_DEL) /\ m.key = r.key /\ m.data = r.data
    OBVIOUS
  <2>. HIDE DEF m
  <2>. QED
    BY <1>1, <1>2, <1>4, <1>5 DEF WorkerCall
<1>8. Behind(s) /\ Behind(s)'
  <2>1. serving[s + 1] # s
    <3>. SUFFICES ASSUME serving[s + 1] = s PROVE FALSE
      OBVIOUS
    <3>1. Asks(s, s + 1, {OP_PUT, OP_DEL})
      BY <1>2, Names DEF CInv, Serves
    <3>. QED
      BY <1>2, <3>1 DEF Asks
  <2>. QED
    BY <1>1, <1>4, <1>5, <2>1 DEF Behind
<1>9. max_proc[s] = Len(log[s]) - (IF wpc[s] = "lock" THEN 0 ELSE 1)
  BY DEF CInv, Numbering
<1>10. max_proc'[s] = Len(log[s]) - (IF wpc'[s] = "lock" THEN 0 ELSE 1)
  BY <1>1, <1>5, <1>9
<1>. HIDE DEF m, r
<1>. QED
  BY <1>1, <1>2, <1>4, <1>5, <1>6, <1>7, <1>8, <1>10, WorkerKeeps

\* Propagated: it has been answered.
LEMMA PropagatedKeeps ==
    ASSUME CInv, NEW s \in Servers, Propagated(s)
    PROVE  CInv'
<1>1. /\ wpc[s] = "await" /\ call[s].stage = "answered" /\ call' = [call EXCEPT ![s] = NoCall]
      /\ wpc' = [wpc EXCEPT ![s] = "finish"]
      /\ UNCHANGED <<tree, queue, last_assigned, max_proc, request, serving, log, succeeded,
                     client>>
  BY DEF Propagated, Received, past
<1>2. /\ call' \in [Callers -> CallType] /\ call'[s].stage = "none"
      /\ \A q \in Callers : q # s => call'[q] = call[q]
  <2>. call \in [Callers -> CallType] /\ NoCall \in CallType /\ NoCall.stage = "none"
       /\ s \in Callers
    BY ClientTypes, BlanksType, Names DEF CInv, CallType, NoCall
  <2>. QED
    BY <1>1
<1>3. wpc'[s] = "finish" /\ \A t \in Servers : t # s => wpc'[t] = wpc[t]
  BY <1>1 DEF CInv, TypeOK
<1>4. TypeOK'
  <2>. wpc' \in [Servers -> {"lock", "propagate", "await", "finish"}]
    BY <1>1 DEF CInv, TypeOK
  <2>. QED
    BY <1>1, <1>2 DEF CInv, TypeOK, CallType, client
<1>5. WorkerCall(s)' /\ (Behind(s)' <=> Behind(s))
  BY <1>1, <1>2, <1>3 DEF WorkerCall, Behind
<1>6. max_proc[s] = Len(log[s]) - (IF wpc[s] = "lock" THEN 0 ELSE 1)
  BY DEF CInv, Numbering
<1>7. max_proc'[s] = Len(log[s]) - (IF wpc'[s] = "lock" THEN 0 ELSE 1)
  BY <1>1, <1>3, <1>6
<1>. QED
  BY <1>1, <1>2, <1>3, <1>4, <1>5, <1>7, WorkerKeeps

\* Finish: the write counts as run.
LEMMA FinishKeeps ==
    ASSUME CInv, NEW s \in Servers, Finish(s)
    PROVE  CInv'
<1>1. /\ wpc[s] = "finish" /\ max_proc' = [max_proc EXCEPT ![s] = Advance(s)]
      /\ request' = [request EXCEPT ![s] = NoRequest] /\ wpc' = [wpc EXCEPT ![s] = "lock"]
      /\ UNCHANGED <<tree, queue, last_assigned, serving, log, succeeded, client, call>>
  BY DEF Finish, past
<1>2. Advance(s) = Len(log[s]) /\ Len(log[s]) \in Nat
  <2>1. max_proc[s] = Len(log[s]) - 1 /\ request[s].op_n = Len(log[s])
    <3>1. /\ max_proc[s] = Len(log[s]) - (IF wpc[s] = "lock" THEN 0 ELSE 1)
          /\ Len(log[s]) > 0 /\ request[s] = log[s][Len(log[s])].write
          /\ \A i \in DOMAIN log[s] : log[s][i].write.op_n = i
      BY <1>1 DEF CInv, Numbering
    <3>2. Len(log[s]) \in DOMAIN log[s]
      <4>. log[s] \in Seq([write : Write, ok : BOOLEAN])
        BY Types DEF CInv
      <4>. QED
        BY <3>1, Length
    <3>. QED
      BY <1>1, <3>1, <3>2
  <2>2. Len(log[s]) \in Nat
    BY Types DEF CInv
  <2>. QED
    BY <2>1, <2>2
<1>3. /\ max_proc'[s] = Len(log[s]) /\ wpc'[s] = "lock"
      /\ \A t \in Servers : t # s => /\ wpc'[t] = wpc[t] /\ request'[t] = request[t]
                                     /\ max_proc'[t] = max_proc[t]
  BY <1>1, <1>2 DEF CInv, TypeOK
<1>4. TypeOK'
  <2>. /\ wpc' \in [Servers -> {"lock", "propagate", "await", "finish"}]
       /\ request' \in [Servers -> Write] /\ max_proc' \in [Servers -> Nat]
    BY <1>1, <1>2, BlanksType DEF CInv, TypeOK
  <2>. QED
    BY <1>1 DEF CInv, TypeOK, CallType, client
<1>5. WorkerCall(s) /\ call[s].stage = "none"
  BY <1>1 DEF CInv, WorkerCalls, WorkerCall
<1>6. WorkerCall(s)' /\ (Behind(s)' <=> Behind(s))
  BY <1>1, <1>3, <1>5 DEF WorkerCall, Behind
<1>7. max_proc'[s] = Len(log[s]) - (IF wpc'[s] = "lock" THEN 0 ELSE 1)
  BY <1>2, <1>3
<1>. QED
  BY <1>1, <1>3, <1>4, <1>5, <1>6, <1>7, WorkerKeeps

-----------------------------------------------------------------------------
\* What a worker runs.

\* A write that fails leaves the tree as it was (tree_del).
LEMMA FailureChangesNothing ==
    ASSUME NEW t \in Trees, NEW r \in Write, ResultOf(t, r) # 0
    PROVE  Apply(t, r) = t
BY Fields DEF Trees, Apply, ResultOf, tree_del, tree_get

\* Its id counts neither for what a write does to a tree nor for whether it succeeds
\* (process_request).
LEMMA ContentCounts ==
    \A t, r : ResultOf(t, Content(r)) = ResultOf(t, r) /\ Apply(t, Content(r)) = Apply(t, r)
BY DEF Content, ResultOf, Apply

\* A sequence as long as some start of another, with the same elements, is that start.
LEMMA StartOf ==
    ASSUME NEW S, NEW x \in Seq(S), NEW y \in Seq(S), Len(y) <= Len(x),
           \A i \in 1 .. Len(y) : y[i] = x[i]
    PROVE  SubSeq(x, 1, Len(y)) = y
<1>1. Len(y) \in Nat /\ Len(x) \in Nat
  OBVIOUS
<1>2. SubSeq(x, 1, Len(y)) \in Seq(S) /\ Len(SubSeq(x, 1, Len(y))) = Len(y)
      /\ \A i \in 1 .. Len(y) : SubSeq(x, 1, Len(y))[i] = x[i]
  BY <1>1
<1>. QED
  BY <1>1, <1>2, SeqEqual

\* One more element leaves the starts of a sequence alone.
LEMMA StartsKept ==
    ASSUME NEW S, NEW x \in Seq(S), NEW e \in S, NEW n \in 1 .. Len(x) + 1
    PROVE  SubSeq(Append(x, e), 1, n - 1) = SubSeq(x, 1, n - 1)
<1>1. Len(x) \in Nat /\ Append(x, e) \in Seq(S) /\ Len(Append(x, e)) = Len(x) + 1
  OBVIOUS
<1>2. SubSeq(x, 1, n - 1) \in Seq(S) /\ Len(SubSeq(x, 1, n - 1)) = n - 1
      /\ \A i \in 1 .. n - 1 : SubSeq(x, 1, n - 1)[i] = x[i]
  BY <1>1
<1>3. \A i \in 1 .. n - 1 : Append(x, e)[i] = x[i]
  BY <1>1
<1>4. n - 1 <= Len(Append(x, e))
  BY <1>1
<1>. DEFINE y == SubSeq(x, 1, n - 1)
            z == Append(x, e)
<1>5. /\ y \in Seq(S) /\ z \in Seq(S) /\ Len(y) = n - 1 /\ Len(y) <= Len(z)
      /\ \A i \in 1 .. Len(y) : y[i] = z[i]
  BY <1>1, <1>2, <1>3, <1>4
<1>. HIDE DEF y, z
<1>6. SubSeq(z, 1, Len(y)) = y
  BY <1>5, StartOf
<1>. QED
  BY <1>5, <1>6 DEF y, z

\* A sequence is its longest start.
LEMMA WholeStart ==
    ASSUME NEW S, NEW x \in Seq(S)
    PROVE  SubSeq(x, 1, Len(x)) = x
BY StartOf

\* The first write in the queue of a server that is not the head is the next of those that
\* succeeded at the server before it, and at the head; so it succeeds here (process_request,
\* propagate_request).
LEMMA NextSucceeds ==
    ASSUME CInv, NEW s \in Servers, s # HeadServer, queue[s] # <<>>
    PROVE  LET r == Head(queue[s])
               n == Len(log[s]) + 1
           IN  /\ ResultOf(tree[s], r) = 0
               /\ n \in DOMAIN succeeded[s - 1] /\ succeeded[s - 1][n] = Content(r)
               /\ n <= Len(succeeded[HeadServer]) /\ succeeded[HeadServer][n] = Content(r)
<1>. DEFINE r == Head(queue[s])
            k == Len(log[s])
            p == s - 1
            head == succeeded[HeadServer]
            mine == succeeded[s]
            its == succeeded[p]
<1>1. p \in Servers \ {TailServer} /\ p + 1 = s /\ HeadServer \in Servers
  BY Names
<1>2. /\ queue[s] \in Seq(Write) /\ k \in Nat /\ head \in Seq(Asked) /\ mine \in Seq(Asked)
      /\ its \in Seq(Asked) /\ Len(head) \in Nat /\ Len(its) \in Nat
      /\ tree[HeadServer] \in Trees
  BY <1>1, Types DEF CInv
<1>3. r = queue[s][1] /\ 1 \in DOMAIN queue[s] /\ Len(queue[s]) \in Nat \ {0}
  BY <1>2, TailFacts
<1>4. /\ k + Len(queue[s]) = Len(its) - (IF Behind(p) THEN 1 ELSE 0)
      /\ Content(r) = its[k + 1]
  <2>1. /\ Len(log[p + 1]) + Len(queue[p + 1]) = Len(its) - (IF Behind(p) THEN 1 ELSE 0)
        /\ \A i \in DOMAIN queue[p + 1] : Content(queue[p + 1][i]) = its[Len(log[p + 1]) + i]
    BY <1>1 DEF CInv, Follows
  <2>. QED
    BY <1>1, <1>3, <2>1, Zenon
<1>5. k + 1 <= Len(its) /\ k + 1 \in DOMAIN its
  <2>. DEFINE l == Len(queue[s])
              m == Len(its)
  <2>1. k + l = m - (IF Behind(p) THEN 1 ELSE 0) /\ l \in Nat \ {0} /\ m \in Nat /\ k \in Nat
    BY <1>2, <1>3, <1>4
  <2>. HIDE DEF l, m, k
  <2>2. k + 1 <= m /\ k + 1 \in 1 .. m
    BY <2>1
  <2>. QED
    BY <1>2, <2>2, Length DEF m
<1>6. k + 1 <= Len(head) /\ its[k + 1] = head[k + 1]
  <2>1. CASE p = HeadServer
    BY <1>5, <2>1
  <2>2. CASE p # HeadServer
    <3>1. Len(its) = Len(log[p]) /\ Len(log[p]) <= Len(head)
          /\ \A i \in DOMAIN log[p] : its[i] = head[i]
      BY <1>1, <2>2 DEF CInv, AllSucceed
    <3>2. log[p] \in Seq([write : Write, ok : BOOLEAN])
      BY <1>1, Types DEF CInv
    <3>3. DOMAIN log[p] = DOMAIN its
      BY <1>2, <3>1, <3>2, Length
    <3>4. k + 1 <= Len(head)
      BY <1>2, <1>5, <3>1
    <3>. QED
      BY <1>5, <3>1, <3>3, <3>4
  <2>. QED
    BY <2>1, <2>2
<1>7. /\ Len(mine) = k /\ \A i \in DOMAIN log[s] : mine[i] = head[i]
      /\ log[s] \in Seq([write : Write, ok : BOOLEAN])
  BY Types DEF CInv, AllSucceed
<1>8. SubSeq(head, 1, k) = mine
  <2>1. \A i \in 1 .. Len(mine) : mine[i] = head[i]
    BY <1>7, Length
  <2>2. Len(mine) <= Len(head)
    BY <1>2, <1>6, <1>7
  <2>3. SubSeq(head, 1, Len(mine)) = mine
    <3>. HIDE DEF mine, head
    <3>. QED
      BY <1>2, <2>1, <2>2, StartOf
  <2>. QED
    BY <1>7, <2>3
<1>9. ResultOf(tree[s], r) = 0
  <2>1. k + 1 \in DOMAIN head /\ (k + 1) - 1 = k
    BY <1>2, <1>6, Length
  <2>2. \A n \in DOMAIN head : ResultOf(Replay(SubSeq(head, 1, n - 1)).tree, head[n]) = 0
    BY <1>1 DEF CInv, Replayed
  <2>3. ResultOf(Replay(SubSeq(head, 1, k)).tree, head[k + 1]) = 0
    BY <2>1, <2>2
  <2>4. tree[s] = Replay(mine).tree
    BY DEF CInv, Replayed
  <2>5. ResultOf(tree[s], Content(r)) = 0
    BY <1>4, <1>6, <1>8, <2>3, <2>4
  <2>. QED
    BY <2>5, ContentCounts
<1>. QED
  BY <1>4, <1>5, <1>6, <1>9

\* The write Process takes, and whether it succeeds.
Taken(s) == Head(queue[s])
Works(s) == ResultOf(tree[s], Taken(s)) = 0

\* When a worker takes a write, and what it leaves alone.
LEMMA ProcessWhen ==
    ASSUME CInv, NEW s \in Servers, Process(s)
    PROVE  /\ wpc[s] = "lock" /\ queue[s] # <<>> /\ queue[s] \in Seq(Write)
           /\ Taken(s) = Head(queue[s]) /\ Taken(s) \in Write
           /\ Works(s) = (ResultOf(tree[s], Taken(s)) = 0) /\ Works(s) \in BOOLEAN
           /\ last_assigned' = last_assigned /\ max_proc' = max_proc /\ serving' = serving
           /\ UNCHANGED client /\ call' = call
<1>1. queue[s] # <<>> /\ queue[s] \in Seq(Write)
  BY Types DEF CInv, Process
<1>2. Taken(s) \in Write
  BY <1>1 DEF Taken
<1>. QED
  BY <1>1, <1>2 DEF Process, Taken, Works

\* What it changes.
ProcessStep(s) ==
    /\ request' = [request EXCEPT ![s] = Taken(s)]
    /\ queue' = [queue EXCEPT ![s] = Tail(queue[s])]
    /\ tree' = [tree EXCEPT ![s] = Apply(tree[s], Taken(s))]
    /\ log' = [log EXCEPT ![s] = Append(log[s], [write |-> Taken(s), ok |-> Works(s)])]
    /\ succeeded' = IF Works(s) THEN [succeeded EXCEPT ![s] =
                                            Append(succeeded[s], Content(Taken(s)))]
                    ELSE succeeded
    /\ wpc' = [wpc EXCEPT ![s] = IF Works(s) /\ s # TailServer THEN "propagate" ELSE "finish"]

\* Process does what ProcessStep says.
LEMMA ProcessUnfolded ==
    ASSUME NEW s \in Servers, Process(s)
    PROVE  ProcessStep(s)
BY DEF Process, ProcessStep, Taken, Works

\* What it leaves in the server is well typed.
LEMMA ProcessTyped ==
    ASSUME CInv, NEW s \in Servers, Process(s)
    PROVE  TypeOK' /\ Content(Taken(s)) \in Asked
<1>. DEFINE r == Taken(s)
            e == [write |-> r, ok |-> Works(s)]
            S == [write : Write, ok : BOOLEAN]
<1>0. ProcessStep(s)
  BY ProcessUnfolded
<1>1. /\ queue[s] \in Seq(Write) /\ log[s] \in Seq(S)
      /\ succeeded[s] \in Seq(Asked) /\ tree[s] \in Trees
  BY Types DEF CInv
<1>2. /\ r \in Write /\ e \in S
      /\ last_assigned' = last_assigned /\ max_proc' = max_proc /\ serving' = serving
      /\ UNCHANGED client /\ call' = call
  BY ProcessWhen
<1>3. /\ Tail(queue[s]) \in Seq(Write) /\ Content(r) \in Asked
      /\ Append(log[s], e) \in Seq(S)
  <2>1. Content(r) \in Asked
    BY <1>2, Fields
  <2>2. queue[s] # <<>>
    BY ProcessWhen
  <2>. HIDE DEF S, e
  <2>. QED
    BY <1>1, <1>2, <2>1, <2>2
<1>4. Append(succeeded[s], Content(r)) \in Seq(Asked)
  BY <1>1, <1>3
<1>5. Apply(tree[s], r) \in Trees
  <2>. r.key \in Keys /\ r.data \in Values \union {NoValue}
    BY <1>2, Fields
  <2>. QED
    BY <1>1, ApplyIsTree
<1>6. queue' \in [Servers -> Seq(Write)] /\ tree' \in [Servers -> Trees]
      /\ log' \in [Servers -> Seq(S)]
  BY <1>3, <1>5, <1>0 DEF CInv, TypeOK, ProcessStep
<1>7. succeeded' \in [Servers -> Seq(Asked)]
  <2>1. succeeded \in [Servers -> Seq(Asked)]
    BY DEF CInv, TypeOK
  <2>2. CASE Works(s)
    BY <1>4, <2>1, <2>2, <1>0 DEF ProcessStep
  <2>3. CASE ~Works(s)
    BY <2>1, <2>3, <1>0 DEF ProcessStep
  <2>. QED
    BY <2>2, <2>3
<1>8. request' \in [Servers -> Write]
      /\ wpc' \in [Servers -> {"lock", "propagate", "await", "finish"}]
  BY <1>2, <1>0 DEF CInv, TypeOK, ProcessStep
<1>. QED
  BY <1>2, <1>3, <1>6, <1>7, <1>8 DEF CInv, TypeOK, client

\* What it changes in the server, and that it changes no other.
LEMMA ProcessHere ==
    ASSUME CInv, NEW s \in Servers, Process(s)
    PROVE  /\ queue'[s] = Tail(queue[s]) /\ request'[s] = Taken(s)
           /\ tree'[s] = Apply(tree[s], Taken(s))
           /\ log'[s] = Append(log[s], [write |-> Taken(s), ok |-> Works(s)])
           /\ Works(s) => succeeded'[s] = Append(succeeded[s], Content(Taken(s)))
           /\ ~Works(s) => succeeded'[s] = succeeded[s]
           /\ wpc'[s] \in {"propagate", "finish"}
           /\ wpc'[s] = "propagate" <=> Works(s) /\ s # TailServer
<1>0. ProcessStep(s)
  BY ProcessUnfolded
<1>1. queue'[s] = Tail(queue[s]) /\ request'[s] = Taken(s)
      /\ tree'[s] = Apply(tree[s], Taken(s))
  BY <1>0 DEF CInv, TypeOK, ProcessStep
<1>2. log'[s] = Append(log[s], [write |-> Taken(s), ok |-> Works(s)])
  BY <1>0 DEF CInv, TypeOK, ProcessStep
<1>3. /\ Works(s) => succeeded'[s] = Append(succeeded[s], Content(Taken(s)))
      /\ ~Works(s) => succeeded'[s] = succeeded[s]
  BY <1>0 DEF CInv, TypeOK, ProcessStep
<1>4. wpc'[s] = IF Works(s) /\ s # TailServer THEN "propagate" ELSE "finish"
  BY <1>0 DEF CInv, TypeOK, ProcessStep
<1>. QED
  BY <1>1, <1>2, <1>3, <1>4

\* What it leaves alone in the other servers.
LEMMA ProcessElsewhere ==
    ASSUME CInv, NEW s \in Servers, Process(s), NEW t \in Servers, t # s
    PROVE  /\ queue'[t] = queue[t] /\ request'[t] = request[t] /\ tree'[t] = tree[t]
           /\ log'[t] = log[t] /\ succeeded'[t] = succeeded[t] /\ wpc'[t] = wpc[t]
<1>0. ProcessStep(s)
  BY ProcessUnfolded
<1>1. queue'[t] = queue[t] /\ request'[t] = request[t] /\ tree'[t] = tree[t]
      /\ log'[t] = log[t] /\ wpc'[t] = wpc[t]
  BY <1>0 DEF CInv, TypeOK, ProcessStep
<1>2. succeeded'[t] = succeeded[t]
  BY <1>0 DEF CInv, TypeOK, ProcessStep
<1>. QED
  BY <1>1, <1>2

\* Process: the numbers and ids.
LEMMA ProcessNumbers ==
    ASSUME CInv, NEW s \in Servers, Process(s)
    PROVE  Numbering' /\ Origins'
<1>. DEFINE r == Taken(s)
            ok == Works(s)
            q == queue[s]
            l == log[s]
            e == [write |-> r, ok |-> ok]
            k == Len(log[s])
<1>1. /\ q \in Seq(Write) /\ q # <<>> /\ l \in Seq([write : Write, ok : BOOLEAN])
      /\ e \in [write : Write, ok : BOOLEAN] /\ e.write = r /\ k \in Nat /\ k = Len(l)
      /\ wpc[s] = "lock" /\ r = Head(q)
  BY Types, ProcessWhen DEF CInv
<1>2. /\ \A i \in DOMAIN l : l[i].write.op_n = i
      /\ \A i \in DOMAIN q : q[i].op_n = k + i
      /\ last_assigned[s] = k + Len(q) + (IF serving[s] = Nobody THEN 1 ELSE 0)
      /\ max_proc[s] = k
  <2>1. /\ \A i \in DOMAIN l : l[i].write.op_n = i
        /\ \A i \in DOMAIN q : q[i].op_n = k + i
        /\ last_assigned[s] = k + Len(q) + (IF serving[s] = Nobody THEN 1 ELSE 0)
        /\ max_proc[s] = k - (IF wpc[s] = "lock" THEN 0 ELSE 1)
    BY Zenon DEF CInv, Numbering
  <2>2. max_proc[s] = k
    BY <1>1, <2>1
  <2>. QED
    BY <2>1, <2>2, Zenon
<1>3. /\ queue'[s] = Tail(q) /\ log'[s] = Append(l, e) /\ request'[s] = r /\ wpc'[s] # "lock"
      /\ serving' = serving /\ last_assigned' = last_assigned /\ max_proc' = max_proc
  <2>1. serving' = serving /\ last_assigned' = last_assigned /\ max_proc' = max_proc
    BY ProcessWhen
  <2>. QED
    BY <2>1, ProcessHere
<1>. HIDE DEF q, l, e, k
<1>4. /\ Len(Tail(q)) = Len(q) - 1 /\ Len(q) \in Nat \ {0} /\ r = q[1] /\ 1 \in DOMAIN q
      /\ \A i \in DOMAIN Tail(q) : i \in Nat /\ i + 1 \in DOMAIN q /\ Tail(q)[i] = q[i + 1]
  BY <1>1, TailFacts
<1>5. /\ Len(Append(l, e)) = k + 1 /\ Append(l, e)[k + 1] = e
      /\ \A i \in DOMAIN Append(l, e) :
            \/ (i \in DOMAIN l /\ Append(l, e)[i] = l[i])
            \/ (i = k + 1 /\ Append(l, e)[i] = e)
  <2>. DEFINE S == [write : Write, ok : BOOLEAN]
  <2>1. l \in Seq(S) /\ e \in S
    BY <1>1
  <2>. HIDE DEF S
  <2>2. Len(Append(l, e)) = Len(l) + 1 /\ Append(l, e)[Len(l) + 1] = e
    BY <2>1, AppendFacts
  <2>3. \A i \in DOMAIN Append(l, e) :
            \/ (i \in DOMAIN l /\ Append(l, e)[i] = l[i])
            \/ (i = Len(l) + 1 /\ Append(l, e)[i] = e)
    BY <2>1, AppendCases
  <2>. QED
    BY <1>1, <2>2, <2>3, Zenon
<1>6. r.op_n = k + 1
  BY <1>2, <1>4
<1>7. \A i \in DOMAIN log'[s] : log'[s][i].write.op_n = i
  BY <1>1, <1>2, <1>3, <1>5, <1>6
<1>8. \A i \in DOMAIN queue'[s] : queue'[s][i].op_n = Len(log'[s]) + i
  <2>1. \A i \in DOMAIN Tail(q) : Tail(q)[i].op_n = (k + 1) + i
    <3>. SUFFICES ASSUME NEW i \in DOMAIN Tail(q) PROVE Tail(q)[i].op_n = (k + 1) + i
      OBVIOUS
    <3>1. Tail(q)[i].op_n = k + (i + 1) /\ i \in Nat
      BY <1>2, <1>4
    <3>. QED
      BY <1>1, <3>1
  <2>. QED
    BY <1>3, <1>5, <2>1, Zenon
<1>9. last_assigned'[s] = Len(log'[s]) + Len(queue'[s])
                          + (IF serving'[s] = Nobody THEN 1 ELSE 0)
  <2>. DEFINE x == Len(q)
              y == IF serving[s] = Nobody THEN 1 ELSE 0
  <2>1. last_assigned[s] = k + x + y /\ x \in Nat /\ y \in {0, 1} /\ k \in Nat
    BY <1>1, <1>2, <1>4
  <2>. HIDE DEF x, y
  <2>2. last_assigned[s] = (k + 1) + (x - 1) + y
    BY <2>1
  <2>. QED
    BY <1>3, <1>4, <1>5, <2>2, Zenon DEF x, y
<1>10. /\ max_proc'[s] = Len(log'[s]) - 1 /\ Len(log'[s]) > 0
       /\ request'[s] = log'[s][Len(log'[s])].write
  <2>1. max_proc'[s] = (k + 1) - 1 /\ k + 1 > 0
    BY <1>1, <1>2, <1>3
  <2>2. request'[s] = Append(l, e)[k + 1].write
    BY <1>1, <1>3, <1>5
  <2>. QED
    BY <1>3, <1>5, <2>1, <2>2, Zenon
<1>11. Numbering'
  <2>. SUFFICES ASSUME NEW t \in Servers
       PROVE  /\ \A i \in DOMAIN log'[t] : log'[t][i].write.op_n = i
              /\ \A i \in DOMAIN queue'[t] : queue'[t][i].op_n = Len(log'[t]) + i
              /\ last_assigned'[t] = Len(log'[t]) + Len(queue'[t])
                                     + (IF serving'[t] = Nobody THEN 1 ELSE 0)
              /\ max_proc'[t] = Len(log'[t]) - (IF wpc'[t] = "lock" THEN 0 ELSE 1)
              /\ wpc'[t] # "lock" =>
                    Len(log'[t]) > 0 /\ request'[t] = log'[t][Len(log'[t])].write
    BY DEF Numbering
  <2>1. CASE t = s
    BY <1>3, <1>7, <1>8, <1>9, <1>10, <2>1
  <2>2. CASE t # s
    <3>. /\ queue'[t] = queue[t] /\ request'[t] = request[t]
         /\ log'[t] = log[t] /\ wpc'[t] = wpc[t]
      BY <2>2, ProcessElsewhere
    <3>. QED
      BY <1>3 DEF CInv, Numbering
  <2>. QED
    BY <2>1, <2>2
<1>12. Origins'
  <2>1. CASE s = HeadServer
    <3>1. /\ \A i \in DOMAIN l : l[i].write.origin = i
          /\ \A i \in DOMAIN q : q[i].origin = q[i].op_n
      BY <2>1 DEF CInv, Origins, l, q
    <3>2. r.origin = k + 1
      BY <1>4, <1>6, <3>1
    <3>3. \A i \in DOMAIN Append(l, e) : Append(l, e)[i].write.origin = i
      BY <1>1, <1>5, <3>1, <3>2
    <3>4. \A i \in DOMAIN Tail(q) : Tail(q)[i].origin = Tail(q)[i].op_n
      BY <1>4, <3>1
    <3>. QED
      BY <1>3, <2>1, <3>3, <3>4, Zenon DEF Origins
  <2>2. CASE s # HeadServer
    <3>. queue'[HeadServer] = queue[HeadServer] /\ log'[HeadServer] = log[HeadServer]
      BY <2>2, Names, ProcessElsewhere
    <3>. QED
      BY DEF CInv, Origins
  <2>. QED
    BY <2>1, <2>2
<1>. QED
  BY <1>11, <1>12

\* Process: the calls.
LEMMA ProcessCalls ==
    ASSUME CInv, NEW s \in Servers, Process(s)
    PROVE  ClientCalls' /\ WorkerCalls' /\ Serves' /\ AcknowledgedIsSettled'
<1>. DEFINE r == Taken(s)
            ok == Works(s)
<1>1. wpc[s] = "lock" /\ call' = call /\ serving' = serving /\ UNCHANGED client
  BY ProcessWhen
<1>2. \A n : Settled(n) => Settled(n)'
  <2>. SUFFICES ASSUME NEW t \in Servers, NEW i \in DOMAIN log[t]
                PROVE  i \in DOMAIN log'[t] /\ log'[t][i] = log[t][i]
    BY SettledStays
  <2>1. CASE t = s
    <3>. DEFINE S == [write : Write, ok : BOOLEAN]
                e == [write |-> r, ok |-> ok]
    <3>1. log[s] \in Seq(S) /\ e \in S
      BY Types, ProcessWhen DEF CInv
    <3>2. log'[s] = Append(log[s], e)
      BY ProcessHere
    <3>. HIDE DEF S, e
    <3>. QED
      BY <2>1, <3>1, <3>2, AppendFacts
  <2>2. CASE t # s
    BY <2>2, ProcessElsewhere
  <2>. QED
    BY <2>1, <2>2
<1>3. ClientCalls'
  BY <1>1, <1>2, ClientsKept
<1>4. WorkerCalls'
  <2>. SUFFICES ASSUME NEW t \in Servers PROVE WorkerCall(t)'
    BY DEF WorkerCalls
  <2>1. WorkerCall(t)
    BY DEF CInv, WorkerCalls
  <2>2. CASE t # s
    <3>. wpc'[t] = wpc[t] /\ request'[t] = request[t] /\ succeeded'[t] = succeeded[t]
      BY <2>2, ProcessElsewhere
    <3>. QED
      BY <1>1, <2>1 DEF WorkerCall
  <2>3. CASE t = s
    <3>1. call'[s].stage = "none"
      BY <1>1, <2>1, <2>3 DEF WorkerCall
    <3>2. CASE wpc'[s] = "propagate"
      <4>1. ok /\ s # TailServer /\ succeeded'[s] = Append(succeeded[s], Content(r))
            /\ request'[s] = r
        BY <3>2, ProcessHere
      <4>2. succeeded[s] \in Seq(Asked) /\ Content(r) \in Asked
        BY Types, ProcessTyped DEF CInv
      <4>3. /\ Append(succeeded[s], Content(r)) # <<>>
            /\ Append(succeeded[s], Content(r))[Len(Append(succeeded[s], Content(r)))]
                    = Content(r)
        BY <4>2
      <4>4. succeeded'[s] # <<>> /\ succeeded'[s][Len(succeeded'[s])] = Content(r)
        BY <4>1, <4>3, Zenon
      <4>. QED
        BY <2>3, <3>1, <3>2, <4>1, <4>4 DEF WorkerCall
    <3>3. CASE wpc'[s] = "finish"
      BY <2>3, <3>1, <3>3 DEF WorkerCall
    <3>. QED
      BY <3>2, <3>3, ProcessHere
  <2>. QED
    BY <2>2, <2>3
<1>5. Serves'
  BY <1>1 DEF CInv, Serves, Asks
<1>6. AcknowledgedIsSettled'
  BY <1>1, <1>2 DEF CInv, AcknowledgedIsSettled, client
<1>. QED
  BY <1>3, <1>4, <1>5, <1>6

\* Process: what the server after has been given of those that succeeded.
LEMMA ProcessFollowed ==
    ASSUME CInv, NEW s \in Servers, Process(s), s # TailServer
    PROVE  /\ Len(log'[s + 1]) + Len(queue'[s + 1])
                    = Len(succeeded'[s]) - (IF Behind(s)' THEN 1 ELSE 0)
           /\ \A i \in DOMAIN log'[s + 1] : Content(log'[s + 1][i].write) = succeeded'[s][i]
           /\ \A i \in DOMAIN queue'[s + 1] :
                Content(queue'[s + 1][i]) = succeeded'[s][Len(log'[s + 1]) + i]
<1>. DEFINE r == Taken(s)
            ok == Works(s)
            l == log[s + 1]
            q == queue[s + 1]
            z == succeeded[s]
<1>1. s + 1 \in Servers /\ log'[s + 1] = l /\ queue'[s + 1] = q
  <2>. s + 1 \in Servers /\ s + 1 # s
    BY Names
  <2>. QED
    BY ProcessElsewhere
<1>2. /\ l \in Seq([write : Write, ok : BOOLEAN]) /\ q \in Seq(Write) /\ z \in Seq(Asked)
      /\ Len(l) \in Nat /\ Len(q) \in Nat /\ Len(z) \in Nat
  BY <1>1, Types DEF CInv
<1>3. /\ Len(l) + Len(q) = Len(z) - (IF Behind(s) THEN 1 ELSE 0)
      /\ \A i \in DOMAIN l : Content(l[i].write) = z[i]
      /\ \A i \in DOMAIN q : Content(q[i]) = z[Len(l) + i]
  BY DEF CInv, Follows
<1>4. ~Behind(s)
  BY ProcessWhen DEF Behind
<1>5. Behind(s)' <=> ok
  <2>1. wpc'[s] \in {"propagate", "finish"} /\ (wpc'[s] = "propagate" <=> ok)
    BY ProcessHere
  <2>2. wpc'[s] # "await"
    BY <2>1
  <2>. QED
    BY <2>1, <2>2, Zenon DEF Behind
<1>6. CASE ~ok
  <2>. succeeded'[s] = z
    BY <1>6, ProcessHere
  <2>. QED
    BY <1>1, <1>3, <1>4, <1>5, <1>6
<1>7. CASE ok
  <2>. DEFINE x == Content(r)
  <2>1. succeeded'[s] = Append(z, x) /\ x \in Asked
    BY <1>7, ProcessHere, ProcessTyped
  <2>. HIDE DEF l, q, z, x
  <2>2. Len(Append(z, x)) = Len(z) + 1 /\ \A i \in DOMAIN z : Append(z, x)[i] = z[i]
    BY <1>2, <2>1, AppendFacts
  <2>3. Len(l) + Len(q) = (Len(z) + 1) - 1
    <3>1. Len(l) + Len(q) = Len(z) - 0
      BY <1>3, <1>4, Zenon
    <3>. QED
      BY <1>2, <3>1
  <2>4. \A i \in DOMAIN l : i \in DOMAIN z
    BY <1>2, <2>3
  <2>5. \A i \in DOMAIN q : Len(l) + i \in DOMAIN z
    BY <1>2, <2>3
  <2>6. /\ \A i \in DOMAIN l : Content(l[i].write) = Append(z, x)[i]
        /\ \A i \in DOMAIN q : Content(q[i]) = Append(z, x)[Len(l) + i]
    BY <1>3, <2>2, <2>4, <2>5
  <2>. QED
    BY <1>1, <1>5, <1>7, <2>1, <2>2, <2>3, <2>6, Zenon
<1>. QED
  BY <1>6, <1>7

\* Process: what the server has been given of those that succeeded before it.
LEMMA ProcessFollows ==
    ASSUME CInv, NEW s \in Servers, Process(s),
           NEW p \in Servers, p # TailServer, p + 1 = s
    PROVE  /\ Len(log'[s]) + Len(queue'[s])
                    = Len(succeeded[p]) - (IF Behind(p) THEN 1 ELSE 0)
           /\ \A i \in DOMAIN log'[s] : Content(log'[s][i].write) = succeeded[p][i]
           /\ \A i \in DOMAIN queue'[s] :
                Content(queue'[s][i]) = succeeded[p][Len(log'[s]) + i]
<1>. DEFINE r == Taken(s)
            ok == Works(s)
            S == [write : Write, ok : BOOLEAN]
            e == [write |-> r, ok |-> ok]
            l == log[s]
            q == queue[s]
            z == succeeded[p]
            b == IF Behind(p) THEN 1 ELSE 0
<1>1. /\ l \in Seq(S) /\ q \in Seq(Write) /\ e \in S /\ e.write = r /\ q # <<>> /\ r = Head(q)
      /\ Len(l) \in Nat
  BY Types, ProcessWhen DEF CInv
<1>2. log'[s] = Append(l, e) /\ queue'[s] = Tail(q)
  BY ProcessHere
<1>3. /\ Len(l) + Len(q) = Len(z) - b
      /\ \A i \in DOMAIN l : Content(l[i].write) = z[i]
      /\ \A i \in DOMAIN q : Content(q[i]) = z[Len(l) + i]
  <2>1. p \in Servers \ {TailServer}
    OBVIOUS
  <2>. QED
    BY <2>1, Zenon DEF CInv, Follows
<1>. HIDE DEF S, e, l, q, z, b
<1>4. /\ Len(Tail(q)) = Len(q) - 1 /\ Len(q) \in Nat \ {0} /\ r = q[1] /\ 1 \in DOMAIN q
      /\ \A i \in DOMAIN Tail(q) : i \in Nat /\ i + 1 \in DOMAIN q /\ Tail(q)[i] = q[i + 1]
  BY <1>1, TailFacts
<1>5. Len(Append(l, e)) = Len(l) + 1
  BY <1>1, AppendFacts
<1>6. (Len(l) + 1) + (Len(q) - 1) = Len(l) + Len(q)
  BY <1>1, <1>4
<1>7. \A i \in DOMAIN Append(l, e) : Content(Append(l, e)[i].write) = z[i]
  <2>. SUFFICES ASSUME NEW i \in DOMAIN Append(l, e)
                PROVE  Content(Append(l, e)[i].write) = z[i]
    OBVIOUS
  <2>1. \/ (i \in DOMAIN l /\ Append(l, e)[i] = l[i])
        \/ (i = Len(l) + 1 /\ Append(l, e)[i] = e)
    BY <1>1, AppendCases
  <2>. QED
    BY <1>1, <1>3, <1>4, <2>1
<1>8. \A i \in DOMAIN Tail(q) : Content(Tail(q)[i]) = z[(Len(l) + 1) + i]
  <2>. SUFFICES ASSUME NEW i \in DOMAIN Tail(q)
                PROVE  Content(Tail(q)[i]) = z[(Len(l) + 1) + i]
    OBVIOUS
  <2>1. Content(Tail(q)[i]) = z[Len(l) + (i + 1)] /\ i \in Nat
    BY <1>3, <1>4
  <2>2. Len(l) + (i + 1) = (Len(l) + 1) + i
    BY <1>1, <2>1
  <2>. QED
    BY <2>1, <2>2
<1>9. Len(Append(l, e)) + Len(Tail(q)) = Len(z) - b
  BY <1>3, <1>4, <1>5, <1>6, Zenon
<1>. QED
  BY <1>2, <1>5, <1>7, <1>8, <1>9, Zenon DEF z, b

\* Process: what the server has been given, and given on.
LEMMA ProcessKeepsFollows ==
    ASSUME CInv, NEW s \in Servers, Process(s)
    PROVE  Follows'
<1>. SUFFICES ASSUME NEW t \in Servers \ {TailServer}
     PROVE  /\ Len(log'[t + 1]) + Len(queue'[t + 1])
                    = Len(succeeded'[t]) - (IF Behind(t)' THEN 1 ELSE 0)
            /\ \A i \in DOMAIN log'[t + 1] : Content(log'[t + 1][i].write) = succeeded'[t][i]
            /\ \A i \in DOMAIN queue'[t + 1] :
                    Content(queue'[t + 1][i]) = succeeded'[t][Len(log'[t + 1]) + i]
  BY DEF Follows
<1>1. CASE t = s
  BY <1>1, ProcessFollowed
<1>2. CASE t # s
  <2>1. succeeded'[t] = succeeded[t] /\ (Behind(t)' <=> Behind(t))
    <3>1. succeeded'[t] = succeeded[t] /\ wpc'[t] = wpc[t]
      BY <1>2, ProcessElsewhere
    <3>2. call' = call /\ serving' = serving
      BY ProcessWhen
    <3>. QED
      BY <3>1, <3>2 DEF Behind
  <2>2. CASE t + 1 = s
    <3>1. /\ Len(log'[s]) + Len(queue'[s])
                    = Len(succeeded[t]) - (IF Behind(t) THEN 1 ELSE 0)
          /\ \A i \in DOMAIN log'[s] : Content(log'[s][i].write) = succeeded[t][i]
          /\ \A i \in DOMAIN queue'[s] :
                Content(queue'[s][i]) = succeeded[t][Len(log'[s]) + i]
      BY <2>2, ProcessFollows
    <3>. QED
      BY <2>1, <2>2, <3>1
  <2>3. CASE t + 1 # s
    <3>1. log'[t + 1] = log[t + 1] /\ queue'[t + 1] = queue[t + 1]
      BY <2>3, Names, ProcessElsewhere
    <3>. QED
      BY <2>1, <3>1 DEF CInv, Follows
  <2>. QED
    BY <2>2, <2>3
<1>. QED
  BY <1>1, <1>2

\* Process: a write that succeeded at the head succeeds.
LEMMA ProcessKeepsSuccess ==
    ASSUME CInv, NEW s \in Servers, Process(s)
    PROVE  AllSucceed'
<1>. DEFINE r == Taken(s)
            ok == Works(s)
            S == [write : Write, ok : BOOLEAN]
            e == [write |-> r, ok |-> ok]
            head == succeeded[HeadServer]
<1>. SUFFICES ASSUME NEW t \in Servers \ {HeadServer}
     PROVE  /\ Len(succeeded'[t]) = Len(log'[t]) /\ Len(log'[t]) <= Len(succeeded'[HeadServer])
            /\ \A i \in DOMAIN log'[t] :
                /\ log'[t][i].ok /\ Content(log'[t][i].write) = succeeded'[t][i]
                /\ succeeded'[t][i] = succeeded'[HeadServer][i]
  BY DEF AllSucceed
<1>1. /\ Len(succeeded[t]) = Len(log[t]) /\ Len(log[t]) <= Len(head)
      /\ \A i \in DOMAIN log[t] :
            /\ log[t][i].ok /\ Content(log[t][i].write) = succeeded[t][i]
            /\ succeeded[t][i] = head[i]
  BY DEF CInv, AllSucceed
<1>2. /\ log[t] \in Seq(S) /\ succeeded[t] \in Seq(Asked) /\ head \in Seq(Asked)
      /\ Len(log[t]) \in Nat /\ Len(head) \in Nat /\ Content(r) \in Asked /\ e \in S
      /\ e.write = r /\ e.ok = ok
  BY Names, Types, ProcessTyped, ProcessWhen DEF CInv
<1>. HIDE DEF S, e, head
<1>3. CASE t # s
  <2>1. log'[t] = log[t] /\ succeeded'[t] = succeeded[t]
    BY <1>3, ProcessElsewhere
  <2>2. succeeded'[HeadServer] \in {head, Append(head, Content(r))}
    <3>1. CASE s = HeadServer
      <4>1. succeeded'[s] \in {succeeded[s], Append(succeeded[s], Content(r))}
        <5>1. CASE ok
          BY <5>1, ProcessHere
        <5>2. CASE ~ok
          BY <5>2, ProcessHere
        <5>. QED
          BY <5>1, <5>2
      <4>. QED
        BY <3>1, <4>1 DEF head
    <3>2. CASE s # HeadServer
      <4>. HeadServer \in Servers
        BY Names
      <4>. succeeded'[HeadServer] = succeeded[HeadServer]
        BY <3>2, ProcessElsewhere
      <4>. QED
        BY DEF head
    <3>. QED
      BY <3>1, <3>2
  <2>3. /\ Len(Append(head, Content(r))) = Len(head) + 1
        /\ \A i \in DOMAIN head : Append(head, Content(r))[i] = head[i]
    BY <1>2, AppendFacts
  <2>4. /\ Len(head) <= Len(succeeded'[HeadServer])
        /\ Len(log[t]) <= Len(succeeded'[HeadServer])
        /\ \A i \in DOMAIN head : succeeded'[HeadServer][i] = head[i]
    <3>1. CASE succeeded'[HeadServer] = head
      BY <1>1, <1>2, <3>1
    <3>2. CASE succeeded'[HeadServer] = Append(head, Content(r))
      <4>1. Len(head) <= Len(head) + 1 /\ Len(log[t]) <= Len(head) + 1
        BY <1>1, <1>2
      <4>. QED
        BY <2>3, <3>2, <4>1, Zenon
    <3>. QED
      BY <2>2, <3>1, <3>2
  <2>5. \A i \in DOMAIN log[t] : i \in DOMAIN head
    BY <1>1, <1>2
  <2>. QED
    BY <1>1, <2>1, <2>4, <2>5
<1>4. CASE t = s
  <2>. DEFINE x == Content(r)
              n == Len(log[s]) + 1
  <2>1. /\ ok /\ n <= Len(head) /\ head[n] = x /\ x \in Asked
    <3>1. queue[s] # <<>> /\ s # HeadServer /\ r = Head(queue[s])
          /\ ok = (ResultOf(tree[s], r) = 0)
      BY <1>4, ProcessWhen
    <3>2. LET w == Head(queue[s])
              m == Len(log[s]) + 1
          IN  /\ ResultOf(tree[s], w) = 0
              /\ m <= Len(succeeded[HeadServer]) /\ succeeded[HeadServer][m] = Content(w)
      BY <3>1, NextSucceeds
    <3>. QED
      BY <1>2, <3>1, <3>2 DEF head
  <2>2. log'[s] = Append(log[s], e) /\ succeeded'[s] = Append(succeeded[s], x)
        /\ succeeded'[HeadServer] = head
    <3>1. log'[s] = Append(log[s], e) /\ succeeded'[s] = Append(succeeded[s], x)
      BY <2>1, ProcessHere DEF e
    <3>2. HeadServer \in Servers /\ HeadServer # s
      BY <1>4, Names
    <3>3. succeeded'[HeadServer] = succeeded[HeadServer]
      BY <3>2, ProcessElsewhere
    <3>. QED
      BY <3>1, <3>3 DEF head
  <2>. HIDE DEF x
  <2>3. /\ Len(Append(log[s], e)) = n /\ Len(Append(succeeded[s], x)) = Len(succeeded[s]) + 1
        /\ Append(succeeded[s], x)[Len(succeeded[s]) + 1] = x
        /\ \A i \in DOMAIN succeeded[s] : Append(succeeded[s], x)[i] = succeeded[s][i]
    BY <1>2, <1>4, <2>1, AppendFacts
  <2>4. Len(succeeded[s]) = Len(log[s]) /\ DOMAIN succeeded[s] = DOMAIN log[s]
    BY <1>1, <1>2, <1>4, Length
  <2>5. ASSUME NEW i \in DOMAIN Append(log[s], e)
        PROVE  /\ Append(log[s], e)[i].ok
               /\ Content(Append(log[s], e)[i].write) = Append(succeeded[s], x)[i]
               /\ Append(succeeded[s], x)[i] = head[i]
    <3>1. \/ (i \in DOMAIN log[s] /\ Append(log[s], e)[i] = log[s][i])
          \/ (i = n /\ Append(log[s], e)[i] = e)
      BY <1>2, <1>4, AppendCases
    <3>2. CASE i \in DOMAIN log[s] /\ Append(log[s], e)[i] = log[s][i]
      BY <1>1, <1>4, <2>3, <2>4, <3>2
    <3>3. CASE i = n /\ Append(log[s], e)[i] = e
      <4>. Append(succeeded[s], x)[n] = x
        BY <2>3, <2>4, Zenon
      <4>. QED
        BY <1>2, <2>1, <3>3 DEF x
    <3>. QED
      BY <3>1, <3>2, <3>3
  <2>6. /\ log'[s] = Append(log[s], e) /\ succeeded'[s] = Append(succeeded[s], x)
        /\ succeeded'[HeadServer] = head
    BY <2>1, <2>2
  <2>7. Len(succeeded'[s]) = Len(log'[s]) /\ Len(log'[s]) <= Len(succeeded'[HeadServer])
    BY <2>1, <2>3, <2>4, <2>6
  <2>8. ASSUME NEW i \in DOMAIN log'[s]
        PROVE  /\ log'[s][i].ok /\ Content(log'[s][i].write) = succeeded'[s][i]
               /\ succeeded'[s][i] = succeeded'[HeadServer][i]
    <3>1. i \in DOMAIN Append(log[s], e)
      BY <2>6, <2>8, Zenon
    <3>. QED
      BY <2>5, <2>6, <3>1, Zenon
  <2>. QED
    BY <1>4, <2>7, <2>8, Zenon
<1>. QED
  BY <1>3, <1>4

\* Process: the head's writes that succeed are added to those that did.
LEMMA ProcessKeepsReached ==
    ASSUME CInv, NEW s \in Servers, Process(s)
    PROVE  Reached'
<1>. DEFINE r == Taken(s)
            ok == Works(s)
<1>1. CASE s # HeadServer
  <2>. log'[HeadServer] = log[HeadServer] /\ succeeded'[HeadServer] = succeeded[HeadServer]
    BY <1>1, Names, ProcessElsewhere
  <2>. QED
    BY DEF CInv, Reached
<1>2. CASE s = HeadServer
  <2>. DEFINE S == [write : Write, ok : BOOLEAN]
              e == [write |-> r, ok |-> ok]
              l == log[s]
              z == succeeded[s]
              x == Content(r)
  <2>1. /\ l \in Seq(S) /\ z \in Seq(Asked) /\ Len(l) \in Nat /\ Len(z) \in Nat
        /\ e \in S /\ x \in Asked /\ e.write = r /\ e.ok = ok
    BY Types, ProcessTyped, ProcessWhen DEF CInv
  <2>2. /\ Len(z) <= Len(l)
        /\ \A i \in DOMAIN l : l[i].ok =>
                \E j \in 1 .. i : j <= Len(z) /\ z[j] = Content(l[i].write)
    BY <1>2 DEF CInv, Reached
  <2>3. log'[s] = Append(l, e) /\ (ok => succeeded'[s] = Append(z, x))
        /\ (~ok => succeeded'[s] = z)
    BY ProcessHere
  <2>. DEFINE w == succeeded'[s]
  <2>. HIDE DEF S, e, l, z
  <2>4. /\ Len(Append(z, x)) = Len(z) + 1 /\ Append(z, x)[Len(z) + 1] = x
        /\ \A i \in DOMAIN z : Append(z, x)[i] = z[i]
        /\ Len(Append(l, e)) = Len(l) + 1
    <3>. HIDE DEF x
    <3>1. /\ Len(Append(z, x)) = Len(z) + 1 /\ Append(z, x)[Len(z) + 1] = x
          /\ \A i \in DOMAIN z : Append(z, x)[i] = z[i]
      BY <2>1, AppendFacts
    <3>2. Len(Append(l, e)) = Len(l) + 1
      BY <2>1, AppendFacts
    <3>. QED
      BY <3>1, <3>2
  <2>. HIDE DEF x, w
  <2>5. /\ w \in {z, Append(z, x)} /\ (ok => w = Append(z, x))
    BY <2>3 DEF w
  <2>6. Len(z) <= Len(w) /\ Len(w) <= Len(l) + 1 /\ \A i \in DOMAIN z : w[i] = z[i]
    <3>1. CASE w = z
      BY <2>1, <2>2, <3>1
    <3>2. CASE w = Append(z, x)
      <4>. Len(z) <= Len(z) + 1 /\ Len(z) + 1 <= Len(l) + 1
        BY <2>1, <2>2
      <4>. QED
        BY <2>4, <3>2, Zenon
    <3>. QED
      BY <2>5, <3>1, <3>2
  <2>7. ASSUME NEW i \in DOMAIN Append(l, e), Append(l, e)[i].ok
        PROVE  \E j \in 1 .. i : j <= Len(w) /\ w[j] = Content(Append(l, e)[i].write)
    <3>1. \/ (i \in DOMAIN l /\ Append(l, e)[i] = l[i])
          \/ (i = Len(l) + 1 /\ Append(l, e)[i] = e)
      BY <2>1, AppendCases
    <3>2. CASE i \in DOMAIN l /\ Append(l, e)[i] = l[i]
      <4>1. PICK j \in 1 .. i : j <= Len(z) /\ z[j] = Content(l[i].write)
        BY <2>2, <2>7, <3>2
      <4>2. j \in DOMAIN z /\ j \in Nat
        BY <2>1, <3>2, <4>1
      <4>3. Len(w) \in Nat
        BY <2>1, <2>4, <2>5
      <4>4. j <= Len(w)
        BY <2>1, <2>6, <4>1, <4>2, <4>3
      <4>. QED
        BY <2>6, <3>2, <4>1, <4>2, <4>4
    <3>3. CASE i = Len(l) + 1 /\ Append(l, e)[i] = e
      <4>1. ok /\ w = Append(z, x)
        BY <2>1, <2>5, <2>7, <3>3
      <4>2. Len(z) + 1 \in 1 .. i /\ Len(z) + 1 <= Len(z) + 1
        BY <2>1, <2>2, <3>3
      <4>. QED
        BY <2>1, <2>4, <3>3, <4>1, <4>2, Zenon DEF x
    <3>. QED
      BY <3>1, <3>2, <3>3
  <2>8. /\ Len(w) <= Len(log'[s])
        /\ \A i \in DOMAIN log'[s] : log'[s][i].ok =>
                \E j \in 1 .. i : j <= Len(w) /\ w[j] = Content(log'[s][i].write)
    BY <2>3, <2>4, <2>6, <2>7, Zenon
  <2>. QED
    BY <1>2, <2>8, Zenon DEF Reached, w
<1>. QED
  BY <1>1, <1>2

\* Process: the tree is that of a replay with one more write.
LEMMA ProcessKeepsReplayed ==
    ASSUME CInv, NEW s \in Servers, Process(s)
    PROVE  Replayed'
<1>. DEFINE r == Taken(s)
            ok == Works(s)
            z == succeeded[s]
            x == Content(r)
            t == tree[s]
<1>1. /\ z \in Seq(Asked) /\ x \in Asked /\ Len(z) \in Nat /\ t \in Trees /\ r \in Write
      /\ ok = (ResultOf(t, r) = 0)
  BY Types, ProcessTyped, ProcessWhen DEF CInv
<1>2. /\ t = Replay(z).tree
      /\ \A n \in DOMAIN z : ResultOf(Replay(SubSeq(z, 1, n - 1)).tree, z[n]) = 0
  BY DEF CInv, Replayed
<1>3. /\ tree'[s] = Apply(t, r)
      /\ ok => succeeded'[s] = Append(z, x)
      /\ ~ok => succeeded'[s] = z
  BY ProcessHere
<1>4. /\ tree'[s] = Replay(succeeded'[s]).tree
      /\ \A n \in DOMAIN succeeded'[s] :
            ResultOf(Replay(SubSeq(succeeded'[s], 1, n - 1)).tree, succeeded'[s][n]) = 0
  <2>1. CASE ~ok
    <3>1. Apply(t, r) = t
      BY <1>1, <2>1, FailureChangesNothing
    <3>2. tree'[s] = t /\ succeeded'[s] = z
      BY <1>3, <2>1, <3>1
    <3>. HIDE DEF t, z
    <3>. QED
      BY <1>2, <3>2
  <2>2. CASE ok
    <3>1. ResultOf(t, x) = 0 /\ Apply(t, r) = Apply(t, x)
      BY <1>1, <2>2, ContentCounts
    <3>. HIDE DEF x, z, t
    <3>2. Replay(Append(z, x)).tree = Apply(t, x)
      BY <1>1, <1>2, ReplayAppend, ExtendFields
    <3>3. ASSUME NEW n \in DOMAIN Append(z, x)
          PROVE  ResultOf(Replay(SubSeq(Append(z, x), 1, n - 1)).tree, Append(z, x)[n]) = 0
      <4>1. n \in 1 .. Len(z) + 1
        BY <1>1, AppendFacts
      <4>2. SubSeq(Append(z, x), 1, n - 1) = SubSeq(z, 1, n - 1)
        BY <1>1, <4>1, StartsKept
      <4>3. \/ (n \in DOMAIN z /\ Append(z, x)[n] = z[n])
            \/ (n = Len(z) + 1 /\ Append(z, x)[n] = x)
        BY <1>1, AppendCases
      <4>4. CASE n \in DOMAIN z /\ Append(z, x)[n] = z[n]
        BY <1>2, <4>2, <4>4
      <4>5. CASE n = Len(z) + 1 /\ Append(z, x)[n] = x
        <5>1. n - 1 = Len(z)
          BY <1>1, <4>5
        <5>2. SubSeq(z, 1, n - 1) = z
          BY <1>1, <5>1, WholeStart
        <5>. QED
          BY <1>2, <3>1, <4>2, <4>5, <5>2
      <4>. QED
        BY <4>3, <4>4, <4>5
    <3>4. tree'[s] = Apply(t, x) /\ succeeded'[s] = Append(z, x)
      BY <1>3, <2>2, <3>1
    <3>. QED
      BY <3>2, <3>3, <3>4, Zenon
  <2>. QED
    BY <2>1, <2>2
<1>5. ASSUME NEW q \in Servers, q # s
      PROVE  tree'[q] = tree[q] /\ succeeded'[q] = succeeded[q]
  BY <1>5, ProcessElsewhere
<1>. QED
  BY <1>4, <1>5 DEF CInv, Replayed

\* Process: all of it.
LEMMA ProcessKeeps ==
    ASSUME CInv, NEW s \in Servers, Process(s)
    PROVE  CInv'
<1>1. TypeOK' /\ Numbering' /\ Origins'
  BY ProcessTyped, ProcessNumbers
<1>2. ClientCalls' /\ WorkerCalls' /\ Serves' /\ AcknowledgedIsSettled'
  BY ProcessCalls
<1>3. Follows' /\ AllSucceed' /\ Reached' /\ Replayed'
  BY ProcessKeepsFollows, ProcessKeepsSuccess, ProcessKeepsReached, ProcessKeepsReplayed
<1>. QED
  BY <1>1, <1>2, <1>3 DEF CInv

-----------------------------------------------------------------------------
\* The invariant and what it implies.

\* The invariant is kept by every step.
LEMMA StepKeeps == CInv /\ [Next]_vars => CInv'
<1>. SUFFICES ASSUME CInv, [Next]_vars PROVE CInv'
  OBVIOUS
<1>1. ASSUME NEW s \in Servers, Network(s) PROVE CInv'
  BY <1>1, QueueAddKeeps, QueueAddReplyKeeps, VerifyKeeps DEF Network
<1>2. ASSUME NEW s \in Servers, Worker(s) PROVE CInv'
  BY <1>2, ProcessKeeps, PropagateKeeps, PropagatedKeeps, FinishKeeps DEF Worker
<1>3. ASSUME NEW c \in Clients, Command(c) PROVE CInv'
  BY <1>3, CommandKeeps
<1>4. ASSUME NEW c \in Clients, Waits(c) PROVE CInv'
  BY <1>4, TakeIdKeeps, AskVerifyKeeps, DoneKeeps, RedoKeeps DEF Waits
<1>5. CASE UNCHANGED vars
  <2>1. UNCHANGED server /\ UNCHANGED client /\ call' = call
    BY <1>5 DEF vars
  <2>2. TypeOK'
    BY <2>1 DEF CInv, TypeOK, server, client, past
  <2>3. \A n : Settled(n) => Settled(n)'
    BY <2>1 DEF Settled, server, past
  <2>4. ClientCalls' /\ AcknowledgedIsSettled'
    BY <2>1, <2>3, ClientsKept, AcksKept DEF client
  <2>5. /\ tree' = tree /\ queue' = queue /\ last_assigned' = last_assigned
        /\ max_proc' = max_proc /\ wpc' = wpc /\ request' = request /\ serving' = serving
        /\ log' = log /\ succeeded' = succeeded
    BY <2>1 DEF server, past
  <2>6. Numbering' /\ Origins'
    BY <2>5 DEF CInv, Numbering, Origins
  <2>7. WorkerCalls' /\ Serves'
    BY <2>1, <2>5 DEF CInv, WorkerCalls, WorkerCall, Serves, Asks
  <2>8. Follows'
    BY <2>1, <2>5 DEF CInv, Follows, Behind
  <2>9. AllSucceed' /\ Reached' /\ Replayed'
    BY <2>5, PastKept DEF past
  <2>. QED
    BY <2>2, <2>4, <2>6, <2>7, <2>8, <2>9 DEF CInv
<1>. QED
  BY <1>1, <1>2, <1>3, <1>4, <1>5 DEF Next

\* The invariant holds in every state of a chain.
THEOREM Invariance == Spec => []CInv
<1>. QED
  BY InitInv, StepKeeps, PTL DEF Spec

\* The elements of a sequence, and the function one more element makes of it.
LEMMA Elements == \A S : \A q \in Seq(S) : \A i \in DOMAIN q : q[i] \in S
OBVIOUS

\* A sequence one element longer, as a function on its positions.
LEMMA AppendIsFunction ==
    ASSUME NEW S, NEW q \in Seq(S), NEW x \in S
    PROVE  Append(q, x) = [i \in 1 .. Len(q) + 1 |-> Append(q, x)[i]]
<1>. DEFINE a == Append(q, x)
<1>1. a \in Seq(S) /\ Len(a) = Len(q) + 1
  OBVIOUS
<1>. HIDE DEF a
<1>2. a = [i \in 1 .. Len(a) |-> a[i]]
  BY <1>1
<1>. QED
  BY <1>1, <1>2, Zenon DEF a

\* A function on 1 .. n is a sequence of n elements.
LEMMA Enumerated ==
    ASSUME NEW n \in Nat, NEW S, NEW f \in [1 .. n -> S]
    PROVE  f \in Seq(S) /\ Len(f) = n
OBVIOUS

\* The variables keep their types.
THEOREM TypeCorrect == Spec => []TypeOK
<1>1. CInv => TypeOK
  BY DEF CInv
<1>. QED
  BY <1>1, Invariance, PTL

\* What a server has been given are the writes that succeeded at the one before it, in
\* order and once each, all of them but at most the one the worker there is handing on
\* (process_request, propagate_request, queue_add).
THEOREM SuccessorCorrect == Spec => []SuccessorFollows
<1>1. ASSUME CInv PROVE SuccessorFollows
  <2>. SUFFICES ASSUME NEW s \in Servers \ {TailServer}
       PROVE  /\ IsPrefix(Given(s + 1), succeeded[s])
              /\ Len(Given(s + 1)) >= Len(succeeded[s])
                        - (IF wpc[s] \in {"propagate", "await"} THEN 1 ELSE 0)
    BY DEF SuccessorFollows
  <2>. DEFINE l == log[s + 1]
              q == queue[s + 1]
              z == succeeded[s]
              ran == Ran(s + 1)
              waiting == Contents(q)
              given == ran \o waiting
  <2>1. /\ l \in Seq([write : Write, ok : BOOLEAN]) /\ q \in Seq(Write) /\ z \in Seq(Asked)
        /\ Len(l) \in Nat /\ Len(q) \in Nat /\ Len(z) \in Nat
    <3>. s + 1 \in Servers
      BY Names
    <3>. QED
      BY <1>1, Types DEF CInv
  <2>2. /\ Len(l) + Len(q) = Len(z) - (IF Behind(s) THEN 1 ELSE 0)
        /\ \A i \in DOMAIN l : Content(l[i].write) = z[i]
        /\ \A i \in DOMAIN q : Content(q[i]) = z[Len(l) + i]
    BY <1>1, Zenon DEF CInv, Follows
  <2>3. ran = [i \in DOMAIN l |-> Content(l[i].write)]
        /\ waiting = [i \in DOMAIN q |-> Content(q[i])]
    BY DEF Ran, Contents
  <2>4. Behind(s) => wpc[s] \in {"propagate", "await"}
    BY DEF Behind
  <2>. HIDE DEF l, q, ran, waiting
  <2>5. /\ \A i \in 1 .. Len(l) : Content(l[i].write) \in Asked
        /\ \A i \in 1 .. Len(q) : Content(q[i]) \in Asked
        /\ DOMAIN l = 1 .. Len(l) /\ DOMAIN q = 1 .. Len(q)
    <3>1. DOMAIN l = 1 .. Len(l) /\ DOMAIN q = 1 .. Len(q)
      BY <2>1, Length
    <3>2. \A i \in DOMAIN l : l[i] \in [write : Write, ok : BOOLEAN]
      BY <2>1, Elements, Zenon
    <3>3. \A i \in DOMAIN l : l[i].write \in Write
      BY <3>2
    <3>4. \A i \in DOMAIN q : q[i] \in Write
      BY <2>1
    <3>. QED
      BY <3>1, <3>3, <3>4, Fields
  <2>6. /\ ran \in Seq(Asked) /\ Len(ran) = Len(l)
        /\ \A i \in 1 .. Len(l) : ran[i] = z[i]
    <3>1. ran \in [1 .. Len(l) -> Asked]
      BY <2>3, <2>5
    <3>2. \A i \in 1 .. Len(l) : ran[i] = z[i]
      BY <2>2, <2>3, <2>5
    <3>. QED
      BY <2>1, <3>1, <3>2, Enumerated
  <2>7. /\ waiting \in Seq(Asked) /\ Len(waiting) = Len(q)
        /\ \A i \in 1 .. Len(q) : waiting[i] = z[Len(l) + i]
    <3>1. waiting \in [1 .. Len(q) -> Asked]
      BY <2>3, <2>5
    <3>2. \A i \in 1 .. Len(q) : waiting[i] = z[Len(l) + i]
      BY <2>2, <2>3, <2>5
    <3>. QED
      BY <2>1, <3>1, <3>2, Enumerated
  <2>8. given \in Seq(Asked) /\ Len(given) = Len(l) + Len(q)
    <3>. \A x, y \in Seq(Asked) : x \o y \in Seq(Asked) /\ Len(x \o y) = Len(x) + Len(y)
      OBVIOUS
    <3>. QED
      BY <2>6, <2>7, Zenon
  <2>9. ASSUME NEW i \in 1 .. Len(given) PROVE given[i] = z[i]
    <3>1. CASE i <= Len(l)
      BY <2>1, <2>6, <2>7, <3>1
    <3>2. CASE i > Len(l)
      <4>1. i - Len(l) \in 1 .. Len(q) /\ Len(l) + (i - Len(l)) = i
        BY <2>1, <2>8, <3>2
      <4>2. given[i] = waiting[i - Len(l)]
        BY <2>1, <2>6, <2>7, <2>8, <3>2
      <4>. QED
        BY <2>7, <4>1, <4>2
    <3>. QED
      BY <2>1, <3>1, <3>2
  <2>. HIDE DEF given
  <2>10. Len(given) <= Len(z)
         /\ Len(given) >= Len(z) - (IF wpc[s] \in {"propagate", "await"} THEN 1 ELSE 0)
    <3>. DEFINE b == IF Behind(s) THEN 1 ELSE 0
                w == IF wpc[s] \in {"propagate", "await"} THEN 1 ELSE 0
    <3>1. b \in {0, 1} /\ w \in {0, 1} /\ b <= w
      BY <2>4
    <3>2. Len(given) = Len(z) - b
      BY <2>2, <2>8, Zenon
    <3>. HIDE DEF b, w
    <3>3. Len(given) <= Len(z) /\ Len(given) >= Len(z) - w
      BY <2>1, <3>1, <3>2
    <3>. QED
      BY <3>3 DEF w
  <2>11. SubSeq(z, 1, Len(given)) = given
    <3>. HIDE DEF z
    <3>. QED
      BY <2>1, <2>8, <2>9, <2>10, StartOf
  <2>12. SubSeq(given, 1, Len(given)) = given
    BY <2>8, WholeStart
  <2>13. Given(s + 1) = given
    BY DEF Given, given, ran, waiting, q
  <2>. QED
    BY <2>10, <2>11, <2>12, <2>13 DEF IsPrefix
<1>. QED
  BY <1>1, Invariance, PTL

\* Every write a server after the head runs succeeds there (process_request).
THEOREM DivergenceFree == Spec => []NoDivergence
<1>1. CInv => NoDivergence
  BY DEF CInv, AllSucceed, NoDivergence
<1>. QED
  BY <1>1, Invariance, PTL

\* At rest the next server has succeeded in what this one has, and their trees are equal.
LEMMA NeighboursAgree ==
    ASSUME CInv, Quiet, NEW s \in Servers \ {TailServer}
    PROVE  tree[s + 1] = tree[s]
<1>1. s + 1 \in Servers \ {HeadServer}
  BY Names
<1> DEFINE y == succeeded[s]
           z == succeeded[s + 1]
<1>2. queue[s + 1] = <<>> /\ wpc[s] = "lock"
  BY <1>1 DEF Quiet
<1>3. y \in Seq(Asked) /\ z \in Seq(Asked) /\ Len(y) \in Nat
      /\ log[s + 1] \in Seq([write : Write, ok : BOOLEAN]) /\ Len(log[s + 1]) \in Nat
  BY <1>1, Types DEF CInv
<1>4. DOMAIN log[s + 1] = 1 .. Len(log[s + 1])
  BY <1>3, Length
<1>5. Len(log[s + 1]) = Len(y)
  <2>1. Len(log[s + 1]) + Len(queue[s + 1]) = Len(y) - (IF Behind(s) THEN 1 ELSE 0)
    BY DEF CInv, Follows
  <2>2. ~Behind(s)
    BY <1>2 DEF Behind
  <2>. QED
    BY <1>2, <1>3, <2>1, <2>2
<1>6. \A i \in 1 .. Len(y) : Content(log[s + 1][i].write) = y[i]
  BY <1>4, <1>5 DEF CInv, Follows
<1>7. Len(z) = Len(y) /\ \A i \in 1 .. Len(y) : Content(log[s + 1][i].write) = z[i]
  BY <1>1, <1>4, <1>5 DEF CInv, AllSucceed
<1>8. tree[s] = Replay(y).tree /\ tree[s + 1] = Replay(z).tree
  BY <1>1 DEF CInv, Replayed
<1> HIDE DEF y, z
<1>9. y = z
  BY <1>3, <1>6, <1>7
<1>. QED
  BY <1>8, <1>9

\* When no write is under way all servers hold the same tree: what clients read at the tail
\* is what they have written at the head (process_request, propagate_request).
THEOREM AgreeAtRest == Spec => [](Quiet => \A s \in Servers : tree[s] = tree[HeadServer])
<1>1. ASSUME CInv, Quiet
      PROVE  \A s \in Servers : tree[s] = tree[HeadServer]
  <2> DEFINE Agreed == {n \in Nat : n + 1 \in Servers => tree[n + 1] = tree[HeadServer]}
  <2>1. 0 \in Agreed
    BY DEF HeadServer
  <2>2. ASSUME NEW n \in Nat, n \in Agreed
        PROVE  n + 1 \in Agreed
    <3> SUFFICES ASSUME n + 2 \in Servers
                 PROVE  tree[n + 2] = tree[HeadServer]
      OBVIOUS
    <3>1. n + 1 \in Servers \ {TailServer} /\ n + 2 = (n + 1) + 1
      BY ChainAssumption DEF Servers, TailServer
    <3>2. tree[(n + 1) + 1] = tree[n + 1]
      BY <1>1, <3>1, NeighboursAgree
    <3>. QED
      BY <2>2, <3>1, <3>2
  <2>3. \A n \in Nat : n \in Agreed
    <3> HIDE DEF Agreed
    <3>. QED
      BY <2>1, <2>2, Induction
  <2>4. ASSUME NEW s \in Servers
        PROVE  tree[s] = tree[HeadServer]
    <3>1. s - 1 \in Nat /\ (s - 1) + 1 = s
      BY ChainAssumption DEF Servers
    <3>2. s - 1 \in Agreed
      BY <2>3, <3>1
    <3>. QED
      BY <3>1, <3>2
  <2>. QED
    BY <2>4
<1>. QED
  BY <1>1, Invariance, PTL

\* An id of the head that verify at the tail calls done has been run at the tail, or
\* failed (verify, rtree_verify).
THEOREM VerifyCorrect == Spec => []VerifiedIsSettled
<1>. QED
  BY DoneIsSettled, Invariance, PTL

\* A write whose rtree_put or rtree_del has returned with the id that was its own has
\* been run at the tail, or failed (rtree_put, rtree_del, queue_add).
THEOREM AcknowledgedCorrect == Spec => []AcknowledgedIsSettled
<1>1. CInv => AcknowledgedIsSettled
  BY DEF CInv
<1>. QED
  BY <1>1, Invariance, PTL

-----------------------------------------------------------------------------
\* The chain is one log of writes.

\* Numbering one more write is appending it with the next number.
LEMMA NumberedAppend ==
    ASSUME NEW z \in Seq(Asked), NEW x \in Asked
    PROVE  Numbered(Append(z, x)) =
                Append(Numbered(z), [op_n |-> Len(Numbered(z)) + 1, op |-> x.op,
                                     key |-> x.key, data |-> x.data])
<1>. DEFINE y == [op_n |-> Len(z) + 1, op |-> x.op, key |-> x.key, data |-> x.data]
            a == Numbered(Append(z, x))
            b == Append(Numbered(z), y)
            W == [op_n : Nat, op : {0, 1}, key : Keys, data : Values \union {NoValue}]
<1>1. Len(z) \in Nat /\ DOMAIN z = 1 .. Len(z) /\ DOMAIN Append(z, x) = 1 .. Len(z) + 1
      /\ Append(z, x)[Len(z) + 1] = x /\ \A i \in 1 .. Len(z) : Append(z, x)[i] = z[i]
  OBVIOUS
<1>2. y \in W /\ \A i \in 1 .. Len(z) : z[i] \in Asked
  BY <1>1, Fields
<1>3. Numbered(z) \in Seq(W) /\ Len(Numbered(z)) = Len(z)
      /\ \A i \in 1 .. Len(z) : Numbered(z)[i] = [op_n |-> i, op |-> z[i].op, key |-> z[i].key,
                                                  data |-> z[i].data]
  <2>1. \A i \in 1 .. Len(z) : [op_n |-> i, op |-> z[i].op, key |-> z[i].key,
                                data |-> z[i].data] \in W
    BY <1>2, Fields
  <2>. HIDE DEF W
  <2>. QED
    BY <1>1, <2>1 DEF Numbered
<1>. HIDE DEF W
<1>4. a = [i \in 1 .. Len(z) + 1 |-> [op_n |-> i, op |-> Append(z, x)[i].op,
                                      key |-> Append(z, x)[i].key,
                                      data |-> Append(z, x)[i].data]]
  BY <1>1 DEF Numbered
<1>5. b = [i \in 1 .. Len(z) + 1 |-> b[i]] /\ b[Len(z) + 1] = y
      /\ \A i \in 1 .. Len(z) : b[i] = Numbered(z)[i]
  <2>. DEFINE v == Numbered(z)
  <2>. HIDE DEF y, v
  <2>1. v \in Seq(W) /\ Len(v) = Len(z) /\ y \in W
    BY <1>2, <1>3 DEF v
  <2>2. /\ Append(v, y) = [i \in 1 .. Len(v) + 1 |-> Append(v, y)[i]]
        /\ Append(v, y)[Len(v) + 1] = y
        /\ \A i \in 1 .. Len(v) : Append(v, y)[i] = v[i]
    <3>1. Append(v, y) = [i \in 1 .. Len(v) + 1 |-> Append(v, y)[i]]
      BY <2>1, AppendIsFunction
    <3>2. Append(v, y)[Len(v) + 1] = y
          /\ \A i \in 1 .. Len(v) : Append(v, y)[i] = v[i]
      BY <2>1, AppendFacts
    <3>. QED
      BY <3>1, <3>2, Zenon
  <2>. QED
    BY <2>1, <2>2, Zenon DEF v
<1>6. ASSUME NEW i \in 1 .. Len(z) + 1 PROVE a[i] = b[i]
  <2>1. a[i] = [op_n |-> i, op |-> Append(z, x)[i].op, key |-> Append(z, x)[i].key,
                data |-> Append(z, x)[i].data]
    BY <1>4
  <2>. HIDE DEF a, b
  <2>2. CASE i \in 1 .. Len(z)
    BY <1>1, <1>3, <1>5, <2>1, <2>2, Zenon
  <2>3. CASE i = Len(z) + 1
    BY <1>1, <1>5, <2>1, <2>3, Zenon
  <2>. QED
    BY <1>1, <2>2, <2>3
<1>7. a = b
  <2>1. a = [i \in 1 .. Len(z) + 1 |-> a[i]]
    BY <1>4
  <2>. HIDE DEF a, b
  <2>. QED
    BY <1>5, <1>6, <2>1
<1>. QED
  BY <1>3, <1>7

\* A write that succeeds at the head is accepted, any other write the head runs changes
\* nothing, and the tail runs the next of those accepted (process_request).
LEMMA ProcessRefines ==
    ASSUME CInv, NEW s \in Servers, Process(s)
    PROVE  [WL!WNext]_(WL!wvars)
<1>. DEFINE r == Taken(s)
            ok == Works(s)
            z == succeeded[HeadServer]
            x == Content(r)
            d == Len(succeeded[TailServer])
<1>1. /\ z \in Seq(Asked) /\ x \in Asked /\ d \in Nat /\ Len(z) \in Nat
      /\ HeadServer \in Servers /\ TailServer \in Servers /\ HeadServer # TailServer
  BY Names, Types, ProcessTyped DEF CInv
<1>2. CASE s = HeadServer
  <2>1. tree'[TailServer] = tree[TailServer] /\ succeeded'[TailServer] = succeeded[TailServer]
    BY <1>1, <1>2, ProcessElsewhere
  <2>2. CASE ok
    <3>1. succeeded'[HeadServer] = Append(z, x)
      BY <1>2, <2>2, ProcessHere
    <3>. HIDE DEF x, z
    <3>2. Numbered(succeeded'[HeadServer])
            = Append(Numbered(z), [op_n |-> Len(Numbered(z)) + 1, op |-> x.op,
                                   key |-> x.key, data |-> x.data])
      BY <1>1, <3>1, NumberedAppend, Zenon
    <3>3. x.op \in {0, 1} /\ x.key \in Keys /\ x.data \in Values \union {NoValue}
      BY <1>1, Fields
    <3>4. WL!Accept
      BY <2>1, <3>2, <3>3 DEF WL!Accept, z
    <3>. QED
      BY <3>4 DEF WL!WNext
  <2>3. CASE ~ok
    <3>. succeeded'[HeadServer] = z
      BY <1>2, <2>3, ProcessHere
    <3>. QED
      BY <2>1 DEF WL!wvars
  <2>. QED
    BY <2>2, <2>3
<1>3. CASE s = TailServer
  <2>1. succeeded'[HeadServer] = z
    BY <1>1, <1>3, ProcessElsewhere
  <2>2. /\ ok = (ResultOf(tree[s], r) = 0) /\ r = Head(queue[s]) /\ queue[s] # <<>>
        /\ s # HeadServer
    BY <1>1, <1>3, ProcessWhen
  <2>3. /\ ok /\ Len(log[s]) + 1 <= Len(z) /\ z[Len(log[s]) + 1] = x
    <3>. LET w == Head(queue[s])
             m == Len(log[s]) + 1
         IN  /\ ResultOf(tree[s], w) = 0
             /\ m <= Len(succeeded[HeadServer]) /\ succeeded[HeadServer][m] = Content(w)
      BY <2>2, NextSucceeds
    <3>. QED
      BY <2>2
  <2>4. Len(log[s]) = d
    BY <1>1, <1>3 DEF CInv, AllSucceed
  <2>5. succeeded[s] \in Seq(Asked)
    BY Types DEF CInv
  <2>6. tree'[s] = Apply(tree[s], r) /\ succeeded'[s] = Append(succeeded[s], x)
    BY <2>3, ProcessHere
  <2>. HIDE DEF x, z
  <2>7. Len(Append(succeeded[s], x)) = Len(succeeded[s]) + 1
    BY <1>1, <2>5, AppendFacts
  <2>8. Len(succeeded'[TailServer]) = d + 1
    BY <1>3, <2>6, <2>7, Zenon
  <2>9. DOMAIN z = 1 .. Len(z)
    BY <1>1, Length
  <2>. HIDE DEF d
  <2>10. d < Len(z) /\ d + 1 \in DOMAIN z /\ z[d + 1] = x
    BY <1>1, <2>3, <2>4, <2>9
  <2>11. Numbered(z)[d + 1] = [op_n |-> d + 1, op |-> x.op, key |-> x.key, data |-> x.data]
         /\ Len(Numbered(z)) = Len(z)
    BY <1>1, <2>9, <2>10 DEF Numbered
  <2>12. Apply(tree[s], Numbered(z)[d + 1]) = Apply(tree[s], x)
    BY <2>11 DEF Apply
  <2>13. Apply(tree[s], x) = Apply(tree[s], r)
    BY ContentCounts DEF x
  <2>14. tree'[TailServer] = Apply(tree[TailServer], Numbered(z)[d + 1])
    BY <1>3, <2>6, <2>12, <2>13, Zenon
  <2>15. tree'[TailServer] = WL!Apply(tree[TailServer], Numbered(z)[d + 1])
    BY <2>14 DEF Apply, tree_put, tree_del, WL!Apply, WL!tree_put, WL!tree_del
  <2>16. d < Len(Numbered(z)) /\ Numbered(succeeded'[HeadServer]) = Numbered(z)
    BY <2>1, <2>10, <2>11
  <2>17. WL!Run
    BY <2>8, <2>15, <2>16, Zenon DEF WL!Run, z, d
  <2>. QED
    BY <2>17 DEF WL!WNext
<1>4. CASE s # HeadServer /\ s # TailServer
  <2>. /\ succeeded'[HeadServer] = succeeded[HeadServer]
       /\ succeeded'[TailServer] = succeeded[TailServer]
       /\ tree'[TailServer] = tree[TailServer]
    BY <1>1, <1>4, ProcessElsewhere
  <2>. QED
    BY DEF WL!wvars
<1>. QED
  BY <1>2, <1>3, <1>4

\* The initial chain is an empty log, and every step accepts a write, runs the next, or
\* changes neither the log nor the tail's tree.
LEMMA InitRefines == Init => WL!WInit
<1>. SUFFICES ASSUME Init PROVE WL!WInit
  OBVIOUS
<1>1. succeeded[HeadServer] = <<>> /\ succeeded[TailServer] = <<>>
      /\ tree[TailServer] = tree_create
  BY Names DEF Init
<1>2. Numbered(<<>>) = <<>>
  BY DEF Numbered
<1>. QED
  BY <1>1, <1>2 DEF WL!WInit, WL!tree_create, tree_create

\* Every step of the chain is a step of the log, or leaves it as it is.
LEMMA StepRefines == CInv /\ [Next]_vars => [WL!WNext]_(WL!wvars)
<1>. SUFFICES ASSUME CInv, [Next]_vars PROVE [WL!WNext]_(WL!wvars)
  OBVIOUS
<1>1. UNCHANGED <<tree, past>> => [WL!WNext]_(WL!wvars)
  BY DEF past, WL!wvars
<1>2. ASSUME NEW s \in Servers, Process(s) PROVE [WL!WNext]_(WL!wvars)
  BY <1>2, ProcessRefines
<1>3. ASSUME NEW s \in Servers, Network(s) PROVE UNCHANGED <<tree, past>>
  BY <1>3 DEF Network, QueueAdd, QueueAddReply, Verify, server
<1>4. ASSUME NEW s \in Servers, Propagate(s) \/ Propagated(s) \/ Finish(s)
      PROVE  UNCHANGED <<tree, past>>
  BY <1>4 DEF Propagate, Propagated, Finish
<1>5. ASSUME NEW c \in Clients, Command(c) \/ Waits(c) PROVE UNCHANGED <<tree, past>>
  BY <1>5 DEF Command, Waits, TakeId, AskVerify, Done, Redo, server
<1>6. CASE UNCHANGED vars
  BY <1>1, <1>6 DEF vars, server
<1>. QED
  BY <1>1, <1>2, <1>3, <1>4, <1>5, <1>6 DEF Next, Worker

\* The chain is one log of writes to its clients: those that succeed at the head are run
\* on the tail's tree, where reads go, in their order and once each (process_request,
\* propagate_request, network_send_receive).
THEOREM LogRefinement == Spec => ImplementsLogInOrder
<1>. QED
  BY InitRefines, StepRefines, Invariance, PTL DEF Spec, ImplementsLogInOrder, WL!WSafety
=============================================================================
