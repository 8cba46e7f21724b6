------------------------- MODULE AgentMessagingProofs -------------------------
(***************************************************************************)
(* Theorems about the whole message path, for any numbers of messages,     *)
(* recipients, engines, workers and requests, and any number of failures,  *)
(* shutdowns and crashes.                                                  *)
(***************************************************************************)
EXTENDS AgentMessaging, DeadLetterQueueProofs, FiniteSetTheorems, WellFoundedInduction

-----------------------------------------------------------------------------
(***************************************************************************)
(* The inductive invariant: that of the dead-letter queue, what a worker   *)
(* knows about the message it has in hand, the custody of every message    *)
(* together with the progress of its Send, and what a gateway knows        *)
(* between the two statements of an acknowledgement.                       *)
(***************************************************************************)

WorkerOK(w) ==
  LET m == worker[w].msg IN
  /\ worker[w].pc = "publish" =>
       /\ worker[w].next \in Targets(m)
       /\ \A j \in Targets(m) : j < worker[w].next => published[m][j] > 0
  /\ worker[w].pc = "mark_sent" => Reached(m)

\* The row comes first, and only a Send that is over has let the message go.
SendOrder ==
  \A m \in Messages :
    /\ sends[m] = "push" => status[m] # "none"
    /\ (Queued(m) \/ Held(m) \/ EntriesOf(m) # {}) =>
         sends[m] \in {"accepted", "rejected"}

Custody == ExclusiveCustody /\ OneDeadLetter /\ RowBeforeUse /\ SendOrder

\* Before its UPDATE the handler's acknowledgement is in the table.
AckOK ==
  /\ \A h \in Handlers :
       /\ handler[h].pc = "update" => ackRow[handler[h].nonce] = handler[h].row
       /\ handler[h].pc \in {"insert", "update"} =>
            HasRecipient(handler[h].row.msg, handler[h].row.agent)
  /\ \A n \in Nonces : ackRow[n] # NoAck =>
       HasRecipient(ackRow[n].msg, ackRow[n].agent)
  /\ StatusBackedByAck

PathInv ==
  /\ DLQInv
  /\ TypeOK
  /\ \A w \in Workers : WorkerOK(w)
  /\ Custody
  /\ AckOK

-----------------------------------------------------------------------------
(* Types and frames.                                                        *)

LEMMA PathTypes ==
  ASSUME PathInv
  PROVE  /\ status \in [Messages -> MessageStatus \cup {"none"}]
         /\ queue \in Seq(Messages)
         /\ entries \in Seq(Entry)
         /\ PublishedTypeOK
         /\ faults \in 0 .. MaxFaults
         /\ DLQTypeOK
         /\ worker \in [Workers -> Worker]
         /\ \A w \in Workers : EngineOf[w] \in Engines
         /\ sends \in [Messages -> SendPC]
         /\ handler \in [Handlers -> Handler]
         /\ ackRow \in [Nonces -> Ack \cup {NoAck}]
BY StoreTypes, WorkersAssumption
  DEF PathInv, TypeOK, EngineTypeOK, WorkerTypeOK, ServiceTypeOK, DLQTypeOK

\* The state components that a step may change, back to the type invariant.
LEMMA TypeFrame ==
  ASSUME DLQTypeOK', WorkerTypeOK',
         sends' \in [Messages -> SendPC],
         handler' \in [Handlers -> Handler],
         ackRow' \in [Nonces -> Ack \cup {NoAck}]
  PROVE  TypeOK'
BY DEF TypeOK, EngineTypeOK, ServiceTypeOK, DLQTypeOK

LEMMA BusyWorker ==
  ASSUME PathInv, NEW w \in Workers, worker[w].pc \notin {"idle", "returned"}
  PROVE  w \in Busy /\ worker[w].msg \in Messages
BY DEF PathInv, TypeOK, EngineTypeOK, WorkerTypeOK, Busy

\* What a worker knows stays true while others publish.
LEMMA WorkerFrame ==
  ASSUME PathInv, NEW v \in Workers, worker'[v] = worker[v],
         \A x \in Messages : \A j \in Targets(x) :
           published[x][j] > 0 => published'[x][j] > 0
  PROVE  WorkerOK(v)'
<1>1. WorkerOK(v)
  BY DEF PathInv
<1>2. worker[v].pc \in {"publish", "mark_sent"} => worker[v].msg \in Messages
  BY BusyWorker
<1>3. QED
  BY <1>1, <1>2, ReachedStable DEF WorkerOK, Reached, Targets

\* Custody is not disturbed by a step that moves no message: the list and the
\* messages of the entries stay, rows stay, a worker may only let go of what
\* it has, and a Send that is over stays over.
LEMMA CustodyFrame ==
  ASSUME Custody,
         queue' = queue,
         DOMAIN entries' = DOMAIN entries,
         \A id \in DOMAIN entries : entries'[id].msg = entries[id].msg,
         \A x \in Messages : status[x] # "none" => status'[x] # "none",
         \A v \in Workers : v \in Busy' =>
           /\ v \in Busy /\ worker'[v].msg = worker[v].msg
           /\ worker'[v].pc # "mark_failed" => worker[v].pc # "mark_failed",
         \A x \in Messages :
           /\ sends[x] \in {"accepted", "rejected"} => sends'[x] = sends[x]
           /\ sends'[x] = "push" => status'[x] # "none"
  PROVE  Custody'
<1>1. \A x : /\ Queued(x)' <=> Queued(x)
             /\ EntriesOf(x)' = EntriesOf(x)
             /\ Held(x)' => Held(x)
  BY DEF Queued, EntriesOf, Held, Busy
<1>2. \A v \in Busy' : v \in Workers
  BY DEF Busy
<1>3. ExclusiveCustody'
  BY <1>1, <1>2 DEF Custody, ExclusiveCustody, Queued
<1>4. OneDeadLetter'
  BY <1>1, <1>2 DEF Custody, OneDeadLetter, Queued, EntriesOf
<1>5. RowBeforeUse'
  BY <1>1 DEF Custody, RowBeforeUse
<1>6. SendOrder'
  BY <1>1 DEF Custody, SendOrder
<1>7. QED
  BY <1>3, <1>4, <1>5, <1>6 DEF Custody

\* No engine touches the acknowledgements, nor writes the statuses they give.
LEMMA AckFrame ==
  ASSUME AckOK, UNCHANGED <<handler, ackRow>>,
         \A x \in Messages : status'[x] \in {"delivered", "processed"} =>
                               status'[x] = status[x]
  PROVE  AckOK'
BY DEF AckOK, StatusBackedByAck, HasRecipient, Targets

-----------------------------------------------------------------------------
(* The steps of a worker.                                                   *)

\* A step of a worker that goes on with the message it has, or lets it go,
\* without touching the list and the entries.
LEMMA WorkerStepFrame ==
  ASSUME PathInv, NEW w \in Workers, NEW r \in Worker,
         worker' = [worker EXCEPT ![w] = r],
         r.pc \notin {"idle", "returned"} =>
           /\ w \in Busy /\ r.msg = worker[w].msg
           /\ r.pc # "mark_failed" => worker[w].pc # "mark_failed",
         r.pc \in {"idle", "returned"} => r.msg = NoMessage,
         UNCHANGED <<queue, entries, phase, loop, interruptions, serviceVars>>,
         faults' \in 0 .. MaxFaults,
         PublishedTypeOK',
         \A x \in Messages : \A j \in Targets(x) :
           published[x][j] > 0 => published'[x][j] > 0,
         status' \in [Messages -> MessageStatus \cup {"none"}],
         \A x \in Messages :
           /\ status[x] # "none" => status'[x] # "none"
           /\ sends[x] # "push" \/ status'[x] = status[x] \/ status'[x] # "none"
           /\ status'[x] \in {"delivered", "processed"} => status'[x] = status[x]
           /\ status'[x] = "sent" => status[x] = "sent" \/ Reached(x),
         r.pc = "publish" =>
           /\ r.next \in Targets(r.msg)
           /\ \A j \in Targets(r.msg) : j < r.next => published'[r.msg][j] > 0,
         r.pc = "mark_sent" => \A j \in Targets(r.msg) : published'[r.msg][j] > 0
  PROVE  PathInv'
<1>1. worker'[w] = r /\ \A v \in Workers : v # w => worker'[v] = worker[v]
  BY PathTypes
<1>2. DLQTypeOK'
  <2>1. StoreTypeOK'
    BY PathTypes DEF StoreTypeOK, PublishedTypeOK, Targets
  <2>2. QED
    BY <2>1, PathTypes DEF DLQTypeOK
<1>3. WorkerTypeOK'
  <2>1. worker' \in [Workers -> Worker]
    BY PathTypes
  <2>2. w \in Busy => worker[w].msg \in Messages
    BY BusyWorker DEF Busy
  <2>3. \A v \in Workers : v \in Busy' <=> worker'[v].pc \notin {"idle", "returned"}
    BY DEF Busy
  <2>4. \A v \in Workers : v \in Busy <=> worker[v].pc \notin {"idle", "returned"}
    BY DEF Busy
  <2>5. ASSUME NEW v \in Workers PROVE v \in Busy' <=> worker'[v].msg \in Messages
    <3>1. CASE v = w
      BY <1>1, <2>2, <2>3, <3>1, WorkersAssumption
    <3>2. CASE v # w
      BY <1>1, <2>3, <2>4, <3>2 DEF PathInv, TypeOK, EngineTypeOK, WorkerTypeOK
    <3>3. QED
      BY <3>1, <3>2
  <2>6. QED
    BY <2>1, <2>5 DEF WorkerTypeOK
<1>4. TypeOK'
  BY <1>2, <1>3, TypeFrame, PathTypes DEF serviceVars
<1>5. DLQInv'
  BY <1>2, OtherStepInv DEF PathInv
<1>6. ASSUME NEW v \in Workers PROVE WorkerOK(v)'
  <2>1. CASE v = w
    BY <1>1, <2>1 DEF WorkerOK, Reached, Targets
  <2>2. CASE v # w
    BY <1>1, <2>2, WorkerFrame
  <2>3. QED
    BY <2>1, <2>2
<1>7. Custody'
  <2>1. \A v \in Workers : v \in Busy' =>
           /\ v \in Busy /\ worker'[v].msg = worker[v].msg
           /\ worker'[v].pc # "mark_failed" => worker[v].pc # "mark_failed"
    BY <1>1 DEF Busy
  <2>2. \A x \in Messages :
          /\ sends'[x] = sends[x]
          /\ sends'[x] = "push" => status'[x] # "none"
    BY DEF serviceVars, PathInv, Custody, SendOrder
  <2>3. QED
    BY <2>1, <2>2, CustodyFrame DEF PathInv
<1>8. AckOK'
  BY AckFrame DEF PathInv, serviceVars
<1>9. QED
  BY <1>4, <1>5, <1>6, <1>7, <1>8 DEF PathInv

LEMMA IdleWorker ==
  /\ Idle \in Worker /\ Idle.pc = "idle" /\ Idle.msg = NoMessage
  /\ Gone \in Worker /\ Gone.pc = "returned" /\ Gone.msg = NoMessage
BY DEF Idle, Gone, Worker, WorkerPC

\* Moving a worker to another pc with the message it has.
LEMMA SameMessage ==
  ASSUME PathInv, NEW w \in Workers, NEW p \in WorkerPC
  PROVE  /\ [worker[w] EXCEPT !.pc = p] \in Worker
         /\ [worker[w] EXCEPT !.pc = p].pc = p
         /\ [worker[w] EXCEPT !.pc = p].msg = worker[w].msg
BY PathTypes DEF Worker

LEMMA RouteStep ==
  ASSUME PathInv, NEW w \in Workers, NEW o \in Outcome, Route(w, o),
         UNCHANGED serviceVars
  PROVE  PathInv'
<1> DEFINE m == worker[w].msg
           i == worker[w].next
<1>1. worker[w].pc = "publish" /\ w \in Busy /\ m \in Messages
  BY BusyWorker DEF Route
<1>2. i \in Targets(m) /\ \A j \in Targets(m) : j < i => published[m][j] > 0
  BY <1>1 DEF PathInv, WorkerOK
<1>3. /\ PublishedTypeOK'
      /\ \A x \in Messages : \A j \in Targets(x) :
           published[x][j] > 0 => published'[x][j] > 0
      /\ Took(o) => published'[m][i] > 0
  BY <1>1, <1>2, PublishReaches, PathTypes DEF Route
<1>4. UNCHANGED <<status, queue, entries, phase, loop, interruptions>>
  BY DEF Route
<1>5. faults' \in 0 .. MaxFaults
  BY CallFaults, PathTypes DEF Route
<1>6. /\ status' \in [Messages -> MessageStatus \cup {"none"}]
      /\ \A x \in Messages :
           /\ status[x] # "none" => status'[x] # "none"
           /\ sends[x] # "push" \/ status'[x] = status[x] \/ status'[x] # "none"
           /\ status'[x] \in {"delivered", "processed"} => status'[x] = status[x]
           /\ status'[x] = "sent" => status[x] = "sent" \/ Reached(x)
  BY <1>4, PathTypes
<1>7. Len(Recipients[m]) \in Nat /\ Targets(m) = 1 .. Len(Recipients[m])
  BY <1>1, TargetsFacts
<1>8. CASE o = "ok" /\ i < Len(Recipients[m])
  <2> DEFINE r == [worker[w] EXCEPT !.next = i + 1]
  <2>1. /\ r \in Worker /\ r.pc = "publish" /\ r.next = i + 1 /\ r.msg = m
    <3>1. worker[w] \in Worker /\ i + 1 \in Nat
      BY <1>2, <1>7, PathTypes
    <3> DEFINE k == i + 1
    <3> HIDE DEF k
    <3>2. ASSUME k \in Nat
          PROVE  LET x == [worker[w] EXCEPT !.next = k]
                 IN  x \in Worker /\ x.pc = worker[w].pc /\ x.next = k /\ x.msg = m
      BY <3>1, <3>2 DEF Worker
    <3>3. QED
      BY <1>1, <3>1, <3>2 DEF k
  <2>2. ~ (i >= Len(Recipients[m]))
    BY <1>2, <1>7, <1>8
  <2>3. worker' = [worker EXCEPT ![w].next = i + 1]
    BY <1>8, <2>2 DEF Route
  <2>4. worker' = [worker EXCEPT ![w] = r]
    BY <2>3, PathTypes
  <2>5. /\ r.next \in Targets(m)
        /\ \A j \in Targets(m) : j < r.next => published'[m][j] > 0
    BY <1>2, <1>3, <1>7, <1>8, <2>1, <1>1 DEF Took
  <2> HIDE DEF r
  <2>6. QED
    BY <1>1, <1>3, <1>4, <1>5, <1>6, <2>1, <2>4, <2>5, WorkerStepFrame
<1>9. CASE o = "ok" /\ i >= Len(Recipients[m])
  <2> DEFINE r == [worker[w] EXCEPT !.pc = "mark_sent"]
  <2>1. /\ r \in Worker /\ r.pc = "mark_sent" /\ r.msg = m
    BY SameMessage DEF WorkerPC
  <2>2. worker' = [worker EXCEPT ![w] = r]
    <3>1. ~ (i < Len(Recipients[m]))
      BY <1>2, <1>7, <1>9
    <3>2. worker' = [worker EXCEPT ![w].pc = "mark_sent"]
      BY <1>9, <3>1 DEF Route
    <3>3. QED
      BY <3>2, PathTypes
  <2>3. \A j \in Targets(m) : published'[m][j] > 0
    BY <1>1, <1>2, <1>3, <1>7, <1>9 DEF Took
  <2> HIDE DEF r
  <2>4. QED
    BY <1>1, <1>3, <1>4, <1>5, <1>6, <2>1, <2>2, <2>3, WorkerStepFrame
<1>10. CASE o # "ok"
  <2> DEFINE r == [worker[w] EXCEPT !.pc = "mark_dead"]
  <2>1. /\ r \in Worker /\ r.pc = "mark_dead" /\ r.msg = m
    BY SameMessage DEF WorkerPC
  <2>2. worker' = [worker EXCEPT ![w] = r]
    BY <1>10, PathTypes DEF Route
  <2> HIDE DEF r
  <2>3. QED
    BY <1>1, <1>3, <1>4, <1>5, <1>6, <2>1, <2>2, WorkerStepFrame
<1>11. QED
  BY <1>2, <1>7, <1>8, <1>9, <1>10

\* The three status updates of a worker have the same shape: the status
\* written is "sent" only after the last recipient.
LEMMA WorkerMarkStep ==
  ASSUME PathInv, NEW w \in Workers, NEW o \in Outcome,
         NEW s \in {"sent", "dead_letter", "failed"}, NEW r \in Worker,
         w \in Busy,
         s = "sent" => Reached(worker[w].msg),
         Call(o, Live(EngineOf[w])),
         UpdateMessageStatus(worker[w].msg, s, o),
         worker' = [worker EXCEPT ![w] = r],
         r.pc \in {"idle", "mark_dead", "enqueue"},
         IF r.pc = "idle" THEN r.msg = NoMessage
         ELSE r.msg = worker[w].msg /\ worker[w].pc # "mark_failed",
         UNCHANGED <<queue, entries, published, phase, loop, interruptions, serviceVars>>
  PROVE  PathInv'
<1>1. worker[w].msg \in Messages /\ s \in MessageStatus
  BY BusyWorker DEF Busy, MessageStatus
<1>2. /\ status' \in [Messages -> MessageStatus \cup {"none"}]
      /\ \A x \in Messages : (status[x] # "none") => (status'[x] # "none")
      /\ \A x \in Messages : status'[x] # status[x] => x = worker[w].msg /\ status'[x] = s
  BY <1>1, StatusUpdate, PathTypes
<1>3. faults' \in 0 .. MaxFaults /\ PublishedTypeOK'
  BY CallFaults, PathTypes DEF PublishedTypeOK, Targets
<1>4. \A x \in Messages :
        /\ status[x] # "none" => status'[x] # "none"
        /\ sends[x] # "push" \/ status'[x] = status[x] \/ status'[x] # "none"
        /\ status'[x] \in {"delivered", "processed"} => status'[x] = status[x]
        /\ status'[x] = "sent" => status[x] = "sent" \/ Reached(x)
  BY <1>2
<1>5. QED
  BY <1>2, <1>3, <1>4, WorkerStepFrame

LEMMA MarkSteps ==
  ASSUME PathInv, NEW w \in Workers, NEW o \in Outcome,
         MarkSent(w, o) \/ MarkDead(w, o) \/ MarkFailed(w, o),
         UNCHANGED serviceVars
  PROVE  PathInv'
<1> DEFINE dead == [worker[w] EXCEPT !.pc = "mark_dead"]
           enq == [worker[w] EXCEPT !.pc = "enqueue"]
<1>1. /\ dead \in Worker /\ dead.pc = "mark_dead" /\ dead.msg = worker[w].msg
      /\ enq \in Worker /\ enq.pc = "enqueue" /\ enq.msg = worker[w].msg
  BY SameMessage DEF WorkerPC
<1>2. CASE MarkSent(w, o)
  <2>1. worker[w].pc = "mark_sent" /\ w \in Busy
    BY <1>2, BusyWorker DEF MarkSent
  <2>2. Reached(worker[w].msg)
    BY <2>1 DEF PathInv, WorkerOK
  <2>3. worker' = [worker EXCEPT ![w] = Idle] \/ worker' = [worker EXCEPT ![w] = dead]
    BY <1>2, PathTypes DEF MarkSent
  <2> HIDE DEF dead
  <2>4. QED
    BY <1>1, <1>2, <2>1, <2>2, <2>3, IdleWorker, WorkerMarkStep DEF MarkSent
<1>3. CASE MarkDead(w, o)
  <2>1. worker[w].pc = "mark_dead" /\ w \in Busy
    BY <1>3, BusyWorker DEF MarkDead
  <2>2. worker' = [worker EXCEPT ![w] = enq]
    BY <1>3, PathTypes DEF MarkDead
  <2> HIDE DEF enq
  <2>3. QED
    BY <1>1, <1>3, <2>1, <2>2, WorkerMarkStep DEF MarkDead
<1>4. CASE MarkFailed(w, o)
  <2>1. worker[w].pc = "mark_failed" /\ w \in Busy
    BY <1>4, BusyWorker DEF MarkFailed
  <2>2. QED
    BY <1>4, <2>1, IdleWorker, WorkerMarkStep DEF MarkFailed
<1>5. QED
  BY <1>2, <1>3, <1>4

LEMMA ReturnStep ==
  ASSUME PathInv, NEW w \in Workers, WorkerReturn(w), UNCHANGED serviceVars
  PROVE  PathInv'
<1>1. UNCHANGED <<queue, entries, published, status, faults, phase, loop, interruptions>>
  BY DEF WorkerReturn, dlqVars, storeVars
<1>2. PublishedTypeOK'
  BY <1>1, PathTypes DEF PublishedTypeOK, Targets
<1>3. worker' = [worker EXCEPT ![w] = Gone]
  BY DEF WorkerReturn
<1>4. QED
  BY <1>1, <1>2, <1>3, IdleWorker, PathTypes, WorkerStepFrame

\* A message that is popped goes from the list to one worker, or is lost.
LEMMA PopStep ==
  ASSUME PathInv, NEW w \in Workers, NEW o \in Outcome, Pop(w, o),
         UNCHANGED serviceVars
  PROVE  PathInv'
<1>1. /\ worker[w].pc = "idle" /\ w \notin Busy
      /\ queue \in Seq(Messages) /\ queue # << >> /\ queue' = Tail(queue)
      /\ UNCHANGED <<status, entries, published, phase, loop, interruptions, serviceVars>>
  BY PathTypes DEF Pop, RPop, Busy
<1>0. PICK m \in Messages : m = Head(queue)
  BY <1>1
<1> DEFINE r == [pc |-> "publish", msg |-> m, next |-> 1]
<1>2. /\ queue' \in Seq(Messages)
      /\ 1 \in DOMAIN queue /\ m = queue[1]
      /\ \A i \in DOMAIN queue' :
           /\ i + 1 \in DOMAIN queue /\ i + 1 # 1
           /\ queue'[i] = queue[i + 1]
      /\ \A i, j \in DOMAIN queue' : i + 1 = j + 1 => i = j
  BY <1>0, <1>1
<1>3. Queued(m) /\ ~ Queued(m)' /\ \A x : Queued(x)' => Queued(x)
  <2>1. \A i \in DOMAIN queue : queue[i] = queue[1] => i = 1
    BY <1>2 DEF PathInv, Custody, ExclusiveCustody
  <2>2. QED
    BY <1>2, <2>1 DEF Queued
<1>4. r \in Worker /\ r.pc = "publish" /\ r.next = 1 /\ r.msg = m
  BY DEF Worker, WorkerPC
<1>5. 1 \in Targets(m) /\ \A j \in Targets(m) : ~ (j < 1)
  BY <1>2, TargetsFacts
<1> HIDE DEF r
<1>6. /\ worker' \in [Workers -> Worker]
      /\ \A v \in Workers : v # w => worker'[v] = worker[v]
      /\ worker'[w] = r \/ worker'[w] = worker[w]
  <2>1. worker' = [worker EXCEPT ![w] = r] \/ worker' = worker
    BY <1>0 DEF Pop, RPop, Took, r
  <2>2. QED
    BY <1>4, <2>1, PathTypes
<1>7. \A v \in Workers :
        /\ v # w => (v \in Busy' <=> v \in Busy)
        /\ v \in Busy' /\ v = w => worker'[w] = r
  BY <1>1, <1>6 DEF Busy
<1>8. TypeOK'
  <2>1. DLQTypeOK'
    <3>1. faults' \in 0 .. MaxFaults /\ PublishedTypeOK'
      BY <1>1, CallFaults, PathTypes DEF Pop, RPop, PublishedTypeOK, Targets
    <3>2. StoreTypeOK'
      BY <1>1, <1>2, <3>1, PathTypes DEF StoreTypeOK, PublishedTypeOK, Targets
    <3>3. QED
      BY <1>1, <3>2, PathTypes DEF DLQTypeOK
  <2>2. WorkerTypeOK'
    <3>1. ASSUME NEW v \in Workers PROVE v \in Busy' <=> worker'[v].msg \in Messages
      <4>1. CASE worker'[v] = worker[v]
        BY <4>1 DEF PathInv, TypeOK, EngineTypeOK, WorkerTypeOK, Busy
      <4>2. CASE v = w /\ worker'[w] = r
        BY <1>2, <1>4, <4>2 DEF Busy
      <4>3. QED
        BY <1>6, <4>1, <4>2
    <3>2. QED
      BY <1>6, <3>1 DEF WorkerTypeOK
  <2>3. QED
    BY <1>1, <2>1, <2>2, TypeFrame, PathTypes DEF serviceVars
<1>9. DLQInv'
  <2>1. DLQTypeOK'
    BY <1>8 DEF TypeOK, EngineTypeOK
  <2>2. QED
    BY <1>1, <2>1, OtherStepInv DEF PathInv
<1>10. ASSUME NEW v \in Workers PROVE WorkerOK(v)'
  <2>1. CASE worker'[v] = worker[v]
    BY <1>1, <2>1, WorkerFrame
  <2>2. CASE v = w /\ worker'[w] = r
    BY <1>4, <1>5, <2>2 DEF WorkerOK, Targets
  <2>3. QED
    BY <1>6, <2>1, <2>2
<1>11. Custody'
  <2>1. EntriesOf(m) = {}
    BY <1>3 DEF PathInv, Custody, OneDeadLetter, EntriesOf
  <2>2. \A v \in Busy : worker[v].msg # m /\ v \in Workers
    BY <1>3 DEF PathInv, Custody, ExclusiveCustody, Busy
  <2>3. \A x : Held(x)' => x = m \/ Held(x)
    BY <1>4, <1>6, <1>7 DEF Held, Busy
  <2>4. \A x : EntriesOf(x)' = EntriesOf(x)
    BY <1>1 DEF EntriesOf
  <2>5. ExclusiveCustody'
    <3>1. \A i, j \in DOMAIN queue' : queue'[i] = queue'[j] => i = j
      BY <1>2 DEF PathInv, Custody, ExclusiveCustody
    <3>2. (\A v \in Busy : ~ Queued(worker[v].msg))'
      BY <1>3, <1>4, <1>6, <1>7 DEF PathInv, Custody, ExclusiveCustody, Busy, Queued
    <3>3. \A u, v \in Busy' : worker'[u].msg = worker'[v].msg => u = v
      BY <1>4, <1>6, <1>7, <2>2 DEF PathInv, Custody, ExclusiveCustody, Busy
    <3>4. QED
      BY <3>1, <3>2, <3>3 DEF ExclusiveCustody
  <2>6. OneDeadLetter'
    <3>1. (\A v \in Busy : worker[v].pc # "mark_failed" =>
                             EntriesOf(worker[v].msg) = {})'
      BY <1>1, <1>4, <1>6, <1>7, <2>1 DEF PathInv, Custody, OneDeadLetter, Busy, EntriesOf
    <3>2. \A id \in DOMAIN entries : ~ Queued(entries[id].msg)'
      BY <1>1, <1>3 DEF PathInv, Custody, OneDeadLetter
    <3>3. (\A id \in DOMAIN entries : ~ Queued(entries[id].msg))'
      BY <1>1, <3>2 DEF Queued
    <3>4. QED
      BY <1>1, <3>1, <3>3 DEF PathInv, Custody, OneDeadLetter
  <2>7. RowBeforeUse'
    BY <1>1, <1>3, <2>3, <2>4 DEF PathInv, Custody, RowBeforeUse
  <2>8. SendOrder'
    BY <1>1, <1>3, <2>3, <2>4 DEF PathInv, Custody, SendOrder, serviceVars
  <2>9. QED
    BY <2>5, <2>6, <2>7, <2>8 DEF Custody
<1>12. AckOK'
  BY <1>1, AckFrame DEF PathInv, serviceVars
<1>13. QED
  BY <1>8, <1>9, <1>10, <1>11, <1>12 DEF PathInv

\* The worker that dead-letters a message is the only one that has it.
LEMMA EnqueueDeadStep ==
  ASSUME PathInv, NEW w \in Workers, NEW o \in Outcome, EnqueueDead(w, o),
         UNCHANGED serviceVars
  PROVE  PathInv'
<1>1. /\ worker[w].pc = "enqueue" /\ w \in Busy /\ worker[w].msg \in Messages
      /\ UNCHANGED <<status, queue, published, phase, loop, interruptions, serviceVars>>
  BY BusyWorker DEF EnqueueDead
<1>2. PICK m \in Messages : m = worker[w].msg
  BY <1>1
<1>3. PICK r \in Worker :
        /\ worker' = [worker EXCEPT ![w] = r]
        /\ \/ r.pc = "idle" /\ r.msg = NoMessage
           \/ r.pc = "mark_failed" /\ r.msg = m
  <2> DEFINE f == [worker[w] EXCEPT !.pc = "mark_failed"]
  <2>1. f \in Worker /\ f.pc = "mark_failed" /\ f.msg = m
    BY <1>2, SameMessage DEF WorkerPC
  <2>2. worker' = [worker EXCEPT ![w] = Idle] \/ worker' = [worker EXCEPT ![w] = f]
    BY PathTypes DEF EnqueueDead
  <2> HIDE DEF f
  <2>3. QED
    BY <2>1, <2>2, IdleWorker
<1>4. /\ entries' \in Seq(Entry)
      /\ DOMAIN entries \subseteq DOMAIN entries'
      /\ \A id \in DOMAIN entries : entries'[id] = entries[id]
      /\ \A id \in DOMAIN entries' \ DOMAIN entries :
           /\ entries'[id] = [msg |-> m, status |-> "pending", retries |-> 0]
           /\ id = Len(entries) + 1
  <2>1. CreateDeadLetterEntry(m, o)
    BY <1>2 DEF EnqueueDead
  <2>2. QED
    BY <2>1, EntryCreated, PathTypes
<1>5. /\ worker' \in [Workers -> Worker] /\ worker'[w] = r
      /\ \A v \in Workers : v # w => worker'[v] = worker[v]
  BY <1>3, PathTypes
<1>6. \A v \in Workers :
        /\ v # w => (v \in Busy' <=> v \in Busy)
        /\ v \in Busy' /\ v = w => r.pc = "mark_failed" /\ r.msg = m
        /\ v \in Busy' => v \in Busy
  BY <1>1, <1>3, <1>5 DEF Busy
<1>7. TypeOK'
  <2>1. DLQTypeOK'
    <3>1. faults' \in 0 .. MaxFaults /\ PublishedTypeOK'
      BY <1>1, CallFaults, PathTypes DEF EnqueueDead, PublishedTypeOK, Targets
    <3>2. StoreTypeOK'
      BY <1>1, <1>4, <3>1, PathTypes DEF StoreTypeOK, PublishedTypeOK, Targets
    <3>3. QED
      BY <1>1, <1>4, <3>2, PathTypes DEF DLQTypeOK
  <2>2. WorkerTypeOK'
    <3>1. ASSUME NEW v \in Workers PROVE v \in Busy' <=> worker'[v].msg \in Messages
      <4>1. CASE worker'[v] = worker[v]
        BY <4>1 DEF PathInv, TypeOK, EngineTypeOK, WorkerTypeOK, Busy
      <4>2. CASE v = w
        BY <1>2, <1>3, <1>5, <4>2, WorkersAssumption DEF Busy
      <4>3. QED
        BY <1>5, <4>1, <4>2
    <3>2. QED
      BY <1>5, <3>1 DEF WorkerTypeOK
  <2>3. QED
    BY <1>1, <2>1, <2>2, TypeFrame, PathTypes DEF serviceVars
<1>8. DLQInv'
  <2>1. DLQTypeOK'
    BY <1>7 DEF TypeOK, EngineTypeOK
  <2>2. QED
    BY <1>1, <1>4, <2>1, OtherStepInv DEF PathInv
<1>9. ASSUME NEW v \in Workers PROVE WorkerOK(v)'
  <2>1. CASE v # w
    BY <1>1, <1>5, <2>1, WorkerFrame
  <2>2. CASE v = w
    BY <1>3, <1>5, <2>2 DEF WorkerOK
  <2>3. QED
    BY <2>1, <2>2
<1>10. Custody'
  <2>1. /\ ~ Queued(m) /\ EntriesOf(m) = {} /\ Held(m)
        /\ \A v \in Busy : worker[v].msg = m => v = w
    BY <1>1, <1>2 DEF PathInv, Custody, ExclusiveCustody, OneDeadLetter, Held
  <2>2. \A v \in Busy' : v \in Workers /\ v \in Busy /\ worker'[v].msg = worker[v].msg
    BY <1>1, <1>2, <1>5, <1>6 DEF Busy
  <2>3. \A x : Held(x)' => Held(x)
    BY <2>2 DEF Held
  <2>4. \A id \in DOMAIN entries : entries[id].msg # m
    BY <2>1 DEF EntriesOf
  <2>5. \A id \in DOMAIN entries' :
          \/ id \in DOMAIN entries /\ entries'[id] = entries[id]
          \/ id = Len(entries) + 1 /\ entries'[id].msg = m
    BY <1>4
  <2>6. ExclusiveCustody'
    BY <1>1, <2>2 DEF PathInv, Custody, ExclusiveCustody, Queued
  <2>7. OneDeadLetter'
    <3>1. \A i, j \in DOMAIN entries' : entries'[i].msg = entries'[j].msg => i = j
      BY <2>4, <2>5 DEF PathInv, Custody, OneDeadLetter
    <3>2. (\A id \in DOMAIN entries : ~ Queued(entries[id].msg))'
      BY <1>1, <2>1, <2>5 DEF PathInv, Custody, OneDeadLetter, Queued
    <3>3. (\A v \in Busy : worker[v].pc # "mark_failed" =>
                             EntriesOf(worker[v].msg) = {})'
      <4>1. ASSUME NEW v \in Busy', worker'[v].pc # "mark_failed"
            PROVE  \A id \in DOMAIN entries' : entries'[id].msg # worker'[v].msg
        <5>1. v \in Workers /\ v \in Busy /\ v # w /\ worker'[v] = worker[v]
          BY <1>5, <1>6, <2>2, <4>1
        <5>2. worker[v].msg # m /\ EntriesOf(worker[v].msg) = {}
          BY <2>1, <4>1, <5>1 DEF PathInv, Custody, OneDeadLetter
        <5>3. QED
          BY <2>5, <5>1, <5>2 DEF EntriesOf
      <4>2. QED
        BY <4>1 DEF EntriesOf
    <3>4. QED
      BY <3>1, <3>2, <3>3 DEF OneDeadLetter
  <2>8. \A x : EntriesOf(x)' # {} => EntriesOf(x) # {} \/ x = m
    BY <2>5 DEF EntriesOf
  <2>9. RowBeforeUse' /\ SendOrder'
    <3>1. \A x : Queued(x)' <=> Queued(x)
      BY <1>1 DEF Queued
    <3>2. QED
      BY <1>1, <2>1, <2>3, <2>8, <3>1
        DEF PathInv, Custody, RowBeforeUse, SendOrder, serviceVars
  <2>10. QED
    BY <2>6, <2>7, <2>9 DEF Custody
<1>11. AckOK'
  BY <1>1, AckFrame DEF PathInv, serviceVars
<1>12. QED
  BY <1>7, <1>8, <1>9, <1>10, <1>11 DEF PathInv

LEMMA WorkerStepInv ==
  ASSUME PathInv, NEW w \in Workers, WorkerStep(w), UNCHANGED serviceVars
  PROVE  PathInv'
BY PopStep, RouteStep, MarkSteps, EnqueueDeadStep, ReturnStep DEF WorkerStep, WorkerCall

-----------------------------------------------------------------------------
(* The steps of a dead-letter loop, and the life of an engine.              *)

\* What a loop changes of the tables: the status of the message of an entry,
\* to "sent" or "failed", the status and count of entries, and publications.
LEMMA LoopEffect ==
  ASSUME PathInv, NEW e \in Engines, LoopStep(e)
  PROVE  /\ queue' = queue
         /\ DOMAIN entries' = DOMAIN entries
         /\ \A id \in DOMAIN entries : entries'[id].msg = entries[id].msg
         /\ \A x \in Messages : \A j \in Targets(x) :
              published[x][j] > 0 => published'[x][j] > 0
         /\ \A x \in Messages : status[x] # "none" => status'[x] # "none"
         /\ \A x \in Messages : status'[x] # status[x] => status'[x] \in {"sent", "failed"}
<1>1. DLQTypeOK /\ DLQInv
  BY PathTypes DEF PathInv
<1>2. ASSUME NEW o \in Outcome, NEW b \in loop[e].batch, PublishRetry(e, b, o)
      PROVE  /\ UNCHANGED <<status, queue, entries>>
             /\ \A x \in Messages : \A j \in Targets(x) :
                  published[x][j] > 0 => published'[x][j] > 0
  <2>1. entries[b.id].msg \in Messages
    BY <1>1, BatchEntry
  <2>2. loop[e].next \in Targets(entries[b.id].msg)
    BY <1>1, <1>2 DEF DLQInv, LoopOK, EntryInHand, PublishRetry
  <2>3. QED
    BY <1>2, <2>1, <2>2, PublishReaches, PathTypes DEF PublishRetry
<1>3. ASSUME NEW o \in Outcome, NEW b \in loop[e].batch, MarkMessage(e, b, o)
      PROVE  /\ UNCHANGED <<queue, entries, published>>
             /\ \A x \in Messages : status[x] # "none" => status'[x] # "none"
             /\ \A x \in Messages : status'[x] # status[x] => status'[x] \in {"sent", "failed"}
  <2> DEFINE s == IF loop[e].verdict = "processed" THEN "sent" ELSE "failed"
  <2>1. entries[b.id].msg \in Messages /\ s \in MessageStatus /\ s \in {"sent", "failed"}
    BY <1>1, BatchEntry DEF MessageStatus
  <2>2. UpdateMessageStatus(entries[b.id].msg, s, o)
    BY <1>3 DEF MarkMessage
  <2> HIDE DEF s
  <2>3. QED
    BY <1>3, <2>1, <2>2, StatusUpdate, PathTypes DEF MarkMessage
<1>4. ASSUME NEW o \in Outcome, NEW b \in loop[e].batch, MarkEntry(e, b, o)
      PROVE  /\ UNCHANGED <<queue, status, published>>
             /\ DOMAIN entries' = DOMAIN entries
             /\ \A id \in DOMAIN entries : entries'[id].msg = entries[id].msg
  <2>1. b.id \in DOMAIN entries /\ b.retries + 1 \in Nat
    BY <1>1, BatchEntry
  <2>2. loop[e].verdict \in DeadLetterStatus
    BY <1>1 DEF DLQTypeOK, Loop
  <2>3. QED
    BY <1>4, <2>1, <2>2, EntryUpdated, PathTypes DEF MarkEntry
<1>5. ASSUME NEW o \in Outcome, Tick(e, o) \/ LoopReturn(e)
      PROVE  UNCHANGED <<status, queue, entries, published>>
  BY <1>5 DEF Tick, LoopReturn, storeVars
<1>6. QED
  BY <1>2, <1>3, <1>4, <1>5 DEF LoopStep, RetryEntry, Outcome

LEMMA LoopStepPath ==
  ASSUME PathInv, NEW e \in Engines, LoopStep(e), UNCHANGED <<worker, serviceVars>>
  PROVE  PathInv'
<1>1. DLQInv'
  BY LoopStepInv DEF PathInv
<1>2. TypeOK'
  <2>1. WorkerTypeOK'
    BY DEF PathInv, TypeOK, EngineTypeOK, WorkerTypeOK, Busy
  <2>2. DLQTypeOK'
    BY <1>1 DEF DLQInv
  <2>3. QED
    BY <2>1, <2>2, TypeFrame, PathTypes DEF serviceVars
<1>3. \A w \in Workers : WorkerOK(w)'
  BY LoopEffect, WorkerFrame
<1>4. Custody'
  <2>1. \A x \in Messages :
          /\ sends'[x] = sends[x]
          /\ sends'[x] = "push" => status'[x] # "none"
    BY LoopEffect DEF PathInv, Custody, SendOrder, serviceVars
  <2>2. \A v \in Workers : v \in Busy' =>
           /\ v \in Busy /\ worker'[v].msg = worker[v].msg
           /\ worker'[v].pc # "mark_failed" => worker[v].pc # "mark_failed"
    BY DEF Busy
  <2>3. QED
    BY <2>1, <2>2, LoopEffect, CustodyFrame DEF PathInv
<1>5. AckOK'
  <2>1. \A x \in Messages : status'[x] \in {"delivered", "processed"} =>
                                status'[x] = status[x]
    BY LoopEffect
  <2>2. QED
    BY <2>1, AckFrame DEF PathInv, serviceVars
<1>6. QED
  BY <1>1, <1>2, <1>3, <1>4, <1>5 DEF PathInv

\* Shutdown, crash and restart change no store and leave every worker of the
\* engine without a message.
LEMMA LifeStepPath ==
  ASSUME PathInv, NEW e \in Engines, UNCHANGED serviceVars,
         StopCancel(e) \/ StopReturn(e) \/ Crash(e) \/ Start(e)
  PROVE  PathInv'
<1>1. UNCHANGED <<status, queue, entries, published, faults>>
  BY DEF StopCancel, StopReturn, Crash, Start, storeVars
<1>2. DLQInv'
  BY PhaseStepInv DEF PathInv, StopCancel, StopReturn, Crash, Start, storeVars
<1>3. /\ worker' \in [Workers -> Worker]
      /\ \A v \in Workers : worker'[v] \in {worker[v], Idle, Gone}
  BY PathTypes, IdleWorker
    DEF StopCancel, StopReturn, Crash, Start, SetWorkers
<1>4. \A v \in Workers : v \in Busy' => v \in Busy /\ worker'[v] = worker[v]
  BY <1>3, IdleWorker DEF Busy
<1>5. TypeOK'
  <2>1. WorkerTypeOK'
    <3>1. ASSUME NEW v \in Workers PROVE v \in Busy' <=> worker'[v].msg \in Messages
      BY <1>3, IdleWorker, WorkersAssumption
        DEF PathInv, TypeOK, EngineTypeOK, WorkerTypeOK, Busy
    <3>2. QED
      BY <1>3, <3>1 DEF WorkerTypeOK
  <2>2. DLQTypeOK'
    BY <1>2 DEF DLQInv
  <2>3. QED
    BY <2>1, <2>2, TypeFrame, PathTypes DEF serviceVars
<1>6. ASSUME NEW v \in Workers PROVE WorkerOK(v)'
  <2>1. CASE worker'[v] = worker[v]
    BY <1>1, <2>1, WorkerFrame
  <2>2. CASE worker'[v] \in {Idle, Gone}
    BY <2>2, IdleWorker DEF WorkerOK
  <2>3. QED
    BY <1>3, <2>1, <2>2
<1>7. Custody'
  BY <1>1, <1>4, CustodyFrame DEF PathInv, Custody, SendOrder, serviceVars
<1>8. AckOK'
  BY <1>1, AckFrame DEF PathInv, serviceVars
<1>9. QED
  BY <1>2, <1>5, <1>6, <1>7, <1>8 DEF PathInv

-----------------------------------------------------------------------------
(* The steps of the gateways.                                               *)

\* No gateway touches the entries, what was published and the engines, or
\* writes the status "sent".
LEMMA ServiceFrame ==
  ASSUME PathInv, UNCHANGED <<entries, published, processVars>>,
         status' \in [Messages -> MessageStatus \cup {"none"}],
         \A x \in Messages : status'[x] = "sent" => status[x] = "sent",
         queue' \in Seq(Messages),
         faults' \in 0 .. MaxFaults,
         sends' \in [Messages -> SendPC],
         handler' \in [Handlers -> Handler],
         ackRow' \in [Nonces -> Ack \cup {NoAck}]
  PROVE  DLQInv' /\ TypeOK' /\ \A w \in Workers : WorkerOK(w)'
<1>1. UNCHANGED <<phase, loop, interruptions, worker, entries, published>>
  BY DEF processVars
<1>2. DLQTypeOK'
  <2>1. StoreTypeOK'
    BY <1>1, PathTypes DEF StoreTypeOK, PublishedTypeOK, Targets
  <2>2. QED
    BY <1>1, <2>1, PathTypes DEF DLQTypeOK
<1>3. DLQInv'
  BY <1>1, <1>2, OtherStepInv DEF PathInv
<1>4. WorkerTypeOK'
  BY <1>1 DEF PathInv, TypeOK, EngineTypeOK, WorkerTypeOK, Busy
<1>5. \A w \in Workers : WorkerOK(w)'
  BY <1>1, WorkerFrame
<1>6. QED
  BY <1>2, <1>3, <1>4, <1>5, TypeFrame

\* A step of a gateway that puts nothing on the list keeps the custody.
LEMMA ServiceCustody ==
  ASSUME Custody, UNCHANGED <<queue, entries, processVars>>,
         \A x \in Messages : status[x] # "none" => status'[x] # "none",
         \A x \in Messages :
           /\ sends[x] \in {"accepted", "rejected"} => sends'[x] = sends[x]
           /\ sends'[x] = "push" => status'[x] # "none"
  PROVE  Custody'
<1>1. \A v \in Workers : v \in Busy' =>
        /\ v \in Busy /\ worker'[v].msg = worker[v].msg
        /\ worker'[v].pc # "mark_failed" => worker[v].pc # "mark_failed"
  BY DEF Busy, processVars
<1>2. QED
  BY <1>1, CustodyFrame

LEMMA SendCreateStep ==
  ASSUME PathInv, NEW m \in Messages, NEW o \in Outcome, SendCreate(m, o),
         UNCHANGED processVars
  PROVE  PathInv'
<1>1. /\ sends[m] = "new"
      /\ UNCHANGED <<queue, entries, published, handler, ackRow>>
      /\ faults' \in 0 .. MaxFaults
  BY CallFaults, PathTypes DEF SendCreate
<1>2. /\ status' \in [Messages -> MessageStatus \cup {"none"}]
      /\ \A x \in Messages : status'[x] # status[x] => x = m /\ status'[x] = "pending"
      /\ o = "ok" => status'[m] = "pending"
  BY PathTypes DEF SendCreate, CreateMessage, MessageStatus, Took
<1>3. /\ sends' \in [Messages -> SendPC]
      /\ \A x \in Messages : x # m => sends'[x] = sends[x]
      /\ sends'[m] = "push" => o = "ok"
  BY PathTypes DEF SendCreate, SendPC
<1>4. DLQInv' /\ TypeOK' /\ \A w \in Workers : WorkerOK(w)'
  BY <1>1, <1>2, <1>3, ServiceFrame, PathTypes
<1>5. Custody'
  <2>1. \A x \in Messages :
          /\ status[x] # "none" => status'[x] # "none"
          /\ sends[x] \in {"accepted", "rejected"} => sends'[x] = sends[x]
          /\ sends'[x] = "push" => status'[x] # "none"
    BY <1>1, <1>2, <1>3 DEF PathInv, Custody, SendOrder
  <2>2. QED
    BY <1>1, <2>1, ServiceCustody DEF PathInv
<1>6. AckOK'
  BY <1>1, <1>2, AckFrame DEF PathInv
<1>7. QED
  BY <1>4, <1>5, <1>6 DEF PathInv

\* The message that is pushed is not on the list, in no worker's hands and
\* no dead letter yet: its Send is not over.
LEMMA SendPushStep ==
  ASSUME PathInv, NEW m \in Messages, NEW o \in Outcome, SendPush(m, o),
         UNCHANGED processVars
  PROVE  PathInv'
<1>1. /\ sends[m] = "push"
      /\ UNCHANGED <<status, entries, published, handler, ackRow>>
      /\ faults' \in 0 .. MaxFaults
  BY CallFaults, PathTypes DEF SendPush
<1>2. UNCHANGED <<worker, phase, loop, interruptions>>
  BY DEF processVars
<1>3. /\ queue \in Seq(Messages) /\ queue' \in Seq(Messages)
      /\ DOMAIN queue \subseteq DOMAIN queue'
      /\ \A i \in DOMAIN queue : queue'[i] = queue[i]
      /\ \A i \in DOMAIN queue' \ DOMAIN queue : i = Len(queue) + 1 /\ queue'[i] = m
  <2>1. queue \in Seq(Messages)
    BY PathTypes
  <2>2. queue' = Append(queue, m) \/ queue' = queue
    BY DEF SendPush, LPush
  <2>3. QED
    BY <2>1, <2>2
<1>4. /\ sends' \in [Messages -> SendPC]
      /\ \A x \in Messages : x # m => sends'[x] = sends[x]
      /\ sends'[m] \in {"accepted", "rejected"}
  BY PathTypes DEF SendPush, SendPC
<1>5. DLQInv' /\ TypeOK' /\ \A w \in Workers : WorkerOK(w)'
  BY <1>1, <1>3, <1>4, ServiceFrame, PathTypes
<1>6. Custody'
  <2>1. status[m] # "none" /\ ~ Queued(m) /\ ~ Held(m) /\ EntriesOf(m) = {}
    BY <1>1 DEF PathInv, Custody, SendOrder
  <2>2. \A i \in DOMAIN queue : queue[i] # m
    BY <2>1 DEF Queued
  <2>3. \A v \in Busy : worker[v].msg # m
    BY <2>1 DEF Held
  <2>4. \A id \in DOMAIN entries : entries[id].msg # m
    BY <2>1 DEF EntriesOf
  <2>5. \A x : Queued(x)' => Queued(x) \/ x = m
    BY <1>3 DEF Queued
  <2>6. Busy' = Busy
    BY <1>2 DEF Busy
  <2>7. ExclusiveCustody'
    <3>1. \A i, j \in DOMAIN queue' : queue'[i] = queue'[j] => i = j
      BY <1>3, <2>2 DEF PathInv, Custody, ExclusiveCustody
    <3>2. (\A v \in Busy : ~ Queued(worker[v].msg))'
      BY <1>2, <1>3, <2>3, <2>6 DEF PathInv, Custody, ExclusiveCustody, Queued
    <3>3. QED
      BY <1>2, <2>6, <3>1, <3>2 DEF PathInv, Custody, ExclusiveCustody
  <2>8. OneDeadLetter'
    <3>1. (\A id \in DOMAIN entries : ~ Queued(entries[id].msg))'
      BY <1>1, <1>3, <2>4 DEF PathInv, Custody, OneDeadLetter, Queued
    <3>2. (\A v \in Busy : worker[v].pc # "mark_failed" =>
                             EntriesOf(worker[v].msg) = {})'
      BY <1>1, <1>2, <2>6 DEF PathInv, Custody, OneDeadLetter, EntriesOf
    <3>3. QED
      BY <1>1, <3>1, <3>2 DEF PathInv, Custody, OneDeadLetter
  <2>9. \A x : /\ Held(x)' => Held(x)
               /\ EntriesOf(x)' = EntriesOf(x)
    BY <1>1, <1>2, <2>6 DEF Held, EntriesOf
  <2>10. RowBeforeUse' /\ SendOrder'
    BY <1>1, <1>4, <2>1, <2>5, <2>9 DEF PathInv, Custody, RowBeforeUse, SendOrder
  <2>11. QED
    BY <2>7, <2>8, <2>10 DEF Custody
<1>7. AckOK'
  BY <1>1, AckFrame DEF PathInv
<1>8. QED
  BY <1>5, <1>6, <1>7 DEF PathInv

LEMMA SendAbandonedStep ==
  ASSUME PathInv, NEW m \in Messages, SendAbandoned(m), UNCHANGED processVars
  PROVE  PathInv'
<1>1. /\ sends[m] = "push"
      /\ UNCHANGED <<status, queue, entries, published, faults, handler, ackRow>>
  BY DEF SendAbandoned, storeVars
<1>2. /\ sends' \in [Messages -> SendPC]
      /\ \A x \in Messages : \/ sends'[x] = sends[x]
                             \/ sends[x] \in {"new", "push"} /\ sends'[x] = "rejected"
  BY PathTypes DEF SendAbandoned, SendPC
<1>3. DLQInv' /\ TypeOK' /\ \A w \in Workers : WorkerOK(w)'
  BY <1>1, <1>2, ServiceFrame, PathTypes
<1>4. Custody'
  <2>1. \A x \in Messages :
          /\ status[x] # "none" => status'[x] # "none"
          /\ sends[x] \in {"accepted", "rejected"} => sends'[x] = sends[x]
          /\ sends'[x] = "push" => status'[x] # "none"
    BY <1>1, <1>2 DEF PathInv, Custody, SendOrder
  <2>2. QED
    BY <1>1, <2>1, ServiceCustody DEF PathInv
<1>5. AckOK'
  BY <1>1, AckFrame DEF PathInv
<1>6. QED
  BY <1>3, <1>4, <1>5 DEF PathInv

LEMMA HandlerTypes ==
  ASSUME PathInv, NEW h \in Handlers, handler[h].pc \in {"insert", "update"}
  PROVE  /\ handler[h].nonce \in Nonces
         /\ handler[h].row \in Ack
         /\ handler[h].row # NoAck
         /\ handler[h].row.msg \in Messages
         /\ handler[h].row.ack \in AckStatus
         /\ [handler[h] EXCEPT !.pc = "update"] \in Handler
         /\ [handler[h] EXCEPT !.pc = "update"].pc = "update"
         /\ [handler[h] EXCEPT !.pc = "update"].row = handler[h].row
         /\ [handler[h] EXCEPT !.pc = "update"].nonce = handler[h].nonce
<1>1. handler[h] \in [pc : {"insert", "update"}, nonce : Nonces, row : Ack]
  BY PathTypes DEF Handler, Free
<1>2. handler[h].row \in Ack
  BY <1>1
<1>3. QED
  BY <1>1, <1>2, AckAssumption DEF Handler, Ack

LEMMA FreeHandler == Free \in Handler /\ Free.pc = "free"
BY DEF Free, Handler

LEMMA AckSteps ==
  ASSUME PathInv, NEW h \in Handlers, UNCHANGED processVars,
         \/ \E n \in Nonces, r \in Ack : AckBegin(h, n, r)
         \/ AckStep(h)
         \/ AckAbandoned(h)
  PROVE  PathInv'
<1>1. ASSUME NEW n \in Nonces, NEW r \in Ack, AckBegin(h, n, r) PROVE PathInv'
  <2> DEFINE a == [pc |-> "insert", nonce |-> n, row |-> r]
  <2>1. UNCHANGED <<status, queue, entries, published, faults, sends, ackRow>>
    BY <1>1 DEF AckBegin, storeVars
  <2>2. a \in Handler /\ a.pc = "insert" /\ a.row = r
    BY DEF Handler
  <2>3. handler' = [handler EXCEPT ![h] = a] /\ HasRecipient(r.msg, r.agent)
    BY <1>1 DEF AckBegin, Stored
  <2> HIDE DEF a
  <2>4. /\ handler' \in [Handlers -> Handler] /\ handler'[h] = a
        /\ \A k \in Handlers : k # h => handler'[k] = handler[k]
    BY <2>2, <2>3, PathTypes
  <2>5. DLQInv' /\ TypeOK' /\ \A w \in Workers : WorkerOK(w)'
    BY <2>1, <2>4, ServiceFrame, PathTypes
  <2>6. Custody'
    BY <2>1, ServiceCustody DEF PathInv, Custody, SendOrder
  <2>7. AckOK'
    <3>1. StatusBackedByAck'
      BY <2>1 DEF PathInv, AckOK, StatusBackedByAck, HasRecipient, Targets
    <3>2. QED
      BY <2>1, <2>2, <2>3, <2>4, <3>1 DEF PathInv, AckOK, HasRecipient, Targets
  <2>8. QED
    BY <2>5, <2>6, <2>7 DEF PathInv
<1>2. ASSUME NEW o \in Outcome, AckInsert(h, o) PROVE PathInv'
  <2> DEFINE n == handler[h].nonce
             r == handler[h].row
             u == [handler[h] EXCEPT !.pc = "update"]
  <2>1. /\ handler[h].pc = "insert"
        /\ UNCHANGED <<status, queue, entries, published, sends>>
        /\ faults' \in 0 .. MaxFaults
    BY <1>2, CallFaults, PathTypes DEF AckInsert
  <2>2. /\ n \in Nonces /\ r \in Ack /\ r # NoAck /\ HasRecipient(r.msg, r.agent)
        /\ u \in Handler /\ u.pc = "update" /\ u.row = r /\ u.nonce = n
    BY <2>1, HandlerTypes DEF PathInv, AckOK
  <2>3. \/ ackRow' = ackRow
        \/ ackRow[n] = NoAck /\ ackRow' = [ackRow EXCEPT ![n] = r]
    BY <1>2 DEF AckInsert, CreateAcknowledgement
  <2>4. \/ handler' = [handler EXCEPT ![h] = Free]
        \/ /\ handler' = [handler EXCEPT ![h] = u]
           /\ ackRow' = [ackRow EXCEPT ![n] = r]
    BY <1>2, PathTypes DEF AckInsert, CreateAcknowledgement, Took
  <2>5. /\ ackRow' \in [Nonces -> Ack \cup {NoAck}]
        /\ \A x \in Nonces : ackRow[x] # NoAck => ackRow'[x] = ackRow[x]
        /\ \A x \in Nonces : ackRow'[x] # ackRow[x] => x = n /\ ackRow'[x] = r
    BY <2>2, <2>3, PathTypes
  <2>6. /\ handler' \in [Handlers -> Handler]
        /\ \A k \in Handlers : k # h => handler'[k] = handler[k]
        /\ \/ handler'[h] = Free
           \/ handler'[h] = u /\ ackRow'[n] = r
    <3> HIDE DEF u
    <3>1. handler \in [Handlers -> Handler] /\ ackRow \in [Nonces -> Ack \cup {NoAck}]
      BY PathTypes
    <3>2. QED
      BY <2>2, <2>4, <3>1, FreeHandler
  <2>7. DLQInv' /\ TypeOK' /\ \A w \in Workers : WorkerOK(w)'
    BY <2>1, <2>5, <2>6, ServiceFrame, PathTypes
  <2>8. Custody'
    BY <2>1, ServiceCustody DEF PathInv, Custody, SendOrder
  <2>9. AckOK'
    <3>1. StatusBackedByAck'
      BY <2>1, <2>5 DEF PathInv, AckOK, StatusBackedByAck, HasRecipient, Targets
    <3>2. \A x \in Nonces : ackRow'[x] # NoAck => HasRecipient(ackRow'[x].msg, ackRow'[x].agent)
      BY <2>2, <2>5 DEF PathInv, AckOK
    <3>3. ASSUME NEW k \in Handlers
          PROVE  /\ handler'[k].pc = "update" => ackRow'[handler'[k].nonce] = handler'[k].row
                 /\ handler'[k].pc \in {"insert", "update"} =>
                      HasRecipient(handler'[k].row.msg, handler'[k].row.agent)
      <4> HIDE DEF u
      <4>1. CASE k = h
        BY <2>2, <2>6, <4>1, FreeHandler
      <4>2. CASE k # h
        <5>1. handler'[k] = handler[k]
          BY <2>6, <4>2
        <5>2. handler[k].pc = "update" =>
                /\ ackRow'[handler[k].nonce] = handler[k].row
          BY <2>5, HandlerTypes DEF PathInv, AckOK
        <5>3. QED
          BY <5>1, <5>2 DEF PathInv, AckOK
      <4>3. QED
        BY <4>1, <4>2
    <3>4. QED
      BY <3>1, <3>2, <3>3 DEF AckOK, HasRecipient, Targets
  <2>10. QED
    BY <2>7, <2>8, <2>9 DEF PathInv
<1>3. ASSUME NEW o \in Outcome, AckUpdate(h, o) PROVE PathInv'
  <2> DEFINE n == handler[h].nonce
             r == handler[h].row
             s == AckMessageStatus(r.ack)
  <2>1. /\ handler[h].pc = "update"
        /\ UNCHANGED <<queue, entries, published, sends, ackRow>>
        /\ handler' = [handler EXCEPT ![h] = Free]
        /\ faults' \in 0 .. MaxFaults
    BY <1>3, CallFaults, PathTypes DEF AckUpdate
  <2>2. /\ n \in Nonces /\ r \in Ack /\ r # NoAck /\ r.msg \in Messages
        /\ HasRecipient(r.msg, r.agent) /\ ackRow[n] = r
    BY <2>1, HandlerTypes DEF PathInv, AckOK
  <2>3. s \in {"delivered", "processed", "failed", "pending"} /\ s \in MessageStatus
    BY DEF AckMessageStatus, MessageStatus
  <2>4. UpdateMessageStatus(r.msg, s, o)
    BY <1>3 DEF AckUpdate
  <2> HIDE DEF s
  <2>5. /\ status' \in [Messages -> MessageStatus \cup {"none"}]
        /\ \A x \in Messages : (status[x] # "none") => (status'[x] # "none")
        /\ \A x \in Messages : status'[x] # status[x] => x = r.msg /\ status'[x] = s
    BY <2>2, <2>3, <2>4, StatusUpdate, PathTypes
  <2>6. /\ handler' \in [Handlers -> Handler] /\ handler'[h] = Free
        /\ \A k \in Handlers : k # h => handler'[k] = handler[k]
    BY <2>1, FreeHandler, PathTypes
  <2>7. DLQInv' /\ TypeOK' /\ \A w \in Workers : WorkerOK(w)'
    BY <2>1, <2>3, <2>5, <2>6, ServiceFrame, PathTypes
  <2>8. Custody'
    BY <2>1, <2>5, ServiceCustody DEF PathInv, Custody, SendOrder
  <2>9. AckOK'
    <3>1. ASSUME NEW x \in Messages, status'[x] \in {"delivered", "processed"}
          PROVE  \E y \in Nonces : /\ ackRow[y] # NoAck
                                   /\ ackRow[y].msg = x
                                   /\ HasRecipient(x, ackRow[y].agent)
                                   /\ AckMessageStatus(ackRow[y].ack) = status'[x]
      <4>1. CASE status'[x] = status[x]
        BY <3>1, <4>1 DEF PathInv, AckOK, StatusBackedByAck
      <4>2. CASE status'[x] # status[x]
        BY <2>2, <2>5, <4>2 DEF s
      <4>3. QED
        BY <4>1, <4>2
    <3>2. StatusBackedByAck'
      BY <2>1, <3>1 DEF StatusBackedByAck, HasRecipient, Targets
    <3>3. QED
      BY <2>1, <2>6, <3>2, FreeHandler DEF PathInv, AckOK, HasRecipient, Targets
  <2>10. QED
    BY <2>7, <2>8, <2>9 DEF PathInv
<1>4. CASE AckAbandoned(h)
  <2>1. /\ UNCHANGED <<status, queue, entries, published, faults, sends, ackRow>>
        /\ handler' = [handler EXCEPT ![h] = Free]
    BY <1>4 DEF AckAbandoned, storeVars
  <2>2. /\ handler' \in [Handlers -> Handler] /\ handler'[h] = Free
        /\ \A k \in Handlers : k # h => handler'[k] = handler[k]
    BY <2>1, FreeHandler, PathTypes
  <2>3. DLQInv' /\ TypeOK' /\ \A w \in Workers : WorkerOK(w)'
    BY <2>1, <2>2, ServiceFrame, PathTypes
  <2>4. Custody'
    BY <2>1, ServiceCustody DEF PathInv, Custody, SendOrder
  <2>5. AckOK'
    <3>1. StatusBackedByAck'
      BY <2>1 DEF PathInv, AckOK, StatusBackedByAck, HasRecipient, Targets
    <3>2. QED
      BY <2>1, <2>2, <3>1, FreeHandler DEF PathInv, AckOK, HasRecipient, Targets
  <2>6. QED
    BY <2>3, <2>4, <2>5 DEF PathInv
<1>5. QED
  BY <1>1, <1>2, <1>3, <1>4 DEF AckStep

-----------------------------------------------------------------------------
(* The theorems.                                                            *)

\* The inductive invariant holds throughout.
THEOREM PathInvariant == Spec => []PathInv
<1>1. Init => PathInv
  <2> SUFFICES ASSUME Init PROVE PathInv
    OBVIOUS
  <2>1. /\ status = [m \in Messages |-> "none"]
        /\ queue = << >> /\ entries = << >> /\ faults = 0
        /\ published = [m \in Messages |-> [i \in Targets(m) |-> 0]]
        /\ phase = [e \in Engines |-> "running"]
        /\ loop = [e \in Engines |-> AtTicker] /\ interruptions = 0
        /\ worker = [w \in Workers |-> Idle]
        /\ sends = [m \in Messages |-> "new"]
        /\ handler = [h \in Handlers |-> Free]
        /\ ackRow = [n \in Nonces |-> NoAck]
    BY DEF Init, EngineInit, ServiceInit, StoreInit
  <2>2. StoreTypeOK
    BY <2>1, MaxFaultsAssumption DEF StoreTypeOK
  <2>3. DLQTypeOK
    BY <2>1, <2>2, RestTypes, RetryAssumption DEF DLQTypeOK
  <2>4. \A w \in Workers : w \notin Busy
    BY <2>1, IdleWorker DEF Busy
  <2>5. WorkerTypeOK
    BY <2>1, <2>4, IdleWorker, WorkersAssumption DEF WorkerTypeOK
  <2>6. TypeOK
    BY <2>1, <2>2, <2>3, <2>5, FreeHandler
      DEF TypeOK, EngineTypeOK, ServiceTypeOK, SendPC
  <2>7. DLQInv
    <3>1. \A e \in Engines : LoopOK(e)
      BY <2>1, AtRestOK, RestTypes DEF Working
    <3>2. SentReachedAll /\ RetriesWithinBudget /\ ProcessedReachedAll
      BY <2>1 DEF SentReachedAll, RetriesWithinBudget, ProcessedReachedAll
    <3>3. QED
      BY <2>3, <3>1, <3>2 DEF DLQInv
  <2>8. \A w \in Workers : WorkerOK(w)
    BY <2>1, IdleWorker DEF WorkerOK
  <2>9. Custody
    <3>1. DOMAIN queue = {} /\ DOMAIN entries = {} /\ Busy = {}
      BY <2>1, <2>4 DEF Busy
    <3>2. \A m : ~ Queued(m) /\ ~ Held(m) /\ EntriesOf(m) = {}
      BY <3>1 DEF Queued, Held, EntriesOf
    <3>3. QED
      BY <2>1, <3>1, <3>2
        DEF Custody, ExclusiveCustody, OneDeadLetter, RowBeforeUse, SendOrder, Busy
  <2>10. AckOK
    BY <2>1, FreeHandler DEF AckOK, StatusBackedByAck
  <2>11. QED
    BY <2>6, <2>7, <2>8, <2>9, <2>10 DEF PathInv
<1>2. PathInv /\ [Next]_vars => PathInv'
  <2> SUFFICES ASSUME PathInv, [Next]_vars PROVE PathInv'
    OBVIOUS
  <2>1. CASE EngineStep /\ UNCHANGED serviceVars
    BY <2>1, WorkerStepInv, LoopStepPath, LifeStepPath DEF EngineStep
  <2>2. CASE ServiceStep /\ UNCHANGED processVars
    BY <2>2, SendCreateStep, SendPushStep, SendAbandonedStep, AckSteps
      DEF ServiceStep, SendStep
  <2>3. CASE UNCHANGED vars
    <3>1. /\ UNCHANGED <<status, queue, entries, published, faults>>
          /\ UNCHANGED processVars /\ UNCHANGED <<sends, handler, ackRow>>
      BY <2>3 DEF vars, storeVars, serviceVars
    <3>2. DLQInv' /\ TypeOK' /\ \A w \in Workers : WorkerOK(w)'
      BY <3>1, ServiceFrame, PathTypes
    <3>3. Custody'
      BY <3>1, ServiceCustody DEF PathInv, Custody, SendOrder
    <3>4. AckOK'
      BY <3>1, AckFrame DEF PathInv
    <3>5. QED
      BY <3>2, <3>3, <3>4 DEF PathInv
  <2>4. QED
    BY <2>1, <2>2, <2>3 DEF Next
<1>3. QED
  BY <1>1, <1>2, PTL DEF Spec

\* Every variable keeps its type.
THEOREM PathTypeCorrect == Spec => []TypeOK
<1>1. PathInv => TypeOK
  BY DEF PathInv
<1>2. QED
  BY <1>1, PathInvariant, PTL

\* No message is ever on the list twice, on the list and with a worker, or
\* with two workers, whatever the size of the fleet.
THEOREM CustodyIsExclusive == Spec => []ExclusiveCustody
<1>1. PathInv => ExclusiveCustody
  BY DEF PathInv, Custody
<1>2. QED
  BY <1>1, PathInvariant, PTL

\* No message gets a second dead letter, and none goes back on the list.
THEOREM DeadLetterIsUnique == Spec => []OneDeadLetter
<1>1. PathInv => OneDeadLetter
  BY DEF PathInv, Custody
<1>2. QED
  BY <1>1, PathInvariant, PTL

\* Every message an engine deals with has its row.
THEOREM RowsComeFirst == Spec => []RowBeforeUse
<1>1. PathInv => RowBeforeUse
  BY DEF PathInv, Custody
<1>2. QED
  BY <1>1, PathInvariant, PTL

\* "sent" means published to every recipient, also with many engines.
THEOREM SentIsReached == Spec => []SentReachedAll
<1>1. PathInv => SentReachedAll
  BY DEF PathInv, DLQInv
<1>2. QED
  BY <1>1, PathInvariant, PTL

\* "delivered" and "processed" are backed by a row of a recipient, in every
\* interleaving of the handlers with each other and with the engines.
THEOREM StatusIsBacked == Spec => []StatusBackedByAck
<1>1. PathInv => StatusBackedByAck
  BY DEF PathInv, AckOK
<1>2. QED
  BY <1>1, PathInvariant, PTL

-----------------------------------------------------------------------------
(***************************************************************************)
(* What failures cost.  A worker is in danger when the dead letter of its  *)
(* message could not be written or its engine is being stopped: whatever   *)
(* happens to its message next is paid for.  The messages at stake, those  *)
(* lost and those of workers in danger, are no more than the failed calls  *)
(* and the workers of the engines that were stopped or died.               *)
(***************************************************************************)

\* A message in the hands of a worker that is paid for already: its dead letter
\* could not be written, or its engine is being stopped.
InDanger(w) ==
  /\ w \in Busy
  /\ IF worker[w].pc = "mark_failed" THEN EntriesOf(worker[w].msg) = {}
     ELSE phase[EngineOf[w]] = "stopping"

Endangered(m) == \E w \in Workers : InDanger(w) /\ worker[w].msg = m

\* The messages that are lost, or may still be at no further cost.
AtStake == {m \in Messages : Lost(m) \/ Endangered(m)}

LossInv ==
  /\ \A w \in Busy : phase[EngineOf[w]] # "down"
  /\ IsFiniteSet(AtStake)
  /\ Cardinality(AtStake) <= faults + interruptions * MostWorkers

\* A set of numbers that has a bound has a largest element.  (The library's
\* theorems on < take it as an operator; the intervals below the bounds are
\* ordered by inclusion.)
LEMMA LargestOf ==
  ASSUME NEW S \in SUBSET Nat, S # {}, NEW n \in Nat, \A s \in S : s <= n
  PROVE  \E k \in S : \A s \in S : s <= k
<1> DEFINE UB == {k \in Nat : \A s \in S : s <= k}
           T == {1 .. k : k \in UB}
<1>1. T \subseteq FiniteSubsetsOf(Nat) /\ T # {}
  <2>1. \A k \in Nat : 1 .. k \in SUBSET Nat /\ IsFiniteSet(1 .. k)
    BY FS_Interval
  <2>2. n \in UB
    OBVIOUS
  <2> QED BY <2>1, <2>2 DEF FiniteSubsetsOf
<1>2. \E x \in T : \A y \in T : ~ (<<y, x>> \in StrictSubsetOrdering(Nat))
  BY <1>1, FS_StrictSubsetOrderingWellFounded, WFMin
<1>3. PICK k \in UB : \A j \in UB : ~ (<<1 .. j, 1 .. k>> \in StrictSubsetOrdering(Nat))
  BY <1>2
<1>4. SUFFICES ASSUME k \notin S PROVE FALSE
  OBVIOUS
<1>5. k # 0
  <2>1. ASSUME k = 0 PROVE FALSE
    <3>1. PICK s \in S : s <= 0
      BY <2>1
    <3> QED BY <1>4, <2>1, <3>1
  <2> QED BY <2>1
<1>6. k - 1 \in UB
  <2>1. \A s \in S : s <= k /\ s # k /\ s \in Nat
    BY <1>4
  <2> QED BY <1>5, <2>1
<1>7. 1 .. k - 1 \subseteq 1 .. k /\ k \in 1 .. k /\ k \notin 1 .. k - 1
  BY <1>5
<1>8. <<1 .. k - 1, 1 .. k>> \in StrictSubsetOrdering(Nat)
  <2>1. 1 .. k - 1 \in SUBSET Nat /\ 1 .. k \in SUBSET Nat
    BY <1>5
  <2>2. 1 .. k - 1 # 1 .. k
    BY <1>7
  <2> DEFINE A == 1 .. k - 1
             B == 1 .. k
  <2>3. A \in SUBSET Nat /\ B \in SUBSET Nat /\ A \subseteq B /\ A # B
    BY <1>7, <2>1, <2>2
  <2> HIDE DEF A, B
  <2>4. <<A, B>> \in StrictSubsetOrdering(Nat)
    BY <2>3 DEF StrictSubsetOrdering
  <2> QED BY <2>4 DEF A, B
<1> QED BY <1>3, <1>6, <1>8

LEMMA MostWorkersBound ==
  ASSUME IsFiniteSet(Workers), Engines # {}
  PROVE  /\ MostWorkers \in Nat
         /\ \A e \in Engines : /\ IsFiniteSet(WorkersOf(e))
                               /\ Cardinality(WorkersOf(e)) \in Nat
                               /\ Cardinality(WorkersOf(e)) <= MostWorkers
<1> DEFINE S == {Cardinality(WorkersOf(e)) : e \in Engines}
<1>1. \A e \in Engines : /\ IsFiniteSet(WorkersOf(e))
                         /\ Cardinality(WorkersOf(e)) \in Nat
                         /\ Cardinality(WorkersOf(e)) <= Cardinality(Workers)
  BY FS_Subset, FS_CardinalityType DEF WorkersOf
<1>2. Cardinality(Workers) \in Nat
  BY FS_CardinalityType
<1>3. S \in SUBSET Nat /\ S # {} /\ \A s \in S : s <= Cardinality(Workers)
  BY <1>1
<1>4. \E k \in S : \A s \in S : s <= k
  BY <1>2, <1>3, LargestOf
<1>5. \E k \in S : \A e \in Engines : Cardinality(WorkersOf(e)) <= k
  BY <1>4
<1>6. MostWorkers \in S /\ \A e \in Engines : Cardinality(WorkersOf(e)) <= MostWorkers
  BY <1>5 DEF MostWorkers
<1> QED BY <1>1, <1>3, <1>6

-----------------------------------------------------------------------------
(* How the account is kept: a step puts nothing at stake, or one message     *)
(* with a fault, or those of the workers of one engine with an interruption. *)

\* The cost of interruptions, as an operator: the provers need not look inside.
Ransom(i) == i * MostWorkers

LEMMA RansomGrows ==
  ASSUME IsFiniteSet(Workers), Engines # {}, NEW i \in Nat
  PROVE  Ransom(i) \in Nat /\ Ransom(i + 1) = Ransom(i) + MostWorkers
<1>1. \A k, n \in Nat : k * n \in Nat /\ (k + 1) * n = k * n + n
  OBVIOUS
<1>2. MostWorkers \in Nat
  BY MostWorkersBound
<1> QED BY <1>1, <1>2 DEF Ransom

Account ==
  /\ IsFiniteSet(AtStake) /\ Cardinality(AtStake) \in Nat
  /\ Cardinality(AtStake) <= faults + Ransom(interruptions)

LEMMA LossAccount ==
  ASSUME IsFiniteSet(AtStake)
  PROVE  Cardinality(AtStake) <= faults + interruptions * MostWorkers <=> Account
BY FS_CardinalityType DEF Account, Ransom

LEMMA Counted ==
  ASSUME PathInv
  PROVE  faults \in Nat /\ interruptions \in Nat
BY DEF PathInv, TypeOK, EngineTypeOK, DLQTypeOK, StoreTypeOK

LEMMA NothingAtStake ==
  ASSUME PathInv, Account, IsFiniteSet(Workers), Engines # {},
         AtStake' \subseteq AtStake,
         faults' = faults \/ faults' = faults + 1, interruptions' = interruptions
  PROVE  Account'
<1> DEFINE T == AtStake'
<1>1. IsFiniteSet(T) /\ Cardinality(T) <= Cardinality(AtStake) /\ Cardinality(T) \in Nat
  BY FS_Subset, FS_CardinalityType DEF Account
<1> HIDE DEF T
<1>2. Ransom(interruptions) \in Nat /\ faults \in Nat
  BY Counted, RansomGrows
<1>3. Cardinality(T) <= faults' + Ransom(interruptions)
  BY <1>1, <1>2 DEF Account
<1>4. Ransom(interruptions') = Ransom(interruptions)
  OBVIOUS
<1>5. Cardinality(T) <= faults' + Ransom(interruptions')
  BY <1>3, <1>4
<1> QED BY <1>1, <1>5 DEF Account, T

LEMMA OneAtStake ==
  ASSUME PathInv, Account, IsFiniteSet(Workers), Engines # {},
         NEW m, AtStake' \subseteq AtStake \cup {m},
         faults' = faults + 1, interruptions' = interruptions
  PROVE  Account'
<1> DEFINE T == AtStake'
           U == AtStake \cup {m}
<1>1. /\ IsFiniteSet(U) /\ Cardinality(U) \in Nat
      /\ Cardinality(U) <= Cardinality(AtStake) + 1
  <2>1. /\ IsFiniteSet(U)
        /\ Cardinality(U) = Cardinality(AtStake) \/ Cardinality(U) = Cardinality(AtStake) + 1
    BY FS_AddElement DEF Account
  <2>2. Cardinality(U) \in Nat
    BY <2>1, FS_CardinalityType
  <2> HIDE DEF U
  <2> QED BY <2>1, <2>2 DEF Account
<1>2. IsFiniteSet(T) /\ Cardinality(T) <= Cardinality(U) /\ Cardinality(T) \in Nat
  BY <1>1, FS_Subset, FS_CardinalityType
<1> HIDE DEF T, U
<1>3. Ransom(interruptions) \in Nat /\ faults \in Nat
  BY Counted, RansomGrows
<1>4. Cardinality(T) <= faults' + Ransom(interruptions)
  BY <1>1, <1>2, <1>3 DEF Account
<1>5. Ransom(interruptions') = Ransom(interruptions)
  OBVIOUS
<1>6. Cardinality(T) <= faults' + Ransom(interruptions')
  BY <1>4, <1>5
<1> QED BY <1>2, <1>6 DEF Account, T

LEMMA EngineAtStake ==
  ASSUME PathInv, Account, IsFiniteSet(Workers), NEW e \in Engines,
         AtStake' \subseteq AtStake \cup {worker[w].msg : w \in WorkersOf(e)},
         faults' = faults, interruptions' = interruptions + 1
  PROVE  Account'
<1> DEFINE T == AtStake'
           H == {worker[w].msg : w \in WorkersOf(e)}
           U == AtStake \cup H
<1>1. Engines # {}
  OBVIOUS
<1>2. /\ IsFiniteSet(H) /\ Cardinality(H) \in Nat
      /\ Cardinality(H) <= MostWorkers /\ MostWorkers \in Nat
  <2> DEFINE f == [w \in WorkersOf(e) |-> worker[w].msg]
  <2>1. f \in Surjection(WorkersOf(e), H)
    BY DEF Surjection
  <2>2. IsFiniteSet(H) /\ Cardinality(H) <= Cardinality(WorkersOf(e))
    BY <1>1, <2>1, MostWorkersBound, FS_Surjection
  <2> HIDE DEF H
  <2>3. Cardinality(H) \in Nat
    BY <2>2, FS_CardinalityType
  <2> QED BY <1>1, <2>2, <2>3, MostWorkersBound
<1> HIDE DEF H
<1>3. /\ IsFiniteSet(U) /\ Cardinality(U) \in Nat
      /\ Cardinality(U) <= Cardinality(AtStake) + MostWorkers
  <2>1. /\ IsFiniteSet(U)
        /\ Cardinality(U) = Cardinality(AtStake) + Cardinality(H) - Cardinality(AtStake \cap H)
    BY <1>2, FS_Union DEF Account
  <2>2. Cardinality(AtStake \cap H) \in Nat /\ Cardinality(U) \in Nat
    BY <1>2, <2>1, FS_Intersection, FS_CardinalityType
  <2> HIDE DEF U
  <2> QED BY <1>2, <2>1, <2>2 DEF Account
<1>4. IsFiniteSet(T) /\ Cardinality(T) <= Cardinality(U) /\ Cardinality(T) \in Nat
  <2>1. T \subseteq U
    BY DEF H
  <2> QED BY <1>3, <2>1, FS_Subset, FS_CardinalityType
<1> HIDE DEF T, U
<1>5. /\ Ransom(interruptions) \in Nat /\ faults \in Nat
      /\ Ransom(interruptions') = Ransom(interruptions) + MostWorkers
  BY <1>1, Counted, RansomGrows
<1>6. Cardinality(T) <= faults + (Ransom(interruptions) + MostWorkers)
  BY <1>2, <1>3, <1>4, <1>5 DEF Account
<1>7. Cardinality(T) <= faults' + Ransom(interruptions')
  BY <1>5, <1>6
<1> QED BY <1>4, <1>7 DEF Account, T

-----------------------------------------------------------------------------
(* The steps of a worker.                                                   *)

\* What a call leaves behind in the count of faults.
LEMMA CallCost ==
  ASSUME NEW o \in Outcome, NEW live, Call(o, live)
  PROVE  /\ o \in {"lost", "unanswered"} => faults' = faults + 1
         /\ o \notin {"lost", "unanswered"} => faults' = faults
         /\ faults' = faults \/ faults' = faults + 1
         /\ o = "ok" => live
         /\ o = "refused" => ~ live
BY DEF Call

\* A step of worker w, or of nobody if it is not busy, concerns one message.
LEMMA OnlyThis ==
  ASSUME PathInv, NEW w \in Workers, NEW m,
         \A v \in Workers : v # w => worker'[v] = worker[v],
         w \in Busy => worker[w].msg = m,
         w \in Busy' => worker'[w].msg = m,
         UNCHANGED <<phase, sends>>,
         \A x \in Messages : x # m /\ Queued(x) => Queued(x)',
         \A x \in Messages : EntriesOf(x) \subseteq EntriesOf(x)',
         \A x \in Messages : Reached(x) => Reached(x)'
  PROVE  /\ AtStake' \subseteq AtStake \cup {m}
         /\ (m \in AtStake' => m \in AtStake) => AtStake' \subseteq AtStake
<1>1. ASSUME NEW x \in Messages, x # m, Lost(x)' PROVE Lost(x)
  <2>1. Accepted(x) /\ ~ Queued(x) /\ EntriesOf(x) = {} /\ ~ Reached(x)
    BY <1>1 DEF Lost, Accepted
  <2>2. ASSUME Held(x) PROVE Held(x)'
    <3>1. PICK v \in Busy : worker[v].msg = x
      BY <2>2 DEF Held
    <3>2. v # w /\ v \in Workers
      BY <1>1, <3>1 DEF Busy
    <3>3. v \in Busy' /\ worker'[v].msg = x
      BY <3>1, <3>2 DEF Busy
    <3> QED BY <3>3 DEF Held
  <2> QED BY <1>1, <2>1, <2>2 DEF Lost
<1>2. ASSUME NEW x \in Messages, x # m, Endangered(x)' PROVE Endangered(x)
  <2>1. PICK v \in Workers : InDanger(v)' /\ worker'[v].msg = x
    BY <1>2 DEF Endangered
  <2>2. v # w
    BY <1>2, <2>1 DEF InDanger
  <2>3. worker'[v] = worker[v] /\ (v \in Busy' <=> v \in Busy)
    BY <2>2 DEF Busy
  <2>4. worker[v].pc = "mark_failed" => EntriesOf(x) = {}
    BY <1>2, <2>1, <2>3 DEF InDanger
  <2>5. InDanger(v)
    BY <2>1, <2>3, <2>4 DEF InDanger
  <2> QED BY <2>1, <2>3, <2>5 DEF Endangered
<1>3. AtStake' \subseteq AtStake \cup {m}
  BY <1>1, <1>2 DEF AtStake
<1> QED BY <1>3

\* The worker keeps its message, and its danger does not grow.
LEMMA KeepsMessage ==
  ASSUME NEW w \in Workers, NEW m, w \in Busy, worker[w].msg = m,
         w \in Busy', worker'[w].msg = m,
         InDanger(w)' => InDanger(w),
         \A v \in Busy : worker[v].msg = m => v = w,
         \A v \in Workers : v # w => worker'[v] = worker[v],
         m \in AtStake'
  PROVE  m \in AtStake
<1>1. Held(m)' /\ m \in Messages
  BY DEF Held, AtStake
<1>2. PICK v \in Workers : InDanger(v)' /\ worker'[v].msg = m
  BY <1>1 DEF AtStake, Lost, Endangered
<1>3. v = w
  BY <1>2 DEF InDanger, Busy
<1>4. InDanger(w)
  BY <1>2, <1>3
<1> QED BY <1>1, <1>4 DEF AtStake, Endangered

\* The worker lets go of a message that is not lost with it.
LEMMA LetsGo ==
  ASSUME PathInv, NEW w \in Workers, NEW m, w \in Busy, worker[w].msg = m,
         w \notin Busy',
         \A v \in Workers : v # w => worker'[v] = worker[v],
         InDanger(w) \/ ~ Lost(m)',
         m \in AtStake'
  PROVE  m \in AtStake
<1>1. m \in Messages
  BY DEF AtStake
<1>2. \A v \in Busy : worker[v].msg = m => v = w
  BY DEF PathInv, Custody, ExclusiveCustody
<1>3. ~ Endangered(m)'
  BY <1>2 DEF Endangered, InDanger, Busy
<1>4. InDanger(w)
  BY <1>3 DEF AtStake
<1> QED BY <1>1, <1>4 DEF AtStake, Endangered

LEMMA SameReached ==
  ASSUME UNCHANGED published
  PROVE  \A x \in Messages : Reached(x) => Reached(x)'
BY DEF Reached, Targets

LEMMA SameShelves ==
  ASSUME UNCHANGED <<queue, entries>>
  PROVE  \A x : (Queued(x)' <=> Queued(x)) /\ EntriesOf(x)' = EntriesOf(x)
BY DEF Queued, EntriesOf

LEMMA PopLoss ==
  ASSUME PathInv, LossInv, Account, IsFiniteSet(Workers), Engines # {},
         NEW w \in Workers, NEW o \in Outcome, Pop(w, o), UNCHANGED serviceVars
  PROVE  Account'
<1> DEFINE r == [pc |-> "publish", msg |-> Head(queue), next |-> 1]
<1>1. /\ worker[w].pc = "idle" /\ w \notin Busy
      /\ queue \in Seq(Messages) /\ queue # << >> /\ queue' = Tail(queue)
      /\ UNCHANGED <<status, entries, published, phase, loop, interruptions, sends>>
      /\ Call(o, Live(EngineOf[w])) /\ o \in {"ok", "unanswered"}
  BY PathTypes DEF Pop, RPop, Busy, Took, serviceVars
<1>2. PICK m \in Messages : m = Head(queue)
  BY <1>1
<1>3. /\ \A v \in Workers : v # w => worker'[v] = worker[v]
      /\ o = "ok" => worker'[w] = [pc |-> "publish", msg |-> m, next |-> 1]
      /\ o = "unanswered" => worker' = worker
  BY <1>2, PathTypes DEF Pop
<1>4. w \in Busy' => worker'[w].msg = m
  BY <1>1, <1>3 DEF Busy
<1>5. \A x \in Messages : x # m /\ Queued(x) => Queued(x)'
  <2>1. ASSUME NEW x \in Messages, x # m, NEW i \in DOMAIN queue, queue[i] = x
        PROVE  \E j \in DOMAIN queue' : queue'[j] = x
    <3>1. i # 1
      BY <1>1, <1>2, <2>1
    <3>2. i - 1 \in DOMAIN queue' /\ queue'[i - 1] = queue[i]
      BY <1>1, <3>1
    <3> QED BY <2>1, <3>2
  <2> QED BY <2>1 DEF Queued
<1>6. /\ \A x \in Messages : EntriesOf(x) \subseteq EntriesOf(x)'
      /\ \A x \in Messages : Reached(x) => Reached(x)'
  BY <1>1, SameReached DEF EntriesOf
<1>7. /\ AtStake' \subseteq AtStake \cup {m}
      /\ (m \in AtStake' => m \in AtStake) => AtStake' \subseteq AtStake
  BY <1>1, <1>3, <1>4, <1>5, <1>6, OnlyThis
<1>8. CASE o = "unanswered"
  BY <1>1, <1>7, <1>8, CallCost, OneAtStake
<1>9. CASE o = "ok"
  <2>1. worker'[w].pc = "publish" /\ worker'[w].msg = m
    BY <1>3, <1>9
  <2>2. phase[EngineOf[w]] = "running"
    BY <1>1, <1>9 DEF Call, Live
  <2>3. ~ InDanger(w)' /\ w \in Busy'
    BY <1>1, <2>1, <2>2 DEF InDanger, Busy
  <2>4. Held(m)'
    BY <2>1, <2>3 DEF Held
  <2>5. \A v \in Busy : worker[v].msg # m
    <3>1. 1 \in DOMAIN queue /\ queue[1] = m
      BY <1>1, <1>2
    <3>2. Queued(m)
      BY <3>1 DEF Queued
    <3> QED BY <3>2 DEF PathInv, Custody, ExclusiveCustody
  <2>6. ~ Endangered(m)'
    BY <1>3, <2>3, <2>5 DEF Endangered, InDanger, Busy
  <2>7. m \notin AtStake'
    BY <2>4, <2>6 DEF AtStake, Lost
  <2> QED BY <1>1, <1>7, <1>9, <2>7, CallCost, NothingAtStake
<1> QED BY <1>1, <1>8, <1>9

\* Publishing and the status updates before the dead letter.
LEMMA CarryLoss ==
  ASSUME PathInv, LossInv, Account, IsFiniteSet(Workers), Engines # {},
         NEW w \in Workers, NEW o \in Outcome,
         Route(w, o) \/ MarkDead(w, o) \/ (MarkSent(w, o) /\ o # "ok"),
         UNCHANGED serviceVars
  PROVE  Account'
<1> DEFINE m == worker[w].msg
<1>1. /\ w \in Busy /\ m \in Messages /\ worker[w] \in Worker
      /\ worker[w].pc \in {"publish", "mark_sent", "mark_dead"}
  BY BusyWorker, PathTypes DEF Route, MarkDead, MarkSent
<1>2. /\ UNCHANGED <<queue, entries, phase, interruptions, sends>>
      /\ faults' = faults \/ faults' = faults + 1
  BY CallCost DEF Route, MarkDead, MarkSent, serviceVars
<1>3. /\ \A v \in Workers : v # w => worker'[v] = worker[v]
      /\ worker'[w].msg = m
      /\ worker'[w].pc \in {"publish", "mark_sent", "mark_dead", "enqueue"}
  <2>1. /\ worker \in [Workers -> Worker]
        /\ \/ worker' = [worker EXCEPT ![w].next = worker[w].next + 1]
           \/ \E pc \in {"mark_sent", "mark_dead", "enqueue"} :
                worker' = [worker EXCEPT ![w].pc = pc]
    BY PathTypes DEF Route, MarkDead, MarkSent
  <2> QED BY <1>1, <2>1 DEF Worker
<1>4. \A x \in Messages : Reached(x) => Reached(x)'
  <2>1. CASE Route(w, o)
    <3>1. worker[w].next \in Targets(m)
      BY <2>1 DEF PathInv, WorkerOK, Route
    <3>2. \A x \in Messages : \A j \in Targets(x) :
            published[x][j] > 0 => published'[x][j] > 0
      BY <1>1, <2>1, <3>1, PublishReaches, PathTypes DEF Route
    <3> QED BY <3>2, ReachedStable
  <2>2. CASE UNCHANGED published
    BY <2>2, SameReached
  <2> QED BY <2>1, <2>2 DEF MarkDead, MarkSent
<1>5. w \in Busy'
  BY <1>3 DEF Busy
<1>6. InDanger(w)' => InDanger(w)
  BY <1>1, <1>2, <1>3 DEF InDanger
<1>7. m \in AtStake' => m \in AtStake
  BY <1>1, <1>3, <1>5, <1>6, KeepsMessage DEF PathInv, Custody, ExclusiveCustody
<1>8. AtStake' \subseteq AtStake
  BY <1>1, <1>2, <1>3, <1>4, <1>7, SameShelves, OnlyThis
<1> QED BY <1>2, <1>8, NothingAtStake

\* A message that is marked sent has reached everyone.
LEMMA SentLoss ==
  ASSUME PathInv, LossInv, Account, IsFiniteSet(Workers), Engines # {},
         NEW w \in Workers, MarkSent(w, "ok"), UNCHANGED serviceVars
  PROVE  Account'
<1>0. w \in Busy /\ worker[w].msg \in Messages /\ Reached(worker[w].msg)
  BY BusyWorker DEF MarkSent, PathInv, WorkerOK
<1>1. PICK m \in Messages : m = worker[w].msg /\ w \in Busy /\ Reached(m)
  BY <1>0
<1>2. /\ UNCHANGED <<queue, entries, published, phase, interruptions, sends>>
      /\ faults' = faults
  BY CallCost DEF MarkSent, serviceVars, Outcome
<1>3. (\A v \in Workers : v # w => worker'[v] = worker[v]) /\ worker'[w] = Idle
  BY PathTypes DEF MarkSent
<1>4. w \notin Busy'
  BY <1>3, IdleWorker DEF Busy
<1>5. \A x \in Messages : Reached(x) => Reached(x)'
  BY <1>2, SameReached
<1>6. ~ Lost(m)'
  BY <1>1, <1>5 DEF Lost
<1>7. m \in AtStake' => m \in AtStake
  BY <1>1, <1>3, <1>4, <1>6, LetsGo
<1>8. AtStake' \subseteq AtStake
  BY <1>1, <1>2, <1>3, <1>4, <1>5, <1>7, SameShelves, OnlyThis
<1> QED BY <1>2, <1>8, NothingAtStake

\* A dead letter that is not written: a fault, or a refusal that the stop of the
\* engine has paid for.
LEMMA EnqueueLoss ==
  ASSUME PathInv, LossInv, Account, IsFiniteSet(Workers), Engines # {},
         NEW w \in Workers, NEW o \in Outcome, EnqueueDead(w, o), UNCHANGED serviceVars
  PROVE  Account'
<1>0. /\ w \in Busy /\ worker[w].msg \in Messages /\ worker[w] \in Worker
      /\ worker[w].pc = "enqueue"
  BY BusyWorker, PathTypes DEF EnqueueDead
<1>1. PICK m \in Messages : /\ m = worker[w].msg /\ w \in Busy /\ worker[w] \in Worker
                            /\ worker[w].pc = "enqueue"
  BY <1>0
<1>2. /\ UNCHANGED <<queue, published, phase, interruptions, sends>>
      /\ Call(o, Live(EngineOf[w]))
  BY DEF EnqueueDead, serviceVars
<1>3. status[m] # "none"
  BY <1>1 DEF PathInv, Custody, RowBeforeUse, Held
<1>4. /\ \A v \in Workers : v # w => worker'[v] = worker[v]
      /\ o = "ok" => worker'[w] = Idle
      /\ o # "ok" => worker'[w].pc = "mark_failed" /\ worker'[w].msg = m
  BY <1>1, <1>3, PathTypes DEF EnqueueDead, Worker
<1>5. /\ entries \in Seq(Entry)
      /\ entries' = IF Took(o) THEN Append(entries, [msg |-> m, status |-> "pending",
                                                     retries |-> 0])
                    ELSE entries
  BY <1>1, <1>3, PathTypes DEF EnqueueDead, CreateDeadLetterEntry
<1>6. /\ DOMAIN entries \subseteq DOMAIN entries'
      /\ \A id \in DOMAIN entries : entries'[id] = entries[id]
      /\ Took(o) => \E id \in DOMAIN entries' : entries'[id].msg = m
  <2>1. CASE Took(o)
    <3> DEFINE l == [msg |-> m, status |-> "pending", retries |-> 0]
    <3>1. l.msg = m /\ entries' = Append(entries, l)
      BY <1>5, <2>1
    <3> HIDE DEF l
    <3>2. /\ DOMAIN entries = 1 .. Len(entries) /\ Len(entries) \in Nat
          /\ DOMAIN entries' = 1 .. Len(entries) + 1
          /\ entries'[Len(entries) + 1] = l
          /\ \A id \in 1 .. Len(entries) : entries'[id] = entries[id]
      BY <1>5, <3>1
    <3>3. Len(entries) + 1 \in DOMAIN entries'
      BY <3>2
    <3>4. DOMAIN entries \subseteq DOMAIN entries'
      BY <3>2
    <3> QED BY <3>1, <3>2, <3>3, <3>4
  <2>2. CASE ~ Took(o)
    BY <1>5, <2>2
  <2> QED BY <2>1, <2>2
<1>7. \A x \in Messages : EntriesOf(x) \subseteq EntriesOf(x)'
  BY <1>6 DEF EntriesOf
<1>8. \A x \in Messages : /\ Reached(x) => Reached(x)'
                          /\ Queued(x) => Queued(x)'
  BY <1>2, SameReached DEF Queued
<1>9. w \in Busy' => worker'[w].msg = m
  BY <1>4, IdleWorker DEF Busy
<1>10. /\ AtStake' \subseteq AtStake \cup {m}
       /\ (m \in AtStake' => m \in AtStake) => AtStake' \subseteq AtStake
  BY <1>1, <1>2, <1>4, <1>7, <1>8, <1>9, OnlyThis
<1>11. CASE o = "ok"
  <2>1. w \notin Busy'
    BY <1>4, <1>11, IdleWorker DEF Busy
  <2>2. ~ Lost(m)'
    BY <1>6, <1>11 DEF Lost, EntriesOf, Took
  <2>3. AtStake' \subseteq AtStake
    <3>1. m \in AtStake' => m \in AtStake
      BY <1>1, <1>4, <2>1, <2>2, LetsGo
    <3> QED BY <1>10, <3>1
  <2> QED BY <1>2, <2>3, CallCost, NothingAtStake
<1>12. CASE o \in {"lost", "unanswered"}
  BY <1>2, <1>10, <1>12, CallCost, OneAtStake
<1>13. CASE o = "refused"
  <2>1. phase[EngineOf[w]] = "stopping"
    <3>1. ~ Live(EngineOf[w])
      BY <1>2, <1>13, CallCost
    <3>2. phase[EngineOf[w]] \in {"running", "stopping", "down"}
      BY PathTypes DEF DLQTypeOK
    <3> QED BY <1>1, <3>1, <3>2 DEF LossInv, Live
  <2>2. InDanger(w)
    BY <1>1, <2>1 DEF InDanger
  <2>3. m \in AtStake
    BY <1>1, <2>2 DEF AtStake, Endangered
  <2> QED BY <1>2, <1>10, <2>3, CallCost, NothingAtStake
<1> QED BY <1>11, <1>12, <1>13 DEF Outcome

LEMMA FailedLoss ==
  ASSUME PathInv, LossInv, Account, IsFiniteSet(Workers), Engines # {},
         NEW w \in Workers, NEW o \in Outcome, MarkFailed(w, o), UNCHANGED serviceVars
  PROVE  Account'
<1>0. w \in Busy /\ worker[w].msg \in Messages /\ worker[w].pc = "mark_failed"
  BY BusyWorker DEF MarkFailed
<1>1. PICK m \in Messages : /\ m = worker[w].msg /\ w \in Busy
                            /\ worker[w].pc = "mark_failed"
  BY <1>0
<1>2. /\ UNCHANGED <<queue, entries, published, phase, interruptions, sends>>
      /\ faults' = faults \/ faults' = faults + 1
  BY CallCost DEF MarkFailed, serviceVars
<1>3. (\A v \in Workers : v # w => worker'[v] = worker[v]) /\ worker'[w] = Idle
  BY PathTypes DEF MarkFailed
<1>4. w \notin Busy'
  BY <1>3, IdleWorker DEF Busy
<1>5. InDanger(w) \/ ~ Lost(m)'
  BY <1>1, <1>2, SameShelves DEF InDanger, Lost
<1>6. m \in AtStake' => m \in AtStake
  BY <1>1, <1>3, <1>4, <1>5, LetsGo
<1>7. AtStake' \subseteq AtStake
  BY <1>1, <1>2, <1>3, <1>4, <1>6, SameReached, SameShelves, OnlyThis
<1> QED BY <1>2, <1>7, NothingAtStake

\* A step that moves no message from where it is.
LEMMA StillLoss ==
  ASSUME PathInv, Account, IsFiniteSet(Workers), Engines # {},
         \A v \in Workers : v \in Busy <=> v \in Busy',
         \A v \in Workers : v \in Busy => worker'[v] = worker[v],
         \A v \in Workers : v \in Busy' /\ phase'[EngineOf[v]] = "stopping" =>
           phase[EngineOf[v]] = "stopping",
         \A x \in Messages : /\ Queued(x) => Queued(x)'
                             /\ EntriesOf(x) \subseteq EntriesOf(x)'
                             /\ Reached(x) => Reached(x)'
                             /\ Accepted(x)' => Accepted(x) \/ Queued(x)',
         faults' = faults \/ faults' = faults + 1, UNCHANGED interruptions
  PROVE  Account'
<1>1. ASSUME NEW x \in Messages, Lost(x)' PROVE Lost(x)
  <2>1. Held(x) => Held(x)'
    BY DEF Held, Busy
  <2> QED BY <1>1, <2>1 DEF Lost
<1>2. ASSUME NEW x \in Messages, Endangered(x)' PROVE Endangered(x)
  <2>1. PICK v \in Workers : InDanger(v)' /\ worker'[v].msg = x
    BY <1>2 DEF Endangered
  <2>2. v \in Busy /\ v \in Busy' /\ worker'[v] = worker[v]
    BY <2>1 DEF InDanger
  <2>3. worker[v].pc = "mark_failed" => EntriesOf(x) = {}
    BY <1>2, <2>1, <2>2 DEF InDanger
  <2>4. InDanger(v)
    BY <2>1, <2>2, <2>3 DEF InDanger
  <2> QED BY <2>1, <2>2, <2>4 DEF Endangered
<1>3. AtStake' \subseteq AtStake
  BY <1>1, <1>2 DEF AtStake
<1> QED BY <1>3, NothingAtStake

LEMMA ReturnLoss ==
  ASSUME PathInv, LossInv, Account, IsFiniteSet(Workers), Engines # {},
         NEW w \in Workers, WorkerReturn(w), UNCHANGED serviceVars
  PROVE  Account'
<1>1. /\ UNCHANGED <<queue, entries, published, phase, interruptions, sends, faults>>
      /\ worker' = [worker EXCEPT ![w] = Gone] /\ w \notin Busy
  BY DEF WorkerReturn, dlqVars, storeVars, serviceVars, Busy
<1>2. /\ \A v \in Workers : v \in Busy <=> v \in Busy'
      /\ \A v \in Workers : v \in Busy => worker'[v] = worker[v]
  BY <1>1, IdleWorker, PathTypes DEF Busy
<1> QED BY <1>1, <1>2, SameReached, SameShelves, StillLoss DEF Accepted

LEMMA LoopLoss ==
  ASSUME PathInv, LossInv, Account, IsFiniteSet(Workers), Engines # {},
         NEW e \in Engines, LoopStep(e), UNCHANGED <<worker, serviceVars>>
  PROVE  Account'
<1>1. UNCHANGED <<phase, interruptions, sends>>
  BY DEF LoopStep, Tick, RetryEntry, PublishRetry, MarkMessage, MarkEntry, LoopReturn,
         serviceVars
<1>2. faults' = faults \/ faults' = faults + 1
  <2>1. ASSUME NEW o \in Outcome, Tick(e, o) \/ RetryEntry(e, o)
        PROVE  faults' = faults \/ faults' = faults + 1
    BY <2>1, CallCost DEF Tick, RetryEntry, PublishRetry, MarkMessage, MarkEntry
  <2>2. CASE LoopReturn(e)
    BY <2>2 DEF LoopReturn, storeVars
  <2> QED BY <2>1, <2>2 DEF LoopStep
<1>3. \A x \in Messages : Reached(x) => Reached(x)'
  BY LoopEffect, ReachedStable
<1>4. \A x \in Messages : Queued(x) => Queued(x)'
  BY LoopEffect DEF Queued
<1>5. \A x \in Messages : EntriesOf(x) \subseteq EntriesOf(x)'
  BY LoopEffect DEF EntriesOf
<1>6. Busy' = Busy
  BY DEF Busy
<1> QED BY <1>1, <1>2, <1>3, <1>4, <1>5, <1>6, StillLoss DEF Accepted

\* Shutdown and crash: the messages in hand, at the price of an interruption.
LEMMA InterruptionLoss ==
  ASSUME PathInv, LossInv, Account, IsFiniteSet(Workers), NEW e \in Engines,
         StopCancel(e) \/ Crash(e), UNCHANGED serviceVars
  PROVE  Account'
<1> DEFINE H == {worker[w].msg : w \in WorkersOf(e)}
<1>1. /\ UNCHANGED <<queue, entries, published, faults, sends>>
      /\ interruptions' = interruptions + 1
      /\ \A f \in Engines : f # e => phase'[f] = phase[f]
  BY PathTypes DEF StopCancel, Crash, Cancel, Die, storeVars, serviceVars, DLQTypeOK
<1>2. /\ \A v \in Workers \ WorkersOf(e) : worker'[v] = worker[v]
      /\ \A v \in WorkersOf(e) : worker'[v] = worker[v] \/ worker'[v] = Gone
  BY PathTypes DEF StopCancel, Crash, SetWorkers, WorkersOf
<1>3. ASSUME NEW x \in Messages, x \notin H, Lost(x)' PROVE Lost(x)
  <2>1. ASSUME Held(x) PROVE Held(x)'
    <3>1. PICK v \in Busy : worker[v].msg = x
      BY <2>1 DEF Held
    <3>2. v \in Workers \ WorkersOf(e)
      BY <1>3, <3>1 DEF Busy
    <3> QED BY <1>2, <3>1, <3>2 DEF Held, Busy
  <2> QED BY <1>1, <1>3, <2>1, SameShelves, SameReached DEF Lost, Accepted
<1>4. ASSUME NEW x \in Messages, x \notin H, Endangered(x)' PROVE Endangered(x)
  <2>1. PICK v \in Workers : InDanger(v)' /\ worker'[v].msg = x
    BY <1>4 DEF Endangered
  <2>2. v \notin WorkersOf(e)
    BY <1>2, <1>4, <2>1, IdleWorker DEF InDanger, Busy
  <2>3. worker'[v] = worker[v] /\ EngineOf[v] # e /\ EngineOf[v] \in Engines
    BY <1>2, <2>2, PathTypes DEF WorkersOf
  <2>4. InDanger(v)
    BY <1>1, <2>1, <2>3, SameShelves DEF InDanger, Busy
  <2> QED BY <2>1, <2>3, <2>4 DEF Endangered
<1>5. AtStake' \subseteq AtStake \cup H
  BY <1>3, <1>4 DEF AtStake
<1> QED BY <1>1, <1>5, EngineAtStake

\* The end of a shutdown and the start: no worker of the engine has a message.
LEMMA RestartLoss ==
  ASSUME PathInv, LossInv, Account, IsFiniteSet(Workers), NEW e \in Engines,
         StopReturn(e) \/ Start(e), UNCHANGED serviceVars
  PROVE  Account'
<1>1. /\ UNCHANGED <<queue, entries, published, faults, sends, interruptions>>
      /\ \A f \in Engines : f # e => phase'[f] = phase[f]
      /\ phase'[e] # "stopping"
  BY PathTypes DEF StopReturn, Start, Exit, StartLoop, storeVars, serviceVars, DLQTypeOK
<1>2. \A v \in WorkersOf(e) : v \notin Busy
  BY DEF StopReturn, Start, StartLoop, LossInv, Busy, WorkersOf
<1>3. /\ \A v \in Workers \ WorkersOf(e) : worker'[v] = worker[v]
      /\ \A v \in WorkersOf(e) : worker'[v] = worker[v] \/ worker'[v] = Idle
  BY PathTypes DEF StopReturn, Start, SetWorkers, WorkersOf
<1>4. /\ \A v \in Workers : v \in Busy <=> v \in Busy'
      /\ \A v \in Workers : v \in Busy => worker'[v] = worker[v]
  BY <1>2, <1>3, IdleWorker DEF Busy
<1>5. \A v \in Workers : v \in Busy' /\ phase'[EngineOf[v]] = "stopping" =>
        phase[EngineOf[v]] = "stopping"
  BY <1>1, PathTypes
<1> QED BY <1>1, <1>4, <1>5, SameReached, SameShelves, StillLoss DEF Accepted

\* The gateways only put messages on the list.
LEMMA ServiceLoss ==
  ASSUME PathInv, LossInv, Account, IsFiniteSet(Workers), Engines # {},
         ServiceStep, UNCHANGED processVars
  PROVE  Account'
<1>1. /\ UNCHANGED <<worker, phase, interruptions, entries, published>>
      /\ faults' = faults \/ faults' = faults + 1
  <2>1. UNCHANGED <<worker, phase, interruptions>>
    BY DEF processVars
  <2>2. UNCHANGED <<entries, published>>
    BY DEF ServiceStep, SendStep, SendCreate, SendPush, SendAbandoned, AckStep,
           AckBegin, AckInsert, AckUpdate, AckAbandoned, storeVars
  <2>3. ASSUME NEW m \in Messages, NEW o \in Outcome, SendCreate(m, o) \/ SendPush(m, o)
        PROVE  faults' = faults \/ faults' = faults + 1
    BY <2>3, CallCost DEF SendCreate, SendPush
  <2>4. ASSUME NEW h \in Handlers, NEW o \in Outcome, AckInsert(h, o) \/ AckUpdate(h, o)
        PROVE  faults' = faults \/ faults' = faults + 1
    BY <2>4, CallCost DEF AckInsert, AckUpdate
  <2>5. ASSUME NEW m \in Messages, SendAbandoned(m) PROVE UNCHANGED faults
    BY <2>5 DEF SendAbandoned, storeVars
  <2>6. ASSUME NEW h \in Handlers, NEW n \in Nonces, NEW r \in Ack,
               AckBegin(h, n, r) \/ AckAbandoned(h)
        PROVE  UNCHANGED faults
    BY <2>6 DEF AckBegin, AckAbandoned, storeVars
  <2>7. ASSUME NEW h \in Handlers, AckAbandoned(h) PROVE UNCHANGED faults
    BY <2>7 DEF AckAbandoned, storeVars
  <2> QED BY <2>1, <2>2, <2>3, <2>4, <2>5, <2>6, <2>7 DEF ServiceStep, SendStep, AckStep
<1> DEFINE Kept == \A x \in Messages : /\ Queued(x) => Queued(x)'
                                       /\ Accepted(x)' => Accepted(x) \/ Queued(x)'
<1>2. Kept
  <2>1. CASE UNCHANGED <<queue, sends>>
    BY <2>1 DEF Queued, Accepted
  <2>2. ASSUME NEW m \in Messages, NEW o \in Outcome, SendCreate(m, o) PROVE Kept
    BY <2>2, PathTypes DEF SendCreate, Queued, Accepted
  <2>3. ASSUME NEW m \in Messages, SendAbandoned(m) PROVE Kept
    BY <2>3, PathTypes DEF SendAbandoned, Queued, Accepted, storeVars
  <2>4. ASSUME NEW m \in Messages, NEW o \in Outcome, SendPush(m, o) PROVE Kept
    <3>1. queue \in Seq(Messages) /\ (queue' = Append(queue, m) \/ queue' = queue)
      BY <2>4, PathTypes DEF SendPush, LPush
    <3>2. /\ DOMAIN queue \subseteq DOMAIN queue'
          /\ \A i \in DOMAIN queue : queue'[i] = queue[i]
      BY <3>1
    <3>3. \A x \in Messages : Queued(x) => Queued(x)'
      BY <3>2 DEF Queued
    <3>4. \A x \in Messages : x # m => sends'[x] = sends[x]
      BY <2>4, PathTypes DEF SendPush
    <3>5. Accepted(m)' => Queued(m)'
      <4>1. CASE o = "ok"
        <5>1. queue' = Append(queue, m)
          BY <2>4, <4>1 DEF SendPush, LPush, Took
        <5>2. Len(queue) + 1 \in DOMAIN queue' /\ queue'[Len(queue) + 1] = m
          BY <3>1, <5>1
        <5> QED BY <5>2 DEF Queued
      <4>2. CASE o # "ok"
        BY <2>4, <4>2, PathTypes DEF SendPush, Accepted
      <4> QED BY <4>1, <4>2
    <3> QED BY <3>3, <3>4, <3>5 DEF Accepted
  <2>5. ASSUME NEW h \in Handlers,
               \/ \E n \in Nonces, r \in Ack : AckBegin(h, n, r)
               \/ AckStep(h) \/ AckAbandoned(h)
        PROVE  UNCHANGED <<queue, sends>>
    BY <2>5 DEF AckBegin, AckStep, AckInsert, AckUpdate, AckAbandoned, storeVars
  <2> QED BY <2>1, <2>2, <2>3, <2>4, <2>5 DEF ServiceStep, SendStep
<1>3. Busy' = Busy
  BY <1>1 DEF Busy
<1>4. \A x \in Messages : EntriesOf(x) \subseteq EntriesOf(x)'
  BY <1>1 DEF EntriesOf
<1> QED BY <1>1, <1>2, <1>3, <1>4, SameReached, StillLoss

\* A process that is down has no worker that works.
NoneBusyDown == \A w \in Workers : w \in Busy => phase[EngineOf[w]] # "down"

LEMMA DownStep ==
  ASSUME PathInv, NoneBusyDown, [Next]_vars
  PROVE  NoneBusyDown'
<1>1. ASSUME NEW w \in Workers, WorkerStep(w) PROVE NoneBusyDown'
  <2>1. UNCHANGED phase
    BY <1>1 DEF WorkerStep, WorkerCall, Pop, Route, MarkSent, MarkDead, EnqueueDead,
                MarkFailed, WorkerReturn, dlqVars
  <2>2. \A v \in Workers : v # w => worker'[v] = worker[v]
    BY <1>1, PathTypes DEF WorkerStep, WorkerCall, Pop, Route, MarkSent, MarkDead,
         EnqueueDead, MarkFailed, WorkerReturn
  <2>3. w \in Busy \/ phase[EngineOf[w]] # "down"
    BY <1>1 DEF WorkerStep, WorkerCall, Pop, Route, MarkSent, MarkDead, EnqueueDead,
                MarkFailed, WorkerReturn, Busy
  <2> QED BY <2>1, <2>2, <2>3 DEF NoneBusyDown, Busy
<1>2. ASSUME NEW e \in Engines, StopCancel(e) \/ StopReturn(e) \/ Crash(e) \/ Start(e)
      PROVE  NoneBusyDown'
  <2>1. \A f \in Engines : f # e => phase'[f] = phase[f]
    BY <1>2, PathTypes DEF StopCancel, StopReturn, Crash, Start, Cancel, Exit, Die,
         StartLoop, DLQTypeOK
  <2>2. \A v \in Workers \ WorkersOf(e) : worker'[v] = worker[v]
    BY <1>2, PathTypes DEF StopCancel, StopReturn, Crash, Start, SetWorkers, WorkersOf
  <2>3. \A v \in Workers \ WorkersOf(e) : EngineOf[v] # e /\ EngineOf[v] \in Engines
    BY PathTypes DEF WorkersOf
  <2>4. ASSUME NEW v \in WorkersOf(e), v \in Busy' PROVE phase'[e] # "down"
    <3>1. CASE StopCancel(e)
      BY <3>1, PathTypes DEF StopCancel, Cancel, DLQTypeOK
    <3>2. CASE StopReturn(e)
      BY <2>4, <3>2 DEF StopReturn, Busy
    <3>3. CASE Crash(e) \/ Start(e)
      BY <2>4, <3>3, IdleWorker, PathTypes DEF Crash, Start, SetWorkers, Busy, WorkersOf
    <3> QED BY <1>2, <3>1, <3>2, <3>3
  <2> QED BY <2>1, <2>2, <2>3, <2>4 DEF NoneBusyDown, Busy, WorkersOf
<1>3. CASE UNCHANGED <<worker, phase>>
  BY <1>3 DEF NoneBusyDown, Busy
<1>4. ASSUME NEW e \in Engines, LoopStep(e) PROVE UNCHANGED phase
  BY <1>4 DEF LoopStep, Tick, RetryEntry, PublishRetry, MarkMessage, MarkEntry, LoopReturn
<1>5. CASE Next
  BY <1>1, <1>2, <1>3, <1>4, <1>5 DEF Next, EngineStep, processVars
<1> QED BY <1>3, <1>5 DEF vars, processVars

\* The invariant, with the account.
LossOK == NoneBusyDown /\ Account

LEMMA LossParts == LossOK <=> LossInv /\ Cardinality(AtStake) \in Nat
BY DEF LossOK, LossInv, NoneBusyDown, Account, Ransom, Busy

LEMMA NextLoss ==
  ASSUME IsFiniteSet(Workers), Engines # {}
  PROVE  PathInv /\ LossOK /\ [Next]_vars => LossOK'
<1> SUFFICES ASSUME PathInv, LossOK, [Next]_vars PROVE LossOK'
  OBVIOUS
<1>1. NoneBusyDown'
  BY DownStep DEF LossOK
<1>2. LossInv /\ Account
  BY LossParts DEF LossOK
<1>3. ASSUME EngineStep, UNCHANGED serviceVars PROVE Account'
  <2>1. ASSUME NEW w \in Workers, WorkerStep(w) PROVE Account'
    <3>1. ASSUME NEW o \in Outcome, MarkSent(w, o) PROVE Account'
      BY <1>2, <1>3, <3>1, CarryLoss, SentLoss
    <3> QED BY <1>2, <1>3, <2>1, <3>1, PopLoss, CarryLoss, EnqueueLoss, FailedLoss,
               ReturnLoss DEF WorkerStep, WorkerCall
  <2> QED BY <1>2, <1>3, <2>1, LoopLoss, InterruptionLoss, RestartLoss DEF EngineStep
<1>4. ASSUME ServiceStep, UNCHANGED processVars PROVE Account'
  BY <1>2, <1>4, ServiceLoss
<1>5. ASSUME UNCHANGED vars PROVE Account'
  <2>1. /\ UNCHANGED <<queue, entries, published, faults>> /\ UNCHANGED sends
        /\ UNCHANGED <<phase, interruptions, worker>>
    BY <1>5 DEF vars, storeVars, serviceVars, processVars
  <2>2. Busy' = Busy
    BY <2>1 DEF Busy
  <2> QED BY <1>2, <2>1, <2>2, SameReached, SameShelves, StillLoss DEF Accepted
<1>6. Account'
  BY <1>3, <1>4, <1>5 DEF Next
<1> QED BY <1>1, <1>6 DEF LossOK

LEMMA InitLoss ==
  ASSUME IsFiniteSet(Workers), Engines # {}, Init
  PROVE  LossOK
<1>1. /\ worker = [w \in Workers |-> Idle] /\ sends = [m \in Messages |-> "new"]
      /\ faults = 0 /\ interruptions = 0
  BY DEF Init, EngineInit, ServiceInit, StoreInit
<1>2. Busy = {}
  BY <1>1, IdleWorker DEF Busy
<1>3. AtStake = {}
  BY <1>1, <1>2 DEF AtStake, Lost, Accepted, Endangered, InDanger
<1>4. IsFiniteSet({}) /\ Cardinality({}) = 0 /\ Ransom(0) \in Nat
  BY FS_EmptySet, RansomGrows
<1>5. Account
  BY <1>1, <1>3, <1>4 DEF Account
<1> QED BY <1>2, <1>5 DEF LossOK, NoneBusyDown

\* With any fleet of engines, messages that are accepted and then lost have cost
\* a failed call each, beyond those that the workers of a stopped or dead engine
\* had in hand, one each: nothing else in the message path loses a message.
THEOREM LossesAlwaysAccounted ==
  ASSUME IsFiniteSet(Workers), Engines # {}
  PROVE  Spec => []LossesAccounted
<1>1. PathInv /\ LossOK => LossesAccounted
  <2> SUFFICES ASSUME PathInv, LossOK PROVE LossesAccounted
    OBVIOUS
  <2>1. LostMessages \subseteq AtStake
    BY DEF LostMessages, AtStake
  <2>2. /\ Cardinality(LostMessages) <= Cardinality(AtStake)
        /\ Cardinality(LostMessages) \in Nat
    BY <2>1, FS_Subset, FS_CardinalityType DEF LossOK, Account
  <2>3. Ransom(interruptions) \in Nat /\ faults \in Nat
    BY Counted, RansomGrows
  <2>4. Cardinality(LostMessages) <= faults + Ransom(interruptions)
    BY <2>2, <2>3 DEF LossOK, Account
  <2> QED BY <2>4 DEF LossesAccounted, Ransom
<1>2. Init => LossOK
  BY InitLoss
<1>3. PathInv /\ LossOK /\ [Next]_vars => LossOK'
  BY NextLoss
<1> QED BY <1>1, <1>2, <1>3, PathInvariant, PTL DEF Spec

-----------------------------------------------------------------------------
(***************************************************************************)
(* What duplicates cost, with one engine.  Nothing is sent to a recipient  *)
(* before a worker comes to it, and the worker sends it once.  A dead      *)
(* letter's copies are its retries and the one being made; a copy whose    *)
(* retry is not written has cost a failed call, or the interruption that   *)
(* the stopping engine's batch holds, one for each of its letters.         *)
(***************************************************************************)

\* Nobody has come to recipient i of message m yet.
ToCome(m, i) ==
  \/ sends[m] \in {"new", "push"}
  \/ Queued(m)
  \/ \E w \in Busy : /\ worker[w].msg = m
                     /\ worker[w].pc = "publish" /\ worker[w].next <= i

WorkerCopies(m, i) ==
  /\ ToCome(m, i) => published[m][i] = 0
  /\ EntriesOf(m) = {} => published[m][i] <= 1

\* A dead letter in the batch of an engine that is being stopped.
Leased(id) ==
  \E e \in Engines : phase[e] = "stopping" /\ \E b \in loop[e].batch : b.id = id

\* The retry of dead letter id that is being made has got past recipient i.
InRetry(id, i) ==
  \E e \in Engines : \E b \in loop[e].batch :
    /\ b.id = id /\ Current(e, b)
    /\ loop[e].next > i \/ loop[e].pc \in {"mark_message", "mark_entry"}

One(b) == IF b THEN 1 ELSE 0

Within(copies, lease, retries, current, cost) ==
  copies + lease <= 1 + retries + current + cost

LetterCopies(id, i) ==
  Within(published[entries[id].msg][i], One(Leased(id)), entries[id].retries,
         One(InRetry(id, i)), faults + interruptions)

CopiesInv ==
  /\ SnapshotFresh
  /\ \A e \in Engines : phase[e] = "down" => loop[e].batch = {}
  /\ \A m \in Messages : \A i \in Targets(m) : WorkerCopies(m, i)
  /\ \A id \in DOMAIN entries : \A i \in Targets(entries[id].msg) : LetterCopies(id, i)

\* With one engine.
OneEngine == \A e, f \in Engines : e = f

LEMMA CopyTypes ==
  ASSUME PathInv
  PROVE  /\ \A m \in Messages : \A i \in Targets(m) : i \in Nat /\ published[m][i] \in Nat
         /\ \A id \in DOMAIN entries : /\ entries[id].msg \in Messages
                                       /\ entries[id].retries \in Nat
<1>1. \A m \in Messages : \A i \in Targets(m) : i \in Nat
  BY TargetsFacts
<1>2. \A m \in Messages : \A i \in Targets(m) : published[m][i] \in Nat
  BY PathTypes DEF PublishedTypeOK
<1>3. DLQTypeOK
  BY PathTypes
<1> QED BY <1>1, <1>2, <1>3, EntryTypes

\* The message of a dead letter is out of the senders' and workers' hands.
LEMMA LetterIsAlone ==
  ASSUME PathInv, NEW id \in DOMAIN entries, NEW i
  PROVE  /\ ~ ToCome(entries[id].msg, i)
         /\ EntriesOf(entries[id].msg) # {}
         /\ \A x \in DOMAIN entries : entries[x].msg = entries[id].msg => x = id
<1> DEFINE m == entries[id].msg
<1>1. m \in Messages /\ id \in EntriesOf(m)
  BY CopyTypes DEF EntriesOf
<1>2. sends[m] \in {"accepted", "rejected"}
  BY <1>1 DEF PathInv, Custody, SendOrder
<1>3. ~ Queued(m) /\ \A x \in DOMAIN entries : entries[x].msg = m => x = id
  BY DEF PathInv, Custody, OneDeadLetter
<1>4. \A w \in Busy : worker[w].msg = m => worker[w].pc = "mark_failed"
  BY <1>1 DEF PathInv, Custody, OneDeadLetter
<1> QED BY <1>1, <1>2, <1>3, <1>4 DEF ToCome

\* The retry of a message is the retry of its dead letter.
LEMMA RetryOfLetter ==
  ASSUME PathInv, NEW id \in DOMAIN entries, NEW i
  PROVE  BeingRetried(entries[id].msg, i) <=> InRetry(id, i)
<1>1. DLQTypeOK
  BY PathTypes
<1>2. \A e \in Engines : \A b \in loop[e].batch :
        entries[b.id].msg = entries[id].msg <=> b.id = id
  BY <1>1, BatchEntry, LetterIsAlone
<1> QED BY <1>2 DEF BeingRetried, InRetry

-----------------------------------------------------------------------------
(* How the account of a dead letter is kept.                                *)

LEMMA OneIs == \A b : One(b) \in Nat /\ One(b) <= 1 /\ (b => One(b) = 1) /\ (~b => One(b) = 0)
BY DEF One

\* The costs before and after a step.
CostGrows ==
  /\ faults' = faults \/ faults' = faults + 1
  /\ interruptions' = interruptions \/ interruptions' = interruptions + 1

LEMMA Costs ==
  ASSUME PathInv, CostGrows
  PROVE  \E k, k2 \in Nat : /\ k = faults + interruptions
                            /\ k2 = faults' + interruptions' /\ k <= k2
                            /\ (faults' = faults + 1) => k2 >= k + 1
                            /\ (interruptions' = interruptions + 1) => k2 >= k + 1
<1>1. faults \in Nat /\ interruptions \in Nat
  BY Counted
<1>2. PICK fa \in Nat, n \in Nat : fa = faults /\ n = interruptions
  BY <1>1
<1>3. \E fb \in Nat : faults' = fb /\ (fb = fa \/ fb = fa + 1)
  <2>1. fa + 1 \in Nat
    OBVIOUS
  <2>2. faults' = fa \/ faults' = fa + 1
    BY <1>2 DEF CostGrows
  <2> QED BY <2>1, <2>2, Zenon
<1>4. \E nb \in Nat : interruptions' = nb /\ (nb = n \/ nb = n + 1)
  <2>1. n + 1 \in Nat
    OBVIOUS
  <2>2. interruptions' = n \/ interruptions' = n + 1
    BY <1>2 DEF CostGrows
  <2> QED BY <2>1, <2>2, Zenon
<1>5. PICK fb \in Nat : faults' = fb /\ (fb = fa \/ fb = fa + 1)
  BY <1>3
<1>6. PICK nb \in Nat : interruptions' = nb /\ (nb = n \/ nb = n + 1)
  BY <1>4
<1> DEFINE k == fa + n
           k2 == fb + nb
<1>7. (fb = fa \/ fb = fa + 1) /\ (nb = n \/ nb = n + 1)
  BY <1>5, <1>6, Zenon
<1>8. /\ k \in Nat /\ k2 \in Nat /\ k <= k2
      /\ fb = fa + 1 => k2 >= k + 1
      /\ nb = n + 1 => k2 >= k + 1
  BY ONLY <1>7, fa \in Nat, n \in Nat, fb \in Nat, nb \in Nat
<1>9. k = faults + interruptions /\ k2 = faults' + interruptions'
  BY <1>2, <1>5, <1>6, Zenon
<1>10. (faults' = faults + 1 <=> fb = fa + 1) /\ (interruptions' = interruptions + 1 <=> nb = n + 1)
  BY <1>2, <1>5, <1>6, Zenon
<1> HIDE DEF k, k2
<1> QED BY <1>8, <1>9, <1>10, Zenon

\* A step that leaves the letter and its copies alone.
LEMMA LetterFrame ==
  ASSUME PathInv, NEW id \in DOMAIN entries, NEW i \in Targets(entries[id].msg),
         LetterCopies(id, i), CostGrows,
         entries'[id] = entries[id],
         published'[entries[id].msg][i] = published[entries[id].msg][i],
         Leased(id)' => Leased(id),
         InRetry(id, i) => InRetry(id, i)'
  PROVE  LetterCopies(id, i)'
<1>1. PICK k, k2 \in Nat : k = faults + interruptions /\ k2 = faults' + interruptions' /\ k <= k2
  BY Costs
<1>2. PICK p, r \in Nat : p = published[entries[id].msg][i] /\ r = entries[id].retries
  BY CopyTypes
<1>3. PICK l, l2, c, c2 \in Nat :
        /\ l = One(Leased(id)) /\ l2 = One(Leased(id)') /\ l2 <= l
        /\ c = One(InRetry(id, i)) /\ c2 = One(InRetry(id, i)') /\ c <= c2
  BY OneIs
<1>4. Within(p, l, r, c, k)
  BY <1>1, <1>2, <1>3 DEF LetterCopies
<1>5. p + l2 + r + c + k <= p + l + r + c2 + k2
  BY <1>1, <1>2, <1>3
<1>6. Within(p, l2, r, c2, k2)
  BY <1>4, <1>5 DEF Within
<1> QED BY <1>1, <1>2, <1>3, <1>6 DEF LetterCopies, One

\* The account of an entry whose retry, lease or copies change.
LEMMA LetterMoves ==
  ASSUME PathInv, NEW id \in DOMAIN entries, NEW i \in Targets(entries[id].msg),
         LetterCopies(id, i),
         entries'[id].msg = entries[id].msg,
         NEW p \in Nat, NEW l \in Nat, NEW r \in Nat, NEW c \in Nat, NEW k \in Nat,
         NEW p2 \in Nat, NEW l2 \in Nat, NEW r2 \in Nat, NEW c2 \in Nat, NEW k2 \in Nat,
         p = published[entries[id].msg][i], p2 = published'[entries[id].msg][i],
         l = One(Leased(id)), l2 = One(Leased(id)'),
         r = entries[id].retries, r2 = entries'[id].retries,
         c = One(InRetry(id, i)), c2 = One(InRetry(id, i)'),
         k = faults + interruptions, k2 = faults' + interruptions',
         p2 + l2 + r + c + k <= p + l + r2 + c2 + k2
  PROVE  LetterCopies(id, i)'
<1>1. Within(p, l, r, c, k)
  BY DEF LetterCopies
<1>2. Within(p2, l2, r2, c2, k2)
  BY <1>1 DEF Within
<1> QED BY <1>2 DEF LetterCopies, One

\* A step after which the letters in the batches and how far their retries have
\* got are the same.
LEMMA SameBatches ==
  ASSUME UNCHANGED <<loop, phase>>
  PROVE  \A id, i : (Leased(id)' <=> Leased(id)) /\ (InRetry(id, i)' <=> InRetry(id, i))
BY DEF Leased, InRetry, Current

LEMMA CopyCount ==
  ASSUME PathInv, NEW m \in Messages, NEW i \in Targets(m), NEW o, Publish(m, i, o)
  PROVE  /\ \A x \in Messages : \A j \in Targets(x) :
              x # m \/ j # i => published'[x][j] = published[x][j]
         /\ Took(o) => published'[m][i] = published[m][i] + 1
         /\ ~ Took(o) => published' = published
<1>1. DOMAIN published = Messages /\ published[m] \in [Targets(m) -> Nat]
  BY PathTypes DEF PublishedTypeOK
<1>2. CASE Took(o)
  <2>1. published' = [published EXCEPT ![m] = [published[m] EXCEPT ![i] = published[m][i] + 1]]
    BY <1>2 DEF Publish
  <2>2. /\ \A x \in Messages : x # m => published'[x] = published[x]
        /\ published'[m] = [published[m] EXCEPT ![i] = published[m][i] + 1]
    BY <1>1, <2>1
  <2>3. /\ \A j \in Targets(m) : j # i => published'[m][j] = published[m][j]
        /\ published'[m][i] = published[m][i] + 1
    BY <1>1, <2>2
  <2> QED BY <1>2, <2>2, <2>3
<1>3. CASE ~ Took(o)
  BY <1>3 DEF Publish
<1> QED BY <1>2, <1>3

-----------------------------------------------------------------------------
(* The snapshot stays fresh on the whole path.                              *)

LEMMA FreshPath ==
  ASSUME OneEngine, PathInv, SnapshotFresh, [Next]_vars
  PROVE  SnapshotFresh'
<1>1. DLQInv /\ DLQTypeOK
  BY PathTypes DEF PathInv
<1>2. CASE UNCHANGED <<entries, loop>>
  BY <1>2 DEF SnapshotFresh
<1>3. ASSUME NEW w \in Workers, NEW o \in Outcome, EnqueueDead(w, o) PROVE SnapshotFresh'
  <2>1. worker[w].msg \in Messages /\ UNCHANGED loop
    BY <1>3, BusyWorker DEF EnqueueDead
  <2>2. \A id \in DOMAIN entries : entries'[id] = entries[id]
    BY <1>3, <2>1, EntryCreated, PathTypes DEF EnqueueDead
  <2> QED BY <1>1, <2>1, <2>2, BatchEntry DEF SnapshotFresh
<1>4. ASSUME NEW w \in Workers, WorkerStep(w) PROVE SnapshotFresh'
  <2>1. ASSUME NEW o \in Outcome, ~ EnqueueDead(w, o), WorkerCall(w, o)
        PROVE  UNCHANGED <<entries, loop>>
    BY <2>1 DEF WorkerCall, Pop, Route, MarkSent, MarkDead, MarkFailed
  <2>2. WorkerReturn(w) => UNCHANGED <<entries, loop>>
    BY DEF WorkerReturn, dlqVars, storeVars
  <2> QED BY <1>2, <1>3, <1>4, <2>1, <2>2 DEF WorkerStep
<1>5. ASSUME NEW e \in Engines,
             \/ LoopStep(e)
             \/ StopCancel(e) \/ StopReturn(e) \/ Crash(e) \/ Start(e)
      PROVE  SnapshotFresh'
  <2>1. DLQNext
    BY <1>5 DEF DLQNext, StopCancel, StopReturn, Crash, Start
  <2> QED BY <1>1, <2>1, FreshStep DEF OneEngine
<1>6. ServiceStep /\ UNCHANGED processVars => UNCHANGED <<entries, loop>>
  BY DEF ServiceStep, SendStep, SendCreate, SendPush, SendAbandoned, AckStep,
         AckBegin, AckInsert, AckUpdate, AckAbandoned, storeVars, processVars
<1>7. UNCHANGED vars => UNCHANGED <<entries, loop>>
  BY DEF vars, storeVars, processVars
<1> QED BY <1>2, <1>4, <1>5, <1>6, <1>7 DEF Next, EngineStep

\* A process that is down has no batch.
NoBatchDown == \A e \in Engines : phase[e] = "down" => loop[e].batch = {}

LEMMA DownBatch ==
  ASSUME PathInv, NoBatchDown, [Next]_vars
  PROVE  NoBatchDown'
<1>1. DLQTypeOK /\ \A e \in Engines : LoopOK(e)
  BY PathTypes DEF PathInv, DLQInv
<1>2. CASE UNCHANGED <<phase, loop>>
  BY <1>2 DEF NoBatchDown
<1>3. ASSUME NEW e \in Engines, LoopStep(e) PROVE NoBatchDown'
  <2>1. UNCHANGED phase
    BY <1>3 DEF LoopStep, Tick, RetryEntry, PublishRetry, MarkMessage, MarkEntry, LoopReturn
  <2>2. \A f \in Engines : f # e => loop'[f] = loop[f]
    BY <1>1, <1>3 DEF LoopStep, Tick, RetryEntry, PublishRetry, MarkMessage, MarkEntry,
                      LoopReturn, DLQTypeOK
  <2>3. phase[e] # "down"
    BY <1>3 DEF LoopStep, Tick, RetryEntry, LoopReturn, NoBatchDown
  <2> QED BY <2>1, <2>2, <2>3 DEF NoBatchDown
<1>4. ASSUME NEW e \in Engines, StopCancel(e) \/ StopReturn(e) \/ Crash(e) \/ Start(e)
      PROVE  NoBatchDown'
  <2>1. \A f \in Engines : f # e => loop'[f] = loop[f] /\ phase'[f] = phase[f]
    BY <1>1, <1>4 DEF StopCancel, StopReturn, Crash, Start, Cancel, Exit, Die, StartLoop,
                      DLQTypeOK
  <2>2. phase'[e] = "down" => loop'[e].batch = {}
    <3>1. CASE StopCancel(e)
      BY <1>1, <3>1 DEF StopCancel, Cancel, DLQTypeOK
    <3>2. CASE StopReturn(e)
      BY <1>1, <3>2 DEF StopReturn, Exit, LoopOK, Working
    <3>3. CASE Crash(e)
      BY <1>1, <3>3, RestTypes DEF Crash, Die, DLQTypeOK
    <3>4. CASE Start(e)
      BY <1>1, <3>4 DEF Start, StartLoop, DLQTypeOK
    <3> QED BY <1>4, <3>1, <3>2, <3>3, <3>4
  <2> QED BY <2>1, <2>2 DEF NoBatchDown
<1>5. ASSUME NEW w \in Workers, WorkerStep(w) PROVE UNCHANGED <<phase, loop>>
  BY <1>5 DEF WorkerStep, WorkerCall, Pop, Route, MarkSent, MarkDead, EnqueueDead,
              MarkFailed, WorkerReturn, dlqVars
<1>6. UNCHANGED processVars \/ UNCHANGED vars => UNCHANGED <<phase, loop>>
  BY DEF vars, processVars
<1> QED BY <1>2, <1>3, <1>4, <1>5, <1>6 DEF Next, EngineStep

\* A step costs nothing, or a failed call, or an interruption.
LEMMA CostStep ==
  ASSUME [Next]_vars
  PROVE  CostGrows
<1>1. ASSUME NEW w \in Workers, WorkerStep(w) PROVE CostGrows
  <2>1. ASSUME NEW o \in Outcome, WorkerCall(w, o) PROVE CostGrows
    BY <2>1, CallCost DEF WorkerCall, Pop, Route, MarkSent, MarkDead, EnqueueDead,
                          MarkFailed, CostGrows
  <2>2. WorkerReturn(w) => CostGrows
    BY DEF WorkerReturn, dlqVars, storeVars, CostGrows
  <2> QED BY <1>1, <2>1, <2>2 DEF WorkerStep
<1>2. ASSUME NEW e \in Engines, LoopStep(e) PROVE CostGrows
  <2>1. ASSUME NEW o \in Outcome, Tick(e, o) \/ RetryEntry(e, o) PROVE CostGrows
    BY <2>1, CallCost DEF Tick, RetryEntry, PublishRetry, MarkMessage, MarkEntry, CostGrows
  <2>2. LoopReturn(e) => CostGrows
    BY DEF LoopReturn, storeVars, CostGrows
  <2> QED BY <1>2, <2>1, <2>2 DEF LoopStep
<1>3. ASSUME NEW e \in Engines, StopCancel(e) \/ StopReturn(e) \/ Crash(e) \/ Start(e)
      PROVE  CostGrows
  BY <1>3 DEF StopCancel, StopReturn, Crash, Start, Cancel, Exit, Die, StartLoop,
              storeVars, CostGrows
<1>4. ASSUME ServiceStep, UNCHANGED processVars PROVE CostGrows
  <2>1. UNCHANGED interruptions
    BY <1>4 DEF processVars
  <2>2. ASSUME NEW m \in Messages, NEW o \in Outcome, SendCreate(m, o) \/ SendPush(m, o)
        PROVE  faults' = faults \/ faults' = faults + 1
    BY <2>2, CallCost DEF SendCreate, SendPush
  <2>3. ASSUME NEW h \in Handlers, NEW o \in Outcome, AckInsert(h, o) \/ AckUpdate(h, o)
        PROVE  faults' = faults \/ faults' = faults + 1
    BY <2>3, CallCost DEF AckInsert, AckUpdate
  <2>4. ASSUME NEW m \in Messages, SendAbandoned(m) PROVE UNCHANGED faults
    BY <2>4 DEF SendAbandoned, storeVars
  <2>5. ASSUME NEW h \in Handlers, NEW n \in Nonces, NEW r \in Ack, AckBegin(h, n, r)
        PROVE  UNCHANGED faults
    BY <2>5 DEF AckBegin, storeVars
  <2>6. ASSUME NEW h \in Handlers, AckAbandoned(h) PROVE UNCHANGED faults
    BY <2>6 DEF AckAbandoned, storeVars
  <2> QED BY <1>4, <2>1, <2>2, <2>3, <2>4, <2>5, <2>6
    DEF ServiceStep, SendStep, AckStep, CostGrows
<1>5. UNCHANGED vars => CostGrows
  BY DEF vars, storeVars, processVars, CostGrows
<1> QED BY <1>1, <1>2, <1>3, <1>4, <1>5 DEF Next, EngineStep

-----------------------------------------------------------------------------
(* What the workers send.                                                   *)

\* The workers' copies of a message are not disturbed by a step that sends it
\* to nobody and brings nobody closer to it.
LEMMA WorkerCopiesFrame ==
  ASSUME PathInv, NEW m \in Messages, NEW i \in Targets(m), WorkerCopies(m, i),
         published'[m][i] = published[m][i],
         EntriesOf(m) \subseteq EntriesOf(m)',
         ToCome(m, i)' => ToCome(m, i)
  PROVE  WorkerCopies(m, i)'
BY DEF WorkerCopies

\* With the same senders and list, a worker that is to come to the recipient
\* already was.
LEMMA ToComeFrame ==
  ASSUME NEW m, NEW i,
         sends'[m] \in {"new", "push"} => sends[m] \in {"new", "push"},
         Queued(m)' => ToCome(m, i),
         \A v \in Workers :
           worker'[v].pc = "publish" /\ worker'[v].msg = m /\ worker'[v].next <= i =>
             ToCome(m, i),
         ToCome(m, i)'
  PROVE  ToCome(m, i)
<1>1. CASE sends'[m] \in {"new", "push"}
  BY <1>1 DEF ToCome
<1>2. CASE Queued(m)'
  BY <1>2
<1>3. ASSUME NEW v \in Busy', worker'[v].msg = m, worker'[v].pc = "publish",
             worker'[v].next <= i
      PROVE  ToCome(m, i)
  BY <1>3 DEF Busy
<1> QED BY <1>1, <1>2, <1>3 DEF ToCome

LEMMA PublishingToCome ==
  ASSUME NEW v \in Workers, worker[v].pc = "publish", NEW i, worker[v].next <= i
  PROVE  ToCome(worker[v].msg, i)
BY DEF ToCome, Busy

LEMMA RouteCopies ==
  ASSUME PathInv, NEW w \in Workers, NEW o \in Outcome, Route(w, o), UNCHANGED serviceVars,
         NEW x \in Messages, NEW j \in Targets(x), WorkerCopies(x, j)
  PROVE  WorkerCopies(x, j)'
<1>1. /\ worker[w].msg \in Messages /\ w \in Busy /\ worker[w].pc = "publish"
      /\ worker[w].next \in Targets(worker[w].msg)
  BY BusyWorker DEF Route, PathInv, WorkerOK
<1>2. PICK m \in Messages : \E i \in Targets(m) : m = worker[w].msg /\ i = worker[w].next
  BY <1>1
<1>0. PICK i \in Targets(m) : m = worker[w].msg /\ i = worker[w].next
  BY <1>2
<1>3. /\ UNCHANGED <<queue, entries, sends>> /\ Publish(m, i, o)
      /\ i \in Nat /\ j \in Nat
  BY <1>0, CopyTypes DEF Route, serviceVars
<1>4. /\ \A y \in Messages : \A k \in Targets(y) :
              y # m \/ k # i => published'[y][k] = published[y][k]
      /\ Took(o) => published'[m][i] = published[m][i] + 1
      /\ ~ Took(o) => published' = published
  BY <1>3, CopyCount
<1>5. /\ \A v \in Workers : v # w => worker'[v] = worker[v]
      /\ worker'[w].pc = "publish" => /\ worker'[w].msg = m
                                      /\ worker'[w].next = i + 1
  <2>1. worker \in [Workers -> Worker]
    BY PathTypes
  <2>2. \/ worker' = [worker EXCEPT ![w].next = i + 1]
        \/ \E pc \in {"mark_sent", "mark_dead"} : worker' = [worker EXCEPT ![w].pc = pc]
    BY <1>0 DEF Route
  <2> QED BY <1>0, <2>1, <2>2 DEF Worker
<1>6. ASSUME ToCome(x, j)' PROVE ToCome(x, j)
  <2>1. Queued(x)' => ToCome(x, j)
    BY <1>3 DEF Queued, ToCome
  <2>2. ASSUME NEW v \in Workers, worker'[v].pc = "publish", worker'[v].msg = x,
               worker'[v].next <= j
        PROVE  ToCome(x, j)
    <3>1. CASE v = w
      <4>1. x = m /\ i + 1 <= j
        BY <1>5, <2>2, <3>1
      <4>2. i <= j
        BY <1>3, <4>1
      <4> QED BY <1>1, <1>0, <4>1, <4>2, PublishingToCome
    <3>2. CASE v # w
      BY <1>5, <2>2, <3>2, PublishingToCome
    <3> QED BY <3>1, <3>2
  <2> QED BY <1>3, <1>6, <2>1, <2>2, ToComeFrame
<1>7. CASE x # m \/ j # i \/ ~ Took(o)
  <2>1. published'[x][j] = published[x][j]
    BY <1>4, <1>7
  <2>2. EntriesOf(x) \subseteq EntriesOf(x)'
    BY <1>3 DEF EntriesOf
  <2> QED BY <1>6, <2>1, <2>2, WorkerCopiesFrame
<1>8. CASE x = m /\ j = i /\ Took(o)
  <2>1. i <= i
    BY <1>3
  <2>2. ToCome(m, i)
    BY <1>1, <1>0, <2>1, PublishingToCome
  <2>3. published[m][i] = 0
    BY <1>8, <2>2 DEF WorkerCopies
  <2>4. published'[m][i] = 1
    BY <1>4, <1>8, <2>3
  <2>5. ~ ToCome(m, i)'
    <3>1. sends'[m] \notin {"new", "push"} /\ ~ Queued(m)'
      <4>1. Held(m) /\ ~ Queued(m)
        BY <1>1, <1>0 DEF Held, PathInv, Custody, ExclusiveCustody
      <4>2. sends[m] \in {"accepted", "rejected"}
        BY <4>1 DEF PathInv, Custody, SendOrder
      <4> QED BY <1>3, <4>1, <4>2 DEF Queued
    <3>2. ASSUME NEW v \in Busy', worker'[v].msg = m, worker'[v].pc = "publish"
          PROVE  ~ (worker'[v].next <= i)
      <4>1. v \in Workers
        BY <3>2 DEF Busy
      <4>2. v = w
        <5>1. ASSUME v # w PROVE FALSE
          <6>1. v \in Busy /\ worker[v].msg = m
            BY <1>5, <3>2, <4>1, <5>1 DEF Busy
          <6> QED BY <1>1, <1>0, <5>1, <6>1 DEF PathInv, Custody, ExclusiveCustody
        <5> QED BY <5>1
      <4>3. worker'[v].next = i + 1
        BY <1>5, <3>2, <4>2
      <4>4. ~ (i + 1 <= i)
        BY <1>3
      <4> QED BY <4>3, <4>4
    <3> QED BY <3>1, <3>2 DEF ToCome
  <2>6. published'[m][i] <= 1
    BY <2>4
  <2> QED BY <1>8, <2>5, <2>6 DEF WorkerCopies
<1> QED BY <1>7, <1>8

LEMMA OtherWorkerCopies ==
  ASSUME PathInv, NEW w \in Workers, WorkerStep(w), UNCHANGED serviceVars,
         \A o \in Outcome : ~ Route(w, o),
         NEW x \in Messages, NEW j \in Targets(x), WorkerCopies(x, j)
  PROVE  WorkerCopies(x, j)'
<1>1. UNCHANGED <<published, sends>>
  BY DEF WorkerStep, WorkerCall, Pop, MarkSent, MarkDead, EnqueueDead,
         MarkFailed, WorkerReturn, dlqVars, storeVars, serviceVars
<1>2. \A v \in Workers : v # w => worker'[v] = worker[v]
  BY PathTypes DEF WorkerStep, WorkerCall, Pop, MarkSent, MarkDead, EnqueueDead,
                   MarkFailed, WorkerReturn
<1>3. EntriesOf(x) \subseteq EntriesOf(x)'
  <2>1. ASSUME NEW o \in Outcome, EnqueueDead(w, o)
        PROVE  /\ DOMAIN entries \subseteq DOMAIN entries'
               /\ \A id \in DOMAIN entries : entries'[id] = entries[id]
    <3>1. worker[w].msg \in Messages
      BY <2>1, BusyWorker DEF EnqueueDead
    <3> QED BY <2>1, <3>1, EntryCreated, PathTypes DEF EnqueueDead
  <2>2. (\A o \in Outcome : ~ EnqueueDead(w, o)) => UNCHANGED entries
    BY DEF WorkerStep, WorkerCall, Pop, MarkSent, MarkDead, MarkFailed, WorkerReturn,
           dlqVars, storeVars
  <2> QED BY <2>1, <2>2 DEF EntriesOf
<1>4. ASSUME ToCome(x, j)' PROVE ToCome(x, j)
  <2>1. CASE \E o \in Outcome : Pop(w, o)
    <3>1. PICK o \in Outcome : Pop(w, o)
      BY <2>1
    <3>2. queue \in Seq(Messages) /\ queue # << >> /\ queue' = Tail(queue)
      BY <3>1, PathTypes DEF Pop, RPop, Took
    <3>3. /\ \A i \in DOMAIN queue' : i + 1 \in DOMAIN queue /\ queue'[i] = queue[i + 1]
          /\ 1 \in DOMAIN queue /\ queue[1] = Head(queue)
      BY <3>2
    <3>4. Queued(x)' => Queued(x)
      BY <3>3 DEF Queued
    <3>5. Queued(Head(queue))
      BY <3>3 DEF Queued
    <3>6. worker'[w] = worker[w] \/ worker'[w].msg = Head(queue)
      <4> DEFINE r == [pc |-> "publish", msg |-> Head(queue), next |-> 1]
      <4>1. r.msg = Head(queue)
        OBVIOUS
      <4> HIDE DEF r
      <4>2. worker' = worker \/ worker' = [worker EXCEPT ![w] = r]
        BY <3>1 DEF Pop, r
      <4> QED BY <4>1, <4>2, PathTypes
    <3>7. ASSUME NEW v \in Workers, worker'[v].pc = "publish", worker'[v].msg = x,
                 worker'[v].next <= j
          PROVE  ToCome(x, j)
      <4>1. CASE worker'[v] = worker[v]
        BY <3>7, <4>1, PublishingToCome
      <4>2. CASE x = Head(queue)
        BY <3>5, <4>2 DEF ToCome
      <4> QED BY <1>2, <3>6, <3>7, <4>1, <4>2
    <3>8. Queued(x)' => ToCome(x, j)
      BY <3>4 DEF ToCome
    <3> QED BY <1>1, <1>4, <3>7, <3>8, ToComeFrame
  <2>2. CASE \A o \in Outcome : ~ Pop(w, o)
    <3>1. UNCHANGED queue
      BY <2>2 DEF WorkerStep, WorkerCall, MarkSent, MarkDead, EnqueueDead,
                  MarkFailed, WorkerReturn, dlqVars, storeVars
    <3>2. worker'[w].pc # "publish"
      <4>1. worker'[w] \in {Idle, Gone} \/ worker'[w].pc \in {"mark_dead", "enqueue", "mark_failed"}
        BY <2>2, PathTypes DEF WorkerStep, WorkerCall, MarkSent, MarkDead, EnqueueDead,
                    MarkFailed, WorkerReturn, Worker
      <4> QED BY <4>1, IdleWorker
    <3>3. ASSUME NEW v \in Workers, worker'[v].pc = "publish", worker'[v].msg = x,
                 worker'[v].next <= j
          PROVE  ToCome(x, j)
      BY <1>2, <3>2, <3>3, PublishingToCome
    <3>4. Queued(x)' => ToCome(x, j)
      BY <3>1 DEF Queued, ToCome
    <3> QED BY <1>1, <1>4, <3>3, <3>4, ToComeFrame
  <2> QED BY <2>1, <2>2
<1> QED BY <1>1, <1>3, <1>4, WorkerCopiesFrame

\* A step of the loop sends only messages with a dead letter.
LEMMA LoopWorkerCopies ==
  ASSUME PathInv, NEW e \in Engines, LoopStep(e), UNCHANGED <<worker, serviceVars>>,
         NEW x \in Messages, NEW j \in Targets(x), WorkerCopies(x, j)
  PROVE  WorkerCopies(x, j)'
<1>1. queue' = queue /\ UNCHANGED <<worker, sends>>
  BY LoopEffect DEF serviceVars
<1>2. EntriesOf(x) \subseteq EntriesOf(x)'
  BY LoopEffect DEF EntriesOf
<1>3. ToCome(x, j)' => ToCome(x, j)
  BY <1>1 DEF ToCome, Queued, Busy
<1>4. CASE published'[x][j] = published[x][j]
  BY <1>2, <1>3, <1>4, WorkerCopiesFrame
<1>5. CASE published'[x][j] # published[x][j]
  <2>1. \E b \in loop[e].batch : entries[b.id].msg = x
    <3>1. PICK o \in Outcome, b \in loop[e].batch : PublishRetry(e, b, o)
      BY <1>5 DEF LoopStep, Tick, RetryEntry, MarkMessage, MarkEntry, LoopReturn, storeVars
    <3>2. DLQTypeOK /\ LoopOK(e)
      BY PathTypes DEF PathInv, DLQInv
    <3>3. PICK m \in Messages : m = entries[b.id].msg
      BY <3>2, BatchEntry
    <3>4. PICK i \in Targets(m) : i = loop[e].next
      BY <3>1, <3>2, <3>3 DEF LoopOK, EntryInHand, PublishRetry
    <3>5. Publish(m, i, o)
      BY <3>1, <3>3, <3>4 DEF PublishRetry
    <3>6. x = m
      BY <1>5, <3>5, CopyCount
    <3> QED BY <3>3, <3>6
  <2>2. PICK id \in DOMAIN entries : entries[id].msg = x
    BY <2>1, BatchEntry, PathTypes
  <2>3. ~ ToCome(x, j) /\ EntriesOf(x) # {}
    BY <2>2, LetterIsAlone
  <2> QED BY <1>2, <1>3, <2>3 DEF WorkerCopies
<1> QED BY <1>4, <1>5

LEMMA LifeWorkerCopies ==
  ASSUME PathInv, NEW e \in Engines,
         StopCancel(e) \/ StopReturn(e) \/ Crash(e) \/ Start(e), UNCHANGED serviceVars,
         NEW x \in Messages, NEW j \in Targets(x), WorkerCopies(x, j)
  PROVE  WorkerCopies(x, j)'
<1>1. UNCHANGED <<queue, entries, published, sends>>
  BY DEF StopCancel, StopReturn, Crash, Start, storeVars, serviceVars
<1>2. \A v \in Workers : worker'[v] = worker[v] \/ worker'[v].pc # "publish"
  <2>1. \A v \in Workers : worker'[v] \in {worker[v], Idle, Gone}
    BY PathTypes DEF StopCancel, StopReturn, Crash, Start, SetWorkers
  <2> QED BY <2>1, IdleWorker
<1>3. ASSUME ToCome(x, j)' PROVE ToCome(x, j)
  <2>1. \A v \in Workers :
          worker'[v].pc = "publish" /\ worker'[v].msg = x /\ worker'[v].next <= j =>
            ToCome(x, j)
    BY <1>2, PublishingToCome
  <2>2. Queued(x)' => ToCome(x, j)
    BY <1>1 DEF Queued, ToCome
  <2> QED BY <1>1, <1>3, <2>1, <2>2, ToComeFrame
<1>4. EntriesOf(x) \subseteq EntriesOf(x)'
  BY <1>1 DEF EntriesOf
<1> QED BY <1>1, <1>3, <1>4, WorkerCopiesFrame

LEMMA ServiceWorkerCopies ==
  ASSUME PathInv, ServiceStep, UNCHANGED processVars,
         NEW x \in Messages, NEW j \in Targets(x), WorkerCopies(x, j)
  PROVE  WorkerCopies(x, j)'
<1>1. UNCHANGED <<worker, entries, published>>
  BY DEF ServiceStep, SendStep, SendCreate, SendPush, SendAbandoned, AckStep,
         AckBegin, AckInsert, AckUpdate, AckAbandoned, storeVars, processVars
<1> DEFINE Before == sends'[x] \in {"new", "push"} => sends[x] \in {"new", "push"}
<1>2. /\ Before
      /\ Queued(x)' => Queued(x) \/ sends[x] = "push"
  <2>1. ASSUME NEW m \in Messages, NEW o \in Outcome, SendCreate(m, o)
        PROVE  Before /\ UNCHANGED queue
    BY <2>1, PathTypes DEF SendCreate
  <2>2. ASSUME NEW m \in Messages, NEW o \in Outcome, SendPush(m, o)
        PROVE  Before /\ (Queued(x)' => Queued(x) \/ sends[x] = "push")
    <3>1. Before
      BY <2>2, PathTypes DEF SendPush
    <3>2. queue \in Seq(Messages) /\ (queue' = queue \/ queue' = Append(queue, m))
      BY <2>2, PathTypes DEF SendPush, LPush
    <3>3. \A i \in DOMAIN queue' : queue'[i] = m \/ (i \in DOMAIN queue /\ queue'[i] = queue[i])
      BY <3>2
    <3>4. Queued(x)' => Queued(x) \/ x = m
      BY <3>3 DEF Queued
    <3> QED BY <2>2, <3>1, <3>4 DEF SendPush
  <2>3. ASSUME NEW m \in Messages, SendAbandoned(m) PROVE Before /\ UNCHANGED queue
    BY <2>3 DEF SendAbandoned, storeVars
  <2>4. ASSUME NEW h \in Handlers,
               \/ \E n \in Nonces, r \in Ack : AckBegin(h, n, r)
               \/ AckStep(h) \/ AckAbandoned(h)
        PROVE  UNCHANGED <<queue, sends>>
    BY <2>4 DEF AckBegin, AckStep, AckInsert, AckUpdate, AckAbandoned, storeVars
  <2>5. UNCHANGED queue => (Queued(x)' => Queued(x))
    BY DEF Queued
  <2> QED BY <2>1, <2>2, <2>3, <2>4, <2>5 DEF ServiceStep, SendStep
<1>3. ASSUME ToCome(x, j)' PROVE ToCome(x, j)
  <2>1. \A v \in Workers :
          worker'[v].pc = "publish" /\ worker'[v].msg = x /\ worker'[v].next <= j =>
            ToCome(x, j)
    BY <1>1, PublishingToCome
  <2>2. Queued(x)' => ToCome(x, j)
    BY <1>2 DEF ToCome
  <2> QED BY <1>2, <1>3, <2>1, <2>2, ToComeFrame
<1>4. EntriesOf(x) \subseteq EntriesOf(x)'
  BY <1>1 DEF EntriesOf
<1> QED BY <1>1, <1>3, <1>4, WorkerCopiesFrame

\* The workers' copies, whatever happens.
LEMMA WorkerCopiesStep ==
  ASSUME PathInv, [Next]_vars, NEW x \in Messages, NEW j \in Targets(x), WorkerCopies(x, j)
  PROVE  WorkerCopies(x, j)'
<1>1. ASSUME UNCHANGED vars PROVE WorkerCopies(x, j)'
  <2>1. UNCHANGED <<queue, entries, published, sends, worker>>
    BY <1>1 DEF vars, storeVars, processVars, serviceVars
  <2> QED BY <2>1 DEF WorkerCopies, ToCome, Queued, EntriesOf, Busy
<1>2. ASSUME NEW w \in Workers, WorkerStep(w), UNCHANGED serviceVars
      PROVE  WorkerCopies(x, j)'
  BY <1>2, RouteCopies, OtherWorkerCopies
<1> QED BY <1>1, <1>2, LoopWorkerCopies, LifeWorkerCopies, ServiceWorkerCopies
  DEF Next, EngineStep

-----------------------------------------------------------------------------
(* What the retries send.                                                   *)

\* A step that leaves the loops alone takes nothing from a letter that stays.
LEMMA LettersFrame ==
  ASSUME PathInv, CostGrows, UNCHANGED <<loop, phase>>,
         NEW id \in DOMAIN entries, NEW i \in Targets(entries[id].msg), LetterCopies(id, i),
         entries'[id] = entries[id],
         published'[entries[id].msg][i] = published[entries[id].msg][i]
  PROVE  LetterCopies(id, i)'
BY SameBatches, LetterFrame

Letters == \A id \in DOMAIN entries : \A i \in Targets(entries[id].msg) : LetterCopies(id, i)

LEMMA WorkerLetters ==
  ASSUME PathInv, CostGrows, Letters, NEW w \in Workers, WorkerStep(w), UNCHANGED serviceVars,
         \A m \in Messages : \A i \in Targets(m) : WorkerCopies(m, i)
  PROVE  Letters'
<1>1. UNCHANGED <<loop, phase>>
  BY DEF WorkerStep, WorkerCall, Pop, Route, MarkSent, MarkDead, EnqueueDead,
         MarkFailed, WorkerReturn, dlqVars
<1>2. CASE UNCHANGED <<entries, published>>
  BY <1>1, <1>2, LettersFrame DEF Letters, Targets
<1>3. ASSUME NEW o \in Outcome, Route(w, o) PROVE Letters'
  <2>1. /\ worker[w].msg \in Messages /\ worker[w].next \in Targets(worker[w].msg)
        /\ w \in Busy /\ worker[w].pc = "publish"
    BY <1>3, BusyWorker DEF Route, PathInv, WorkerOK
  <2>2. UNCHANGED entries /\ Publish(worker[w].msg, worker[w].next, o)
    BY <1>3 DEF Route
  <2>3. \A y \in Messages : \A k \in Targets(y) :
          y # worker[w].msg => published'[y][k] = published[y][k]
    BY <2>1, <2>2, CopyCount
  <2>4. ASSUME NEW id \in DOMAIN entries, NEW i \in Targets(entries[id].msg)
        PROVE  LetterCopies(id, i)'
    <3>1. i <= i /\ entries[id].msg \in Messages
      BY CopyTypes
    <3>2. EntriesOf(worker[w].msg) = {}
      BY <2>1 DEF PathInv, Custody, OneDeadLetter
    <3>3. entries[id].msg # worker[w].msg
      BY <3>2 DEF EntriesOf
    <3>4. published'[entries[id].msg][i] = published[entries[id].msg][i]
      BY <2>3, <3>1, <3>3
    <3> QED BY <1>1, <2>2, <3>4, LettersFrame DEF Letters
  <2> QED BY <2>2, <2>4 DEF Letters, Targets
<1>4. ASSUME NEW o \in Outcome, EnqueueDead(w, o) PROVE Letters'
  <2>1. worker[w].msg \in Messages /\ w \in Busy
    BY <1>4, BusyWorker DEF EnqueueDead
  <2>2. PICK m \in Messages : m = worker[w].msg
    BY <2>1
  <2>3. /\ DOMAIN entries \subseteq DOMAIN entries'
        /\ \A id \in DOMAIN entries : entries'[id] = entries[id]
        /\ \A id \in DOMAIN entries' \ DOMAIN entries :
             entries'[id] = [msg |-> m, status |-> "pending", retries |-> 0]
    BY <1>4, <2>2, EntryCreated, PathTypes DEF EnqueueDead
  <2>4. UNCHANGED published
    BY <1>4 DEF EnqueueDead
  <2>5. ASSUME NEW id \in DOMAIN entries, NEW i \in Targets(entries[id].msg)
        PROVE  LetterCopies(id, i)'
    BY <1>1, <2>3, <2>4, <2>5, LettersFrame DEF Letters
  <2>6. ASSUME NEW id \in DOMAIN entries' \ DOMAIN entries, NEW i \in Targets(m)
        PROVE  LetterCopies(id, i)'
    <3>1. entries'[id].msg = m /\ entries'[id].retries = 0
      BY <2>3
    <3>2. EntriesOf(m) = {}
      BY <1>4, <2>1, <2>2 DEF PathInv, Custody, OneDeadLetter, EnqueueDead
    <3>3. published[m][i] \in Nat /\ published[m][i] <= 1
      BY <3>2, CopyTypes DEF WorkerCopies
    <3>4. ~ Leased(id)
      BY BatchEntry, PathTypes DEF Leased
    <3>5. ~ Leased(id)'
      BY <1>1, <3>4, SameBatches
    <3>6. PICK k, k2 \in Nat : k = faults + interruptions /\ k2 = faults' + interruptions'
      BY Costs
    <3>7. PICK p, c, l \in Nat : /\ p = published[m][i] /\ p <= 1
                                /\ c = One(InRetry(id, i)') /\ l = One(Leased(id)') /\ l = 0
      BY <3>3, <3>5, OneIs
    <3>8. Within(p, l, 0, c, k2)
      <4>1. p + l <= 1 + 0 + c + k2
        BY <3>6, <3>7
      <4> QED BY <4>1 DEF Within
    <3> QED BY <2>4, <3>1, <3>6, <3>7, <3>8 DEF LetterCopies, One
  <2> QED BY <2>3, <2>5, <2>6 DEF Letters, Targets
<1>5. (\A o \in Outcome : ~ Route(w, o) /\ ~ EnqueueDead(w, o)) => UNCHANGED <<entries, published>>
  BY DEF WorkerStep, WorkerCall, Pop, MarkSent, MarkDead, MarkFailed, WorkerReturn,
         dlqVars, storeVars
<1> QED BY <1>2, <1>3, <1>4, <1>5

\* One engine: what is in a batch is in the batch of e.
LEMMA OnlyBatch ==
  ASSUME OneEngine, NEW e \in Engines, NEW id, NEW i
  PROVE  /\ Leased(id) <=> (phase[e] = "stopping" /\ \E b \in loop[e].batch : b.id = id)
         /\ InRetry(id, i) <=>
              \E b \in loop[e].batch :
                /\ b.id = id /\ Current(e, b)
                /\ loop[e].next > i \/ loop[e].pc \in {"mark_message", "mark_entry"}
         /\ Leased(id)' <=> (phase'[e] = "stopping" /\ \E b \in loop'[e].batch : b.id = id)
         /\ InRetry(id, i)' <=>
              \E b \in loop'[e].batch :
                /\ b.id = id /\ Current(e, b)'
                /\ loop'[e].next > i \/ loop'[e].pc \in {"mark_message", "mark_entry"}
<1>1. \A f \in Engines : f = e
  BY DEF OneEngine
<1> QED BY <1>1 DEF Leased, InRetry

LEMMA PublishRetryLetters ==
  ASSUME OneEngine, PathInv, CostGrows, Letters,
         NEW e \in Engines, NEW o \in Outcome, NEW b \in loop[e].batch, PublishRetry(e, b, o)
  PROVE  Letters'
<1>1. DLQTypeOK /\ LoopOK(e) /\ loop[e] \in Loop
  BY PathTypes DEF PathInv, DLQInv, DLQTypeOK
<1>2. /\ entries[b.id].msg \in Messages /\ loop[e].next \in Targets(entries[b.id].msg)
      /\ b.id \in DOMAIN entries /\ loop[e].pc = "publish" /\ Current(e, b)
  BY <1>1, BatchEntry DEF LoopOK, EntryInHand, PublishRetry
<1>3. PICK m \in Messages : m = entries[b.id].msg
  BY <1>2
<1>4. PICK n \in Targets(m) : n = loop[e].next
  BY <1>2, <1>3
<1>5. UNCHANGED <<entries, phase>> /\ Publish(m, n, o) /\ n \in Nat
  BY <1>3, <1>4, CopyTypes DEF PublishRetry
<1>6. /\ \A y \in Messages : \A k \in Targets(y) :
              y # m \/ k # n => published'[y][k] = published[y][k]
      /\ Took(o) => published'[m][n] = published[m][n] + 1
      /\ ~ Took(o) => published' = published
  BY <1>5, CopyCount
<1>7. /\ loop'[e].batch = loop[e].batch
      /\ \/ loop'[e].pc = "publish" /\ loop'[e].next = n + 1
         \/ loop'[e].pc \in {"mark_message", "mark_entry"}
  <2>1. loop \in [Engines -> Loop]
    BY <1>1 DEF DLQTypeOK
  <2>2. \/ loop' = [loop EXCEPT ![e].next = n + 1]
        \/ \E pc \in {"mark_message", "mark_entry"}, v \in DeadLetterStatus :
             loop' = [loop EXCEPT ![e].verdict = v, ![e].pc = pc]
        \/ \E v \in DeadLetterStatus :
             loop' = [loop EXCEPT ![e].pc = "mark_message", ![e].verdict = v]
    BY <1>4, RestTypes DEF PublishRetry, DeadLetterStatus
  <2>3. CASE loop' = [loop EXCEPT ![e].next = n + 1]
    <3> DEFINE k == n + 1
    <3>1. loop' = [loop EXCEPT ![e] = [loop[e] EXCEPT !.next = k]] /\ loop[e] \in Loop
      BY <1>1, <2>3
    <3> HIDE DEF k
    <3>2. loop'[e] = [loop[e] EXCEPT !.next = k]
      BY <2>1, <3>1
    <3>3. loop'[e].batch = loop[e].batch /\ loop'[e].pc = "publish" /\ loop'[e].next = k
      BY <1>2, <3>1, <3>2 DEF Loop
    <3> QED BY <3>3 DEF k
  <2>4. CASE \E pc \in {"mark_message", "mark_entry"}, v \in DeadLetterStatus :
               \/ loop' = [loop EXCEPT ![e].verdict = v, ![e].pc = pc]
               \/ loop' = [loop EXCEPT ![e].pc = pc, ![e].verdict = v]
    BY <2>1, <2>4 DEF Loop
  <2> QED BY <2>2, <2>3, <2>4
<1>8. \A c \in loop[e].batch : Current(e, c)' <=> Current(e, c)
  BY <1>7 DEF Current
<1>9. \A id, i : Leased(id)' <=> Leased(id)
  BY <1>5, <1>7, OnlyBatch
<1>10. ASSUME NEW id, NEW i \in Nat, InRetry(id, i) PROVE n > i /\ InRetry(id, i)'
  <2>1. PICK c \in loop[e].batch : c.id = id /\ Current(e, c) /\ loop[e].next > i
    BY <1>2, <1>10, OnlyBatch
  <2>2. n > i /\ n + 1 > i
    BY <1>4, <1>5, <2>1
  <2> QED BY <1>7, <1>8, <2>1, <2>2, OnlyBatch
<1>11. ASSUME NEW id \in DOMAIN entries, NEW i \in Targets(entries[id].msg)
       PROVE  LetterCopies(id, i)'
  <2>1. i \in Nat /\ entries[id].msg \in Messages
    BY CopyTypes
  <2>2. CASE published'[entries[id].msg][i] = published[entries[id].msg][i]
    BY <1>5, <1>9, <1>10, <1>11, <2>1, <2>2, LetterFrame DEF Letters
  <2>3. CASE published'[entries[id].msg][i] # published[entries[id].msg][i]
    <3>1. entries[id].msg = m /\ i = n /\ Took(o)
      BY <1>6, <2>1, <2>3
    <3>2. id = b.id
      BY <1>2, <1>3, <3>1, LetterIsAlone
    <3>3. ~ InRetry(id, i)
      <4>1. ~ (n > n)
        BY <1>5
      <4> QED BY <1>10, <2>1, <3>1, <4>1
    <3>4. InRetry(id, i)'
      <4>1. n + 1 > n
        BY <1>5
      <4> QED BY <1>2, <1>7, <1>8, <3>1, <3>2, <4>1, OnlyBatch
    <3>5. PICK k, k2 \in Nat : k = faults + interruptions /\ k2 = faults' + interruptions' /\ k <= k2
      BY Costs
    <3>6. PICK p, r \in Nat : p = published[m][i] /\ r = entries[id].retries
      BY <2>1, <3>1, CopyTypes
    <3>7. PICK l \in Nat : l = One(Leased(id))
      BY OneIs
    <3>8. l = One(Leased(id)') /\ 0 = One(InRetry(id, i)) /\ 1 = One(InRetry(id, i)')
      BY <1>9, <3>3, <3>4, <3>7 DEF One
    <3>9. p + 1 \in Nat /\ p + 1 = published'[m][i]
      BY <1>6, <3>1, <3>6
    <3>10. (p + 1) + l + r + 0 + k <= p + l + r + 1 + k2
      BY <3>5, <3>6, <3>7
    <3>11. /\ p = published[entries[id].msg][i] /\ p + 1 = published'[entries[id].msg][i]
           /\ r = entries'[id].retries /\ entries'[id].msg = entries[id].msg
      BY <1>5, <3>1, <3>6, <3>9
    <3> DEFINE p2 == p + 1
    <3>12. p2 \in Nat /\ p2 = published'[entries[id].msg][i] /\ p2 + l + r + 0 + k <= p + l + r + 1 + k2
      BY <3>9, <3>10, <3>11
    <3> HIDE DEF p2
    <3>13. LetterCopies(id, i) /\ 0 \in Nat /\ 1 \in Nat
      BY <1>11 DEF Letters
    <3> QED BY <3>5, <3>6, <3>7, <3>8, <3>11, <3>12, <3>13, LetterMoves
  <2> QED BY <2>2, <2>3
<1> QED BY <1>5, <1>11 DEF Letters, Targets

LEMMA MarkEntryLetters ==
  ASSUME OneEngine, PathInv, SnapshotFresh, NoBatchDown, CostGrows, Letters,
         NEW e \in Engines, NEW o \in Outcome, NEW b \in loop[e].batch, MarkEntry(e, b, o)
  PROVE  Letters'
<1>1. DLQTypeOK /\ LoopOK(e) /\ loop \in [Engines -> Loop] /\ loop[e] \in Loop
      /\ entries \in Seq(Entry)
  BY PathTypes DEF PathInv, DLQInv, DLQTypeOK
<1>2. /\ b.id \in DOMAIN entries /\ b.id \in Nat /\ b.retries \in Nat
      /\ entries[b.id].retries = b.retries
      /\ loop[e].pc = "mark_entry" /\ Current(e, b)
  BY <1>1, BatchEntry DEF MarkEntry, SnapshotFresh
<1>3. /\ UNCHANGED <<phase, published, interruptions>> /\ Call(o, Live(e))
      /\ UpdateDeadLetterEntry(b.id, loop[e].verdict, b.retries + 1, o)
  BY DEF MarkEntry
<1>4. loop'[e].batch = loop[e].batch \ {b}
  BY <1>1, RestTypes DEF MarkEntry
<1>5. /\ DOMAIN entries' = DOMAIN entries
      /\ \A x \in DOMAIN entries : x # b.id => entries'[x] = entries[x]
      /\ \A x \in DOMAIN entries : entries'[x].msg = entries[x].msg
      /\ Took(o) => entries'[b.id].retries = b.retries + 1
      /\ ~ Took(o) => entries'[b.id] = entries[b.id]
  <2>1. entries[b.id] \in Entry
    BY <1>2, <1>1
  <2>2. CASE Took(o)
    <3>1. entries' = [entries EXCEPT ![b.id].status = loop[e].verdict, ![b.id].retries = b.retries + 1]
      BY <1>3, <2>2 DEF UpdateDeadLetterEntry
    <3> DEFINE n == b.retries + 1
               v == loop[e].verdict
    <3> HIDE DEF n, v
    <3>2. entries' = [entries EXCEPT ![b.id] = [entries[b.id] EXCEPT !.status = v, !.retries = n]]
      BY <1>2, <3>1 DEF n, v
    <3>3. /\ DOMAIN entries' = DOMAIN entries
          /\ \A x \in DOMAIN entries : x # b.id => entries'[x] = entries[x]
          /\ entries'[b.id] = [entries[b.id] EXCEPT !.status = v, !.retries = n]
      BY <1>2, <3>2
    <3>4. entries'[b.id].msg = entries[b.id].msg /\ entries'[b.id].retries = n
      BY <2>1, <3>3 DEF Entry
    <3> QED BY <2>2, <3>3, <3>4 DEF n
  <2>3. CASE ~ Took(o)
    BY <1>3, <2>3 DEF UpdateDeadLetterEntry
  <2> QED BY <2>2, <2>3
<1>6. \A c \in loop[e].batch : c.id = b.id => c = b
  BY <1>1 DEF LoopOK
<1>7. ASSUME NEW id \in DOMAIN entries, id # b.id, NEW i \in Targets(entries[id].msg)
      PROVE  LetterCopies(id, i)'
  <2>1. Leased(id)' => Leased(id)
    BY <1>3, <1>4, OnlyBatch
  <2>2. ~ InRetry(id, i)
    <3>1. ASSUME NEW c \in loop[e].batch, Current(e, c) PROVE c.id = b.id
      <4>1. c.id <= b.id /\ b.id <= c.id /\ c.id \in Nat
        BY <1>1, <1>2, <3>1, BatchEntry DEF Current
      <4> QED BY <1>2, <4>1
    <3> QED BY <1>7, <3>1, OnlyBatch
  <2>3. LetterCopies(id, i) /\ entries'[id] = entries[id]
    BY <1>5, <1>7 DEF Letters
  <2> QED BY <1>3, <2>1, <2>2, <2>3, LetterFrame
<1>8. ASSUME NEW d \in DOMAIN entries, d = b.id, NEW i \in Targets(entries[d].msg)
      PROVE  LetterCopies(d, i)'
  <2>1. InRetry(d, i)
    BY <1>2, <1>8, OnlyBatch
  <2>2. ~ InRetry(d, i)' /\ ~ Leased(d)'
    <3>1. \A c \in loop'[e].batch : c.id # d
      BY <1>4, <1>6, <1>8
    <3>2. InRetry(d, i)' => \E c \in loop'[e].batch : c.id = d
      BY OnlyBatch
    <3>3. Leased(d)' => \E c \in loop'[e].batch : c.id = d
      BY OnlyBatch
    <3> QED BY <3>1, <3>2, <3>3
  <2>3. ASSUME o = "refused" PROVE Leased(d)
    <3>1. phase[e] # "running" /\ phase[e] # "down"
      BY <1>3, <2>3, CallCost DEF Live, NoBatchDown
    <3>2. phase[e] = "stopping"
      BY <1>1, <3>1 DEF DLQTypeOK
    <3> QED BY <1>8, <3>2, OnlyBatch
  <2>4. PICK k, k2 \in Nat : /\ k = faults + interruptions /\ k2 = faults' + interruptions'
                            /\ k <= k2 /\ (faults' = faults + 1 => k2 >= k + 1)
    BY Costs
  <2>5. o \in {"lost", "unanswered"} => k2 >= k + 1
    BY <1>3, <2>4, CallCost
  <2>6. PICK p, r \in Nat : p = published[entries[d].msg][i] /\ r = entries[d].retries
    BY CopyTypes
  <2>7. PICK l \in Nat : l = One(Leased(d)) /\ (o = "refused" => l = 1)
    BY <2>3, OneIs
  <2>8. 1 = One(InRetry(d, i)) /\ 0 = One(InRetry(d, i)') /\ 0 = One(Leased(d)')
    BY <2>1, <2>2 DEF One
  <2>9. (Took(o) => entries'[d].retries = r + 1) /\ (~ Took(o) => entries'[d].retries = r)
    BY <1>2, <1>5, <1>8, <2>6
  <2>10. PICK r2 \in Nat : r2 = entries'[d].retries /\ (Took(o) => r2 = r + 1) /\ (~ Took(o) => r2 = r)
    BY <2>6, <2>9
  <2>11. k <= k2 /\ (o \in {"lost", "unanswered"} => k2 >= k + 1)
    BY <2>4, <2>5
  <2>12. (Took(o) => r2 = r + 1) /\ (~ Took(o) => r2 = r) /\ (o = "refused" => l = 1)
    BY <2>7, <2>10
  <2>13. p + 0 + r + 1 + k <= p + l + r2 + 0 + k2
    BY ONLY <2>11, <2>12, o \in Outcome, p \in Nat, r \in Nat, r2 \in Nat, k \in Nat, k2 \in Nat,
       l \in Nat DEF Outcome, Took
  <2>14. /\ LetterCopies(d, i) /\ 0 \in Nat /\ 1 \in Nat
         /\ entries'[d].msg = entries[d].msg
         /\ p = published'[entries[d].msg][i]
    BY <1>2, <1>3, <1>5, <1>8, <2>6 DEF Letters
  <2> QED BY <1>2, <2>4, <2>6, <2>7, <2>8, <2>10, <2>13, <2>14, LetterMoves
<1> QED BY <1>2, <1>5, <1>7, <1>8 DEF Letters, Targets

LEMMA LoopLetters ==
  ASSUME OneEngine, PathInv, SnapshotFresh, NoBatchDown, CostGrows, Letters,
         NEW e \in Engines, LoopStep(e)
  PROVE  Letters'
<1>1. DLQTypeOK /\ LoopOK(e) /\ loop \in [Engines -> Loop]
  BY PathTypes DEF PathInv, DLQInv, DLQTypeOK
<1>2. ASSUME UNCHANGED <<entries, published>>,
             \A id \in DOMAIN entries : \A i \in Targets(entries[id].msg) :
               /\ Leased(id)' => Leased(id)
               /\ InRetry(id, i) => InRetry(id, i)'
      PROVE  Letters'
  BY <1>2, LetterFrame DEF Letters, Targets
<1>3. ASSUME NEW o \in Outcome, Tick(e, o) PROVE Letters'
  <2>1. UNCHANGED <<entries, published, phase>> /\ Call(o, Live(e)) /\ loop[e].batch = {}
    BY <1>1, <1>3 DEF Tick, LoopOK, Working
  <2>2. \A id, i : ~ InRetry(id, i)
    BY <2>1, OnlyBatch
  <2>3. \A id : Leased(id)' => Leased(id)
    <3>1. CASE o = "ok"
      <4>1. phase'[e] = "running"
        BY <2>1, <3>1 DEF Call, Live
      <4> QED BY <4>1, OnlyBatch
    <3>2. CASE loop' = loop
      BY <2>1, <3>2, SameBatches
    <3> QED BY <1>3, <3>1, <3>2 DEF Tick
  <2> QED BY <1>2, <2>1, <2>2, <2>3
<1>4. ASSUME NEW o \in Outcome, NEW b \in loop[e].batch, MarkMessage(e, b, o)
      PROVE  Letters'
  <2>1. UNCHANGED <<entries, published, phase>>
    BY <1>4 DEF MarkMessage
  <2>2. loop'[e].batch = loop[e].batch /\ loop'[e].pc = "mark_entry"
    BY <1>1, <1>4 DEF MarkMessage, Loop
  <2>3. \A c \in loop[e].batch : Current(e, c)' <=> Current(e, c)
    BY <2>2 DEF Current
  <2>4. \A id, i : (Leased(id)' => Leased(id)) /\ (InRetry(id, i) => InRetry(id, i)')
    BY <2>1, <2>2, <2>3, OnlyBatch
  <2> QED BY <1>2, <2>1, <2>4
<1>5. CASE LoopReturn(e)
  <2>1. UNCHANGED <<entries, published, phase>> /\ loop[e].batch = {}
    BY <1>1, <1>5 DEF LoopReturn, storeVars, LoopOK, Working
  <2>2. loop'[e].batch = {}
    BY <1>1, <1>5, RestTypes DEF LoopReturn
  <2>3. \A id, i : (Leased(id)' => Leased(id)) /\ (InRetry(id, i) => InRetry(id, i)')
    BY <2>1, <2>2, OnlyBatch
  <2> QED BY <1>2, <2>1, <2>3
<1> QED BY <1>3, <1>4, <1>5, PublishRetryLetters, MarkEntryLetters DEF LoopStep, RetryEntry

\* An interruption pays for the retry under way, or for the letters of the batch.
LEMMA LifeLetters ==
  ASSUME OneEngine, PathInv, NoBatchDown, CostGrows, Letters,
         NEW e \in Engines, StopCancel(e) \/ StopReturn(e) \/ Crash(e) \/ Start(e)
  PROVE  Letters'
<1>1. DLQTypeOK
  BY PathTypes
<1>2. UNCHANGED <<entries, published>>
  BY DEF StopCancel, StopReturn, Crash, Start, storeVars
<1>3. CASE StopCancel(e) \/ Crash(e)
  <2>1. interruptions' = interruptions + 1
    BY <1>3 DEF StopCancel, Crash, Cancel, Die
  <2>2. ASSUME NEW id, NEW i
        PROVE  \/ InRetry(id, i)' <=> InRetry(id, i)
               \/ ~ Leased(id)'
    <3>1. CASE StopCancel(e)
      BY <3>1 DEF StopCancel, Cancel, InRetry, Current
    <3>2. CASE Crash(e)
      <4>1. phase'[e] = "down"
        BY <1>1, <3>2 DEF Crash, Die, DLQTypeOK
      <4> QED BY <4>1, OnlyBatch
    <3> QED BY <1>3, <3>1, <3>2
  <2>3. ASSUME NEW id \in DOMAIN entries, NEW i \in Targets(entries[id].msg)
        PROVE  LetterCopies(id, i)'
    <3>1. PICK k, k2 \in Nat : /\ k = faults + interruptions /\ k2 = faults' + interruptions'
                              /\ k2 >= k + 1
      BY <2>1, Costs
    <3>2. PICK p, r \in Nat : p = published[entries[id].msg][i] /\ r = entries[id].retries
      BY CopyTypes
    <3>3. PICK l, c, l2, c2 \in Nat :
            /\ l = One(Leased(id)) /\ c = One(InRetry(id, i)) /\ l <= 1 /\ c <= 1
            /\ l2 = One(Leased(id)') /\ c2 = One(InRetry(id, i)') /\ l2 <= 1 /\ c2 <= 1
            /\ l2 = 0 \/ c2 = c
      BY <2>2, OneIs
    <3>4. p + l2 + r + c + k <= p + l + r + c2 + k2
      <4>1. k2 >= k + 1 /\ l2 <= 1 /\ c <= 1 /\ (l2 = 0 \/ c2 = c)
        BY <3>1, <3>3
      <4> QED BY ONLY <4>1, p \in Nat, r \in Nat, l \in Nat, c \in Nat, l2 \in Nat, c2 \in Nat,
             k \in Nat, k2 \in Nat
    <3>5. /\ LetterCopies(id, i) /\ entries'[id] = entries[id]
          /\ p = published'[entries[id].msg][i]
      BY <1>2, <2>3, <3>2 DEF Letters
    <3> QED BY <3>1, <3>2, <3>3, <3>4, <3>5, LetterMoves
  <2> QED BY <1>2, <2>3 DEF Letters, Targets
<1>4. CASE StopReturn(e) \/ Start(e)
  <2>1. phase'[e] # "stopping"
    BY <1>1, <1>4 DEF StopReturn, Start, Exit, StartLoop, DLQTypeOK
  <2>2. \A id : ~ Leased(id)'
    BY <2>1, OnlyBatch
  <2>3. \A id, i : InRetry(id, i) => InRetry(id, i)'
    <3>1. CASE StopReturn(e)
      BY <3>1 DEF StopReturn, Exit, InRetry, Current
    <3>2. CASE Start(e)
      <4>1. loop[e].batch = {}
        BY <3>2 DEF Start, StartLoop, NoBatchDown
      <4> QED BY <4>1, OnlyBatch
    <3> QED BY <1>4, <3>1, <3>2
  <2> QED BY <1>2, <2>2, <2>3, LetterFrame DEF Letters, Targets
<1> QED BY <1>3, <1>4

LEMMA CopiesStep ==
  ASSUME OneEngine
  PROVE  PathInv /\ CopiesInv /\ [Next]_vars => CopiesInv'
<1> SUFFICES ASSUME PathInv, CopiesInv, [Next]_vars PROVE CopiesInv'
  OBVIOUS
<1>1. /\ SnapshotFresh /\ NoBatchDown /\ Letters /\ CostGrows
      /\ \A m \in Messages : \A i \in Targets(m) : WorkerCopies(m, i)
  BY CostStep DEF CopiesInv, NoBatchDown, Letters
<1>2. SnapshotFresh' /\ NoBatchDown'
  BY <1>1, FreshPath, DownBatch
<1>3. \A m \in Messages : \A i \in Targets(m) : WorkerCopies(m, i)'
  BY <1>1, WorkerCopiesStep
<1>4. Letters'
  <2>1. ASSUME UNCHANGED <<entries, published>>, UNCHANGED <<loop, phase>> PROVE Letters'
    BY <1>1, <2>1, LettersFrame DEF Letters, Targets
  <2>2. ServiceStep /\ UNCHANGED processVars =>
          UNCHANGED <<entries, published>> /\ UNCHANGED <<loop, phase>>
    BY DEF ServiceStep, SendStep, SendCreate, SendPush, SendAbandoned, AckStep,
         AckBegin, AckInsert, AckUpdate, AckAbandoned, storeVars, processVars
  <2>3. UNCHANGED vars => UNCHANGED <<entries, published>> /\ UNCHANGED <<loop, phase>>
    BY DEF vars, storeVars, processVars
  <2> QED BY <1>1, <2>1, <2>2, <2>3, WorkerLetters, LoopLetters, LifeLetters
    DEF Next, EngineStep
<1>5. \A m : Targets(m)' = Targets(m)
  BY DEF Targets
<1> QED BY <1>2, <1>3, <1>4, <1>5 DEF CopiesInv, NoBatchDown, Letters

LEMMA CopiesInit ==
  ASSUME Init
  PROVE  CopiesInv
<1>1. /\ entries = << >> /\ loop = [e \in Engines |-> AtTicker]
      /\ published = [m \in Messages |-> [i \in Targets(m) |-> 0]]
  BY DEF Init, EngineInit, StoreInit
<1>2. \A e \in Engines : loop[e].batch = {}
  BY <1>1, RestTypes
<1>3. \A m \in Messages : \A i \in Targets(m) : published[m][i] = 0
  BY <1>1
<1>4. DOMAIN entries = {}
  BY <1>1
<1> QED BY <1>2, <1>3, <1>4 DEF CopiesInv, SnapshotFresh, WorkerCopies

\* The account, message by message.
LEMMA CopiesSuffice ==
  ASSUME PathInv, CopiesInv
  PROVE  DuplicatesAccounted
<1> SUFFICES ASSUME NEW m \in Messages, NEW i \in Targets(m)
             PROVE  published[m][i] <=
                      1 + (IF EntriesOf(m) = {} THEN 0
                           ELSE entries[CHOOSE id \in EntriesOf(m) : TRUE].retries)
                        + (IF BeingRetried(m, i) THEN 1 ELSE 0) + faults + interruptions
  BY DEF DuplicatesAccounted
<1>1. PICK fa, n, p \in Nat : fa = faults /\ n = interruptions /\ p = published[m][i]
  BY Counted, CopyTypes
<1>2. PICK c \in Nat : c = IF BeingRetried(m, i) THEN 1 ELSE 0
  OBVIOUS
<1>3. CASE EntriesOf(m) = {}
  <2>1. p <= 1
    BY <1>1, <1>3 DEF CopiesInv, WorkerCopies
  <2>2. p <= 1 + 0 + c + fa + n
    BY <2>1
  <2> QED BY <1>1, <1>2, <1>3, <2>2
<1>4. CASE EntriesOf(m) # {}
  <2>1. PICK id \in EntriesOf(m) : id = CHOOSE x \in EntriesOf(m) : TRUE
    BY <1>4
  <2>2. id \in DOMAIN entries /\ entries[id].msg = m
    BY <2>1 DEF EntriesOf
  <2>3. Within(published[m][i], One(Leased(id)), entries[id].retries,
               One(InRetry(id, i)), faults + interruptions)
    BY <2>2 DEF CopiesInv, LetterCopies
  <2>4. c = One(InRetry(id, i))
    BY <1>2, <2>2, RetryOfLetter DEF One
  <2>5. PICK r, l \in Nat : r = entries[id].retries /\ l = One(Leased(id))
    BY <2>2, CopyTypes, OneIs
  <2>6. Within(p, l, r, c, fa + n)
    BY <1>1, <2>3, <2>4, <2>5
  <2>7. p <= 1 + r + c + fa + n
    BY <2>6 DEF Within
  <2> QED BY <1>1, <1>2, <1>4, <2>1, <2>5, <2>7
<1> QED BY <1>3, <1>4

\* With one engine, however many messages, workers, failures and restarts: every
\* copy that a recipient's channel is sent beyond the first is a counted retry,
\* the retry being made, or the price of a failed call or an interruption.
THEOREM DuplicatesAlwaysAccounted ==
  ASSUME OneEngine
  PROVE  Spec => []DuplicatesAccounted
<1>1. Init => CopiesInv
  BY CopiesInit
<1>2. PathInv /\ CopiesInv /\ [Next]_vars => CopiesInv'
  BY CopiesStep
<1>3. PathInv /\ CopiesInv => DuplicatesAccounted
  BY CopiesSuffice
<1> QED BY <1>1, <1>2, <1>3, PathInvariant, PTL DEF Spec

\* On the whole path as in the queue by itself, with one engine: the batch of the
\* loop is what the table says, ...
THEOREM PathSnapshotFresh ==
  ASSUME OneEngine
  PROVE  Spec => []SnapshotFresh
<1>1. Init => CopiesInv
  BY CopiesInit
<1>2. PathInv /\ CopiesInv /\ [Next]_vars => CopiesInv'
  BY CopiesStep
<1>3. CopiesInv => SnapshotFresh
  BY DEF CopiesInv
<1> QED BY <1>1, <1>2, <1>3, PathInvariant, PTL DEF Spec

\* ... and the table, with the workers filing the dead letters, implements the
\* retry budget.
THEOREM PathRefinesBudget ==
  ASSUME OneEngine
  PROVE  Spec => RefinesBudget
<1>1. Init => Budget!Init
  BY DEF Init, EngineInit, StoreInit, Budget!Init
<1>2. PathInv /\ SnapshotFresh /\ [Next]_vars => [Budget!Next]_entries
  <2> SUFFICES ASSUME PathInv, SnapshotFresh, [Next]_vars
               PROVE  Budget!Next \/ UNCHANGED entries
    OBVIOUS
  <2>1. ASSUME NEW w \in Workers, NEW o \in Outcome, EnqueueDead(w, o)
        PROVE  Budget!Next \/ UNCHANGED entries
    <3>1. worker[w].msg \in Messages /\ w \in Busy /\ worker[w].pc = "enqueue"
      BY <2>1, BusyWorker DEF EnqueueDead
    <3>2. \A id \in DOMAIN entries : entries[id].msg # worker[w].msg
      BY <3>1 DEF PathInv, Custody, OneDeadLetter, EntriesOf
    <3> QED BY <2>1, <3>1, <3>2
      DEF EnqueueDead, CreateDeadLetterEntry, Budget!Next, Budget!Open
  <2>2. ASSUME NEW w \in Workers, WorkerStep(w), \A o \in Outcome : ~ EnqueueDead(w, o)
        PROVE  UNCHANGED entries
    BY <2>2 DEF WorkerStep, WorkerCall, Pop, Route, MarkSent, MarkDead, MarkFailed,
                WorkerReturn, dlqVars, storeVars
  <2>3. ASSUME NEW e \in Engines,
               LoopStep(e) \/ StopCancel(e) \/ StopReturn(e) \/ Crash(e) \/ Start(e)
        PROVE  Budget!Next \/ UNCHANGED entries
    <3>1. DLQNext
      BY <2>3 DEF DLQNext, StopCancel, StopReturn, Crash, Start
    <3> QED BY <3>1, BudgetStep DEF PathInv
  <2>4. ServiceStep => UNCHANGED entries
    BY DEF ServiceStep, SendStep, SendCreate, SendPush, SendAbandoned, AckStep,
           AckBegin, AckInsert, AckUpdate, AckAbandoned, storeVars
  <2>5. UNCHANGED vars => UNCHANGED entries
    BY DEF vars, storeVars
  <2> QED BY <2>1, <2>2, <2>3, <2>4, <2>5 DEF Next, EngineStep
<1> QED BY <1>1, <1>2, PathInvariant, PathSnapshotFresh, PTL
  DEF Spec, RefinesBudget, Budget!Spec

\* With any fleet of engines the retry count that the table holds for a dead
\* letter stays within max_retries, and below it while the entry waits, and an
\* entry shows as processed only when its message has reached everyone.  The
\* publications themselves are not bounded: two engines may spend one retry.
THEOREM PathCountsBounded == Spec => [](RetriesWithinBudget /\ ProcessedReachedAll)
<1>1. PathInv => RetriesWithinBudget /\ ProcessedReachedAll
  BY DEF PathInv, DLQInv
<1> QED BY <1>1, PathInvariant, PTL
=============================================================================
