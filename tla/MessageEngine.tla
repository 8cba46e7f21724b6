---------------------------- MODULE MessageEngine -----------------------------
(***************************************************************************)
(* The message engine of internal/engine/engine.go: a process that runs    *)
(* WorkerCount workers on the list "message:pending" next to its           *)
(* dead-letter loop.  RPOP removes a message from the list before it is    *)
(* routed, so from then on the worker's memory is the only place that says *)
(* it still has to be: there is no reservation and no visibility timeout.  *)
(***************************************************************************)
EXTENDS DeadLetterQueue

CONSTANTS
  Workers,      \* the worker goroutines of all the engines
  EngineOf,     \* the engine of each worker
  NoMessage     \* what an idle worker has in hand

ASSUME WorkersAssumption ==
  /\ EngineOf \in [Workers -> Engines]
  /\ NoMessage \notin Messages

VARIABLE worker

engineVars == <<dlqVars, worker>>

WorkerPC == {"idle", "publish", "mark_sent", "mark_dead", "enqueue",
             "mark_failed", "returned"}
Worker == [pc : WorkerPC, msg : Messages \cup {NoMessage}, next : Nat]

Idle == [pc |-> "idle", msg |-> NoMessage, next |-> 1]
Gone == [Idle EXCEPT !.pc = "returned"]

\* The workers that have popped a message and are not done with it.
Busy == {w \in Workers : worker[w].pc \notin {"idle", "returned"}}

WorkerTypeOK ==
  /\ worker \in [Workers -> Worker]
  /\ \A w \in Workers : (w \in Busy) <=> (worker[w].msg \in Messages)

EngineTypeOK == DLQTypeOK /\ WorkerTypeOK

-----------------------------------------------------------------------------
(***************************************************************************)
(* processWorker.  A worker is at "idle" before the select and the RPop.   *)
(* RPop on an empty list, and an RPop that fails without effect, lead back *)
(* to the select after a delay and change nothing.                         *)
(***************************************************************************)

\* Mutants of Pop: rest is what it leaves on the list.
PopLeaving(w, o, rest) ==
  /\ phase[EngineOf[w]] # "down" /\ worker[w].pc = "idle"
  /\ queue # << >>
  /\ Call(o, Live(EngineOf[w])) /\ Took(o)
  /\ queue' = rest
  /\ worker' = IF o = "ok"
               THEN [worker EXCEPT ![w] = [pc |-> "publish", msg |-> Head(queue), next |-> 1]]
               ELSE worker
  /\ UNCHANGED <<status, entries, published, phase, loop, interruptions>>

PopPeeking(w, o) == PopLeaving(w, o, queue)
PopAll(w, o) == PopLeaving(w, o, << >>)

\* If the reply is lost the message is off the list and in nobody's hands.
Pop(w, o) ==
  /\ phase[EngineOf[w]] # "down" /\ worker[w].pc = "idle"
  /\ queue # << >>
  /\ Call(o, Live(EngineOf[w])) /\ Took(o)
  /\ RPop(o)
  /\ worker' = IF o = "ok"
               THEN [worker EXCEPT ![w] = [pc |-> "publish", msg |-> Head(queue), next |-> 1]]
               ELSE worker
  /\ UNCHANGED <<status, entries, published, phase, loop, interruptions>>

\* A mutant of Route: errors do not end the loop.
RouteIgnoringErrors(w, o) ==
  LET m == worker[w].msg
      i == worker[w].next
  IN
  /\ worker[w].pc = "publish"
  /\ Call(o, Live(EngineOf[w]))
  /\ Publish(m, i, o)
  /\ worker' = IF i < Len(Recipients[m]) THEN [worker EXCEPT ![w].next = i + 1]
               ELSE [worker EXCEPT ![w].pc = "mark_sent"]
  /\ UNCHANGED <<status, queue, entries, phase, loop, interruptions>>

\* One turn of the publishing loop of routeMessage; the first error ends it.
Route(w, o) ==
  LET m == worker[w].msg
      i == worker[w].next
  IN
  /\ worker[w].pc = "publish"
  /\ Call(o, Live(EngineOf[w]))
  /\ Publish(m, i, o)
  /\ \/ /\ o = "ok" /\ i < Len(Recipients[m])
        /\ worker' = [worker EXCEPT ![w].next = i + 1]
     \/ /\ o = "ok" /\ i >= Len(Recipients[m])
        /\ worker' = [worker EXCEPT ![w].pc = "mark_sent"]
     \/ /\ o # "ok"
        /\ worker' = [worker EXCEPT ![w].pc = "mark_dead"]
  /\ UNCHANGED <<status, queue, entries, phase, loop, interruptions>>

\* The end of routeMessage: its error dead-letters a message already sent.
MarkSent(w, o) ==
  /\ worker[w].pc = "mark_sent"
  /\ Call(o, Live(EngineOf[w]))
  /\ UpdateMessageStatus(worker[w].msg, "sent", o)
  /\ worker' = IF o = "ok" THEN [worker EXCEPT ![w] = Idle]
               ELSE [worker EXCEPT ![w].pc = "mark_dead"]
  /\ UNCHANGED <<queue, entries, published, phase, loop, interruptions>>

\* The error is ignored.
MarkDead(w, o) ==
  /\ worker[w].pc = "mark_dead"
  /\ Call(o, Live(EngineOf[w]))
  /\ UpdateMessageStatus(worker[w].msg, "dead_letter", o)
  /\ worker' = [worker EXCEPT ![w].pc = "enqueue"]
  /\ UNCHANGED <<queue, entries, published, phase, loop, interruptions>>

\* A mutant of EnqueueDead: it is called until it succeeds.
EnqueueDeadRetrying(w, o) ==
  /\ worker[w].pc = "enqueue"
  /\ Call(o, Live(EngineOf[w]))
  /\ CreateDeadLetterEntry(worker[w].msg, o)
  /\ worker' = IF o = "ok" THEN [worker EXCEPT ![w] = Idle] ELSE worker
  /\ UNCHANGED <<status, queue, published, phase, loop, interruptions>>

\* DeadLetterQueue.Enqueue.
EnqueueDead(w, o) ==
  LET m == worker[w].msg IN
  /\ worker[w].pc = "enqueue"
  /\ Call(o, Live(EngineOf[w]))
  /\ CreateDeadLetterEntry(m, o)
  /\ worker' = IF o = "ok" /\ status[m] # "none" THEN [worker EXCEPT ![w] = Idle]
               ELSE [worker EXCEPT ![w].pc = "mark_failed"]
  /\ UNCHANGED <<status, queue, published, phase, loop, interruptions>>

\* The error is ignored.
MarkFailed(w, o) ==
  /\ worker[w].pc = "mark_failed"
  /\ Call(o, Live(EngineOf[w]))
  /\ UpdateMessageStatus(worker[w].msg, "failed", o)
  /\ worker' = [worker EXCEPT ![w] = Idle]
  /\ UNCHANGED <<queue, entries, published, phase, loop, interruptions>>

\* A mutant of WorkerReturn: the worker also gives up while the engine runs.
WorkerReturnEarly(w) ==
  /\ phase[EngineOf[w]] # "down" /\ worker[w].pc = "idle"
  /\ worker' = [worker EXCEPT ![w] = Gone]
  /\ UNCHANGED dlqVars

\* The select sees that the context is done.
WorkerReturn(w) ==
  /\ phase[EngineOf[w]] = "stopping" /\ worker[w].pc = "idle"
  /\ worker' = [worker EXCEPT ![w] = Gone]
  /\ UNCHANGED dlqVars

WorkerCall(w, o) == \/ Pop(w, o) \/ Route(w, o) \/ MarkSent(w, o)
                    \/ MarkDead(w, o) \/ EnqueueDead(w, o) \/ MarkFailed(w, o)

WorkerStep(w) == \/ \E o \in Outcome : WorkerCall(w, o)
                 \/ WorkerReturn(w)

-----------------------------------------------------------------------------
(* MessageEngine.Start and Stop, and the death of the process.              *)

WorkersOf(e) == {w \in Workers : EngineOf[w] = e}
SetWorkers(e, s) == [w \in Workers |-> IF w \in WorkersOf(e) THEN s ELSE worker[w]]

\* Stop cancels the context: whatever a worker still does for the message it
\* has in hand is refused, the writing of its dead letter included.
StopCancel(e) == Cancel(e) /\ UNCHANGED <<storeVars, worker>>

\* Stop returns when wg.Wait does, and main exits.
StopReturn(e) ==
  /\ \A w \in WorkersOf(e) : worker[w].pc = "returned"
  /\ Exit(e)
  /\ UNCHANGED <<storeVars, worker>>

Crash(e) ==
  /\ Die(e)
  /\ worker' = SetWorkers(e, Gone)
  /\ UNCHANGED storeVars

\* The deployment replaces the process, which calls Start.
Start(e) ==
  /\ StartLoop(e)
  /\ worker' = SetWorkers(e, Idle)
  /\ UNCHANGED storeVars

EngineInit ==
  /\ StoreInit
  /\ phase = [e \in Engines |-> "running"]
  /\ loop = [e \in Engines |-> AtTicker]
  /\ interruptions = 0
  /\ worker = [w \in Workers |-> Idle]

EngineStep ==
  \/ \E w \in Workers : WorkerStep(w)
  \/ \E e \in Engines :
       \/ LoopStep(e) /\ UNCHANGED worker
       \/ StopCancel(e) \/ StopReturn(e) \/ Crash(e) \/ Start(e)

-----------------------------------------------------------------------------
(* Who has a message.                                                       *)

Queued(m) == \E i \in DOMAIN queue : queue[i] = m
Held(m) == \E w \in Busy : worker[w].msg = m

\* A message has one custodian: it is once on the list, or in the hands of
\* one worker, or in neither place.  No two workers of the fleet ever route
\* the same message, although nothing is locked.
ExclusiveCustody ==
  /\ \A i, j \in DOMAIN queue : queue[i] = queue[j] => i = j
  /\ \A w \in Busy : ~ Queued(worker[w].msg)
  /\ \A v, w \in Busy : worker[v].msg = worker[w].msg => v = w

\* A message is dead-lettered at most once, and only after it has left the
\* list for good: the retries of a dead letter never run beside a worker
\* that will route the message.
OneDeadLetter ==
  /\ \A i, j \in DOMAIN entries : entries[i].msg = entries[j].msg => i = j
  /\ \A id \in DOMAIN entries : ~ Queued(entries[id].msg)
  /\ \A w \in Busy :
       worker[w].pc # "mark_failed" => EntriesOf(worker[w].msg) = {}

\* No statement of an engine ever names a message without a row: the status
\* updates find one and the dead letter's foreign key is satisfied.
RowBeforeUse ==
  \A m \in Messages :
    (Queued(m) \/ Held(m) \/ EntriesOf(m) # {}) => status[m] # "none"

\* The list is drained in spite of idle delays, failed calls and restarts.
QueueDrains == \A m \in Messages : Queued(m) ~> ~ Queued(m)
=============================================================================
