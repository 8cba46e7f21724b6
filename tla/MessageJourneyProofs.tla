--------------------------- MODULE MessageJourneyProofs ---------------------------
(***************************************************************************)
(* The message path implements the way of a message: for any numbers of    *)
(* messages, engines, workers and requests and any failures, every step of *)
(* every process is one step of MessageJourney or none.                    *)
(***************************************************************************)
EXTENDS AgentMessagingProofs

JourneyStep == [Journey!Next]_(Journey!journey)

-----------------------------------------------------------------------------
(* The abstract actions in terms of Place and Reached.                      *)

LEMMA AtIs ==
  ASSUME NEW p, NEW x \in Messages
  PROVE  x \in Journey!At(p) <=> Place(x) = p
BY DEF Journey!At

LEMMA MoveIs ==
  ASSUME NEW S, NEW p,
         \A x \in Messages : Place(x)' = IF x \in S THEN p ELSE Place(x)
  PROVE  Journey!Move(S, p)
BY DEF Journey!Move

\* A step that moves nobody but may have publications complete for a message
\* that is on its way.
LEMMA StaysOrReaches ==
  ASSUME queue' = queue,
         \A x \in Messages : Place(x)' = Place(x),
         NEW m \in Messages, Place(m) \in {"worker", "letter"},
         \A x \in Messages : x # m => (Reached(x)' <=> Reached(x)),
         Reached(m) => Reached(m)'
  PROVE  JourneyStep
<1>1. [x \in Messages |-> Place(x)]' = [x \in Messages |-> Place(x)]
  OBVIOUS
<1>2. CASE Reached(m)' <=> Reached(m)
  <2>1. {x \in Messages : Reached(x)}' = {x \in Messages : Reached(x)}
    BY <1>2
  <2>2. QED
    BY <1>1, <2>1 DEF JourneyStep, Journey!journey
<1>3. CASE Reached(m)' /\ ~ Reached(m)
  <2>1. {x \in Messages : Reached(x)}' = {x \in Messages : Reached(x)} \cup {m}
    BY <1>3
  <2>2. m \in Journey!At("worker") \cup Journey!At("letter")
    BY AtIs
  <2>3. Journey!Reach(m)
    BY <1>1, <2>1, <2>2 DEF Journey!Reach
  <2>4. QED
    BY <2>3 DEF JourneyStep, Journey!Next
<1>4. QED
  BY <1>2, <1>3

\* A step in which messages only end: workers let go of them, or requests do
\* before the push.
LEMMA Ends ==
  ASSUME queue' = queue, published' = published,
         NEW p \in {"worker", "sender"},
         \A x \in Messages : \/ Place(x)' = Place(x)
                             \/ Place(x) = p /\ Place(x)' = "gone"
  PROVE  JourneyStep
<1> DEFINE S == {x \in Messages : Place(x)' # Place(x)}
<1>1. {x \in Messages : Reached(x)}' = {x \in Messages : Reached(x)}
  BY DEF Reached, Targets
<1>2. Journey!Move(S, "gone")
  BY MoveIs
<1>3. S \subseteq Journey!At(p)
  BY AtIs
<1>4. S \in SUBSET Messages
  OBVIOUS
<1> HIDE DEF S
<1>5. Journey!LetGo(S) \/ Journey!Refuse(S)
  BY <1>1, <1>2, <1>3 DEF Journey!LetGo, Journey!Refuse
<1>6. QED
  BY <1>4, <1>5 DEF JourneyStep, Journey!Next

-----------------------------------------------------------------------------
(* Places.                                                                  *)

\* Where messages are when the lists, the entries and the requests stay and
\* workers at most let go of what they have.
LEMMA HandsOpen ==
  ASSUME PathInv, queue' = queue, sends' = sends,
         \A x \in Messages : EntriesOf(x)' = {} <=> EntriesOf(x) = {},
         \A x \in Messages : Held(x)' => Held(x)
  PROVE  \A x \in Messages : \/ Place(x)' = Place(x)
                             \/ Place(x) = "worker" /\ Place(x)' = "gone"
<1> SUFFICES ASSUME NEW x \in Messages
             PROVE  \/ Place(x)' = Place(x)
                    \/ Place(x) = "worker" /\ Place(x)' = "gone"
  OBVIOUS
<1>1. Queued(x)' <=> Queued(x)
  BY DEF Queued
<1>2. Held(x) => sends[x] \in {"accepted", "rejected"}
  BY DEF PathInv, Custody, SendOrder
<1>3. QED
  BY <1>1, <1>2 DEF Place

\* ... and the same when they keep it.
LEMMA NobodyMoves ==
  ASSUME queue' = queue, sends' = sends,
         \A x \in Messages : EntriesOf(x)' = {} <=> EntriesOf(x) = {},
         \A x \in Messages : Held(x)' <=> Held(x)
  PROVE  \A x \in Messages : Place(x)' = Place(x)
<1> SUFFICES ASSUME NEW x \in Messages PROVE Place(x)' = Place(x)
  OBVIOUS
<1>1. Queued(x)' <=> Queued(x)
  BY DEF Queued
<1>2. QED
  BY <1>1 DEF Place

LEMMA SameEntries ==
  ASSUME DOMAIN entries' = DOMAIN entries,
         \A id \in DOMAIN entries : entries'[id].msg = entries[id].msg
  PROVE  \A x \in Messages : EntriesOf(x)' = EntriesOf(x)
BY DEF EntriesOf

\* A worker that routes or fails a message has it, and nobody else.
LEMMA InHand ==
  ASSUME PathInv, NEW w \in Busy, worker[w].pc # "mark_failed"
  PROVE  Place(worker[w].msg) = "worker"
<1>1. w \in Workers
  BY DEF Busy
<1>2. ~ Queued(worker[w].msg) /\ EntriesOf(worker[w].msg) = {}
  BY DEF PathInv, Custody, ExclusiveCustody, OneDeadLetter
<1>3. Held(worker[w].msg)
  BY DEF Held
<1>4. QED
  BY <1>2, <1>3 DEF Place

LEMMA HeldByOne ==
  ASSUME PathInv, NEW w \in Busy, NEW v \in Busy, worker[v].msg = worker[w].msg
  PROVE  v = w
BY DEF PathInv, Custody, ExclusiveCustody

LEMMA FiledAway ==
  ASSUME PathInv, NEW id \in DOMAIN entries
  PROVE  Place(entries[id].msg) = "letter"
<1>1. ~ Queued(entries[id].msg)
  BY DEF PathInv, Custody, OneDeadLetter
<1>2. id \in EntriesOf(entries[id].msg)
  BY DEF EntriesOf
<1>3. QED
  BY <1>1, <1>2 DEF Place

\* Publishing touches one message.
LEMMA PublishOne ==
  ASSUME PublishedTypeOK, NEW m \in Messages, NEW i \in Targets(m), NEW o,
         Publish(m, i, o)
  PROVE  /\ \A x \in Messages : x # m => (Reached(x)' <=> Reached(x))
         /\ Reached(m) => Reached(m)'
<1>1. \A x \in Messages : x # m => published'[x] = published[x]
  <2>1. published' = published \/
        published' = [published EXCEPT ![m] = [published[m] EXCEPT ![i] = published[m][i] + 1]]
    BY DEF Publish
  <2>2. QED
    BY <2>1 DEF PublishedTypeOK
<1>2. \A x \in Messages : x # m => (Reached(x)' <=> Reached(x))
  BY <1>1 DEF Reached, Targets
<1>3. Reached(m) => Reached(m)'
  BY PublishReaches, ReachedStable
<1>4. QED
  BY <1>2, <1>3

-----------------------------------------------------------------------------
(* The steps of a worker.                                                   *)

\* What happens to the custody of messages when a worker's state changes: it
\* keeps its message or has none any more.
LEMMA HandsOfOne ==
  ASSUME PathInv, NEW w \in Workers, NEW r \in Worker,
         worker' = [worker EXCEPT ![w] = r],
         r.pc \notin {"idle", "returned"} => w \in Busy /\ r.msg = worker[w].msg
  PROVE  /\ \A x \in Messages : Held(x)' => Held(x)
         /\ r.pc \notin {"idle", "returned"} =>
              \A x \in Messages : Held(x)' <=> Held(x)
         /\ \A x \in Messages : x # worker[w].msg => (Held(x)' <=> Held(x))
<1>1. worker'[w] = r /\ \A v \in Workers : v # w => worker'[v] = worker[v]
  BY PathTypes
<1>2. \A v \in Workers : v \in Busy' <=> worker'[v].pc \notin {"idle", "returned"}
  BY DEF Busy
<1>3. \A v \in Workers : v \in Busy <=> worker[v].pc \notin {"idle", "returned"}
  BY DEF Busy
<1>4. Busy \subseteq Workers /\ Busy' \subseteq Workers
  BY DEF Busy
<1>5. ASSUME NEW x \in Messages, Held(x)' PROVE Held(x)
  BY <1>1, <1>2, <1>3, <1>4, <1>5 DEF Held
<1>6. ASSUME NEW x \in Messages, Held(x),
             x # worker[w].msg \/ r.pc \notin {"idle", "returned"}
      PROVE  Held(x)'
  BY <1>1, <1>2, <1>3, <1>4, <1>6 DEF Held
<1>7. QED
  BY <1>5, <1>6

\* A worker publishes: the message it has may now have reached everyone.
LEMMA RouteJourney ==
  ASSUME PathInv, NEW w \in Workers, NEW o \in Outcome, Route(w, o),
         UNCHANGED serviceVars
  PROVE  JourneyStep
<1>1. PICK m \in Messages : m = worker[w].msg
  BY BusyWorker DEF Route
<1>2. worker[w].pc = "publish" /\ w \in Busy
  BY BusyWorker DEF Route
<1>3. worker[w].next \in Targets(m)
  BY <1>1, <1>2 DEF PathInv, WorkerOK
<1>4. UNCHANGED <<queue, entries, sends>>
  BY DEF Route, serviceVars
<1>5. PICK r \in Worker : /\ worker' = [worker EXCEPT ![w] = r]
                          /\ r.pc \notin {"idle", "returned"} /\ r.msg = m
  <2>1. worker[w] \in Worker
    BY PathTypes
  <2>2. \A p \in WorkerPC : LET x == [worker[w] EXCEPT !.pc = p]
                            IN  x \in Worker /\ x.pc = p /\ x.msg = m
    BY <1>1, SameMessage
  <2>3. LET x == [worker[w] EXCEPT !.next = worker[w].next + 1]
        IN  x \in Worker /\ x.pc = "publish" /\ x.msg = m
    BY <1>1, <1>2, <2>1 DEF Worker
  <2>4. \/ worker' = [worker EXCEPT ![w] = [worker[w] EXCEPT !.next = worker[w].next + 1]]
        \/ worker' = [worker EXCEPT ![w] = [worker[w] EXCEPT !.pc = "mark_sent"]]
        \/ worker' = [worker EXCEPT ![w] = [worker[w] EXCEPT !.pc = "mark_dead"]]
    BY PathTypes DEF Route
  <2>5. QED
    BY <2>2, <2>3, <2>4 DEF WorkerPC
<1>6. \A x \in Messages : Held(x)' <=> Held(x)
  BY <1>1, <1>2, <1>5, HandsOfOne
<1>7. \A x \in Messages : Place(x)' = Place(x)
  BY <1>4, <1>6, SameEntries, NobodyMoves
<1>8. Place(m) = "worker"
  BY <1>1, <1>2, InHand
<1>9. /\ \A x \in Messages : x # m => (Reached(x)' <=> Reached(x))
      /\ Reached(m) => Reached(m)'
  BY <1>1, <1>3, PublishOne, PathTypes DEF Route
<1>10. QED
  BY <1>4, <1>7, <1>8, <1>9, StaysOrReaches

\* The updates of the status: the worker keeps the message or lets it go.
LEMMA MarksJourney ==
  ASSUME PathInv, NEW w \in Workers, NEW o \in Outcome,
         MarkSent(w, o) \/ MarkDead(w, o) \/ MarkFailed(w, o),
         UNCHANGED serviceVars
  PROVE  JourneyStep
<1>1. UNCHANGED <<queue, entries, published, sends>> /\ w \in Busy
  BY BusyWorker DEF MarkSent, MarkDead, MarkFailed, serviceVars
<1>2. PICK r \in Worker :
        /\ worker' = [worker EXCEPT ![w] = r]
        /\ r.pc \notin {"idle", "returned"} => r.msg = worker[w].msg
  <2>1. \A p \in WorkerPC : LET x == [worker[w] EXCEPT !.pc = p]
                            IN  x \in Worker /\ x.msg = worker[w].msg
    BY SameMessage
  <2>2. \/ worker' = [worker EXCEPT ![w] = Idle]
        \/ worker' = [worker EXCEPT ![w] = [worker[w] EXCEPT !.pc = "mark_dead"]]
        \/ worker' = [worker EXCEPT ![w] = [worker[w] EXCEPT !.pc = "enqueue"]]
    BY PathTypes DEF MarkSent, MarkDead, MarkFailed
  <2>3. QED
    BY <2>1, <2>2, IdleWorker DEF WorkerPC
<1>3. \A x \in Messages : Held(x)' => Held(x)
  BY <1>1, <1>2, HandsOfOne
<1>4. QED
  BY <1>1, <1>3, SameEntries, HandsOpen, Ends

LEMMA ReturnJourney ==
  ASSUME PathInv, NEW w \in Workers, WorkerReturn(w), UNCHANGED serviceVars
  PROVE  JourneyStep
<1>1. UNCHANGED <<queue, entries, published, sends>>
  BY DEF WorkerReturn, dlqVars, storeVars, serviceVars
<1>2. worker' = [worker EXCEPT ![w] = Gone]
  BY DEF WorkerReturn
<1>3. \A x \in Messages : Held(x)' => Held(x)
  BY <1>2, HandsOfOne, IdleWorker
<1>4. QED
  BY <1>1, <1>3, SameEntries, HandsOpen, Ends

\* The first message of the list goes to the worker, or is lost with the reply.
LEMMA PopJourney ==
  ASSUME PathInv, NEW w \in Workers, NEW o \in Outcome, Pop(w, o),
         UNCHANGED serviceVars
  PROVE  JourneyStep
<1>1. /\ worker[w].pc = "idle" /\ w \notin Busy
      /\ queue \in Seq(Messages) /\ queue # << >> /\ queue' = Tail(queue)
      /\ UNCHANGED <<entries, published, sends>>
  BY PathTypes DEF Pop, RPop, Busy, serviceVars
<1>2. PICK m \in Messages : m = Head(queue)
  BY <1>1
<1>3. /\ 1 \in DOMAIN queue /\ m = queue[1]
      /\ \A i \in DOMAIN queue' :
           /\ i + 1 \in DOMAIN queue /\ i + 1 # 1
           /\ queue'[i] = queue[i + 1]
      /\ \A i \in DOMAIN queue : i # 1 => i - 1 \in DOMAIN queue' /\ queue'[i - 1] = queue[i]
  BY <1>1, <1>2
<1>4. Queued(m) /\ ~ Queued(m)' /\ \A x : x # m => (Queued(x)' <=> Queued(x))
  <2>1. \A i \in DOMAIN queue : queue[i] = queue[1] => i = 1
    BY <1>3 DEF PathInv, Custody, ExclusiveCustody
  <2>2. Queued(m) /\ ~ Queued(m)'
    BY <1>3, <2>1 DEF Queued
  <2>3. ASSUME NEW x, x # m, Queued(x) PROVE Queued(x)'
    BY <1>3, <2>3 DEF Queued
  <2>4. ASSUME NEW x, Queued(x)' PROVE Queued(x)
    BY <1>3, <2>4 DEF Queued
  <2>5. QED
    BY <2>2, <2>3, <2>4
<1>5. \A x : EntriesOf(x)' = EntriesOf(x)
  BY <1>1 DEF EntriesOf
<1>6. /\ EntriesOf(m) = {} /\ ~ Held(m) /\ sends[m] \in {"accepted", "rejected"}
  <2>1. EntriesOf(m) = {}
    BY <1>4 DEF PathInv, Custody, OneDeadLetter, EntriesOf
  <2>2. ~ Held(m)
    BY <1>4 DEF PathInv, Custody, ExclusiveCustody, Held
  <2>3. QED
    BY <1>4, <2>1, <2>2 DEF PathInv, Custody, SendOrder
<1>7. PICK p \in {"worker", "gone"} :
        \A x \in Messages : Place(x)' = IF x \in {m} THEN p ELSE Place(x)
  <2> DEFINE r == [pc |-> "publish", msg |-> m, next |-> 1]
  <2>1. r.pc = "publish" /\ r.msg = m
    OBVIOUS
  <2>2. worker' = [worker EXCEPT ![w] = r] \/ worker' = worker
    BY <1>2 DEF Pop
  <2> HIDE DEF r
  <2>3. /\ \A v \in Workers : v # w => worker'[v] = worker[v]
        /\ worker'[w] = r \/ worker'[w] = worker[w]
    BY <2>2, PathTypes
  <2>4. /\ \A v \in Workers : v # w => (v \in Busy' <=> v \in Busy)
        /\ w \in Busy' => worker'[w] = r
        /\ Busy \subseteq Workers /\ Busy' \subseteq Workers
    BY <1>1, <2>3 DEF Busy
  <2>5. \A x \in Messages : x # m => (Held(x)' <=> Held(x))
    BY <1>1, <2>1, <2>3, <2>4 DEF Held
  <2>6. \A x \in Messages : x # m => Place(x)' = Place(x)
    BY <1>1, <1>4, <1>5, <2>5 DEF Place
  <2>7. Place(m)' \in {"worker", "gone"}
    BY <1>1, <1>4, <1>5, <1>6 DEF Place
  <2>8. QED
    BY <2>6, <2>7
<1>8. Journey!Move({m}, p)
  BY <1>7, MoveIs
<1>9. {x \in Messages : Reached(x)}' = {x \in Messages : Reached(x)}
  BY <1>1 DEF Reached, Targets
<1>10. Journey!HandOut
  BY <1>1, <1>2, <1>7, <1>8, <1>9 DEF Journey!HandOut
<1>11. QED
  BY <1>10 DEF JourneyStep, Journey!Next

\* The message is filed, or the INSERT had no effect.
LEMMA EnqueueJourney ==
  ASSUME PathInv, NEW w \in Workers, NEW o \in Outcome, EnqueueDead(w, o),
         UNCHANGED serviceVars
  PROVE  JourneyStep
<1>1. /\ worker[w].pc = "enqueue" /\ w \in Busy
      /\ UNCHANGED <<queue, published, sends>>
  BY BusyWorker DEF EnqueueDead, serviceVars
<1>2. PICK m \in Messages : m = worker[w].msg
  BY BusyWorker DEF EnqueueDead
<1>3. PICK r \in Worker :
        /\ worker' = [worker EXCEPT ![w] = r]
        /\ r.pc \notin {"idle", "returned"} => r.msg = m
  <2>1. \A p \in WorkerPC : LET x == [worker[w] EXCEPT !.pc = p]
                            IN  x \in Worker /\ x.msg = m
    BY <1>2, SameMessage
  <2>2. \/ worker' = [worker EXCEPT ![w] = Idle]
        \/ worker' = [worker EXCEPT ![w] = [worker[w] EXCEPT !.pc = "mark_failed"]]
    BY PathTypes DEF EnqueueDead
  <2>3. QED
    BY <2>1, <2>2, IdleWorker DEF WorkerPC
<1>4. /\ \A x \in Messages : Held(x)' => Held(x)
      /\ \A x \in Messages : x # m => (Held(x)' <=> Held(x))
  BY <1>1, <1>2, <1>3, HandsOfOne
<1>5. CreateDeadLetterEntry(m, o)
  BY <1>2 DEF EnqueueDead
<1>6. /\ DOMAIN entries \subseteq DOMAIN entries'
      /\ \A id \in DOMAIN entries : entries'[id] = entries[id]
      /\ \A id \in DOMAIN entries' \ DOMAIN entries : entries'[id].msg = m
  BY <1>5, EntryCreated, PathTypes
<1>7. CASE DOMAIN entries' = DOMAIN entries
  BY <1>1, <1>4, <1>6, <1>7, SameEntries, HandsOpen, Ends
<1>8. CASE DOMAIN entries' # DOMAIN entries
  <2>1. EntriesOf(m)' # {}
    BY <1>6, <1>8 DEF EntriesOf
  <2>2. \A x \in Messages : x # m => EntriesOf(x)' = EntriesOf(x)
    BY <1>6 DEF EntriesOf
  <2>3. \A x : Queued(x)' <=> Queued(x)
    BY <1>1 DEF Queued
  <2>4. Place(m) = "worker"
    BY <1>1, <1>2, InHand
  <2>5. Place(m)' = "letter"
    BY <2>1, <2>3, <2>4 DEF Place
  <2>6. \A x \in Messages : x # m => Place(x)' = Place(x)
    BY <1>1, <1>4, <2>2, <2>3 DEF Place
  <2>7. Journey!Move({m}, "letter")
    BY <2>5, <2>6, MoveIs
  <2>8. {x \in Messages : Reached(x)}' = {x \in Messages : Reached(x)}
    BY <1>1 DEF Reached, Targets
  <2>9. Journey!File(m)
    BY <1>1, <2>4, <2>7, <2>8, AtIs DEF Journey!File
  <2>10. QED
    BY <2>9 DEF JourneyStep, Journey!Next
<1>9. QED
  BY <1>7, <1>8

-----------------------------------------------------------------------------
(* The steps of a dead-letter loop, and the life of an engine.              *)

\* A retry publishes a message that is filed; nothing else a loop does moves a
\* message or publishes one.
LEMMA LoopJourney ==
  ASSUME PathInv, NEW e \in Engines, LoopStep(e), UNCHANGED <<worker, serviceVars>>
  PROVE  JourneyStep
<1>1. UNCHANGED <<queue, worker, sends>>
  BY LoopEffect DEF serviceVars
<1>2. \A x \in Messages : EntriesOf(x)' = EntriesOf(x)
  BY LoopEffect, SameEntries
<1>3. \A x \in Messages : Held(x)' <=> Held(x)
  BY <1>1 DEF Held, Busy
<1>4. \A x \in Messages : Place(x)' = Place(x)
  BY <1>1, <1>2, <1>3, NobodyMoves
<1>5. ASSUME NEW o \in Outcome, NEW b \in loop[e].batch, PublishRetry(e, b, o)
      PROVE  JourneyStep
  <2>1. DLQTypeOK /\ DLQInv
    BY PathTypes DEF PathInv
  <2>2. b.id \in DOMAIN entries /\ entries[b.id].msg \in Messages
    BY <2>1, BatchEntry
  <2>3. PICK m \in Messages : m = entries[b.id].msg
    BY <2>2
  <2>4. loop[e].next \in Targets(m)
    BY <1>5, <2>1, <2>3 DEF DLQInv, LoopOK, EntryInHand, PublishRetry
  <2>5. Place(m) = "letter"
    BY <2>2, <2>3, FiledAway
  <2>6. Publish(m, loop[e].next, o)
    BY <1>5, <2>3 DEF PublishRetry
  <2>7. /\ \A x \in Messages : x # m => (Reached(x)' <=> Reached(x))
        /\ Reached(m) => Reached(m)'
    BY <2>4, <2>6, PublishOne, PathTypes
  <2>8. QED
    BY <1>1, <1>4, <2>5, <2>7, StaysOrReaches
<1>6. ASSUME UNCHANGED published PROVE JourneyStep
  BY <1>1, <1>4, <1>6, Ends
<1>7. ASSUME NEW o \in Outcome, NEW b \in loop[e].batch,
             MarkMessage(e, b, o) \/ MarkEntry(e, b, o)
      PROVE  UNCHANGED published
  BY <1>7 DEF MarkMessage, MarkEntry
<1>8. ASSUME NEW o \in Outcome, Tick(e, o) \/ LoopReturn(e)
      PROVE  UNCHANGED published
  BY <1>8 DEF Tick, LoopReturn, storeVars
<1>9. QED
  BY <1>5, <1>6, <1>7, <1>8 DEF LoopStep, RetryEntry, Outcome

\* The workers of an engine that dies let go of what they have.
LEMMA LifeJourney ==
  ASSUME PathInv, NEW e \in Engines, UNCHANGED serviceVars,
         StopCancel(e) \/ StopReturn(e) \/ Crash(e) \/ Start(e)
  PROVE  JourneyStep
<1>1. UNCHANGED <<queue, entries, published, sends>>
  BY DEF StopCancel, StopReturn, Crash, Start, storeVars, serviceVars
<1>2. \A v \in Workers : worker'[v] \in {worker[v], Idle, Gone}
  BY PathTypes, IdleWorker DEF StopCancel, StopReturn, Crash, Start, SetWorkers
<1>3. \A v \in Workers : v \in Busy' => v \in Busy /\ worker'[v] = worker[v]
  BY <1>2, IdleWorker DEF Busy
<1>4. Busy' \subseteq Workers
  BY DEF Busy
<1>5. \A x \in Messages : Held(x)' => Held(x)
  BY <1>3, <1>4 DEF Held
<1>6. QED
  BY <1>1, <1>5, SameEntries, HandsOpen, Ends

-----------------------------------------------------------------------------
(* The steps of the gateways.                                               *)

\* Requests end or go on, and touch nothing else that the way depends on.
LEMMA SendersEnd ==
  ASSUME PathInv, UNCHANGED <<queue, entries, published, worker>>,
         \A x \in Messages : sends'[x] \in {"new", "push"} =>
                               sends[x] \in {"new", "push"}
  PROVE  JourneyStep
<1>1. ASSUME NEW x \in Messages
      PROVE  \/ Place(x)' = Place(x)
             \/ Place(x) = "sender" /\ Place(x)' = "gone"
  <2>1. /\ Queued(x)' <=> Queued(x)
        /\ Held(x)' <=> Held(x)
        /\ EntriesOf(x)' = EntriesOf(x)
    BY DEF Queued, Held, Busy, EntriesOf
  <2>2. QED
    BY <2>1 DEF Place
<1>2. QED
  BY <1>1, Ends

LEMMA SendCreateJourney ==
  ASSUME PathInv, NEW m \in Messages, NEW o \in Outcome, SendCreate(m, o),
         UNCHANGED processVars
  PROVE  JourneyStep
<1>1. UNCHANGED <<queue, entries, published, worker>> /\ sends[m] = "new"
  BY DEF SendCreate, processVars
<1>2. \A x \in Messages : x # m => sends'[x] = sends[x]
  BY PathTypes DEF SendCreate
<1>3. QED
  BY <1>1, <1>2, SendersEnd

LEMMA SendAbandonedJourney ==
  ASSUME PathInv, NEW m \in Messages, SendAbandoned(m), UNCHANGED processVars
  PROVE  JourneyStep
<1>1. UNCHANGED <<queue, entries, published, worker>>
  BY DEF SendAbandoned, storeVars, processVars
<1>2. \A x \in Messages : sends'[x] \in {sends[x], "rejected"}
  BY DEF SendAbandoned
<1>3. QED
  BY <1>1, <1>2, SendersEnd

\* The message joins the line, whatever the client is told, or it does not.
LEMMA SendPushJourney ==
  ASSUME PathInv, NEW m \in Messages, NEW o \in Outcome, SendPush(m, o),
         UNCHANGED processVars
  PROVE  JourneyStep
<1>1. UNCHANGED <<entries, published, worker>> /\ sends[m] = "push"
  BY DEF SendPush, processVars
<1>2. \A x \in Messages : x # m => sends'[x] = sends[x]
  BY PathTypes DEF SendPush
<1>3. CASE queue' = queue
  BY <1>1, <1>2, <1>3, SendersEnd
<1>4. CASE queue' = Append(queue, m)
  <2>1. /\ queue \in Seq(Messages)
        /\ \A i \in DOMAIN queue : i \in DOMAIN queue' /\ queue'[i] = queue[i]
        /\ \A i \in DOMAIN queue' \ DOMAIN queue : queue'[i] = m
        /\ Len(queue) + 1 \in DOMAIN queue' /\ queue'[Len(queue) + 1] = m
    BY <1>4, PathTypes
  <2>2. Queued(m)' /\ \A x : x # m => (Queued(x)' <=> Queued(x))
    BY <2>1 DEF Queued
  <2>3. \A x : (Held(x)' <=> Held(x)) /\ EntriesOf(x)' = EntriesOf(x)
    BY <1>1 DEF Held, Busy, EntriesOf
  <2>4. Place(m) = "sender"
    <3>1. ~ Queued(m) /\ ~ Held(m) /\ EntriesOf(m) = {}
      BY <1>1 DEF PathInv, Custody, SendOrder
    <3>2. QED
      BY <1>1, <3>1 DEF Place
  <2>5. \A x \in Messages : Place(x)' = IF x \in {m} THEN "line" ELSE Place(x)
    BY <1>2, <2>2, <2>3 DEF Place
  <2>6. Journey!Move({m}, "line")
    BY <2>5, MoveIs
  <2>7. {x \in Messages : Reached(x)}' = {x \in Messages : Reached(x)}
    BY <1>1 DEF Reached, Targets
  <2>8. Journey!Join(m)
    BY <1>4, <2>4, <2>6, <2>7, AtIs DEF Journey!Join
  <2>9. QED
    BY <2>8 DEF JourneyStep, Journey!Next
<1>5. QED
  BY <1>3, <1>4 DEF SendPush, LPush

\* Acknowledgements come after the way.
LEMMA AckJourney ==
  ASSUME PathInv, NEW h \in Handlers, UNCHANGED processVars,
         \/ \E n \in Nonces, r \in Ack : AckBegin(h, n, r)
         \/ AckStep(h)
         \/ AckAbandoned(h)
  PROVE  JourneyStep
<1>1. UNCHANGED <<queue, entries, published, worker, sends>>
  BY DEF AckBegin, AckStep, AckInsert, AckUpdate, AckAbandoned, storeVars, processVars
<1>2. QED
  BY <1>1, SendersEnd

-----------------------------------------------------------------------------
\* Every message takes one way: it joins the line at most once, is handed out
\* in the order of the pushes to one worker, is filed at most once, never turns
\* back, and its recipients are reached only on that way.
THEOREM PathRefinesJourney == Spec => RefinesJourney
<1>1. Init => Journey!Init
  <2> SUFFICES ASSUME Init PROVE Journey!Init
    OBVIOUS
  <2>1. /\ queue = << >> /\ entries = << >>
        /\ published = [m \in Messages |-> [i \in Targets(m) |-> 0]]
        /\ worker = [w \in Workers |-> Idle]
        /\ sends = [m \in Messages |-> "new"]
    BY DEF Init, EngineInit, ServiceInit, StoreInit
  <2>2. Busy = {}
    BY <2>1, IdleWorker DEF Busy
  <2>3. \A m \in Messages : Place(m) = "sender"
    BY <2>1, <2>2 DEF Place, Queued, Held, EntriesOf
  <2>4. \A m \in Messages : ~ Reached(m)
    BY <2>1, TargetsFacts DEF Reached
  <2>5. QED
    BY <2>1, <2>3, <2>4 DEF Journey!Init
<1>2. PathInv /\ [Next]_vars => JourneyStep
  <2> SUFFICES ASSUME PathInv, [Next]_vars PROVE JourneyStep
    OBVIOUS
  <2>1. CASE EngineStep /\ UNCHANGED serviceVars
    <3>1. ASSUME NEW w \in Workers, WorkerStep(w) PROVE JourneyStep
      BY <2>1, <3>1, PopJourney, RouteJourney, MarksJourney, EnqueueJourney,
         ReturnJourney DEF WorkerStep, WorkerCall
    <3>2. QED
      BY <2>1, <3>1, LoopJourney, LifeJourney DEF EngineStep
  <2>2. CASE ServiceStep /\ UNCHANGED processVars
    BY <2>2, SendCreateJourney, SendPushJourney, SendAbandonedJourney, AckJourney
      DEF ServiceStep, SendStep
  <2>3. CASE UNCHANGED vars
    <3>1. UNCHANGED <<queue, entries, published, worker, sends>>
      BY <2>3 DEF vars, storeVars, processVars, serviceVars
    <3>2. QED
      BY <3>1, SendersEnd
  <2>4. QED
    BY <2>1, <2>2, <2>3 DEF Next
<1>3. QED
  BY <1>1, <1>2, PathInvariant, PTL DEF Spec, RefinesJourney, Journey!Spec, JourneyStep
=============================================================================
