--------------------------- MODULE DeadLetterQueue ----------------------------
(***************************************************************************)
(* The dead-letter queue of internal/engine/engine.go.  Every message      *)
(* engine runs one ProcessLoop: at each tick of a timer it lists the       *)
(* retryable entries of the dead_letter_queue table, publishes the message *)
(* of each again and writes the outcome back.  The list is a snapshot that *)
(* takes no lock, and the outcome is written as absolute values computed   *)
(* from it.                                                                *)
(***************************************************************************)
EXTENDS MessageStore, FiniteSets

CONSTANTS
  Engines,           \* the engine processes (replicas) on one database
  MaxRetries,        \* EngineConfig.MaxRetries, written in every entry
  BatchLimit,        \* the limit that process passes to the list query
  MaxInterruptions   \* bound: shutdowns and crashes in one behaviour

ASSUME RetryAssumption ==
  /\ MaxRetries \in Nat \ {0}     \* cmd/message-engine sets 3
  /\ BatchLimit \in Nat \ {0}     \* 100
  /\ MaxInterruptions \in Nat

VARIABLES
  phase,          \* "running", "stopping" (context cancelled) or "down"
  loop,           \* the ProcessLoop goroutine of each engine
  interruptions   \* shutdowns and crashes so far

dlqVars == <<storeVars, phase, loop, interruptions>>

LoopPC == {"ticker", "publish", "mark_message", "mark_entry", "returned"}

Loop == [pc      : LoopPC,
         batch   : SUBSET [id : Nat, retries : Nat],  \* still to be retried
         next    : Nat,                               \* next recipient
         verdict : DeadLetterStatus]                  \* to be written

AtTicker == [pc |-> "ticker", batch |-> {}, next |-> 1, verdict |-> "pending"]
Returned == [AtTicker EXCEPT !.pc = "returned"]

\* The context that Start derives and Stop cancels.
Live(e) == phase[e] = "running"

DLQTypeOK ==
  /\ StoreTypeOK
  /\ phase \in [Engines -> {"running", "stopping", "down"}]
  /\ loop \in [Engines -> Loop]
  /\ \A e \in Engines : \A b \in loop[e].batch : b.id \in DOMAIN entries
  /\ interruptions \in 0 .. MaxInterruptions

-----------------------------------------------------------------------------
\* Mutants of Retryable: the WHERE clause without the status; a limit that
\* ends one retry too early.
RetryableAnyStatus == {id \in DOMAIN entries : entries[id].retries < MaxRetries}
RetryableOffByOne == {id \in DOMAIN entries : /\ entries[id].status = "pending"
                                              /\ entries[id].retries + 1 < MaxRetries}

\* WHERE status = 'pending' AND retry_count < max_retries
Retryable == {id \in DOMAIN entries : /\ entries[id].status = "pending"
                                      /\ entries[id].retries < MaxRetries}

\* ORDER BY created_at ASC LIMIT
Oldest(S) == {id \in S : Cardinality({j \in S : j < id}) < BatchLimit}

\* A tick: process lists the retryable entries.
Tick(e, o) ==
  /\ phase[e] # "down" /\ loop[e].pc = "ticker"
  /\ Call(o, Live(e))
  /\ loop' = IF o = "ok" /\ Oldest(Retryable) # {}
             THEN [loop EXCEPT ![e].pc = "publish", ![e].next = 1,
                               ![e].batch = {[id |-> id, retries |-> entries[id].retries]
                                               : id \in Oldest(Retryable)}]
             ELSE loop
  /\ UNCHANGED <<status, queue, entries, published, phase, interruptions>>

\* The entry of the snapshot that retryEntry works on: they go oldest first.
Current(e, b) == \A c \in loop[e].batch : b.id <= c.id

Verdict(b) == IF b.retries + 1 >= MaxRetries THEN "exhausted" ELSE "pending"

\* A mutant of PublishRetry: errors do not end the loop.
PublishRetryIgnoringErrors(e, b, o) ==
  LET m == entries[b.id].msg
      i == loop[e].next
  IN
  /\ loop[e].pc = "publish" /\ Current(e, b)
  /\ Call(o, Live(e))
  /\ Publish(m, i, o)
  /\ loop' = IF i < Len(Recipients[m]) THEN [loop EXCEPT ![e].next = i + 1]
             ELSE [loop EXCEPT ![e].pc = "mark_message", ![e].verdict = "processed"]
  /\ UNCHANGED <<status, queue, entries, phase, interruptions>>

\* One Publish of publishMessage, which gives up at the first error.
PublishRetry(e, b, o) ==
  LET m == entries[b.id].msg
      i == loop[e].next
  IN
  /\ loop[e].pc = "publish" /\ Current(e, b)
  /\ Call(o, Live(e))
  /\ Publish(m, i, o)
  /\ \/ /\ o = "ok" /\ i < Len(Recipients[m])
        /\ loop' = [loop EXCEPT ![e].next = i + 1]
     \/ /\ o = "ok" /\ i >= Len(Recipients[m])
        /\ loop' = [loop EXCEPT ![e].pc = "mark_message", ![e].verdict = "processed"]
     \/ /\ o # "ok"
        /\ loop' = [loop EXCEPT ![e].verdict = Verdict(b),
                                ![e].pc = IF Verdict(b) = "exhausted"
                                          THEN "mark_message" ELSE "mark_entry"]
  /\ UNCHANGED <<status, queue, entries, phase, interruptions>>

\* The status of the message follows the verdict; an error is ignored.
MarkMessage(e, b, o) ==
  /\ loop[e].pc = "mark_message" /\ Current(e, b)
  /\ Call(o, Live(e))
  /\ UpdateMessageStatus(entries[b.id].msg,
                         IF loop[e].verdict = "processed" THEN "sent" ELSE "failed", o)
  /\ loop' = [loop EXCEPT ![e].pc = "mark_entry"]
  /\ UNCHANGED <<queue, entries, published, phase, interruptions>>

\* Mutants of MarkEntry: n is what it writes for retry_count, and rest the
\* part of the batch it leaves.
MarkEntryWith(e, b, o, n, rest) ==
  /\ loop[e].pc = "mark_entry" /\ Current(e, b)
  /\ Call(o, Live(e))
  /\ UpdateDeadLetterEntry(b.id, loop[e].verdict, n, o)
  /\ loop' = [loop EXCEPT ![e] =
                IF rest = {} THEN AtTicker
                ELSE [pc |-> "publish", batch |-> rest, next |-> 1,
                      verdict |-> "pending"]]
  /\ UNCHANGED <<status, queue, published, phase, interruptions>>

MarkEntryUncounted(e, b, o) == MarkEntryWith(e, b, o, b.retries, loop[e].batch \ {b})
\* SET retry_count = retry_count + 1.
MarkEntryRelative(e, b, o) ==
  MarkEntryWith(e, b, o, entries[b.id].retries + 1, loop[e].batch \ {b})
MarkEntryRepeating(e, b, o) == MarkEntryWith(e, b, o, b.retries + 1, loop[e].batch)

\* markEntry; an error is only logged, and process goes on to the next entry.
MarkEntry(e, b, o) ==
  /\ loop[e].pc = "mark_entry" /\ Current(e, b)
  /\ Call(o, Live(e))
  /\ UpdateDeadLetterEntry(b.id, loop[e].verdict, b.retries + 1, o)
  /\ loop' = [loop EXCEPT ![e] =
                IF @.batch = {b} THEN AtTicker
                ELSE [pc |-> "publish", batch |-> @.batch \ {b}, next |-> 1,
                      verdict |-> "pending"]]
  /\ UNCHANGED <<status, queue, published, phase, interruptions>>

\* The select of ProcessLoop sees that the context is done.
LoopReturn(e) ==
  /\ phase[e] = "stopping" /\ loop[e].pc = "ticker"
  /\ loop' = [loop EXCEPT ![e] = Returned]
  /\ UNCHANGED <<storeVars, phase, interruptions>>

RetryEntry(e, o) == \E b \in loop[e].batch : \/ PublishRetry(e, b, o)
                                             \/ MarkMessage(e, b, o)
                                             \/ MarkEntry(e, b, o)

LoopStep(e) == \/ \E o \in Outcome : Tick(e, o) \/ RetryEntry(e, o)
               \/ LoopReturn(e)

-----------------------------------------------------------------------------
(* The life of the process, as the loop sees it.                            *)

\* The first half of Stop: the context is cancelled.
Cancel(e) ==
  /\ phase[e] = "running"
  /\ interruptions < MaxInterruptions
  /\ interruptions' = interruptions + 1
  /\ phase' = [phase EXCEPT ![e] = "stopping"]
  /\ UNCHANGED loop

\* The process dies; what its goroutines had in hand is gone.
Die(e) ==
  /\ phase[e] # "down"
  /\ interruptions < MaxInterruptions
  /\ interruptions' = interruptions + 1
  /\ phase' = [phase EXCEPT ![e] = "down"]
  /\ loop' = [loop EXCEPT ![e] = Returned]

\* The second half of Stop: every goroutine has returned, the process exits.
Exit(e) ==
  /\ phase[e] = "stopping" /\ loop[e].pc = "returned"
  /\ phase' = [phase EXCEPT ![e] = "down"]
  /\ UNCHANGED <<loop, interruptions>>

\* A new process is started in its place.
StartLoop(e) ==
  /\ phase[e] = "down"
  /\ phase' = [phase EXCEPT ![e] = "running"]
  /\ loop' = [loop EXCEPT ![e] = AtTicker]
  /\ UNCHANGED interruptions

-----------------------------------------------------------------------------
(***************************************************************************)
(* The queue by itself.  The workers are its environment: each message     *)
(* has been marked dead_letter by a worker whose publishing failed at the  *)
(* first recipient, and Enqueue is called for it at most once.             *)
(***************************************************************************)
DLQInit ==
  /\ status = [m \in Messages |-> "dead_letter"]
  /\ queue = << >>
  /\ entries = << >>
  /\ published = [m \in Messages |-> [i \in Targets(m) |-> 0]]
  /\ faults = 0
  /\ phase = [e \in Engines |-> "running"]
  /\ loop = [e \in Engines |-> AtTicker]
  /\ interruptions = 0

\* A worker of engine e calls Enqueue.
Enqueue(e, m, o) ==
  /\ phase[e] # "down" /\ EntriesOf(m) = {}
  /\ Call(o, Live(e))
  /\ CreateDeadLetterEntry(m, o)
  /\ UNCHANGED <<status, queue, published, phase, loop, interruptions>>

DLQNext ==
  \E e \in Engines :
    \/ \E m \in Messages, o \in Outcome : Enqueue(e, m, o)
    \/ LoopStep(e)
    \/ (Cancel(e) \/ Die(e) \/ Exit(e) \/ StartLoop(e)) /\ UNCHANGED storeVars

\* The ticker and the scheduler keep each loop going, a cancelled process
\* exits and is replaced; nothing makes a process stop or a worker fail.
DLQSpec ==
  /\ DLQInit /\ [][DLQNext]_dlqVars
  /\ \A e \in Engines :
       /\ WF_dlqVars(LoopStep(e))
       /\ WF_dlqVars((Exit(e) \/ StartLoop(e)) /\ UNCHANGED storeVars)

-----------------------------------------------------------------------------
(* Properties.                                                              *)

\* The count that the table holds stays within max_retries, and below it while
\* the entry waits: it is written as a value computed from a snapshot, by any
\* engine.  It is a bound of the count only.  Two engines may spend the same
\* retry, and one whose markEntry failed is repeated: an entry may be published
\* more often than it has retries.
RetriesWithinBudget ==
  \A id \in DOMAIN entries :
    /\ entries[id].retries <= MaxRetries
    /\ entries[id].status = "pending" => entries[id].retries < MaxRetries
    /\ entries[id].status = "processed" => entries[id].retries > 0
    /\ entries[id].status = "exhausted" => entries[id].retries = MaxRetries

\* "processed" is written only after publishMessage went through the whole
\* recipient list: no engine can mark an entry another engine half published
\* unless every recipient has been reached.
ProcessedReachedAll ==
  \A id \in DOMAIN entries :
    entries[id].status = "processed" => Reached(entries[id].msg)

\* A message that shows as "sent" has been published to every recipient,
\* whichever worker or dead-letter loop wrote the status and however many
\* failed attempts went before.
SentReachedAll == \A m \in Messages : status[m] = "sent" => Reached(m)

\* What retryEntry holds is what the table says: the snapshot of the engine
\* that works on an entry is not stale.  This is what a second engine breaks.
SnapshotFresh ==
  \A e \in Engines : \A b \in loop[e].batch :
    /\ entries[b.id].status = "pending"
    /\ entries[b.id].retries = b.retries

\* With one engine the table implements the abstract retry budget: an entry
\* is opened, consumes its retries one by one and then closes for good.
Budget == INSTANCE RetryBudget WITH cells <- entries
RefinesBudget == Budget!Spec

\* processed_at is set once: an entry that is processed or exhausted is never
\* written again.
SettledIsFinal ==
  [][\A id \in DOMAIN entries :
       entries[id].status # "pending" => entries'[id] = entries[id]]_dlqVars

\* Every entry is eventually processed or exhausted: the retries cannot go on
\* forever, nor can an entry be left behind by a batch that older ones fill
\* again at every tick because they keep failing.
EntriesSettle ==
  \A id \in 1 .. Cardinality(Messages) :
    (id \in DOMAIN entries) ~>
      (id \in DOMAIN entries /\ entries[id].status # "pending")

\* A cancelled engine returns, even with a batch half done.
StopReturns == \A e \in Engines : (phase[e] = "stopping") ~> (phase[e] = "down")
=============================================================================
