------------------------- MODULE DeadLetterQueueProofs ------------------------
(***************************************************************************)
(* Theorems about the dead-letter queue, for any number of engines unless  *)
(* a theorem says otherwise, any retry budget and any number of failures.  *)
(* The lemmas about single steps are also what the proofs about the whole  *)
(* message path rest on.                                                   *)
(***************************************************************************)
EXTENDS DeadLetterQueue, TLAPS

-----------------------------------------------------------------------------
(***************************************************************************)
(* What the statements of MessageStore return, preserve and bound.  The    *)
(* proofs about the components cite these lemmas and never look inside the *)
(* tables again.                                                           *)
(***************************************************************************)

\* published has the type of the channels: a counter for every recipient.
PublishedTypeOK ==
  /\ DOMAIN published = Messages
  /\ \A m \in Messages : published[m] \in [Targets(m) -> Nat]

\* A recipient list has a first and a last position.
LEMMA TargetsFacts ==
  ASSUME NEW m \in Messages
  PROVE  /\ Recipients[m] \in Seq(Agents)
         /\ Len(Recipients[m]) \in Nat \ {0}
         /\ Targets(m) = 1 .. Len(Recipients[m])
         /\ 1 \in Targets(m)
<1>1. Recipients[m] \in Seq(Agents) /\ Recipients[m] # << >>
  BY RecipientsAssumption
<1>2. Len(Recipients[m]) \in Nat \ {0}
  BY <1>1
<1>3. QED
  BY <1>1, <1>2 DEF Targets

\* A call counts at most one fault, and stays within the bound.
LEMMA CallFaults ==
  ASSUME faults \in 0 .. MaxFaults, NEW o, NEW live, Call(o, live)
  PROVE  faults' \in 0 .. MaxFaults
BY MaxFaultsAssumption DEF Call

\* A status update keeps the table typed, and keeps every row.
LEMMA StatusUpdate ==
  ASSUME status \in [Messages -> MessageStatus \cup {"none"}],
         NEW m \in Messages, NEW s \in MessageStatus, NEW o,
         UpdateMessageStatus(m, s, o)
  PROVE  /\ status' \in [Messages -> MessageStatus \cup {"none"}]
         /\ \A x \in Messages : (status[x] # "none") => (status'[x] # "none")
         /\ \A x \in Messages : status'[x] # status[x] => x = m /\ status'[x] = s
BY DEF UpdateMessageStatus, MessageStatus

\* Publishing never takes back what was published, and when it succeeds the
\* recipient has been reached.
LEMMA PublishReaches ==
  ASSUME PublishedTypeOK, NEW m \in Messages, NEW i \in Targets(m), NEW o,
         Publish(m, i, o)
  PROVE  /\ PublishedTypeOK'
         /\ \A x \in Messages : \A j \in Targets(x) :
              published[x][j] > 0 => published'[x][j] > 0
         /\ Took(o) => published'[m][i] > 0
<1>1. published[m] \in [Targets(m) -> Nat]
  BY DEF PublishedTypeOK
<1>2. CASE Took(o)
  <2>1. published' = [published EXCEPT ![m][i] = @ + 1]
    BY <1>2 DEF Publish
  <2>2. published' = [published EXCEPT ![m] = [published[m] EXCEPT ![i] = published[m][i] + 1]]
    BY <2>1
  <2>3. DOMAIN published' = Messages
    BY <2>2 DEF PublishedTypeOK
  <2>4. \A x \in Messages : x # m => published'[x] = published[x]
    BY <2>2 DEF PublishedTypeOK
  <2>5. published'[m] = [published[m] EXCEPT ![i] = published[m][i] + 1]
    BY <2>2 DEF PublishedTypeOK
  <2>6. published'[m] \in [Targets(m) -> Nat]
    BY <1>1, <2>5
  <2>7. \A j \in Targets(m) : published[m][j] > 0 => published'[m][j] > 0
    BY <1>1, <2>5
  <2>8. published'[m][i] > 0
    BY <1>1, <2>5
  <2>9. PublishedTypeOK'
    BY <2>3, <2>4, <2>6 DEF PublishedTypeOK, Targets
  <2>10. QED
    BY <2>4, <2>7, <2>8, <2>9
<1>3. CASE ~ Took(o)
  BY <1>3 DEF Publish, PublishedTypeOK, Targets
<1>4. QED
  BY <1>2, <1>3

\* What has reached everyone has reached everyone for good.
LEMMA ReachedStable ==
  ASSUME \A x \in Messages : \A j \in Targets(x) :
           published[x][j] > 0 => published'[x][j] > 0,
         NEW m \in Messages, Reached(m)
  PROVE  Reached(m)'
BY DEF Reached, Targets

\* Inserting a dead letter appends at most one entry, fresh and pending, and
\* leaves the others where they are.
LEMMA EntryCreated ==
  ASSUME entries \in Seq(Entry), NEW m \in Messages, NEW o,
         CreateDeadLetterEntry(m, o)
  PROVE  /\ entries' \in Seq(Entry)
         /\ DOMAIN entries \subseteq DOMAIN entries'
         /\ \A id \in DOMAIN entries : entries'[id] = entries[id]
         /\ \A id \in DOMAIN entries' \ DOMAIN entries :
              /\ entries'[id] = [msg |-> m, status |-> "pending", retries |-> 0]
              /\ Took(o) /\ status[m] # "none"
              /\ id = Len(entries) + 1
<1> DEFINE fresh == [msg |-> m, status |-> "pending", retries |-> 0]
<1>1. fresh \in Entry
  BY DEF Entry, DeadLetterStatus
<1>2. CASE Took(o) /\ status[m] # "none"
  <2>1. entries' = Append(entries, fresh)
    BY <1>2 DEF CreateDeadLetterEntry
  <2> HIDE DEF fresh
  <2>2. /\ entries' \in Seq(Entry)
        /\ Len(entries') = Len(entries) + 1
        /\ \A id \in 1 .. Len(entries) : entries'[id] = entries[id]
        /\ entries'[Len(entries) + 1] = fresh
    BY <1>1, <2>1
  <2>3. DOMAIN entries = 1 .. Len(entries) /\ DOMAIN entries' = 1 .. (Len(entries) + 1)
    BY <2>2
  <2>4. Len(entries) \in Nat
    OBVIOUS
  <2>5. QED
    BY <1>2, <2>2, <2>3, <2>4 DEF fresh
<1>3. CASE ~ (Took(o) /\ status[m] # "none")
  BY <1>3 DEF CreateDeadLetterEntry
<1>4. QED
  BY <1>2, <1>3

\* Updating a dead letter rewrites its status and its count, in place.
LEMMA EntryUpdated ==
  ASSUME entries \in Seq(Entry), NEW id \in DOMAIN entries,
         NEW s \in DeadLetterStatus, NEW n \in Nat, NEW o,
         UpdateDeadLetterEntry(id, s, n, o)
  PROVE  /\ entries' \in Seq(Entry)
         /\ DOMAIN entries' = DOMAIN entries
         /\ \A x \in DOMAIN entries : x # id => entries'[x] = entries[x]
         /\ entries'[id].msg = entries[id].msg
         /\ entries'[id] = IF Took(o)
                           THEN [msg |-> entries[id].msg, status |-> s, retries |-> n]
                           ELSE entries[id]
<1>1. entries[id] \in Entry
  OBVIOUS
<1>2. CASE Took(o)
  <2>1. entries' = [entries EXCEPT ![id].status = s, ![id].retries = n]
    BY <1>2 DEF UpdateDeadLetterEntry
  <2>2. entries'[id] = [[entries[id] EXCEPT !.status = s] EXCEPT !.retries = n]
    BY <2>1
  <2>3. entries'[id] = [msg |-> entries[id].msg, status |-> s, retries |-> n]
    BY <1>1, <2>2 DEF Entry
  <2>4. DOMAIN entries' = DOMAIN entries /\ \A x \in DOMAIN entries : x # id => entries'[x] = entries[x]
    BY <2>1
  <2>5. entries' = [entries EXCEPT ![id] = entries'[id]]
    BY <2>1, <2>2
  <2>6. entries'[id] \in Entry
    BY <1>1, <2>3 DEF Entry
  <2>7. entries' \in Seq(Entry)
    BY <2>5, <2>6
  <2>8. QED
    BY <1>2, <2>3, <2>4, <2>7
<1>3. CASE ~ Took(o)
  BY <1>3 DEF UpdateDeadLetterEntry
<1>4. QED
  BY <1>2, <1>3

-----------------------------------------------------------------------------
(***************************************************************************)
(* The inductive invariant.  The properties of the tables are not          *)
(* inductive by themselves: what an engine is about to write depends on    *)
(* the snapshot and on the progress that its loop has in hand.             *)
(***************************************************************************)

Working == {"publish", "mark_message", "mark_entry"}

\* What a loop in the middle of retryEntry knows about its current entry.
EntryInHand(e, b) ==
  LET m == entries[b.id].msg IN
  /\ loop[e].pc = "publish" =>
       /\ loop[e].next \in Targets(m)
       /\ \A j \in Targets(m) : j < loop[e].next => published[m][j] > 0
  /\ loop[e].pc \in {"mark_message", "mark_entry"} =>
       /\ loop[e].verdict = "processed" => Reached(m)
       /\ loop[e].verdict # "processed" => loop[e].verdict = Verdict(b)

LoopOK(e) ==
  /\ loop[e].pc \in Working <=> loop[e].batch # {}
  /\ \A b, c \in loop[e].batch : b.id = c.id => b = c
  /\ \A b \in loop[e].batch : b.retries < MaxRetries
  /\ \A b \in loop[e].batch : Current(e, b) => EntryInHand(e, b)

DLQInv ==
  /\ DLQTypeOK
  /\ \A e \in Engines : LoopOK(e)
  /\ SentReachedAll
  /\ RetriesWithinBudget
  /\ ProcessedReachedAll

-----------------------------------------------------------------------------
(* Types and frames.                                                        *)

LEMMA StoreTypes == StoreTypeOK <=>
  /\ status \in [Messages -> MessageStatus \cup {"none"}]
  /\ queue \in Seq(Messages)
  /\ entries \in Seq(Entry)
  /\ PublishedTypeOK
  /\ faults \in 0 .. MaxFaults
BY DEF StoreTypeOK, PublishedTypeOK

LEMMA RestTypes ==
  /\ AtTicker \in Loop /\ AtTicker.pc = "ticker" /\ AtTicker.batch = {}
  /\ Returned \in Loop /\ Returned.pc = "returned" /\ Returned.batch = {}
  /\ \A b : Verdict(b) \in DeadLetterStatus
BY DEF AtTicker, Returned, Loop, LoopPC, DeadLetterStatus, Verdict

LEMMA EntryTypes ==
  ASSUME DLQTypeOK, NEW id \in DOMAIN entries
  PROVE  /\ id \in Nat
         /\ entries[id] \in Entry
         /\ entries[id].msg \in Messages
         /\ entries[id].retries \in Nat
         /\ entries[id].status \in DeadLetterStatus
<1>1. entries \in Seq(Entry)
  BY DEF DLQTypeOK, StoreTypeOK
<1>2. entries[id] \in Entry /\ id \in Nat
  BY <1>1
<1>3. QED
  BY <1>2 DEF Entry

\* The entry a loop works on names a message.
LEMMA BatchEntry ==
  ASSUME DLQTypeOK, NEW e \in Engines, NEW b \in loop[e].batch
  PROVE  /\ b.id \in Nat /\ b.retries \in Nat
         /\ b.id \in DOMAIN entries
         /\ entries[b.id] \in Entry
         /\ entries[b.id].msg \in Messages
<1>1. loop[e] \in Loop
  BY DEF DLQTypeOK
<1>2. b \in [id : Nat, retries : Nat] /\ b.id \in DOMAIN entries
  BY <1>1 DEF DLQTypeOK, Loop
<1>3. QED
  BY <1>2, EntryTypes

\* A loop at rest knows nothing that could become false.
LEMMA AtRestOK ==
  ASSUME NEW e \in Engines, loop[e].pc \notin Working, loop[e].batch = {}
  PROVE  LoopOK(e)
BY DEF LoopOK

\* What a loop knows stays true while others append entries, rewrite their
\* status and publish: nobody changes the message of an entry, and nobody
\* takes back what was published.
LEMMA LoopFrame ==
  ASSUME DLQTypeOK, NEW f \in Engines, LoopOK(f), loop'[f] = loop[f],
         \A id \in DOMAIN entries : entries'[id].msg = entries[id].msg,
         \A x \in Messages : \A j \in Targets(x) :
           published[x][j] > 0 => published'[x][j] > 0
  PROVE  LoopOK(f)'
<1>1. \A b \in loop[f].batch : Current(f, b)' <=> Current(f, b)
  BY DEF Current
<1>2. ASSUME NEW b \in loop[f].batch, EntryInHand(f, b)
      PROVE  EntryInHand(f, b)'
  <2> DEFINE m == entries[b.id].msg
  <2>1. m \in Messages /\ entries'[b.id].msg = m
    BY BatchEntry
  <2>2. Reached(m) => Reached(m)'
    BY <2>1, ReachedStable
  <2>3. Reached(entries[b.id].msg)' <=> Reached(m)'
    BY <2>1 DEF Reached, Targets
  <2>4. QED
    BY <1>2, <2>1, <2>2, <2>3 DEF EntryInHand, Targets, Verdict
<1>3. QED
  BY <1>1, <1>2 DEF LoopOK

\* A statement that leaves the status alone, or writes something other than
\* "sent", or writes "sent" for a message that has reached everyone.
LEMMA SentFrame ==
  ASSUME SentReachedAll,
         \A x \in Messages : \A j \in Targets(x) :
           published[x][j] > 0 => published'[x][j] > 0,
         \A x \in Messages : status'[x] = "sent" => status[x] = "sent" \/ Reached(x)
  PROVE  SentReachedAll'
BY ReachedStable DEF SentReachedAll

\* Publishing and appending leave the entries in order.
LEMMA EntriesFrame ==
  ASSUME entries' = entries, RetriesWithinBudget, ProcessedReachedAll, DLQTypeOK,
         \A x \in Messages : \A j \in Targets(x) :
           published[x][j] > 0 => published'[x][j] > 0
  PROVE  RetriesWithinBudget' /\ ProcessedReachedAll'
<1>1. \A id \in DOMAIN entries : entries[id].msg \in Messages
  BY EntryTypes
<1>2. QED
  BY <1>1, ReachedStable DEF RetriesWithinBudget, ProcessedReachedAll, Reached, Targets

-----------------------------------------------------------------------------
(* The steps of a loop, one lemma for each.                                 *)

LEMMA TickStep ==
  ASSUME DLQInv, NEW e \in Engines, NEW o \in Outcome, Tick(e, o)
  PROVE  DLQInv'
<1> DEFINE new == {[id |-> id, retries |-> entries[id].retries] : id \in Oldest(Retryable)}
           l == [loop[e] EXCEPT !.pc = "publish", !.next = 1, !.batch = new]
<1>1. DLQTypeOK /\ loop \in [Engines -> Loop] /\ loop[e] \in Loop
  BY DEF DLQInv, DLQTypeOK
<1>2. Oldest(Retryable) \subseteq DOMAIN entries
  BY DEF Oldest, Retryable
<1>3. \A b \in new : /\ b \in [id : Nat, retries : Nat]
                     /\ b.id \in DOMAIN entries
                     /\ b.retries = entries[b.id].retries
                     /\ b.retries < MaxRetries
  <2>1. \A id \in Oldest(Retryable) :
          /\ id \in Nat /\ id \in DOMAIN entries
          /\ entries[id].retries \in Nat /\ entries[id].retries < MaxRetries
    BY <1>1, <1>2, EntryTypes DEF Oldest, Retryable
  <2>2. QED
    BY <2>1
<1>4. \A b, c \in new : b.id = c.id => b = c
  OBVIOUS
<1>5. new \subseteq [id : Nat, retries : Nat]
  BY <1>3
<1> HIDE DEF new
<1>6. /\ l \in Loop /\ l.pc = "publish" /\ l.batch = new /\ l.next = 1
  BY <1>1, <1>5 DEF Loop, LoopPC
<1>7. loop' = loop \/ loop' = [loop EXCEPT ![e] = l]
  BY DEF Tick, new
<1>8. loop' # loop => new # {}
  <2>1. loop' # loop => Oldest(Retryable) # {}
    BY DEF Tick
  <2>2. Oldest(Retryable) # {} => new # {}
    BY DEF new
  <2>3. QED
    BY <2>1, <2>2
<1>9. StoreTypeOK'
  <2>1. faults' \in 0 .. MaxFaults
    BY <1>1, CallFaults, StoreTypes DEF Tick, DLQTypeOK
  <2>2. QED
    BY <1>1, <2>1 DEF Tick, DLQTypeOK, StoreTypeOK, Targets
<1> HIDE DEF l
<1>10. DLQTypeOK'
  <2>1. loop' \in [Engines -> Loop]
    BY <1>1, <1>6, <1>7
  <2>2. \A f \in Engines : \A b \in loop'[f].batch : b.id \in DOMAIN entries
    BY <1>1, <1>3, <1>6, <1>7 DEF DLQTypeOK
  <2>3. QED
    BY <1>1, <1>9, <2>1, <2>2 DEF Tick, DLQTypeOK
<1>11. ASSUME NEW f \in Engines PROVE LoopOK(f)'
  <2>1. CASE loop'[f] = loop[f]
    BY <1>1, <2>1, LoopFrame DEF Tick, DLQInv
  <2>2. CASE loop'[f] # loop[f]
    <3>1. loop'[f] = l
      BY <1>1, <1>7, <2>2
    <3>2. new # {}
      BY <1>8, <2>2
    <3>3. ASSUME NEW b \in new PROVE EntryInHand(f, b)'
      <4>1. entries[b.id].msg \in Messages
        BY <1>1, <1>3, EntryTypes
      <4>2. 1 \in Targets(entries[b.id].msg)
        BY <4>1, TargetsFacts
      <4>3. entries' = entries /\ published' = published
        BY DEF Tick
      <4>4. QED
        BY <1>6, <3>1, <4>2, <4>3 DEF EntryInHand, Targets
    <3>4. QED
      BY <1>3, <1>4, <1>6, <3>1, <3>2, <3>3 DEF LoopOK, Working
  <2>3. QED
    BY <2>1, <2>2
<1>12. SentReachedAll' /\ RetriesWithinBudget' /\ ProcessedReachedAll'
  BY <1>1, SentFrame, EntriesFrame DEF Tick, DLQInv
<1>13. QED
  BY <1>10, <1>11, <1>12 DEF DLQInv

LEMMA PublishRetryStep ==
  ASSUME DLQInv, NEW e \in Engines, NEW b \in loop[e].batch, NEW o \in Outcome,
         PublishRetry(e, b, o)
  PROVE  DLQInv'
<1> DEFINE m == entries[b.id].msg
           i == loop[e].next
<1>1. /\ DLQTypeOK /\ LoopOK(e)
      /\ loop \in [Engines -> Loop] /\ loop[e] \in Loop
      /\ loop[e].pc = "publish" /\ Current(e, b)
  BY DEF DLQInv, DLQTypeOK, PublishRetry
<1>2. m \in Messages
  BY <1>1, BatchEntry
<1>3. EntryInHand(e, b)
  BY <1>1 DEF LoopOK
<1>4. i \in Targets(m) /\ \A j \in Targets(m) : j < i => published[m][j] > 0
  BY <1>1, <1>3 DEF EntryInHand
<1>5. /\ PublishedTypeOK'
      /\ \A x \in Messages : \A j \in Targets(x) :
           published[x][j] > 0 => published'[x][j] > 0
      /\ Took(o) => published'[m][i] > 0
  BY <1>1, <1>2, <1>4, PublishReaches, StoreTypes DEF PublishRetry, DLQTypeOK
<1>6. UNCHANGED <<status, queue, entries, phase, interruptions>>
  BY DEF PublishRetry
<1>7. PICK l \in Loop :
        /\ loop' = [loop EXCEPT ![e] = l] /\ l.batch = loop[e].batch
        /\ \/ /\ o = "ok" /\ i < Len(Recipients[m])
              /\ l.pc = "publish" /\ l.next = i + 1
           \/ /\ o = "ok" /\ i >= Len(Recipients[m])
              /\ l.pc = "mark_message" /\ l.verdict = "processed"
           \/ /\ l.pc \in {"mark_message", "mark_entry"}
              /\ l.verdict = Verdict(b)
  <2>1. CASE o = "ok" /\ i < Len(Recipients[m])
    <3>1. [loop[e] EXCEPT !.next = i + 1] \in Loop
      BY <1>1 DEF Loop
    <3>2. loop' = [loop EXCEPT ![e] = [loop[e] EXCEPT !.next = i + 1]]
      BY <1>1, <2>1, <1>2, <1>4, TargetsFacts DEF PublishRetry, Targets
    <3>3. QED
      BY <1>1, <2>1, <3>1, <3>2 DEF Loop
  <2>2. CASE o = "ok" /\ i >= Len(Recipients[m])
    <3> DEFINE l == [loop[e] EXCEPT !.pc = "mark_message", !.verdict = "processed"]
    <3>1. l \in Loop /\ l.pc = "mark_message" /\ l.verdict = "processed"
          /\ l.batch = loop[e].batch
      BY <1>1 DEF Loop, LoopPC, DeadLetterStatus
    <3>2. ~ (i < Len(Recipients[m]))
      BY <1>2, <1>4, <2>2, TargetsFacts DEF Targets
    <3>3. loop' = [loop EXCEPT ![e].pc = "mark_message", ![e].verdict = "processed"]
      BY <2>2, <3>2 DEF PublishRetry
    <3>4. loop' = [loop EXCEPT ![e] = l]
      BY <1>1, <3>3
    <3>5. QED
      BY <2>2, <3>1, <3>4
  <2>3. CASE o # "ok"
    <3> DEFINE l == [loop[e] EXCEPT !.verdict = Verdict(b),
                                    !.pc = IF Verdict(b) = "exhausted"
                                           THEN "mark_message" ELSE "mark_entry"]
    <3>1. l \in Loop /\ l.pc \in {"mark_message", "mark_entry"}
          /\ l.verdict = Verdict(b) /\ l.batch = loop[e].batch
      BY <1>1, RestTypes DEF Loop, LoopPC
    <3>2. loop' = [loop EXCEPT ![e].verdict = Verdict(b),
                               ![e].pc = IF Verdict(b) = "exhausted"
                                         THEN "mark_message" ELSE "mark_entry"]
      BY <2>3 DEF PublishRetry
    <3> DEFINE p == IF Verdict(b) = "exhausted" THEN "mark_message" ELSE "mark_entry"
               v == Verdict(b)
    <3> HIDE DEF p, v
    <3>3. [loop EXCEPT ![e].verdict = v, ![e].pc = p]
            = [loop EXCEPT ![e] = [loop[e] EXCEPT !.verdict = v, !.pc = p]]
      BY <1>1
    <3>4. QED
      BY <3>1, <3>2, <3>3 DEF p, v
  <2>4. QED
    BY <1>2, <1>4, <2>1, <2>2, <2>3, TargetsFacts DEF Targets
<1>8. DLQTypeOK'
  <2>1. faults' \in 0 .. MaxFaults
    BY <1>1, CallFaults, StoreTypes DEF PublishRetry, DLQTypeOK
  <2>2. StoreTypeOK'
    BY <1>1, <1>5, <1>6, <2>1, StoreTypes
      DEF DLQTypeOK, StoreTypeOK, PublishedTypeOK, Targets
  <2>3. \A f \in Engines : loop'[f].batch = loop[f].batch
    BY <1>1, <1>7
  <2>4. loop' \in [Engines -> Loop]
    BY <1>1, <1>7
  <2>5. QED
    BY <1>1, <1>6, <2>2, <2>3, <2>4 DEF DLQTypeOK
<1>9. ASSUME NEW f \in Engines PROVE LoopOK(f)'
  <2>1. CASE f # e
    <3>1. loop'[f] = loop[f]
      BY <1>1, <1>7, <2>1
    <3>2. QED
      BY <1>1, <1>5, <1>6, <3>1, LoopFrame DEF DLQInv
  <2>2. CASE f = e
    <3>1. loop'[e] = l
      BY <1>1, <1>7
    <3>2. ASSUME NEW c \in loop[e].batch, Current(e, c)
          PROVE  EntryInHand(e, c)'
      <4>1. c.id = b.id
        BY <1>1, <3>2, BatchEntry DEF Current
      <4>2. entries'[c.id].msg = m /\ Verdict(c)' = Verdict(b)
        BY <1>1, <1>6, <3>2, <4>1 DEF Verdict, LoopOK
      <4>3. CASE o = "ok" /\ i < Len(Recipients[m]) /\ l.pc = "publish" /\ l.next = i + 1
        BY <1>2, <1>4, <1>5, <3>1, <4>2, <4>3, TargetsFacts
          DEF EntryInHand, Targets, Took
      <4>4. CASE o = "ok" /\ i >= Len(Recipients[m])
                 /\ l.pc = "mark_message" /\ l.verdict = "processed"
        <5>1. \A j \in Targets(m) : published'[m][j] > 0
          BY <1>2, <1>4, <1>5, <4>4, TargetsFacts DEF Targets, Took
        <5>2. QED
          BY <3>1, <4>2, <4>4, <5>1 DEF EntryInHand, Reached
      <4>5. CASE l.pc \in {"mark_message", "mark_entry"} /\ l.verdict = Verdict(b)
        BY <3>1, <4>2, <4>5 DEF EntryInHand, Verdict
      <4>6. QED
        BY <1>7, <4>3, <4>4, <4>5
    <3>3. loop'[e].batch = loop[e].batch /\ loop'[e].pc \in Working
      BY <1>7, <3>1 DEF Working
    <3>4. \A c \in loop[e].batch : Current(e, c)' <=> Current(e, c)
      BY <3>3 DEF Current
    <3>5. QED
      BY <1>1, <2>2, <3>2, <3>3, <3>4 DEF LoopOK, Working
  <2>3. QED
    BY <2>1, <2>2
<1>10. SentReachedAll' /\ RetriesWithinBudget' /\ ProcessedReachedAll'
  BY <1>1, <1>5, <1>6, SentFrame, EntriesFrame DEF DLQInv
<1>11. QED
  BY <1>8, <1>9, <1>10 DEF DLQInv

LEMMA MarkMessageStep ==
  ASSUME DLQInv, NEW e \in Engines, NEW b \in loop[e].batch, NEW o \in Outcome,
         MarkMessage(e, b, o)
  PROVE  DLQInv'
<1> DEFINE m == entries[b.id].msg
           s == IF loop[e].verdict = "processed" THEN "sent" ELSE "failed"
           l == [loop[e] EXCEPT !.pc = "mark_entry"]
<1>1. /\ DLQTypeOK /\ LoopOK(e)
      /\ loop \in [Engines -> Loop] /\ loop[e] \in Loop
      /\ loop[e].pc = "mark_message" /\ Current(e, b)
  BY DEF DLQInv, DLQTypeOK, MarkMessage
<1>2. m \in Messages /\ s \in MessageStatus
  BY <1>1, BatchEntry DEF MessageStatus
<1>3. EntryInHand(e, b)
  BY <1>1 DEF LoopOK
<1>4. UNCHANGED <<queue, entries, published, phase, interruptions>>
  BY DEF MarkMessage
<1>5. /\ status' \in [Messages -> MessageStatus \cup {"none"}]
      /\ \A x \in Messages : status'[x] # status[x] => x = m /\ status'[x] = s
  BY <1>1, <1>2, StatusUpdate DEF MarkMessage, DLQTypeOK, StoreTypeOK
<1>6. /\ l \in Loop /\ l.pc = "mark_entry"
      /\ l.batch = loop[e].batch /\ l.verdict = loop[e].verdict
      /\ loop' = [loop EXCEPT ![e] = l]
  BY <1>1 DEF MarkMessage, Loop, LoopPC
<1> HIDE DEF l
<1>7. DLQTypeOK'
  <2>1. faults' \in 0 .. MaxFaults
    BY <1>1, CallFaults, StoreTypes DEF MarkMessage, DLQTypeOK
  <2>2. StoreTypeOK'
    BY <1>1, <1>4, <1>5, <2>1 DEF DLQTypeOK, StoreTypeOK, Targets
  <2>3. loop' \in [Engines -> Loop] /\ \A f \in Engines : loop'[f].batch = loop[f].batch
    BY <1>1, <1>6
  <2>4. QED
    BY <1>1, <1>4, <2>2, <2>3 DEF DLQTypeOK
<1>8. ASSUME NEW f \in Engines PROVE LoopOK(f)'
  <2>1. CASE f # e
    BY <1>1, <1>4, <1>6, <2>1, LoopFrame DEF DLQInv
  <2>2. CASE f = e
    <3>1. loop'[e] = l
      BY <1>1, <1>6
    <3>2. \A c \in loop[e].batch : /\ Current(e, c)' <=> Current(e, c)
                                   /\ EntryInHand(e, c) => EntryInHand(e, c)'
      BY <1>1, <1>4, <1>6, <3>1 DEF Current, EntryInHand, Reached, Targets, Verdict
    <3>3. QED
      BY <1>1, <1>6, <2>2, <3>1, <3>2 DEF LoopOK, Working
  <2>3. QED
    BY <2>1, <2>2
<1>9. SentReachedAll'
  <2>1. \A x \in Messages : status'[x] = "sent" => status[x] = "sent" \/ Reached(x)
    BY <1>1, <1>3, <1>5 DEF EntryInHand
  <2>2. QED
    BY <1>4, <2>1, SentFrame DEF DLQInv
<1>10. RetriesWithinBudget' /\ ProcessedReachedAll'
  BY <1>1, <1>4, EntriesFrame DEF DLQInv
<1>11. QED
  BY <1>7, <1>8, <1>9, <1>10 DEF DLQInv

LEMMA MarkEntryStep ==
  ASSUME DLQInv, NEW e \in Engines, NEW b \in loop[e].batch, NEW o \in Outcome,
         MarkEntry(e, b, o)
  PROVE  DLQInv'
<1> DEFINE m == entries[b.id].msg
           v == loop[e].verdict
<1>1. /\ DLQTypeOK /\ LoopOK(e)
      /\ loop \in [Engines -> Loop] /\ loop[e] \in Loop
      /\ loop[e].pc = "mark_entry" /\ Current(e, b)
  BY DEF DLQInv, DLQTypeOK, MarkEntry
<1>2. /\ b.id \in DOMAIN entries /\ b.retries \in Nat /\ m \in Messages
      /\ v \in DeadLetterStatus
  BY <1>1, BatchEntry DEF Loop
<1>3. EntryInHand(e, b) /\ b.retries < MaxRetries
  BY <1>1 DEF LoopOK
<1>4. UNCHANGED <<status, queue, published, phase, interruptions>>
  BY DEF MarkEntry
<1>5. /\ entries' \in Seq(Entry)
      /\ DOMAIN entries' = DOMAIN entries
      /\ \A x \in DOMAIN entries : x # b.id => entries'[x] = entries[x]
      /\ entries'[b.id].msg = m
      /\ \/ entries'[b.id] = entries[b.id]
         \/ entries'[b.id] = [msg |-> m, status |-> v, retries |-> b.retries + 1]
  <2>1. entries \in Seq(Entry) /\ b.retries + 1 \in Nat
    BY <1>1, <1>2 DEF DLQTypeOK, StoreTypeOK
  <2>2. UpdateDeadLetterEntry(b.id, v, b.retries + 1, o)
    BY DEF MarkEntry
  <2>3. QED
    BY <1>2, <2>1, <2>2, EntryUpdated
<1>6. PICK l \in Loop :
        /\ loop' = [loop EXCEPT ![e] = l]
        /\ l.batch = loop[e].batch \ {b}
        /\ IF l.batch = {} THEN l.pc = "ticker" ELSE l.pc = "publish" /\ l.next = 1
  <2>1. CASE loop[e].batch = {b}
    BY <1>1, <2>1, RestTypes DEF MarkEntry
  <2>2. CASE loop[e].batch # {b}
    <3> DEFINE l == [pc |-> "publish", batch |-> loop[e].batch \ {b}, next |-> 1,
                     verdict |-> "pending"]
    <3>1. /\ l \in Loop /\ l.pc = "publish" /\ l.next = 1
          /\ l.batch = loop[e].batch \ {b}
      BY <1>1 DEF Loop, LoopPC, DeadLetterStatus
    <3>2. loop' = [loop EXCEPT ![e] = l]
      BY <2>2 DEF MarkEntry
    <3>3. l.batch # {}
      BY <2>2, <3>1
    <3>4. QED
      BY <3>1, <3>2, <3>3
  <2>3. QED
    BY <2>1, <2>2
<1>7. DLQTypeOK'
  <2>1. faults' \in 0 .. MaxFaults
    BY <1>1, CallFaults, StoreTypes DEF MarkEntry, DLQTypeOK
  <2>2. StoreTypeOK'
    BY <1>1, <1>4, <1>5, <2>1 DEF DLQTypeOK, StoreTypeOK, Targets
  <2>3. loop' \in [Engines -> Loop] /\ \A f \in Engines : loop'[f].batch \subseteq loop[f].batch
    BY <1>1, <1>6
  <2>4. QED
    BY <1>1, <1>4, <1>5, <2>2, <2>3 DEF DLQTypeOK
<1>8. \A x \in DOMAIN entries : entries'[x].msg = entries[x].msg
  BY <1>5
<1>9. ASSUME NEW f \in Engines PROVE LoopOK(f)'
  <2>1. CASE f # e
    BY <1>1, <1>4, <1>6, <1>8, <2>1, LoopFrame DEF DLQInv
  <2>2. CASE f = e
    <3>1. loop'[e] = l
      BY <1>1, <1>6
    <3>2. ASSUME NEW c \in l.batch PROVE EntryInHand(e, c)'
      <4>1. entries'[c.id].msg \in Messages
        BY <1>1, <1>6, <1>8, <3>2, BatchEntry
      <4>2. l.pc = "publish" /\ l.next = 1
        BY <1>6, <3>2
      <4>3. 1 \in Targets(entries'[c.id].msg)
        BY <4>1, TargetsFacts
      <4>4. QED
        BY <3>1, <4>2, <4>3 DEF EntryInHand, Targets
    <3>3. QED
      BY <1>1, <1>6, <2>2, <3>1, <3>2 DEF LoopOK, Working
  <2>3. QED
    BY <2>1, <2>2
<1>10. SentReachedAll'
  BY <1>4, SentFrame DEF DLQInv
<1>11. RetriesWithinBudget'
  <2>1. v # "processed" => v = Verdict(b)
    BY <1>1, <1>3 DEF EntryInHand
  <2>2. \A x \in DOMAIN entries : x # b.id \/ entries'[x] = entries[x]
            \/ entries'[x] = [msg |-> m, status |-> v, retries |-> b.retries + 1]
    BY <1>5
  <2>3. /\ b.retries + 1 <= MaxRetries /\ b.retries + 1 > 0
        /\ v = "pending" => b.retries + 1 < MaxRetries
        /\ v = "exhausted" => b.retries + 1 = MaxRetries
    BY <1>2, <1>3, <2>1, RetryAssumption DEF Verdict
  <2>4. ASSUME NEW x \in DOMAIN entries
        PROVE  /\ entries'[x].retries <= MaxRetries
               /\ entries'[x].status = "pending" => entries'[x].retries < MaxRetries
               /\ entries'[x].status = "processed" => entries'[x].retries > 0
               /\ entries'[x].status = "exhausted" => entries'[x].retries = MaxRetries
    <3>1. CASE entries'[x] = entries[x]
      BY <3>1 DEF RetriesWithinBudget, DLQInv
    <3>2. CASE entries'[x] = [msg |-> m, status |-> v, retries |-> b.retries + 1]
      BY <2>3, <3>2
    <3>3. QED
      BY <1>5, <2>2, <3>1, <3>2
  <2>5. QED
    BY <1>5, <2>4 DEF RetriesWithinBudget
<1>12. ProcessedReachedAll'
  <2>1. v = "processed" => Reached(m)
    BY <1>1, <1>3 DEF EntryInHand
  <2>2. published' = published /\ DOMAIN entries' = DOMAIN entries
    BY <1>4, <1>5
  <2>3. ASSUME NEW x \in DOMAIN entries, entries'[x].status = "processed"
        PROVE  Reached(entries'[x].msg)
    <3>1. CASE entries'[x] = entries[x]
      BY <2>3, <3>1 DEF ProcessedReachedAll, DLQInv
    <3>2. CASE x = b.id /\ entries'[x] = [msg |-> m, status |-> v, retries |-> b.retries + 1]
      BY <2>1, <2>3, <3>2
    <3>3. QED
      BY <1>5, <3>1, <3>2
  <2>4. QED
    BY <2>2, <2>3 DEF ProcessedReachedAll, Reached, Targets
<1>13. QED
  BY <1>7, <1>9, <1>10, <1>11, <1>12 DEF DLQInv

LEMMA LoopStepInv ==
  ASSUME DLQInv, NEW e \in Engines, LoopStep(e)
  PROVE  DLQInv'
<1>1. ASSUME NEW o \in Outcome, Tick(e, o) PROVE DLQInv'
  BY <1>1, TickStep
<1>2. ASSUME NEW o \in Outcome, NEW b \in loop[e].batch,
             PublishRetry(e, b, o) \/ MarkMessage(e, b, o) \/ MarkEntry(e, b, o)
      PROVE  DLQInv'
  BY <1>2, PublishRetryStep, MarkMessageStep, MarkEntryStep
<1>3. CASE LoopReturn(e)
  <2>1. /\ DLQTypeOK /\ loop \in [Engines -> Loop]
        /\ loop' = [loop EXCEPT ![e] = Returned]
        /\ UNCHANGED <<storeVars, phase, interruptions>>
    BY <1>3 DEF DLQInv, DLQTypeOK, LoopReturn
  <2>2. DLQTypeOK'
    BY <2>1, RestTypes DEF DLQTypeOK, StoreTypeOK, storeVars, Targets
  <2>3. ASSUME NEW f \in Engines PROVE LoopOK(f)'
    <3>1. CASE f = e
      BY <2>1, <3>1, RestTypes DEF LoopOK, Working
    <3>2. CASE f # e
      BY <2>1, <3>2, LoopFrame DEF DLQInv, storeVars
    <3>3. QED
      BY <3>1, <3>2
  <2>4. QED
    BY <2>1, <2>2, <2>3, SentFrame, EntriesFrame DEF DLQInv, storeVars
<1>4. QED
  BY <1>1, <1>2, <1>3 DEF LoopStep, RetryEntry

-----------------------------------------------------------------------------
(* The life of an engine, and its environment.                              *)

LEMMA PhaseStepInv ==
  ASSUME DLQInv, NEW e \in Engines, UNCHANGED storeVars,
         Cancel(e) \/ Die(e) \/ Exit(e) \/ StartLoop(e)
  PROVE  DLQInv'
<1>1. /\ DLQTypeOK /\ loop \in [Engines -> Loop]
      /\ phase \in [Engines -> {"running", "stopping", "down"}]
      /\ interruptions \in 0 .. MaxInterruptions
  BY DEF DLQInv, DLQTypeOK
<1>2. /\ \E p \in {"running", "stopping", "down"} : phase' = [phase EXCEPT ![e] = p]
      /\ interruptions' \in 0 .. MaxInterruptions
  BY <1>1, RetryAssumption DEF Cancel, Die, Exit, StartLoop
<1>3. \/ loop' = loop
      \/ loop' = [loop EXCEPT ![e] = Returned]
      \/ loop' = [loop EXCEPT ![e] = AtTicker]
  BY DEF Cancel, Die, Exit, StartLoop
<1>4. DLQTypeOK'
  <2>1. loop' \in [Engines -> Loop]
        /\ \A f \in Engines : loop'[f].batch = loop[f].batch \/ loop'[f].batch = {}
    BY <1>1, <1>3, RestTypes
  <2>2. StoreTypeOK'
    BY <1>1 DEF DLQTypeOK, StoreTypeOK, storeVars, Targets
  <2>3. entries' = entries
    BY DEF storeVars
  <2>4. phase' \in [Engines -> {"running", "stopping", "down"}]
    BY <1>1, <1>2
  <2>5. QED
    BY <1>1, <1>2, <2>1, <2>2, <2>3, <2>4 DEF DLQTypeOK
<1>5. ASSUME NEW f \in Engines PROVE LoopOK(f)'
  <2>1. CASE loop'[f] = loop[f]
    BY <1>1, <2>1, LoopFrame DEF DLQInv, storeVars
  <2>2. CASE loop'[f] # loop[f]
    <3>1. loop'[f].pc \notin Working /\ loop'[f].batch = {}
      BY <1>1, <1>3, <2>2, RestTypes DEF Working
    <3>2. QED
      BY <3>1 DEF LoopOK
  <2>3. QED
    BY <2>1, <2>2
<1>6. QED
  BY <1>1, <1>4, <1>5, SentFrame, EntriesFrame DEF DLQInv, storeVars

\* A step of somebody else: it may append fresh entries, publish, and write
\* statuses, "sent" only for a message that has reached everyone.
LEMMA OtherStepInv ==
  ASSUME DLQInv, DLQTypeOK', UNCHANGED loop,
         \A id \in DOMAIN entries : id \in DOMAIN entries' /\ entries'[id] = entries[id],
         \A id \in DOMAIN entries' \ DOMAIN entries :
           entries'[id].status = "pending" /\ entries'[id].retries = 0,
         \A x \in Messages : \A j \in Targets(x) :
           published[x][j] > 0 => published'[x][j] > 0,
         \A x \in Messages : status'[x] = "sent" => status[x] = "sent" \/ Reached(x)
  PROVE  DLQInv'
<1>1. \A e \in Engines : LoopOK(e)'
  BY LoopFrame DEF DLQInv
<1>2. SentReachedAll'
  BY SentFrame DEF DLQInv
<1>3. RetriesWithinBudget'
  BY RetryAssumption DEF DLQInv, RetriesWithinBudget
<1>4. ProcessedReachedAll'
  <2>1. \A id \in DOMAIN entries : entries[id].msg \in Messages
    BY EntryTypes DEF DLQInv
  <2>2. QED
    BY <2>1, ReachedStable DEF DLQInv, ProcessedReachedAll, Reached, Targets
<1>5. QED
  BY <1>1, <1>2, <1>3, <1>4 DEF DLQInv

LEMMA EnqueueInv ==
  ASSUME DLQInv, NEW e \in Engines, NEW m \in Messages, NEW o \in Outcome,
         Enqueue(e, m, o)
  PROVE  DLQInv'
<1>1. DLQTypeOK /\ entries \in Seq(Entry)
  BY DEF DLQInv, DLQTypeOK, StoreTypeOK
<1>2. /\ entries' \in Seq(Entry)
      /\ DOMAIN entries \subseteq DOMAIN entries'
      /\ \A id \in DOMAIN entries : entries'[id] = entries[id]
      /\ \A id \in DOMAIN entries' \ DOMAIN entries :
           entries'[id] = [msg |-> m, status |-> "pending", retries |-> 0]
  BY <1>1, EntryCreated DEF Enqueue
<1>3. faults' \in 0 .. MaxFaults
  BY <1>1, CallFaults, StoreTypes DEF Enqueue, DLQTypeOK
<1>4. UNCHANGED <<status, queue, published, phase, loop, interruptions>>
  BY DEF Enqueue
<1>5. DLQTypeOK'
  BY <1>1, <1>2, <1>3, <1>4 DEF DLQTypeOK, StoreTypeOK, Targets
<1>6. QED
  BY <1>2, <1>4, <1>5, OtherStepInv

-----------------------------------------------------------------------------
(* The theorems that hold for any number of engines.                        *)

\* The initial tables and loops satisfy the invariant, and every step of
\* every engine and every Enqueue preserves it.
THEOREM DLQInvariant == DLQSpec => []DLQInv
<1>1. DLQInit => DLQInv
  <2> SUFFICES ASSUME DLQInit PROVE DLQInv
    OBVIOUS
  <2>1. StoreTypeOK
    BY MaxFaultsAssumption, TargetsFacts DEF DLQInit, StoreTypeOK, MessageStatus, Targets
  <2>2. entries = << >> /\ \A e \in Engines : loop[e] = AtTicker
    BY DEF DLQInit
  <2>3. DLQTypeOK
    BY <2>1, <2>2, RestTypes, RetryAssumption DEF DLQInit, DLQTypeOK
  <2>4. \A e \in Engines : LoopOK(e)
    BY <2>2, RestTypes DEF LoopOK, Working
  <2>5. SentReachedAll
    BY DEF DLQInit, SentReachedAll
  <2>6. RetriesWithinBudget /\ ProcessedReachedAll
    BY <2>2 DEF RetriesWithinBudget, ProcessedReachedAll
  <2>7. QED
    BY <2>3, <2>4, <2>5, <2>6 DEF DLQInv
<1>2. DLQInv /\ [DLQNext]_dlqVars => DLQInv'
  <2> SUFFICES ASSUME DLQInv, [DLQNext]_dlqVars PROVE DLQInv'
    OBVIOUS
  <2>1. ASSUME NEW e \in Engines, NEW m \in Messages, NEW o \in Outcome, Enqueue(e, m, o)
        PROVE  DLQInv'
    BY <2>1, EnqueueInv
  <2>2. ASSUME NEW e \in Engines, LoopStep(e) PROVE DLQInv'
    BY <2>2, LoopStepInv
  <2>3. ASSUME NEW e \in Engines, UNCHANGED storeVars,
               Cancel(e) \/ Die(e) \/ Exit(e) \/ StartLoop(e)
        PROVE  DLQInv'
    BY <2>3, PhaseStepInv
  <2>4. CASE UNCHANGED dlqVars
    <3>1. DLQTypeOK'
      BY <2>4 DEF DLQInv, DLQTypeOK, StoreTypeOK, dlqVars, storeVars, Targets
    <3>2. QED
      BY <2>4, <3>1, OtherStepInv DEF dlqVars, storeVars
  <2>5. QED
    BY <2>1, <2>2, <2>3, <2>4 DEF DLQNext
<1>3. QED
  BY <1>1, <1>2, PTL DEF DLQSpec

\* The tables and the loops are well typed, for every number of engines.
THEOREM DLQTypeCorrect == DLQSpec => []DLQTypeOK
<1>1. DLQInv => DLQTypeOK
  BY DEF DLQInv
<1>2. QED
  BY <1>1, DLQInvariant, PTL

\* No engine's write takes the stored count of an entry beyond max_retries,
\* however stale the snapshot that the write is computed from.  (How often an
\* entry is published is not bounded by it.)
THEOREM CountsBounded == DLQSpec => []RetriesWithinBudget
<1>1. DLQInv => RetriesWithinBudget
  BY DEF DLQInv
<1>2. QED
  BY <1>1, DLQInvariant, PTL

\* "processed" in the dead-letter table means published to every recipient,
\* and so does "sent" in the messages table.
THEOREM ProcessedIsReached == DLQSpec => [](ProcessedReachedAll /\ SentReachedAll)
<1>1. DLQInv => ProcessedReachedAll /\ SentReachedAll
  BY DEF DLQInv
<1>2. QED
  BY <1>1, DLQInvariant, PTL

-----------------------------------------------------------------------------
(***************************************************************************)
(* One engine.  Its snapshot cannot go stale, because nobody else writes   *)
(* the entries, and the table implements the abstract budget.              *)
(***************************************************************************)

LEMMA FreshStep ==
  ASSUME \A e, f \in Engines : e = f, DLQInv, SnapshotFresh, [DLQNext]_dlqVars
  PROVE  SnapshotFresh'
<1>1. DLQTypeOK /\ entries \in Seq(Entry) /\ loop \in [Engines -> Loop]
  BY DEF DLQInv, DLQTypeOK, StoreTypeOK
<1>2. ASSUME NEW e \in Engines, NEW o \in Outcome, Tick(e, o)
      PROVE  SnapshotFresh'
  <2> DEFINE new == {[id |-> id, retries |-> entries[id].retries] : id \in Oldest(Retryable)}
  <2>1. \A b \in new : /\ entries[b.id].status = "pending"
                       /\ entries[b.id].retries = b.retries
    <3>1. \A id \in Oldest(Retryable) : entries[id].status = "pending"
      BY DEF Oldest, Retryable
    <3>2. QED
      BY <3>1
  <2>2. \A f \in Engines : loop'[f].batch = loop[f].batch \/ loop'[f].batch = new
    <3>1. loop[e] \in Loop
      BY <1>1
    <3> HIDE DEF new
    <3>2. CASE loop' = [loop EXCEPT ![e].pc = "publish", ![e].next = 1, ![e].batch = new]
      BY <1>1, <3>1, <3>2 DEF Loop
    <3>3. CASE loop' = loop
      BY <3>3
    <3>4. QED
      BY <1>2, <3>2, <3>3 DEF Tick, new
  <2>3. entries' = entries
    BY <1>2 DEF Tick
  <2> HIDE DEF new
  <2>4. QED
    BY <2>1, <2>2, <2>3 DEF SnapshotFresh
<1>3. ASSUME NEW e \in Engines, NEW o \in Outcome, NEW b \in loop[e].batch,
             PublishRetry(e, b, o) \/ MarkMessage(e, b, o)
      PROVE  SnapshotFresh'
  <2>1. loop[e] \in Loop
    BY <1>1
  <2>2. \A f \in Engines : loop'[f].batch = loop[f].batch
    BY <1>1, <1>3, <2>1 DEF PublishRetry, MarkMessage, Loop
  <2>3. entries' = entries
    BY <1>3 DEF PublishRetry, MarkMessage
  <2>4. QED
    BY <2>2, <2>3 DEF SnapshotFresh
<1>4. ASSUME NEW e \in Engines, NEW o \in Outcome, NEW b \in loop[e].batch,
             MarkEntry(e, b, o)
      PROVE  SnapshotFresh'
  <2>1. loop[e] \in Loop /\ LoopOK(e)
    BY <1>1 DEF DLQInv
  <2>2. loop'[e].batch = loop[e].batch \ {b}
    BY <1>1, <1>4, <2>1, RestTypes DEF MarkEntry
  <2>3. \A x \in DOMAIN entries : x # b.id => entries'[x] = entries[x]
    BY <1>1, <1>4, BatchEntry DEF MarkEntry, UpdateDeadLetterEntry
  <2>4. \A c \in loop[e].batch \ {b} : c.id # b.id /\ c.id \in DOMAIN entries
    BY <1>1, <2>1, BatchEntry DEF LoopOK
  <2>5. QED
    BY <2>2, <2>3, <2>4 DEF SnapshotFresh
<1>5. ASSUME NEW e \in Engines, NEW m \in Messages, NEW o \in Outcome, Enqueue(e, m, o)
      PROVE  SnapshotFresh'
  <2>1. \A id \in DOMAIN entries : entries'[id] = entries[id]
    BY <1>1, <1>5, EntryCreated DEF Enqueue
  <2>2. loop' = loop
    BY <1>5 DEF Enqueue
  <2>3. QED
    BY <1>1, <2>1, <2>2, BatchEntry DEF SnapshotFresh
<1>6. ASSUME NEW e \in Engines,
             \/ LoopReturn(e)
             \/ (Cancel(e) \/ Die(e) \/ Exit(e) \/ StartLoop(e)) /\ UNCHANGED storeVars
      PROVE  SnapshotFresh'
  <2>1. /\ entries' = entries
        /\ \/ loop' = loop
           \/ loop' = [loop EXCEPT ![e] = Returned]
           \/ loop' = [loop EXCEPT ![e] = AtTicker]
    BY <1>6 DEF LoopReturn, Cancel, Die, Exit, StartLoop, storeVars
  <2>2. \A f \in Engines : loop'[f].batch = loop[f].batch \/ loop'[f].batch = {}
    BY <1>1, <2>1, RestTypes
  <2>3. QED
    BY <2>1, <2>2 DEF SnapshotFresh
<1>7. CASE UNCHANGED dlqVars
  BY <1>7 DEF dlqVars, storeVars, SnapshotFresh
<1>8. QED
  BY <1>2, <1>3, <1>4, <1>5, <1>6, <1>7 DEF DLQNext, LoopStep, RetryEntry

\* With one engine the entry that retryEntry works on is, in the table, as it
\* was when it was listed.
THEOREM OneEngineFresh ==
  ASSUME \A e, f \in Engines : e = f
  PROVE  DLQSpec => []SnapshotFresh
<1>1. DLQInit => SnapshotFresh
  BY RestTypes DEF DLQInit, SnapshotFresh
<1>2. DLQInv /\ SnapshotFresh /\ [DLQNext]_dlqVars => SnapshotFresh'
  BY FreshStep
<1>3. QED
  BY <1>1, <1>2, DLQInvariant, PTL DEF DLQSpec

\* Every step of one engine opens a cell of the budget, uses one retry of a
\* cell that is open, or leaves the cells alone.
LEMMA BudgetStep ==
  ASSUME DLQInv, SnapshotFresh, [DLQNext]_dlqVars
  PROVE  Budget!Next \/ UNCHANGED entries
<1>1. DLQTypeOK
  BY DEF DLQInv
<1>2. ASSUME NEW e \in Engines, NEW m \in Messages, NEW o \in Outcome, Enqueue(e, m, o)
      PROVE  Budget!Next \/ UNCHANGED entries
  <2>1. \A id \in DOMAIN entries : entries[id].msg # m
    BY <1>2 DEF Enqueue, EntriesOf
  <2>2. QED
    BY <1>2, <2>1 DEF Enqueue, CreateDeadLetterEntry, Budget!Next, Budget!Open
<1>3. ASSUME NEW e \in Engines, NEW o \in Outcome, NEW b \in loop[e].batch,
             MarkEntry(e, b, o)
      PROVE  Budget!Next \/ UNCHANGED entries
  <2> DEFINE v == loop[e].verdict
  <2>1. /\ b.id \in DOMAIN entries /\ b.retries \in Nat /\ b.retries < MaxRetries
        /\ v # "processed" => v = Verdict(b)
        /\ v \in DeadLetterStatus
    <3>1. LoopOK(e) /\ Current(e, b) /\ loop[e].pc = "mark_entry" /\ loop[e] \in Loop
      BY <1>1, <1>3 DEF DLQInv, DLQTypeOK, MarkEntry
    <3>2. QED
      BY <1>1, <3>1, BatchEntry DEF LoopOK, EntryInHand, Loop
  <2>2. entries[b.id].status = "pending" /\ entries[b.id].retries = b.retries
    BY DEF SnapshotFresh
  <2>3. \/ entries' = entries
        \/ entries' = [entries EXCEPT ![b.id].status = v,
                                      ![b.id].retries = entries[b.id].retries + 1]
    BY <1>3, <2>2 DEF MarkEntry, UpdateDeadLetterEntry
  <2>4. CASE v = "processed"
    <3>1. UNCHANGED entries \/ Budget!Succeed(b.id)
      BY <2>2, <2>3, <2>4 DEF Budget!Succeed
    <3>2. QED
      BY <2>1, <3>1 DEF Budget!Next
  <2>5. CASE v # "processed"
    <3>1. v = IF entries[b.id].retries + 1 = MaxRetries THEN "exhausted" ELSE "pending"
      BY <2>1, <2>2, <2>5, RetryAssumption DEF Verdict
    <3>2. UNCHANGED entries \/ Budget!Fail(b.id)
      BY <2>2, <2>3, <3>1 DEF Budget!Fail
    <3>3. QED
      BY <2>1, <3>2 DEF Budget!Next
  <2>6. QED
    BY <2>4, <2>5
<1>4. ASSUME NEW e \in Engines, NEW o \in Outcome,
             \/ Tick(e, o)
             \/ \E b \in loop[e].batch : PublishRetry(e, b, o) \/ MarkMessage(e, b, o)
      PROVE  UNCHANGED entries
  BY <1>4 DEF Tick, PublishRetry, MarkMessage
<1>5. CASE UNCHANGED storeVars
  BY <1>5 DEF storeVars
<1>6. UNCHANGED dlqVars => UNCHANGED storeVars
  BY DEF dlqVars
<1>7. ASSUME NEW e \in Engines, LoopReturn(e) PROVE UNCHANGED entries
  BY <1>7 DEF LoopReturn, storeVars
<1>8. QED
  BY <1>2, <1>3, <1>4, <1>5, <1>6, <1>7 DEF DLQNext, LoopStep, RetryEntry

\* The dead-letter table of one engine implements the abstract retry budget:
\* every retry is counted once and a closed entry stays closed.
THEOREM OneEngineRefinesBudget ==
  ASSUME \A e, f \in Engines : e = f
  PROVE  DLQSpec => RefinesBudget
<1>1. DLQInit => Budget!Init
  BY DEF DLQInit, Budget!Init
<1>2. DLQInv /\ SnapshotFresh /\ [DLQNext]_dlqVars => [Budget!Next]_entries
  BY BudgetStep
<1>3. QED
  BY <1>1, <1>2, DLQInvariant, OneEngineFresh, PTL
    DEF DLQSpec, RefinesBudget, Budget!Spec

\* With one engine a processed or exhausted entry is never written again.
THEOREM OneEngineSettledIsFinal ==
  ASSUME \A e, f \in Engines : e = f
  PROVE  DLQSpec => SettledIsFinal
<1>1. DLQInv /\ SnapshotFresh /\ [DLQNext]_dlqVars =>
        [\A id \in DOMAIN entries :
           entries[id].status # "pending" => entries'[id] = entries[id]]_dlqVars
  <2> SUFFICES ASSUME DLQInv, SnapshotFresh, [DLQNext]_dlqVars,
                      NEW id \in DOMAIN entries, entries[id].status # "pending"
               PROVE  entries'[id] = entries[id]
    OBVIOUS
  <2>1. entries \in Seq(Entry)
    BY DEF DLQInv, DLQTypeOK, StoreTypeOK
  <2>2. ASSUME NEW m \in Messages, Budget!Open(m) PROVE entries'[id] = entries[id]
    BY <2>1, <2>2 DEF Budget!Open
  <2>3. ASSUME NEW x \in DOMAIN entries, Budget!Fail(x) \/ Budget!Succeed(x)
        PROVE  entries'[id] = entries[id]
    BY <2>1, <2>3 DEF Budget!Fail, Budget!Succeed
  <2>4. QED
    BY <2>2, <2>3, BudgetStep DEF Budget!Next
<1>2. QED
  BY <1>1, DLQInvariant, OneEngineFresh, PTL DEF DLQSpec, SettledIsFinal
=============================================================================
