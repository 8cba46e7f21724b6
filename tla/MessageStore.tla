----------------------------- MODULE MessageStore -----------------------------
(***************************************************************************)
(* The state that the API gateways and the message engines share: the      *)
(* messages and dead_letter_queue tables of PostgreSQL, the Redis list     *)
(* "message:pending", and the messages published on the agents' Redis      *)
(* channels.  The actions of the components are built from the operators   *)
(* of this module, one for each statement that changes a store.            *)
(***************************************************************************)
EXTENDS StoreCalls, Sequences

CONSTANTS
  Messages,     \* message ids, each the result of one uuid.New() of a Send
  Agents,       \* agent ids
  Recipients    \* the recipient list of each message, in the order given

ASSUME RecipientsAssumption ==
  /\ Recipients \in [Messages -> Seq(Agents)]
  /\ \A m \in Messages : Recipients[m] # << >>   \* Send refuses an empty list

VARIABLES
  status,       \* messages.status of each message, "none" before the INSERT
  queue,        \* the list "message:pending"; its head is the next RPOP
  entries,      \* the dead_letter_queue table in insertion order
  published     \* how often each recipient's channel was sent the message

storeVars == <<status, queue, entries, published, faults>>

MessageStatus ==
  {"pending", "sent", "delivered", "processed", "failed", "dead_letter"}
DeadLetterStatus == {"pending", "processed", "exhausted"}
Entry == [msg : Messages, status : DeadLetterStatus, retries : Nat]

\* The positions of a message's recipient list.
Targets(m) == 1 .. Len(Recipients[m])

StoreTypeOK ==
  /\ status \in [Messages -> MessageStatus \cup {"none"}]
  /\ queue \in Seq(Messages)
  /\ entries \in Seq(Entry)
  /\ DOMAIN published = Messages
  /\ \A m \in Messages : published[m] \in [Targets(m) -> Nat]
  /\ faults \in 0 .. MaxFaults

StoreInit ==
  /\ status = [m \in Messages |-> "none"]
  /\ queue = << >>
  /\ entries = << >>
  /\ published = [m \in Messages |-> [i \in Targets(m) |-> 0]]
  /\ faults = 0

-----------------------------------------------------------------------------
\* MessageRepository.Create: the INSERT of a row, status "pending".
CreateMessage(m, o) ==
  status' = IF Took(o) THEN [status EXCEPT ![m] = "pending"] ELSE status

\* UpdateMessageStatus and MessageRepository.UpdateStatus: an UPDATE by id
\* that looks neither at the old status nor at the number of rows it changed.
UpdateMessageStatus(m, s, o) ==
  status' = IF Took(o) /\ status[m] # "none"
            THEN [status EXCEPT ![m] = s] ELSE status

\* A mutant of LPush: RPUSH, the end that RPOP takes.
LPushRight(m, o) == queue' = IF Took(o) THEN <<m>> \o queue ELSE queue

\* LPUSH message:pending.
LPush(m, o) == queue' = IF Took(o) THEN Append(queue, m) ELSE queue

\* RPOP message:pending: the other end, which is the head here.
RPop(o) == queue' = IF Took(o) THEN Tail(queue) ELSE queue

\* PUBLISH agent:<id>:queue, the channel of the i-th recipient.
Publish(m, i, o) ==
  published' = IF Took(o) THEN [published EXCEPT ![m][i] = @ + 1]
               ELSE published

\* dead_letter_queue.message_id is a foreign key: no INSERT without the row.
CreateDeadLetterEntry(m, o) ==
  entries' = IF Took(o) /\ status[m] # "none"
             THEN Append(entries,
                         [msg |-> m, status |-> "pending", retries |-> 0])
             ELSE entries

\* UpdateDeadLetterEntry: an UPDATE by id of absolute values.
UpdateDeadLetterEntry(id, s, n, o) ==
  entries' = IF Took(o)
             THEN [entries EXCEPT ![id].status = s, ![id].retries = n]
             ELSE entries

-----------------------------------------------------------------------------
\* Every recipient's channel has been sent the message at least once.
Reached(m) == \A i \in Targets(m) : published[m][i] > 0

\* The dead letters of a message.
EntriesOf(m) == {id \in DOMAIN entries : entries[id].msg = m}
=============================================================================
