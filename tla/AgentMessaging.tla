---------------------------- MODULE AgentMessaging ----------------------------
(***************************************************************************)
(* The path of a message through the system: the gateways' message         *)
(* service, the Redis list, the workers of the message engines, the        *)
(* dead-letter loops and the recipients' acknowledgements, all on the same *)
(* stores.                                                                 *)
(***************************************************************************)
EXTENDS MessageEngine, MessageService

processVars == <<phase, loop, interruptions, worker>>
vars == <<storeVars, processVars, serviceVars>>

TypeOK == EngineTypeOK /\ ServiceTypeOK

Init == EngineInit /\ ServiceInit

Next == \/ EngineStep /\ UNCHANGED serviceVars
        \/ ServiceStep /\ UNCHANGED processVars

\* The goroutines run.  Clients, failures and shutdowns are not fair.
Spec ==
  /\ Init /\ [][Next]_vars
  /\ \A w \in Workers : WF_vars(WorkerStep(w) /\ UNCHANGED serviceVars)
  /\ \A e \in Engines :
       /\ WF_vars(LoopStep(e) /\ UNCHANGED <<worker, serviceVars>>)
       /\ WF_vars((StopReturn(e) \/ Start(e)) /\ UNCHANGED serviceVars)
  /\ \A m \in Messages : WF_vars(SendStep(m) /\ UNCHANGED processVars)
  /\ \A h \in Handlers : WF_vars(AckStep(h) /\ UNCHANGED processVars)

-----------------------------------------------------------------------------
(* What failures cost.                                                      *)

Accepted(m) == sends[m] = "accepted"

\* An accepted message that is nowhere any more and did not reach everyone.
Lost(m) == /\ Accepted(m)
           /\ ~ Queued(m) /\ ~ Held(m)
           /\ EntriesOf(m) = {} /\ ~ Reached(m)

LostMessages == {m \in Messages : Lost(m)}

\* The worker count of the largest engine.
MostWorkers == CHOOSE n \in {Cardinality(WorkersOf(e)) : e \in Engines} :
                 \A e \in Engines : Cardinality(WorkersOf(e)) <= n

\* A loss has a cause.  An engine that stops or dies takes with it at most
\* the one message each of its workers has in hand, and otherwise each lost
\* message has cost at least one failed call.
LossesAccounted ==
  Cardinality(LostMessages) <= faults + interruptions * MostWorkers

\* The retry that a dead-letter loop is making of message m has got as far as
\* recipient i.
BeingRetried(m, i) ==
  \E e \in Engines : \E b \in loop[e].batch :
    /\ Current(e, b) /\ entries[b.id].msg = m
    /\ loop[e].next > i \/ loop[e].pc \in {"mark_message", "mark_entry"}

\* A recipient's channel is sent the message once by a worker, once for every
\* retry its dead letter has counted, once by a retry still being made, and
\* beyond that only as often as a failed call or an interruption kept the
\* outcome of an attempt from being written.  (One engine: two of them spend
\* the same retry twice.)
DuplicatesAccounted ==
  \A m \in Messages : \A i \in Targets(m) :
    LET counted == IF EntriesOf(m) = {} THEN 0
                   ELSE entries[CHOOSE id \in EntriesOf(m) : TRUE].retries
        current == IF BeingRetried(m, i) THEN 1 ELSE 0
    IN  published[m][i] <= 1 + counted + current + faults + interruptions

\* Every accepted message is settled: it reaches everyone, or its dead letter
\* is closed, or it is lost.  None circulates forever.
EveryMessageSettles ==
  \A m \in Messages :
    Accepted(m) ~>
      \/ Reached(m) \/ Lost(m)
      \/ \E id \in EntriesOf(m) : entries[id].status # "pending"

-----------------------------------------------------------------------------
(* The way of a message.                                                    *)

\* Where a message is.  A dead letter whose INSERT was not answered is one.
Place(m) == IF Queued(m) THEN "line"
            ELSE IF EntriesOf(m) # {} THEN "letter"
            ELSE IF Held(m) THEN "worker"
            ELSE IF sends[m] \in {"new", "push"} THEN "sender" ELSE "gone"

\* A message takes one way through the system: pushed once, handed out in the
\* order of the pushes to one worker, filed as a dead letter at most once, and
\* never on the list again; its recipients are reached only on that way, never
\* on behalf of a sender that was refused before its push.
Journey == INSTANCE MessageJourney WITH
  line    <- queue,
  place   <- [m \in Messages |-> Place(m)],
  reached <- {m \in Messages : Reached(m)}
RefinesJourney == Journey!Spec

-----------------------------------------------------------------------------
(* What the documentation says.                                             *)

\* README.md:11: at-least-once delivery.  An accepted message is on its way,
\* waits as a dead letter or has reached its recipients.
AtLeastOnce == \A m \in Messages : ~ Lost(m)

\* docs/architecture.md:62-63: the acknowledgement is persisted and the
\* sender receives the confirmation.  A message that shows "processed" does
\* not go back to a status from before its acknowledgement.
ConfirmationStands ==
  [][\A m \in Messages :
       status[m] = "processed" =>
         status'[m] \notin {"pending", "sent", "dead_letter"}]_vars
=============================================================================
