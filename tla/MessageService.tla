---------------------------- MODULE MessageService ----------------------------
(***************************************************************************)
(* The API gateways' message service (internal/service/service.go): Send,  *)
(* which inserts a row and then pushes the message on the list the engines *)
(* consume, and AcknowledgeForTenant, which inserts an acknowledgement and *)
(* then updates the status of the message.  Neither pair is a transaction. *)
(***************************************************************************)
EXTENDS MessageStore

CONSTANTS
  Batches,      \* the requests to send: the messages of each, in order
  Handlers,     \* concurrent acknowledgement requests
  Nonces,       \* values of acknowledgements.nonce, which is UNIQUE
  AckStatus,    \* status strings clients send; only the empty one is refused
  NoAck         \* no acknowledgement row with this nonce

\* Each message is one item of one request; most requests have one item.
ASSUME BatchesAssumption ==
  /\ Batches \subseteq Seq(Messages)
  /\ \A m \in Messages : \E b \in Batches : \E i \in DOMAIN b : b[i] = m
  /\ \A b, c \in Batches : \A i \in DOMAIN b, j \in DOMAIN c :
       b[i] = c[j] => b = c /\ i = j

ASSUME AckAssumption == NoAck \notin [msg : Messages, agent : Agents, ack : AckStatus]

VARIABLES
  sends,        \* where the Send of each message is
  handler,      \* the acknowledgement request each handler serves
  ackRow        \* the acknowledgements table, by nonce

serviceVars == <<sends, handler, ackRow>>
serviceAllVars == <<storeVars, serviceVars>>

SendPC == {"new", "push", "accepted", "rejected"}
Ack == [msg : Messages, agent : Agents, ack : AckStatus]
Free == [pc |-> "free"]
Handler == {Free} \cup
           [pc : {"insert", "update"}, nonce : Nonces, row : Ack]

ServiceTypeOK ==
  /\ StoreTypeOK
  /\ sends \in [Messages -> SendPC]
  /\ handler \in [Handlers -> Handler]
  /\ ackRow \in [Nonces -> Ack \cup {NoAck}]

\* MessageRepository.GetByIDForTenant finds the row; rows are never deleted.
Stored(m) == status[m] # "none"

\* messageHasRecipient
HasRecipient(m, a) == \E i \in Targets(m) : Recipients[m][i] = a

\* A mutant of AckMessageStatus: a status it does not know is kept.
AckMessageStatusRaw(s) == CASE s = "received"               -> "delivered"
                            [] s \in {"rejected", "failed"} -> "failed"
                            [] OTHER                        -> s

\* mapAckToMessageStatus
AckMessageStatus(s) == CASE s = "received"               -> "delivered"
                         [] s = "processed"              -> "processed"
                         [] s \in {"rejected", "failed"} -> "failed"
                         [] OTHER                        -> "pending"

-----------------------------------------------------------------------------
(* Send                                                                     *)

\* sendBatchMessages: the items that come after m in its request.
After(m) == {x \in Messages : \E b \in Batches : \E i, j \in DOMAIN b :
                                i < j /\ b[i] = m /\ b[j] = x}

\* An item is sent when those before it have been, however that went.
Turn(m) == \A x \in Messages : m \in After(x) => sends[x] \in {"accepted", "rejected"}

\* A mutant of SendCreate: the error is not looked at.
SendCreateUnchecked(m, o) ==
  /\ sends[m] = "new" /\ Turn(m)
  /\ Call(o, TRUE)
  /\ CreateMessage(m, o)
  /\ sends' = [sends EXCEPT ![m] = "push"]
  /\ UNCHANGED <<queue, entries, published, handler, ackRow>>

\* repo.Create; an error is returned to the client, row or no row.
SendCreate(m, o) ==
  /\ sends[m] = "new" /\ Turn(m)
  /\ Call(o, TRUE)
  /\ CreateMessage(m, o)
  /\ sends' = [sends EXCEPT ![m] = IF o = "ok" THEN "push" ELSE "rejected"]
  /\ UNCHANGED <<queue, entries, published, handler, ackRow>>

\* redis.LPush; an error is returned and the row stays as it is.
SendPush(m, o) ==
  /\ sends[m] = "push"
  /\ Call(o, TRUE)
  /\ LPush(m, o)
  /\ sends' = [sends EXCEPT ![m] = IF o = "ok" THEN "accepted" ELSE "rejected"]
  /\ UNCHANGED <<status, entries, published, handler, ackRow>>

\* Between the two the client disconnects, which cancels the request's context
\* and has the LPush and every call for the items after it refused, or the
\* gateway dies.
SendAbandoned(m) ==
  /\ sends[m] = "push"
  /\ sends' = [x \in Messages |->
                 IF x = m \/ (x \in After(m) /\ sends[x] = "new") THEN "rejected"
                 ELSE sends[x]]
  /\ UNCHANGED <<storeVars, handler, ackRow>>

-----------------------------------------------------------------------------
(* AcknowledgeForTenant                                                     *)

\* The message is found and names the agent; any other request is refused
\* with nothing changed.
AckBegin(h, n, r) ==
  /\ handler[h] = Free
  /\ Stored(r.msg) /\ HasRecipient(r.msg, r.agent)
  /\ handler' = [handler EXCEPT ![h] = [pc |-> "insert", nonce |-> n, row |-> r]]
  /\ UNCHANGED <<storeVars, sends, ackRow>>

\* AcknowledgementRepository.Create: the nonce is UNIQUE.
CreateAcknowledgement(n, r, o) ==
  ackRow' = IF Took(o) /\ ackRow[n] = NoAck THEN [ackRow EXCEPT ![n] = r] ELSE ackRow

\* A mutant of AckInsert: the error is not looked at.
AckInsertUnchecked(h, o) ==
  LET n == handler[h].nonce IN
  /\ handler[h].pc = "insert"
  /\ Call(o, TRUE)
  /\ CreateAcknowledgement(n, handler[h].row, o)
  /\ handler' = [handler EXCEPT ![h].pc = "update"]
  /\ UNCHANGED <<status, queue, entries, published, sends>>

\* ackRepo.Create: a nonce that is taken is an error, as any other.
AckInsert(h, o) ==
  LET n == handler[h].nonce IN
  /\ handler[h].pc = "insert"
  /\ Call(o, TRUE)
  /\ CreateAcknowledgement(n, handler[h].row, o)
  /\ handler' = [handler EXCEPT ![h] = IF o = "ok" /\ ackRow[n] = NoAck
                                       THEN [@ EXCEPT !.pc = "update"] ELSE Free]
  /\ UNCHANGED <<status, queue, entries, published, sends>>

\* repo.UpdateStatus, and the answer to the client.
AckUpdate(h, o) ==
  LET r == handler[h].row IN
  /\ handler[h].pc = "update"
  /\ Call(o, TRUE)
  /\ UpdateMessageStatus(r.msg, AckMessageStatus(r.ack), o)
  /\ handler' = [handler EXCEPT ![h] = Free]
  /\ UNCHANGED <<queue, entries, published, sends, ackRow>>

\* The request is cut short by a disconnect or the death of the gateway.
AckAbandoned(h) ==
  /\ handler[h].pc = "update"
  /\ handler' = [handler EXCEPT ![h] = Free]
  /\ UNCHANGED <<storeVars, sends, ackRow>>

-----------------------------------------------------------------------------
ServiceInit ==
  /\ StoreInit
  /\ sends = [m \in Messages |-> "new"]
  /\ handler = [h \in Handlers |-> Free]
  /\ ackRow = [n \in Nonces |-> NoAck]

SendStep(m) == \E o \in Outcome : SendCreate(m, o) \/ SendPush(m, o)
AckStep(h) == \E o \in Outcome : AckInsert(h, o) \/ AckUpdate(h, o)

ServiceStep ==
  \/ \E m \in Messages : SendStep(m) \/ SendAbandoned(m)
  \/ \E h \in Handlers :
       \/ \E n \in Nonces, r \in Ack : AckBegin(h, n, r)
       \/ AckStep(h) \/ AckAbandoned(h)

ServiceSpec == ServiceInit /\ [][ServiceStep]_serviceAllVars

\* The same service under clients that do not give up: an acknowledgement is
\* sent again, with its nonce, as long as there is a handler to take it.
RetryingSpec ==
  /\ ServiceSpec
  /\ \A m \in Messages : WF_serviceAllVars(SendStep(m))
  /\ \A h \in Handlers :
       /\ WF_serviceAllVars(AckStep(h))
       /\ \A n \in Nonces, r \in Ack : WF_serviceAllVars(AckBegin(h, n, r))

-----------------------------------------------------------------------------
(* Properties.                                                              *)

\* The status a message shows for an acknowledgement is never ahead of the
\* table: "delivered" and "processed" are backed by an acknowledgement row of
\* a recipient, in every interleaving of the two statements of the handlers.
StatusBackedByAck ==
  \A m \in Messages :
    status[m] \in {"delivered", "processed"} =>
      \E n \in Nonces : /\ ackRow[n] # NoAck
                        /\ ackRow[n].msg = m
                        /\ HasRecipient(m, ackRow[n].agent)
                        /\ AckMessageStatus(ackRow[n].ack) = status[m]

\* docs/architecture.md:62-63: once an acknowledgement is persisted the
\* sender receives the confirmation, that is, the message shows its status.
AckedIsConfirmed ==
  \A n \in Nonces, r \in Ack :
    (ackRow[n] = r) ~> (status[r.msg] = AckMessageStatus(r.ack))
=============================================================================
