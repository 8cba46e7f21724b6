------------------------------- MODULE Gateway --------------------------------
(***************************************************************************)
(* A request on its way through an API gateway: the middleware chain that  *)
(* setupRoutes of internal/api/handler.go installs (Authenticate, then     *)
(* RateLimit, then AuditLog around the handler), and the handlers of the   *)
(* agent registry.  Requests are served concurrently, by one gateway or by *)
(* several, and share nothing but the stores.                              *)
(***************************************************************************)
EXTENDS AgentRegistry, RateLimiter, FiniteSets

CONSTANTS
  Ops,              \* the operations that clients ask for
  Unstorable,       \* the requests with headers that audit_logs does not take
  MaxInterruptions  \* bound: disconnects and deaths of a gateway

ASSUME OpsAssumption ==
  /\ Ops \subseteq {"register", "list", "get", "update", "delete", "heartbeat", "query"}
  /\ Routes = {"agents", "agent", "heartbeat", "query"}
  /\ Nobody \notin Callers
  /\ Unstorable \subseteq Requests
  /\ MaxInterruptions \in Nat

VARIABLES
  req,              \* what each request has got to
  audit,            \* the audit_logs table, by request
  interruptions     \* disconnects and deaths so far

gatewayVars == <<faults, agents, clock, window, req, audit, interruptions>>

PC == {"new", "authenticate", "incr", "expire", "insert", "announce", "list", "get",
       "read", "write", "delete", "heartbeat", "query", "resolve", "record", "done"}

Code == {200, 201, 204, 401, 404, 409, 429, 500, 503}
NoCode == 0

Target == Agents \cup Dids \cup Requests \cup {Nobody}

\* The fields from "revoked" on are history: whether the caller was deleted, or
\* never an agent, when the request came; whether the limiter let it pass in
\* time; the heartbeat that the row held when an update read it or that a
\* heartbeat wrote; and whether the request has changed the agents table.
Request == [pc : PC, op : Ops \cup {"none"}, caller : Callers \cup {Nobody},
            target : Target, live : BOOLEAN,
            slot : Nat, beat : Nat, by : Callers \cup {Nobody},
            answer : Code \cup {NoCode}, found : SUBSET Agents,
            revoked : BOOLEAN, admitted : BOOLEAN, at : Nat, changed : BOOLEAN]

NewRequest == [pc |-> "new", op |-> "none", caller |-> Nobody, target |-> Nobody,
               live |-> TRUE, slot |-> 0, beat |-> 0, by |-> Nobody, answer |-> NoCode, found |-> {},
               revoked |-> FALSE, admitted |-> FALSE, at |-> 0, changed |-> FALSE]

Token == [signed : BOOLEAN, expires : {0, MaxClock}]

NotAudited == [agent |-> Nobody, status |-> NoCode]
AuditRow == [agent : Agents \cup {Nobody}, status : Code \cup {NoCode}]

GatewayTypeOK ==
  /\ faults \in 0 .. MaxFaults
  /\ RegistryTypeOK
  /\ LimiterTypeOK
  /\ req \in [Requests -> Request]
  /\ audit \in [Requests -> AuditRow]
  /\ interruptions \in 0 .. MaxInterruptions

-----------------------------------------------------------------------------
\* setupRoutes
RouteOf(op) == CASE op \in {"register", "list"}   -> "agents"
                 [] op \in {"heartbeat", "query"} -> op
                 [] OTHER                         -> "agent"

Handler(op) == CASE op = "register" -> "insert"
                 [] op = "update"   -> "read"
                 [] OTHER           -> op

KeyOf(r) == <<req[r].caller, RouteOf(req[r].op), req[r].slot>>

\* The middleware answers; the rest of the chain is not run.
Abort(r, code) == req' = [req EXCEPT ![r].pc = "done", ![r].answer = code]

\* The limiter lets the request pass; timely: within the slot it is counted in.
Admit(r, timely) ==
  req' = [req EXCEPT ![r].pc = Handler(req[r].op), ![r].admitted = timely]

\* isAuditMethod
Audited(op) == op \notin {"list", "get"}

\* The handler answers, and AuditLog has the control back.
Reply(r, code, ch) ==
  req' = [req EXCEPT ![r].pc = IF Audited(req[r].op) THEN "resolve" ELSE "done",
                     ![r].answer = code, ![r].changed = @ \/ ch]

\* What the functions of AgentService return after a statement on one row.
ErrorOf(o, found) ==
  CASE o # "ok"            -> "error"
    [] o = "ok" /\ ~ found -> "ErrAgentNotFound"
    [] OTHER               -> "nil"

\* respondServiceError, or the handler's own code.
CodeOf(error, success) ==
  CASE error = "nil"                   -> success
    [] error = "ErrAgentNotFound"      -> 404
    [] error = "ErrAgentAlreadyExists" -> 409
    [] OTHER                           -> 500

-----------------------------------------------------------------------------
(* The middleware before the handler.                                       *)

\* The DID to register, the capabilities to look for (those that a request wrote,
\* or any), or the id of some agent.
TargetsOf(op) == CASE op = "register" -> Dids
                   [] op = "list"     -> {Nobody}
                   [] op = "query"    -> Requests \cup {Nobody}
                   [] OTHER           -> {a \in Agents : Registered(a)}

\* ValidateToken: the signature, which only the holder of the secret can make, and
\* the time of expiry, which the token has from whoever issued it.
ValidateToken(token) == token.signed /\ clock <= token.expires

\* A request of a known tenant, with a token that is looked at now and not again;
\* without a valid one nothing else is done.
Arrive(r, op) ==
  /\ req[r].pc = "new"
  /\ \E c \in Callers, t \in TargetsOf(op), token \in Token :
       req' = [req EXCEPT ![r] = [NewRequest EXCEPT
                 !.pc = IF ValidateToken(token) THEN "authenticate" ELSE "done",
                 !.answer = IF ValidateToken(token) THEN NoCode ELSE 401,
                 !.op = op, !.caller = c, !.target = t,
                 !.revoked = c \notin {a \in Agents : agents[a].state # "deleted"}]]
  /\ UNCHANGED <<faults, agents, window, clock, audit, interruptions>>

\* Authenticate; the lookup of the tenant, which is never deleted, and that of
\* the agent are one read.  A registration may come from an unknown agent.
Authenticate(r, o) ==
  /\ req[r].pc = "authenticate"
  /\ Call(o, req[r].live)
  /\ \/ o # "ok" /\ Abort(r, 503)
     \/ /\ o = "ok" /\ req[r].op # "register" /\ ~ AgentExists(req[r].caller)
        /\ Abort(r, 401)
     \/ /\ o = "ok" /\ (req[r].op = "register" \/ AgentExists(req[r].caller))
        /\ req' = [req EXCEPT ![r].pc = "incr", ![r].slot = Slot]
  /\ UNCHANGED <<agents, window, clock, audit, interruptions>>

\* Mutants of Incr: the first count that sets the time to live, and the last
\* one that passes.
IncrWith(r, o, first, last) ==
  LET n == window[KeyOf(r)].count + 1
      timely == req[r].slot = Slot
  IN
  /\ req[r].pc = "incr"
  /\ Call(o, req[r].live)
  /\ IncrKey(KeyOf(r), o)
  /\ IF o = "ok" /\ n = first
     THEN req' = [req EXCEPT ![r].pc = "expire", ![r].admitted = timely]
     ELSE IF o = "ok" /\ n > last THEN Abort(r, 429) ELSE Admit(r, timely)
  /\ UNCHANGED <<agents, clock, audit, interruptions>>

IncrNeverFirst(r, o) == IncrWith(r, o, 0, Limit)
IncrOneMore(r, o) == IncrWith(r, o, 1, Limit + 1)

\* RateLimit up to the answer to INCR; without one the request passes.
Incr(r, o) ==
  LET n == window[KeyOf(r)].count + 1
      timely == req[r].slot = Slot
  IN
  /\ req[r].pc = "incr"
  /\ Call(o, req[r].live)
  /\ IncrKey(KeyOf(r), o)
  /\ \/ o # "ok" /\ Admit(r, timely)
     \/ /\ o = "ok" /\ n = 1
        /\ req' = [req EXCEPT ![r].pc = "expire", ![r].admitted = timely]
     \/ /\ o = "ok" /\ n > 1
        /\ IF n > Limit THEN Abort(r, 429) ELSE Admit(r, timely)
  /\ UNCHANGED <<agents, clock, audit, interruptions>>

\* The first of a slot sets the time to live; an error is ignored.
Expire(r, o) ==
  /\ req[r].pc = "expire"
  /\ Call(o, req[r].live)
  /\ ExpireKey(KeyOf(r), o)
  /\ Admit(r, req[r].admitted)
  /\ UNCHANGED <<agents, clock, audit, interruptions>>

-----------------------------------------------------------------------------
(* The handlers: createAgent, getAgent, updateAgent, deleteAgent, heartbeat *)
(* with the functions of AgentService they call.                            *)

\* Register: the id is drawn here, and the client learns it from the answer.
Insert(r, a, o) ==
  LET free == ~ Taken(req[r].target) IN
  /\ req[r].pc = "insert"
  /\ ~ Registered(a) \/ ~ free
  /\ Call(o, req[r].live)
  /\ CreateAgent(a, req[r].target, r, o)
  /\ \/ o = "ok" /\ free
        /\ req' = [req EXCEPT ![r].pc = "announce", ![r].changed = TRUE]
     \/ o = "ok" /\ ~ free /\ Reply(r, CodeOf("ErrAgentAlreadyExists", 201), FALSE)
     \/ o # "ok" /\ Reply(r, 500, Took(o) /\ free)
  /\ UNCHANGED <<window, clock, audit, interruptions>>

\* Its error is the answer, although the agent is registered.
Announce(r, o) ==
  /\ req[r].pc = "announce"
  /\ Call(o, req[r].live)
  /\ Reply(r, IF o = "ok" THEN 201 ELSE 500, FALSE)
  /\ UNCHANGED <<agents, window, clock, audit, interruptions>>

Get(r, o) ==
  /\ req[r].pc = "get"
  /\ Call(o, req[r].live)
  /\ Reply(r, CodeOf(ErrorOf(o, Live(req[r].target)), 200), FALSE)
  /\ UNCHANGED <<agents, window, clock, audit, interruptions>>

\* The answer holds the agents A if the one statement has succeeded.
Found(r, o, A) ==
  req' = [req EXCEPT ![r].pc = IF Audited(req[r].op) THEN "resolve" ELSE "done",
                     ![r].answer = IF o = "ok" THEN 200 ELSE 500,
                     ![r].found = IF o = "ok" THEN A ELSE {}]

List(r, o) ==
  /\ req[r].pc = "list"
  /\ Call(o, req[r].live)
  /\ Found(r, o, LiveAgents)
  /\ UNCHANGED <<agents, window, clock, audit, interruptions>>

\* Whether a has one of the capabilities that are asked for.
Capable(r, a) == req[r].target \in {Nobody, agents[a].by}

\* QueryByCapabilities of the service filters what the statement returned.
Query(r, o) ==
  /\ req[r].pc = "query"
  /\ Call(o, req[r].live)
  /\ Found(r, o, {a \in Newest : Capable(r, a)})
  /\ UNCHANGED <<agents, window, clock, audit, interruptions>>

\* A mutant of Read: updateAgent fills in an empty record.
ReadNothing(r, o) ==
  /\ req[r].pc = "read"
  /\ Call(o, req[r].live)
  /\ IF o = "ok" /\ Live(req[r].target)
     THEN req' = [req EXCEPT ![r].pc = "write", ![r].beat = 0,
                              ![r].at = agents[req[r].target].beat]
     ELSE Reply(r, CodeOf(ErrorOf(o, FALSE), 200), FALSE)
  /\ UNCHANGED <<agents, window, clock, audit, interruptions>>

\* updateAgent reads the row, and puts the request's fields into what it read.
Read(r, o) ==
  LET a == req[r].target IN
  /\ req[r].pc = "read"
  /\ Call(o, req[r].live)
  /\ \/ /\ o = "ok" /\ Live(a)
        /\ req' = [req EXCEPT ![r].pc = "write", ![r].beat = agents[a].beat,
                              ![r].at = agents[a].beat]
     \/ ~ (o = "ok" /\ Live(a)) /\ Reply(r, CodeOf(ErrorOf(o, FALSE), 200), FALSE)
  /\ UNCHANGED <<agents, window, clock, audit, interruptions>>

Write(r, o) ==
  LET a == req[r].target IN
  /\ req[r].pc = "write"
  /\ Call(o, req[r].live)
  /\ UpdateAgent(a, r, req[r].beat, o)
  /\ Reply(r, CodeOf(ErrorOf(o, Live(a)), 200), Took(o) /\ Live(a))
  /\ UNCHANGED <<window, clock, audit, interruptions>>

\* A mutant of Delete: whether a row was changed is not looked at.
DeleteBlindly(r, o) ==
  /\ req[r].pc = "delete"
  /\ Call(o, req[r].live)
  /\ DeleteAgent(req[r].target, o)
  /\ Reply(r, CodeOf(ErrorOf(o, TRUE), 204), Took(o) /\ Live(req[r].target))
  /\ UNCHANGED <<window, clock, audit, interruptions>>

Delete(r, o) ==
  LET a == req[r].target IN
  /\ req[r].pc = "delete"
  /\ Call(o, req[r].live)
  /\ DeleteAgent(a, o)
  /\ Reply(r, CodeOf(ErrorOf(o, Live(a)), 204), Took(o) /\ Live(a))
  /\ UNCHANGED <<window, clock, audit, interruptions>>

Heartbeat(r, o) ==
  LET a == req[r].target IN
  /\ req[r].pc = "heartbeat"
  /\ Call(o, req[r].live)
  /\ BeatAgent(a, clock, o)
  /\ req' = [req EXCEPT ![r].pc = "resolve", ![r].at = clock,
                        ![r].answer = CodeOf(ErrorOf(o, Live(a)), 200),
                        ![r].changed = Took(o) /\ Live(a)]
  /\ UNCHANGED <<window, clock, audit, interruptions>>

-----------------------------------------------------------------------------
(* AuditLog, after the handler, under the context of the request.           *)

\* A mutant of Resolve: the caller is not looked up.
ResolveUnchecked(r, o) ==
  /\ req[r].pc = "resolve"
  /\ Call(o, req[r].live)
  /\ req' = [req EXCEPT ![r].pc = "record", ![r].by = req[r].caller]
  /\ UNCHANGED <<agents, window, clock, audit, interruptions>>

\* resolveAuditReference: a caller that is unknown, deleted meanwhile or
\* cannot be looked up is not referred to.
Resolve(r, o) ==
  /\ req[r].pc = "resolve"
  /\ Call(o, req[r].live)
  /\ req' = [req EXCEPT ![r].pc = "record",
                        ![r].by = IF o = "ok" /\ AgentExists(req[r].caller)
                                  THEN req[r].caller ELSE Nobody]
  /\ UNCHANGED <<agents, window, clock, audit, interruptions>>

\* Tracing takes X-Request-ID and X-Trace-ID as the client sends them, and the
\* columns hold 100 characters; nor do they, or that of User-Agent, hold what is
\* not UTF-8.
Storable(r) == r \notin Unstorable

\* CreateAuditLog: agent_id is a foreign key.  The database refuses a row that
\* does not fit, whatever becomes of the call.
CreateAuditLog(r, row, o) ==
  audit' = IF Took(o) /\ Storable(r) /\ (row.agent = Nobody \/ Registered(row.agent))
           THEN [audit EXCEPT ![r] = row] ELSE audit

\* Its error is only logged.
Record(r, o) ==
  /\ req[r].pc = "record"
  /\ Call(o, req[r].live)
  /\ CreateAuditLog(r, [agent |-> req[r].by, status |-> req[r].answer], o)
  /\ req' = [req EXCEPT ![r].pc = "done"]
  /\ UNCHANGED <<agents, window, clock, interruptions>>

-----------------------------------------------------------------------------
UnderWay(r) == req[r].pc \notin {"new", "done"}

\* The client disconnects, which cancels the context of the request.
Disconnect(r) ==
  /\ UnderWay(r) /\ req[r].live
  /\ interruptions < MaxInterruptions
  /\ interruptions' = interruptions + 1
  /\ req' = [req EXCEPT ![r].live = FALSE]
  /\ UNCHANGED <<faults, agents, window, clock, audit>>

\* The gateway that serves the request dies.
Die(r) ==
  /\ UnderWay(r)
  /\ interruptions < MaxInterruptions
  /\ interruptions' = interruptions + 1
  /\ req' = [req EXCEPT ![r].pc = "done"]
  /\ UNCHANGED <<faults, agents, window, clock, audit>>

Serve(r, o) ==
  \/ Authenticate(r, o) \/ Incr(r, o) \/ Expire(r, o)
  \/ \E a \in Agents : Insert(r, a, o)
  \/ Announce(r, o) \/ List(r, o) \/ Get(r, o) \/ Query(r, o) \/ Read(r, o) \/ Write(r, o) \/ Delete(r, o)
  \/ Heartbeat(r, o) \/ Resolve(r, o) \/ Record(r, o)

GatewayInit ==
  /\ faults = 0
  /\ RegistryInit /\ LimiterInit
  /\ req = [r \in Requests |-> NewRequest]
  /\ audit = [r \in Requests |-> NotAudited]
  /\ interruptions = 0

GatewayNext ==
  \/ Tick /\ UNCHANGED <<faults, agents, req, audit, interruptions>>
  \/ \E r \in Requests :
       \/ \E op \in Ops : Arrive(r, op)
       \/ \E o \in Outcome : Serve(r, o)
       \/ Disconnect(r) \/ Die(r)

GatewaySpec == GatewayInit /\ [][GatewayNext]_gatewayVars

-----------------------------------------------------------------------------
(* Properties.                                                              *)

\* The audit log misses a change only at the price of a failed call, a
\* disconnect or a death, or because the client has sent a header that does not
\* fit in it: no caller, known, unknown or deleted while its request is under
\* way, makes the INSERT of a row that fits fail by itself.
ChangesAudited ==
  Cardinality({r \in Requests : /\ req[r].pc = "done" /\ req[r].changed
                                /\ audit[r] = NotAudited /\ Storable(r)})
    <= faults + interruptions

\* What a client is told is true whatever ran beside its request: a success
\* was its own change, exactly one of several concurrent deletions is told
\* so, and who is told "conflict" or "not found" has changed nothing and met
\* the DID or the deletion of another request.
AnswersAreTrue ==
  \A r \in Requests :
    LET code == req[r].answer IN
    /\ code \in {200, 201, 204} =>
         (req[r].changed \/ req[r].op \in {"list", "get", "query"})
    /\ code \in {401, 404, 409, 429, 503} => ~ req[r].changed
    /\ code = 404 => agents[req[r].target].state = "deleted"
    /\ code = 409 => Taken(req[r].target)
    /\ code = 204 =>
         \A q \in Requests \ {r} :
           req[q].answer = 204 => req[q].target # req[r].target

\* A request whose caller was deleted, or never an agent, gets no further than
\* Authenticate (only a registration does), while one that has been
\* authenticated may finish.
DeletedActsNoMore ==
  \A r \in Requests :
    req[r].revoked /\ req[r].op # "register" =>
      /\ ~ req[r].changed
      /\ req[r].pc \in {"authenticate", "done"}

\* The row of a deleted agent is not written any more, in particular not by
\* an update that had read it before the deletion.
DeletedRowsStay ==
  [][\A a \in Agents : agents[a].state = "deleted" => agents'[a] = agents[a]]_gatewayVars

\* A heartbeat that was confirmed stands, unless an update of the same agent
\* overlapped it: one that had read an older heartbeat and wrote the row.
HeartbeatStands ==
  \A r \in Requests :
    req[r].op = "heartbeat" /\ req[r].answer = 200 =>
      \/ agents[req[r].target].beat >= req[r].at
      \/ \E u \in Requests : /\ req[u].op = "update" /\ req[u].changed
                             /\ req[u].target = req[r].target
                             /\ req[u].at < req[r].at

\* In one slot no more requests of a caller pass on a route than the limit,
\* but for those whose INCR failed (the limiter fails open).  Requests whose
\* INCR came after the end of their slot are not counted.
AdmittedWithinLimit ==
  \A k \in Key :
    Cardinality({r \in Requests : req[r].admitted /\ KeyOf(r) = k})
      <= Limit + faults + interruptions

\* A counter without a time to live, which Redis would keep for good, is
\* about to get one or has cost a failed call, a disconnect or a death.
CountersExpire ==
  Cardinality({k \in Key : /\ window[k] # NoCounter /\ window[k].expires = NoTTL
                           /\ ~ \E r \in Requests : req[r].pc = "expire" /\ KeyOf(r) = k})
    <= faults + interruptions
=============================================================================
