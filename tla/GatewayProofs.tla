----------------------------- MODULE GatewayProofs -----------------------------
(***************************************************************************)
(* Theorems about requests, for any number of requests, callers, agents    *)
(* and keys.  First what a request and the agents table say of each other: *)
(* what is answered is true, what is deleted stays so, and a deleted agent *)
(* does not act.  Then, each with an invariant of its own, what is         *)
(* missing only at a price: the rows of the audit log, the times to live   *)
(* of the counters, the limit, and the heartbeats.                         *)
(***************************************************************************)
EXTENDS Gateway, FiniteSetTheorems, TLAPS

\* The operations on one agent, which is registered when the request comes.
OnAgent == {"get", "update", "delete", "heartbeat"}

\* Where a request is before its handler has done anything.
Early == {"new", "authenticate", "incr", "expire", "insert", "list", "get", "read",
          "write", "delete", "heartbeat", "query"}

\* The program counter of a handler belongs to its operation, and so does what a
\* registration is about.
HandlerOK(q) ==
  /\ q.pc \in {"insert", "announce"} => q.op = "register"
  /\ q.pc \in {"read", "write"} => q.op = "update"
  /\ q.pc \in {"list", "get", "delete", "heartbeat", "query"} => q.op = q.pc
  /\ q.pc # "new" => q.op # "none"
  /\ q.op = "register" => q.target \in Dids

\* What a request has been answered agrees with what it has changed, and with
\* the agents table, in which rows only appear and are deleted.
AnswerOK(q) ==
  /\ q.pc \in Early => ~ q.changed /\ q.answer = NoCode
  /\ q.pc = "announce" => q.changed /\ q.answer = NoCode
  /\ q.op \in OnAgent => Registered(q.target)
  /\ q.answer \in {200, 201, 204} => q.changed \/ q.op \in {"list", "get", "query"}
  /\ q.answer \in {401, 404, 409, 429, 503} => ~ q.changed
  /\ q.answer \in {204, 404} => q.op \in OnAgent /\ agents[q.target].state = "deleted"
  /\ q.answer = 409 => Taken(q.target)

\* A request whose caller was deleted, or no agent, when it came has only such
\* a caller ever since, and has not passed Authenticate.
CallerOK(q) ==
  q.revoked /\ q.op # "register" =>
    /\ ~ q.changed /\ q.pc \in {"authenticate", "done"}
    /\ q.caller \in Agents => agents[q.caller].state = "deleted"

RequestOK(q) == HandlerOK(q) /\ AnswerOK(q) /\ CallerOK(q)

\* One deletion of an agent is told that it was the one.
DeletedOnce ==
  \A r, q \in Requests :
    r # q /\ req[r].answer = 204 /\ req[q].answer = 204 => req[r].target # req[q].target

TypesOK ==
  /\ agents \in [Agents -> Row]
  /\ req \in [Requests -> Request]
  /\ clock \in Nat

GatewayInv ==
  /\ TypesOK
  /\ \A r \in Requests : RequestOK(req[r])
  /\ DeletedOnce

-----------------------------------------------------------------------------
(* The agents table.                                                        *)

\* Rows appear and are deleted, their DID stays, and nothing else happens to a
\* deleted one.
Grows ==
  /\ agents' \in [Agents -> Row]
  /\ \A a \in Agents :
       /\ agents[a].state # "absent" =>
            agents'[a].state # "absent" /\ agents'[a].did = agents[a].did
       /\ agents[a].state = "deleted" => agents'[a] = agents[a]

\* Most steps leave the table.
LEMMA UnchangedGrows == ASSUME agents \in [Agents -> Row], UNCHANGED agents PROVE Grows
  BY DEF Grows

\* CreateAgent writes the row of an id that is just drawn.
LEMMA CreateGrows ==
  ASSUME IsFiniteSet(Agents), agents \in [Agents -> Row],
         NEW a \in Agents, NEW d \in Dids, NEW r \in Requests, NEW o \in Outcome,
         ~ Registered(a) \/ Taken(d), CreateAgent(a, d, r, o)
  PROVE  Grows
<1> DEFINE n == Cardinality({b \in Agents : Registered(b)})
           row == [state |-> "live", did |-> d, by |-> r, beat |-> 0, rank |-> n]
<1>1. n \in Nat
  BY FS_Subset, FS_CardinalityType
<1> HIDE DEF n
<1>2. row \in Row
  BY <1>1 DEF Row
<1>3. agents' = agents \/ (~ Registered(a) /\ agents' = [agents EXCEPT ![a] = row])
  BY DEF CreateAgent, n
<1>4. CASE agents' = agents
  BY <1>4 DEF Grows
<1>5. CASE ~ Registered(a) /\ agents' = [agents EXCEPT ![a] = row]
  <2>1. agents[a].state = "absent"
    BY <1>5 DEF Registered
  <2>2. \A b \in Agents : b # a => agents'[b] = agents[b]
    BY <1>5
  <2>3. agents' \in [Agents -> Row]
    BY <1>2, <1>5
  <2> QED BY <2>1, <2>2, <2>3 DEF Grows
<1> QED BY <1>3, <1>4, <1>5

\* The statements with WHERE deleted_at IS NULL.
LEMMA UpdateGrows ==
  ASSUME agents \in [Agents -> Row], NEW a \in Agents, NEW r \in Requests,
         NEW beat \in Nat, NEW o \in Outcome, UpdateAgent(a, r, beat, o)
  PROVE  Grows
<1>1. CASE agents' = agents
  BY <1>1 DEF Grows
<1>2. CASE Live(a) /\ agents' = [agents EXCEPT ![a].by = r, ![a].beat = beat]
  <2> DEFINE x == agents[a]
             y == [x EXCEPT !.by = r]
             z == [y EXCEPT !.beat = beat]
  <2>1. x \in Row
    OBVIOUS
  <2>2. agents' = [agents EXCEPT ![a] = z]
    BY <1>2
  <2> HIDE DEF x
  <2>3. y \in Row /\ y.state = x.state /\ y.did = x.did
    BY <2>1, SMT DEF Row
  <2> HIDE DEF y
  <2>4. z \in Row /\ z.state = x.state /\ z.did = x.did
    BY <2>3, SMT DEF Row
  <2> HIDE DEF z
  <2> QED BY <1>2, <2>2, <2>4 DEF Grows, Live, x
<1> QED BY <1>1, <1>2 DEF UpdateAgent

\* DeleteForTenant sets deleted_at of a live row.
LEMMA DeleteGrows ==
  ASSUME agents \in [Agents -> Row], NEW a \in Agents, NEW o \in Outcome, DeleteAgent(a, o)
  PROVE  Grows
<1>1. CASE agents' = agents
  BY <1>1 DEF Grows
<1>2. CASE Live(a) /\ agents' = [agents EXCEPT ![a].state = "deleted"]
  BY <1>2, SMT DEF Grows, Row, Live
<1> QED BY <1>1, <1>2 DEF DeleteAgent

\* UpdateStatusForTenant writes a live row.
LEMMA BeatGrows ==
  ASSUME agents \in [Agents -> Row], NEW a \in Agents, NEW now \in Nat, NEW o \in Outcome,
         BeatAgent(a, now, o)
  PROVE  Grows
<1>1. CASE agents' = agents
  BY <1>1 DEF Grows
<1>2. CASE Live(a) /\ agents' = [agents EXCEPT ![a].beat = now]
  BY <1>2, SMT DEF Grows, Row, Live
<1> QED BY <1>1, <1>2 DEF BeatAgent

\* What holds of a request keeps holding while rows appear and are deleted.
LEMMA GrowsKeeps ==
  ASSUME agents \in [Agents -> Row], Grows, NEW q \in Request, RequestOK(q)
  PROVE  RequestOK(q)'
<1>1. \A a \in Agents : Registered(a) => Registered(a)' /\ agents'[a].did = agents[a].did
  BY DEF Grows, Registered
<1>2. \A a \in Agents : agents[a].state = "deleted" => agents'[a].state = "deleted"
  BY DEF Grows
<1>3. ASSUME NEW d, Taken(d) PROVE Taken(d)'
  BY <1>1, <1>3 DEF Taken
<1>4. HandlerOK(q)'
  BY DEF RequestOK, HandlerOK
<1>5. AnswerOK(q)'
  <2>1. q.op \in OnAgent => q.target \in Agents /\ Registered(q.target)'
    BY <1>1 DEF RequestOK, AnswerOK, Registered
  <2>2. q.answer \in {204, 404} => q.op \in OnAgent /\ agents'[q.target].state = "deleted"
    BY <1>2, <2>1 DEF RequestOK, AnswerOK
  <2>3. q.answer = 409 => Taken(q.target)'
    BY <1>3 DEF RequestOK, AnswerOK
  <2> QED BY <2>1, <2>2, <2>3 DEF RequestOK, AnswerOK
<1>6. CallerOK(q)'
  BY <1>2 DEF RequestOK, CallerOK
<1> QED BY <1>4, <1>5, <1>6 DEF RequestOK

-----------------------------------------------------------------------------
(* The updates of a request that the actions are made of: each is a request *)
(* again, and changes what it names only.                                   *)

Kept(y, x) ==
  /\ y \in Request
  /\ y.op = x.op /\ y.caller = x.caller /\ y.target = x.target /\ y.revoked = x.revoked

Moved(x, p) == [x EXCEPT !.pc = p]
Cut(x, v) == [x EXCEPT !.live = v]
Answered(x, p, c) == [x EXCEPT !.pc = p, !.answer = c]
Replied(x, p, c, ch) == [x EXCEPT !.pc = p, !.answer = c, !.changed = ch]
Admitted(x, p, v) == [x EXCEPT !.pc = p, !.admitted = v]
Slotted(x, p, v) == [x EXCEPT !.pc = p, !.slot = v]
Registers(x, p, ch) == [x EXCEPT !.pc = p, !.changed = ch]
Finds(x, p, c, v) == [x EXCEPT !.pc = p, !.answer = c, !.found = v]
HasRead(x, p, v, w) == [x EXCEPT !.pc = p, !.beat = v, !.at = w]
WithBeat(x, p, v) == [x EXCEPT !.pc = p, !.beat = v]
Marked(x, p, w) == [x EXCEPT !.pc = p, !.at = w]
Told(x, p, w, c) == [x EXCEPT !.pc = p, !.at = w, !.answer = c]
Beats(x, p, w, c, ch) == [x EXCEPT !.pc = p, !.at = w, !.answer = c, !.changed = ch]
Resolved(x, p, v) == [x EXCEPT !.pc = p, !.by = v]

LEMMA PCs ==
  /\ "announce" \in PC /\ "incr" \in PC /\ "expire" \in PC /\ "write" \in PC
  /\ "record" \in PC /\ "done" \in PC /\ TRUE \in BOOLEAN
BY DEF PC

\* Each update below keeps what Kept says, and sets what it names.
LEMMA MovedFact ==
  ASSUME NEW x \in Request, NEW p \in PC
  PROVE  LET y == Moved(x, p) IN
         Kept(y, x) /\ y.pc = p /\ y.answer = x.answer /\ y.changed = x.changed
<1> SUFFICES ASSUME NEW y, y = Moved(x, p)
             PROVE  Kept(y, x) /\ y.pc = p /\ y.answer = x.answer /\ y.changed = x.changed
  OBVIOUS
<1> QED BY SMT DEF Kept, Request, Moved

LEMMA CutFact ==
  ASSUME NEW x \in Request, NEW v \in BOOLEAN
  PROVE  LET y == Cut(x, v) IN
         Kept(y, x) /\ y.pc = x.pc /\ y.answer = x.answer /\ y.changed = x.changed
<1> SUFFICES ASSUME NEW y, y = Cut(x, v)
             PROVE  Kept(y, x) /\ y.pc = x.pc /\ y.answer = x.answer /\ y.changed = x.changed
  OBVIOUS
<1> QED BY SMT DEF Kept, Request, Cut

LEMMA AnsweredFact ==
  ASSUME NEW x \in Request, NEW p \in PC, NEW c \in Code \cup {NoCode}
  PROVE  LET y == Answered(x, p, c) IN
         Kept(y, x) /\ y.pc = p /\ y.answer = c /\ y.changed = x.changed
<1> SUFFICES ASSUME NEW y, y = Answered(x, p, c)
             PROVE  Kept(y, x) /\ y.pc = p /\ y.answer = c /\ y.changed = x.changed
  OBVIOUS
<1> DEFINE x1 == [x EXCEPT !.pc = p]
<1>1. y = [x1 EXCEPT !.answer = c]
  BY DEF Answered
<1>2. Kept(x1, x) /\ x1.pc = p /\ x1.answer = x.answer /\ x1.changed = x.changed
  BY SMT DEF Kept, Request
<1> HIDE DEF x1
<1> QED BY <1>1, <1>2, SMT DEF Kept, Request

LEMMA RepliedFact ==
  ASSUME NEW x \in Request, NEW p \in PC, NEW c \in Code \cup {NoCode}, NEW ch \in BOOLEAN
  PROVE  LET y == Replied(x, p, c, ch) IN
         Kept(y, x) /\ y.pc = p /\ y.answer = c /\ y.changed = ch
<1> SUFFICES ASSUME NEW y, y = Replied(x, p, c, ch)
             PROVE  Kept(y, x) /\ y.pc = p /\ y.answer = c /\ y.changed = ch
  OBVIOUS
<1> DEFINE x1 == [x EXCEPT !.pc = p]
           x2 == [x1 EXCEPT !.answer = c]
<1>1. y = [x2 EXCEPT !.changed = ch]
  BY DEF Replied
<1>2. Kept(x1, x) /\ x1.pc = p /\ x1.answer = x.answer /\ x1.changed = x.changed
  BY SMT DEF Kept, Request
<1> HIDE DEF x1
<1>3. Kept(x2, x) /\ x2.pc = p /\ x2.answer = c /\ x2.changed = x.changed
  BY <1>2, SMT DEF Kept, Request
<1> HIDE DEF x2
<1> QED BY <1>1, <1>3, SMT DEF Kept, Request

LEMMA AdmittedFact ==
  ASSUME NEW x \in Request, NEW p \in PC, NEW v \in BOOLEAN
  PROVE  LET y == Admitted(x, p, v) IN
         Kept(y, x) /\ y.pc = p /\ y.answer = x.answer /\ y.changed = x.changed
<1> SUFFICES ASSUME NEW y, y = Admitted(x, p, v)
             PROVE  Kept(y, x) /\ y.pc = p /\ y.answer = x.answer /\ y.changed = x.changed
  OBVIOUS
<1> DEFINE x1 == [x EXCEPT !.pc = p]
<1>1. y = [x1 EXCEPT !.admitted = v]
  BY DEF Admitted
<1>2. Kept(x1, x) /\ x1.pc = p /\ x1.answer = x.answer /\ x1.changed = x.changed
  BY SMT DEF Kept, Request
<1> HIDE DEF x1
<1> QED BY <1>1, <1>2, SMT DEF Kept, Request

LEMMA SlottedFact ==
  ASSUME NEW x \in Request, NEW p \in PC, NEW v \in Nat
  PROVE  LET y == Slotted(x, p, v) IN
         Kept(y, x) /\ y.pc = p /\ y.answer = x.answer /\ y.changed = x.changed
<1> SUFFICES ASSUME NEW y, y = Slotted(x, p, v)
             PROVE  Kept(y, x) /\ y.pc = p /\ y.answer = x.answer /\ y.changed = x.changed
  OBVIOUS
<1> DEFINE x1 == [x EXCEPT !.pc = p]
<1>1. y = [x1 EXCEPT !.slot = v]
  BY DEF Slotted
<1>2. Kept(x1, x) /\ x1.pc = p /\ x1.answer = x.answer /\ x1.changed = x.changed
  BY SMT DEF Kept, Request
<1> HIDE DEF x1
<1> QED BY <1>1, <1>2, SMT DEF Kept, Request

LEMMA RegistersFact ==
  ASSUME NEW x \in Request, NEW p \in PC, NEW ch \in BOOLEAN
  PROVE  LET y == Registers(x, p, ch) IN
         Kept(y, x) /\ y.pc = p /\ y.answer = x.answer /\ y.changed = ch
<1> SUFFICES ASSUME NEW y, y = Registers(x, p, ch)
             PROVE  Kept(y, x) /\ y.pc = p /\ y.answer = x.answer /\ y.changed = ch
  OBVIOUS
<1> DEFINE x1 == [x EXCEPT !.pc = p]
<1>1. y = [x1 EXCEPT !.changed = ch]
  BY DEF Registers
<1>2. Kept(x1, x) /\ x1.pc = p /\ x1.answer = x.answer /\ x1.changed = x.changed
  BY SMT DEF Kept, Request
<1> HIDE DEF x1
<1> QED BY <1>1, <1>2, SMT DEF Kept, Request

LEMMA FindsFact ==
  ASSUME NEW x \in Request, NEW p \in PC, NEW c \in Code \cup {NoCode}, NEW v \in SUBSET Agents
  PROVE  LET y == Finds(x, p, c, v) IN
         Kept(y, x) /\ y.pc = p /\ y.answer = c /\ y.changed = x.changed
<1> SUFFICES ASSUME NEW y, y = Finds(x, p, c, v)
             PROVE  Kept(y, x) /\ y.pc = p /\ y.answer = c /\ y.changed = x.changed
  OBVIOUS
<1> DEFINE x1 == [x EXCEPT !.pc = p]
           x2 == [x1 EXCEPT !.answer = c]
<1>1. y = [x2 EXCEPT !.found = v]
  BY DEF Finds
<1>2. Kept(x1, x) /\ x1.pc = p /\ x1.answer = x.answer /\ x1.changed = x.changed
  BY SMT DEF Kept, Request
<1> HIDE DEF x1
<1>3. Kept(x2, x) /\ x2.pc = p /\ x2.answer = c /\ x2.changed = x.changed
  BY <1>2, SMT DEF Kept, Request
<1> HIDE DEF x2
<1> QED BY <1>1, <1>3, SMT DEF Kept, Request

LEMMA HasReadFact ==
  ASSUME NEW x \in Request, NEW p \in PC, NEW v \in Nat, NEW w \in Nat
  PROVE  LET y == HasRead(x, p, v, w) IN
         Kept(y, x) /\ y.pc = p /\ y.answer = x.answer /\ y.changed = x.changed
<1> SUFFICES ASSUME NEW y, y = HasRead(x, p, v, w)
             PROVE  Kept(y, x) /\ y.pc = p /\ y.answer = x.answer /\ y.changed = x.changed
  OBVIOUS
<1> DEFINE x1 == [x EXCEPT !.pc = p]
           x2 == [x1 EXCEPT !.beat = v]
<1>1. y = [x2 EXCEPT !.at = w]
  BY DEF HasRead
<1>2. Kept(x1, x) /\ x1.pc = p /\ x1.answer = x.answer /\ x1.changed = x.changed
  BY SMT DEF Kept, Request
<1> HIDE DEF x1
<1>3. Kept(x2, x) /\ x2.pc = p /\ x2.answer = x.answer /\ x2.changed = x.changed
  BY <1>2, SMT DEF Kept, Request
<1> HIDE DEF x2
<1> QED BY <1>1, <1>3, SMT DEF Kept, Request

LEMMA WithBeatFact ==
  ASSUME NEW x \in Request, NEW p \in PC, NEW v \in Nat
  PROVE  LET y == WithBeat(x, p, v) IN
         Kept(y, x) /\ y.pc = p /\ y.answer = x.answer /\ y.changed = x.changed
<1> SUFFICES ASSUME NEW y, y = WithBeat(x, p, v)
             PROVE  Kept(y, x) /\ y.pc = p /\ y.answer = x.answer /\ y.changed = x.changed
  OBVIOUS
<1> DEFINE x1 == [x EXCEPT !.pc = p]
<1>1. y = [x1 EXCEPT !.beat = v]
  BY DEF WithBeat
<1>2. Kept(x1, x) /\ x1.pc = p /\ x1.answer = x.answer /\ x1.changed = x.changed
  BY SMT DEF Kept, Request
<1> HIDE DEF x1
<1> QED BY <1>1, <1>2, SMT DEF Kept, Request

LEMMA MarkedFact ==
  ASSUME NEW x \in Request, NEW p \in PC, NEW w \in Nat
  PROVE  LET y == Marked(x, p, w) IN
         Kept(y, x) /\ y.pc = p /\ y.answer = x.answer /\ y.changed = x.changed
<1> SUFFICES ASSUME NEW y, y = Marked(x, p, w)
             PROVE  Kept(y, x) /\ y.pc = p /\ y.answer = x.answer /\ y.changed = x.changed
  OBVIOUS
<1> DEFINE x1 == [x EXCEPT !.pc = p]
<1>1. y = [x1 EXCEPT !.at = w]
  BY DEF Marked
<1>2. Kept(x1, x) /\ x1.pc = p /\ x1.answer = x.answer /\ x1.changed = x.changed
  BY SMT DEF Kept, Request
<1> HIDE DEF x1
<1> QED BY <1>1, <1>2, SMT DEF Kept, Request

LEMMA ToldFact ==
  ASSUME NEW x \in Request, NEW p \in PC, NEW w \in Nat, NEW c \in Code \cup {NoCode}
  PROVE  LET y == Told(x, p, w, c) IN
         Kept(y, x) /\ y.pc = p /\ y.answer = c /\ y.changed = x.changed
<1> SUFFICES ASSUME NEW y, y = Told(x, p, w, c)
             PROVE  Kept(y, x) /\ y.pc = p /\ y.answer = c /\ y.changed = x.changed
  OBVIOUS
<1> DEFINE x1 == [x EXCEPT !.pc = p]
           x2 == [x1 EXCEPT !.at = w]
<1>1. y = [x2 EXCEPT !.answer = c]
  BY DEF Told
<1>2. Kept(x1, x) /\ x1.pc = p /\ x1.answer = x.answer /\ x1.changed = x.changed
  BY SMT DEF Kept, Request
<1> HIDE DEF x1
<1>3. Kept(x2, x) /\ x2.pc = p /\ x2.answer = x.answer /\ x2.changed = x.changed
  BY <1>2, SMT DEF Kept, Request
<1> HIDE DEF x2
<1> QED BY <1>1, <1>3, SMT DEF Kept, Request

LEMMA BeatsFact ==
  ASSUME NEW x \in Request, NEW p \in PC, NEW w \in Nat, NEW c \in Code \cup {NoCode},
         NEW ch \in BOOLEAN
  PROVE  LET y == Beats(x, p, w, c, ch) IN
         Kept(y, x) /\ y.pc = p /\ y.answer = c /\ y.changed = ch
<1> SUFFICES ASSUME NEW y, y = Beats(x, p, w, c, ch)
             PROVE  Kept(y, x) /\ y.pc = p /\ y.answer = c /\ y.changed = ch
  OBVIOUS
<1> DEFINE x1 == [x EXCEPT !.pc = p]
           x2 == [x1 EXCEPT !.at = w]
           x3 == [x2 EXCEPT !.answer = c]
<1>1. y = [x3 EXCEPT !.changed = ch]
  BY DEF Beats
<1>2. Kept(x1, x) /\ x1.pc = p /\ x1.answer = x.answer /\ x1.changed = x.changed
  BY SMT DEF Kept, Request
<1> HIDE DEF x1
<1>3. Kept(x2, x) /\ x2.pc = p /\ x2.answer = x.answer /\ x2.changed = x.changed
  BY <1>2, SMT DEF Kept, Request
<1> HIDE DEF x2
<1>4. Kept(x3, x) /\ x3.pc = p /\ x3.answer = c /\ x3.changed = x.changed
  BY <1>3, SMT DEF Kept, Request
<1> HIDE DEF x3
<1> QED BY <1>1, <1>4, SMT DEF Kept, Request

LEMMA ResolvedFact ==
  ASSUME NEW x \in Request, NEW p \in PC, NEW v \in Callers \cup {Nobody}
  PROVE  LET y == Resolved(x, p, v) IN
         Kept(y, x) /\ y.pc = p /\ y.answer = x.answer /\ y.changed = x.changed
<1> SUFFICES ASSUME NEW y, y = Resolved(x, p, v)
             PROVE  Kept(y, x) /\ y.pc = p /\ y.answer = x.answer /\ y.changed = x.changed
  OBVIOUS
<1> DEFINE x1 == [x EXCEPT !.pc = p]
<1>1. y = [x1 EXCEPT !.by = v]
  BY DEF Resolved
<1>2. Kept(x1, x) /\ x1.pc = p /\ x1.answer = x.answer /\ x1.changed = x.changed
  BY SMT DEF Kept, Request
<1> HIDE DEF x1
<1> QED BY <1>1, <1>2, SMT DEF Kept, Request

-----------------------------------------------------------------------------
(* The steps of a request.                                                  *)

\* A step of one request, as the others see it.
Serves(r, y) ==
  /\ req' = [req EXCEPT ![r] = y]
  /\ y \in Request
  /\ RequestOK(y)'
  /\ y.answer = 204 =>
       \/ req[r].answer = 204 /\ y.target = req[r].target
       \/ agents[y.target].state # "deleted"
  /\ Grows
  /\ UNCHANGED clock

\* The other requests keep what they say, and no deletion is told twice.
LEMMA ServesKeeps ==
  ASSUME GatewayInv, NEW r \in Requests, NEW y, Serves(r, y)
  PROVE  GatewayInv'
<1>1. TypesOK'
  BY DEF GatewayInv, TypesOK, Serves, Grows
<1>2. req'[r] = y /\ \A q \in Requests : q # r => req'[q] = req[q]
  BY DEF Serves, GatewayInv, TypesOK
<1>3. ASSUME NEW q \in Requests PROVE RequestOK(req[q])'
  <2>1. CASE q = r
    BY <1>2, <2>1 DEF Serves
  <2>2. CASE q # r
    <3>1. req[q] \in Request /\ RequestOK(req[q]) /\ agents \in [Agents -> Row]
      BY DEF GatewayInv, TypesOK
    <3> DEFINE x == req[q]
    <3>2. x \in Request /\ RequestOK(x)
      BY <3>1
    <3> HIDE DEF x
    <3>3. HandlerOK(x)
      BY <3>2 DEF RequestOK
    <3> QED BY <1>2, <2>2, <3>1, GrowsKeeps DEF Serves
  <2> QED BY <2>1, <2>2
<1>4. DeletedOnce'
  <2> SUFFICES ASSUME NEW p \in Requests, NEW q \in Requests, p # q,
                      req'[p].answer = 204, req'[q].answer = 204,
                      req'[p].target = req'[q].target
               PROVE  FALSE
    BY DEF DeletedOnce
  <2>1. \A s \in Requests : req[s].answer = 204 => agents[req[s].target].state = "deleted"
    BY DEF GatewayInv, RequestOK, AnswerOK
  <2>2. DeletedOnce
    BY DEF GatewayInv
  <2>3. CASE p # r /\ q # r
    BY <1>2, <2>2, <2>3 DEF DeletedOnce
  <2>4. CASE p = r
    BY <1>2, <2>1, <2>2, <2>4 DEF DeletedOnce, Serves
  <2>5. CASE q = r
    BY <1>2, <2>1, <2>2, <2>5 DEF DeletedOnce, Serves
  <2> QED BY <2>3, <2>4, <2>5
<1> QED BY <1>1, <1>3, <1>4 DEF GatewayInv

\* The request agrees with the table after the step.
AgreesNext(y) == HandlerOK(y) /\ AnswerOK(y)'

\* A step of the chain, from wherever it is: its outcome has to agree with the
\* agents table, and the caller to have been let in.
Steps(r, y) ==
  /\ Kept(y, req[r]) /\ req' = [req EXCEPT ![r] = y]
  /\ Grows /\ UNCHANGED clock
  /\ AgreesNext(y)
  /\ y.answer = 204 => req[r].answer = 204 \/ agents[y.target].state # "deleted"
  /\ \/ req[r].pc \notin {"authenticate", "done"}
     \/ y.op = "register" \/ ~ y.revoked
     \/ y.pc \in {"authenticate", "done"} /\ y.changed = req[r].changed

\* A caller that was not let in stays out.
LEMMA StepKeeps ==
  ASSUME GatewayInv, NEW r \in Requests, NEW y, Steps(r, y)
  PROVE  GatewayInv'
<1>1. CallerOK(req[r])
  BY DEF GatewayInv, RequestOK
<1>2. \A a \in Agents : agents[a].state = "deleted" => agents'[a].state = "deleted"
  BY DEF Steps, Grows
<1>3. CallerOK(y)'
  BY <1>1, <1>2 DEF Steps, CallerOK, Kept
<1>4. HandlerOK(y)'
  BY DEF Steps, AgreesNext, HandlerOK
<1>5. Serves(r, y)
  BY <1>3, <1>4 DEF Steps, AgreesNext, Serves, Kept, RequestOK
<1> QED BY <1>5, ServesKeeps

\* What the lemmas below start from.
LEMMA RequestFacts ==
  ASSUME GatewayInv, NEW r \in Requests
  PROVE  /\ req[r] \in Request /\ HandlerOK(req[r]) /\ AnswerOK(req[r]) /\ CallerOK(req[r])
         /\ agents \in [Agents -> Row] /\ req \in [Requests -> Request]
  BY DEF GatewayInv, TypesOK, RequestOK

\* What the table says of an answer, it keeps saying while it grows.
LEMMA TableKept ==
  ASSUME agents \in [Agents -> Row], Grows, NEW x, AnswerOK(x)
  PROVE  /\ x.op \in OnAgent => Registered(x.target)'
         /\ x.answer \in {204, 404} =>
              x.op \in OnAgent /\ agents'[x.target].state = "deleted"
         /\ x.answer = 409 => Taken(x.target)'
<1>1. \A a \in Agents : Registered(a) => Registered(a)' /\ agents'[a].did = agents[a].did
  BY DEF Grows, Registered
<1>2. \A a \in Agents : agents[a].state = "deleted" => agents'[a].state = "deleted"
  BY DEF Grows
<1>3. ASSUME NEW d, Taken(d) PROVE Taken(d)'
  BY <1>1, <1>3 DEF Taken
<1>4. x.op \in OnAgent => x.target \in Agents /\ Registered(x.target)'
  BY <1>1 DEF AnswerOK, Registered
<1>5. x.answer \in {204, 404} => x.op \in OnAgent /\ agents'[x.target].state = "deleted"
  BY <1>2, <1>4 DEF AnswerOK
<1>6. x.answer = 409 => Taken(x.target)'
  BY <1>3 DEF AnswerOK
<1> QED BY <1>4, <1>5, <1>6

\* A step of the chain that neither answers nor changes the table's rows.
Proceeds(r, y) ==
  /\ Kept(y, req[r]) /\ req' = [req EXCEPT ![r] = y] /\ UNCHANGED <<agents, clock>>
  /\ y.answer = req[r].answer /\ y.changed = req[r].changed
  /\ HandlerOK(y)
  /\ y.pc \in Early => req[r].pc \in Early
  /\ y.pc = "announce" => req[r].pc = "announce"
  /\ \/ req[r].pc \notin {"authenticate", "done"}
     \/ y.op = "register" \/ ~ y.revoked
     \/ y.pc \in {"authenticate", "done"}

\* What the request says stays true of a table that stays.
LEMMA ProceedKeeps ==
  ASSUME GatewayInv, NEW r \in Requests, NEW y, Proceeds(r, y)
  PROVE  GatewayInv'
<1> SUFFICES ASSUME NEW x, x = req[r] PROVE GatewayInv'
  OBVIOUS
<1>1. AnswerOK(x) /\ agents \in [Agents -> Row]
  BY RequestFacts
<1>2. Grows
  BY <1>1, UnchangedGrows DEF Proceeds
<1>3. /\ x.op \in OnAgent => Registered(x.target)'
      /\ x.answer \in {204, 404} => x.op \in OnAgent /\ agents'[x.target].state = "deleted"
      /\ x.answer = 409 => Taken(x.target)'
  BY <1>1, <1>2, TableKept
<1>4. AnswerOK(y)'
  BY <1>1, <1>3 DEF AnswerOK, Kept, Proceeds
<1>5. AgreesNext(y)
  BY <1>4 DEF AgreesNext, Proceeds
<1>6. Steps(r, y)
  BY <1>2, <1>5, RequestFacts DEF Steps, AnswerOK, Proceeds
<1> QED BY <1>6, StepKeeps

\* A step that answers, or ends the request.
Finishes(r, y) ==
  /\ Kept(y, req[r]) /\ req' = [req EXCEPT ![r] = y]
  /\ Grows /\ UNCHANGED clock
  /\ req[r].pc # "new" /\ y.pc \in {"resolve", "done"}
  /\ y.answer \in {200, 201, 204} => y.changed \/ y.op \in {"list", "get", "query"}
  /\ y.answer \in {401, 404, 409, 429, 503} => ~ y.changed
  /\ y.answer \in {204, 404} => y.op \in OnAgent /\ agents'[y.target].state = "deleted"
  /\ y.answer = 409 => \E a \in Agents : agents'[a].state # "absent" /\ agents'[a].did = y.target
  /\ y.answer = 204 => req[r].answer = 204 \/ agents[y.target].state # "deleted"
  /\ \/ req[r].pc \notin {"authenticate", "done"}
     \/ y.pc = "done" /\ y.changed = req[r].changed

\* The answer is one that agrees with the table and the change.
LEMMA FinishKeeps ==
  ASSUME GatewayInv, NEW r \in Requests, NEW y, Finishes(r, y)
  PROVE  GatewayInv'
<1> SUFFICES ASSUME NEW x, x = req[r] PROVE GatewayInv'
  OBVIOUS
<1>1. x \in Request /\ HandlerOK(x) /\ AnswerOK(x) /\ agents \in [Agents -> Row]
  BY RequestFacts
<1>2. x.op \in OnAgent => Registered(x.target)'
  BY <1>1, TableKept DEF Finishes
<1>3. HandlerOK(y)
  BY <1>1 DEF HandlerOK, Kept, Finishes
<1>4. y.answer = 409 => Taken(y.target)'
  BY DEF Finishes, Taken, Registered
<1>5. AnswerOK(y)'
  BY <1>2, <1>4 DEF AnswerOK, Early, Kept, Finishes
<1>6. AgreesNext(y)
  BY <1>3, <1>5 DEF AgreesNext
<1>7. Steps(r, y)
  BY <1>6 DEF Steps, Finishes
<1> QED BY <1>7, StepKeeps

\* Abort, as one update of the request.
LEMMA AbortIs ==
  ASSUME req \in [Requests -> Request], NEW r \in Requests, NEW code, Abort(r, code)
  PROVE  req' = [req EXCEPT ![r] = Answered(req[r], "done", code)]
  BY DEF Abort, Answered

\* The middleware answers.
LEMMA AbortKeeps ==
  ASSUME GatewayInv, NEW r \in Requests, NEW code \in {401, 429, 503},
         req[r].pc \in {"authenticate", "incr"}, Abort(r, code), UNCHANGED <<agents, clock>>
  PROVE  GatewayInv'
<1>1. req[r] \in Request /\ AnswerOK(req[r])
      /\ agents \in [Agents -> Row] /\ req \in [Requests -> Request]
  BY RequestFacts
<1>2. PICK y : y = Answered(req[r], "done", code)
  OBVIOUS
<1>3. req' = [req EXCEPT ![r] = y]
  BY <1>1, <1>2, AbortIs
<1>4. Kept(y, req[r]) /\ y.pc = "done" /\ y.answer = code /\ y.changed = req[r].changed
  <2>1. "done" \in PC /\ code \in Code \cup {NoCode}
    BY DEF PC, Code
  <2> QED BY <1>1, <1>2, <2>1, AnsweredFact
<1>5. ~ req[r].changed
  BY <1>1 DEF AnswerOK, Early
<1>6. Grows
  BY <1>1, UnchangedGrows
<1>7. Finishes(r, y)
  BY <1>3, <1>4, <1>5, <1>6 DEF Finishes
<1> QED BY <1>7, FinishKeeps

\* Admit, as one update of the request.
LEMMA AdmitIs ==
  ASSUME req \in [Requests -> Request], NEW r \in Requests, NEW timely, Admit(r, timely)
  PROVE  req' = [req EXCEPT ![r] = Admitted(req[r], Handler(req[r].op), timely)]
  BY DEF Admit, Admitted

\* The limiter lets the request pass.
LEMMA AdmitKeeps ==
  ASSUME GatewayInv, NEW r \in Requests, NEW timely \in BOOLEAN,
         req[r].pc \in {"incr", "expire"}, Admit(r, timely), UNCHANGED <<agents, clock>>
  PROVE  GatewayInv'
<1> SUFFICES ASSUME NEW x, x = req[r], NEW p, p = Handler(x.op),
                    NEW y, y = Admitted(x, p, timely)
             PROVE  GatewayInv'
  OBVIOUS
<1>1. x \in Request /\ HandlerOK(x) /\ req \in [Requests -> Request]
  BY RequestFacts
<1>2. req' = [req EXCEPT ![r] = y]
  BY <1>1, AdmitIs
<1>3. x.op \in Ops
  BY <1>1 DEF HandlerOK, Request
<1>4. p \in PC \ {"new", "announce"} /\ (p = "insert" => x.op = "register")
      /\ (p \in {"read", "write"} => x.op = "update")
      /\ (p \in {"list", "get", "delete", "heartbeat", "query"} => x.op = p)
  BY <1>3, OpsAssumption DEF Handler, PC
<1>5. Kept(y, x) /\ y.pc = p /\ y.answer = x.answer /\ y.changed = x.changed
  BY <1>1, <1>4, AdmittedFact
<1>6. HandlerOK(y)
  BY <1>1, <1>3, <1>4, <1>5 DEF HandlerOK, Kept
<1>7. Proceeds(r, y)
  BY <1>2, <1>4, <1>5, <1>6 DEF Proceeds, Early
<1> QED BY <1>7, ProceedKeeps

\* An update of a function with a value of its codomain.
LEMMA UpdatedOnce ==
  ASSUME NEW R, NEW S, NEW f \in [R -> S], NEW r \in R, NEW x \in S,
         NEW g, g = [f EXCEPT ![r] = x]
  PROVE  g \in [R -> S] /\ g[r] = x
  OBVIOUS

\* The last of two updates of a function stands.
LEMMA UpdatedAgain ==
  ASSUME NEW R, NEW S, NEW f \in [R -> S], NEW r \in R, NEW x \in S, NEW y \in S,
         NEW g, g = [f EXCEPT ![r] = x]
  PROVE  [g EXCEPT ![r] = y] = [f EXCEPT ![r] = y]
  OBVIOUS

\* What a reply makes of the request.
LEMMA ReplyIs ==
  ASSUME req \in [Requests -> Request], NEW r \in Requests, NEW code \in Code,
         NEW ch \in BOOLEAN, Reply(r, code, ch)
  PROVE  \E y : /\ req' = [req EXCEPT ![r] = y] /\ Kept(y, req[r])
                /\ y.pc \in {"resolve", "done"} /\ y.answer = code
                /\ y.changed = (req[r].changed \/ ch)
<1>1. PICK v \in BOOLEAN : v = (req[r].changed \/ ch)
  OBVIOUS
<1>2. PICK p : p = IF Audited(req[r].op) THEN "resolve" ELSE "done"
  OBVIOUS
<1>3. PICK c, y : c = code /\ y = Replied(req[r], p, c, v)
  OBVIOUS
<1>4. /\ p \in PC /\ c \in Code \cup {NoCode} /\ req[r] \in Request
      /\ Kept(y, req[r]) /\ y.pc = p /\ y.answer = c /\ y.changed = v
  <2>1. p \in PC /\ c \in Code \cup {NoCode} /\ req[r] \in Request
    BY <1>2, <1>3 DEF PC
  <2> QED BY <1>3, <2>1, RepliedFact
<1>5. req' = [req EXCEPT ![r].pc = p, ![r].answer = c, ![r].changed = v]
  <2>1. req' = [req EXCEPT ![r].pc = p, ![r].answer = c, ![r].changed = req[r].changed \/ ch]
    BY <1>2, <1>3, Zenon DEF Reply
  <2> QED BY <1>1, <2>1, Zenon
<1>6. req' = [req EXCEPT ![r] = y]
  <2> PICK x : x = Answered(req[r], p, c)
    OBVIOUS
  <2>0. PICK g : g = [req EXCEPT ![r].pc = p, ![r].answer = c]
    OBVIOUS
  <2>1. x \in Request
    BY <1>4, AnsweredFact DEF Kept
  <2>2. g = [req EXCEPT ![r] = x]
    BY <2>0 DEF Answered
  <2>3. g \in [Requests -> Request] /\ g[r] = x
    BY <2>1, <2>2, UpdatedOnce
  <2>4. req' = [g EXCEPT ![r].changed = v]
    BY <1>5, <2>0, SMT
  <2>5. y = [x EXCEPT !.changed = v]
    BY <1>3, SMT DEF Replied, Answered
  <2>6. req' = [g EXCEPT ![r] = y]
    BY <2>3, <2>4, <2>5
  <2> QED BY <1>4, <2>1, <2>2, <2>6, UpdatedAgain DEF Kept
<1> QED BY <1>1, <1>2, <1>3, <1>4, <1>6, Zenon

\* What a handler may answer to a request that has changed the table or not.
MayReply(x, code, c) ==
  /\ code \in {200, 201, 204} => c \/ x.op \in {"list", "get", "query"}
  /\ code \in {401, 404, 409, 429, 503} => ~ c
  /\ code \in {204, 404} => x.op \in OnAgent /\ agents'[x.target].state = "deleted"
  /\ code = 409 => \E a \in Agents : agents'[a].state # "absent" /\ agents'[a].did = x.target
  /\ code = 204 => agents[x.target].state # "deleted"

\* A handler answers what it may.
LEMMA ReplyKeeps ==
  ASSUME GatewayInv, NEW r \in Requests, NEW code \in Code, NEW ch \in BOOLEAN,
         Reply(r, code, ch), MayReply(req[r], code, req[r].changed \/ ch),
         req[r].pc \in {"insert", "announce", "get", "read", "write", "delete"},
         Grows, UNCHANGED clock
  PROVE  GatewayInv'
<1>1. req \in [Requests -> Request]
  BY RequestFacts
<1>2. PICK y : /\ req' = [req EXCEPT ![r] = y] /\ Kept(y, req[r])
               /\ y.pc \in {"resolve", "done"} /\ y.answer = code
               /\ y.changed = (req[r].changed \/ ch)
  BY <1>1, ReplyIs
<1>3. MayReply(req[r], code, y.changed)
  BY <1>2, Zenon
<1>4. Finishes(r, y)
  BY <1>2, <1>3 DEF Finishes, Kept, MayReply
<1> QED BY <1>4, FinishKeeps

\* What the answer to a list or a query makes of the request.
LEMMA FoundIs ==
  ASSUME req \in [Requests -> Request], NEW r \in Requests, NEW o, NEW A \in SUBSET Agents,
         Found(r, o, A)
  PROVE  \E y : /\ req' = [req EXCEPT ![r] = y] /\ Kept(y, req[r])
                /\ y.pc \in {"resolve", "done"} /\ y.answer \in {200, 500}
                /\ y.changed = req[r].changed
<1>1. PICK c, v : c = (IF o = "ok" THEN 200 ELSE 500) /\ v = IF o = "ok" THEN A ELSE {}
  OBVIOUS
<1>2. PICK p : p = IF Audited(req[r].op) THEN "resolve" ELSE "done"
  OBVIOUS
<1>3. PICK y : y = Finds(req[r], p, c, v)
  OBVIOUS
<1>4. /\ p \in PC /\ c \in Code \cup {NoCode} /\ req[r] \in Request
      /\ Kept(y, req[r]) /\ y.pc = p /\ y.answer = c /\ y.changed = req[r].changed
  <2>1. p \in PC /\ c \in Code \cup {NoCode} /\ v \in SUBSET Agents /\ req[r] \in Request
    BY <1>1, <1>2 DEF PC, Code
  <2> QED BY <1>3, <2>1, FindsFact
<1>5. req' = [req EXCEPT ![r].pc = p, ![r].answer = c, ![r].found = v]
  BY <1>1, <1>2, Zenon DEF Found
<1>6. req' = [req EXCEPT ![r] = y]
  <2> PICK x : x = Answered(req[r], p, c)
    OBVIOUS
  <2>0. PICK g : g = [req EXCEPT ![r].pc = p, ![r].answer = c]
    OBVIOUS
  <2>1. x \in Request
    BY <1>4, AnsweredFact DEF Kept
  <2>2. g = [req EXCEPT ![r] = x]
    BY <2>0 DEF Answered
  <2>3. g \in [Requests -> Request] /\ g[r] = x
    BY <2>1, <2>2, UpdatedOnce
  <2>4. req' = [g EXCEPT ![r].found = v]
    BY <1>5, <2>0, SMT
  <2>5. y = [x EXCEPT !.found = v]
    BY <1>3, SMT DEF Finds, Answered
  <2>6. req' = [g EXCEPT ![r] = y]
    BY <2>3, <2>4, <2>5
  <2> QED BY <1>4, <2>1, <2>2, <2>6, UpdatedAgain DEF Kept
<1>7. p \in {"resolve", "done"} /\ c \in {200, 500}
  BY <1>1, <1>2
<1> QED BY <1>4, <1>6, <1>7, Zenon

\* A list or a query answers.
LEMMA FoundKeeps ==
  ASSUME GatewayInv, NEW r \in Requests, NEW o, NEW A \in SUBSET Agents, Found(r, o, A),
         req[r].pc \in {"list", "query"}, UNCHANGED <<agents, clock>>
  PROVE  GatewayInv'
<1>1. HandlerOK(req[r]) /\ agents \in [Agents -> Row] /\ req \in [Requests -> Request]
  BY RequestFacts
<1>2. PICK y : /\ req' = [req EXCEPT ![r] = y] /\ Kept(y, req[r])
               /\ y.pc \in {"resolve", "done"} /\ y.answer \in {200, 500}
               /\ y.changed = req[r].changed
  BY <1>1, FoundIs
<1>3. req[r].op \in {"list", "query"}
  BY <1>1 DEF HandlerOK
<1>4. Grows
  BY <1>1, UnchangedGrows
<1>5. Finishes(r, y)
  BY <1>2, <1>3, <1>4 DEF Finishes, Kept
<1> QED BY <1>5, FinishKeeps

-----------------------------------------------------------------------------
(* The actions.                                                             *)

\* A request that has arrived.
Fresh(p, k, op, c, t, rv) ==
  [NewRequest EXCEPT !.pc = p, !.answer = k, !.op = op, !.caller = c, !.target = t,
                     !.revoked = rv]

\* The fields that Arrive sets.
LEMMA FreshFact ==
  ASSUME NEW p \in PC, NEW k \in Code \cup {NoCode}, NEW op \in Ops, NEW c \in Callers,
         NEW t \in Target, NEW rv \in BOOLEAN
  PROVE  LET y == Fresh(p, k, op, c, t, rv) IN
         /\ y \in Request
         /\ y.pc = p /\ y.answer = k /\ y.op = op /\ y.caller = c /\ y.target = t
         /\ y.revoked = rv /\ ~ y.changed
<1> SUFFICES ASSUME NEW y, y = Fresh(p, k, op, c, t, rv)
             PROVE  /\ y \in Request
                    /\ y.pc = p /\ y.answer = k /\ y.op = op /\ y.caller = c /\ y.target = t
                    /\ y.revoked = rv /\ ~ y.changed
  OBVIOUS
<1>1. NewRequest \in Request /\ ~ NewRequest.changed
  BY DEF NewRequest, Request, PC, NoCode, Target
<1>2. PICK x : x = Answered(NewRequest, p, k)
  OBVIOUS
<1>3. x \in Request /\ x.pc = p /\ x.answer = k /\ ~ x.changed
  BY <1>1, <1>2, AnsweredFact DEF Kept
<1>4. PICK v : v = [x EXCEPT !.op = op]
  OBVIOUS
<1>5. v \in Request /\ v.pc = p /\ v.answer = k /\ ~ v.changed /\ v.op = op
  BY <1>3, <1>4, SMT DEF Request
<1>6. PICK z : z = [v EXCEPT !.caller = c]
  OBVIOUS
<1>7. z \in Request /\ z.pc = p /\ z.answer = k /\ ~ z.changed /\ z.op = op /\ z.caller = c
  BY <1>5, <1>6, SMT DEF Request
<1>8. PICK w : w = [z EXCEPT !.target = t]
  OBVIOUS
<1>9. w \in Request /\ w.pc = p /\ w.answer = k /\ ~ w.changed /\ w.op = op /\ w.caller = c
      /\ w.target = t
  BY <1>7, <1>8, SMT DEF Request
<1>10. y = [w EXCEPT !.revoked = rv]
  BY <1>2, <1>4, <1>6, <1>8, Zenon DEF Fresh, Answered
<1> QED BY <1>9, <1>10, SMT DEF Request

\* A registered agent that is not live has been deleted.
LEMMA GoneIs ==
  ASSUME agents \in [Agents -> Row], NEW a, Registered(a), ~ Live(a)
  PROVE  a \in Agents /\ agents[a].state = "deleted"
  BY DEF Registered, Live, Row

\* A token is looked at, and the request is one of its caller from now on.
LEMMA ArriveKeeps ==
  ASSUME GatewayInv, NEW r \in Requests, NEW op \in Ops, Arrive(r, op)
  PROVE  GatewayInv'
<1>1. agents \in [Agents -> Row] /\ req \in [Requests -> Request]
  BY RequestFacts
<1>2. PICK c \in Callers, t \in TargetsOf(op), token \in Token :
        req' = [req EXCEPT ![r] = [NewRequest EXCEPT
                 !.pc = IF ValidateToken(token) THEN "authenticate" ELSE "done",
                 !.answer = IF ValidateToken(token) THEN NoCode ELSE 401,
                 !.op = op, !.caller = c, !.target = t,
                 !.revoked = c \notin {a \in Agents : agents[a].state # "deleted"}]]
  BY DEF Arrive
<1>3. PICK p, k : /\ p = IF ValidateToken(token) THEN "authenticate" ELSE "done"
                  /\ k = IF ValidateToken(token) THEN NoCode ELSE 401
  OBVIOUS
<1>4. PICK rv \in BOOLEAN : rv = (c \notin {a \in Agents : agents[a].state # "deleted"})
  OBVIOUS
<1>5. PICK y : y = Fresh(p, k, op, c, t, rv)
  OBVIOUS
<1>6. req' = [req EXCEPT ![r] = y]
  <2>1. req' = [req EXCEPT ![r] = [NewRequest EXCEPT !.pc = p, !.answer = k, !.op = op,
                 !.caller = c, !.target = t,
                 !.revoked = c \notin {a \in Agents : agents[a].state # "deleted"}]]
    BY <1>2, <1>3, Zenon
  <2>2. req' = [req EXCEPT ![r] = [NewRequest EXCEPT !.pc = p, !.answer = k, !.op = op,
                 !.caller = c, !.target = t, !.revoked = rv]]
    BY <1>4, <2>1, Zenon
  <2> QED BY <1>5, <2>2, Zenon DEF Fresh
<1>7. /\ op \in Ops /\ op \in {"register", "list", "get", "update", "delete", "heartbeat", "query"}
      /\ t \in Target
      /\ op \in OnAgent => Registered(t)
      /\ op = "register" => t \in Dids
  BY OpsAssumption DEF TargetsOf, Target, OnAgent, Registered
<1>8. /\ p \in {"authenticate", "done"} /\ p \in PC
      /\ k \in {NoCode, 401} /\ k \in Code \cup {NoCode}
      /\ p = "authenticate" => k = NoCode
  BY <1>3 DEF PC, Code
<1>9. /\ y \in Request
      /\ y.pc = p /\ y.answer = k /\ y.op = op /\ y.caller = c /\ y.target = t
      /\ y.revoked = rv /\ ~ y.changed
  BY <1>5, <1>7, <1>8, FreshFact
<1>10. UNCHANGED <<agents, clock>>
  BY DEF Arrive
<1>11. HandlerOK(y)'
  BY <1>7, <1>8, <1>9 DEF HandlerOK
<1>12. AnswerOK(y)'
  BY <1>7, <1>8, <1>9, <1>10 DEF AnswerOK, Early, NoCode, Registered
<1>13. CallerOK(y)'
  <2>1. rv /\ c \in Agents => agents'[c].state = "deleted"
    BY <1>4, <1>10
  <2> QED BY <1>8, <1>9, <2>1 DEF CallerOK
<1>14. Grows
  BY <1>1, <1>10, UnchangedGrows
<1>15. Serves(r, y)
  BY <1>6, <1>8, <1>9, <1>10, <1>11, <1>12, <1>13, <1>14 DEF Serves, RequestOK, NoCode
<1> QED BY <1>15, ServesKeeps

\* The last step of Authenticate, as one update of the request.
LEMMA SlotIs ==
  ASSUME req \in [Requests -> Request], NEW r \in Requests, NEW s,
         req' = [req EXCEPT ![r].pc = "incr", ![r].slot = s]
  PROVE  req' = [req EXCEPT ![r] = Slotted(req[r], "incr", s)]
  BY DEF Slotted

\* A request of a deleted caller is turned away here, unless it registers.
LEMMA AuthenticateKeeps ==
  ASSUME GatewayInv, NEW r \in Requests, NEW o, Authenticate(r, o)
  PROVE  GatewayInv'
<1>1. /\ req[r] \in Request /\ HandlerOK(req[r]) /\ AnswerOK(req[r]) /\ CallerOK(req[r])
      /\ agents \in [Agents -> Row] /\ req \in [Requests -> Request]
  BY RequestFacts
<1>2. req[r].pc = "authenticate" /\ UNCHANGED <<agents, clock>>
  BY DEF Authenticate
<1>3. CASE Abort(r, 503) \/ Abort(r, 401)
  BY <1>2, <1>3, AbortKeeps
<1>4. CASE /\ req[r].op = "register" \/ AgentExists(req[r].caller)
           /\ req' = [req EXCEPT ![r].pc = "incr", ![r].slot = Slot]
  <2>1. PICK s : s = Slot
    OBVIOUS
  <2>2. s \in Nat
    BY <2>1, LimiterAssumption DEF GatewayInv, TypesOK, Slot
  <2>3. PICK y : y = Slotted(req[r], "incr", s)
    OBVIOUS
  <2>4. req' = [req EXCEPT ![r] = y]
    <3>1. req' = [req EXCEPT ![r].pc = "incr", ![r].slot = s]
      BY <1>4, <2>1, Zenon
    <3> QED BY <1>1, <2>3, <3>1, SlotIs
  <2>5. Kept(y, req[r]) /\ y.pc = "incr" /\ y.answer = req[r].answer
        /\ y.changed = req[r].changed
    BY <1>1, <2>2, <2>3, SlottedFact, PCs
  <2>6. y.op = "register" \/ ~ y.revoked
    BY <1>1, <1>4, <2>5 DEF CallerOK, AgentExists, Kept
  <2>7. HandlerOK(y)
    BY <1>1, <1>2, <2>5 DEF HandlerOK, Kept
  <2>8. Proceeds(r, y)
    BY <1>2, <2>4, <2>5, <2>6, <2>7 DEF Proceeds, Early
  <2> QED BY <2>8, ProceedKeeps
<1> QED BY <1>3, <1>4 DEF Authenticate

\* The first of a slot, as one update of the request.
LEMMA CountIs ==
  ASSUME req \in [Requests -> Request], NEW r \in Requests, NEW v,
         req' = [req EXCEPT ![r].pc = "expire", ![r].admitted = v]
  PROVE  req' = [req EXCEPT ![r] = Admitted(req[r], "expire", v)]
  BY DEF Admitted

\* The limiter answers 429 or passes the request on.
LEMMA IncrKeeps ==
  ASSUME GatewayInv, NEW r \in Requests, NEW o, Incr(r, o)
  PROVE  GatewayInv'
<1>1. /\ req[r] \in Request /\ HandlerOK(req[r])
      /\ agents \in [Agents -> Row] /\ req \in [Requests -> Request]
  BY RequestFacts
<1>2. req[r].pc = "incr" /\ UNCHANGED <<agents, clock>>
  BY DEF Incr
<1>3. PICK v \in BOOLEAN : v = (req[r].slot = Slot)
  OBVIOUS
<1>4. \/ Admit(r, v) \/ Abort(r, 429)
      \/ req' = [req EXCEPT ![r].pc = "expire", ![r].admitted = v]
  BY <1>3, Zenon DEF Incr
<1>5. CASE Admit(r, v)
  BY <1>2, <1>5, AdmitKeeps
<1>6. CASE Abort(r, 429)
  BY <1>2, <1>6, AbortKeeps
<1>7. CASE req' = [req EXCEPT ![r].pc = "expire", ![r].admitted = v]
  <2>1. PICK y : y = Admitted(req[r], "expire", v)
    OBVIOUS
  <2>2. req' = [req EXCEPT ![r] = y]
    BY <1>1, <1>7, <2>1, CountIs
  <2>3. Kept(y, req[r]) /\ y.pc = "expire" /\ y.answer = req[r].answer
        /\ y.changed = req[r].changed
    BY <1>1, <2>1, AdmittedFact, PCs
  <2>4. HandlerOK(y)
    BY <1>1, <1>2, <2>3 DEF HandlerOK, Kept
  <2>5. Proceeds(r, y)
    BY <1>2, <2>2, <2>3, <2>4 DEF Proceeds, Early
  <2> QED BY <2>5, ProceedKeeps
<1> QED BY <1>4, <1>5, <1>6, <1>7

\* EXPIRE passes the request on whatever it returns.
LEMMA ExpireKeeps ==
  ASSUME GatewayInv, NEW r \in Requests, NEW o, Expire(r, o)
  PROVE  GatewayInv'
<1>1. req[r].admitted \in BOOLEAN
  BY RequestFacts DEF Request
<1>2. req[r].pc = "expire" /\ Admit(r, req[r].admitted) /\ UNCHANGED <<agents, clock>>
  BY DEF Expire
<1> QED BY <1>1, <1>2, AdmitKeeps

\* A registration that succeeds, or is told of the conflict it met.
LEMMA InsertIs ==
  ASSUME req \in [Requests -> Request], NEW r \in Requests,
         req' = [req EXCEPT ![r].pc = "announce", ![r].changed = TRUE]
  PROVE  req' = [req EXCEPT ![r] = Registers(req[r], "announce", TRUE)]
  BY DEF Registers

\* The row of a registration is a new one.
LEMMA InsertGrows ==
  ASSUME IsFiniteSet(Agents), GatewayInv, NEW r \in Requests, NEW a \in Agents,
         NEW o \in Outcome, Insert(r, a, o)
  PROVE  Grows
<1>1. PICK d \in Dids : d = req[r].target
  BY RequestFacts DEF Insert, HandlerOK
<1>2. ~ Registered(a) \/ Taken(d)
  BY <1>1 DEF Insert
<1>3. CreateAgent(a, d, r, o)
  BY <1>1 DEF Insert
<1> QED BY <1>2, <1>3, RequestFacts, CreateGrows

\* A registration is made, or meets a conflict, or cannot tell.
LEMMA InsertKeeps ==
  ASSUME IsFiniteSet(Agents), GatewayInv, NEW r \in Requests, NEW a \in Agents,
         NEW o \in Outcome, Insert(r, a, o)
  PROVE  GatewayInv'
<1>1. /\ req[r] \in Request /\ HandlerOK(req[r]) /\ AnswerOK(req[r])
      /\ agents \in [Agents -> Row] /\ req \in [Requests -> Request]
  BY RequestFacts
<1>2. req[r].pc = "insert" /\ req[r].op = "register" /\ req[r].target \in Dids
  BY <1>1 DEF Insert, HandlerOK
<1>3. ~ req[r].changed /\ req[r].answer = NoCode
  BY <1>1, <1>2 DEF AnswerOK, Early
<1>4. PICK d \in Dids : d = req[r].target
  BY <1>2
<1>5. Grows
  BY InsertGrows
<1>6. UNCHANGED clock
  BY DEF Insert
<1>7. CASE req' = [req EXCEPT ![r].pc = "announce", ![r].changed = TRUE]
  <2>1. PICK y : y = Registers(req[r], "announce", TRUE)
    OBVIOUS
  <2>2. req' = [req EXCEPT ![r] = y]
    BY <1>1, <1>7, <2>1, InsertIs
  <2>3. Kept(y, req[r]) /\ y.pc = "announce" /\ y.answer = req[r].answer /\ y.changed = TRUE
    BY <1>1, <2>1, PCs, RegistersFact, Zenon
  <2>4. HandlerOK(y)
    BY <1>1, <1>2, <2>3 DEF HandlerOK, Kept
  <2>5. AnswerOK(y)'
    BY <1>2, <1>3, <2>3 DEF AnswerOK, Early, OnAgent, NoCode, Kept
  <2>6. Steps(r, y)
    BY <1>2, <1>3, <1>5, <1>6, <2>2, <2>3, <2>4, <2>5 DEF Steps, AgreesNext, NoCode
  <2> QED BY <2>6, StepKeeps
<1>8. CASE Taken(d) /\ Reply(r, 409, FALSE)
  <2>1. \E b \in Agents : agents'[b].state # "absent" /\ agents'[b].did = d
    BY <1>5, <1>8 DEF Grows, Taken, Registered
  <2>2. MayReply(req[r], 409, FALSE)
    BY <1>4, <2>1 DEF MayReply
  <2>3. MayReply(req[r], 409, req[r].changed \/ FALSE)
    BY <1>3, <2>2, Zenon
  <2>4. 409 \in Code /\ FALSE \in BOOLEAN /\ Reply(r, 409, FALSE)
        /\ req[r].pc \in {"insert", "announce", "get", "read", "write", "delete"}
    BY <1>2, <1>8 DEF Code
  <2> QED BY <1>5, <1>6, <2>3, <2>4, ReplyKeeps, Zenon
<1>9. ASSUME NEW ch \in BOOLEAN, Reply(r, 500, ch) PROVE GatewayInv'
  <2>1. MayReply(req[r], 500, req[r].changed \/ ch)
    BY DEF MayReply
  <2>2. 500 \in Code
        /\ req[r].pc \in {"insert", "announce", "get", "read", "write", "delete"}
    BY <1>2 DEF Code
  <2> QED BY <1>5, <1>6, <1>9, <2>1, <2>2, ReplyKeeps, Zenon
<1>10. \/ req' = [req EXCEPT ![r].pc = "announce", ![r].changed = TRUE]
       \/ Taken(d) /\ Reply(r, 409, FALSE)
       \/ \E ch \in BOOLEAN : Reply(r, 500, ch)
  <2>1. CodeOf("ErrAgentAlreadyExists", 201) = 409
    BY DEF CodeOf
  <2>2. PICK ch \in BOOLEAN : ch = (Took(o) /\ ~ Taken(req[r].target))
    OBVIOUS
  <2>3. \/ req' = [req EXCEPT ![r].pc = "announce", ![r].changed = TRUE]
        \/ Taken(req[r].target) /\ Reply(r, CodeOf("ErrAgentAlreadyExists", 201), FALSE)
        \/ Reply(r, 500, Took(o) /\ ~ Taken(req[r].target))
    BY Zenon DEF Insert
  <2>4. CASE Reply(r, 500, Took(o) /\ ~ Taken(req[r].target))
    <3>1. Reply(r, 500, ch)
      BY <2>2, <2>4, Zenon
    <3> QED BY <3>1
  <2> QED BY <1>4, <2>1, <2>3, <2>4, Zenon
<1> QED BY <1>7, <1>8, <1>9, <1>10

\* What the handlers on one agent answer.
LEMMA OneAgent ==
  ASSUME GatewayInv, NEW r \in Requests,
         req[r].pc \in {"get", "read", "write", "delete", "heartbeat"}
  PROVE  /\ req[r].op \in OnAgent /\ Registered(req[r].target) /\ req[r].target \in Agents
         /\ req[r].pc \in {"get", "delete", "heartbeat"} => req[r].op = req[r].pc
         /\ ~ req[r].changed /\ req[r].answer = NoCode
         /\ ~ Live(req[r].target) => agents[req[r].target].state = "deleted"
<1>1. /\ req[r] \in Request /\ HandlerOK(req[r]) /\ AnswerOK(req[r])
      /\ agents \in [Agents -> Row]
  BY RequestFacts
<1>2. /\ req[r].op \in OnAgent
      /\ req[r].pc \in {"get", "delete", "heartbeat"} => req[r].op = req[r].pc
  BY <1>1 DEF HandlerOK, OnAgent
<1>3. Registered(req[r].target) /\ ~ req[r].changed /\ req[r].answer = NoCode
  BY <1>1, <1>2 DEF AnswerOK, Early
<1> QED BY <1>1, <1>2, <1>3, GoneIs DEF Registered

\* The codes of a statement on one row.
LEMMA CodeIs ==
  ASSUME NEW o, NEW found \in BOOLEAN, NEW success
  PROVE  /\ o # "ok" => CodeOf(ErrorOf(o, found), success) = 500
         /\ o = "ok" /\ found => CodeOf(ErrorOf(o, found), success) = success
         /\ o = "ok" /\ ~ found => CodeOf(ErrorOf(o, found), success) = 404
<1>1. /\ CodeOf("error", success) = 500
      /\ CodeOf("nil", success) = success
      /\ CodeOf("ErrAgentNotFound", success) = 404
  BY DEF CodeOf
<1>2. /\ o # "ok" => ErrorOf(o, found) = "error"
      /\ o = "ok" /\ found => ErrorOf(o, found) = "nil"
      /\ o = "ok" /\ ~ found => ErrorOf(o, found) = "ErrAgentNotFound"
  BY DEF ErrorOf
<1> QED BY <1>1, <1>2

\* What follows the registration decides the answer, not the change.
LEMMA AnnounceKeeps ==
  ASSUME GatewayInv, NEW r \in Requests, NEW o, Announce(r, o)
  PROVE  GatewayInv'
<1>1. req[r].pc = "announce" /\ UNCHANGED <<agents, clock>>
  BY DEF Announce
<1>2. req[r].changed /\ Grows
  BY <1>1, RequestFacts, UnchangedGrows DEF AnswerOK
<1>3. PICK code : code \in {201, 500} /\ Reply(r, code, FALSE)
  BY DEF Announce
<1>4. PICK ch \in BOOLEAN : ch = FALSE
  OBVIOUS
<1>5. Reply(r, code, ch) /\ code \in Code
  BY <1>3, <1>4, Zenon DEF Code
<1>6. MayReply(req[r], code, TRUE)
  BY <1>3 DEF MayReply
<1>7. MayReply(req[r], code, req[r].changed \/ ch)
  BY <1>2, <1>6, Zenon
<1> QED BY <1>1, <1>2, <1>5, <1>7, ReplyKeeps

\* A list changes nothing.
LEMMA ListKeeps ==
  ASSUME GatewayInv, NEW r \in Requests, NEW o, List(r, o)
  PROVE  GatewayInv'
<1>1. LiveAgents \in SUBSET Agents
  BY DEF LiveAgents
<1>2. req[r].pc = "list" /\ Found(r, o, LiveAgents) /\ UNCHANGED <<agents, clock>>
  BY DEF List
<1> QED BY <1>1, <1>2, FoundKeeps

\* A query changes nothing.
LEMMA QueryKeeps ==
  ASSUME GatewayInv, NEW r \in Requests, NEW o, Query(r, o)
  PROVE  GatewayInv'
<1>1. {a \in Newest : Capable(r, a)} \in SUBSET Agents
  BY DEF Newest, LiveAgents
<1>2. req[r].pc = "query" /\ Found(r, o, {a \in Newest : Capable(r, a)})
      /\ UNCHANGED <<agents, clock>>
  BY DEF Query
<1> QED BY <1>1, <1>2, FoundKeeps

\* The answer of a handler on one agent that has not changed it.
LEMMA UnchangedReply ==
  ASSUME GatewayInv, NEW r \in Requests, req[r].pc \in {"get", "read", "write", "delete"},
         NEW code \in {404, 500}, code = 404 => ~ Live(req[r].target),
         Reply(r, code, FALSE), UNCHANGED <<agents, clock>>
  PROVE  GatewayInv'
<1>1. /\ req[r].op \in OnAgent /\ ~ req[r].changed
      /\ code = 404 => agents[req[r].target].state = "deleted"
  BY OneAgent
<1>2. Grows
  BY RequestFacts, UnchangedGrows
<1>3. MayReply(req[r], code, FALSE)
  BY <1>1 DEF MayReply
<1>4. PICK ch \in BOOLEAN : ch = FALSE
  OBVIOUS
<1>5. Reply(r, code, ch)
  BY <1>4, Zenon
<1>6. MayReply(req[r], code, req[r].changed \/ ch)
  BY <1>1, <1>3, <1>4, Zenon
<1>7. code \in Code
  BY DEF Code
<1> QED BY <1>2, <1>5, <1>6, <1>7, ReplyKeeps

\* A get is told "not found" of a deleted agent only.
LEMMA GetKeeps ==
  ASSUME GatewayInv, NEW r \in Requests, NEW o, Get(r, o)
  PROVE  GatewayInv'
<1>1. req[r].pc = "get" /\ UNCHANGED <<agents, clock>>
  BY DEF Get
<1>2. PICK code : code = CodeOf(ErrorOf(o, Live(req[r].target)), 200)
  OBVIOUS
<1>3. Reply(r, code, FALSE)
  BY <1>2, Zenon DEF Get
<1>4. PICK live \in BOOLEAN : live = Live(req[r].target)
  BY Zenon DEF Live
<1>5. code = CodeOf(ErrorOf(o, live), 200)
  BY <1>2, <1>4, Zenon
<1>6. code \in {200, 404, 500} /\ (code = 404 => ~ live)
  BY <1>5, CodeIs
<1>7. CASE code \in {404, 500}
  <2>1. code = 404 => ~ Live(req[r].target)
    BY <1>4, <1>6, Zenon
  <2> QED BY <1>1, <1>3, <1>7, <2>1, UnchangedReply
<1>8. CASE code = 200
  <2>1. req[r].op = "get" /\ Grows
    BY <1>1, OneAgent, RequestFacts, UnchangedGrows
  <2>2. PICK ch \in BOOLEAN : ch = FALSE
    OBVIOUS
  <2>3. Reply(r, code, ch)
    BY <1>3, <2>2, Zenon
  <2>4. MayReply(req[r], code, req[r].changed \/ ch)
    BY <1>8, <2>1 DEF MayReply
  <2>5. code \in Code /\ req[r].pc \in {"insert", "announce", "get", "read", "write", "delete"}
        /\ UNCHANGED clock
    BY <1>1, <1>8, <2>1 DEF Code
  <2> QED BY <2>1, <2>3, <2>4, <2>5, ReplyKeeps, Zenon
<1> QED BY <1>6, <1>7, <1>8

\* A handler on one agent answers after its statement: it was the success of
\* this request, or the agent was deleted before.
LEMMA RowReply ==
  ASSUME GatewayInv, NEW r \in Requests, req[r].pc \in {"write", "delete"}, NEW o \in Outcome,
         NEW a, a = req[r].target, NEW success \in {200, 204},
         success = 204 /\ o = "ok" /\ Live(a) => agents'[a].state = "deleted",
         Reply(r, CodeOf(ErrorOf(o, Live(a)), success), Took(o) /\ Live(a)),
         Grows, UNCHANGED clock
  PROVE  GatewayInv'
<1>1. PICK live, ch, code : /\ live \in BOOLEAN /\ live = Live(a)
                            /\ ch \in BOOLEAN /\ ch = (Took(o) /\ live)
                            /\ code = CodeOf(ErrorOf(o, live), success)
  BY Zenon DEF Live
<1>2. Reply(r, code, ch)
  BY <1>1, Zenon
<1>3. /\ code \in {200, 204, 404, 500}
      /\ code \in {200, 204} => code = success /\ o = "ok" /\ live
      /\ code = 404 => o = "ok" /\ ~ live
  BY <1>1, CodeIs
<1>4. /\ code \in {200, 204} => ch
      /\ code = 404 => ~ ch
  BY <1>1, <1>3 DEF Took
<1>5. /\ a \in Agents /\ req[r].op \in OnAgent /\ ~ req[r].changed
      /\ ~ live => agents[a].state = "deleted"
  BY <1>1, OneAgent
<1>6. ~ live => agents'[a].state = "deleted"
  BY <1>5 DEF Grows
<1>7. live => agents[a].state # "deleted"
  BY <1>1 DEF Live
<1>8. code = 204 => agents'[a].state = "deleted"
  BY <1>1, <1>3
<1>9. MayReply(req[r], code, ch)
  BY <1>3, <1>4, <1>5, <1>6, <1>7, <1>8 DEF MayReply
<1>10. MayReply(req[r], code, req[r].changed \/ ch)
  BY <1>1, <1>5, <1>9, Zenon
<1>11. code \in Code /\ ch \in BOOLEAN
  BY <1>1, <1>3 DEF Code
<1> QED BY <1>2, <1>10, <1>11, ReplyKeeps

\* The second statement of an update.
LEMMA WriteGrows ==
  ASSUME GatewayInv, NEW r \in Requests, NEW o \in Outcome, Write(r, o)
  PROVE  Grows
<1>1. PICK a, b : a = req[r].target /\ b = req[r].beat
  OBVIOUS
<1>2. req[r].pc = "write" /\ UpdateAgent(a, r, b, o)
  BY <1>1, Zenon DEF Write
<1>3. a \in Agents /\ b \in Nat /\ agents \in [Agents -> Row]
  BY <1>1, <1>2, OneAgent, RequestFacts DEF Request
<1> QED BY <1>2, <1>3, UpdateGrows

\* An update is confirmed if its row was live when it was written.
LEMMA WriteKeeps ==
  ASSUME GatewayInv, NEW r \in Requests, NEW o \in Outcome, Write(r, o)
  PROVE  GatewayInv'
<1>1. PICK a : a = req[r].target
  OBVIOUS
<1>2. /\ req[r].pc = "write" /\ UNCHANGED clock
      /\ Reply(r, CodeOf(ErrorOf(o, Live(a)), 200), Took(o) /\ Live(a))
  BY <1>1, Zenon DEF Write
<1>3. Grows
  BY WriteGrows
<1> QED BY <1>1, <1>2, <1>3, RowReply

\* The statement of a deletion.
LEMMA DeletionGrows ==
  ASSUME GatewayInv, NEW r \in Requests, NEW o \in Outcome, Delete(r, o)
  PROVE  Grows
<1>1. PICK a : a = req[r].target
  OBVIOUS
<1>2. req[r].pc = "delete" /\ DeleteAgent(a, o)
  BY <1>1, Zenon DEF Delete
<1>3. a \in Agents /\ agents \in [Agents -> Row]
  BY <1>1, <1>2, OneAgent, RequestFacts
<1> QED BY <1>2, <1>3, DeleteGrows

\* A deletion is confirmed if it was the one.
LEMMA DeleteKeeps ==
  ASSUME GatewayInv, NEW r \in Requests, NEW o \in Outcome, Delete(r, o)
  PROVE  GatewayInv'
<1>1. PICK a : a = req[r].target
  OBVIOUS
<1>2. /\ req[r].pc = "delete" /\ UNCHANGED clock /\ DeleteAgent(a, o)
      /\ Reply(r, CodeOf(ErrorOf(o, Live(a)), 204), Took(o) /\ Live(a))
  BY <1>1, Zenon DEF Delete
<1>3. a \in Agents /\ agents \in [Agents -> Row]
  BY <1>1, <1>2, OneAgent, RequestFacts
<1>4. Grows
  BY DeletionGrows
<1>5. o = "ok" /\ Live(a) => agents'[a].state = "deleted"
  <2>1. SUFFICES ASSUME o = "ok", Live(a) PROVE agents'[a].state = "deleted"
    OBVIOUS
  <2>2. agents' = [agents EXCEPT ![a].state = "deleted"]
    BY <1>2, <2>1 DEF DeleteAgent, Took
  <2> QED BY <1>3, <2>2 DEF Row
<1> QED BY <1>1, <1>2, <1>4, <1>5, RowReply

\* An update goes on with the heartbeat it has read.
LEMMA ReadIs ==
  ASSUME req \in [Requests -> Request], NEW r \in Requests, NEW b \in Nat,
         req' = [req EXCEPT ![r].pc = "write", ![r].beat = b, ![r].at = b]
  PROVE  \E y : /\ req' = [req EXCEPT ![r] = y] /\ Kept(y, req[r]) /\ y.pc = "write"
                /\ y.answer = req[r].answer /\ y.changed = req[r].changed
<1>1. PICK y : y = HasRead(req[r], "write", b, b)
  OBVIOUS
<1>2. /\ Kept(y, req[r]) /\ y.pc = "write" /\ y.answer = req[r].answer
      /\ y.changed = req[r].changed
  BY <1>1, HasReadFact, PCs
<1>3. PICK x : x = WithBeat(req[r], "write", b)
  OBVIOUS
<1>4. PICK g : g = [req EXCEPT ![r].pc = "write", ![r].beat = b]
  OBVIOUS
<1>5. x \in Request
  BY <1>3, WithBeatFact DEF Kept, PC
<1>6. g = [req EXCEPT ![r] = x]
  BY <1>3, <1>4 DEF WithBeat
<1>7. g \in [Requests -> Request] /\ g[r] = x
  BY <1>5, <1>6, UpdatedOnce
<1>8. req' = [g EXCEPT ![r].at = b]
  BY <1>4, SMT
<1>9. y = [x EXCEPT !.at = b]
  BY <1>1, <1>3, SMT DEF HasRead, WithBeat
<1>10. req' = [g EXCEPT ![r] = y]
  BY <1>7, <1>8, <1>9
<1>11. req' = [req EXCEPT ![r] = y]
  BY <1>2, <1>5, <1>6, <1>10, UpdatedAgain DEF Kept
<1> QED BY <1>2, <1>11, Zenon

\* The first statement of an update.
LEMMA ReadKeeps ==
  ASSUME GatewayInv, NEW r \in Requests, NEW o, Read(r, o)
  PROVE  GatewayInv'
<1>1. PICK a : a = req[r].target
  OBVIOUS
<1>2. /\ req[r].pc = "read" /\ UNCHANGED <<agents, clock>>
      /\ \/ req' = [req EXCEPT ![r].pc = "write", ![r].beat = agents[a].beat,
                               ![r].at = agents[a].beat]
         \/ ~ (o = "ok" /\ Live(a)) /\ Reply(r, CodeOf(ErrorOf(o, FALSE), 200), FALSE)
  BY <1>1, Zenon DEF Read
<1>3. /\ req[r] \in Request /\ HandlerOK(req[r]) /\ AnswerOK(req[r])
      /\ agents \in [Agents -> Row] /\ req \in [Requests -> Request]
  BY RequestFacts
<1>4. a \in Agents
  BY <1>1, <1>2, OneAgent
<1>5. CASE req' = [req EXCEPT ![r].pc = "write", ![r].beat = agents[a].beat,
                              ![r].at = agents[a].beat]
  <2>1. PICK b \in Nat : b = agents[a].beat
    BY <1>3, <1>4 DEF Row
  <2>2. req' = [req EXCEPT ![r].pc = "write", ![r].beat = b, ![r].at = b]
    BY <1>5, <2>1, Zenon
  <2>3. PICK y : /\ req' = [req EXCEPT ![r] = y] /\ Kept(y, req[r]) /\ y.pc = "write"
                 /\ y.answer = req[r].answer /\ y.changed = req[r].changed
    BY <1>3, <2>2, ReadIs
  <2>4. HandlerOK(y)
    BY <1>2, <1>3, <2>3 DEF HandlerOK, Kept
  <2>5. Proceeds(r, y)
    BY <1>2, <2>3, <2>4 DEF Proceeds, Early
  <2> QED BY <2>5, ProceedKeeps
<1>6. CASE ~ (o = "ok" /\ Live(a)) /\ Reply(r, CodeOf(ErrorOf(o, FALSE), 200), FALSE)
  <2>1. PICK code, found : found \in BOOLEAN /\ ~ found /\ code = CodeOf(ErrorOf(o, found), 200)
    OBVIOUS
  <2>2. code \in {404, 500}
    BY <2>1, CodeIs
  <2>3. Reply(r, code, FALSE)
    BY <1>6, <2>1, Zenon
  <2>4. code = 404 => ~ Live(req[r].target)
    <3>1. code = 404 => o = "ok"
      BY <2>1, CodeIs
    <3> QED BY <1>1, <1>6, <3>1, Zenon
  <2>5. req[r].pc = "read" /\ UNCHANGED <<agents, clock>>
    BY <1>2
  <2> QED BY <2>2, <2>3, <2>4, <2>5, UnchangedReply, Zenon
<1> QED BY <1>2, <1>5, <1>6

\* The answer to a heartbeat.
Answers(r, now, code, ch) ==
  req' = [req EXCEPT ![r].pc = "resolve", ![r].at = now, ![r].answer = code,
                     ![r].changed = ch]

\* The answer to a heartbeat, as one update of the request.
LEMMA BeatIs ==
  ASSUME req \in [Requests -> Request], NEW r \in Requests, NEW now \in Nat,
         NEW code \in Code, NEW ch \in BOOLEAN, Answers(r, now, code, ch)
  PROVE  \E y : /\ req' = [req EXCEPT ![r] = y] /\ Kept(y, req[r]) /\ y.pc = "resolve"
                /\ y.answer = code /\ y.changed = ch
<1>1. code \in Code \cup {NoCode} /\ "resolve" \in PC
  BY DEF PC
<1>2. PICK x : x = Marked(req[r], "resolve", now)
  OBVIOUS
<1>3. PICK z : z = Told(req[r], "resolve", now, code)
  OBVIOUS
<1>4. PICK y : y = Beats(req[r], "resolve", now, code, ch)
  OBVIOUS
<1>5. /\ x \in Request /\ z \in Request
      /\ Kept(y, req[r]) /\ y.pc = "resolve" /\ y.answer = code /\ y.changed = ch
  BY <1>1, <1>2, <1>3, <1>4, MarkedFact, ToldFact, BeatsFact DEF Kept
<1>6. PICK g : g = [req EXCEPT ![r].pc = "resolve", ![r].at = now]
  OBVIOUS
<1>7. PICK h : h = [g EXCEPT ![r].answer = code]
  OBVIOUS
<1>8. g = [req EXCEPT ![r] = x]
  BY <1>2, <1>6 DEF Marked
<1>9. g \in [Requests -> Request] /\ g[r] = x
  BY <1>5, <1>8, UpdatedOnce
<1>10. z = [x EXCEPT !.answer = code]
  BY <1>2, <1>3, SMT DEF Marked, Told
<1>11. h = [g EXCEPT ![r] = z]
  BY <1>7, <1>9, <1>10
<1>12. h = [req EXCEPT ![r] = z]
  BY <1>5, <1>8, <1>11, UpdatedAgain
<1>13. h \in [Requests -> Request] /\ h[r] = z
  BY <1>5, <1>12, UpdatedOnce
<1>14. req' = [h EXCEPT ![r].changed = ch]
  BY <1>6, <1>7, SMT DEF Answers
<1>15. y = [z EXCEPT !.changed = ch]
  BY <1>3, <1>4, SMT DEF Told, Beats
<1>16. req' = [h EXCEPT ![r] = y]
  BY <1>13, <1>14, <1>15
<1>17. req' = [req EXCEPT ![r] = y]
  BY <1>5, <1>12, <1>16, UpdatedAgain DEF Kept
<1> QED BY <1>5, <1>17, Zenon

\* The statement of a heartbeat.
LEMMA HeartbeatGrows ==
  ASSUME GatewayInv, NEW r \in Requests, NEW o \in Outcome, Heartbeat(r, o)
  PROVE  Grows
<1>1. PICK a, now : a = req[r].target /\ now = clock
  OBVIOUS
<1>2. req[r].pc = "heartbeat" /\ BeatAgent(a, now, o)
  BY <1>1, Zenon DEF Heartbeat
<1>3. a \in Agents /\ now \in Nat /\ agents \in [Agents -> Row]
  BY <1>1, <1>2, OneAgent, RequestFacts DEF GatewayInv, TypesOK
<1> QED BY <1>2, <1>3, BeatGrows

\* A heartbeat is confirmed if its row was live.
LEMMA HeartbeatKeeps ==
  ASSUME GatewayInv, NEW r \in Requests, NEW o \in Outcome, Heartbeat(r, o)
  PROVE  GatewayInv'
<1>1. PICK a : a = req[r].target
  OBVIOUS
<1>2. PICK live, ch, code : /\ live \in BOOLEAN /\ live = Live(a)
                            /\ ch \in BOOLEAN /\ ch = (Took(o) /\ live)
                            /\ code = CodeOf(ErrorOf(o, live), 200)
  BY Zenon DEF Live
<1>3. PICK now : now = clock
  OBVIOUS
<1>4. /\ agents \in [Agents -> Row] /\ req \in [Requests -> Request] /\ now \in Nat
      /\ req[r].pc = "heartbeat" /\ UNCHANGED clock
  BY <1>3 DEF GatewayInv, TypesOK, Heartbeat
<1>5. /\ a \in Agents /\ req[r].op \in OnAgent
      /\ ~ live => agents[a].state = "deleted"
  BY <1>1, <1>2, <1>4, OneAgent
<1>6. Grows
  BY HeartbeatGrows
<1>7. /\ code \in {200, 404, 500}
      /\ code = 200 => o = "ok" /\ live
      /\ code = 404 => o = "ok" /\ ~ live
  BY <1>2, CodeIs
<1>8. (code = 200 => ch) /\ (code = 404 => ~ ch /\ agents'[a].state = "deleted")
  BY <1>2, <1>5, <1>6, <1>7 DEF Took, Grows
<1>9. code \in Code /\ ch \in BOOLEAN
  BY <1>2, <1>7 DEF Code
<1>10. PICK y : /\ req' = [req EXCEPT ![r] = y] /\ Kept(y, req[r]) /\ y.pc = "resolve"
                /\ y.answer = code /\ y.changed = ch
  <2>1. Answers(r, now, code, ch)
    BY <1>1, <1>2, <1>3, Zenon DEF Heartbeat, Answers
  <2> QED BY <1>4, <1>9, <2>1, BeatIs
<1>11. Finishes(r, y)
  BY <1>1, <1>4, <1>5, <1>6, <1>7, <1>8, <1>10 DEF Finishes, Kept
<1> QED BY <1>11, FinishKeeps

\* AuditLog looks the caller up.
LEMMA ResolveIs ==
  ASSUME req \in [Requests -> Request], NEW r \in Requests, NEW v,
         req' = [req EXCEPT ![r].pc = "record", ![r].by = v]
  PROVE  req' = [req EXCEPT ![r] = Resolved(req[r], "record", v)]
  BY DEF Resolved

\* The lookup of the caller for the audit log.
LEMMA ResolveKeeps ==
  ASSUME GatewayInv, NEW r \in Requests, NEW o, Resolve(r, o)
  PROVE  GatewayInv'
<1>1. /\ req[r] \in Request /\ HandlerOK(req[r]) /\ req \in [Requests -> Request]
  BY RequestFacts
<1>2. PICK v : v = IF o = "ok" /\ AgentExists(req[r].caller) THEN req[r].caller ELSE Nobody
  OBVIOUS
<1>3. /\ req[r].pc = "resolve" /\ UNCHANGED <<agents, clock>>
      /\ req' = [req EXCEPT ![r].pc = "record", ![r].by = v]
  BY <1>2, Zenon DEF Resolve
<1>4. v \in Callers \cup {Nobody}
  BY <1>1, <1>2 DEF Request
<1>5. PICK y : y = Resolved(req[r], "record", v)
  OBVIOUS
<1>6. req' = [req EXCEPT ![r] = y]
  BY <1>1, <1>3, <1>5, ResolveIs
<1>7. Kept(y, req[r]) /\ y.pc = "record" /\ y.answer = req[r].answer
      /\ y.changed = req[r].changed
  BY <1>1, <1>4, <1>5, ResolvedFact, PCs
<1>8. HandlerOK(y)
  BY <1>1, <1>3, <1>7 DEF HandlerOK, Kept
<1>9. Proceeds(r, y)
  BY <1>3, <1>6, <1>7, <1>8 DEF Proceeds, Early
<1> QED BY <1>9, ProceedKeeps

\* The request ends: its row is recorded, or the gateway died.
LEMMA EndKeeps ==
  ASSUME GatewayInv, NEW r \in Requests, req[r].pc # "new",
         req' = [req EXCEPT ![r].pc = "done"], UNCHANGED <<agents, clock>>
  PROVE  GatewayInv'
<1>1. /\ req[r] \in Request /\ HandlerOK(req[r]) /\ req \in [Requests -> Request]
  BY RequestFacts
<1>2. PICK y : y = Moved(req[r], "done")
  OBVIOUS
<1>3. req' = [req EXCEPT ![r] = y]
  BY <1>1, <1>2 DEF Moved
<1>4. Kept(y, req[r]) /\ y.pc = "done" /\ y.answer = req[r].answer
      /\ y.changed = req[r].changed
  BY <1>1, <1>2, MovedFact, PCs
<1>5. HandlerOK(y)
  BY <1>1, <1>4 DEF HandlerOK, Kept
<1>6. Proceeds(r, y)
  BY <1>3, <1>4, <1>5 DEF Proceeds, Early
<1> QED BY <1>6, ProceedKeeps

\* A client that disconnects changes nothing but its request's context.
LEMMA DisconnectKeeps ==
  ASSUME GatewayInv, NEW r \in Requests, Disconnect(r)
  PROVE  GatewayInv'
<1>1. /\ req[r] \in Request /\ HandlerOK(req[r]) /\ req \in [Requests -> Request]
  BY RequestFacts
<1>2. /\ req[r].pc \notin {"new", "done"} /\ UNCHANGED agents
      /\ req' = [req EXCEPT ![r].live = FALSE] /\ UNCHANGED clock
  BY DEF Disconnect, UnderWay
<1>3. PICK y : y = Cut(req[r], FALSE)
  OBVIOUS
<1>4. req' = [req EXCEPT ![r] = y]
  BY <1>1, <1>2, <1>3 DEF Cut
<1>5. Kept(y, req[r]) /\ y.pc = req[r].pc /\ y.answer = req[r].answer
      /\ y.changed = req[r].changed
  BY <1>1, <1>3, CutFact
<1>6. HandlerOK(y)
  BY <1>1, <1>5 DEF HandlerOK, Kept
<1>7. Proceeds(r, y)
  BY <1>2, <1>4, <1>5, <1>6 DEF Proceeds
<1> QED BY <1>7, ProceedKeeps

-----------------------------------------------------------------------------
(* The specification.                                                       *)

\* Before anything has arrived.
LEMMA GatewayInitInv ==
  ASSUME GatewayInit
  PROVE  GatewayInv
<1>1. agents \in [Agents -> Row]
  <2> SUFFICES ASSUME NEW a \in Agents
               PROVE  (IF a \in Founders THEN [NoRow EXCEPT !.state = "live", !.did = DidOf[a]]
                                         ELSE NoRow) \in Row
    BY DEF GatewayInit, RegistryInit
  <2>1. NoRow \in Row
    BY DEF NoRow, Row
  <2>2. a \in Founders => [NoRow EXCEPT !.state = "live", !.did = DidOf[a]] \in Row
    BY RegistryAssumption DEF NoRow, Row
  <2> QED BY <2>1, <2>2
<1>2. \A r \in Requests : req[r] = NewRequest
  BY DEF GatewayInit
<1>3. NewRequest \in Request
  BY DEF NewRequest, Request, PC, NoCode, Target
<1>4. TypesOK
  BY <1>1, <1>3 DEF TypesOK, GatewayInit, LimiterInit
<1>5. RequestOK(NewRequest)
  BY DEF RequestOK, HandlerOK, AnswerOK, CallerOK, NewRequest, OnAgent, NoCode
<1>6. \A r \in Requests : RequestOK(req[r])
  BY <1>2, <1>5
<1>7. DeletedOnce
  <2>1. NewRequest.answer = 0
    BY DEF NewRequest, NoCode
  <2> QED BY <1>2, <2>1 DEF DeletedOnce
<1> QED BY <1>4, <1>6, <1>7 DEF GatewayInv

\* A step of the gateway, a tick or a step that leaves everything.
LEMMA ServeKeeps ==
  ASSUME IsFiniteSet(Agents), GatewayInv, NEW r \in Requests, NEW o \in Outcome, Serve(r, o)
  PROVE  GatewayInv'
<1>1. CASE Authenticate(r, o)
  BY <1>1, AuthenticateKeeps
<1>2. CASE Incr(r, o)
  BY <1>2, IncrKeeps
<1>3. CASE Expire(r, o)
  BY <1>3, ExpireKeeps
<1>4. CASE \E a \in Agents : Insert(r, a, o)
  BY <1>4, InsertKeeps
<1>5. CASE Announce(r, o)
  BY <1>5, AnnounceKeeps
<1>6. CASE List(r, o)
  BY <1>6, ListKeeps
<1>7. CASE Get(r, o)
  BY <1>7, GetKeeps
<1>8. CASE Query(r, o)
  BY <1>8, QueryKeeps
<1>9. CASE Read(r, o)
  BY <1>9, ReadKeeps
<1>10. CASE Write(r, o)
  BY <1>10, WriteKeeps
<1>11. CASE Delete(r, o)
  BY <1>11, DeleteKeeps
<1>12. CASE Heartbeat(r, o)
  BY <1>12, HeartbeatKeeps
<1>13. CASE Resolve(r, o)
  BY <1>13, ResolveKeeps
<1>14. CASE Record(r, o)
  <2>1. req[r].pc # "new" /\ req' = [req EXCEPT ![r].pc = "done"] /\ UNCHANGED <<agents, clock>>
    BY <1>14 DEF Record
  <2> QED BY <2>1, EndKeeps
<1> QED BY <1>1, <1>2, <1>3, <1>4, <1>5, <1>6, <1>7, <1>8, <1>9, <1>10, <1>11, <1>12, <1>13,
           <1>14, Zenon DEF Serve

\* What does not touch the table or a request.
LEMMA ClockKeeps ==
  ASSUME GatewayInv, UNCHANGED <<agents, req>>, clock' \in Nat
  PROVE  GatewayInv'
<1>1. TypesOK'
  BY DEF GatewayInv, TypesOK
<1>2. \A r \in Requests : RequestOK(req[r])'
  BY DEF GatewayInv, RequestOK, HandlerOK, AnswerOK, CallerOK, Registered, Taken
<1>3. DeletedOnce'
  BY DEF GatewayInv, DeletedOnce
<1> QED BY <1>1, <1>2, <1>3 DEF GatewayInv

\* Every step keeps the invariant.
LEMMA GatewayNextInv ==
  ASSUME IsFiniteSet(Agents), GatewayInv, [GatewayNext]_gatewayVars
  PROVE  GatewayInv'
<1>1. CASE UNCHANGED gatewayVars
  <2>1. UNCHANGED <<agents, req>> /\ clock' \in Nat
    BY <1>1 DEF gatewayVars, GatewayInv, TypesOK
  <2> QED BY <2>1, ClockKeeps
<1>2. CASE Tick /\ UNCHANGED <<faults, agents, req, audit, interruptions>>
  <2>1. UNCHANGED <<agents, req>> /\ clock' \in Nat
    BY <1>2 DEF Tick, GatewayInv, TypesOK
  <2> QED BY <2>1, ClockKeeps
<1>3. ASSUME NEW r \in Requests, NEW op \in Ops, Arrive(r, op) PROVE GatewayInv'
  BY <1>3, ArriveKeeps
<1>4. ASSUME NEW r \in Requests, NEW o \in Outcome, Serve(r, o) PROVE GatewayInv'
  BY <1>4, ServeKeeps
<1>5. ASSUME NEW r \in Requests, Disconnect(r) PROVE GatewayInv'
  BY <1>5, DisconnectKeeps
<1>6. ASSUME NEW r \in Requests, Die(r) PROVE GatewayInv'
  <2>1. req[r].pc # "new" /\ req' = [req EXCEPT ![r].pc = "done"] /\ UNCHANGED <<agents, clock>>
    BY <1>6 DEF Die, UnderWay
  <2> QED BY <2>1, EndKeeps
<1> QED BY <1>1, <1>2, <1>3, <1>4, <1>5, <1>6, Zenon DEF GatewayNext

\* No step rewrites a deleted row, or a DID.
LEMMA NextGrows ==
  ASSUME IsFiniteSet(Agents), GatewayInv, [GatewayNext]_gatewayVars
  PROVE  Grows
<1>1. CASE UNCHANGED agents
  BY <1>1, UnchangedGrows DEF GatewayInv, TypesOK
<1>2. ASSUME NEW r \in Requests, NEW o \in Outcome, Serve(r, o) PROVE Grows
  <2>1. CASE \E a \in Agents : Insert(r, a, o)
    BY <2>1, InsertGrows
  <2>2. CASE Write(r, o)
    BY <2>2, WriteGrows
  <2>3. CASE Delete(r, o)
    BY <2>3, DeletionGrows
  <2>4. CASE Heartbeat(r, o)
    BY <2>4, HeartbeatGrows
  <2>5. CASE \/ Authenticate(r, o) \/ Incr(r, o) \/ Expire(r, o) \/ Announce(r, o)
             \/ List(r, o) \/ Get(r, o) \/ Query(r, o) \/ Read(r, o) \/ Resolve(r, o)
             \/ Record(r, o)
    <3>1. UNCHANGED agents
      BY <2>5 DEF Authenticate, Incr, Expire, Announce, List, Get, Query, Read, Resolve, Record
    <3> QED BY <1>1, <3>1
  <2> QED BY <1>2, <2>1, <2>2, <2>3, <2>4, <2>5, Zenon DEF Serve
<1>3. ASSUME NEW r \in Requests, NEW op \in Ops, Arrive(r, op) PROVE UNCHANGED agents
  BY <1>3 DEF Arrive
<1>4. ASSUME NEW r \in Requests, Disconnect(r) \/ Die(r) PROVE UNCHANGED agents
  BY <1>4 DEF Disconnect, Die
<1>5. UNCHANGED gatewayVars => UNCHANGED agents
  BY DEF gatewayVars
<1>6. UNCHANGED <<faults, agents, req, audit, interruptions>> => UNCHANGED agents
  OBVIOUS
<1> QED BY <1>1, <1>2, <1>3, <1>4, <1>5, <1>6, Zenon DEF GatewayNext

\* The invariant: what every request says of itself, and of the agents table,
\* is true.
THEOREM GatewayInvariant ==
  ASSUME IsFiniteSet(Agents) PROVE GatewaySpec => []GatewayInv
<1>1. GatewayInit => GatewayInv
  BY GatewayInitInv
<1>2. GatewayInv /\ [GatewayNext]_gatewayVars => GatewayInv'
  BY GatewayNextInv
<1> QED BY <1>1, <1>2, PTL DEF GatewaySpec

\* However many requests run beside each other: a client that is told of a
\* success made the change itself, one deletion of an agent is told that it was
\* the one, and a conflict or "not found" is true and has changed nothing.
THEOREM AnswersAlwaysTrue ==
  ASSUME IsFiniteSet(Agents) PROVE GatewaySpec => []AnswersAreTrue
<1>1. GatewayInv => AnswersAreTrue
  BY DEF GatewayInv, RequestOK, AnswerOK, DeletedOnce, AnswersAreTrue
<1> QED BY <1>1, GatewayInvariant, PTL

\* A request of a caller that was deleted, or no agent, when it came changes
\* nothing and does not pass Authenticate, whatever is registered meanwhile.
THEOREM DeletedNeverActs ==
  ASSUME IsFiniteSet(Agents) PROVE GatewaySpec => []DeletedActsNoMore
<1>1. GatewayInv => DeletedActsNoMore
  BY DEF GatewayInv, RequestOK, CallerOK, DeletedActsNoMore
<1> QED BY <1>1, GatewayInvariant, PTL

\* No statement writes the row of a deleted agent, also not that of an update
\* that had read the row before the deletion.
THEOREM DeletedRowsNeverWritten ==
  ASSUME IsFiniteSet(Agents) PROVE GatewaySpec => DeletedRowsStay
<1>1. GatewayInv /\ [GatewayNext]_gatewayVars =>
        [\A a \in Agents : agents[a].state = "deleted" => agents'[a] = agents[a]]_gatewayVars
  BY NextGrows DEF Grows
<1> QED BY <1>1, GatewayInvariant, PTL DEF GatewaySpec, DeletedRowsStay

-----------------------------------------------------------------------------
(* The types of the other variables.                                        *)

RestOK ==
  /\ faults \in 0 .. MaxFaults
  /\ LimiterTypeOK
  /\ audit \in [Requests -> AuditRow]
  /\ interruptions \in 0 .. MaxInterruptions

LEMMA CallCounts ==
  ASSUME faults \in 0 .. MaxFaults, NEW o, NEW live, Call(o, live)
  PROVE  faults' \in 0 .. MaxFaults
BY MaxFaultsAssumption DEF Call

LEMMA CounterCounts ==
  ASSUME LimiterTypeOK, NEW k, NEW o, IncrKey(k, o), UNCHANGED clock
  PROVE  LimiterTypeOK'
<1>1. CASE k \in Key /\ window' = [window EXCEPT ![k].count = @ + 1]
  <2> DEFINE new == [window[k] EXCEPT !.count = @ + 1]
  <2>1. new \in Counter
    BY <1>1 DEF LimiterTypeOK, Counter
  <2>2. window' = [window EXCEPT ![k] = new]
    BY <1>1 DEF LimiterTypeOK
  <2> HIDE DEF new
  <2> QED BY <2>1, <2>2 DEF LimiterTypeOK
<1>2. CASE window' = window
  BY <1>2 DEF LimiterTypeOK
<1>3. CASE k \notin Key /\ window' = [window EXCEPT ![k].count = @ + 1]
  BY <1>3 DEF LimiterTypeOK
<1> QED BY <1>1, <1>2, <1>3 DEF IncrKey

LEMMA CounterExpires ==
  ASSUME LimiterTypeOK, NEW k, NEW o, ExpireKey(k, o), UNCHANGED clock
  PROVE  LimiterTypeOK'
<1>1. CASE k \in Key /\ window' = [window EXCEPT ![k].expires = clock + Window]
  <2> DEFINE new == [window[k] EXCEPT !.expires = clock + Window]
  <2>1. new \in Counter
    <3>1. clock + Window \in 0 .. MaxClock + Window
      BY LimiterAssumption DEF LimiterTypeOK
    <3> QED BY <1>1, <3>1 DEF LimiterTypeOK, Counter
  <2>2. window' = [window EXCEPT ![k] = new]
    BY <1>1 DEF LimiterTypeOK
  <2> HIDE DEF new
  <2> QED BY <2>1, <2>2 DEF LimiterTypeOK
<1>2. CASE window' = window
  BY <1>2 DEF LimiterTypeOK
<1>3. CASE k \notin Key /\ window' = [window EXCEPT ![k].expires = clock + Window]
  BY <1>3 DEF LimiterTypeOK
<1> QED BY <1>1, <1>2, <1>3 DEF ExpireKey

LEMMA NoCounterFact == NoCounter \in Counter
BY LimiterAssumption DEF NoCounter, NoTTL, Counter

LEMMA TickCounts ==
  ASSUME LimiterTypeOK, Tick PROVE LimiterTypeOK'
<1>1. clock' \in 0 .. MaxClock
  BY LimiterAssumption DEF Tick, LimiterTypeOK
<1>2. ASSUME NEW k \in Key PROVE window'[k] \in {NoCounter, window[k]}
  BY DEF Tick
<1>3. \A k \in Key : window'[k] \in Counter
  BY <1>2, NoCounterFact DEF LimiterTypeOK
<1>4. window' = [k \in Key |-> window'[k]]
  BY DEF Tick
<1> QED BY <1>1, <1>3, <1>4 DEF LimiterTypeOK

LEMMA RecordTypes ==
  ASSUME GatewayInv, RestOK, NEW r \in Requests, NEW o \in Outcome, Record(r, o)
  PROVE  audit' \in [Requests -> AuditRow]
<1>1. req[r].by \in Callers \cup {Nobody} /\ req[r].answer \in Code \cup {NoCode}
  BY DEF GatewayInv, TypesOK, Request
<1> DEFINE row == [agent |-> req[r].by, status |-> req[r].answer]
<1>2. CASE row.agent \in Agents \cup {Nobody}
  <2>1. row \in AuditRow
    BY <1>1, <1>2 DEF AuditRow
  <2>2. audit' = audit \/ audit' = [audit EXCEPT ![r] = row]
    BY DEF Record, CreateAuditLog
  <2> HIDE DEF row
  <2> QED BY <2>1, <2>2 DEF RestOK
<1>3. CASE row.agent \notin Agents \cup {Nobody}
  <2>1. ~ (row.agent = Nobody \/ Registered(row.agent))
    BY <1>3 DEF Registered
  <2>2. audit' = audit
    BY <2>1 DEF Record, CreateAuditLog
  <2> QED BY <2>2 DEF RestOK
<1> QED BY <1>2, <1>3

LEMMA RestFrame ==
  ASSUME RestOK, UNCHANGED <<window, clock>>, faults' \in 0 .. MaxFaults,
         audit' \in [Requests -> AuditRow], interruptions' \in 0 .. MaxInterruptions
  PROVE  RestOK'
BY DEF RestOK, LimiterTypeOK

LEMMA RestNext ==
  ASSUME GatewayInv, RestOK, [GatewayNext]_gatewayVars
  PROVE  RestOK'
<1>1. CASE UNCHANGED gatewayVars
  BY <1>1 DEF gatewayVars, RestOK, LimiterTypeOK
<1>2. CASE Tick /\ UNCHANGED <<faults, agents, req, audit, interruptions>>
  BY <1>2, TickCounts DEF RestOK
<1>3. ASSUME NEW r \in Requests, NEW op \in Ops, Arrive(r, op) PROVE RestOK'
  BY <1>3 DEF Arrive, RestOK, LimiterTypeOK
<1>4. ASSUME NEW r \in Requests, Disconnect(r) \/ Die(r) PROVE RestOK'
  <2>1. /\ UNCHANGED <<faults, window, clock, audit>>
        /\ interruptions < MaxInterruptions /\ interruptions' = interruptions + 1
    BY <1>4 DEF Disconnect, Die
  <2>2. interruptions' \in 0 .. MaxInterruptions
    BY <2>1, OpsAssumption DEF RestOK
  <2> QED BY <2>1, <2>2 DEF RestOK, LimiterTypeOK
<1>5. ASSUME NEW r \in Requests, NEW o \in Outcome, Serve(r, o) PROVE RestOK'
  <2>1. CASE Incr(r, o)
    <3>1. /\ Call(o, req[r].live) /\ IncrKey(KeyOf(r), o)
          /\ UNCHANGED <<clock, audit, interruptions>>
      BY <2>1 DEF Incr
    <3> QED BY <3>1, CallCounts, CounterCounts DEF RestOK
  <2>2. CASE Expire(r, o)
    <3>1. /\ Call(o, req[r].live) /\ ExpireKey(KeyOf(r), o)
          /\ UNCHANGED <<clock, audit, interruptions>>
      BY <2>2 DEF Expire
    <3> QED BY <3>1, CallCounts, CounterExpires DEF RestOK
  <2>3. CASE Record(r, o)
    <3>1. Call(o, req[r].live) /\ UNCHANGED <<window, clock, interruptions>>
      BY <2>3 DEF Record
    <3> QED BY <2>3, <3>1, CallCounts, RecordTypes, RestFrame DEF RestOK
  <2>4. CASE \/ Authenticate(r, o) \/ (\E a \in Agents : Insert(r, a, o))
             \/ Announce(r, o) \/ List(r, o) \/ Get(r, o) \/ Query(r, o)
             \/ Read(r, o) \/ Write(r, o) \/ Delete(r, o) \/ Heartbeat(r, o)
             \/ Resolve(r, o)
    <3>1. Call(o, req[r].live) /\ UNCHANGED <<window, clock, audit, interruptions>>
      BY <2>4 DEF Authenticate, Insert, Announce, List, Get, Query, Read, Write, Delete,
                  Heartbeat, Resolve
    <3> QED BY <3>1, CallCounts, RestFrame DEF RestOK
  <2> QED BY <1>5, <2>1, <2>2, <2>3, <2>4, Zenon DEF Serve
<1> QED BY <1>1, <1>2, <1>3, <1>4, <1>5, Zenon DEF GatewayNext

\* To begin with nothing has failed and no time has passed.
LEMMA RestInit ==
  ASSUME GatewayInit PROVE RestOK
<1>1. NotAudited \in AuditRow
  BY DEF NotAudited, AuditRow
<1>2. /\ faults = 0 /\ clock = 0 /\ interruptions = 0
      /\ window = [k \in Key |-> NoCounter]
      /\ audit = [r \in Requests |-> NotAudited]
  BY DEF GatewayInit, LimiterInit
<1> QED BY <1>1, <1>2, NoCounterFact, MaxFaultsAssumption, OpsAssumption, LimiterAssumption
          DEF RestOK, LimiterTypeOK

\* Every variable keeps its type; in particular the audit log refers to nobody
\* who is not an agent, and a counter never gets a longer time to live.
THEOREM GatewayTypeCorrect ==
  ASSUME IsFiniteSet(Agents) PROVE GatewaySpec => []GatewayTypeOK
<1>1. GatewayInit => RestOK
  BY RestInit
<1>2. GatewayInv /\ RestOK /\ [GatewayNext]_gatewayVars => RestOK'
  BY RestNext
<1>3. GatewayInv /\ RestOK => GatewayTypeOK
  BY DEF GatewayInv, TypesOK, RestOK, GatewayTypeOK, RegistryTypeOK
<1> QED BY <1>1, <1>2, <1>3, GatewayInvariant, PTL DEF GatewaySpec

-----------------------------------------------------------------------------
(* What a step does to the fields of its request.                           *)

Fields == {"pc", "op", "caller", "target", "live", "slot", "beat", "by", "answer", "found",
           "revoked", "admitted", "at", "changed"}

Only(r) == \A q \in Requests : q # r => req'[q] = req[q]

\* The step changes nothing but the fields F of r.
Sets(r, F) ==
  /\ Only(r)
  /\ \A f \in Fields \ F : req'[r][f] = req[r][f]

LEMMA AbortSets ==
  ASSUME req \in [Requests -> Request], NEW r \in Requests, NEW code, Abort(r, code)
  PROVE  Sets(r, {"pc", "answer"}) /\ req'[r].pc = "done" /\ req'[r].answer = code
BY DEF Abort, Request, Sets, Only, Fields

LEMMA AdmitSets ==
  ASSUME req \in [Requests -> Request], NEW r \in Requests, NEW timely \in BOOLEAN, Admit(r, timely)
  PROVE  /\ Sets(r, {"pc", "admitted"})
         /\ req'[r].pc = Handler(req[r].op) /\ req'[r].admitted = timely
<1> PICK p : p = Handler(req[r].op)
  OBVIOUS
<1>1. req' = [req EXCEPT ![r].pc = p, ![r].admitted = timely]
  BY Zenon DEF Admit
<1>2. Sets(r, {"pc", "admitted"}) /\ req'[r].pc = p /\ req'[r].admitted = timely
  BY <1>1 DEF Request, Sets, Only, Fields
<1> QED BY <1>2

LEMMA ReplySets ==
  ASSUME req \in [Requests -> Request], NEW r \in Requests, NEW code, NEW ch \in BOOLEAN,
         Reply(r, code, ch)
  PROVE  /\ Sets(r, {"pc", "answer", "changed"})
         /\ req'[r].pc = IF Audited(req[r].op) THEN "resolve" ELSE "done"
         /\ req'[r].answer = code /\ req'[r].changed = (req[r].changed \/ ch)
<1>0. PICK p : p = IF Audited(req[r].op) THEN "resolve" ELSE "done"
  OBVIOUS
<1>1. PICK v \in BOOLEAN : v = (req[r].changed \/ ch)
  OBVIOUS
<1>2. req' = [req EXCEPT ![r].pc = p, ![r].answer = code, ![r].changed = v]
  <2>1. req' = [req EXCEPT ![r].pc = p, ![r].answer = code, ![r].changed = req[r].changed \/ ch]
    BY <1>0, <1>1, Zenon DEF Reply
  <2> QED BY <1>1, <2>1, Zenon
<1>3. /\ Sets(r, {"pc", "answer", "changed"})
      /\ req'[r].pc = p /\ req'[r].answer = code /\ req'[r].changed = v
  BY <1>2 DEF Request, Sets, Only, Fields
<1> QED BY <1>0, <1>1, <1>3, Zenon

LEMMA FoundSets ==
  ASSUME req \in [Requests -> Request], NEW r \in Requests, NEW o, NEW A, Found(r, o, A)
  PROVE  /\ Sets(r, {"pc", "answer", "found"})
         /\ req'[r].pc = IF Audited(req[r].op) THEN "resolve" ELSE "done"
         /\ req'[r].answer = IF o = "ok" THEN 200 ELSE 500
         /\ req'[r].found = IF o = "ok" THEN A ELSE {}
<1>1. PICK p, c, v : /\ p = IF Audited(req[r].op) THEN "resolve" ELSE "done"
                     /\ c = IF o = "ok" THEN 200 ELSE 500
                     /\ v = IF o = "ok" THEN A ELSE {}
  OBVIOUS
<1>2. req' = [req EXCEPT ![r].pc = p, ![r].answer = c, ![r].found = v]
  BY <1>1, Zenon DEF Found
<1>3. /\ Sets(r, {"pc", "answer", "found"})
      /\ req'[r].pc = p /\ req'[r].answer = c /\ req'[r].found = v
  BY <1>2 DEF Request, Sets, Only, Fields
<1> QED BY <1>1, <1>3, Zenon

\* What an action of a request changes of it, by action.
LEMMA AuthenticateSets ==
  ASSUME req \in [Requests -> Request], NEW r \in Requests, NEW o, Authenticate(r, o)
  PROVE  /\ req[r].pc = "authenticate"
         /\ \/ Sets(r, {"pc", "answer"}) /\ req'[r].pc = "done" /\ req'[r].answer # 200
            \/ Sets(r, {"pc", "slot"}) /\ req'[r].pc = "incr" /\ req'[r].slot = Slot
<1>1. req' = [req EXCEPT ![r].pc = "incr", ![r].slot = Slot]
        => Sets(r, {"pc", "slot"}) /\ req'[r].pc = "incr" /\ req'[r].slot = Slot
  BY DEF Request, Sets, Only, Fields
<1>2. \A code \in {401, 503} : Abort(r, code) =>
        Sets(r, {"pc", "answer"}) /\ req'[r].pc = "done" /\ req'[r].answer # 200
  BY AbortSets
<1>3. 401 \in {401, 503} /\ 503 \in {401, 503}
  OBVIOUS
<1> QED BY <1>1, <1>2, <1>3, Zenon DEF Authenticate

LEMMA IncrSets ==
  ASSUME req \in [Requests -> Request], NEW r \in Requests, NEW o, Incr(r, o)
  PROVE  \E timely \in BOOLEAN : \E n :
           /\ timely = (req[r].slot = Slot)
           /\ n = window[KeyOf(r)].count + 1
           /\ \/ /\ o # "ok"
                 /\ Sets(r, {"pc", "admitted"})
                 /\ req'[r].pc = Handler(req[r].op) /\ req'[r].admitted = timely
              \/ /\ o = "ok" /\ n = 1
                 /\ Sets(r, {"pc", "admitted"})
                 /\ req'[r].pc = "expire" /\ req'[r].admitted = timely
              \/ /\ o = "ok" /\ n > Limit
                 /\ Sets(r, {"pc", "answer"}) /\ req'[r].pc = "done" /\ req'[r].answer # 200
              \/ /\ o = "ok" /\ n > 1 /\ ~ (n > Limit)
                 /\ Sets(r, {"pc", "admitted"})
                 /\ req'[r].pc = Handler(req[r].op) /\ req'[r].admitted = timely
<1>1. PICK timely \in BOOLEAN : timely = (req[r].slot = Slot)
  OBVIOUS
<1>2. PICK n : n = window[KeyOf(r)].count + 1
  OBVIOUS
<1>3. \/ o # "ok" /\ Admit(r, timely)
      \/ /\ o = "ok" /\ n = 1
         /\ req' = [req EXCEPT ![r].pc = "expire", ![r].admitted = timely]
      \/ /\ o = "ok" /\ n > 1 /\ n > Limit /\ Abort(r, 429)
      \/ /\ o = "ok" /\ n > 1 /\ ~ (n > Limit) /\ Admit(r, timely)
  BY <1>1, <1>2, Zenon DEF Incr
<1>4. req' = [req EXCEPT ![r].pc = "expire", ![r].admitted = timely]
        => Sets(r, {"pc", "admitted"}) /\ req'[r].pc = "expire" /\ req'[r].admitted = timely
  BY DEF Request, Sets, Only, Fields
<1>5. Abort(r, 429) => Sets(r, {"pc", "answer"}) /\ req'[r].pc = "done" /\ req'[r].answer # 200
  BY AbortSets
<1> QED BY <1>1, <1>2, <1>3, <1>4, <1>5, AdmitSets, Zenon

LEMMA ExpireSets ==
  ASSUME req \in [Requests -> Request], NEW r \in Requests, NEW o, Expire(r, o)
  PROVE  /\ req[r].pc = "expire"
         /\ Sets(r, {"pc"}) /\ req'[r].pc = Handler(req[r].op)
<1>1. req[r].admitted \in BOOLEAN
  BY DEF Request
<1>2. PICK v \in BOOLEAN : v = req[r].admitted
  BY <1>1
<1>3. Admit(r, v) /\ req[r].pc = "expire"
  BY <1>2, Zenon DEF Expire
<1>4. Sets(r, {"pc", "admitted"}) /\ req'[r].pc = Handler(req[r].op) /\ req'[r].admitted = req[r].admitted
  BY <1>2, <1>3, AdmitSets
<1>5. Sets(r, {"pc"})
  BY <1>4 DEF Sets, Fields
<1> QED BY <1>3, <1>4, <1>5

\* The handler has answered, and the control is back with AuditLog or the client.
Ends(r, F) ==
  /\ Sets(r, F)
  /\ req'[r].answer # NoCode
  /\ req'[r].pc = IF Audited(req[r].op) THEN "resolve" ELSE "done"

LEMMA ReplyEnds ==
  ASSUME req \in [Requests -> Request], NEW r \in Requests, NEW code \in Code,
         NEW ch \in BOOLEAN, Reply(r, code, ch)
  PROVE  Ends(r, {"pc", "answer", "changed"}) /\ (req[r].changed \/ ch <=> req'[r].changed)
<1>1. code # NoCode
  BY DEF Code, NoCode
<1>2. /\ Sets(r, {"pc", "answer", "changed"})
      /\ req'[r].pc = IF Audited(req[r].op) THEN "resolve" ELSE "done"
      /\ req'[r].answer = code /\ req'[r].changed = (req[r].changed \/ ch)
  BY ReplySets
<1> QED BY <1>1, <1>2, Zenon DEF Ends

LEMMA FoundEnds ==
  ASSUME req \in [Requests -> Request], NEW r \in Requests, NEW o, NEW A, Found(r, o, A)
  PROVE  Ends(r, {"pc", "answer", "found"})
<1>1. req'[r].answer \in {200, 500} => req'[r].answer # NoCode
  BY DEF NoCode
<1> QED BY <1>1, FoundSets DEF Ends

LEMMA InsertSets ==
  ASSUME req \in [Requests -> Request], NEW r \in Requests, NEW a, NEW o, Insert(r, a, o)
  PROVE  /\ req[r].pc = "insert"
         /\ \/ Sets(r, {"pc", "changed"}) /\ req'[r].pc = "announce"
            \/ Ends(r, {"pc", "answer", "changed"})
<1>1. PICK free \in BOOLEAN, ch \in BOOLEAN :
        free = ~ Taken(req[r].target) /\ ch = (Took(o) /\ free)
  OBVIOUS
<1>2. req[r].pc = "insert"
  BY DEF Insert
<1>3. \/ req' = [req EXCEPT ![r].pc = "announce", ![r].changed = TRUE]
      \/ Reply(r, CodeOf("ErrAgentAlreadyExists", 201), FALSE)
      \/ Reply(r, 500, ch)
  BY <1>1, Zenon DEF Insert
<1>4. req' = [req EXCEPT ![r].pc = "announce", ![r].changed = TRUE]
        => Sets(r, {"pc", "changed"}) /\ req'[r].pc = "announce"
  BY DEF Request, Sets, Only, Fields
<1>5. CodeOf("ErrAgentAlreadyExists", 201) \in Code /\ 500 \in Code /\ FALSE \in BOOLEAN
  BY DEF CodeOf, Code
<1> QED BY <1>1, <1>2, <1>3, <1>4, <1>5, ReplyEnds, Zenon

LEMMA CodeOfIsCode ==
  ASSUME NEW e, NEW code \in Code PROVE CodeOf(e, code) \in Code
BY DEF CodeOf, Code

LEMMA AnnounceSets ==
  ASSUME req \in [Requests -> Request], NEW r \in Requests, NEW o, Announce(r, o)
  PROVE  req[r].pc = "announce" /\ Ends(r, {"pc", "answer", "changed"})
<1>1. PICK code \in Code : code = IF o = "ok" THEN 201 ELSE 500
  BY DEF Code
<1>2. req[r].pc = "announce" /\ Reply(r, code, FALSE) /\ FALSE \in BOOLEAN
  BY <1>1, Zenon DEF Announce
<1> QED BY <1>2, ReplyEnds

LEMMA GetSets ==
  ASSUME req \in [Requests -> Request], NEW r \in Requests, NEW o, Get(r, o)
  PROVE  /\ req[r].pc = "get" /\ Ends(r, {"pc", "answer", "changed"})
         /\ req'[r].changed <=> req[r].changed
<1>1. 200 \in Code /\ FALSE \in BOOLEAN
  BY DEF Code
<1>2. PICK code \in Code : code = CodeOf(ErrorOf(o, Live(req[r].target)), 200)
  BY <1>1, CodeOfIsCode
<1>3. req[r].pc = "get" /\ Reply(r, code, FALSE)
  BY <1>2, Zenon DEF Get
<1> QED BY <1>1, <1>3, ReplyEnds

LEMMA ListSets ==
  ASSUME req \in [Requests -> Request], NEW r \in Requests, NEW o, List(r, o)
  PROVE  req[r].pc = "list" /\ Ends(r, {"pc", "answer", "found"})
<1>1. req[r].pc = "list" /\ Found(r, o, LiveAgents)
  BY DEF List
<1> QED BY <1>1, FoundEnds

LEMMA QuerySets ==
  ASSUME req \in [Requests -> Request], NEW r \in Requests, NEW o, Query(r, o)
  PROVE  req[r].pc = "query" /\ Ends(r, {"pc", "answer", "found"})
<1>1. req[r].pc = "query" /\ Found(r, o, {a \in Newest : Capable(r, a)})
  BY DEF Query
<1> QED BY <1>1, FoundEnds

LEMMA ReadSets ==
  ASSUME req \in [Requests -> Request], NEW r \in Requests, NEW o, Read(r, o)
  PROVE  /\ req[r].pc = "read"
         /\ \/ /\ Sets(r, {"pc", "beat", "at"}) /\ req'[r].pc = "write"
               /\ req'[r].at = req'[r].beat
            \/ Ends(r, {"pc", "answer", "changed"}) /\ (req'[r].changed <=> req[r].changed)
<1>1. 200 \in Code /\ FALSE \in BOOLEAN
  BY DEF Code
<1>2. PICK code \in Code : code = CodeOf(ErrorOf(o, FALSE), 200)
  BY <1>1, CodeOfIsCode
<1>3. PICK b : b = agents[req[r].target].beat
  OBVIOUS
<1>4. /\ req[r].pc = "read"
      /\ \/ Reply(r, code, FALSE)
         \/ req' = [req EXCEPT ![r].pc = "write", ![r].beat = b, ![r].at = b]
  BY <1>2, <1>3, Zenon DEF Read
<1>5. req' = [req EXCEPT ![r].pc = "write", ![r].beat = b, ![r].at = b]
        => /\ Sets(r, {"pc", "beat", "at"})
           /\ req'[r].pc = "write" /\ req'[r].at = b /\ req'[r].beat = b
  BY DEF Request, Sets, Only, Fields
<1> QED BY <1>1, <1>4, <1>5, ReplyEnds

LEMMA WriteSets ==
  ASSUME req \in [Requests -> Request], NEW r \in Requests, NEW o, Write(r, o)
  PROVE  /\ req[r].pc = "write" /\ Ends(r, {"pc", "answer", "changed"})
         /\ req'[r].changed <=> req[r].changed \/ (Took(o) /\ Live(req[r].target))
<1>1. 200 \in Code
  BY DEF Code
<1>2. PICK code \in Code : code = CodeOf(ErrorOf(o, Live(req[r].target)), 200)
  BY <1>1, CodeOfIsCode
<1>3. PICK ch \in BOOLEAN : ch <=> Took(o) /\ Live(req[r].target)
  OBVIOUS
<1>4. ch = (Took(o) /\ Live(req[r].target))
  BY <1>3
<1>5. req[r].pc = "write" /\ Reply(r, code, ch)
  BY <1>2, <1>4, Zenon DEF Write
<1> QED BY <1>3, <1>5, ReplyEnds

LEMMA DeleteSets ==
  ASSUME req \in [Requests -> Request], NEW r \in Requests, NEW o, Delete(r, o)
  PROVE  req[r].pc = "delete" /\ Ends(r, {"pc", "answer", "changed"})
<1>1. 204 \in Code
  BY DEF Code
<1>2. PICK code \in Code : code = CodeOf(ErrorOf(o, Live(req[r].target)), 204)
  BY <1>1, CodeOfIsCode
<1>3. PICK ch \in BOOLEAN : ch = (Took(o) /\ Live(req[r].target))
  OBVIOUS
<1>4. req[r].pc = "delete" /\ Reply(r, code, ch)
  BY <1>2, <1>3, Zenon DEF Delete
<1> QED BY <1>4, ReplyEnds

LEMMA HeartbeatSets ==
  ASSUME req \in [Requests -> Request], NEW r \in Requests, NEW o, Heartbeat(r, o)
  PROVE  /\ req[r].pc = "heartbeat" /\ Sets(r, {"pc", "at", "answer", "changed"})
         /\ req'[r].pc = "resolve" /\ req'[r].at = clock /\ req'[r].answer # NoCode
         /\ req'[r].answer = CodeOf(ErrorOf(o, Live(req[r].target)), 200)
<1>1. 200 \in Code
  BY DEF Code
<1>2. PICK code \in Code : code = CodeOf(ErrorOf(o, Live(req[r].target)), 200)
  BY <1>1, CodeOfIsCode
<1>3. PICK ch \in BOOLEAN : ch = (Took(o) /\ Live(req[r].target))
  OBVIOUS
<1>4. /\ req[r].pc = "heartbeat"
      /\ req' = [req EXCEPT ![r].pc = "resolve", ![r].at = clock, ![r].answer = code,
                            ![r].changed = ch]
  BY <1>2, <1>3, Zenon DEF Heartbeat
<1>5. /\ Sets(r, {"pc", "at", "answer", "changed"})
      /\ req'[r].pc = "resolve" /\ req'[r].at = clock /\ req'[r].answer = code
  BY <1>4 DEF Request, Sets, Only, Fields
<1>6. code # NoCode
  BY DEF Code, NoCode
<1> QED BY <1>2, <1>4, <1>5, <1>6

LEMMA ResolveSets ==
  ASSUME req \in [Requests -> Request], NEW r \in Requests, NEW o, Resolve(r, o)
  PROVE  /\ req[r].pc = "resolve" /\ Sets(r, {"pc", "by"}) /\ req'[r].pc = "record"
         /\ req'[r].by = Nobody \/ Registered(req'[r].by)
<1>1. PICK v : v = IF o = "ok" /\ AgentExists(req[r].caller) THEN req[r].caller ELSE Nobody
  OBVIOUS
<1>2. v = Nobody \/ Registered(v)
  BY <1>1 DEF AgentExists, Registered
<1>3. req[r].pc = "resolve" /\ req' = [req EXCEPT ![r].pc = "record", ![r].by = v]
  BY <1>1, Zenon DEF Resolve
<1>4. Sets(r, {"pc", "by"}) /\ req'[r].pc = "record" /\ req'[r].by = v
  BY <1>3 DEF Request, Sets, Only, Fields
<1> QED BY <1>2, <1>3, <1>4

LEMMA RecordSets ==
  ASSUME req \in [Requests -> Request], NEW r \in Requests, NEW o, Record(r, o)
  PROVE  req[r].pc = "record" /\ Sets(r, {"pc"}) /\ req'[r].pc = "done"
BY DEF Record, Request, Sets, Only, Fields

LEMMA DieSets ==
  ASSUME req \in [Requests -> Request], NEW r \in Requests, Die(r)
  PROVE  Sets(r, {"pc"}) /\ req'[r].pc = "done"
BY DEF Die, Request, Sets, Only, Fields

LEMMA DisconnectSets ==
  ASSUME req \in [Requests -> Request], NEW r \in Requests, Disconnect(r)
  PROVE  Sets(r, {"live"}) /\ req'[r].live = FALSE /\ req[r].pc \notin {"new", "done"}
BY DEF Disconnect, UnderWay, Request, Sets, Only, Fields

LEMMA ArriveSets ==
  ASSUME req \in [Requests -> Request], NEW r \in Requests, NEW op, Arrive(r, op)
  PROVE  /\ req[r].pc = "new" /\ Only(r)
         /\ req'[r].pc \in {"authenticate", "done"} /\ req'[r].live = TRUE
         /\ req'[r].admitted = FALSE /\ req'[r].changed = FALSE
         /\ req'[r].op = op /\ req'[r].answer \in {NoCode, 401}
         /\ req'[r].slot = 0 /\ req'[r].at = 0
<1>1. PICK c \in Callers, t \in TargetsOf(op), token \in Token :
        req' = [req EXCEPT ![r] = [NewRequest EXCEPT
                 !.pc = IF ValidateToken(token) THEN "authenticate" ELSE "done",
                 !.answer = IF ValidateToken(token) THEN NoCode ELSE 401,
                 !.op = op, !.caller = c, !.target = t,
                 !.revoked = c \notin {a \in Agents : agents[a].state # "deleted"}]]
  BY DEF Arrive
<1>7. req[r].pc = "new"
  BY DEF Arrive
<1>2. PICK p, k, v : /\ p = IF ValidateToken(token) THEN "authenticate" ELSE "done"
                     /\ k = IF ValidateToken(token) THEN NoCode ELSE 401
                     /\ v = (c \notin {a \in Agents : agents[a].state # "deleted"})
  OBVIOUS
<1>3. PICK y : y = [NewRequest EXCEPT !.pc = p, !.answer = k, !.op = op, !.caller = c,
                                      !.target = t, !.revoked = v]
  OBVIOUS
<1>4. req' = [req EXCEPT ![r] = y]
  BY <1>1, <1>2, <1>3, Zenon
<1>5. /\ y.pc = p /\ y.live = TRUE /\ y.admitted = FALSE /\ y.changed = FALSE
      /\ y.op = op /\ y.answer = k /\ y.slot = 0 /\ y.at = 0
  BY <1>3, SMT DEF NewRequest
<1>6. p \in {"authenticate", "done"} /\ k \in {NoCode, 401}
  BY <1>2
<1> QED BY <1>4, <1>5, <1>6, <1>7 DEF Only

-----------------------------------------------------------------------------
(* What failed calls, disconnects and deaths have paid for.                 *)

Spent == faults + interruptions

\* One request or key more costs one.
LEMMA OneMore ==
  ASSUME NEW S, IsFiniteSet(S), NEW T, NEW x, T \subseteq S \cup {x}
  PROVE  /\ IsFiniteSet(T) /\ IsFiniteSet(S)
         /\ Cardinality(T) \in Nat /\ Cardinality(S) \in Nat
         /\ Cardinality(T) <= Cardinality(S) + 1
         /\ T \subseteq S => Cardinality(T) <= Cardinality(S)
<1>1. IsFiniteSet(S \cup {x}) /\ Cardinality(S) \in Nat /\ Cardinality(S \cup {x}) \in Nat
  BY FS_AddElement, FS_CardinalityType
<1>2. Cardinality(S \cup {x}) <= Cardinality(S) + 1
  BY <1>1, FS_AddElement
<1>3. IsFiniteSet(T) /\ Cardinality(T) \in Nat /\ Cardinality(T) <= Cardinality(S \cup {x})
  BY <1>1, FS_Subset, FS_CardinalityType
<1>4. T \subseteq S => Cardinality(T) <= Cardinality(S)
  BY FS_Subset
<1> QED BY <1>1, <1>2, <1>3, <1>4

\* What a step pays.
LEMMA CallPays ==
  ASSUME RestOK, NEW o, NEW live \in BOOLEAN, Call(o, live), UNCHANGED interruptions
  PROVE  /\ Spent \in Nat /\ Spent' \in Nat /\ Spent <= Spent'
         /\ o \in {"lost", "unanswered"} => Spent' = Spent + 1
         /\ o = "ok" => live
         /\ o = "refused" => ~ live
<1>1. \/ o \in {"lost", "unanswered"} /\ faults' = faults + 1
      \/ o \notin {"lost", "unanswered"} /\ faults' = faults
  BY DEF Call
<1>2. faults \in Nat /\ interruptions \in Nat
  BY DEF RestOK
<1>3. Spent \in Nat
  BY <1>2 DEF Spent
<1>4. (faults' = faults + 1 => Spent' = Spent + 1) /\ (faults' = faults => Spent' = Spent)
  BY <1>2 DEF Spent
<1>5. (o = "ok" => live) /\ (o = "refused" => ~ live)
  BY Zenon DEF Call
<1> QED BY <1>1, <1>3, <1>4, <1>5

LEMMA InterruptionPays ==
  ASSUME RestOK, UNCHANGED faults, interruptions' = interruptions + 1
  PROVE  Spent \in Nat /\ Spent' \in Nat /\ Spent' = Spent + 1
<1>1. faults \in Nat /\ interruptions \in Nat
  BY DEF RestOK
<1> QED BY <1>1 DEF Spent

\* Where the limiter lets a request go.
LEMMA HandlerIs ==
  ASSUME GatewayInv, NEW r \in Requests, req[r].pc # "new"
  PROVE  Handler(req[r].op) \in {"insert", "read", "list", "get", "delete", "heartbeat", "query"}
<1>1. req[r].op \in Ops
  BY RequestFacts DEF HandlerOK, Request
<1> QED BY <1>1, OpsAssumption DEF Handler

-----------------------------------------------------------------------------
(* The audit log.                                                           *)

\* What AuditLog is about to write is a row, of an agent that the foreign key
\* accepts: agents are never removed from the table.
AuditOK(q) ==
  /\ q.pc \in {"resolve", "record"} => q.answer # NoCode
  /\ q.pc = "record" => q.by = Nobody \/ Registered(q.by)

\* The requests that have missed the audit log, and those that may because they
\* are cancelled.
Unpaid == {r \in Requests :
             \/ ~ req[r].live
             \/ /\ req[r].pc = "done" /\ req[r].changed
                /\ audit[r] = NotAudited /\ Storable(r)}

AuditInv ==
  /\ \A r \in Requests : AuditOK(req[r])
  /\ IsFiniteSet(Unpaid)
  /\ Cardinality(Unpaid) <= Spent

-----------------------------------------------------------------------------
(* The time to live of the counters.                                        *)

\* A request that is going to set it, and is not cancelled.
Expires(r, k) == req[r].pc = "expire" /\ req[r].live /\ KeyOf(r) = k

Stuck == {k \in Key : /\ window[k] # NoCounter /\ window[k].expires = NoTTL
                      /\ ~ \E r \in Requests : Expires(r, k)}

ExpiryInv == IsFiniteSet(Stuck) /\ Cardinality(Stuck) <= Spent

-----------------------------------------------------------------------------
(* The limit.                                                               *)

\* A counter outlives its slot, and a slot is not one of the future.
TimelyOK(q) ==
  /\ q.slot <= Slot
  /\ q.pc \in {"new", "authenticate", "incr"} => ~ q.admitted
OutlivesOK(k) == window[k].expires # NoTTL => k[3] < window[k].expires \div Window

SlotsOK ==
  /\ \A r \in Requests : TimelyOK(req[r])
  /\ \A k \in Key : OutlivesOK(k)

Cancelled == {r \in Requests : ~ req[r].live}
Passed(k) == {r \in Requests : req[r].admitted /\ req[r].live /\ KeyOf(r) = k}

\* While its slot lasts, the counter has counted all that passed but for those
\* whose INCR failed.
PassedOK(k) ==
  /\ IsFiniteSet(Passed(k))
  /\ Cardinality(Passed(k)) <= Limit + faults
  /\ k[3] = Slot => Cardinality(Passed(k)) <= window[k].count + faults

LimitInv ==
  /\ SlotsOK
  /\ \A k \in Key : PassedOK(k)
  /\ IsFiniteSet(Cancelled) /\ Cardinality(Cancelled) <= interruptions

-----------------------------------------------------------------------------
(* Heartbeats.                                                              *)

\* A heartbeat is one of the past, an update that is about to write has read
\* what it is about to write, and it is an update if it says that it changed.
BeatOK(q) ==
  /\ q.op = "heartbeat" => q.at <= clock
  /\ q.pc = "write" => q.beat = q.at

Overwritten(r) ==
  \E u \in Requests : /\ req[u].op = "update" /\ req[u].changed
                      /\ req[u].target = req[r].target /\ req[u].at < req[r].at

Stands(r) ==
  req[r].op = "heartbeat" /\ req[r].answer = 200 =>
    agents[req[r].target].beat >= req[r].at \/ Overwritten(r)

BeatInv == \A r \in Requests : BeatOK(req[r]) /\ Stands(r)

\* One step of one request.
LEMMA AuditStep ==
  ASSUME GatewayInv, AuditInv, Grows, NEW r \in Requests, Only(r),
         \A q \in Requests : q # r => audit'[q] = audit[q],
         AuditOK(req[r])',
         Spent \in Nat, Spent' \in Nat, Spent <= Spent',
         Spent' = Spent + 1 \/ (r \in Unpaid' => r \in Unpaid)
  PROVE  AuditInv'
<1>1. \A a \in Agents : Registered(a) => Registered(a)'
  BY DEF Grows, Registered
<1>2. ASSUME NEW q \in Requests PROVE AuditOK(req[q])'
  <2>1. CASE q # r
    <3>1. req'[q] = req[q] /\ AuditOK(req[q])
      BY <2>1 DEF Only, AuditInv
    <3>2. Registered(req[q].by) => Registered(req[q].by)'
      <4>1. Registered(req[q].by) => req[q].by \in Agents
        BY DEF Registered
      <4>2. \A b \in Agents : b = req[q].by /\ Registered(b) => Registered(b)'
        BY <1>1
      <4> QED BY <2>1, <4>1, <4>2 DEF Registered, Only
    <3> QED BY <3>1, <3>2 DEF AuditOK, Registered
  <2> QED BY <2>1
<1>3. Unpaid' \subseteq Unpaid \cup {r}
  BY DEF Unpaid, Only
<1>4. IsFiniteSet(Unpaid) /\ Cardinality(Unpaid) <= Spent
  BY DEF AuditInv
<1>5. /\ IsFiniteSet(Unpaid') /\ Cardinality(Unpaid) \in Nat /\ Cardinality(Unpaid') \in Nat
      /\ Cardinality(Unpaid') <= Cardinality(Unpaid) + 1
      /\ Unpaid' \subseteq Unpaid => Cardinality(Unpaid') <= Cardinality(Unpaid)
  BY <1>3, <1>4, OneMore
<1>6. Cardinality(Unpaid') <= Spent'
  BY <1>3, <1>4, <1>5
<1> QED BY <1>2, <1>5, <1>6 DEF AuditInv

\* A step that neither writes the log nor ends the request after a change, nor
\* cancels it.
LEMMA AuditFrame ==
  ASSUME GatewayInv, AuditInv, Grows, NEW r \in Requests, Only(r), UNCHANGED audit,
         AuditOK(req[r])', Spent \in Nat, Spent' \in Nat, Spent <= Spent',
         req[r].live => req'[r].live,
         req'[r].pc = "done" => ~ req'[r].changed
  PROVE  AuditInv'
<1>1. r \in Unpaid' => r \in Unpaid
  BY DEF Unpaid
<1> QED BY <1>1, AuditStep

\* The handlers of operations that are audited do not end the request, and those of
\* the others change nothing.
LEMMA EndsAudit ==
  ASSUME GatewayInv, NEW r \in Requests, NEW F, Ends(r, F),
         F \subseteq {"pc", "answer", "changed", "found"},
         Audited(req[r].op) \/ (~ req[r].changed /\ (req'[r].changed <=> req[r].changed))
  PROVE  /\ Only(r) /\ AuditOK(req[r])' /\ (req[r].live => req'[r].live)
         /\ req'[r].pc = "done" => ~ req'[r].changed
<1>1. Only(r) /\ req'[r].live = req[r].live
  BY DEF Ends, Sets, Fields
<1>2. req'[r].answer # NoCode /\ req'[r].pc \in {"resolve", "done"}
      /\ (Audited(req[r].op) => req'[r].pc # "done")
  BY DEF Ends
<1> QED BY <1>1, <1>2 DEF AuditOK

LEMMA ServeAudit ==
  ASSUME GatewayInv, RestOK, AuditInv, Grows, NEW r \in Requests, NEW o \in Outcome, Serve(r, o)
  PROVE  AuditInv'
<1>1. req \in [Requests -> Request] /\ HandlerOK(req[r]) /\ AnswerOK(req[r]) /\ AuditOK(req[r])
  BY RequestFacts DEF AuditInv
<1>2. req[r].live \in BOOLEAN
  BY <1>1 DEF Request
<1>3. Call(o, req[r].live) /\ UNCHANGED interruptions
  BY DEF Serve, Authenticate, Incr, Expire, Insert, Announce, List, Get, Query, Read, Write,
         Delete, Heartbeat, Resolve, Record
<1>4. /\ Spent \in Nat /\ Spent' \in Nat /\ Spent <= Spent'
      /\ o \in {"lost", "unanswered"} => Spent' = Spent + 1
      /\ o = "refused" => ~ req[r].live
  BY <1>2, <1>3, CallPays
<1>5. CASE Authenticate(r, o)
  <2>1. /\ req[r].pc = "authenticate"
        /\ \/ Sets(r, {"pc", "answer"}) /\ req'[r].pc = "done"
           \/ Sets(r, {"pc", "slot"}) /\ req'[r].pc = "incr"
    BY <1>1, <1>5, AuthenticateSets
  <2>2. UNCHANGED audit
    BY <1>5 DEF Authenticate
  <2>3. Only(r) /\ req'[r].live = req[r].live /\ req'[r].changed = req[r].changed
    BY <2>1 DEF Sets, Fields
  <2>4. AuditOK(req[r])'
    BY <2>1 DEF AuditOK
  <2> QED BY <1>1, <1>4, <2>1, <2>2, <2>3, <2>4, AuditFrame DEF AnswerOK, Early
<1>6. CASE Incr(r, o) \/ Expire(r, o)
  <2>1. /\ req[r].pc \in {"incr", "expire"} 
        /\ \/ Sets(r, {"pc", "answer"}) /\ req'[r].pc = "done"
           \/ Sets(r, {"pc", "admitted"}) /\ req'[r].pc \in {Handler(req[r].op), "expire"}
    <3>1. CASE Incr(r, o)
      <4>1. req[r].pc = "incr"
        BY <3>1 DEF Incr
      <4> QED BY <1>1, <3>1, <4>1, IncrSets
    <3>2. CASE Expire(r, o)
      <4>1. req[r].pc = "expire" /\ Sets(r, {"pc"}) /\ req'[r].pc = Handler(req[r].op)
        BY <1>1, <3>2, ExpireSets
      <4> QED BY <4>1 DEF Sets
    <3> QED BY <1>6, <3>1, <3>2
  <2>2. UNCHANGED audit
    BY <1>6 DEF Incr, Expire
  <2>3. Only(r) /\ req'[r].live = req[r].live /\ req'[r].changed = req[r].changed
    BY <2>1 DEF Sets, Fields
  <2>4. req'[r].pc \notin {"resolve", "record"}
    BY <2>1, HandlerIs
  <2>5. AuditOK(req[r])'
    BY <2>4 DEF AuditOK
  <2> QED BY <1>1, <1>4, <2>1, <2>2, <2>3, <2>5, AuditFrame DEF AnswerOK, Early
<1>7. CASE \E a \in Agents : Insert(r, a, o)
  <2>1. /\ req[r].pc = "insert" /\ UNCHANGED audit
        /\ \/ Sets(r, {"pc", "changed"}) /\ req'[r].pc = "announce"
           \/ Ends(r, {"pc", "answer", "changed"})
    BY <1>1, <1>7, InsertSets DEF Insert
  <2>2. Audited(req[r].op)
    BY <1>1, <2>1 DEF HandlerOK, Audited
  <2>3. CASE Ends(r, {"pc", "answer", "changed"})
    BY <1>4, <2>1, <2>2, <2>3, EndsAudit, AuditFrame
  <2>4. CASE Sets(r, {"pc", "changed"}) /\ req'[r].pc = "announce"
    <3>1. Only(r) /\ req'[r].live = req[r].live
      BY <2>4 DEF Sets, Fields
    <3>2. AuditOK(req[r])'
      BY <2>4 DEF AuditOK
    <3> QED BY <1>4, <2>1, <2>4, <3>1, <3>2, AuditFrame
  <2> QED BY <2>1, <2>3, <2>4
<1>8. CASE Announce(r, o) \/ Write(r, o) \/ Delete(r, o)
  <2>1. req[r].pc \in {"announce", "write", "delete"} /\ Ends(r, {"pc", "answer", "changed"})
    BY <1>1, <1>8, AnnounceSets, WriteSets, DeleteSets
  <2>2. Audited(req[r].op)
    BY <1>1, <2>1 DEF HandlerOK, Audited
  <2>3. UNCHANGED audit
    BY <1>8 DEF Announce, Write, Delete
  <2> QED BY <1>4, <2>1, <2>2, <2>3, EndsAudit, AuditFrame
<1>9. CASE List(r, o) \/ Query(r, o)
  <2>1. req[r].pc \in {"list", "query"} /\ Ends(r, {"pc", "answer", "found"})
    BY <1>1, <1>9, ListSets, QuerySets
  <2>2. ~ req[r].changed /\ req'[r].changed = req[r].changed
    BY <1>1, <2>1 DEF AnswerOK, Early, Ends, Sets, Fields
  <2>3. UNCHANGED audit
    BY <1>9 DEF List, Query
  <2> QED BY <1>4, <2>1, <2>2, <2>3, EndsAudit, AuditFrame
<1>10. CASE Get(r, o)
  <2>1. /\ req[r].pc = "get" /\ Ends(r, {"pc", "answer", "changed"})
        /\ req'[r].changed <=> req[r].changed
    BY <1>1, <1>10, GetSets
  <2>2. ~ req[r].changed
    BY <1>1, <2>1 DEF AnswerOK, Early
  <2>3. UNCHANGED audit
    BY <1>10 DEF Get
  <2> QED BY <1>4, <2>1, <2>2, <2>3, EndsAudit, AuditFrame
<1>11. CASE Read(r, o)
  <2>1. /\ req[r].pc = "read"
        /\ \/ Sets(r, {"pc", "beat", "at"}) /\ req'[r].pc = "write"
           \/ Ends(r, {"pc", "answer", "changed"}) /\ (req'[r].changed <=> req[r].changed)
    BY <1>1, <1>11, ReadSets
  <2>2. ~ req[r].changed
    BY <1>1, <2>1 DEF AnswerOK, Early
  <2>3. UNCHANGED audit
    BY <1>11 DEF Read
  <2>4. CASE Sets(r, {"pc", "beat", "at"}) /\ req'[r].pc = "write"
    <3>1. Only(r) /\ req'[r].live = req[r].live
      BY <2>4 DEF Sets, Fields
    <3>2. AuditOK(req[r])'
      BY <2>4 DEF AuditOK
    <3> QED BY <1>4, <2>3, <2>4, <3>1, <3>2, AuditFrame
  <2> QED BY <1>4, <2>1, <2>2, <2>3, <2>4, EndsAudit, AuditFrame
<1>12. CASE Heartbeat(r, o)
  <2>1. /\ Sets(r, {"pc", "at", "answer", "changed"})
        /\ req'[r].pc = "resolve" /\ req'[r].answer # NoCode
    BY <1>1, <1>12, HeartbeatSets
  <2>2. Only(r) /\ req'[r].live = req[r].live
    BY <2>1 DEF Sets, Fields
  <2>3. AuditOK(req[r])'
    BY <2>1 DEF AuditOK
  <2>4. UNCHANGED audit
    BY <1>12 DEF Heartbeat
  <2> QED BY <1>4, <2>1, <2>2, <2>3, <2>4, AuditFrame
<1>13. CASE Resolve(r, o)
  <2>1. /\ req[r].pc = "resolve" /\ Sets(r, {"pc", "by"}) /\ req'[r].pc = "record"
        /\ req'[r].by = Nobody \/ Registered(req'[r].by)
    BY <1>1, <1>13, ResolveSets
  <2>2. Only(r) /\ req'[r].live = req[r].live /\ req'[r].answer = req[r].answer
    BY <2>1 DEF Sets, Fields
  <2>3. UNCHANGED <<agents, audit>>
    BY <1>13 DEF Resolve
  <2>4. AuditOK(req[r])'
    BY <1>1, <2>1, <2>2, <2>3 DEF AuditOK, Registered
  <2> QED BY <1>4, <2>1, <2>2, <2>3, <2>4, AuditFrame
<1>14. CASE Record(r, o)
  <2>1. req[r].pc = "record" /\ Sets(r, {"pc"}) /\ req'[r].pc = "done"
    BY <1>1, <1>14, RecordSets
  <2>2. Only(r) /\ req'[r].live = req[r].live /\ req'[r].changed = req[r].changed
    BY <2>1 DEF Sets, Fields
  <2>3. AuditOK(req[r])'
    BY <2>1 DEF AuditOK
  <2>4. PICK row : row = [agent |-> req[r].by, status |-> req[r].answer]
    OBVIOUS
  <2>5. row.agent = req[r].by /\ row # NotAudited
    BY <1>1, <2>1, <2>4 DEF AuditOK, NotAudited
  <2>6. audit' = IF Took(o) /\ Storable(r) /\ (row.agent = Nobody \/ Registered(row.agent))
                 THEN [audit EXCEPT ![r] = row] ELSE audit
    BY <1>14, <2>4, Zenon DEF Record, CreateAuditLog
  <2>7. audit' = IF Took(o) /\ Storable(r) THEN [audit EXCEPT ![r] = row] ELSE audit
    BY <1>1, <2>1, <2>5, <2>6 DEF AuditOK
  <2>8. audit \in [Requests -> AuditRow]
    BY DEF RestOK
  <2>9. \A q \in Requests : q # r => audit'[q] = audit[q]
    BY <2>7, <2>8
  <2>10. Took(o) /\ Storable(r) => audit'[r] = row
    BY <2>7, <2>8
  <2>11. ~ Took(o) => o \in {"lost", "refused"}
    BY DEF Took, Outcome
  <2>12. Spent' = Spent + 1 \/ (r \in Unpaid' => r \in Unpaid)
    <3>1. CASE Took(o)
      BY <2>2, <2>5, <2>10, <3>1 DEF Unpaid
    <3>2. CASE o = "lost"
      BY <1>4, <3>2
    <3>3. CASE o = "refused"
      BY <1>4, <3>3 DEF Unpaid
    <3> QED BY <2>11, <3>1, <3>2, <3>3
  <2> QED BY <1>4, <2>2, <2>3, <2>9, <2>12, AuditStep
<1> QED BY <1>5, <1>6, <1>7, <1>8, <1>9, <1>10, <1>11, <1>12, <1>13, <1>14, Zenon DEF Serve

LEMMA AuditNext ==
  ASSUME IsFiniteSet(Agents), GatewayInv, RestOK, AuditInv, [GatewayNext]_gatewayVars
  PROVE  AuditInv'
<1>0. Grows
  BY NextGrows
<1>1. req \in [Requests -> Request] /\ faults \in Nat /\ interruptions \in Nat
  BY DEF GatewayInv, TypesOK, RestOK
<1>2. CASE UNCHANGED <<faults, agents, req, audit, interruptions>>
  <2>1. Spent' = Spent /\ Unpaid' = Unpaid
    BY <1>2 DEF Spent, Unpaid
  <2>2. \A r \in Requests : AuditOK(req[r])'
    BY <1>2 DEF AuditInv, AuditOK, Registered
  <2> QED BY <2>1, <2>2 DEF AuditInv
<1>3. ASSUME NEW r \in Requests, NEW op \in Ops, Arrive(r, op) PROVE AuditInv'
  <2>1. /\ Only(r) /\ req'[r].pc \in {"authenticate", "done"} /\ req'[r].live = TRUE
        /\ req'[r].changed = FALSE
    BY <1>1, <1>3, ArriveSets
  <2>2. UNCHANGED <<faults, interruptions, audit>>
    BY <1>3 DEF Arrive
  <2>3. Spent \in Nat /\ Spent' = Spent
    BY <1>1, <2>2 DEF Spent
  <2>4. AuditOK(req[r])'
    BY <2>1 DEF AuditOK
  <2> QED BY <1>0, <2>1, <2>2, <2>3, <2>4, AuditFrame
<1>4. ASSUME NEW r \in Requests, Disconnect(r) \/ Die(r) PROVE AuditInv'
  <2>1. UNCHANGED <<faults, audit, agents>> /\ interruptions' = interruptions + 1
    BY <1>4 DEF Disconnect, Die
  <2>2. Spent \in Nat /\ Spent' \in Nat /\ Spent' = Spent + 1
    BY <2>1, InterruptionPays
  <2>3. Sets(r, {"live"}) \/ (Sets(r, {"pc"}) /\ req'[r].pc = "done")
    BY <1>1, <1>4, DieSets, DisconnectSets
  <2>4. Only(r)
    BY <2>3 DEF Sets
  <2>5. AuditOK(req[r])'
    <3>1. AuditOK(req[r])
      BY DEF AuditInv
    <3>2. CASE Sets(r, {"live"})
      <4>1. req'[r].pc = req[r].pc /\ req'[r].answer = req[r].answer /\ req'[r].by = req[r].by
        BY <3>2 DEF Sets, Fields
      <4> QED BY <2>1, <3>1, <4>1 DEF AuditOK, Registered
    <3>3. CASE req'[r].pc = "done"
      BY <3>3 DEF AuditOK
    <3> QED BY <2>3, <3>2, <3>3
  <2> QED BY <1>0, <2>1, <2>2, <2>4, <2>5, AuditStep
<1>5. ASSUME NEW r \in Requests, NEW o \in Outcome, Serve(r, o) PROVE AuditInv'
  BY <1>0, <1>5, ServeAudit
<1>6. UNCHANGED gatewayVars => UNCHANGED <<faults, agents, req, audit, interruptions>>
  BY DEF gatewayVars
<1> QED BY <1>2, <1>3, <1>4, <1>5, <1>6, Zenon DEF GatewayNext

LEMMA AuditInit == ASSUME GatewayInit PROVE AuditInv
<1>1. req = [r \in Requests |-> NewRequest] /\ faults = 0 /\ interruptions = 0
  BY DEF GatewayInit
<1>2. NewRequest.pc = "new" /\ NewRequest.live = TRUE
  BY DEF NewRequest
<1>3. Unpaid = {}
  BY <1>1, <1>2 DEF Unpaid
<1>4. \A r \in Requests : AuditOK(req[r])
  BY <1>1, <1>2 DEF AuditOK
<1> QED BY <1>1, <1>3, <1>4, FS_EmptySet DEF AuditInv, Spent

\* One step, as the counters see it: at most one more of them is stuck, and
\* only at a price.
LEMMA ExpiryStep ==
  ASSUME ExpiryInv, NEW k, Spent \in Nat, Spent' \in Nat, Spent <= Spent',
         Stuck' \subseteq Stuck \cup {k},
         Spent' = Spent + 1 \/ (k \in Stuck' => k \in Stuck)
  PROVE  ExpiryInv'
<1>1. IsFiniteSet(Stuck) /\ Cardinality(Stuck) <= Spent
  BY DEF ExpiryInv
<1>2. /\ IsFiniteSet(Stuck') /\ Cardinality(Stuck) \in Nat /\ Cardinality(Stuck') \in Nat
      /\ Cardinality(Stuck') <= Cardinality(Stuck) + 1
      /\ Stuck' \subseteq Stuck => Cardinality(Stuck') <= Cardinality(Stuck)
  BY <1>1, OneMore
<1>3. Cardinality(Stuck') <= Spent'
  BY <1>1, <1>2
<1> QED BY <1>2, <1>3 DEF ExpiryInv

\* The other requests set what they were going to set.
LEMMA OthersExpire ==
  ASSUME NEW r \in Requests, Only(r), NEW k, \E q \in Requests : q # r /\ Expires(q, k)
  PROVE  \E q \in Requests : Expires(q, k)'
BY DEF Only, Expires, KeyOf

\* Most steps do not count.
LEMMA ExpiryFrame ==
  ASSUME ExpiryInv, UNCHANGED window, NEW r \in Requests, Only(r), req[r].pc # "expire",
         Spent \in Nat, Spent' \in Nat, Spent <= Spent'
  PROVE  ExpiryInv'
<1>1. ASSUME NEW k \in Stuck' PROVE k \in Stuck
  <2>1. ASSUME NEW q \in Requests, Expires(q, k) PROVE \E p \in Requests : Expires(p, k)'
    <3>1. q # r
      BY <2>1 DEF Expires
    <3> QED BY <2>1, <3>1, OthersExpire
  <2>2. k \in Key /\ window[k] # NoCounter /\ window[k].expires = NoTTL
    BY DEF Stuck
  <2>3. ~ \E p \in Requests : Expires(p, k)'
    BY DEF Stuck
  <2> QED BY <2>1, <2>2, <2>3 DEF Stuck
<1>2. Stuck' \subseteq Stuck \cup {0} /\ (0 \in Stuck' => 0 \in Stuck)
  BY <1>1
<1> QED BY <1>2, ExpiryStep

\* A counter whose request does not set it is the only one that may get stuck.
LEMMA OneStuck ==
  ASSUME NEW r \in Requests, Only(r),
         \A k \in Key : k # KeyOf(r) => window'[k] = window[k]
  PROVE  Stuck' \subseteq Stuck \cup {KeyOf(r)}
<1> SUFFICES ASSUME NEW k \in Stuck', k # KeyOf(r) PROVE k \in Stuck
  OBVIOUS
<1>1. k \in Key /\ window'[k] # NoCounter /\ window'[k].expires = NoTTL
  BY DEF Stuck
<1>2. ~ \E p \in Requests : Expires(p, k)'
  BY DEF Stuck
<1>3. window'[k] = window[k]
  BY <1>1
<1>4. ASSUME NEW q \in Requests, Expires(q, k) PROVE q # r
  BY <1>4 DEF Expires
<1>5. ~ \E q \in Requests : Expires(q, k)
  BY <1>2, <1>4, OthersExpire
<1> QED BY <1>1, <1>3, <1>5 DEF Stuck

LEMMA IncrExpiry ==
  ASSUME GatewayInv, RestOK, ExpiryInv, NEW r \in Requests, NEW o \in Outcome, Incr(r, o)
  PROVE  ExpiryInv'
<1>1. req \in [Requests -> Request] /\ window \in [Key -> Counter]
  BY RequestFacts DEF RestOK, LimiterTypeOK
<1>2. req[r].live \in BOOLEAN
  BY <1>1 DEF Request
<1>3. Call(o, req[r].live) /\ UNCHANGED interruptions /\ req[r].pc = "incr"
  BY DEF Incr
<1>4. /\ Spent \in Nat /\ Spent' \in Nat /\ Spent <= Spent'
      /\ o \in {"lost", "unanswered"} => Spent' = Spent + 1
      /\ o = "ok" => req[r].live
  BY <1>2, <1>3, CallPays
<1>5. PICK k : k = KeyOf(r)
  OBVIOUS
<1>6. window' = IF Took(o) THEN [window EXCEPT ![k].count = @ + 1] ELSE window
  BY <1>5, Zenon DEF Incr, IncrKey
<1>7. \A j \in Key : j # k => window'[j] = window[j]
  BY <1>1, <1>6
<1>8. \E n : /\ n = window[k].count + 1
             /\ \/ o # "ok" /\ Only(r)
                \/ /\ o = "ok" /\ n = 1 /\ Sets(r, {"pc", "admitted"}) /\ req'[r].pc = "expire"
                \/ /\ o = "ok" /\ n > Limit /\ Only(r)
                \/ /\ o = "ok" /\ n > 1 /\ Only(r)
  BY <1>1, <1>5, IncrSets DEF Sets
<1>9. Only(r)
  BY <1>8 DEF Sets
<1>10. Stuck' \subseteq Stuck \cup {k}
  BY <1>5, <1>7, <1>9, OneStuck
<1>11. CASE o # "ok"
  <2>1. CASE o \in {"lost", "unanswered"}
    BY <1>4, <1>10, <2>1, ExpiryStep
  <2>2. CASE o = "refused"
    <3>1. UNCHANGED window
      BY <1>6, <2>2 DEF Took
    <3> QED BY <1>3, <1>4, <1>9, <3>1, ExpiryFrame
  <2> QED BY <1>11, <2>1, <2>2 DEF Outcome
<1>12. CASE o = "ok" /\ k \in Stuck'
  <2>1. k \in Key /\ window'[k].expires = NoTTL /\ ~ \E q \in Requests : Expires(q, k)'
    BY <1>12 DEF Stuck
  <2>2. window' = [window EXCEPT ![k].count = @ + 1] /\ window[k] \in Counter
    BY <1>1, <1>6, <1>12, <2>1 DEF Took
  <2>3. window[k].expires = NoTTL /\ window[k].count \in Nat
    BY <1>1, <2>1, <2>2 DEF Counter
  <2>4. window[k].count # 0
    <3>1. ASSUME Sets(r, {"pc", "admitted"}), req'[r].pc = "expire" PROVE FALSE
      <4>1. /\ req'[r].live = req[r].live /\ req'[r].caller = req[r].caller
            /\ req'[r].op = req[r].op /\ req'[r].slot = req[r].slot
        BY <3>1 DEF Sets, Fields
      <4>2. Expires(r, k)'
        BY <1>4, <1>5, <1>12, <3>1, <4>1 DEF Expires, KeyOf
      <4> QED BY <2>1, <4>2
    <3>2. \E n : /\ n = window[k].count + 1
                 /\ n > Limit \/ n > 1
      BY <1>8, <1>12, <3>1
    <3> QED BY <2>3, <3>2, LimiterAssumption
  <2>5. window[k] # NoCounter
    BY <2>4 DEF NoCounter
  <2>6. ~ \E q \in Requests : Expires(q, k)
    <3>1. ASSUME NEW q \in Requests, Expires(q, k) PROVE q # r
      BY <1>3, <3>1 DEF Expires
    <3> QED BY <1>9, <2>1, <3>1, OthersExpire
  <2>7. k \in Stuck
    BY <2>1, <2>3, <2>5, <2>6 DEF Stuck
  <2> QED BY <1>4, <1>10, <2>7, ExpiryStep
<1>13. CASE k \notin Stuck'
  BY <1>4, <1>10, <1>13, ExpiryStep
<1> QED BY <1>11, <1>12, <1>13

LEMMA ExpireExpiry ==
  ASSUME GatewayInv, RestOK, ExpiryInv, NEW r \in Requests, NEW o \in Outcome, Expire(r, o)
  PROVE  ExpiryInv'
<1>1. req \in [Requests -> Request] /\ window \in [Key -> Counter] /\ clock \in Nat
  BY RequestFacts DEF RestOK, LimiterTypeOK
<1>2. req[r].live \in BOOLEAN
  BY <1>1 DEF Request
<1>3. Call(o, req[r].live) /\ UNCHANGED interruptions /\ ExpireKey(KeyOf(r), o)
  BY DEF Expire
<1>4. /\ Spent \in Nat /\ Spent' \in Nat /\ Spent <= Spent'
      /\ o \in {"lost", "unanswered"} => Spent' = Spent + 1
      /\ o = "refused" => ~ req[r].live
  BY <1>2, <1>3, CallPays
<1>5. PICK k : k = KeyOf(r)
  OBVIOUS
<1>6. window' = IF Took(o) /\ window[k] # NoCounter
                THEN [window EXCEPT ![k].expires = clock + Window] ELSE window
  BY <1>3, <1>5, Zenon DEF ExpireKey
<1>7. \A j \in Key : j # k => window'[j] = window[j]
  BY <1>1, <1>6
<1>8. Only(r)
  BY <1>1, ExpireSets DEF Sets
<1>9. Stuck' \subseteq Stuck \cup {k}
  BY <1>5, <1>7, <1>8, OneStuck
<1>10. CASE o \in {"lost", "unanswered"}
  BY <1>4, <1>9, <1>10, ExpiryStep
<1>11. CASE o = "ok"
  <2>1. k \notin Stuck'
    <3>1. CASE k \in Key /\ window[k] # NoCounter
      <4>1. window'[k].expires = clock + Window
        BY <1>1, <1>6, <1>11, <3>1 DEF Took, Counter
      <4> QED BY <1>1, <4>1, LimiterAssumption DEF Stuck, NoTTL
    <3>2. CASE k \in Key /\ window[k] = NoCounter
      BY <1>6, <3>2 DEF Stuck
    <3> QED BY <3>1, <3>2 DEF Stuck
  <2> QED BY <1>4, <1>9, <2>1, ExpiryStep
<1>12. CASE o = "refused"
  <2>1. UNCHANGED window
    BY <1>6, <1>12 DEF Took
  <2>2. ASSUME k \in Stuck' PROVE k \in Stuck
    <3>1. k \in Key /\ window[k] # NoCounter /\ window[k].expires = NoTTL
      BY <2>1, <2>2 DEF Stuck
    <3>2. ~ \E q \in Requests : Expires(q, k)'
      BY <2>2 DEF Stuck
    <3>3. ASSUME NEW q \in Requests, Expires(q, k) PROVE q # r
      BY <1>4, <1>12, <3>3 DEF Expires
    <3>4. ~ \E q \in Requests : Expires(q, k)
      BY <1>8, <3>2, <3>3, OthersExpire
    <3> QED BY <3>1, <3>4 DEF Stuck
  <2> QED BY <1>4, <1>9, <2>2, ExpiryStep
<1> QED BY <1>10, <1>11, <1>12 DEF Outcome

\* Time passes: counters are removed, and none gets stuck.
LEMMA TickExpiry ==
  ASSUME GatewayInv, RestOK, ExpiryInv, Tick, UNCHANGED <<faults, agents, req, audit, interruptions>>
  PROVE  ExpiryInv'
<1>1. faults \in Nat /\ interruptions \in Nat
  BY DEF RestOK
<1>2. Spent \in Nat /\ Spent' = Spent
  BY <1>1 DEF Spent
<1>3. ASSUME NEW k \in Stuck' PROVE k \in Stuck
  <2>1. k \in Key /\ window'[k] # NoCounter /\ window'[k].expires = NoTTL
    BY DEF Stuck
  <2>2. window'[k] = NoCounter \/ window'[k] = window[k]
    BY <2>1 DEF Tick
  <2>3. ~ \E q \in Requests : Expires(q, k)'
    BY DEF Stuck
  <2>4. \A q \in Requests : Expires(q, k) => Expires(q, k)'
    BY DEF Expires, KeyOf
  <2> QED BY <2>1, <2>2, <2>3, <2>4 DEF Stuck
<1>4. Stuck' \subseteq Stuck \cup {0} /\ (0 \in Stuck' => 0 \in Stuck)
  BY <1>3
<1> QED BY <1>2, <1>4, ExpiryStep

LEMMA ExpiryNext ==
  ASSUME GatewayInv, RestOK, ExpiryInv, [GatewayNext]_gatewayVars
  PROVE  ExpiryInv'
<1>1. req \in [Requests -> Request] /\ faults \in Nat /\ interruptions \in Nat
  BY RequestFacts DEF GatewayInv, TypesOK, RestOK
<1>2. CASE UNCHANGED gatewayVars
  <2>1. Spent' = Spent /\ Stuck' = Stuck
    BY <1>2 DEF gatewayVars, Spent, Stuck, Expires, KeyOf
  <2> QED BY <2>1 DEF ExpiryInv
<1>3. CASE Tick /\ UNCHANGED <<faults, agents, req, audit, interruptions>>
  BY <1>3, TickExpiry
<1>4. ASSUME NEW r \in Requests, NEW op \in Ops, Arrive(r, op) PROVE ExpiryInv'
  <2>1. Only(r) /\ req[r].pc = "new"
    BY <1>1, <1>4, ArriveSets
  <2>2. UNCHANGED <<faults, interruptions, window>>
    BY <1>4 DEF Arrive
  <2>3. Spent \in Nat /\ Spent' = Spent
    BY <1>1, <2>2 DEF Spent
  <2> QED BY <2>1, <2>2, <2>3, ExpiryFrame
<1>5. ASSUME NEW r \in Requests, Disconnect(r) \/ Die(r) PROVE ExpiryInv'
  <2>1. UNCHANGED <<faults, window>> /\ interruptions' = interruptions + 1
    BY <1>5 DEF Disconnect, Die
  <2>2. Spent \in Nat /\ Spent' \in Nat /\ Spent' = Spent + 1
    BY <2>1, InterruptionPays
  <2>3. Only(r)
    BY <1>1, <1>5, DieSets, DisconnectSets DEF Sets
  <2>4. Stuck' \subseteq Stuck \cup {KeyOf(r)}
    BY <2>1, <2>3, OneStuck
  <2> QED BY <2>2, <2>4, ExpiryStep
<1>6. ASSUME NEW r \in Requests, NEW o \in Outcome, Serve(r, o) PROVE ExpiryInv'
  <2>1. CASE Incr(r, o)
    BY <2>1, IncrExpiry
  <2>2. CASE Expire(r, o)
    BY <2>2, ExpireExpiry
  <2>3. CASE \/ Authenticate(r, o) \/ (\E a \in Agents : Insert(r, a, o))
             \/ Announce(r, o) \/ List(r, o) \/ Get(r, o) \/ Query(r, o)
             \/ Read(r, o) \/ Write(r, o) \/ Delete(r, o) \/ Heartbeat(r, o)
             \/ Resolve(r, o) \/ Record(r, o)
    <3>1. UNCHANGED <<window, interruptions>> /\ Call(o, req[r].live) /\ req[r].pc # "expire"
      BY <2>3 DEF Authenticate, Insert, Announce, List, Get, Query, Read, Write, Delete,
                  Heartbeat, Resolve, Record
    <3>2. Only(r)
      BY <1>1, <2>3, AuthenticateSets, InsertSets, AnnounceSets, ListSets, GetSets, QuerySets,
         ReadSets, WriteSets, DeleteSets, HeartbeatSets, ResolveSets, RecordSets, Zenon
         DEF Sets, Ends
    <3>3. req[r].live \in BOOLEAN
      BY <1>1 DEF Request
    <3>4. Spent \in Nat /\ Spent' \in Nat /\ Spent <= Spent'
      BY <3>1, <3>3, CallPays
    <3> QED BY <3>1, <3>2, <3>4, ExpiryFrame
  <2> QED BY <1>6, <2>1, <2>2, <2>3, Zenon DEF Serve
<1> QED BY <1>2, <1>3, <1>4, <1>5, <1>6, Zenon DEF GatewayNext

LEMMA ExpiryInit == ASSUME GatewayInit PROVE ExpiryInv
<1>1. window = [k \in Key |-> NoCounter] /\ faults = 0 /\ interruptions = 0
  BY DEF GatewayInit, LimiterInit
<1>2. Stuck = {}
  BY <1>1 DEF Stuck
<1> QED BY <1>1, <1>2, FS_EmptySet DEF ExpiryInv, Spent

-----------------------------------------------------------------------------
(* Slots of the clock.                                                      *)

LEMMA Quotient ==
  ASSUME NEW a \in Nat, NEW w \in Nat \ {0}
  PROVE  a \div w \in Nat /\ (a \div w) * w <= a /\ a < (a \div w) * w + w
OBVIOUS

LEMMA Multiples ==
  ASSUME NEW p \in Nat, NEW q \in Nat, NEW w \in Nat \ {0}, p < q
  PROVE  p * w + w <= q * w
OBVIOUS

\* A later time is not in an earlier slot.
LEMMA SlotsGrow ==
  ASSUME NEW a \in Nat, NEW b \in Nat, a <= b, NEW w \in Nat \ {0}
  PROVE  a \div w <= b \div w
<1> PICK p \in Nat, q \in Nat : p = a \div w /\ q = b \div w
  BY Quotient
<1>1. p * w <= a /\ b < q * w + w
  BY Quotient
<1>2. p * w \in Nat /\ q * w \in Nat
  OBVIOUS
<1>3. q < p => q * w + w <= p * w
  BY Multiples
<1> QED BY <1>1, <1>2, <1>3

\* After a window's time it is another slot.
LEMMA SlotsEnd ==
  ASSUME NEW a \in Nat, NEW w \in Nat \ {0}
  PROVE  a \div w < (a + w) \div w
<1> PICK p \in Nat, q \in Nat : p = a \div w /\ q = (a + w) \div w
  BY Quotient
<1>1. p * w <= a /\ a + w < q * w + w
  BY Quotient
<1>2. p * w \in Nat /\ q * w \in Nat
  OBVIOUS
<1>3. q < p => q * w + w <= p * w
  BY Multiples
<1>4. p = q => p * w = q * w
  OBVIOUS
<1> QED BY <1>1, <1>2, <1>3, <1>4

LEMMA SlotFacts ==
  ASSUME clock \in Nat
  PROVE  Slot \in Nat
BY Quotient, LimiterAssumption DEF Slot

-----------------------------------------------------------------------------
(* The limit.                                                               *)

\* What the lemmas below start from.
LEMMA LimitFacts ==
  ASSUME GatewayInv, LimitInv, NEW r \in Requests
  PROVE  /\ req[r].slot \in Nat /\ req[r].slot <= Slot
         /\ req[r].pc \in {"new", "authenticate", "incr"} => ~ req[r].admitted
<1>1. TimelyOK(req[r])
  BY DEF LimitInv, SlotsOK
<1>2. req[r].slot <= Slot
  BY <1>1, Zenon DEF TimelyOK
<1>3. req[r].pc \in {"new", "authenticate", "incr"} => ~ req[r].admitted
  BY <1>1, Zenon DEF TimelyOK
<1>4. req[r].slot \in Nat
  BY RequestFacts DEF Request
<1> QED BY <1>2, <1>3, <1>4, Zenon

\* A step of one request, in the same slot.
LEMMA SlotsKept ==
  ASSUME GatewayInv, LimitInv, NEW r \in Requests, Only(r), UNCHANGED clock,
         req'[r].slot <= Slot,
         req'[r].pc \in {"new", "authenticate", "incr"} => ~ req'[r].admitted,
         \A k \in Key : OutlivesOK(k)'
  PROVE  SlotsOK'
<1>1. Slot' = Slot
  BY DEF Slot
<1>2. TimelyOK(req[r])'
  <2>1. req'[r].slot <= Slot'
    BY <1>1
  <2> QED BY <2>1, Zenon DEF TimelyOK
<1>3. ASSUME NEW q \in Requests, q # r PROVE TimelyOK(req[q])'
  <2>1. req'[q] = req[q]
    BY <1>3 DEF Only
  <2>2. TimelyOK(req[q])
    BY DEF LimitInv, SlotsOK
  <2>3. req[q].slot <= Slot' /\ (req[q].pc \in {"new", "authenticate", "incr"} => ~ req[q].admitted)
    <3>1. req[q].slot <= Slot
      BY LimitFacts
    <3>2. req[q].slot <= Slot'
      BY <1>1, <3>1
    <3> QED BY <3>2, LimitFacts, Zenon
  <2> QED BY <2>1, <2>3, Zenon DEF TimelyOK
<1> QED BY <1>2, <1>3 DEF SlotsOK

\* The requests of the others.
LEMMA OthersSame ==
  ASSUME NEW r \in Requests, Only(r), NEW q \in Requests, q # r
  PROVE  req'[q] = req[q] /\ KeyOf(q)' = KeyOf(q)
BY DEF Only, KeyOf

\* A request is cancelled only at the price of an interruption.
CancelledOK == IsFiniteSet(Cancelled) /\ Cardinality(Cancelled) <= interruptions

LEMMA CancelledKept ==
  ASSUME CancelledOK, interruptions \in Nat, UNCHANGED interruptions, Cancelled' \subseteq Cancelled
  PROVE  CancelledOK'
<1>1. Cancelled' \subseteq Cancelled \cup {0}
  OBVIOUS
<1>2. /\ IsFiniteSet(Cancelled') /\ Cardinality(Cancelled) \in Nat /\ Cardinality(Cancelled') \in Nat
      /\ Cardinality(Cancelled') <= Cardinality(Cancelled)
  BY <1>1, OneMore DEF CancelledOK
<1> QED BY <1>2 DEF CancelledOK

LEMMA CancelledPaid ==
  ASSUME CancelledOK, interruptions \in Nat, interruptions' = interruptions + 1,
         NEW r, Cancelled' \subseteq Cancelled \cup {r}
  PROVE  CancelledOK'
<1>1. /\ IsFiniteSet(Cancelled') /\ Cardinality(Cancelled) \in Nat /\ Cardinality(Cancelled') \in Nat
      /\ Cardinality(Cancelled') <= Cardinality(Cancelled) + 1
  BY OneMore DEF CancelledOK
<1> QED BY <1>1 DEF CancelledOK

\* Nobody more passes.
LEMMA PassedKept ==
  ASSUME NEW k \in Key, PassedOK(k), Passed(k)' \subseteq Passed(k),
         faults \in Nat, faults' = faults \/ faults' = faults + 1,
         window[k].count \in Nat, window'[k].count \in Nat,
         k[3] = Slot' => k[3] = Slot /\ window[k].count <= window'[k].count
  PROVE  PassedOK(k)'
<1>1. IsFiniteSet(Passed(k)) /\ Cardinality(Passed(k)) <= Limit + faults
  BY DEF PassedOK
<1>2. Passed(k)' \subseteq Passed(k) \cup {0}
  OBVIOUS
<1>3. /\ IsFiniteSet(Passed(k)') /\ Cardinality(Passed(k)) \in Nat
      /\ Cardinality(Passed(k)') \in Nat /\ Cardinality(Passed(k)') <= Cardinality(Passed(k))
  BY <1>1, <1>2, OneMore
<1>4. Cardinality(Passed(k)') <= Limit + faults'
  BY <1>1, <1>3, LimiterAssumption
<1>5. ASSUME k[3] = Slot' PROVE Cardinality(Passed(k)') <= window'[k].count + faults'
  <2>1. Cardinality(Passed(k)) <= window[k].count + faults
    BY <1>5 DEF PassedOK
  <2> QED BY <1>3, <1>5, <2>1
<1> QED BY <1>3, <1>4, <1>5 DEF PassedOK

\* Most steps let nobody pass.
LEMMA LimitFrame ==
  ASSUME GatewayInv, RestOK, LimitInv, UNCHANGED <<window, clock>>, NEW r \in Requests, Only(r),
         faults' = faults \/ faults' = faults + 1, UNCHANGED interruptions,
         req[r].live => req'[r].live,
         ~ req'[r].admitted \/ (/\ req'[r].admitted = req[r].admitted /\ req'[r].live = req[r].live
                                /\ KeyOf(r)' = KeyOf(r)),
         req'[r].slot <= Slot,
         req'[r].pc \in {"new", "authenticate", "incr"} => ~ req'[r].admitted
  PROVE  LimitInv'
<1>0. faults \in Nat /\ interruptions \in Nat /\ window \in [Key -> Counter]
  BY DEF RestOK, LimiterTypeOK
<1>1. Slot' = Slot
  BY DEF Slot
<1>2. SlotsOK'
  <2>1. \A k \in Key : OutlivesOK(k)'
    BY DEF LimitInv, SlotsOK, OutlivesOK
  <2> QED BY <2>1, SlotsKept
<1>3. CancelledOK'
  <2>1. Cancelled' \subseteq Cancelled
    BY DEF Cancelled, Only
  <2> QED BY <1>0, <2>1, CancelledKept DEF CancelledOK, LimitInv
<1>4. ASSUME NEW k \in Key PROVE PassedOK(k)'
  <2>1. Passed(k)' \subseteq Passed(k)
    BY OthersSame DEF Passed
  <2>2. window[k].count \in Nat
    BY <1>0 DEF Counter
  <2>3. PassedOK(k)
    BY DEF LimitInv
  <2> QED BY <1>0, <1>1, <2>1, <2>2, <2>3, PassedKept
<1> QED BY <1>2, <1>3, <1>4 DEF LimitInv, CancelledOK

\* One more passes without having been counted: its INCR has failed.
LEMMA PassedUncounted ==
  ASSUME NEW k \in Key, PassedOK(k), NEW r, Passed(k)' \subseteq Passed(k) \cup {r},
         faults \in Nat, faults' = faults + 1,
         window[k].count \in Nat, window'[k].count \in Nat,
         k[3] = Slot' => k[3] = Slot /\ window[k].count <= window'[k].count
  PROVE  PassedOK(k)'
<1>1. IsFiniteSet(Passed(k)) /\ Cardinality(Passed(k)) <= Limit + faults
  BY DEF PassedOK
<1>2. /\ IsFiniteSet(Passed(k)') /\ Cardinality(Passed(k)) \in Nat
      /\ Cardinality(Passed(k)') \in Nat /\ Cardinality(Passed(k)') <= Cardinality(Passed(k)) + 1
  BY <1>1, OneMore
<1>3. Cardinality(Passed(k)') <= Limit + faults'
  BY <1>1, <1>2, LimiterAssumption
<1>4. ASSUME k[3] = Slot' PROVE Cardinality(Passed(k)') <= window'[k].count + faults'
  <2>1. Cardinality(Passed(k)) <= window[k].count + faults
    BY <1>4 DEF PassedOK
  <2> QED BY <1>2, <1>4, <2>1
<1> QED BY <1>2, <1>3, <1>4 DEF PassedOK

\* One more passes, and is counted.
LEMMA PassedCounted ==
  ASSUME NEW k \in Key, PassedOK(k), NEW r, Passed(k)' \subseteq Passed(k) \cup {r},
         faults \in Nat, faults' = faults, k[3] = Slot,
         window[k].count \in Nat, window'[k].count = window[k].count + 1,
         window[k].count + 1 <= Limit
  PROVE  PassedOK(k)'
<1>1. IsFiniteSet(Passed(k)) /\ Cardinality(Passed(k)) <= window[k].count + faults
  BY DEF PassedOK
<1>2. /\ IsFiniteSet(Passed(k)') /\ Cardinality(Passed(k)) \in Nat
      /\ Cardinality(Passed(k)') \in Nat /\ Cardinality(Passed(k)') <= Cardinality(Passed(k)) + 1
  BY <1>1, OneMore
<1>3. Cardinality(Passed(k)') <= window'[k].count + faults'
  BY <1>1, <1>2
<1>4. Cardinality(Passed(k)') <= Limit + faults'
  BY <1>1, <1>2, LimiterAssumption
<1> QED BY <1>2, <1>3, <1>4 DEF PassedOK

LEMMA FaultsStep ==
  ASSUME RestOK, NEW o \in Outcome, NEW live, Call(o, live)
  PROVE  /\ faults \in Nat
         /\ \/ o \in {"lost", "unanswered"} /\ faults' = faults + 1
            \/ o \in {"ok", "refused"} /\ faults' = faults
BY DEF RestOK, Call, Outcome

LEMMA IncrLimit ==
  ASSUME GatewayInv, RestOK, LimitInv, NEW r \in Requests, NEW o \in Outcome, Incr(r, o)
  PROVE  LimitInv'
<1>1. req \in [Requests -> Request] /\ window \in [Key -> Counter] /\ interruptions \in Nat
  BY RequestFacts DEF RestOK, LimiterTypeOK
<1>2. /\ Call(o, req[r].live) /\ UNCHANGED <<clock, interruptions>> /\ req[r].pc = "incr"
  BY DEF Incr
<1>3. /\ faults \in Nat
      /\ \/ o \in {"lost", "unanswered"} /\ faults' = faults + 1
         \/ o \in {"ok", "refused"} /\ faults' = faults
  BY <1>2, FaultsStep
<1>4. PICK k : k = KeyOf(r)
  OBVIOUS
<1>5. window' = IF Took(o) THEN [window EXCEPT ![k].count = @ + 1] ELSE window
  BY <1>4, Zenon DEF Incr, IncrKey
<1>6. \A j \in Key : window[j].count \in Nat
  BY <1>1 DEF Counter
<1>7. \A j \in Key : /\ j # k => window'[j] = window[j]
                     /\ window'[j].expires = window[j].expires
                     /\ window'[j].count = IF j = k /\ Took(o) THEN window[j].count + 1
                                                               ELSE window[j].count
  BY <1>1, <1>5 DEF Counter
<1>8. \A j \in Key : window'[j].count \in Nat /\ window[j].count <= window'[j].count
  BY <1>6, <1>7
<1>9. PICK timely \in BOOLEAN :
        /\ timely = (req[r].slot = Slot)
        /\ \E n :
           /\ n = window[KeyOf(r)].count + 1
           /\ \/ /\ o # "ok" /\ Sets(r, {"pc", "admitted"})
                 /\ req'[r].pc = Handler(req[r].op) /\ req'[r].admitted = timely
              \/ /\ o = "ok" /\ n = 1 /\ Sets(r, {"pc", "admitted"})
                 /\ req'[r].pc = "expire" /\ req'[r].admitted = timely
              \/ /\ o = "ok" /\ n > Limit
                 /\ Sets(r, {"pc", "answer"}) /\ req'[r].pc = "done"
              \/ /\ o = "ok" /\ n > 1 /\ ~ (n > Limit) /\ Sets(r, {"pc", "admitted"})
                 /\ req'[r].pc = Handler(req[r].op) /\ req'[r].admitted = timely
  BY <1>1, IncrSets
<1>10. /\ Only(r) /\ req'[r].live = req[r].live /\ req'[r].slot = req[r].slot
       /\ req'[r].op = req[r].op /\ req'[r].caller = req[r].caller
  BY <1>9 DEF Sets, Fields
<1>11. KeyOf(r)' = k /\ k[3] = req[r].slot
  BY <1>4, <1>10 DEF KeyOf
<1>12. req'[r].pc \in {Handler(req[r].op), "expire", "done"}
  BY <1>9
<1>13. ~ req[r].admitted
  BY <1>2, LimitFacts
<1>14. Slot' = Slot
  BY <1>2 DEF Slot
<1>15. SlotsOK'
  <2>1. req'[r].pc \notin {"new", "authenticate", "incr"}
    BY <1>2, <1>12, HandlerIs
  <2>2. \A j \in Key : OutlivesOK(j)'
    BY <1>7 DEF LimitInv, SlotsOK, OutlivesOK
  <2>3. req'[r].slot <= Slot
    BY <1>10, LimitFacts
  <2> QED BY <1>2, <1>10, <2>1, <2>2, <2>3, SlotsKept
<1>16. CancelledOK'
  <2>1. Cancelled' \subseteq Cancelled
    BY <1>10 DEF Cancelled, Only
  <2> QED BY <1>1, <1>2, <2>1, CancelledKept DEF CancelledOK, LimitInv
<1>17. ASSUME NEW j \in Key PROVE PassedOK(j)'
  <2>1. PassedOK(j)
    BY DEF LimitInv
  <2>2. Passed(j)' \subseteq Passed(j) \cup {r}
    BY <1>10, OthersSame DEF Passed
  <2>3. CASE r \notin Passed(j)'
    <3>1. Passed(j)' \subseteq Passed(j)
      BY <2>2, <2>3
    <3> QED BY <1>3, <1>6, <1>8, <1>14, <2>1, <3>1, PassedKept
  <2>4. CASE r \in Passed(j)'
    <3>1. req'[r].admitted /\ req[r].live /\ j = k
      BY <1>10, <1>11, <2>4 DEF Passed
    <3>2. CASE o \in {"lost", "unanswered"}
      BY <1>3, <1>6, <1>8, <1>14, <2>1, <2>2, <3>2, PassedUncounted
    <3>3. CASE o = "refused"
      BY <1>2, <3>1, <3>3 DEF Call
    <3>4. CASE o = "ok"
      <4>1. ~ (Sets(r, {"pc", "answer"}) /\ req'[r].pc = "done")
        BY <1>13, <3>1 DEF Sets, Fields
      <4>2. timely /\ window[k].count + 1 <= Limit
        <5>1. PICK n : /\ n = window[k].count + 1
                       /\ n = 1 \/ ~ (n > Limit)
                       /\ req'[r].admitted = timely
          BY <1>4, <1>9, <3>4, <4>1
        <5>2. n \in Nat
          BY <1>6, <3>1, <5>1
        <5> QED BY <3>1, <5>1, <5>2, LimiterAssumption
      <4>3. j[3] = Slot
        BY <1>9, <1>11, <3>1, <4>2
      <4>4. window'[j].count = window[j].count + 1
        BY <1>7, <3>1, <3>4 DEF Took
      <4>5. faults' = faults
        BY <1>3, <3>4
      <4> QED BY <1>3, <1>6, <2>1, <2>2, <3>1, <4>2, <4>3, <4>4, <4>5, PassedCounted
    <3> QED BY <3>2, <3>3, <3>4 DEF Outcome
  <2> QED BY <2>3, <2>4
<1> QED BY <1>15, <1>16, <1>17 DEF LimitInv, CancelledOK

LEMMA ExpireLimit ==
  ASSUME GatewayInv, RestOK, LimitInv, NEW r \in Requests, NEW o \in Outcome, Expire(r, o)
  PROVE  LimitInv'
<1>1. /\ req \in [Requests -> Request] /\ window \in [Key -> Counter] /\ interruptions \in Nat
      /\ clock \in Nat
  BY RequestFacts DEF RestOK, LimiterTypeOK
<1>2. /\ Call(o, req[r].live) /\ UNCHANGED <<clock, interruptions>> /\ req[r].pc = "expire"
      /\ ExpireKey(KeyOf(r), o)
  BY DEF Expire
<1>3. faults \in Nat /\ (faults' = faults + 1 \/ faults' = faults)
  BY <1>2, FaultsStep
<1>4. PICK k : k = KeyOf(r)
  OBVIOUS
<1>5. window' = IF Took(o) /\ window[k] # NoCounter
                THEN [window EXCEPT ![k].expires = clock + Window] ELSE window
  BY <1>2, <1>4, Zenon DEF ExpireKey
<1>6. \A j \in Key : /\ window[j].count \in Nat /\ window'[j].count = window[j].count
                     /\ \/ window'[j].expires = window[j].expires
                        \/ j = k /\ window'[j].expires = clock + Window
  BY <1>1, <1>5 DEF Counter
<1>7. Sets(r, {"pc"}) /\ req'[r].pc = Handler(req[r].op)
  BY <1>1, ExpireSets
<1>8. /\ Only(r) /\ req'[r].live = req[r].live /\ req'[r].slot = req[r].slot
      /\ req'[r].op = req[r].op /\ req'[r].caller = req[r].caller
      /\ req'[r].admitted = req[r].admitted
  BY <1>7 DEF Sets, Fields
<1>9. KeyOf(r)' = k /\ k[3] = req[r].slot
  BY <1>4, <1>8 DEF KeyOf
<1>10. Slot' = Slot
  BY <1>2 DEF Slot
<1>11. SlotsOK'
  <2>1. req'[r].pc \notin {"new", "authenticate", "incr"}
    BY <1>2, <1>7, HandlerIs
  <2>2. ASSUME NEW j \in Key, j = k, window'[j].expires = clock + Window
        PROVE  j[3] < window'[j].expires \div Window
    <3>1. req[r].slot \in Nat /\ req[r].slot <= Slot
      BY LimitFacts
    <3>2. Slot \in Nat /\ Slot < (clock + Window) \div Window
      BY <1>1, SlotFacts, SlotsEnd, LimiterAssumption DEF Slot
    <3>3. (clock + Window) \div Window \in Nat
      BY <1>1, Quotient, LimiterAssumption
    <3> QED BY <1>9, <2>2, <3>1, <3>2, <3>3
  <2>3. ASSUME NEW j \in Key PROVE OutlivesOK(j)'
    <3>1. CASE window'[j].expires = window[j].expires
      BY <3>1 DEF LimitInv, SlotsOK, OutlivesOK
    <3>2. CASE j = k /\ window'[j].expires = clock + Window
      BY <2>2, <3>2 DEF OutlivesOK
    <3> QED BY <1>6, <3>1, <3>2
  <2>4. req'[r].slot <= Slot
    BY <1>8, LimitFacts
  <2> QED BY <1>2, <1>8, <2>1, <2>3, <2>4, SlotsKept
<1>12. CancelledOK'
  <2>1. Cancelled' \subseteq Cancelled
    BY <1>8 DEF Cancelled, Only
  <2> QED BY <1>1, <1>2, <2>1, CancelledKept DEF CancelledOK, LimitInv
<1>13. ASSUME NEW j \in Key PROVE PassedOK(j)'
  <2>1. PassedOK(j)
    BY DEF LimitInv
  <2>2. Passed(j)' \subseteq Passed(j)
    BY <1>4, <1>8, <1>9, OthersSame DEF Passed
  <2>3. window'[j].count \in Nat /\ window[j].count <= window'[j].count
    BY <1>6
  <2> QED BY <1>3, <1>6, <1>10, <2>1, <2>2, <2>3, PassedKept
<1> QED BY <1>11, <1>12, <1>13 DEF LimitInv, CancelledOK

\* No counter is removed before its slot is over.
LEMMA TickLimit ==
  ASSUME GatewayInv, RestOK, LimitInv, Tick, UNCHANGED <<faults, agents, req, audit, interruptions>>
  PROVE  LimitInv'
<1>1. /\ req \in [Requests -> Request] /\ window \in [Key -> Counter] /\ interruptions \in Nat
      /\ faults \in Nat /\ clock \in Nat
  BY DEF GatewayInv, TypesOK, RestOK, LimiterTypeOK
<1>2. clock' = clock + 1
  BY DEF Tick
<1>3. Slot \in Nat /\ Slot' \in Nat /\ Slot <= Slot' /\ Slot' = (clock + 1) \div Window
  <2>1. clock + 1 \in Nat /\ clock <= clock + 1
    BY <1>1
  <2>2. Slot' = (clock + 1) \div Window
    BY <1>2 DEF Slot
  <2> QED BY <1>1, <2>1, <2>2, SlotsGrow, Quotient, LimiterAssumption DEF Slot
<1>4. \A k \in Key : window'[k] = IF window[k].expires # NoTTL /\ window[k].expires <= clock + 1
                                  THEN NoCounter ELSE window[k]
  BY <1>2 DEF Tick
<1>5. SlotsOK'
  <2>1. ASSUME NEW k \in Key PROVE OutlivesOK(k)'
    <3>1. window'[k].expires # NoTTL => window'[k] = window[k]
      BY <1>4 DEF NoCounter
    <3> QED BY <3>1 DEF LimitInv, SlotsOK, OutlivesOK
  <2>2. ASSUME NEW r \in Requests PROVE TimelyOK(req[r])'
    <3>1. req[r].slot <= Slot'
      <4>1. req[r].slot \in Nat /\ req[r].slot <= Slot
        BY LimitFacts
      <4> QED BY <1>3, <4>1
    <3>2. req'[r] = req[r]
      OBVIOUS
    <3>3. req[r].pc \in {"new", "authenticate", "incr"} => ~ req[r].admitted
      BY LimitFacts
    <3> QED BY <3>1, <3>2, <3>3, Zenon DEF TimelyOK
  <2> QED BY <2>1, <2>2 DEF SlotsOK
<1>6. CancelledOK'
  <2>1. Cancelled' \subseteq Cancelled
    BY DEF Cancelled
  <2> QED BY <1>1, <2>1, CancelledKept DEF CancelledOK, LimitInv
<1>7. ASSUME NEW k \in Key PROVE PassedOK(k)'
  <2>1. PassedOK(k)
    BY DEF LimitInv
  <2>2. Passed(k)' = Passed(k)
    BY DEF Passed, KeyOf
  <2>3. window[k] \in Counter /\ window[k].count \in Nat /\ window[k].expires \in Nat
    BY <1>1, LimiterAssumption DEF Counter
  <2>4. window'[k].count \in Nat
    BY <1>4, <2>3 DEF NoCounter
  <2>5. k[3] \in Nat
    BY <1>1, Quotient, LimiterAssumption DEF Key
  <2>6. CASE k[3] # Slot'
    BY <1>1, <2>1, <2>2, <2>3, <2>4, <2>6, PassedKept
  <2>7. CASE k[3] = Slot' /\ k[3] = Slot
    <3>1. window'[k] = window[k]
      <4>1. CASE window[k].expires # NoTTL /\ window[k].expires <= clock + 1
        <5>1. k[3] < window[k].expires \div Window
          BY <4>1 DEF LimitInv, SlotsOK, OutlivesOK
        <5>2. clock + 1 \in Nat
          BY <1>1
        <5>3. window[k].expires \div Window <= (clock + 1) \div Window
          BY <2>3, <4>1, <5>2, SlotsGrow, LimiterAssumption
        <5>4. window[k].expires \div Window \in Nat
          BY <2>3, Quotient, LimiterAssumption
        <5> QED BY <1>3, <2>5, <2>7, <5>1, <5>3, <5>4
      <4>2. CASE ~ (window[k].expires # NoTTL /\ window[k].expires <= clock + 1)
        BY <1>4, <4>2
      <4> QED BY <4>1, <4>2
    <3>2. window[k].count <= window'[k].count
      BY <2>3, <3>1
    <3> QED BY <1>1, <2>1, <2>2, <2>3, <2>4, <2>7, <3>2, PassedKept
  <2>8. CASE k[3] = Slot' /\ k[3] # Slot
    <3>1. ASSUME NEW r \in Requests PROVE KeyOf(r) # k
      <4>1. req[r].slot \in Nat /\ req[r].slot <= Slot
        BY LimitFacts
      <4>2. KeyOf(r)[3] = req[r].slot
        BY DEF KeyOf
      <4> QED BY <1>3, <2>5, <2>8, <4>1, <4>2
    <3>2. Passed(k)' = {}
      BY <2>2, <3>1 DEF Passed
    <3>3. IsFiniteSet(Passed(k)') /\ Cardinality(Passed(k)') = 0
      BY <3>2, FS_EmptySet
    <3>4. 0 <= Limit + faults' /\ 0 <= window'[k].count + faults'
      BY <1>1, <2>4, LimiterAssumption
    <3> QED BY <3>3, <3>4 DEF PassedOK
  <2> QED BY <2>6, <2>7, <2>8
<1> QED BY <1>5, <1>6, <1>7 DEF LimitInv, CancelledOK

\* An interruption pays for a request that is cancelled.
LEMMA InterruptionLimit ==
  ASSUME GatewayInv, RestOK, LimitInv, NEW r \in Requests, Disconnect(r) \/ Die(r)
  PROVE  LimitInv'
<1>1. req \in [Requests -> Request] /\ window \in [Key -> Counter] /\ interruptions \in Nat
      /\ faults \in Nat
  BY DEF GatewayInv, TypesOK, RestOK, LimiterTypeOK
<1>2. UNCHANGED <<faults, window, clock>> /\ interruptions' = interruptions + 1
  BY DEF Disconnect, Die
<1>3. /\ req[r].pc # "new" 
      /\ (Sets(r, {"live"}) /\ req'[r].live = FALSE) \/ (Sets(r, {"pc"}) /\ req'[r].pc = "done")
  <2>1. req[r].pc # "new"
    BY DEF Disconnect, Die, UnderWay
  <2> QED BY <1>1, <2>1, DieSets, DisconnectSets
<1>4. /\ Only(r) /\ req'[r].admitted = req[r].admitted /\ req'[r].slot = req[r].slot
      /\ req'[r].op = req[r].op /\ req'[r].caller = req[r].caller
      /\ req'[r].pc \in {req[r].pc, "done"}
      /\ req'[r].live => req[r].live
  BY <1>3 DEF Sets, Fields
<1>5. SlotsOK'
  <2>1. \A k \in Key : OutlivesOK(k)'
    BY <1>2 DEF LimitInv, SlotsOK, OutlivesOK
  <2> QED BY <1>2, <1>4, <2>1, LimitFacts, SlotsKept
<1>6. CancelledOK'
  <2>1. Cancelled' \subseteq Cancelled \cup {r}
    BY <1>4 DEF Cancelled, Only
  <2> QED BY <1>1, <1>2, <2>1, CancelledPaid DEF CancelledOK, LimitInv
<1>7. ASSUME NEW k \in Key PROVE PassedOK(k)'
  <2>1. Passed(k)' \subseteq Passed(k)
    <3>1. KeyOf(r)' = KeyOf(r)
      BY <1>4 DEF KeyOf
    <3> QED BY <1>4, <3>1, OthersSame DEF Passed
  <2>2. window[k].count \in Nat
    BY <1>1 DEF Counter
  <2>3. PassedOK(k)
    BY DEF LimitInv
  <2>4. Slot' = Slot
    BY <1>2 DEF Slot
  <2> QED BY <1>1, <1>2, <2>1, <2>2, <2>3, <2>4, PassedKept
<1> QED BY <1>5, <1>6, <1>7 DEF LimitInv, CancelledOK

\* What a step sets that has to do neither with the limit nor with the way to it.
Later == {"pc", "beat", "by", "answer", "found", "at", "changed"}

LEMMA LaterLimit ==
  ASSUME GatewayInv, RestOK, LimitInv, UNCHANGED <<window, clock, interruptions>>,
         NEW r \in Requests, NEW F \in SUBSET Later, Sets(r, F),
         req[r].pc \notin {"new", "authenticate", "incr"} \/ req'[r].pc = "done",
         req'[r].pc \notin {"new", "authenticate", "incr"},
         faults' = faults \/ faults' = faults + 1
  PROVE  LimitInv'
<1>1. /\ Only(r) /\ req'[r].admitted = req[r].admitted /\ req'[r].slot = req[r].slot
      /\ req'[r].op = req[r].op /\ req'[r].caller = req[r].caller
      /\ req'[r].live = req[r].live
  BY DEF Sets, Fields, Later
<1>2. KeyOf(r)' = KeyOf(r)
  BY <1>1 DEF KeyOf
<1> QED BY <1>1, <1>2, LimitFacts, LimitFrame

LEMMA ServeLimit ==
  ASSUME GatewayInv, RestOK, LimitInv, NEW r \in Requests, NEW o \in Outcome, Serve(r, o)
  PROVE  LimitInv'
<1>1. req \in [Requests -> Request] /\ HandlerOK(req[r])
  BY RequestFacts
<1>2. CASE Incr(r, o)
  BY <1>2, IncrLimit
<1>3. CASE Expire(r, o)
  BY <1>3, ExpireLimit
<1>4. CASE Authenticate(r, o)
  <2>1. /\ UNCHANGED <<window, clock, interruptions>> /\ Call(o, req[r].live)
    BY <1>4 DEF Authenticate
  <2>2. faults' = faults \/ faults' = faults + 1
    BY <2>1, FaultsStep
  <2>3. /\ req[r].pc = "authenticate"
        /\ \/ Sets(r, {"pc", "answer"}) /\ req'[r].pc = "done"
           \/ Sets(r, {"pc", "slot"}) /\ req'[r].pc = "incr" /\ req'[r].slot = Slot
    BY <1>1, <1>4, AuthenticateSets
  <2>4. CASE Sets(r, {"pc", "answer"}) /\ req'[r].pc = "done"
    <3>1. {"pc", "answer"} \in SUBSET Later
      BY DEF Later
    <3> QED BY <2>1, <2>2, <2>4, <3>1, LaterLimit
  <2>5. CASE Sets(r, {"pc", "slot"}) /\ req'[r].pc = "incr" /\ req'[r].slot = Slot
    <3>1. Only(r) /\ req'[r].live = req[r].live /\ req'[r].admitted = req[r].admitted
      BY <2>5 DEF Sets, Fields
    <3>2. ~ req'[r].admitted
      <4>1. ~ req[r].admitted
        BY <2>3, LimitFacts
      <4> QED BY <3>1, <4>1
    <3>3. req'[r].slot <= Slot
      <4>1. Slot \in Nat
        BY SlotFacts DEF GatewayInv, TypesOK
      <4> QED BY <2>5, <4>1
    <3> QED BY <2>1, <2>2, <3>1, <3>2, <3>3, LimitFrame
  <2> QED BY <2>3, <2>4, <2>5
<1>5. CASE \/ (\E a \in Agents : Insert(r, a, o))
           \/ Announce(r, o) \/ List(r, o) \/ Get(r, o) \/ Query(r, o)
           \/ Read(r, o) \/ Write(r, o) \/ Delete(r, o) \/ Heartbeat(r, o)
           \/ Resolve(r, o) \/ Record(r, o)
  <2>1. /\ UNCHANGED <<window, clock, interruptions>> /\ Call(o, req[r].live)
        /\ req[r].pc \notin {"new", "authenticate", "incr"}
    BY <1>5 DEF Insert, Announce, List, Get, Query, Read, Write, Delete,
                Heartbeat, Resolve, Record
  <2>2. faults' = faults \/ faults' = faults + 1
    BY <2>1, FaultsStep
  <2>3. \A F : Ends(r, F) => Sets(r, F) /\ req'[r].pc \in {"resolve", "done"}
    BY DEF Ends
  <2>4. \/ Sets(r, {"pc", "changed"}) \/ Sets(r, {"pc", "answer", "changed"})
        \/ Sets(r, {"pc", "answer", "found"}) \/ Sets(r, {"pc", "beat", "at"})
        \/ Sets(r, {"pc", "at", "answer", "changed"}) \/ Sets(r, {"pc", "by"})
        \/ Sets(r, {"pc"})
    BY <1>1, <1>5, <2>3, InsertSets, AnnounceSets, ListSets, GetSets, QuerySets,
       ReadSets, WriteSets, DeleteSets, HeartbeatSets, ResolveSets, RecordSets, Zenon
  <2>5. req'[r].pc \in {"announce", "resolve", "done", "write", "record"}
    BY <1>1, <1>5, <2>3, InsertSets, AnnounceSets, ListSets, GetSets, QuerySets,
       ReadSets, WriteSets, DeleteSets, HeartbeatSets, ResolveSets, RecordSets
  <2>6. /\ {"pc", "changed"} \in SUBSET Later /\ {"pc", "answer", "changed"} \in SUBSET Later
        /\ {"pc", "answer", "found"} \in SUBSET Later /\ {"pc", "beat", "at"} \in SUBSET Later
        /\ {"pc", "at", "answer", "changed"} \in SUBSET Later /\ {"pc", "by"} \in SUBSET Later
        /\ {"pc"} \in SUBSET Later
    BY DEF Later
  <2>7. \E F \in SUBSET Later : Sets(r, F)
    BY <2>4, <2>6, Zenon
  <2> QED BY <2>1, <2>2, <2>5, <2>7, LaterLimit
<1> QED BY <1>2, <1>3, <1>4, <1>5, Zenon DEF Serve

LEMMA LimitNext ==
  ASSUME GatewayInv, RestOK, LimitInv, [GatewayNext]_gatewayVars
  PROVE  LimitInv'
<1>1. CASE UNCHANGED gatewayVars
  <2>1. UNCHANGED <<faults, interruptions, window, clock, req>>
    BY <1>1 DEF gatewayVars
  <2>2. Slot' = Slot /\ Cancelled' = Cancelled /\ \A k : Passed(k)' = Passed(k)
    BY <2>1 DEF Slot, Cancelled, Passed, KeyOf
  <2>3. ASSUME NEW k \in Key PROVE PassedOK(k)' /\ OutlivesOK(k)'
    <3>1. PassedOK(k) /\ OutlivesOK(k)
      BY DEF LimitInv, SlotsOK
    <3>2. PassedOK(k)'
      BY <2>1, <2>2, <3>1 DEF PassedOK
    <3>3. OutlivesOK(k)'
      BY <2>1, <3>1 DEF OutlivesOK
    <3> QED BY <3>2, <3>3
  <2>4. ASSUME NEW r \in Requests PROVE TimelyOK(req[r])'
    <3>1. TimelyOK(req[r])
      BY DEF LimitInv, SlotsOK
    <3> QED BY <2>1, <2>2, <3>1, Zenon DEF TimelyOK
  <2> QED BY <2>1, <2>2, <2>3, <2>4 DEF LimitInv, SlotsOK
<1>2. CASE Tick /\ UNCHANGED <<faults, agents, req, audit, interruptions>>
  BY <1>2, TickLimit
<1>3. ASSUME NEW r \in Requests, NEW op \in Ops, Arrive(r, op) PROVE LimitInv'
  <2>1. UNCHANGED <<faults, window, clock, interruptions>>
    BY <1>3 DEF Arrive
  <2>2. /\ Only(r) /\ req'[r].live = TRUE /\ req'[r].admitted = FALSE /\ req'[r].slot = 0
    BY <1>3, ArriveSets DEF GatewayInv, TypesOK
  <2>3. req'[r].slot <= Slot
    <3>1. Slot \in Nat
      BY SlotFacts DEF GatewayInv, TypesOK
    <3> QED BY <2>2, <3>1
  <2> QED BY <2>1, <2>2, <2>3, LimitFrame
<1>4. ASSUME NEW r \in Requests, Disconnect(r) \/ Die(r) PROVE LimitInv'
  BY <1>4, InterruptionLimit
<1>5. ASSUME NEW r \in Requests, NEW o \in Outcome, Serve(r, o) PROVE LimitInv'
  BY <1>5, ServeLimit
<1> QED BY <1>1, <1>2, <1>3, <1>4, <1>5, Zenon DEF GatewayNext

LEMMA LimitInit == ASSUME GatewayInit PROVE LimitInv
<1>1. /\ req = [r \in Requests |-> NewRequest] /\ window = [k \in Key |-> NoCounter]
      /\ faults = 0 /\ interruptions = 0 /\ clock = 0
  BY DEF GatewayInit, LimiterInit
<1>2. NewRequest.live = TRUE /\ NewRequest.admitted = FALSE /\ NewRequest.slot = 0
  BY DEF NewRequest
<1>3. Slot \in Nat
  BY <1>1, SlotFacts
<1>4. ASSUME NEW r \in Requests PROVE TimelyOK(req[r])
  <2>1. req[r].slot <= Slot
    BY <1>1, <1>2, <1>3
  <2>2. req[r].admitted = FALSE
    BY <1>1, <1>2
  <2> QED BY <2>1, <2>2, Zenon DEF TimelyOK
<1>5. ASSUME NEW k \in Key PROVE OutlivesOK(k)
  BY <1>1 DEF OutlivesOK, NoCounter
<1>6. ASSUME NEW k \in Key PROVE PassedOK(k)
  <2>1. Passed(k) = {}
    BY <1>1, <1>2 DEF Passed
  <2>2. IsFiniteSet(Passed(k)) /\ Cardinality(Passed(k)) = 0
    BY <2>1, FS_EmptySet
  <2>3. 0 <= Limit + faults /\ 0 <= window[k].count + faults
    BY <1>1, LimiterAssumption DEF NoCounter
  <2> QED BY <2>2, <2>3 DEF PassedOK
<1>7. Cancelled = {}
  BY <1>1, <1>2 DEF Cancelled
<1> QED BY <1>1, <1>4, <1>5, <1>6, <1>7, FS_EmptySet DEF LimitInv, SlotsOK

-----------------------------------------------------------------------------
(* The theorems.                                                            *)

\* However many requests count, are cancelled or die: a counter has a time to live,
\* is about to get one, or has cost a failed call, a disconnect or a death.
THEOREM CountersAlwaysExpire ==
  ASSUME IsFiniteSet(Agents) PROVE GatewaySpec => []CountersExpire
<1>1. GatewayInit => RestOK /\ ExpiryInv
  BY RestInit, ExpiryInit
<1>2. GatewayInv /\ RestOK /\ ExpiryInv /\ [GatewayNext]_gatewayVars => RestOK' /\ ExpiryInv'
  BY RestNext, ExpiryNext
<1>3. RestOK /\ ExpiryInv => CountersExpire
  <2> SUFFICES ASSUME RestOK, ExpiryInv PROVE CountersExpire
    OBVIOUS
  <2>1. PICK S : S = {k \in Key : /\ window[k] # NoCounter /\ window[k].expires = NoTTL
                                  /\ ~ \E r \in Requests : req[r].pc = "expire" /\ KeyOf(r) = k}
    OBVIOUS
  <2>2. S \subseteq Stuck
    BY <2>1 DEF Stuck, Expires
  <2>3. /\ IsFiniteSet(S) /\ Cardinality(S) <= Cardinality(Stuck)
        /\ Cardinality(S) \in Nat /\ Cardinality(Stuck) \in Nat
    BY <2>2, FS_Subset, FS_CardinalityType DEF ExpiryInv
  <2>4. Spent \in Nat
    BY DEF RestOK, Spent
  <2>5. Cardinality(S) <= Spent
    BY <2>3, <2>4 DEF ExpiryInv
  <2> QED BY <2>1, <2>5 DEF CountersExpire, Spent
<1> QED BY <1>1, <1>2, <1>3, GatewayInvariant, PTL DEF GatewaySpec

\* Whoever asks for a change, and whatever is deleted meanwhile: the audit log
\* misses a change only at the price of a failed call, a disconnect or a death,
\* or because the request's own headers do not fit in it.
THEOREM ChangesAlwaysAudited ==
  ASSUME IsFiniteSet(Agents) PROVE GatewaySpec => []ChangesAudited
<1>1. GatewayInit => RestOK /\ AuditInv
  BY RestInit, AuditInit
<1>2. GatewayInv /\ RestOK /\ AuditInv /\ [GatewayNext]_gatewayVars => RestOK' /\ AuditInv'
  BY RestNext, AuditNext
<1>3. RestOK /\ AuditInv => ChangesAudited
  <2> SUFFICES ASSUME RestOK, AuditInv PROVE ChangesAudited
    OBVIOUS
  <2>1. PICK S : S = {r \in Requests : /\ req[r].pc = "done" /\ req[r].changed
                                       /\ audit[r] = NotAudited /\ Storable(r)}
    OBVIOUS
  <2>2. S \subseteq Unpaid
    BY <2>1 DEF Unpaid
  <2>3. /\ IsFiniteSet(S) /\ Cardinality(S) <= Cardinality(Unpaid)
        /\ Cardinality(S) \in Nat /\ Cardinality(Unpaid) \in Nat
    BY <2>2, FS_Subset, FS_CardinalityType DEF AuditInv
  <2>4. Spent \in Nat
    BY DEF RestOK, Spent
  <2>5. Cardinality(S) <= Spent
    BY <2>3, <2>4 DEF AuditInv
  <2> QED BY <2>1, <2>5 DEF ChangesAudited, Spent
<1> QED BY <1>1, <1>2, <1>3, GatewayInvariant, PTL DEF GatewaySpec

\* However many requests of a caller run beside each other: in one slot no more of
\* them pass on a route than the limit, but for those whose INCR failed.
THEOREM AlwaysWithinLimit ==
  ASSUME IsFiniteSet(Agents) PROVE GatewaySpec => []AdmittedWithinLimit
<1>1. GatewayInit => RestOK /\ LimitInv
  BY RestInit, LimitInit
<1>2. GatewayInv /\ RestOK /\ LimitInv /\ [GatewayNext]_gatewayVars => RestOK' /\ LimitInv'
  BY RestNext, LimitNext
<1>3. RestOK /\ LimitInv => AdmittedWithinLimit
  <2> SUFFICES ASSUME RestOK, LimitInv, NEW k \in Key
               PROVE  Cardinality({r \in Requests : req[r].admitted /\ KeyOf(r) = k})
                        <= Limit + faults + interruptions
    BY DEF AdmittedWithinLimit
  <2>1. PICK S : S = {r \in Requests : req[r].admitted /\ KeyOf(r) = k}
    OBVIOUS
  <2>2. S \subseteq Passed(k) \cup Cancelled
    BY <2>1 DEF Passed, Cancelled
  <2>3. /\ IsFiniteSet(Passed(k)) /\ Cardinality(Passed(k)) <= Limit + faults
        /\ IsFiniteSet(Cancelled) /\ Cardinality(Cancelled) <= interruptions
    BY DEF LimitInv, PassedOK
  <2>4. /\ IsFiniteSet(Passed(k) \cup Cancelled)
        /\ Cardinality(Passed(k)) \in Nat /\ Cardinality(Cancelled) \in Nat
        /\ Cardinality(Passed(k) \cup Cancelled) \in Nat
        /\ Cardinality(Passed(k) \cap Cancelled) \in Nat
        /\ Cardinality(Passed(k) \cup Cancelled)
             = Cardinality(Passed(k)) + Cardinality(Cancelled) - Cardinality(Passed(k) \cap Cancelled)
    BY <2>3, FS_Union, FS_Intersection, FS_CardinalityType
  <2>5. IsFiniteSet(S) /\ Cardinality(S) \in Nat
        /\ Cardinality(S) <= Cardinality(Passed(k) \cup Cancelled)
    BY <2>2, <2>4, FS_Subset, FS_CardinalityType
  <2>6. faults \in Nat /\ interruptions \in Nat /\ Limit \in Nat
    BY LimiterAssumption DEF RestOK
  <2>7. Cardinality(S) <= Limit + faults + interruptions
    BY <2>3, <2>4, <2>5, <2>6
  <2> QED BY <2>1, <2>7
<1> QED BY <1>1, <1>2, <1>3, GatewayInvariant, PTL DEF GatewaySpec

\* One step of one request: an update that has written keeps what it says, and a
\* row's heartbeat is what it was, the time, or what an update had read.
LEMMA BeatStep ==
  ASSUME GatewayInv, BeatInv, NEW r \in Requests, Only(r), UNCHANGED clock,
         req'[r].at \in Nat,
         req[r].op = "update" /\ req[r].changed =>
           /\ req'[r].op = "update" /\ req'[r].changed
           /\ req'[r].target = req[r].target /\ req'[r].at = req[r].at,
         \A a \in Agents : Registered(a) =>
           \/ agents'[a].beat = agents[a].beat
           \/ agents'[a].beat = clock
           \/ /\ req'[r].op = "update" /\ req'[r].changed /\ req'[r].target = a
              /\ agents'[a].beat = req'[r].at,
         BeatOK(req[r])', Stands(r)'
  PROVE  BeatInv'
<1> SUFFICES ASSUME NEW q \in Requests, q # r PROVE BeatOK(req[q])' /\ Stands(q)'
  BY DEF BeatInv
<1>1. req'[q] = req[q]
  BY DEF Only
<1>2. BeatOK(req[q]) /\ Stands(q)
  BY DEF BeatInv
<1>3. BeatOK(req[q])'
  BY <1>1, <1>2 DEF BeatOK
<1>4. ASSUME req[q].op = "heartbeat", req[q].answer = 200
      PROVE  agents'[req[q].target].beat >= req[q].at \/ Overwritten(q)'
  <2>1. AnswerOK(req[q]) /\ agents \in [Agents -> Row] /\ req[q] \in Request /\ clock \in Nat
    BY RequestFacts DEF GatewayInv, TypesOK
  <2>2. PICK a : a = req[q].target
    OBVIOUS
  <2>3. a \in Agents /\ Registered(a)
    BY <1>4, <2>1, <2>2 DEF AnswerOK, OnAgent, Registered
  <2>4. agents[a].beat \in Nat /\ req[q].at \in Nat /\ req[q].at <= clock
    <3>1. agents[a].beat \in Nat
      BY <2>1, <2>3 DEF Row
    <3>2. req[q].at \in Nat
      BY <2>1 DEF Request
    <3>3. req[q].at <= clock
      BY <1>2, <1>4 DEF BeatOK
    <3> QED BY <3>1, <3>2, <3>3
  <2>5. CASE Overwritten(q)
    <3>1. PICK u \in Requests : /\ req[u].op = "update" /\ req[u].changed
                                /\ req[u].target = req[q].target /\ req[u].at < req[q].at
      BY <2>5 DEF Overwritten
    <3>2. /\ req'[u].op = "update" /\ req'[u].changed
          /\ req'[u].target = req'[q].target /\ req'[u].at < req'[q].at
      BY <1>1, <3>1 DEF Only
    <3> QED BY <3>2 DEF Overwritten
  <2>6. CASE agents[a].beat >= req[q].at
    <3>1. CASE agents'[a].beat = agents[a].beat \/ agents'[a].beat = clock
      BY <2>1, <2>2, <2>4, <2>6, <3>1
    <3>2. CASE /\ req'[r].op = "update" /\ req'[r].changed /\ req'[r].target = a
               /\ agents'[a].beat = req'[r].at
      <4>1. PICK b : b = req'[r].at
        OBVIOUS
      <4>2. CASE b < req[q].at
        <5>1. req'[r].at < req'[q].at /\ req'[r].target = req'[q].target
          BY <1>1, <2>2, <3>2, <4>1, <4>2
        <5> QED BY <3>2, <5>1 DEF Overwritten
      <4>3. CASE ~ (b < req[q].at)
        <5>1. b \in Nat
          BY <4>1
        <5> QED BY <2>2, <2>4, <3>2, <4>1, <4>3, <5>1
      <4> QED BY <4>2, <4>3
    <3> QED BY <2>3, <3>1, <3>2
  <2> QED BY <1>2, <1>4, <2>2, <2>5, <2>6 DEF Stands
<1>5. Stands(q)'
  BY <1>1, <1>4 DEF Stands
<1> QED BY <1>3, <1>5

\* Most steps write no row, and leave a heartbeat that has been confirmed as it is.
LEMMA BeatFrame ==
  ASSUME GatewayInv, BeatInv, NEW r \in Requests, NEW F, Sets(r, F), UNCHANGED clock,
         F \subseteq {"pc", "live", "slot", "admitted", "by", "found", "answer", "changed"},
         \A a \in Agents : Registered(a) => agents'[a].beat = agents[a].beat,
         req[r].op = "update" /\ req[r].changed => req'[r].changed,
         req'[r].pc # "write",
         req'[r].op = "heartbeat" /\ req'[r].answer = 200 => req[r].answer = 200
  PROVE  BeatInv'
<1>1. /\ Only(r) /\ req'[r].op = req[r].op /\ req'[r].target = req[r].target
      /\ req'[r].at = req[r].at
  BY DEF Sets, Fields
<1>2. BeatOK(req[r]) /\ Stands(r) /\ AnswerOK(req[r])
  BY RequestFacts DEF BeatInv
<1>3. req'[r].at \in Nat
  BY <1>1, RequestFacts DEF Request
<1>4. BeatOK(req[r])'
  BY <1>1, <1>2 DEF BeatOK
<1>5. Stands(r)'
  <2> SUFFICES ASSUME req'[r].op = "heartbeat", req'[r].answer = 200
               PROVE  agents'[req'[r].target].beat >= req'[r].at \/ Overwritten(r)'
    BY DEF Stands
  <2>1. req[r].op = "heartbeat" /\ req[r].answer = 200
    BY <1>1
  <2>2. req[r].target \in Agents /\ Registered(req[r].target)
    BY <1>2, <2>1 DEF AnswerOK, OnAgent, Registered
  <2>3. CASE agents[req[r].target].beat >= req[r].at
    BY <1>1, <2>2, <2>3
  <2>4. CASE Overwritten(r)
    <3>1. PICK u \in Requests : /\ req[u].op = "update" /\ req[u].changed
                                /\ req[u].target = req[r].target /\ req[u].at < req[r].at
      BY <2>4 DEF Overwritten
    <3>2. u # r
      BY <2>1, <3>1
    <3>3. /\ req'[u].op = "update" /\ req'[u].changed
          /\ req'[u].target = req'[r].target /\ req'[u].at < req'[r].at
      BY <1>1, <3>1, <3>2 DEF Only
    <3> QED BY <3>3 DEF Overwritten
  <2> QED BY <1>2, <2>1, <2>3, <2>4 DEF Stands
<1> QED BY <1>1, <1>3, <1>4, <1>5, BeatStep

\* What a heartbeat of the service sets, it confirms only if the row has it.
LEMMA HeartbeatBeat ==
  ASSUME GatewayInv, BeatInv, NEW r \in Requests, NEW o \in Outcome, Heartbeat(r, o)
  PROVE  BeatInv'
<1>1. /\ req \in [Requests -> Request] /\ agents \in [Agents -> Row] /\ clock \in Nat
      /\ HandlerOK(req[r]) /\ AnswerOK(req[r])
  BY RequestFacts DEF GatewayInv, TypesOK
<1>2. /\ req[r].pc = "heartbeat" /\ Sets(r, {"pc", "at", "answer", "changed"})
      /\ req'[r].pc = "resolve" /\ req'[r].at = clock
      /\ req'[r].answer = CodeOf(ErrorOf(o, Live(req[r].target)), 200)
  BY <1>1, HeartbeatSets
<1>3. Only(r) /\ req'[r].op = req[r].op /\ req'[r].target = req[r].target
  BY <1>2 DEF Sets, Fields
<1>4. req[r].op = "heartbeat"
  BY <1>1, <1>2 DEF HandlerOK
<1>5. PICK t \in Agents : t = req[r].target
  BY <1>1, <1>4 DEF AnswerOK, OnAgent, Registered
<1>6. UNCHANGED clock /\ agents' = IF Took(o) /\ Live(t) THEN [agents EXCEPT ![t].beat = clock] ELSE agents
  BY <1>5, Zenon DEF Heartbeat, BeatAgent
<1>7. \A a \in Agents : agents'[a].beat = agents[a].beat \/ agents'[a].beat = clock
  BY <1>1, <1>6 DEF Row
<1>8. BeatOK(req[r])'
  BY <1>1, <1>2, <1>6 DEF BeatOK
<1>9. Stands(r)'
  <2>1. req'[r].answer = 200 => o = "ok" /\ Live(t)
    BY <1>2, <1>5 DEF CodeOf, ErrorOf
  <2>2. o = "ok" /\ Live(t) => agents'[t].beat = clock
    BY <1>1, <1>6 DEF Took, Row
  <2> QED BY <1>1, <1>2, <1>3, <1>5, <2>1, <2>2 DEF Stands
<1> QED BY <1>1, <1>2, <1>3, <1>4, <1>6, <1>7, <1>8, <1>9, BeatStep

\* An update writes the heartbeat it had read, and is the witness if that is older.
LEMMA WriteBeat ==
  ASSUME GatewayInv, BeatInv, NEW r \in Requests, NEW o \in Outcome, Write(r, o)
  PROVE  BeatInv'
<1>1. /\ req \in [Requests -> Request] /\ agents \in [Agents -> Row] /\ clock \in Nat
      /\ HandlerOK(req[r]) /\ AnswerOK(req[r]) /\ BeatOK(req[r])
  BY RequestFacts DEF GatewayInv, TypesOK, BeatInv
<1>2. /\ req[r].pc = "write" /\ Ends(r, {"pc", "answer", "changed"})
      /\ req'[r].changed <=> req[r].changed \/ (Took(o) /\ Live(req[r].target))
  BY <1>1, WriteSets
<1>3. /\ Only(r) /\ req'[r].op = req[r].op /\ req'[r].target = req[r].target
      /\ req'[r].at = req[r].at /\ req'[r].pc # "write"
  BY <1>2 DEF Ends, Sets, Fields
<1>4. req[r].op = "update"
  BY <1>1, <1>2 DEF HandlerOK
<1>5. PICK t \in Agents : t = req[r].target
  BY <1>1, <1>4 DEF AnswerOK, OnAgent, Registered
<1>6. PICK b : b = req[r].beat
  OBVIOUS
<1>7. b = req[r].at /\ b \in Nat
  <2>1. b \in Nat
    BY <1>1, <1>6 DEF Request
  <2> QED BY <1>1, <1>2, <1>6, <2>1 DEF BeatOK
<1>8. agents' = IF Took(o) /\ Live(t) THEN [agents EXCEPT ![t].by = r, ![t].beat = b] ELSE agents
  BY <1>5, <1>6, Zenon DEF Write, UpdateAgent
<1>9. \A a \in Agents : \/ agents'[a].beat = agents[a].beat
                        \/ a = t /\ Took(o) /\ Live(t) /\ agents'[a].beat = b
  BY <1>1, <1>8 DEF Row
<1>10. UNCHANGED clock
  BY DEF Write
<1>11. BeatOK(req[r])' /\ Stands(r)'
  BY <1>3, <1>4 DEF BeatOK, Stands
<1>12. \A a \in Agents : \/ agents'[a].beat = agents[a].beat
                         \/ /\ req'[r].op = "update" /\ req'[r].changed /\ req'[r].target = a
                            /\ agents'[a].beat = req'[r].at
  BY <1>2, <1>3, <1>4, <1>5, <1>7, <1>9
<1> QED BY <1>2, <1>3, <1>7, <1>10, <1>11, <1>12, BeatStep

LEMMA ServeBeat ==
  ASSUME GatewayInv, BeatInv, NEW r \in Requests, NEW o \in Outcome, Serve(r, o)
  PROVE  BeatInv'
<1>1. /\ req \in [Requests -> Request] /\ agents \in [Agents -> Row]
      /\ HandlerOK(req[r]) /\ AnswerOK(req[r])
  BY RequestFacts
<1>2. UNCHANGED clock
  BY DEF Serve, Authenticate, Incr, Expire, Insert, Announce, List, Get, Query, Read, Write,
         Delete, Heartbeat, Resolve, Record
<1>3. \A F : Ends(r, F) => Sets(r, F) /\ req'[r].pc # "write"
  BY DEF Ends
<1>4. CASE Authenticate(r, o) \/ Incr(r, o) \/ Expire(r, o)
  <2>1. UNCHANGED agents /\ req[r].pc \in {"authenticate", "incr", "expire"}
    BY <1>4 DEF Authenticate, Incr, Expire
  <2>2. ~ req[r].changed /\ req[r].answer # 200 /\ req[r].pc # "new"
    BY <1>1, <2>1 DEF AnswerOK, Early, NoCode
  <2>3. \/ Sets(r, {"pc", "answer"}) /\ req'[r].pc = "done" /\ req'[r].answer # 200
        \/ Sets(r, {"pc", "slot"}) /\ req'[r].pc = "incr"
        \/ Sets(r, {"pc", "admitted"}) /\ req'[r].pc \in {"expire", Handler(req[r].op)}
        \/ Sets(r, {"pc"}) /\ req'[r].pc = Handler(req[r].op)
    BY <1>1, <1>4, AuthenticateSets, IncrSets, ExpireSets
  <2>4. req'[r].pc # "write"
    BY <2>2, <2>3, HandlerIs
  <2>5. CASE Sets(r, {"pc", "answer"}) /\ req'[r].answer # 200
    BY <1>2, <2>1, <2>2, <2>4, <2>5, BeatFrame
  <2>6. ASSUME NEW F \in {{"pc", "slot"}, {"pc", "admitted"}, {"pc"}}, Sets(r, F) PROVE BeatInv'
    <3>1. req'[r].answer = req[r].answer
      BY <2>6 DEF Sets, Fields
    <3> QED BY <1>2, <2>1, <2>2, <2>4, <2>6, <3>1, BeatFrame
  <2> QED BY <2>3, <2>5, <2>6
<1>5. CASE \E b \in Agents : Insert(r, b, o)
  <2>1. PICK b \in Agents : Insert(r, b, o)
    BY <1>5
  <2>2. req[r].pc = "insert" /\ (Sets(r, {"pc", "changed"}) \/ Sets(r, {"pc", "answer", "changed"}))
        /\ req'[r].pc # "write"
    BY <1>1, <1>3, <2>1, InsertSets
  <2>3. req[r].op = "register" /\ req'[r].op = req[r].op
    BY <1>1, <2>2 DEF HandlerOK, Sets, Fields
  <2>4. \A a \in Agents : Registered(a) => agents'[a].beat = agents[a].beat
    <3>1. PICK row : row = [state |-> "live", did |-> req[r].target, by |-> r, beat |-> 0,
                            rank |-> Cardinality({c \in Agents : Registered(c)})]
      OBVIOUS
    <3>2. agents' = IF Took(o) /\ ~ Taken(req[r].target) THEN [agents EXCEPT ![b] = row] ELSE agents
      BY <2>1, <3>1, Zenon DEF Insert, CreateAgent
    <3>3. ~ Registered(b) \/ Taken(req[r].target)
      BY <2>1 DEF Insert
    <3> QED BY <1>1, <3>2, <3>3
  <2> QED BY <1>2, <2>2, <2>3, <2>4, BeatFrame
<1>6. CASE Announce(r, o) \/ List(r, o) \/ Get(r, o) \/ Query(r, o)
  <2>1. /\ req[r].pc \in {"announce", "list", "get", "query"} /\ UNCHANGED agents
    BY <1>6 DEF Announce, List, Get, Query
  <2>2. req[r].op \in {"register", "list", "get", "query"}
    BY <1>1, <2>1 DEF HandlerOK
  <2>3. \/ Sets(r, {"pc", "answer", "changed"}) /\ req'[r].pc # "write"
        \/ Sets(r, {"pc", "answer", "found"}) /\ req'[r].pc # "write"
    BY <1>1, <1>3, <1>6, AnnounceSets, ListSets, GetSets, QuerySets
  <2>4. req'[r].op = req[r].op
    BY <2>3 DEF Sets, Fields
  <2> QED BY <1>2, <2>1, <2>2, <2>3, <2>4, BeatFrame
<1>7. CASE Read(r, o)
  <2>1. /\ req[r].pc = "read"
        /\ \/ /\ Sets(r, {"pc", "beat", "at"}) /\ req'[r].pc = "write"
              /\ req'[r].at = req'[r].beat
           \/ /\ Sets(r, {"pc", "answer", "changed"}) /\ req'[r].pc # "write"
    BY <1>1, <1>3, <1>7, ReadSets
  <2>2. req[r].op = "update" /\ ~ req[r].changed /\ UNCHANGED agents
    BY <1>1, <1>7, <2>1 DEF HandlerOK, AnswerOK, Early, Read
  <2>3. CASE Sets(r, {"pc", "answer", "changed"}) /\ req'[r].pc # "write"
    <3>1. req'[r].op = req[r].op
      BY <2>3 DEF Sets, Fields
    <3> QED BY <1>2, <2>2, <2>3, <3>1, BeatFrame
  <2>4. CASE /\ Sets(r, {"pc", "beat", "at"}) /\ req'[r].pc = "write"
             /\ req'[r].at = req'[r].beat
    <3>1. Only(r) /\ req'[r].op = req[r].op
      BY <2>4 DEF Sets, Fields
    <3>2. BeatOK(req[r])' /\ Stands(r)'
      BY <2>2, <2>4, <3>1 DEF BeatOK, Stands
    <3>3. req'[r].at \in Nat
      <4>1. CASE o = "ok" /\ Live(req[r].target)
        <5>1. PICK t \in Agents : t = req[r].target
          BY <1>1, <2>2 DEF AnswerOK, OnAgent, Registered
        <5>2. PICK c : c = agents[t].beat
          OBVIOUS
        <5>3. req' = [req EXCEPT ![r].pc = "write", ![r].beat = c, ![r].at = c]
          BY <1>7, <4>1, <5>1, <5>2, Zenon DEF Read
        <5>4. c \in Nat
          BY <1>1, <5>2 DEF Row
        <5> QED BY <1>1, <5>3, <5>4 DEF Request
      <4>2. CASE ~ (o = "ok" /\ Live(req[r].target))
        <5>1. PICK code : code = CodeOf(ErrorOf(o, FALSE), 200)
          OBVIOUS
        <5>2. Reply(r, code, FALSE)
          BY <1>7, <4>2, <5>1, Zenon DEF Read
        <5>3. req'[r].pc \in {"resolve", "done"}
          BY <1>1, <5>2, ReplySets
        <5> QED BY <2>4, <5>3
      <4> QED BY <4>1, <4>2
    <3> QED BY <1>2, <2>2, <3>1, <3>2, <3>3, BeatStep
  <2> QED BY <2>1, <2>3, <2>4
<1>8. CASE Write(r, o)
  BY <1>8, WriteBeat
<1>9. CASE Delete(r, o)
  <2>1. req[r].pc = "delete" /\ Sets(r, {"pc", "answer", "changed"}) /\ req'[r].pc # "write"
    BY <1>1, <1>3, <1>9, DeleteSets
  <2>2. req[r].op = "delete" /\ req'[r].op = req[r].op
    BY <1>1, <2>1 DEF HandlerOK, Sets, Fields
  <2>3. \A a \in Agents : agents'[a].beat = agents[a].beat
    <3>1. PICK t : t = req[r].target
      OBVIOUS
    <3>2. agents' = agents \/ agents' = [agents EXCEPT ![t].state = "deleted"]
      BY <1>9, <3>1 DEF Delete, DeleteAgent
    <3> QED BY <1>1, <3>2 DEF Row
  <2> QED BY <1>2, <2>1, <2>2, <2>3, BeatFrame
<1>10. CASE Heartbeat(r, o)
  BY <1>10, HeartbeatBeat
<1>11. CASE Resolve(r, o) \/ Record(r, o)
  <2>1. UNCHANGED agents /\ req'[r].pc # "write" /\ (Sets(r, {"pc", "by"}) \/ Sets(r, {"pc"}))
    BY <1>1, <1>11, ResolveSets, RecordSets DEF Resolve, Record
  <2>2. req'[r].answer = req[r].answer /\ req'[r].changed = req[r].changed
    BY <2>1 DEF Sets, Fields
  <2> QED BY <1>2, <2>1, <2>2, BeatFrame
<1> QED BY <1>4, <1>5, <1>6, <1>7, <1>8, <1>9, <1>10, <1>11, Zenon DEF Serve

LEMMA BeatNext ==
  ASSUME GatewayInv, BeatInv, [GatewayNext]_gatewayVars
  PROVE  BeatInv'
<1>1. req \in [Requests -> Request] /\ clock \in Nat
  BY DEF GatewayInv, TypesOK
<1>2. CASE UNCHANGED <<agents, req>> /\ (clock' = clock \/ clock' = clock + 1)
  <2> SUFFICES ASSUME NEW r \in Requests PROVE BeatOK(req[r])' /\ Stands(r)'
    BY DEF BeatInv
  <2>1. BeatOK(req[r]) /\ Stands(r)
    BY DEF BeatInv
  <2>2. Stands(r)'
    BY <1>2, <2>1 DEF Stands, Overwritten
  <2>3. req[r].at \in Nat
    BY <1>1 DEF Request
  <2>4. BeatOK(req[r])'
    BY <1>1, <1>2, <2>1, <2>3 DEF BeatOK
  <2> QED BY <2>2, <2>4
<1>3. ASSUME NEW r \in Requests, NEW op \in Ops, Arrive(r, op) PROVE BeatInv'
  <2>1. /\ Only(r) /\ req[r].pc = "new" /\ req'[r].pc \in {"authenticate", "done"}
        /\ req'[r].answer \in {NoCode, 401} /\ req'[r].at = 0
    BY <1>1, <1>3, ArriveSets
  <2>2. ~ req[r].changed
    BY <2>1, RequestFacts DEF AnswerOK, Early
  <2>3. UNCHANGED <<agents, clock>>
    BY <1>3 DEF Arrive
  <2>4. BeatOK(req[r])' /\ Stands(r)'
    BY <1>1, <2>1, <2>3 DEF BeatOK, Stands, NoCode
  <2> QED BY <2>1, <2>2, <2>3, <2>4, BeatStep
<1>4. ASSUME NEW r \in Requests, Disconnect(r) \/ Die(r) PROVE BeatInv'
  <2>1. UNCHANGED <<agents, clock>> /\ (Disconnect(r) \/ Die(r))
    BY <1>4 DEF Disconnect, Die
  <2>2. CASE Die(r)
    <3>1. Sets(r, {"pc"}) /\ req'[r].pc = "done"
      BY <1>1, <2>2, DieSets
    <3>2. req'[r].answer = req[r].answer /\ req'[r].changed = req[r].changed
      BY <3>1 DEF Sets, Fields
    <3> QED BY <2>1, <3>1, <3>2, BeatFrame
  <2>3. CASE Disconnect(r)
    <3>1. Sets(r, {"live"})
      BY <1>1, <2>3, DisconnectSets
    <3>2. /\ Only(r) /\ req'[r].answer = req[r].answer /\ req'[r].changed = req[r].changed
          /\ req'[r].pc = req[r].pc /\ req'[r].op = req[r].op /\ req'[r].at = req[r].at
          /\ req'[r].beat = req[r].beat /\ req'[r].target = req[r].target
      BY <3>1 DEF Sets, Fields
    <3>3. BeatOK(req[r]) /\ Stands(r) /\ req[r].at \in Nat
      BY RequestFacts DEF BeatInv, Request
    <3>4. BeatOK(req[r])'
      BY <2>1, <3>2, <3>3 DEF BeatOK
    <3>5. Overwritten(r) => Overwritten(r)'
      BY <3>2 DEF Overwritten, Only
    <3>6. Stands(r)'
      BY <2>1, <3>2, <3>3, <3>5 DEF Stands
    <3> QED BY <2>1, <3>2, <3>3, <3>4, <3>6, BeatStep
  <2> QED BY <2>1, <2>2, <2>3
<1>5. ASSUME NEW r \in Requests, NEW o \in Outcome, Serve(r, o) PROVE BeatInv'
  BY <1>5, ServeBeat
<1>6. UNCHANGED gatewayVars => UNCHANGED <<agents, req, clock>>
  BY DEF gatewayVars
<1>7. Tick => clock' = clock + 1
  BY DEF Tick
<1> QED BY <1>2, <1>3, <1>4, <1>5, <1>6, <1>7, Zenon DEF GatewayNext

LEMMA BeatInit == ASSUME GatewayInit PROVE BeatInv
<1>1. req = [r \in Requests |-> NewRequest] /\ clock = 0
  BY DEF GatewayInit, LimiterInit
<1>2. NewRequest.op = "none" /\ NewRequest.pc = "new"
  BY DEF NewRequest
<1> QED BY <1>1, <1>2 DEF BeatInv, BeatOK, Stands

\* A heartbeat that was confirmed is in the row, or a newer one, unless an update
\* of that agent had read an older one and wrote the row.
THEOREM HeartbeatsStand ==
  ASSUME IsFiniteSet(Agents) PROVE GatewaySpec => []HeartbeatStands
<1>1. GatewayInit => BeatInv
  BY BeatInit
<1>2. GatewayInv /\ BeatInv /\ [GatewayNext]_gatewayVars => BeatInv'
  BY BeatNext
<1>3. BeatInv => HeartbeatStands
  BY DEF BeatInv, Stands, Overwritten, HeartbeatStands
<1> QED BY <1>1, <1>2, <1>3, GatewayInvariant, PTL DEF GatewaySpec
=============================================================================
