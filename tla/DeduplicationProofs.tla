-------------------------- MODULE DeduplicationProofs -------------------------
(***************************************************************************)
(* Theorems about the keys that tell a first request from a repeated one,  *)
(* for any number of overlapping calls and any number of failures,         *)
(* cancelled contexts and deaths.                                          *)
(***************************************************************************)
EXTENDS Deduplication, FiniteSetTheorems, TLAPS

-----------------------------------------------------------------------------
(***************************************************************************)
(* The inductive invariant.                                                *)
(***************************************************************************)

\* Where a call may be: each operation has its own commands.
PCOf(op) ==
  CASE op = "IsDuplicate" -> {"idle", "exists", "db", "mark"}
    [] op = "CheckAndSet" -> {"idle", "get", "set", "expire", "del"}
    [] op = "Tracker"     -> {"idle", "check", "record"}

CallType == {r \in [op : Op, pc : UNION {PCOf(op) : op \in Op}, live : BOOLEAN,
                    after : BOOLEAN, answer : {"none", "duplicate", "fresh", "error"}] :
               r.pc \in PCOf(r.op)}

DedupTypeOK ==
  /\ key \in [Keys -> KeyState]
  /\ stored \in BOOLEAN
  /\ call \in [Callers -> CallType]
  /\ first \in [Keys -> BOOLEAN] /\ passed \in [Keys -> BOOLEAN]
  /\ late \in Nat /\ faults \in Nat /\ interruptions \in Nat

\* A call that is cancelled has cost an interruption; one that came after a
\* first still has that first before it.
CallOK(c) ==
  /\ ~ call[c].live => interruptions > 0
  /\ call[c].after => first[Here(c)]

Setting(k) == \E d \in Callers : call[d].pc = "expire" /\ Here(d) = k

\* As long as no call on a store has failed: whoever has set a key, or is the
\* first of its kind, finds it; a call that came after a first does not get past
\* the question whether there is one, unless it is cancelled.
NoneLost ==
  faults = 0 =>
    /\ late = 0
    /\ \A k \in Keys : first[k] \/ Setting(k) => key[k] # "absent"
    /\ \A c \in Callers :
         /\ call[c].pc \in {"db", "del"} => ~ call[c].live
         /\ call[c].pc \in {"mark", "set", "expire"} => ~ call[c].after \/ ~ call[c].live

\* As long as nothing at all has gone wrong: a key is there because of a call
\* that has passed or is about to, and so is everyone who was told "duplicate".
KeysHaveAnOriginal ==
  faults + interruptions = 0 =>
    \A k \in Keys : key[k] # "absent" => passed[k] \/ Setting(k)

RecordsHavePassed == \A c \in Callers : call[c].pc = "record" => passed[Here(c)]

\* What may still be passed late.  Calls that came after a first and are past
\* the question; calls that may ask while a key is lost, of which every one that
\* asked is about to set the key again; calls that are about to delete a key.
Danger == {c \in Callers : /\ call[c].after /\ call[c].live
                           /\ call[c].pc \in {"db", "mark", "set", "expire"}}
Lost(k) == key[k] = "absent" /\ (first[k] \/ Setting(k))
Asked(k) == {c \in Callers : /\ call[c].live /\ Here(c) = k
                             /\ call[c].pc \in {"mark", "set", "record"}}
Deleting == {c \in Callers : call[c].live /\ call[c].pc = "del"}

N == Cardinality(Callers)
Exposed(k) == IF Lost(k) THEN N - Cardinality(Asked(k)) ELSE 0

Owed(l, d, e, i, g) == l + d + e + i + N * g
Payment(f, i) == N * (f + i)

LatePaid ==
  Owed(late, Cardinality(Danger), Exposed("dedup"), Exposed("idempotency"),
       Cardinality(Deleting)) <= Payment(faults, interruptions)

DedupInv ==
  /\ DedupTypeOK
  /\ \A c \in Callers : CallOK(c)
  /\ NoneLost
  /\ RecordsHavePassed
  /\ KeysHaveAnOriginal
  /\ DuplicatesHaveAnOriginal
  /\ KeysExpire
  /\ LatePaid

-----------------------------------------------------------------------------
(* What a step of one call does to the calls.                               *)

PCs == UNION {PCOf(op) : op \in Op}
Answers == {"none", "duplicate", "fresh", "error"}

\* Call c goes to pc with the answer a, and nothing else of any call changes.
Moved(c, pc, a) ==
  /\ call' \in [Callers -> CallType]
  /\ call'[c].op = call[c].op /\ call'[c].pc = pc /\ call'[c].answer = a
  /\ call'[c].live = call[c].live /\ call'[c].after = call[c].after
  /\ \A d \in Callers : d # c => call'[d] = call[d]

LEMMA CallTypes ==
  ASSUME DedupTypeOK, NEW c \in Callers
  PROVE  /\ call[c] \in CallType /\ call[c].op \in Op /\ call[c].pc \in PCOf(call[c].op)
         /\ call[c].live \in BOOLEAN /\ call[c].after \in BOOLEAN
         /\ Here(c) \in Keys
BY DEF DedupTypeOK, CallType, Here, KeyOf, Keys

LEMMA RecordGoes ==
  ASSUME NEW r \in CallType, NEW pc \in PCOf(r.op)
  PROVE  /\ [r EXCEPT !.pc = pc] \in CallType
         /\ [r EXCEPT !.pc = pc].op = r.op /\ [r EXCEPT !.pc = pc].pc = pc
         /\ [r EXCEPT !.pc = pc].live = r.live /\ [r EXCEPT !.pc = pc].after = r.after
         /\ [r EXCEPT !.pc = pc].answer = r.answer
<1>1. r.op \in Op /\ pc \in PCs
  BY DEF CallType, PCs
<1>2. QED
  BY <1>1 DEF CallType, PCs

LEMMA RecordAnswers ==
  ASSUME NEW r \in CallType, NEW a \in Answers
  PROVE  /\ [r EXCEPT !.answer = a] \in CallType
         /\ [r EXCEPT !.answer = a].op = r.op /\ [r EXCEPT !.answer = a].pc = r.pc
         /\ [r EXCEPT !.answer = a].live = r.live
         /\ [r EXCEPT !.answer = a].after = r.after
         /\ [r EXCEPT !.answer = a].answer = a
BY DEF CallType, Answers

LEMMA GotoMoves ==
  ASSUME DedupTypeOK, NEW c \in Callers, NEW pc \in PCOf(call[c].op),
         call' = [call EXCEPT ![c].pc = pc]
  PROVE  Moved(c, pc, call[c].answer)
<1>1. call[c] \in CallType /\ call \in [Callers -> CallType]
  BY CallTypes DEF DedupTypeOK
<1> DEFINE r == [call[c] EXCEPT !.pc = pc]
<1>2. r \in CallType /\ r.op = call[c].op /\ r.pc = pc /\ r.live = call[c].live
      /\ r.after = call[c].after /\ r.answer = call[c].answer
  BY <1>1, RecordGoes
<1>3. call' = [call EXCEPT ![c] = r]
  OBVIOUS
<1> HIDE DEF r
<1>4. QED
  BY <1>1, <1>2, <1>3 DEF Moved

LEMMA AnswerMoves ==
  ASSUME DedupTypeOK, NEW c \in Callers, NEW pc \in PCOf(call[c].op), NEW a \in Answers,
         call' = [call EXCEPT ![c].pc = pc, ![c].answer = a]
  PROVE  Moved(c, pc, a)
<1>1. call[c] \in CallType /\ call \in [Callers -> CallType]
  BY CallTypes DEF DedupTypeOK
<1> DEFINE q == [call[c] EXCEPT !.pc = pc]
           r == [q EXCEPT !.answer = a]
<1>2. q \in CallType /\ q.op = call[c].op /\ q.pc = pc /\ q.live = call[c].live
      /\ q.after = call[c].after
  BY <1>1, RecordGoes
<1>3. call' = [call EXCEPT ![c] = r]
  OBVIOUS
<1> HIDE DEF q
<1>4. r \in CallType /\ r.op = call[c].op /\ r.pc = pc /\ r.live = call[c].live
      /\ r.after = call[c].after /\ r.answer = a
  BY <1>2, RecordAnswers
<1> HIDE DEF r
<1>5. QED
  BY <1>1, <1>3, <1>4 DEF Moved

LEMMA GotoIs ==
  ASSUME DedupTypeOK, NEW c \in Callers, NEW pc \in PCOf(call[c].op), Goto(c, pc)
  PROVE  Moved(c, pc, call[c].answer) /\ UNCHANGED <<first, passed, late>>
BY GotoMoves DEF Goto

LEMMA AnswerIs ==
  ASSUME DedupTypeOK, NEW c \in Callers, NEW a \in Answers, Answer(c, a)
  PROVE  Moved(c, "idle", a) /\ UNCHANGED <<first, passed, late>>
<1>1. "idle" \in PCOf(call[c].op)
  BY CallTypes DEF Op, PCOf
<1>2. QED
  BY <1>1, AnswerMoves DEF Answer

\* What a call that passes leaves behind.
Passing(c, left) ==
  /\ first' = [first EXCEPT ![Here(c)] = @ \/ left]
  /\ passed' = [passed EXCEPT ![Here(c)] = TRUE]
  /\ late' = late + (IF call[c].after THEN 1 ELSE 0)

LEMMA PassesIs ==
  ASSUME DedupTypeOK, NEW c \in Callers, NEW pc \in PCOf(call[c].op), NEW left,
         Passes(c, pc, left)
  PROVE  Moved(c, pc, "fresh") /\ Passing(c, left)
BY AnswerMoves DEF Passes, Passing, Answers

LEMMA At ==
  ASSUME DedupTypeOK, NEW c \in Callers
  PROVE  /\ call[c].pc \in {"exists", "db", "mark"} =>
              Here(c) = "dedup" /\ {"idle", "db", "mark"} \subseteq PCOf(call[c].op)
         /\ call[c].pc \in {"get", "set", "expire", "del"} =>
              /\ Here(c) = "idempotency"
              /\ {"idle", "set", "expire", "del"} \subseteq PCOf(call[c].op)
         /\ call[c].pc \in {"check", "record"} =>
              Here(c) = "idempotency" /\ {"idle", "record"} \subseteq PCOf(call[c].op)
<1>1. call[c].op \in Op /\ call[c].pc \in PCOf(call[c].op)
  BY CallTypes
<1>2. QED
  BY <1>1 DEF Op, PCOf, Here, KeyOf

\* A command that fails has cost a failed call, unless its context is cancelled.
Paid(o, live) ==
  /\ faults' \in Nat
  /\ o = "ok" => live /\ faults' = faults
  /\ o = "refused" => ~ live /\ faults' = faults
  /\ o \in {"lost", "unanswered"} => faults' = faults + 1

LEMMA CommandIs ==
  ASSUME DedupTypeOK, NEW c \in Callers, NEW pc, NEW o \in Outcome, Command(c, pc, o)
  PROVE  call[c].pc = pc /\ Paid(o, call[c].live)
BY DEF DedupTypeOK, Command, Call, Paid

-----------------------------------------------------------------------------
(* The commands, in terms of the above.                                     *)

LEMMA ExistsIs ==
  ASSUME DedupTypeOK, NEW c \in Callers, NEW o \in Outcome, Exists(c, o)
  PROVE  /\ call[c].pc = "exists" /\ Here(c) = "dedup" /\ Paid(o, call[c].live)
         /\ UNCHANGED <<key, stored, first, passed, late, interruptions>>
         /\ \/ o # "ok" /\ Moved(c, "db", call[c].answer)
            \/ o = "ok" /\ Present(c) /\ Moved(c, "idle", "duplicate")
            \/ o = "ok" /\ ~ Present(c) /\ Moved(c, "mark", call[c].answer)
BY At, CommandIs, GotoIs, AnswerIs DEF Exists, Answers

LEMMA checkInDBIs ==
  ASSUME DedupTypeOK, NEW c \in Callers, NEW o \in Outcome, checkInDB(c, o)
  PROVE  /\ call[c].pc = "db" /\ Here(c) = "dedup" /\ Paid(o, call[c].live)
         /\ UNCHANGED <<key, stored, interruptions>>
         /\ \/ o # "ok" /\ Moved(c, "idle", "error") /\ UNCHANGED <<first, passed, late>>
            \/ o = "ok" /\ Moved(c, "idle", "duplicate") /\ UNCHANGED <<first, passed, late>>
            \/ o = "ok" /\ Moved(c, "idle", "fresh") /\ Passing(c, FALSE)
BY At, CommandIs, AnswerIs, PassesIs DEF checkInDB, Answers

LEMMA markIs ==
  ASSUME DedupTypeOK, NEW c \in Callers, NEW o \in Outcome, markAsProcessed(c, o)
  PROVE  /\ call[c].pc = "mark" /\ Here(c) = "dedup" /\ Paid(o, call[c].live)
         /\ UNCHANGED <<stored, interruptions>>
         /\ IF Took(o) THEN Put(c, "window") ELSE UNCHANGED key
         /\ \/ o = "ok" /\ Moved(c, "idle", "fresh") /\ Passing(c, TRUE)
            \/ o # "ok" /\ Moved(c, "idle", "error") /\ UNCHANGED <<first, passed, late>>
BY At, CommandIs, AnswerIs, PassesIs DEF markAsProcessed, Answers

LEMMA GetKeyIs ==
  ASSUME DedupTypeOK, NEW c \in Callers, NEW o \in Outcome, GetKey(c, o)
  PROVE  /\ call[c].pc = "get" /\ Here(c) = "idempotency" /\ Paid(o, call[c].live)
         /\ UNCHANGED <<key, stored, first, passed, late, interruptions>>
         /\ \/ o = "ok" /\ Present(c) /\ Moved(c, "idle", "duplicate")
            \/ ~ (o = "ok" /\ Present(c)) /\ Moved(c, "set", call[c].answer)
BY At, CommandIs, GotoIs, AnswerIs DEF GetKey, Answers

LEMMA SetKeyIs ==
  ASSUME DedupTypeOK, NEW c \in Callers, NEW o \in Outcome, SetKey(c, o)
  PROVE  /\ call[c].pc = "set" /\ Here(c) = "idempotency" /\ Paid(o, call[c].live)
         /\ UNCHANGED <<stored, first, passed, late, interruptions>>
         /\ IF Took(o) THEN Put(c, "kept") ELSE UNCHANGED key
         /\ \/ o = "ok" /\ Moved(c, "expire", call[c].answer)
            \/ o # "ok" /\ Moved(c, "idle", "error")
BY At, CommandIs, GotoIs, AnswerIs DEF SetKey, Answers

LEMMA ExpireKeyIs ==
  ASSUME DedupTypeOK, NEW c \in Callers, NEW o \in Outcome, ExpireKey(c, o)
  PROVE  /\ call[c].pc = "expire" /\ Here(c) = "idempotency" /\ Paid(o, call[c].live)
         /\ UNCHANGED <<stored, interruptions>>
         /\ IF Took(o) /\ Present(c) THEN Put(c, "window") ELSE UNCHANGED key
         /\ \/ o = "ok" /\ Moved(c, "idle", "fresh") /\ Passing(c, TRUE)
            \/ /\ o # "ok" /\ Moved(c, "del", call[c].answer)
               /\ UNCHANGED <<first, passed, late>>
<1>1. call[c].pc = "expire" /\ Here(c) = "idempotency" /\ Paid(o, call[c].live)
      /\ "idle" \in PCOf(call[c].op) /\ "del" \in PCOf(call[c].op)
  BY At, CommandIs DEF ExpireKey
<1>2. Passes(c, "idle", TRUE) => Moved(c, "idle", "fresh") /\ Passing(c, TRUE)
  BY <1>1, PassesIs
<1>3. Goto(c, "del") =>
        Moved(c, "del", call[c].answer) /\ UNCHANGED <<first, passed, late>>
  BY <1>1, GotoIs
<1>4. QED
  BY <1>1, <1>2, <1>3, Zenon DEF ExpireKey

LEMMA DelKeyIs ==
  ASSUME DedupTypeOK, NEW c \in Callers, NEW o \in Outcome, DelKey(c, o)
  PROVE  /\ call[c].pc = "del" /\ Here(c) = "idempotency" /\ Paid(o, call[c].live)
         /\ UNCHANGED <<stored, first, passed, late, interruptions>>
         /\ IF Took(o) THEN Put(c, "absent") ELSE UNCHANGED key
         /\ Moved(c, "idle", "error")
BY At, CommandIs, AnswerIs DEF DelKey, Answers

LEMMA CheckKeyIs ==
  ASSUME DedupTypeOK, NEW c \in Callers, NEW o \in Outcome, CheckKey(c, o)
  PROVE  /\ call[c].pc = "check" /\ Here(c) = "idempotency" /\ Paid(o, call[c].live)
         /\ UNCHANGED <<key, stored, interruptions>>
         /\ \/ o # "ok" /\ Moved(c, "idle", "error") /\ UNCHANGED <<first, passed, late>>
            \/ /\ o = "ok" /\ Present(c) /\ Moved(c, "idle", "duplicate")
               /\ UNCHANGED <<first, passed, late>>
            \/ o = "ok" /\ ~ Present(c) /\ Moved(c, "record", "fresh") /\ Passing(c, FALSE)
BY At, CommandIs, AnswerIs, PassesIs DEF CheckKey, Answers

LEMMA RecordKeyIs ==
  ASSUME DedupTypeOK, NEW c \in Callers, NEW o \in Outcome, RecordKey(c, o)
  PROVE  /\ call[c].pc = "record" /\ Here(c) = "idempotency" /\ Paid(o, call[c].live)
         /\ UNCHANGED <<stored, passed, late, interruptions>>
         /\ IF Took(o) THEN Put(c, "window") ELSE UNCHANGED key
         /\ Moved(c, "idle", call[c].answer)
         /\ first' = [first EXCEPT ![Here(c)] = @ \/ o = "ok"]
<1>1. call[c].pc = "record" /\ Here(c) = "idempotency" /\ Paid(o, call[c].live)
      /\ "idle" \in PCOf(call[c].op)
  BY At, CommandIs DEF RecordKey
<1>2. Moved(c, "idle", call[c].answer)
  BY <1>1, GotoMoves DEF RecordKey
<1>3. QED
  BY <1>1, <1>2, Zenon DEF RecordKey

-----------------------------------------------------------------------------
(* What the other steps do to the calls.                                    *)

LEMMA IdleIs == /\ Idle \in CallType /\ Idle.op = "IsDuplicate" /\ Idle.pc = "idle"
                /\ Idle.live = TRUE /\ Idle.after = FALSE /\ Idle.answer = "none"
BY DEF Idle, CallType, Op, PCOf

LEMMA BeginIs ==
  ASSUME DedupTypeOK, NEW c \in Callers, NEW op \in Op, Begin(c, op)
  PROVE  /\ call[c].pc = "idle"
         /\ call' \in [Callers -> CallType]
         /\ call'[c].pc \in {"exists", "get", "check"}
         /\ Here(c)' \in Keys
         /\ call'[c].after = first[Here(c)']
         /\ call'[c].live = TRUE /\ call'[c].answer = "none"
         /\ \A d \in Callers : d # c => call'[d] = call[d]
         /\ UNCHANGED <<key, stored, first, passed, late, faults, interruptions>>
<1> DEFINE pc == CASE op = "IsDuplicate" -> "exists"
                   [] op = "CheckAndSet" -> "get"
                   [] op = "Tracker"     -> "check"
           a == first[KeyOf(op)]
           p == [Idle EXCEPT !.op = op]
           q == [p EXCEPT !.after = a]
           r == [q EXCEPT !.pc = pc]
<1>1. pc \in PCOf(op) /\ pc \in {"exists", "get", "check"} /\ pc \in PCs
      /\ KeyOf(op) \in Keys
  BY DEF Op, PCOf, PCs, KeyOf, Keys
<1>2. a \in BOOLEAN
  BY <1>1 DEF DedupTypeOK
<1>3. call' = [call EXCEPT ![c] = r]
  BY DEF Begin
<1> HIDE DEF pc, a
<1>4. p \in CallType /\ p.op = op /\ p.pc = "idle" /\ p.live = TRUE
      /\ p.answer = "none"
  BY IdleIs DEF CallType, Op, PCOf
<1> HIDE DEF p
<1>11. q \in CallType /\ q.op = op /\ q.pc = "idle" /\ q.live = TRUE
       /\ q.answer = "none" /\ q.after = a
  BY <1>2, <1>4 DEF CallType
<1> HIDE DEF q
<1>5. r \in CallType /\ r.op = op /\ r.pc = pc /\ r.live = TRUE /\ r.after = a
      /\ r.answer = "none"
  BY <1>1, <1>11, RecordGoes
<1> HIDE DEF r
<1>6. call' \in [Callers -> CallType] /\ call'[c] = r
      /\ \A d \in Callers : d # c => call'[d] = call[d]
  BY <1>3, <1>5 DEF DedupTypeOK
<1>7. Here(c)' = KeyOf(op)
  BY <1>5, <1>6 DEF Here
<1>8. call[c].pc = "idle"
      /\ UNCHANGED <<key, stored, first, passed, late, faults, interruptions>>
  BY DEF Begin
<1>9. call'[c].after = first[Here(c)']
  BY <1>5, <1>6, <1>7 DEF a
<1>10. QED
  BY <1>1, <1>5, <1>6, <1>7, <1>8, <1>9

LEMMA CancelIs ==
  ASSUME DedupTypeOK, NEW c \in Callers, Cancel(c)
  PROVE  /\ call[c].live
         /\ call' \in [Callers -> CallType]
         /\ call'[c].op = call[c].op /\ call'[c].pc = call[c].pc
         /\ call'[c].after = call[c].after /\ call'[c].answer = call[c].answer
         /\ ~ call'[c].live
         /\ \A d \in Callers : d # c => call'[d] = call[d]
         /\ interruptions' = interruptions + 1
         /\ UNCHANGED <<key, stored, first, passed, late, faults>>
<1>1. call[c] \in CallType /\ call \in [Callers -> CallType]
  BY CallTypes DEF DedupTypeOK
<1> DEFINE r == [call[c] EXCEPT !.live = FALSE]
<1>2. r \in CallType /\ r.op = call[c].op /\ r.pc = call[c].pc /\ r.live = FALSE
      /\ r.after = call[c].after /\ r.answer = call[c].answer
  BY <1>1 DEF CallType
<1>3. call' = [call EXCEPT ![c] = r]
  BY DEF Cancel
<1> HIDE DEF r
<1>4. QED
  BY <1>1, <1>2, <1>3 DEF Cancel, Interrupted

LEMMA DieIs ==
  ASSUME DedupTypeOK, NEW c \in Callers, Die(c)
  PROVE  /\ call' \in [Callers -> CallType] /\ call'[c] = Idle
         /\ \A d \in Callers : d # c => call'[d] = call[d]
         /\ interruptions' = interruptions + 1
         /\ UNCHANGED <<key, stored, first, passed, late, faults>>
BY IdleIs DEF Die, Interrupted, DedupTypeOK

LEMMA KeyExpiresIs ==
  ASSUME DedupTypeOK, NEW k \in Keys, KeyExpires(k)
  PROVE  /\ ~ Setting(k)
         /\ key' = [key EXCEPT ![k] = "absent"]
         /\ first' = [first EXCEPT ![k] = FALSE]
         /\ call' \in [Callers -> CallType]
         /\ \A c \in Callers :
              /\ call'[c].op = call[c].op /\ call'[c].pc = call[c].pc
              /\ call'[c].live = call[c].live /\ call'[c].answer = call[c].answer
              /\ call'[c].after = (call[c].after /\ Here(c) # k)
         /\ UNCHANGED <<stored, passed, late, faults, interruptions>>
<1>1. ASSUME NEW c \in Callers
      PROVE  LET r == [call[c] EXCEPT !.after = @ /\ Here(c) # k] IN
             /\ r \in CallType
             /\ r.op = call[c].op /\ r.pc = call[c].pc
             /\ r.live = call[c].live /\ r.answer = call[c].answer
             /\ r.after = (call[c].after /\ Here(c) # k)
  <2>1. call[c] \in CallType
    BY CallTypes
  <2> DEFINE b == call[c].after /\ Here(c) # k
  <2>2. b \in BOOLEAN
    OBVIOUS
  <2> HIDE DEF b
  <2>3. /\ [call[c] EXCEPT !.after = b] \in CallType
        /\ [call[c] EXCEPT !.after = b].op = call[c].op
        /\ [call[c] EXCEPT !.after = b].pc = call[c].pc
        /\ [call[c] EXCEPT !.after = b].live = call[c].live
        /\ [call[c] EXCEPT !.after = b].answer = call[c].answer
        /\ [call[c] EXCEPT !.after = b].after = b
    BY <2>1, <2>2 DEF CallType
  <2>4. QED
    BY <2>3 DEF b
<1> DEFINE F(c) == [call[c] EXCEPT !.after = @ /\ Here(c) # k]
<1>2. call' = [c \in Callers |-> F(c)]
  BY DEF KeyExpires
<1>3. \A c \in Callers :
        /\ F(c) \in CallType
        /\ F(c).op = call[c].op /\ F(c).pc = call[c].pc
        /\ F(c).live = call[c].live /\ F(c).answer = call[c].answer
        /\ F(c).after = (call[c].after /\ Here(c) # k)
  BY <1>1
<1> HIDE DEF F
<1>4. QED
  BY <1>2, <1>3, Zenon DEF KeyExpires, Setting

-----------------------------------------------------------------------------
(* Types.                                                                   *)

LEMMA PassingTypes ==
  ASSUME DedupTypeOK, NEW c \in Callers, NEW left \in BOOLEAN, Passing(c, left)
  PROVE  /\ first' \in [Keys -> BOOLEAN] /\ passed' \in [Keys -> BOOLEAN] /\ late' \in Nat
         /\ passed'[Here(c)] /\ \A k \in Keys : passed[k] => passed'[k]
         /\ \A k \in Keys : first[k] => first'[k]
         /\ \A k \in Keys : k # Here(c) => first'[k] = first[k]
         /\ first'[Here(c)] <=> first[Here(c)] \/ left
         /\ call[c].after => late' = late + 1
         /\ ~ call[c].after => late' = late
<1>1. Here(c) \in Keys
  BY CallTypes
<1> DEFINE k0 == Here(c)
           b == first[k0] \/ left
<1>2. b \in BOOLEAN /\ first' = [first EXCEPT ![k0] = b]
  BY <1>1 DEF Passing, DedupTypeOK
<1> HIDE DEF b, k0
<1>3. k0 \in Keys
  BY <1>1 DEF k0
<1>4. /\ first' \in [Keys -> BOOLEAN] /\ first'[k0] = b
      /\ \A k \in Keys : k # k0 => first'[k] = first[k]
  BY <1>2, <1>3 DEF DedupTypeOK
<1>5. first'[k0] <=> first[k0] \/ left
  BY <1>4, Zenon DEF b
<1>6. /\ passed' \in [Keys -> BOOLEAN] /\ passed'[k0] = TRUE
      /\ \A k \in Keys : k # k0 => passed'[k] = passed[k]
  BY <1>3 DEF Passing, DedupTypeOK, k0
<1>7. /\ late' \in Nat
      /\ call[c].after => late' = late + 1
      /\ ~ call[c].after => late' = late
  BY DEF Passing, DedupTypeOK
<1>8. \A k \in Keys : (first[k] => first'[k]) /\ (passed[k] => passed'[k])
  BY <1>4, <1>5, <1>6
<1>9. QED
  BY <1>4, <1>5, <1>6, <1>7, <1>8, Zenon DEF k0

LEMMA PutTypes ==
  ASSUME DedupTypeOK, NEW c \in Callers, NEW state \in KeyState, Put(c, state)
  PROVE  /\ key' \in [Keys -> KeyState] /\ key'[Here(c)] = state
         /\ \A k \in Keys : k # Here(c) => key'[k] = key[k]
BY CallTypes DEF DedupTypeOK, Put

LEMMA RecordTypes ==
  ASSUME DedupTypeOK, NEW c \in Callers, NEW b \in BOOLEAN,
         first' = [first EXCEPT ![Here(c)] = @ \/ b]
  PROVE  /\ first' \in [Keys -> BOOLEAN]
         /\ \A k \in Keys : first[k] => first'[k]
         /\ \A k \in Keys : k # Here(c) => first'[k] = first[k]
         /\ first'[Here(c)] <=> first[Here(c)] \/ b
<1>1. Here(c) \in Keys
  BY CallTypes
<1> DEFINE k0 == Here(c)
           v == first[k0] \/ b
<1>2. v \in BOOLEAN /\ first' = [first EXCEPT ![k0] = v]
  BY <1>1 DEF DedupTypeOK
<1> HIDE DEF v, k0
<1>3. k0 \in Keys
  BY <1>1 DEF k0
<1>4. /\ first' \in [Keys -> BOOLEAN] /\ first'[k0] = v
      /\ \A k \in Keys : k # k0 => first'[k] = first[k]
  BY <1>2, <1>3 DEF DedupTypeOK
<1>5. first'[k0] <=> first[k0] \/ b
  BY <1>4, Zenon DEF v
<1>6. \A k \in Keys : first[k] => first'[k]
  BY <1>4, <1>5
<1>7. QED
  BY <1>4, <1>5, <1>6 DEF k0

LEMMA DedupTypeStep == ASSUME DedupTypeOK, DedupNext PROVE DedupTypeOK'
<1> USE DEF DedupTypeOK
<1>1. ASSUME NEW c \in Callers, NEW op \in Op, Begin(c, op) PROVE DedupTypeOK'
  BY <1>1, BeginIs
<1>2. ASSUME NEW c \in Callers, Cancel(c) \/ Die(c) PROVE DedupTypeOK'
  BY <1>2, CancelIs, DieIs
<1>3. ASSUME NEW k \in Keys, KeyExpires(k) PROVE DedupTypeOK'
  BY <1>3, KeyExpiresIs DEF KeyState
<1>4. CASE Insert
  BY <1>4 DEF Insert
<1>5. ASSUME NEW c \in Callers, NEW o \in Outcome, DedupStep(c, o) PROVE DedupTypeOK'
  <2> USE DEF Moved, Paid
  <2>0. {"absent", "window", "kept"} \subseteq KeyState /\ (o = "ok") \in BOOLEAN
    BY DEF KeyState
  <2>1. CASE Exists(c, o)
    BY <2>1, ExistsIs
  <2>2. CASE checkInDB(c, o)
    BY <2>2, checkInDBIs, PassingTypes
  <2>3. CASE markAsProcessed(c, o)
    BY <2>3, markIs, PassingTypes, PutTypes, <2>0
  <2>4. CASE GetKey(c, o)
    BY <2>4, GetKeyIs
  <2>5. CASE SetKey(c, o)
    BY <2>5, SetKeyIs, PutTypes, <2>0
  <2>6. CASE ExpireKey(c, o)
    BY <2>6, ExpireKeyIs, PassingTypes, PutTypes, <2>0
  <2>7. CASE DelKey(c, o)
    BY <2>7, DelKeyIs, PutTypes, <2>0
  <2>8. CASE CheckKey(c, o)
    BY <2>8, CheckKeyIs, PassingTypes
  <2>9. CASE RecordKey(c, o)
    BY <2>9, RecordKeyIs, RecordTypes, PutTypes, <2>0
  <2>10. QED
    BY <1>5, <2>1, <2>2, <2>3, <2>4, <2>5, <2>6, <2>7, <2>8, <2>9 DEF DedupStep
<1>6. QED
  BY <1>1, <1>2, <1>3, <1>4, <1>5 DEF DedupNext

-----------------------------------------------------------------------------
(* What every command has in common.                                        *)

LEMMA MovedFrame ==
  ASSUME DedupTypeOK, NEW c \in Callers, NEW pc, NEW a, Moved(c, pc, a)
  PROVE  \A d \in Callers : /\ Here(d)' = Here(d) /\ call'[d].live = call[d].live
                            /\ call'[d].after = call[d].after
                            /\ d # c => call'[d] = call[d]
BY DEF Moved, Here

LEMMA StepIs ==
  ASSUME DedupTypeOK, NEW c \in Callers, NEW o \in Outcome, DedupStep(c, o)
  PROVE  /\ Paid(o, call[c].live) /\ UNCHANGED interruptions
         /\ \A d \in Callers : /\ Here(d)' = Here(d) /\ call'[d].live = call[d].live
                               /\ call'[d].after = call[d].after
                               /\ d # c => call'[d] = call[d]
         /\ \A k \in Keys : (first[k] => first'[k]) /\ (passed[k] => passed'[k])
         /\ \A k \in Keys : k # Here(c) => key'[k] = key[k] /\ first'[k] = first[k]
<1>0. {"absent", "window", "kept"} \subseteq KeyState /\ (o = "ok") \in BOOLEAN
  BY DEF KeyState
<1>1. CASE Exists(c, o)
  BY <1>1, ExistsIs, MovedFrame
<1>2. CASE checkInDB(c, o)
  BY <1>2, checkInDBIs, MovedFrame, PassingTypes
<1>3. CASE markAsProcessed(c, o)
  <2>1. Paid(o, call[c].live) /\ UNCHANGED interruptions
    BY <1>3, markIs, Zenon
  <2>2. \A k \in Keys : k # Here(c) => key'[k] = key[k]
    BY <1>3, markIs, PutTypes, <1>0
  <2>3. \E pc, a : Moved(c, pc, a)
    BY <1>3, markIs
  <2>4. \/ Passing(c, TRUE)
        \/ UNCHANGED <<first, passed>>
    BY <1>3, markIs
  <2>5. /\ \A k \in Keys : (first[k] => first'[k]) /\ (passed[k] => passed'[k])
        /\ \A k \in Keys : k # Here(c) => first'[k] = first[k]
    BY <2>4, PassingTypes
  <2>6. QED
    BY <2>1, <2>2, <2>3, <2>5, MovedFrame
<1>4. CASE GetKey(c, o)
  BY <1>4, GetKeyIs, MovedFrame
<1>5. CASE SetKey(c, o)
  BY <1>5, SetKeyIs, MovedFrame, PutTypes, <1>0
<1>6. CASE ExpireKey(c, o)
  <2>1. Paid(o, call[c].live) /\ UNCHANGED interruptions
    BY <1>6, ExpireKeyIs, Zenon
  <2>2. \A k \in Keys : k # Here(c) => key'[k] = key[k]
    BY <1>6, ExpireKeyIs, PutTypes, <1>0
  <2>3. \E pc, a : Moved(c, pc, a)
    BY <1>6, ExpireKeyIs
  <2>4. \/ Passing(c, TRUE)
        \/ UNCHANGED <<first, passed>>
    BY <1>6, ExpireKeyIs
  <2>5. /\ \A k \in Keys : (first[k] => first'[k]) /\ (passed[k] => passed'[k])
        /\ \A k \in Keys : k # Here(c) => first'[k] = first[k]
    BY <2>4, PassingTypes
  <2>6. QED
    BY <2>1, <2>2, <2>3, <2>5, MovedFrame
<1>7. CASE DelKey(c, o)
  BY <1>7, DelKeyIs, MovedFrame, PutTypes, <1>0
<1>8. CASE CheckKey(c, o)
  BY <1>8, CheckKeyIs, MovedFrame, PassingTypes
<1>9. CASE RecordKey(c, o)
  <2>1. /\ \A k \in Keys : first[k] => first'[k]
        /\ \A k \in Keys : k # Here(c) => first'[k] = first[k]
    <3>1. first' = [first EXCEPT ![Here(c)] = @ \/ o = "ok"]
      BY <1>9, RecordKeyIs, Zenon
    <3>2. QED
      BY <1>0, <3>1, RecordTypes
  <2>2. \A k \in Keys : k # Here(c) => key'[k] = key[k]
    BY <1>9, RecordKeyIs, PutTypes, <1>0
  <2>3. Moved(c, "idle", call[c].answer) /\ Paid(o, call[c].live)
        /\ UNCHANGED <<passed, interruptions>>
    BY <1>9, RecordKeyIs, Zenon
  <2>4. QED
    BY <2>1, <2>2, <2>3, MovedFrame
<1>10. QED
  BY <1>1, <1>2, <1>3, <1>4, <1>5, <1>6, <1>7, <1>8, <1>9 DEF DedupStep

LEMMA CallOKStep ==
  ASSUME DedupTypeOK, \A c \in Callers : CallOK(c), DedupNext
  PROVE  \A c \in Callers : CallOK(c)'
<1>1. ASSUME NEW c \in Callers, NEW op \in Op, Begin(c, op) PROVE \A d \in Callers : CallOK(d)'
  BY <1>1, BeginIs DEF CallOK, Here
<1>2. ASSUME NEW c \in Callers, Cancel(c) PROVE \A d \in Callers : CallOK(d)'
  BY <1>2, CancelIs DEF CallOK, Here, DedupTypeOK
<1>3. ASSUME NEW c \in Callers, Die(c) PROVE \A d \in Callers : CallOK(d)'
  BY <1>3, DieIs, IdleIs DEF CallOK, Here, DedupTypeOK
<1>4. ASSUME NEW k \in Keys, KeyExpires(k) PROVE \A d \in Callers : CallOK(d)'
  <2>1. \A j \in Keys : j # k => first'[j] = first[j]
    BY <1>4, KeyExpiresIs DEF DedupTypeOK
  <2>2. \A d \in Callers : Here(d)' = Here(d) /\ Here(d) \in Keys
    BY <1>4, KeyExpiresIs, CallTypes DEF Here
  <2>3. QED
    BY <1>4, <2>1, <2>2, KeyExpiresIs DEF CallOK
<1>5. CASE Insert
  BY <1>5 DEF Insert, CallOK, Here
<1>6. ASSUME NEW c \in Callers, NEW o \in Outcome, DedupStep(c, o)
      PROVE  \A d \in Callers : CallOK(d)'
  BY <1>6, StepIs, CallTypes DEF CallOK
<1>7. QED
  BY <1>1, <1>2, <1>3, <1>4, <1>5, <1>6 DEF DedupNext

-----------------------------------------------------------------------------
(* Records, originals and kept keys.                                        *)

LEMMA RecordsStep ==
  ASSUME DedupTypeOK, RecordsHavePassed, DedupNext
  PROVE  RecordsHavePassed'
<1> USE DEF RecordsHavePassed
<1>1. ASSUME NEW c \in Callers, NEW op \in Op, Begin(c, op) PROVE RecordsHavePassed'
  BY <1>1, BeginIs DEF Here
<1>2. ASSUME NEW c \in Callers, Cancel(c) \/ Die(c) PROVE RecordsHavePassed'
  BY <1>2, CancelIs, DieIs, IdleIs DEF Here
<1>3. ASSUME NEW k \in Keys, KeyExpires(k) PROVE RecordsHavePassed'
  BY <1>3, KeyExpiresIs DEF Here
<1>4. CASE Insert
  BY <1>4 DEF Insert, Here
<1>5. ASSUME NEW c \in Callers, NEW o \in Outcome, DedupStep(c, o) PROVE RecordsHavePassed'
  <2>1. \A d \in Callers : d # c => (call'[d].pc = "record" => passed'[Here(d)'])
    BY <1>5, StepIs, CallTypes
  <2>2. call'[c].pc = "record" => passed'[Here(c)'] 
    <3>1. ASSUME call'[c].pc = "record" PROVE CheckKey(c, o)
      BY <1>5, <3>1, ExistsIs, checkInDBIs, markIs, GetKeyIs, SetKeyIs, ExpireKeyIs, DelKeyIs,
         RecordKeyIs DEF DedupStep, Moved
    <3>2. ASSUME CheckKey(c, o), call'[c].pc = "record" PROVE Passing(c, FALSE)
      BY <3>2, CheckKeyIs DEF Moved
    <3>3. QED
      BY <1>5, <3>1, <3>2, PassingTypes, StepIs
  <2>3. QED
    BY <2>1, <2>2 DEF Here
<1>6. QED
  BY <1>1, <1>2, <1>3, <1>4, <1>5 DEF DedupNext

LEMMA NoneIsZero == \A x, y \in Nat : x + y = 0 => x = 0 /\ y = 0
OBVIOUS

\* As long as nothing goes wrong every command is answered.
LEMMA CleanStep ==
  ASSUME DedupTypeOK, NEW c \in Callers, CallOK(c), NEW o \in Outcome, DedupStep(c, o),
         faults' + interruptions' = 0
  PROVE  o = "ok" /\ faults + interruptions = 0
<1>1. Paid(o, call[c].live) /\ interruptions' = interruptions
  BY StepIs
<1>2. faults \in Nat /\ interruptions \in Nat
  BY DEF DedupTypeOK
<1>9. /\ faults' \in Nat
      /\ o \in {"lost", "unanswered"} => faults' = faults + 1
      /\ o = "ok" => faults' = faults
      /\ interruptions' = interruptions
  BY <1>1, Zenon DEF Paid
<1>3. faults' = 0 /\ interruptions' = 0 /\ interruptions = 0
  BY <1>2, <1>9, NoneIsZero
<1>4. call[c].live
  BY <1>3 DEF CallOK
<1>5. o \notin {"lost", "unanswered"}
  BY <1>2, <1>3, <1>9
<1>6. o # "refused"
  BY <1>1, <1>4, Zenon DEF Paid
<1>7. o = "ok"
  BY <1>5, <1>6 DEF Outcome
<1>8. QED
  BY <1>2, <1>3, <1>7, <1>9

LEMMA BeginSetting ==
  ASSUME DedupTypeOK, NEW c \in Callers, NEW op \in Op, Begin(c, op)
  PROVE  \A k : Setting(k) => Setting(k)'
<1>1. \A d \in Callers : call[d].pc = "expire" => call'[d] = call[d]
  BY BeginIs
<1>2. QED
  BY <1>1 DEF Setting, Here

LEMMA KeysExpireStep ==
  ASSUME DedupTypeOK, \A c \in Callers : CallOK(c), KeysExpire, DedupNext
  PROVE  KeysExpire'
<1> USE DEF KeysExpire
<1>0. faults \in Nat /\ interruptions \in Nat
  BY DEF DedupTypeOK
<1>1. ASSUME NEW c \in Callers, NEW op \in Op, Begin(c, op) PROVE KeysExpire'
  BY <1>1, BeginIs
<1>2. ASSUME NEW c \in Callers, Cancel(c) \/ Die(c) PROVE KeysExpire'
  BY <1>0, <1>2, CancelIs, DieIs
<1>3. ASSUME NEW k \in Keys, KeyExpires(k) PROVE KeysExpire'
  BY <1>3, KeyExpiresIs DEF DedupTypeOK, Keys
<1>4. CASE Insert
  BY <1>4 DEF Insert
<1>5. ASSUME NEW c \in Callers, NEW o \in Outcome, DedupStep(c, o) PROVE KeysExpire'
  <2>0. SUFFICES ASSUME faults' + interruptions' = 0, key'["idempotency"] = "kept"
                 PROVE  \E d \in Callers : call'[d].pc \in {"expire", "del"}
    <3>1. Paid(o, call[c].live) /\ interruptions' = interruptions
      BY <1>5, StepIs
    <3>2. QED
      BY <1>0, <3>1, <2>0 DEF Paid
  <2>1. o = "ok" /\ faults + interruptions = 0
    BY <1>5, <2>0, CleanStep
  <2>2. ASSUME key["idempotency"] = "kept", call[c].pc \notin {"expire", "del"}
        PROVE  \E d \in Callers : call'[d].pc \in {"expire", "del"}
    BY <1>0, <1>5, <2>1, <2>2, StepIs
  <2>3. CASE SetKey(c, o)
    BY <2>1, <2>3, SetKeyIs DEF Moved
  <2>4. CASE ExpireKey(c, o) \/ DelKey(c, o)
    <3>1. Here(c) = "idempotency" /\ "idempotency" \in Keys /\ Took(o)
      BY <2>1, <2>4, ExpireKeyIs, DelKeyIs DEF Keys, Took
    <3>2. ~ (Took(o) /\ Present(c)) => key' = key \/ key'[Here(c)] = "absent"
      BY <2>4, <3>1, ExpireKeyIs, DelKeyIs, PutTypes DEF KeyState
    <3>3. Took(o) /\ Present(c) => key'[Here(c)] \in {"absent", "window"}
      BY <2>4, ExpireKeyIs, DelKeyIs, PutTypes DEF KeyState
    <3>4. QED
      BY <2>0, <3>1, <3>2, <3>3 DEF Present
  <2>5. CASE markAsProcessed(c, o) \/ RecordKey(c, o)
    <3>1. call[c].pc \notin {"expire", "del"}
      BY <2>5, markIs, RecordKeyIs
    <3>2. key' = key \/ Put(c, "window")
      BY <2>5, markIs, RecordKeyIs
    <3>3. key["idempotency"] = "kept"
      BY <2>0, <3>2, PutTypes DEF KeyState, Keys
    <3>4. QED
      BY <2>2, <3>1, <3>3
  <2>6. CASE Exists(c, o) \/ checkInDB(c, o) \/ GetKey(c, o) \/ CheckKey(c, o)
    <3>1. call[c].pc \notin {"expire", "del"} /\ key' = key
      BY <2>6, ExistsIs, checkInDBIs, GetKeyIs, CheckKeyIs
    <3>2. QED
      BY <2>0, <2>2, <3>1
  <2>7. QED
    BY <1>5, <2>3, <2>4, <2>5, <2>6 DEF DedupStep
<1>6. QED
  BY <1>1, <1>2, <1>3, <1>4, <1>5 DEF DedupNext

LEMMA OriginalsStep ==
  ASSUME DedupTypeOK, \A c \in Callers : CallOK(c), RecordsHavePassed, KeysHaveAnOriginal,
         DedupNext
  PROVE  KeysHaveAnOriginal'
<1> USE DEF KeysHaveAnOriginal
<1>0. faults \in Nat /\ interruptions \in Nat
  BY DEF DedupTypeOK
<1>1. ASSUME NEW c \in Callers, NEW op \in Op, Begin(c, op) PROVE KeysHaveAnOriginal'
  BY <1>1, BeginIs, BeginSetting
<1>2. ASSUME NEW c \in Callers, Cancel(c) \/ Die(c) PROVE KeysHaveAnOriginal'
  BY <1>0, <1>2, CancelIs, DieIs
<1>3. ASSUME NEW k \in Keys, KeyExpires(k) PROVE KeysHaveAnOriginal'
  <2>1. \A j \in Keys : key'[j] # "absent" => key[j] # "absent"
    BY <1>3, KeyExpiresIs DEF DedupTypeOK
  <2>2. \A j : Setting(j)' <=> Setting(j)
    BY <1>3, KeyExpiresIs DEF Setting, Here
  <2>3. UNCHANGED <<passed, faults, interruptions>>
    BY <1>3, KeyExpiresIs
  <2>4. QED
    BY <2>1, <2>2, <2>3
<1>4. CASE Insert
  BY <1>4 DEF Insert, Setting, Here
<1>5. ASSUME NEW c \in Callers, NEW o \in Outcome, DedupStep(c, o) PROVE KeysHaveAnOriginal'
  <2>0. SUFFICES ASSUME faults' + interruptions' = 0, NEW k \in Keys, key'[k] # "absent"
                 PROVE  passed'[k] \/ Setting(k)'
    OBVIOUS
  <2>1. o = "ok" /\ faults + interruptions = 0
    BY <1>5, <2>0, CleanStep
  <2>2. ASSUME key[k] # "absent", call[c].pc # "expire" \/ Here(c) # k
        PROVE  passed'[k] \/ Setting(k)'
    BY <1>5, <2>1, <2>2, StepIs DEF Setting
  <2>3. ASSUME Here(c) # k PROVE passed'[k] \/ Setting(k)'
    BY <1>5, <2>0, <2>2, <2>3, StepIs
  <2>4. CASE Here(c) = k /\ (Exists(c, o) \/ checkInDB(c, o) \/ GetKey(c, o) \/ CheckKey(c, o))
    <3>1. call[c].pc # "expire" /\ key' = key
      BY <2>4, ExistsIs, checkInDBIs, GetKeyIs, CheckKeyIs
    <3>2. QED
      BY <2>0, <2>2, <3>1
  <2>5. CASE Here(c) = k /\ (markAsProcessed(c, o) \/ ExpireKey(c, o))
    <3>1. Passing(c, TRUE)
      BY <2>1, <2>5, markIs, ExpireKeyIs
    <3>2. QED
      BY <2>5, <3>1, PassingTypes
  <2>6. CASE Here(c) = k /\ SetKey(c, o)
    BY <1>5, <2>1, <2>6, SetKeyIs, StepIs DEF Moved, Setting
  <2>7. CASE Here(c) = k /\ DelKey(c, o)
    BY <2>0, <2>1, <2>7, DelKeyIs, PutTypes DEF Took, KeyState
  <2>8. CASE Here(c) = k /\ RecordKey(c, o)
    BY <2>8, RecordKeyIs DEF RecordsHavePassed
  <2>9. QED
    BY <1>5, <2>3, <2>4, <2>5, <2>6, <2>7, <2>8 DEF DedupStep
<1>6. QED
  BY <1>1, <1>2, <1>3, <1>4, <1>5 DEF DedupNext

LEMMA DuplicatesStep ==
  ASSUME DedupTypeOK, \A c \in Callers : CallOK(c), KeysHaveAnOriginal, NoneLost,
         DuplicatesHaveAnOriginal, DedupNext
  PROVE  DuplicatesHaveAnOriginal'
<1> USE DEF DuplicatesHaveAnOriginal
<1>0. faults \in Nat /\ interruptions \in Nat
  BY DEF DedupTypeOK
<1>1. ASSUME NEW c \in Callers, NEW op \in Op, Begin(c, op) PROVE DuplicatesHaveAnOriginal'
  <2>1. \A d \in Callers : call'[d].answer = "duplicate" => call'[d] = call[d]
    BY <1>1, BeginIs
  <2>2. UNCHANGED <<passed, faults, interruptions>>
    BY <1>1, BeginIs
  <2>3. \A k : Setting(k) => Setting(k)'
    BY <1>1, BeginSetting
  <2>4. QED
    BY <2>1, <2>2, <2>3 DEF Setting, Here
<1>2. ASSUME NEW c \in Callers, Cancel(c) \/ Die(c) PROVE DuplicatesHaveAnOriginal'
  BY <1>0, <1>2, CancelIs, DieIs
<1>3. ASSUME NEW k \in Keys, KeyExpires(k) PROVE DuplicatesHaveAnOriginal'
  BY <1>3, KeyExpiresIs DEF Here
<1>4. CASE Insert
  BY <1>4 DEF Insert, Here
<1>5. ASSUME NEW c \in Callers, NEW o \in Outcome, DedupStep(c, o)
      PROVE  DuplicatesHaveAnOriginal'
  <2>0. SUFFICES ASSUME faults' + interruptions' = 0, NEW b \in Callers,
                        call'[b].answer = "duplicate"
                 PROVE  passed'[Here(b)'] \/ \E d \in Callers :
                          call'[d].pc = "expire" /\ Here(d)' = Here(b)'
    BY DEF Here
  <2>1. o = "ok" /\ faults + interruptions = 0
    BY <1>5, <2>0, CleanStep
  <2>2. Here(b)' = Here(b) /\ Here(b) \in Keys
    BY <1>5, StepIs, CallTypes
  <2>3. ASSUME passed[Here(b)] \/ Setting(Here(b))
        PROVE  passed'[Here(b)] \/ Setting(Here(b))'
    <3>1. ASSUME Setting(Here(b)), ExpireKey(c, o) PROVE passed'[Here(b)] \/ Setting(Here(b))'
      <4>1. Passing(c, TRUE)
        BY <2>1, <3>1, ExpireKeyIs
      <4>2. passed'[Here(c)]
        BY <4>1, PassingTypes
      <4>3. QED
        BY <1>5, <3>1, <4>2, StepIs DEF Setting
    <3>2. ASSUME Setting(Here(b)), ~ ExpireKey(c, o) PROVE Setting(Here(b))'
      <4>1. call[c].pc # "expire"
        BY <1>5, <3>2, ExistsIs, checkInDBIs, markIs, GetKeyIs, SetKeyIs, DelKeyIs,
           CheckKeyIs, RecordKeyIs DEF DedupStep
      <4>2. QED
        BY <1>5, <3>2, <4>1, StepIs DEF Setting
    <3>3. QED
      BY <1>5, <2>2, <2>3, <3>1, <3>2, StepIs
  <2>4. CASE b # c
    BY <1>5, <2>0, <2>1, <2>2, <2>3, <2>4, StepIs DEF Setting
  <2>5. CASE b = c /\ (checkInDB(c, o) \/ markAsProcessed(c, o) \/ DelKey(c, o)
                        \/ ExpireKey(c, o))
    <3>1. call[c].pc # "db"
      BY <1>0, <2>1, CallTypes DEF NoneLost, CallOK
    <3>2. QED
      BY <2>0, <2>1, <2>5, <3>1, checkInDBIs, markIs, DelKeyIs, ExpireKeyIs DEF Moved
  <2>6. CASE b = c /\ (Exists(c, o) \/ GetKey(c, o) \/ CheckKey(c, o)) /\ Present(c)
    BY <2>1, <2>2, <2>3, <2>6 DEF KeysHaveAnOriginal, Present, Setting
  <2>7. CASE b = c /\ (\/ (Exists(c, o) \/ GetKey(c, o) \/ CheckKey(c, o)) /\ ~ Present(c)
                       \/ SetKey(c, o) \/ RecordKey(c, o))
    <3>1. call[c].answer = "duplicate"
      BY <2>0, <2>1, <2>7, ExistsIs, GetKeyIs, CheckKeyIs, SetKeyIs, RecordKeyIs DEF Moved
    <3>2. QED
      BY <2>1, <2>2, <2>3, <2>7, <3>1 DEF Setting
  <2>8. QED
    BY <1>5, <2>4, <2>5, <2>6, <2>7 DEF DedupStep
<1>6. QED
  BY <1>1, <1>2, <1>3, <1>4, <1>5 DEF DedupNext

-----------------------------------------------------------------------------
(* As long as no call on a store has failed.                                *)

LEMMA NotLostStep ==
  ASSUME DedupTypeOK, NEW c \in Callers, NEW o \in Outcome, DedupStep(c, o), faults' = 0
  PROVE  /\ faults = 0
         /\ o = "ok" \/ o = "refused"
         /\ o = "ok" => call[c].live
         /\ o = "refused" => ~ call[c].live
<1>1. Paid(o, call[c].live) /\ faults \in Nat
  BY StepIs DEF DedupTypeOK
<1>2. /\ o \in {"lost", "unanswered"} => faults' = faults + 1
      /\ o = "ok" => call[c].live /\ faults' = faults
      /\ o = "refused" => ~ call[c].live /\ faults' = faults
  BY <1>1, Zenon DEF Paid
<1>3. \A x \in Nat : x + 1 # 0
  OBVIOUS
<1>4. o \notin {"lost", "unanswered"}
  BY <1>1, <1>2, <1>3
<1>5. o = "ok" \/ o = "refused"
  BY <1>4 DEF Outcome
<1>6. QED
  BY <1>2, <1>5

Careful(c) ==
  /\ call[c].pc \in {"db", "del"} => ~ call[c].live
  /\ call[c].pc \in {"mark", "set", "expire"} => ~ call[c].after \/ ~ call[c].live

KeysFound == \A k \in Keys : first[k] \/ Setting(k) => key[k] # "absent"

LEMMA NoneLostIs ==
  NoneLost <=> (faults = 0 => late = 0 /\ KeysFound /\ \A c \in Callers : Careful(c))
BY DEF NoneLost, KeysFound, Careful

LEMMA CarefulStep ==
  ASSUME DedupTypeOK, KeysFound, NEW c \in Callers, CallOK(c), Careful(c),
         NEW o \in Outcome, DedupStep(c, o),
         o = "ok" \/ o = "refused", o = "refused" => ~ call[c].live
  PROVE  Careful(c)'
<1>1. call'[c].live = call[c].live /\ call'[c].after = call[c].after
  BY StepIs
<1>2. ~ Present(c) => ~ call[c].after
  BY CallTypes DEF CallOK, KeysFound, Present
<1>3. CASE Exists(c, o)
  <2>1. \/ o = "refused" /\ call'[c].pc = "db"
        \/ call'[c].pc = "idle"
        \/ ~ Present(c) /\ call'[c].pc = "mark"
    BY <1>3, ExistsIs DEF Moved
  <2>2. QED
    BY <1>1, <1>2, <2>1 DEF Careful
<1>4. CASE GetKey(c, o)
  <2>1. \/ call'[c].pc = "idle"
        \/ (o = "refused" \/ ~ Present(c)) /\ call'[c].pc = "set"
    BY <1>4, GetKeyIs DEF Moved
  <2>2. QED
    BY <1>1, <1>2, <2>1 DEF Careful
<1>5. CASE checkInDB(c, o) \/ markAsProcessed(c, o) \/ DelKey(c, o) \/ CheckKey(c, o)
           \/ RecordKey(c, o)
  <2>1. call'[c].pc \in {"idle", "record"}
    BY <1>5, checkInDBIs, markIs, DelKeyIs, CheckKeyIs, RecordKeyIs DEF Moved
  <2>2. QED
    BY <2>1 DEF Careful
<1>6. CASE SetKey(c, o)
  <2>1. call[c].pc = "set" /\ call'[c].pc \in {"idle", "expire"}
    BY <1>6, SetKeyIs DEF Moved
  <2>2. QED
    BY <1>1, <1>6, <2>1 DEF Careful
<1>7. CASE ExpireKey(c, o)
  <2>1. \/ call'[c].pc = "idle"
        \/ o = "refused" /\ call'[c].pc = "del"
    BY <1>7, ExpireKeyIs DEF Moved
  <2>2. QED
    BY <1>1, <2>1 DEF Careful
<1>8. QED
  BY <1>3, <1>4, <1>5, <1>6, <1>7 DEF DedupStep

LEMMA KeysFoundStep ==
  ASSUME DedupTypeOK, KeysFound, NEW c \in Callers, Careful(c), NEW o \in Outcome,
         DedupStep(c, o), o = "ok" \/ o = "refused", o = "ok" => call[c].live
  PROVE  KeysFound'
<1> SUFFICES ASSUME NEW k \in Keys, first'[k] \/ Setting(k)', key'[k] = "absent"
             PROVE  FALSE
  BY DEF KeysFound
<1>1. Here(c)' = Here(c) /\ Here(c) \in Keys
  BY StepIs, CallTypes
<1>2. CASE Here(c) # k
  <2>1. first'[k] = first[k] /\ key'[k] = key[k]
    BY <1>2, StepIs
  <2>2. Setting(k)' => Setting(k)
    BY <1>1, <1>2, StepIs DEF Setting
  <2>3. QED
    BY <2>1, <2>2 DEF KeysFound
<1>3. Took(o) <=> o = "ok"
  BY DEF Took
<1>4. ASSUME key' = key, call'[c].pc # "expire", Passing(c, FALSE) \/ first' = first
      PROVE  FALSE
  <2>1. Setting(k)' => Setting(k)
    BY <1>4, StepIs DEF Setting
  <2>2. first'[k] => first[k]
    BY <1>4, StepIs, PassingTypes
  <2>3. QED
    BY <1>4, <2>1, <2>2 DEF KeysFound
<1>5. ASSUME NEW state \in {"window", "kept"}, Put(c, state), Here(c) = k PROVE FALSE
  BY <1>5, PutTypes DEF KeyState
<1>6. CASE Exists(c, o) \/ checkInDB(c, o) \/ GetKey(c, o) \/ CheckKey(c, o)
  <2>1. key' = key /\ call'[c].pc # "expire" /\ (Passing(c, FALSE) \/ first' = first)
    BY <1>6, ExistsIs, checkInDBIs, GetKeyIs, CheckKeyIs DEF Moved
  <2>2. QED
    BY <1>4, <2>1
<1>7. CASE Here(c) = k /\ (markAsProcessed(c, o) \/ SetKey(c, o) \/ RecordKey(c, o))
  <2>1. CASE o = "ok"
    <3>1. Put(c, "window") \/ Put(c, "kept")
      BY <1>3, <1>7, <2>1, markIs, SetKeyIs, RecordKeyIs
    <3>2. QED
      BY <1>5, <1>7, <3>1
  <2>2. CASE o # "ok" /\ (markAsProcessed(c, o) \/ SetKey(c, o))
    <3>1. key' = key /\ call'[c].pc # "expire" /\ first' = first
      BY <1>3, <2>2, markIs, SetKeyIs DEF Moved
    <3>2. QED
      BY <1>4, <3>1
  <2>3. CASE o # "ok" /\ RecordKey(c, o)
    <3>1. key' = key /\ call'[c].pc # "expire"
      BY <1>3, <2>3, RecordKeyIs DEF Moved
    <3>2. first' = [first EXCEPT ![Here(c)] = @ \/ o = "ok"]
      BY <2>3, RecordKeyIs, Zenon
    <3>3. (o = "ok") \in BOOLEAN
      OBVIOUS
    <3>4. first'[k] => first[k]
      BY <1>7, <2>3, <3>2, <3>3, RecordTypes
    <3>5. Setting(k)' => Setting(k)
      BY <1>7, <2>3, <3>1, StepIs DEF Setting
    <3>6. QED
      BY <3>1, <3>4, <3>5 DEF KeysFound
  <2>4. QED
    BY <1>7, <2>1, <2>2, <2>3
<1>8. CASE Here(c) = k /\ ExpireKey(c, o)
  <2>1. Present(c)
    BY <1>8, ExpireKeyIs DEF KeysFound, Setting, Present
  <2>2. key' = key \/ Put(c, "window")
    BY <1>8, ExpireKeyIs
  <2>3. key'[k] # "absent"
    BY <1>5, <1>8, <2>1, <2>2 DEF Present
  <2>4. QED
    BY <2>3
<1>9. CASE Here(c) = k /\ DelKey(c, o)
  <2>1. o # "ok"
    BY <1>9, DelKeyIs DEF Careful
  <2>2. key' = key /\ call'[c].pc # "expire" /\ first' = first
    BY <1>3, <1>9, <2>1, DelKeyIs DEF Moved
  <2>3. QED
    BY <1>4, <2>2
<1>10. QED
  BY <1>2, <1>6, <1>7, <1>8, <1>9 DEF DedupStep

\* A call passes late only past a key that is lost.
LEMMA PassedLate ==
  ASSUME DedupTypeOK, KeysFound, NEW c \in Callers, CallOK(c), Careful(c), NEW o \in Outcome,
         DedupStep(c, o), o = "ok" => call[c].live
  PROVE  late' = late
<1>1. ~ Present(c) => ~ call[c].after
  BY CallTypes DEF CallOK, KeysFound, Present
<1>2. ASSUME NEW left \in BOOLEAN, Passing(c, left), ~ call[c].after PROVE late' = late
  BY <1>2, PassingTypes
<1>3. CASE checkInDB(c, o) \/ markAsProcessed(c, o) \/ ExpireKey(c, o)
  <2>1. \/ late' = late
        \/ /\ o = "ok" /\ call[c].pc \in {"db", "mark", "expire"}
           /\ Passing(c, TRUE) \/ Passing(c, FALSE)
    BY <1>3, checkInDBIs, markIs, ExpireKeyIs
  <2>2. QED
    BY <1>2, <2>1 DEF Careful
<1>4. CASE CheckKey(c, o)
  <2>1. late' = late \/ (Passing(c, FALSE) /\ ~ Present(c))
    BY <1>4, CheckKeyIs
  <2>2. QED
    BY <1>1, <1>2, <2>1
<1>5. CASE Exists(c, o) \/ GetKey(c, o) \/ SetKey(c, o) \/ DelKey(c, o) \/ RecordKey(c, o)
  BY <1>5, ExistsIs, GetKeyIs, SetKeyIs, DelKeyIs, RecordKeyIs
<1>6. QED
  BY <1>3, <1>4, <1>5 DEF DedupStep

LEMMA NoneLostStep ==
  ASSUME DedupTypeOK, \A c \in Callers : CallOK(c), NoneLost, DedupNext
  PROVE  NoneLost'
<1>0. SUFFICES ASSUME faults' = 0
               PROVE  late' = 0 /\ KeysFound' /\ \A d \in Callers : Careful(d)'
  BY DEF NoneLost, KeysFound, Careful
<1>1. ASSUME faults = 0 PROVE late = 0 /\ KeysFound /\ \A d \in Callers : Careful(d)
  BY <1>1, NoneLostIs
<1>2. ASSUME NEW c \in Callers, NEW op \in Op, Begin(c, op)
      PROVE  late' = 0 /\ KeysFound' /\ \A d \in Callers : Careful(d)'
  <2>1. faults = 0 /\ late' = late /\ key' = key /\ first' = first
    BY <1>0, <1>2, BeginIs
  <2>2. \A k : Setting(k)' => Setting(k)
    <3>1. \A d \in Callers : call'[d].pc = "expire" => call'[d] = call[d]
      BY <1>2, BeginIs
    <3>2. QED
      BY <3>1 DEF Setting, Here
  <2>3. QED
    BY <1>1, <1>2, <2>1, <2>2, BeginIs DEF KeysFound, Careful
<1>3. ASSUME NEW c \in Callers, Cancel(c) \/ Die(c)
      PROVE  late' = 0 /\ KeysFound' /\ \A d \in Callers : Careful(d)'
  <2>1. faults = 0 /\ late' = late /\ key' = key /\ first' = first
    BY <1>0, <1>3, CancelIs, DieIs
  <2>2. \A k : Setting(k)' => Setting(k)
    BY <1>3, CancelIs, DieIs, IdleIs DEF Setting, Here
  <2>3. \A d \in Callers : Careful(d)'
    BY <1>1, <1>3, <2>1, CancelIs, DieIs, IdleIs DEF Careful
  <2>4. QED
    BY <1>1, <2>1, <2>2, <2>3 DEF KeysFound
<1>4. ASSUME NEW j \in Keys, KeyExpires(j)
      PROVE  late' = 0 /\ KeysFound' /\ \A d \in Callers : Careful(d)'
  <2>1. faults = 0 /\ late' = late
    BY <1>0, <1>4, KeyExpiresIs
  <2>2. \A k : Setting(k)' <=> Setting(k)
    BY <1>4, KeyExpiresIs DEF Setting, Here
  <2>3. /\ ~ Setting(j) /\ ~ first'[j]
        /\ \A k \in Keys : k # j => key'[k] = key[k] /\ first'[k] = first[k]
    BY <1>4, KeyExpiresIs DEF DedupTypeOK
  <2>4. \A d \in Callers : Careful(d)'
    BY <1>1, <1>4, <2>1, KeyExpiresIs DEF Careful
  <2>5. QED
    BY <1>1, <2>1, <2>2, <2>3, <2>4 DEF KeysFound
<1>5. CASE Insert
  <2>1. faults = 0 /\ UNCHANGED <<late, key, first, call>>
    BY <1>0, <1>5 DEF Insert
  <2>2. QED
    BY <1>1, <2>1 DEF KeysFound, Setting, Here, Careful
<1>6. ASSUME NEW c \in Callers, NEW o \in Outcome, DedupStep(c, o)
      PROVE  late' = 0 /\ KeysFound' /\ \A d \in Callers : Careful(d)'
  <2>1. /\ faults = 0
        /\ o = "ok" \/ o = "refused"
        /\ o = "ok" => call[c].live
        /\ o = "refused" => ~ call[c].live
    BY <1>0, <1>6, NotLostStep
  <2>2. late = 0 /\ KeysFound /\ \A d \in Callers : Careful(d)
    BY <1>1, <2>1
  <2>3. KeysFound'
    BY <1>6, <2>1, <2>2, KeysFoundStep
  <2>4. late' = 0
    BY <1>6, <2>1, <2>2, PassedLate
  <2>5. Careful(c)'
    BY <1>6, <2>1, <2>2, CarefulStep
  <2>6. \A d \in Callers : d # c => Careful(d)'
    BY <1>6, <2>2, StepIs DEF Careful
  <2>7. QED
    BY <2>3, <2>4, <2>5, <2>6
<1>7. QED
  BY <1>2, <1>3, <1>4, <1>5, <1>6 DEF DedupNext

-----------------------------------------------------------------------------
(* What late calls are paid with.                                           *)

LEMMA CallersFinite ==
  /\ N \in Nat
  /\ \A S \in SUBSET Callers : IsFiniteSet(S) /\ Cardinality(S) \in Nat /\ Cardinality(S) <= N
BY DeduplicationAssumption, FS_Subset, FS_CardinalityType DEF N

LEMMA SomeCallers == ASSUME NEW c \in Callers PROVE N >= 1
BY DeduplicationAssumption, FS_EmptySet, CallersFinite DEF N

LEMMA Sizes ==
  /\ Cardinality(Danger) \in Nat /\ Cardinality(Deleting) \in Nat
  /\ \A k : /\ Asked(k) \subseteq Callers /\ Cardinality(Asked(k)) \in Nat
            /\ Cardinality(Asked(k)) <= N
            /\ Exposed(k) \in Nat /\ Exposed(k) <= N
<1>1. Danger \subseteq Callers /\ Deleting \subseteq Callers
  BY DEF Danger, Deleting
<1>2. \A k : Asked(k) \subseteq Callers
  BY DEF Asked
<1>3. QED
  BY <1>1, <1>2, CallersFinite DEF Exposed

\* Sets of callers that differ in one of them.
LEMMA OneLess ==
  ASSUME NEW S \in SUBSET Callers, NEW T \in SUBSET Callers, NEW c \in S, T = S \ {c}
  PROVE  Cardinality(T) = Cardinality(S) - 1
BY CallersFinite, FS_RemoveElement

LEMMA OneMore ==
  ASSUME NEW S \in SUBSET Callers, NEW T \in SUBSET Callers, NEW c \in Callers \ S,
         T = S \cup {c}
  PROVE  Cardinality(T) = Cardinality(S) + 1
BY CallersFinite, FS_AddElement

LEMMA NotMore ==
  ASSUME NEW S \in SUBSET Callers, NEW T \in SUBSET S
  PROVE  Cardinality(T) <= Cardinality(S)
BY CallersFinite, FS_Subset

LEMMA Times == \A x, y \in Nat : /\ N * x \in Nat /\ N * (x + 1) = N * x + N
                                 /\ x <= y => N * x <= N * y
<1>1. \A n, x, y \in Nat : /\ n * x \in Nat /\ n * (x + 1) = n * x + n
                           /\ x <= y => n * x <= n * y
  OBVIOUS
<1>2. QED
  BY <1>1, CallersFinite

\* A step that costs nothing.
LEMMA OwedFree ==
  \A l, d, e, i, g, l2, d2, e2, g2 \in Nat :
    /\ \/ l2 = l /\ d2 <= d /\ e2 <= e /\ g2 <= g
       \/ l2 = l /\ d2 <= d + 1 /\ e2 + 1 <= e /\ g2 <= g
       \/ l2 = l + 1 /\ d2 + 1 <= d /\ e2 <= e /\ g2 <= g
       \/ l2 = l + 1 /\ d2 <= d /\ e2 + 1 <= e /\ g2 <= g
       \/ l2 = l /\ d2 <= d /\ e2 <= N /\ g2 + 1 <= g
    => Owed(l2, d2, e2, i, g2) <= Owed(l, d, e, i, g)
<1> SUFFICES ASSUME NEW l \in Nat, NEW d \in Nat, NEW e \in Nat, NEW i \in Nat, NEW g \in Nat,
                    NEW l2 \in Nat, NEW d2 \in Nat, NEW e2 \in Nat, NEW g2 \in Nat,
                    \/ l2 = l /\ d2 <= d /\ e2 <= e /\ g2 <= g
                    \/ l2 = l /\ d2 <= d + 1 /\ e2 + 1 <= e /\ g2 <= g
                    \/ l2 = l + 1 /\ d2 + 1 <= d /\ e2 <= e /\ g2 <= g
                    \/ l2 = l + 1 /\ d2 <= d /\ e2 + 1 <= e /\ g2 <= g
                    \/ l2 = l /\ d2 <= d /\ e2 <= N /\ g2 + 1 <= g
             PROVE  Owed(l2, d2, e2, i, g2) <= Owed(l, d, e, i, g)
  OBVIOUS
<1>1. N \in Nat /\ N * g \in Nat /\ N * g2 \in Nat
  BY Times, CallersFinite
<1>2. CASE g2 <= g
  <2>1. N * g2 <= N * g
    BY <1>2, Times
  <2>2. CASE ~ (g2 + 1 <= g)
    BY <1>1, <2>1, <2>2 DEF Owed
  <2>3. CASE g2 + 1 <= g /\ e2 > e + 1
    <3>1. N * g2 + N <= N * g
      BY <2>3, Times
    <3>2. l2 = l /\ d2 <= d /\ e2 <= N
      BY <2>3
    <3>3. QED
      BY <1>1, <3>1, <3>2 DEF Owed
  <2>4. CASE g2 + 1 <= g /\ e2 <= e + 1
    <3>1. N * g2 + N <= N * g
      BY <2>4, Times
    <3>2. \/ l2 + d2 + e2 <= l + d + e
          \/ l2 = l /\ d2 <= d /\ e2 <= N
      OBVIOUS
    <3>3. QED
      BY <1>1, <2>1, <3>1, <3>2 DEF Owed
  <2>5. QED
    BY <2>2, <2>3, <2>4
<1>3. QED
  BY <1>2

\* A step that has cost a failed call, a cancelled context or a death.
LEMMA OwedPaid ==
  \A l, d, e, i, g, d2, e2, g2 \in Nat :
    /\ N >= 1
    /\ \/ d2 <= d + 1 /\ e2 <= e /\ g2 <= g
       \/ d2 <= d /\ e2 <= e + 1 /\ g2 <= g
       \/ d2 <= d /\ e2 <= e /\ g2 <= g + 1
       \/ d2 <= d /\ e2 <= N /\ g2 <= g
    => Owed(l, d2, e2, i, g2) <= Owed(l, d, e, i, g) + N
<1> TAKE l, d, e, i, g, d2, e2, g2 \in Nat
<1> HAVE /\ N >= 1
         /\ \/ d2 <= d + 1 /\ e2 <= e /\ g2 <= g
            \/ d2 <= d /\ e2 <= e + 1 /\ g2 <= g
            \/ d2 <= d /\ e2 <= e /\ g2 <= g + 1
            \/ d2 <= d /\ e2 <= N /\ g2 <= g
<1>1. N \in Nat /\ N * g \in Nat /\ N * g2 \in Nat
  BY Times, CallersFinite
<1>2. CASE g2 <= g
  <2>1. N * g2 <= N * g
    BY <1>2, Times
  <2>2. d2 + e2 <= d + e + 1 \/ d2 + e2 <= d + N \/ d2 + e2 <= d + e
    BY <1>1
  <2>3. QED
    BY <1>1, <2>1, <2>2 DEF Owed
<1>3. CASE ~ (g2 <= g)
  <2>1. d2 <= d /\ e2 <= e /\ g2 = g + 1
    BY <1>3
  <2>2. N * g2 = N * g + N
    BY <2>1, Times
  <2>3. QED
    BY <1>1, <2>1, <2>2 DEF Owed
<1>4. QED
  BY <1>2, <1>3

LEMMA PaymentGrows ==
  \A f, i \in Nat : /\ Payment(f, i) \in Nat
                    /\ Payment(f + 1, i) = Payment(f, i) + N
                    /\ Payment(f, i + 1) = Payment(f, i) + N
<1> TAKE f, i \in Nat
<1>1. f + i \in Nat /\ (f + 1) + i = (f + i) + 1 /\ f + (i + 1) = (f + i) + 1
  OBVIOUS
<1>2. N * (f + i) \in Nat /\ N * ((f + i) + 1) = N * (f + i) + N
  BY <1>1, Times
<1>3. QED
  BY <1>1, <1>2 DEF Payment

LEMMA OwedType ==
  \A l, d, e, i, g \in Nat : /\ Owed(l, d, e, i, g) \in Nat
                             /\ Owed(l, d, e, i, g) = Owed(l, d, i, e, g)
<1> TAKE l, d, e, i, g \in Nat
<1>1. N * g \in Nat
  BY Times
<1>2. QED
  BY <1>1 DEF Owed

\* Of the key k and the other key.
Balance(k, j) ==
  Owed(late, Cardinality(Danger), Exposed(k), Exposed(j), Cardinality(Deleting))

LEMMA LatePaidIs ==
  ASSUME DedupTypeOK, NEW k \in Keys, NEW j \in Keys, k # j
  PROVE  LatePaid <=> Balance(k, j) <= Payment(faults, interruptions)
<1>1. \/ k = "dedup" /\ j = "idempotency"
      \/ k = "idempotency" /\ j = "dedup"
  BY DEF Keys
<1>2. Balance(k, j) = Balance(j, k)
  BY Sizes, OwedType DEF Balance, DedupTypeOK
<1>3. QED
  BY <1>1, <1>2 DEF LatePaid, Balance

LEMMA SizesNext ==
  /\ Cardinality(Danger') \in Nat /\ Cardinality(Deleting') \in Nat
  /\ \A k : Exposed(k)' \in Nat /\ Exposed(k)' <= N
<1>1. Danger' \subseteq Callers /\ Deleting' \subseteq Callers
  BY DEF Danger, Deleting
<1>2. \A k : Asked(k)' \subseteq Callers
  BY DEF Asked
<1>3. \A k : Cardinality(Asked(k)') \in Nat /\ Cardinality(Asked(k)') <= N
  BY <1>2, CallersFinite
<1>4. N \in Nat
  BY CallersFinite
<1>5. QED
  BY <1>1, <1>3, <1>4, CallersFinite DEF Exposed

LEMMA LatePaidNext ==
  ASSUME DedupTypeOK', NEW k \in Keys, NEW j \in Keys, k # j,
         Balance(k, j)' <= Payment(faults', interruptions')
  PROVE  LatePaid'
<1>1. \/ k = "dedup" /\ j = "idempotency"
      \/ k = "idempotency" /\ j = "dedup"
  BY DEF Keys
<1>2. Balance(k, j)' = Balance(j, k)'
  BY SizesNext, OwedType DEF Balance, DedupTypeOK
<1>3. QED
  BY <1>1, <1>2 DEF LatePaid, Balance

FreeChange(k) ==
  LET d == Cardinality(Danger)  d2 == Cardinality(Danger')
      e == Exposed(k)           e2 == Exposed(k)'
      g == Cardinality(Deleting)  g2 == Cardinality(Deleting')
  IN  \/ late' = late /\ d2 <= d /\ e2 <= e /\ g2 <= g
      \/ late' = late /\ d2 <= d + 1 /\ e2 + 1 <= e /\ g2 <= g
      \/ late' = late + 1 /\ d2 + 1 <= d /\ e2 <= e /\ g2 <= g
      \/ late' = late + 1 /\ d2 <= d /\ e2 + 1 <= e /\ g2 <= g
      \/ late' = late /\ d2 <= d /\ e2 <= N /\ g2 + 1 <= g

PaidChange(k) ==
  LET d == Cardinality(Danger)  d2 == Cardinality(Danger')
      e == Exposed(k)           e2 == Exposed(k)'
      g == Cardinality(Deleting)  g2 == Cardinality(Deleting')
  IN  \/ d2 <= d + 1 /\ e2 <= e /\ g2 <= g
      \/ d2 <= d /\ e2 <= e + 1 /\ g2 <= g
      \/ d2 <= d /\ e2 <= e /\ g2 <= g + 1
      \/ d2 <= d /\ e2 <= N /\ g2 <= g

LEMMA FreeStep ==
  ASSUME DedupTypeOK, DedupTypeOK', LatePaid, NEW k \in Keys, FreeChange(k),
         \A j \in Keys : j # k => Exposed(j)' = Exposed(j),
         faults' = faults, interruptions' = interruptions
  PROVE  LatePaid'
<1>1. PICK j \in Keys : j # k
  BY DEF Keys
<1>2. Balance(k, j) <= Payment(faults, interruptions)
  BY <1>1, LatePaidIs
<1>3. late \in Nat /\ late' \in Nat /\ faults \in Nat /\ interruptions \in Nat
  BY DEF DedupTypeOK
<1>4. Balance(k, j)' <= Balance(k, j)
  BY <1>1, <1>3, Sizes, SizesNext, OwedFree DEF FreeChange, Balance
<1>5. Balance(k, j) \in Nat /\ Balance(k, j)' \in Nat
  BY <1>3, Sizes, SizesNext, OwedType DEF Balance
<1>6. Payment(faults, interruptions) \in Nat
      /\ Payment(faults', interruptions') = Payment(faults, interruptions)
  BY <1>3, PaymentGrows
<1>7. \A x, y, z \in Nat : x <= y /\ y <= z => x <= z
  OBVIOUS
<1>8. Balance(k, j)' <= Payment(faults', interruptions')
  BY <1>2, <1>4, <1>5, <1>6, <1>7
<1>9. QED
  BY <1>1, <1>8, LatePaidNext

LEMMA PaidStep ==
  ASSUME DedupTypeOK, DedupTypeOK', LatePaid, NEW k \in Keys, PaidChange(k), late' = late,
         \A j \in Keys : j # k => Exposed(j)' = Exposed(j), Callers # {},
         \/ faults' = faults + 1 /\ interruptions' = interruptions
         \/ faults' = faults /\ interruptions' = interruptions + 1
  PROVE  LatePaid'
<1>1. PICK j \in Keys : j # k
  BY DEF Keys
<1>2. Balance(k, j) <= Payment(faults, interruptions)
  BY <1>1, LatePaidIs
<1>3. late \in Nat /\ late' \in Nat /\ faults \in Nat /\ interruptions \in Nat
  BY DEF DedupTypeOK
<1>4. N \in Nat /\ N >= 1
  BY CallersFinite, SomeCallers
<1>5. Balance(k, j)' <= Balance(k, j) + N
  BY <1>1, <1>3, <1>4, Sizes, SizesNext, OwedPaid DEF PaidChange, Balance
<1>6. Balance(k, j) \in Nat /\ Balance(k, j)' \in Nat
  BY <1>3, Sizes, SizesNext, OwedType DEF Balance
<1>7. Payment(faults, interruptions) \in Nat
      /\ Payment(faults', interruptions') = Payment(faults, interruptions) + N
  <2>1. Payment(faults, interruptions) \in Nat
        /\ Payment(faults + 1, interruptions) = Payment(faults, interruptions) + N
        /\ Payment(faults, interruptions + 1) = Payment(faults, interruptions) + N
    BY <1>3, PaymentGrows
  <2>2. CASE faults' = faults + 1 /\ interruptions' = interruptions
    BY <2>1, <2>2
  <2>3. CASE faults' = faults /\ interruptions' = interruptions + 1
    BY <2>1, <2>3
  <2>4. QED
    BY <2>1, <2>2, <2>3
<1>8. \A x, y, z, n \in Nat : x <= y + n /\ y <= z => x <= z + n
  OBVIOUS
<1>9. Balance(k, j)' <= Payment(faults', interruptions')
  BY <1>2, <1>4, <1>5, <1>6, <1>7, <1>8
<1>10. QED
  BY <1>1, <1>9, LatePaidNext

\* A step of one call: the sets gain or lose that call, and nobody else.
LEMMA SetStep ==
  ASSUME NEW S \in SUBSET Callers, NEW T \in SUBSET Callers, NEW c \in Callers,
         S \ {c} = T \ {c}
  PROVE  /\ Cardinality(T) <= Cardinality(S) + 1
         /\ Cardinality(S) <= Cardinality(T) + 1
         /\ (c \in S \/ c \notin T) => Cardinality(T) <= Cardinality(S)
         /\ (c \in T \/ c \notin S) => Cardinality(S) <= Cardinality(T)
         /\ c \in S /\ c \notin T => Cardinality(T) + 1 <= Cardinality(S)
         /\ c \notin S /\ c \in T => Cardinality(S) + 1 <= Cardinality(T)
<1>1. Cardinality(S) \in Nat /\ Cardinality(T) \in Nat
  BY CallersFinite
<1>2. CASE c \in S /\ c \in T
  <2>1. S = T
    BY <1>2
  <2>2. QED
    BY <1>1, <1>2, <2>1
<1>3. CASE c \notin S /\ c \notin T
  <2>1. S = T
    BY <1>3
  <2>2. QED
    BY <1>1, <1>3, <2>1
<1>4. CASE c \in S /\ c \notin T
  <2>1. T = S \ {c}
    BY <1>4
  <2>2. Cardinality(T) = Cardinality(S) - 1
    BY <1>4, <2>1, OneLess
  <2>3. QED
    BY <1>1, <1>4, <2>2
<1>5. CASE c \notin S /\ c \in T
  <2>1. T = S \cup {c}
    BY <1>5
  <2>2. Cardinality(T) = Cardinality(S) + 1
    BY <1>5, <2>1, OneMore
  <2>3. QED
    BY <1>1, <1>5, <2>2
<1>6. QED
  BY <1>2, <1>3, <1>4, <1>5

\* Only call c changes, and it stays with its key.
OnlyCall(c) ==
  \A d \in Callers : Here(d)' = Here(d) /\ (d # c => call'[d] = call[d])

LEMMA SizesStep ==
  ASSUME NEW c \in Callers, OnlyCall(c)
  PROVE  LET d == Cardinality(Danger)    d2 == Cardinality(Danger')
             g == Cardinality(Deleting)  g2 == Cardinality(Deleting')
         IN  /\ d2 <= d + 1
             /\ (c \in Danger \/ c \notin Danger') => d2 <= d
             /\ c \in Danger /\ c \notin Danger' => d2 + 1 <= d
             /\ g2 <= g + 1
             /\ (c \in Deleting \/ c \notin Deleting') => g2 <= g
             /\ c \in Deleting /\ c \notin Deleting' => g2 + 1 <= g
<1>1. Danger \ {c} = Danger' \ {c} /\ Deleting \ {c} = Deleting' \ {c}
  BY DEF OnlyCall, Danger, Deleting
<1>2. /\ Danger \subseteq Callers /\ Danger' \subseteq Callers
      /\ Deleting \subseteq Callers /\ Deleting' \subseteq Callers
  BY DEF Danger, Deleting
<1>3. QED
  BY <1>1, <1>2, SetStep

LEMMA ExposedStep ==
  ASSUME NEW c \in Callers, OnlyCall(c), NEW k
  PROVE  /\ (Lost(k)' => Lost(k)) => Exposed(k)' <= Exposed(k) + 1
         /\ (Lost(k)' => Lost(k)) /\ (c \in Asked(k)' \/ c \notin Asked(k))
              => Exposed(k)' <= Exposed(k)
         /\ Lost(k) /\ c \in Asked(k)' /\ c \notin Asked(k) => Exposed(k)' + 1 <= Exposed(k)
         /\ ~ Lost(k)' => Exposed(k)' <= Exposed(k)
<1>1. Asked(k) \ {c} = Asked(k)' \ {c}
  BY DEF OnlyCall, Asked
<1>2. Asked(k) \subseteq Callers /\ Asked(k)' \subseteq Callers
  BY DEF Asked
<1> DEFINE a == Cardinality(Asked(k))
           b == Cardinality(Asked(k)')
<1>3. /\ a <= b + 1
      /\ (c \in Asked(k)' \/ c \notin Asked(k)) => a <= b
      /\ c \notin Asked(k) /\ c \in Asked(k)' => a + 1 <= b
  BY <1>1, <1>2, SetStep
<1>4. a \in Nat /\ b \in Nat /\ a <= N /\ b <= N /\ N \in Nat
  BY <1>2, CallersFinite
<1>5. Exposed(k) = (IF Lost(k) THEN N - a ELSE 0) /\ Exposed(k)' = (IF Lost(k)' THEN N - b ELSE 0)
  BY DEF Exposed
<1> HIDE DEF a, b
<1>6. QED
  BY <1>3, <1>4, <1>5

LEMMA StepOnly ==
  ASSUME DedupTypeOK, NEW c \in Callers, NEW o \in Outcome, DedupStep(c, o)
  PROVE  /\ OnlyCall(c)
         /\ \A j \in Keys : j # Here(c) => Exposed(j)' = Exposed(j)
<1>1. OnlyCall(c)
  BY StepIs DEF OnlyCall
<1>2. ASSUME NEW j \in Keys, j # Here(c) PROVE Exposed(j)' = Exposed(j)
  <2>1. key'[j] = key[j] /\ first'[j] = first[j]
    BY <1>2, StepIs
  <2>2. Setting(j)' = Setting(j)
    BY <1>1, <1>2 DEF OnlyCall, Setting
  <2>3. Asked(j)' = Asked(j)
    BY <1>1, <1>2 DEF OnlyCall, Asked
  <2>4. QED
    BY <2>1, <2>2, <2>3 DEF Exposed, Lost
<1>3. QED
  BY <1>1, <1>2

DangerPC == {"db", "mark", "set", "expire"}
AskedPC == {"mark", "set", "record"}

LEMMA InSets ==
  ASSUME DedupTypeOK, NEW c \in Callers, NEW pc, NEW a, Moved(c, pc, a),
         NEW k, k = Here(c)
  PROVE  /\ c \in Danger <=> call[c].after /\ call[c].live /\ call[c].pc \in DangerPC
         /\ c \in Danger' <=> call[c].after /\ call[c].live /\ pc \in DangerPC
         /\ c \in Asked(k) <=> call[c].live /\ call[c].pc \in AskedPC
         /\ c \in Asked(k)' <=> call[c].live /\ pc \in AskedPC
         /\ c \in Deleting <=> call[c].live /\ call[c].pc = "del"
         /\ c \in Deleting' <=> call[c].live /\ pc = "del"
BY DEF Moved, Danger, Asked, Deleting, DangerPC, AskedPC, Here

\* A step that neither loses a key nor finds one that was lost.
LEMMA LostSame ==
  ASSUME DedupTypeOK, NEW c \in Callers, OnlyCall(c), key' = key,
         NEW k \in Keys, k = Here(c),
         first'[k] => first[k] \/ Setting(k),
         call'[c].pc = "expire" => call[c].pc = "expire"
  PROVE  Lost(k)' => Lost(k)
<1>1. Setting(k)' => Setting(k)
  BY DEF OnlyCall, Setting
<1>2. QED
  BY <1>1 DEF Lost

LEMMA LostNot ==
  ASSUME DedupTypeOK, NEW c \in Callers, NEW state \in {"window", "kept"}, Put(c, state),
         NEW k \in Keys, k = Here(c)
  PROVE  ~ Lost(k)'
<1>1. key'[k] = state
  BY PutTypes DEF KeyState
<1>2. QED
  BY <1>1 DEF Lost

-----------------------------------------------------------------------------
(* Command by command: what an answered command may pass late, a failed one *)
(* pays for.                                                                *)

\* The same in terms of where call c is.
NoDanger(c) == c \in Danger \/ c \notin Danger'
NoDeleting(c) == c \in Deleting \/ c \notin Deleting'
StillFound(k) == Lost(k)' => Lost(k)
NoExposure(c, k) == \/ ~ Lost(k)'
                    \/ StillFound(k) /\ (c \in Asked(k)' \/ c \notin Asked(k))
AsksLost(c, k) == Lost(k) /\ c \in Asked(k)' /\ c \notin Asked(k)

LEMMA FreeBy ==
  ASSUME NEW c \in Callers, OnlyCall(c), NEW k,
         \/ /\ late' = late
            /\ \/ NoDanger(c) /\ NoExposure(c, k) /\ NoDeleting(c)
               \/ AsksLost(c, k) /\ NoDeleting(c)
               \/ NoDanger(c) /\ c \in Deleting /\ c \notin Deleting'
         \/ /\ late' = late + 1
            /\ \/ c \in Danger /\ c \notin Danger' /\ NoExposure(c, k) /\ NoDeleting(c)
               \/ NoDanger(c) /\ AsksLost(c, k) /\ NoDeleting(c)
  PROVE  FreeChange(k)
<1>1. Exposed(k)' <= N
  BY SizesNext
<1>2. /\ NoExposure(c, k) => Exposed(k)' <= Exposed(k)
      /\ AsksLost(c, k) => Exposed(k)' + 1 <= Exposed(k)
  BY ExposedStep DEF NoExposure, StillFound, AsksLost
<1>3. LET d == Cardinality(Danger)    d2 == Cardinality(Danger')
          g == Cardinality(Deleting)  g2 == Cardinality(Deleting')
      IN  /\ d2 <= d + 1
          /\ NoDanger(c) => d2 <= d
          /\ c \in Danger /\ c \notin Danger' => d2 + 1 <= d
          /\ NoDeleting(c) => g2 <= g
          /\ c \in Deleting /\ c \notin Deleting' => g2 + 1 <= g
  BY SizesStep DEF NoDanger, NoDeleting
<1>4. QED
  BY <1>1, <1>2, <1>3 DEF FreeChange

LEMMA PaidBy ==
  ASSUME NEW c \in Callers, OnlyCall(c), NEW k,
         \/ NoExposure(c, k) /\ NoDeleting(c)
         \/ NoDanger(c) /\ StillFound(k) /\ NoDeleting(c)
         \/ NoDanger(c) /\ NoExposure(c, k)
         \/ NoDanger(c) /\ NoDeleting(c)
  PROVE  PaidChange(k)
<1>1. Exposed(k)' <= N
  BY SizesNext
<1>2. /\ NoExposure(c, k) => Exposed(k)' <= Exposed(k)
      /\ StillFound(k) => Exposed(k)' <= Exposed(k) + 1
  BY ExposedStep DEF NoExposure, StillFound
<1>3. LET d == Cardinality(Danger)    d2 == Cardinality(Danger')
          g == Cardinality(Deleting)  g2 == Cardinality(Deleting')
      IN  /\ d2 <= d + 1
          /\ NoDanger(c) => d2 <= d
          /\ NoDeleting(c) => g2 <= g
          /\ g2 <= g + 1
  BY SizesStep DEF NoDanger, NoDeleting
<1>4. QED
  BY <1>1, <1>2, <1>3 DEF PaidChange

\* What a command owes: nothing when it is answered or refused, and one share
\* when it has failed.
Settled(k, o) ==
  /\ o \in {"ok", "refused"} => FreeChange(k)
  /\ o \in {"lost", "unanswered"} => PaidChange(k) /\ late' = late

LEMMA ExistsSettled ==
  ASSUME DedupTypeOK, NEW c \in Callers, CallOK(c), NEW o \in Outcome, OnlyCall(c),
         Exists(c, o), NEW k \in Keys, k = Here(c)
  PROVE  Settled(k, o)
<1>1. /\ call[c].pc = "exists" /\ UNCHANGED <<key, first, late>>
      /\ o = "refused" => ~ call[c].live
      /\ \/ o # "ok" /\ Moved(c, "db", call[c].answer)
         \/ o = "ok" /\ Present(c) /\ Moved(c, "idle", "duplicate")
         \/ o = "ok" /\ ~ Present(c) /\ Moved(c, "mark", call[c].answer)
  BY ExistsIs, Zenon DEF Paid
<1>2. StillFound(k) /\ c \notin Asked(k)
  BY <1>1, LostSame DEF StillFound, Asked, Moved
<1>3. CASE o # "ok" /\ Moved(c, "db", call[c].answer)
  <2>1. NoDeleting(c) /\ NoExposure(c, k) /\ (o = "refused" => NoDanger(c))
    BY <1>1, <1>2, <1>3, InSets DEF NoDeleting, NoExposure, NoDanger
  <2>2. QED
    BY <1>1, <1>3, <2>1, FreeBy, PaidBy DEF Settled
<1>4. CASE o = "ok" /\ Moved(c, "idle", "duplicate")
  <2>1. NoDeleting(c) /\ NoExposure(c, k) /\ NoDanger(c)
    BY <1>1, <1>2, <1>4, InSets DEF NoDeleting, NoExposure, NoDanger, DangerPC
  <2>2. QED
    BY <1>1, <1>4, <2>1, FreeBy DEF Settled
<1>5. CASE o = "ok" /\ ~ Present(c) /\ Moved(c, "mark", call[c].answer)
  <2>1. NoDeleting(c) /\ NoExposure(c, k)
    BY <1>1, <1>2, <1>5, InSets DEF NoDeleting, NoExposure
  <2>2. CASE call[c].after /\ call[c].live
    <3>1. AsksLost(c, k)
      BY <1>2, <1>5, <2>2, InSets DEF AsksLost, AskedPC, CallOK, Present, Lost
    <3>2. QED
      BY <1>1, <1>5, <2>1, <3>1, FreeBy DEF Settled
  <2>3. CASE ~ (call[c].after /\ call[c].live)
    <3>1. NoDanger(c)
      BY <1>5, <2>3, InSets DEF NoDanger
    <3>2. QED
      BY <1>1, <1>5, <2>1, <3>1, FreeBy DEF Settled
  <2>4. QED
    BY <2>2, <2>3
<1>6. QED
  BY <1>1, <1>3, <1>4, <1>5

LEMMA GetKeySettled ==
  ASSUME DedupTypeOK, NEW c \in Callers, CallOK(c), NEW o \in Outcome, OnlyCall(c),
         GetKey(c, o), NEW k \in Keys, k = Here(c)
  PROVE  Settled(k, o)
<1>1. /\ call[c].pc = "get" /\ UNCHANGED <<key, first, late>>
      /\ o = "refused" => ~ call[c].live
      /\ \/ o = "ok" /\ Present(c) /\ Moved(c, "idle", "duplicate")
         \/ ~ (o = "ok" /\ Present(c)) /\ Moved(c, "set", call[c].answer)
  BY GetKeyIs, Zenon DEF Paid
<1>2. StillFound(k) /\ c \notin Asked(k)
  BY <1>1, LostSame DEF StillFound, Asked, Moved
<1>3. CASE o = "ok" /\ Moved(c, "idle", "duplicate")
  <2>1. NoDeleting(c) /\ NoExposure(c, k) /\ NoDanger(c)
    BY <1>1, <1>2, <1>3, InSets DEF NoDeleting, NoExposure, NoDanger, DangerPC
  <2>2. QED
    BY <1>1, <1>3, <2>1, FreeBy DEF Settled
<1>4. CASE ~ (o = "ok" /\ Present(c)) /\ Moved(c, "set", call[c].answer)
  <2>1. NoDeleting(c) /\ NoExposure(c, k)
    BY <1>1, <1>2, <1>4, InSets DEF NoDeleting, NoExposure
  <2>2. CASE o # "refused" /\ call[c].after /\ call[c].live /\ o = "ok"
    <3>1. AsksLost(c, k)
      BY <1>2, <1>4, <2>2, InSets DEF AsksLost, AskedPC, CallOK, Present, Lost
    <3>2. QED
      BY <1>1, <2>1, <2>2, <3>1, FreeBy DEF Settled
  <2>3. CASE o \in {"lost", "unanswered"}
    BY <1>1, <2>1, <2>3, PaidBy DEF Settled
  <2>4. CASE ~ (call[c].after /\ call[c].live)
    <3>1. NoDanger(c)
      BY <1>4, <2>4, InSets DEF NoDanger
    <3>2. QED
      BY <1>1, <2>1, <3>1, FreeBy, PaidBy DEF Settled
  <2>5. o \in {"ok", "refused", "lost", "unanswered"}
    BY DEF Outcome
  <2>6. QED
    BY <1>1, <2>2, <2>3, <2>4, <2>5
<1>5. QED
  BY <1>1, <1>3, <1>4

LEMMA checkInDBSettled ==
  ASSUME DedupTypeOK, NEW c \in Callers, CallOK(c), NEW o \in Outcome, OnlyCall(c),
         checkInDB(c, o), NEW k \in Keys, k = Here(c)
  PROVE  Settled(k, o)
<1>1. /\ call[c].pc = "db" /\ key' = key
      /\ o = "ok" => call[c].live
      /\ \/ Moved(c, "idle", "error") /\ UNCHANGED <<first, passed, late>>
         \/ Moved(c, "idle", "duplicate") /\ UNCHANGED <<first, passed, late>>
         \/ o = "ok" /\ Moved(c, "idle", "fresh") /\ Passing(c, FALSE)
  BY checkInDBIs, Zenon DEF Paid
<1>2. PICK a : Moved(c, "idle", a)
  BY <1>1
<1>3. NoDeleting(c) /\ NoDanger(c) /\ c \notin Asked(k)
  BY <1>1, <1>2, InSets DEF NoDeleting, NoDanger, DangerPC, AskedPC
<1>4. first' = first \/ Passing(c, FALSE)
  BY <1>1
<1>5. first'[k] => first[k]
  BY <1>4, PassingTypes
<1>6. StillFound(k) /\ NoExposure(c, k)
  BY <1>1, <1>2, <1>3, <1>5, LostSame DEF StillFound, NoExposure, Moved
<1>7. CASE late' = late
  BY <1>3, <1>6, <1>7, FreeBy, PaidBy DEF Settled
<1>8. CASE o = "ok" /\ Passing(c, FALSE) /\ call[c].after
  <2>1. late' = late + 1
    BY <1>8, PassingTypes
  <2>2. c \in Danger /\ c \notin Danger'
    BY <1>1, <1>2, <1>8, InSets DEF DangerPC
  <2>3. QED
    BY <1>3, <1>6, <1>8, <2>1, <2>2, FreeBy DEF Settled
<1>9. CASE o = "ok" /\ Passing(c, FALSE) /\ ~ call[c].after
  <2>1. late' = late
    BY <1>9, PassingTypes
  <2>2. QED
    BY <1>7, <2>1
<1>10. QED
  BY <1>1, <1>7, <1>8, <1>9

LEMMA CheckKeySettled ==
  ASSUME DedupTypeOK, NEW c \in Callers, CallOK(c), NEW o \in Outcome, OnlyCall(c),
         CheckKey(c, o), NEW k \in Keys, k = Here(c)
  PROVE  Settled(k, o)
<1>1. /\ call[c].pc = "check" /\ key' = key
      /\ o = "ok" => call[c].live
      /\ \/ Moved(c, "idle", "error") /\ UNCHANGED <<first, passed, late>>
         \/ Moved(c, "idle", "duplicate") /\ UNCHANGED <<first, passed, late>>
         \/ o = "ok" /\ ~ Present(c) /\ Moved(c, "record", "fresh") /\ Passing(c, FALSE)
  BY CheckKeyIs, Zenon DEF Paid
<1>2. first' = first \/ Passing(c, FALSE)
  BY <1>1
<1>3. first'[k] => first[k]
  BY <1>2, PassingTypes
<1>4. PICK pc \in {"idle", "record"}, a \in Answers : Moved(c, pc, a)
  BY <1>1 DEF Answers
<1>5. NoDeleting(c) /\ NoDanger(c) /\ c \notin Asked(k)
  BY <1>1, <1>4, InSets DEF NoDeleting, NoDanger, DangerPC, AskedPC
<1>6. StillFound(k) /\ NoExposure(c, k)
  BY <1>1, <1>3, <1>4, <1>5, LostSame DEF StillFound, NoExposure, Moved
<1>7. CASE late' = late
  BY <1>5, <1>6, <1>7, FreeBy, PaidBy DEF Settled
<1>8. CASE /\ o = "ok" /\ ~ Present(c) /\ Moved(c, "record", "fresh") /\ Passing(c, FALSE)
           /\ call[c].after
  <2>1. late' = late + 1
    BY <1>8, PassingTypes
  <2>2. AsksLost(c, k)
    BY <1>1, <1>5, <1>8, InSets DEF AsksLost, AskedPC, CallOK, Present, Lost
  <2>3. QED
    BY <1>5, <1>8, <2>1, <2>2, FreeBy DEF Settled
<1>9. CASE Passing(c, FALSE) /\ ~ call[c].after
  <2>1. late' = late
    BY <1>9, PassingTypes
  <2>2. QED
    BY <1>7, <2>1
<1>10. QED
  BY <1>1, <1>7, <1>8, <1>9

LEMMA markSettled ==
  ASSUME DedupTypeOK, NEW c \in Callers, CallOK(c), NEW o \in Outcome, OnlyCall(c),
         markAsProcessed(c, o), NEW k \in Keys, k = Here(c)
  PROVE  Settled(k, o)
<1>1. /\ call[c].pc = "mark"
      /\ o = "ok" => call[c].live
      /\ o = "refused" => ~ call[c].live
      /\ IF Took(o) THEN Put(c, "window") ELSE key' = key
      /\ \/ o = "ok" /\ Moved(c, "idle", "fresh") /\ Passing(c, TRUE)
         \/ o # "ok" /\ Moved(c, "idle", "error") /\ UNCHANGED <<first, passed, late>>
  BY markIs, Zenon DEF Paid
<1>2. PICK a : Moved(c, "idle", a)
  BY <1>1
<1>3. NoDeleting(c) /\ NoDanger(c)
  BY <1>1, <1>2, InSets DEF NoDeleting, NoDanger, DangerPC
<1>4. CASE o = "ok" /\ Passing(c, TRUE)
  <2>1. ~ Lost(k)'
    BY <1>1, <1>4, LostNot DEF Took
  <2>2. CASE call[c].after
    <3>1. late' = late + 1
      BY <1>4, <2>2, PassingTypes
    <3>2. c \in Danger /\ c \notin Danger'
      BY <1>1, <1>2, <1>4, <2>2, InSets DEF DangerPC
    <3>3. QED
      BY <1>3, <1>4, <2>1, <3>1, <3>2, FreeBy DEF Settled, NoExposure
  <2>3. CASE ~ call[c].after
    <3>1. late' = late
      BY <1>4, <2>3, PassingTypes
    <3>2. QED
      BY <1>3, <1>4, <2>1, <3>1, FreeBy DEF Settled, NoExposure
  <2>4. QED
    BY <2>2, <2>3
<1>5. CASE o = "unanswered" /\ late' = late
  BY <1>3, <1>5, PaidBy DEF Settled
<1>6. CASE o = "lost" /\ late' = late
  BY <1>3, <1>6, PaidBy DEF Settled
<1>7. CASE o = "refused" /\ first' = first /\ late' = late
  <2>1. key' = key /\ ~ call[c].live
    BY <1>1, <1>7 DEF Took
  <2>2. NoExposure(c, k)
    BY <1>1, <1>2, <1>7, <2>1, LostSame, InSets DEF NoExposure, StillFound, Moved
  <2>3. QED
    BY <1>3, <1>7, <2>2, FreeBy DEF Settled
<1>8. QED
  BY <1>1, <1>4, <1>5, <1>6, <1>7 DEF Outcome

LEMMA SetKeySettled ==
  ASSUME DedupTypeOK, NEW c \in Callers, CallOK(c), NEW o \in Outcome, OnlyCall(c),
         SetKey(c, o), NEW k \in Keys, k = Here(c)
  PROVE  Settled(k, o)
<1>1. /\ call[c].pc = "set" /\ first' = first /\ late' = late
      /\ o = "refused" => ~ call[c].live
      /\ IF Took(o) THEN Put(c, "kept") ELSE key' = key
      /\ \/ o = "ok" /\ Moved(c, "expire", call[c].answer)
         \/ o # "ok" /\ Moved(c, "idle", "error")
  BY SetKeyIs, Zenon DEF Paid
<1>2. PICK pc \in {"idle", "expire"}, a \in Answers \cup {call[c].answer} : Moved(c, pc, a)
  BY <1>1 DEF Answers
<1>3. NoDeleting(c) /\ NoDanger(c)
  BY <1>1, <1>2, InSets DEF NoDeleting, NoDanger, DangerPC
<1>4. CASE o = "ok"
  <2>1. ~ Lost(k)'
    BY <1>1, <1>4, LostNot DEF Took
  <2>2. QED
    BY <1>1, <1>3, <1>4, <2>1, FreeBy DEF Settled, NoExposure
<1>5. CASE o = "unanswered" \/ o = "lost"
  BY <1>1, <1>3, <1>5, PaidBy DEF Settled
<1>6. CASE o = "refused"
  <2>1. key' = key /\ ~ call[c].live /\ Moved(c, "idle", "error")
    BY <1>1, <1>6 DEF Took
  <2>2. NoExposure(c, k)
    BY <1>1, <2>1, LostSame, InSets DEF NoExposure, StillFound, Moved
  <2>3. QED
    BY <1>1, <1>3, <1>6, <2>2, FreeBy DEF Settled
<1>7. QED
  BY <1>4, <1>5, <1>6 DEF Outcome

\* A key that is lost before its time to live is set was lost before.
LEMMA ExpireKeySettled ==
  ASSUME DedupTypeOK, NEW c \in Callers, CallOK(c), NEW o \in Outcome, OnlyCall(c),
         ExpireKey(c, o), NEW k \in Keys, k = Here(c)
  PROVE  Settled(k, o)
<1>1. /\ call[c].pc = "expire"
      /\ o = "ok" => call[c].live
      /\ o = "refused" => ~ call[c].live
      /\ IF Took(o) /\ Present(c) THEN Put(c, "window") ELSE key' = key
      /\ \/ o = "ok" /\ Moved(c, "idle", "fresh") /\ Passing(c, TRUE)
         \/ o # "ok" /\ Moved(c, "del", call[c].answer) /\ UNCHANGED <<first, passed, late>>
  BY ExpireKeyIs, Zenon DEF Paid
<1>2. PICK pc \in {"idle", "del"}, a \in Answers \cup {call[c].answer} : Moved(c, pc, a)
  BY <1>1 DEF Answers
<1>3. NoDanger(c) /\ c \notin Asked(k) /\ Setting(k)
  BY <1>1, <1>2, InSets DEF NoDanger, DangerPC, AskedPC, Setting
<1>4. key' = key => StillFound(k)
  BY <1>1, <1>2, <1>3, LostSame DEF StillFound, Moved
<1>5. NoExposure(c, k)
  BY <1>1, <1>3, <1>4, LostNot DEF NoExposure
<1>6. CASE o = "ok" /\ Moved(c, "idle", "fresh") /\ Passing(c, TRUE)
  <2>1. NoDeleting(c)
    BY <1>6, InSets DEF NoDeleting
  <2>2. CASE call[c].after
    <3>1. late' = late + 1
      BY <1>6, <2>2, PassingTypes
    <3>2. c \in Danger /\ c \notin Danger'
      BY <1>1, <1>6, <2>2, InSets DEF DangerPC
    <3>3. QED
      BY <1>5, <1>6, <2>1, <3>1, <3>2, FreeBy DEF Settled
  <2>3. CASE ~ call[c].after
    <3>1. late' = late
      BY <1>6, <2>3, PassingTypes
    <3>2. QED
      BY <1>3, <1>5, <1>6, <2>1, <3>1, FreeBy DEF Settled
  <2>4. QED
    BY <2>2, <2>3
<1>7. CASE o # "ok" /\ Moved(c, "del", call[c].answer) /\ late' = late
  <2>1. o = "refused" => NoDeleting(c)
    BY <1>1, <1>7, InSets DEF NoDeleting
  <2>2. QED
    BY <1>3, <1>5, <1>7, <2>1, FreeBy, PaidBy DEF Settled
<1>8. QED
  BY <1>1, <1>6, <1>7

LEMMA DelKeySettled ==
  ASSUME DedupTypeOK, NEW c \in Callers, CallOK(c), NEW o \in Outcome, OnlyCall(c),
         DelKey(c, o), NEW k \in Keys, k = Here(c)
  PROVE  Settled(k, o)
<1>1. /\ call[c].pc = "del" /\ first' = first /\ late' = late
      /\ o = "ok" => call[c].live
      /\ o = "refused" => ~ call[c].live
      /\ ~ Took(o) => key' = key
      /\ Moved(c, "idle", "error")
  BY DelKeyIs, Zenon DEF Paid
<1>2. NoDanger(c) /\ NoDeleting(c) /\ c \notin Asked(k)
  BY <1>1, InSets DEF NoDanger, NoDeleting, DangerPC, AskedPC
<1>3. CASE o = "ok"
  <2>1. c \in Deleting /\ c \notin Deleting'
    BY <1>1, <1>3, InSets
  <2>2. QED
    BY <1>1, <1>2, <1>3, <2>1, FreeBy DEF Settled
<1>4. CASE o = "unanswered" \/ o = "lost"
  BY <1>1, <1>2, <1>4, PaidBy DEF Settled
<1>5. CASE o = "refused"
  <2>1. key' = key
    BY <1>1, <1>5 DEF Took
  <2>2. NoExposure(c, k)
    BY <1>1, <1>2, <2>1, LostSame DEF NoExposure, StillFound, Moved
  <2>3. QED
    BY <1>1, <1>2, <1>5, <2>2, FreeBy DEF Settled
<1>6. QED
  BY <1>3, <1>4, <1>5 DEF Outcome

LEMMA RecordKeySettled ==
  ASSUME DedupTypeOK, NEW c \in Callers, CallOK(c), NEW o \in Outcome, OnlyCall(c),
         RecordKey(c, o), NEW k \in Keys, k = Here(c)
  PROVE  Settled(k, o)
<1>1. /\ call[c].pc = "record" /\ late' = late
      /\ o = "refused" => ~ call[c].live
      /\ IF Took(o) THEN Put(c, "window") ELSE key' = key
      /\ Moved(c, "idle", call[c].answer)
      /\ first' = [first EXCEPT ![Here(c)] = @ \/ o = "ok"]
  BY RecordKeyIs, Zenon DEF Paid
<1>2. NoDanger(c) /\ NoDeleting(c)
  BY <1>1, InSets DEF NoDanger, NoDeleting, DangerPC
<1>3. CASE o = "ok"
  <2>1. ~ Lost(k)'
    BY <1>1, <1>3, LostNot DEF Took
  <2>2. QED
    BY <1>1, <1>2, <1>3, <2>1, FreeBy DEF Settled, NoExposure
<1>4. CASE o = "unanswered" \/ o = "lost"
  BY <1>1, <1>2, <1>4, PaidBy DEF Settled
<1>5. CASE o = "refused"
  <2>1. key' = key /\ ~ call[c].live
    BY <1>1, <1>5 DEF Took
  <2>2. first'[k] => first[k]
    <3>1. (o = "ok") \in BOOLEAN /\ o # "ok"
      BY <1>5
    <3>2. first'[Here(c)] <=> first[Here(c)] \/ o = "ok"
      BY <1>1, <3>1, RecordTypes
    <3>3. QED
      BY <3>1, <3>2
  <2>3. NoExposure(c, k)
    BY <1>1, <2>1, <2>2, LostSame, InSets DEF NoExposure, StillFound, Moved
  <2>4. QED
    BY <1>1, <1>2, <1>5, <2>3, FreeBy DEF Settled
<1>6. QED
  BY <1>3, <1>4, <1>5 DEF Outcome

-----------------------------------------------------------------------------
(* Every step.                                                              *)

LEMMA CommandKeepsPaid ==
  ASSUME DedupTypeOK, DedupTypeOK', LatePaid, NEW c \in Callers, CallOK(c),
         NEW o \in Outcome, DedupStep(c, o)
  PROVE  LatePaid'
<1>1. OnlyCall(c)
  BY StepOnly
<1>2. PICK k \in Keys : k = Here(c)
  BY CallTypes
<1>3. Settled(k, o)
  BY <1>1, <1>2, ExistsSettled, checkInDBSettled, markSettled, GetKeySettled, SetKeySettled,
     ExpireKeySettled, DelKeySettled, CheckKeySettled, RecordKeySettled DEF DedupStep
<1>4. \A j \in Keys : j # k => Exposed(j)' = Exposed(j)
  BY <1>2, StepOnly
<1>5. /\ interruptions' = interruptions
      /\ o \in {"ok", "refused"} => faults' = faults
      /\ o \in {"lost", "unanswered"} => faults' = faults + 1
  BY StepIs DEF Paid
<1>6. CASE o \in {"ok", "refused"}
  <2>1. FreeChange(k) /\ faults' = faults
    BY <1>3, <1>5, <1>6 DEF Settled
  <2>2. QED
    BY <1>4, <1>5, <2>1, FreeStep
<1>7. CASE o \in {"lost", "unanswered"}
  <2>1. PaidChange(k) /\ late' = late /\ faults' = faults + 1
    BY <1>3, <1>5, <1>7 DEF Settled
  <2>2. QED
    BY <1>4, <1>5, <2>1, PaidStep
<1>8. QED
  BY <1>6, <1>7 DEF Outcome

LEMMA OwedLess ==
  \A l, d, e, i, g, d2, e2, i2, g2 \in Nat :
    (d2 <= d /\ e2 <= e /\ i2 <= i /\ g2 <= g)
      => Owed(l, d2, e2, i2, g2) <= Owed(l, d, e, i, g)
<1> TAKE l, d, e, i, g, d2, e2, i2, g2 \in Nat
<1> HAVE d2 <= d /\ e2 <= e /\ i2 <= i /\ g2 <= g
<1>1. N * g \in Nat /\ N * g2 \in Nat /\ N * g2 <= N * g
  BY Times
<1>2. QED
  BY <1>1 DEF Owed

\* A step that puts no call in danger and loses no key.
LEMMA QuietStep ==
  ASSUME DedupTypeOK, DedupTypeOK', LatePaid,
         Danger' \subseteq Danger, Deleting' \subseteq Deleting,
         \A k \in Keys : (Lost(k)' => Lost(k)) /\ Asked(k)' = Asked(k),
         UNCHANGED <<late, faults, interruptions>>
  PROVE  LatePaid'
<1>1. Cardinality(Danger') <= Cardinality(Danger)
      /\ Cardinality(Deleting') <= Cardinality(Deleting)
  <2>1. Danger \subseteq Callers /\ Deleting \subseteq Callers
    BY DEF Danger, Deleting
  <2>2. QED
    BY <2>1, NotMore
<1>2. \A k \in Keys : Exposed(k)' <= Exposed(k)
  <2>1. TAKE k \in Keys
  <2>2. Exposed(k) \in Nat /\ Exposed(k)' \in Nat
    BY Sizes, SizesNext
  <2>3. (Lost(k)' => Lost(k)) /\ Asked(k)' = Asked(k)
    OBVIOUS
  <2> DEFINE a == N - Cardinality(Asked(k))
  <2>4. Exposed(k) = (IF Lost(k) THEN a ELSE 0) /\ Exposed(k)' = (IF Lost(k)' THEN a ELSE 0)
    BY <2>3 DEF Exposed
  <2> HIDE DEF a
  <2>5. QED
    BY <2>2, <2>3, <2>4
<1>3. PICK k \in Keys, j \in Keys : k # j
  BY DEF Keys
<1>4. Balance(k, j) <= Payment(faults, interruptions)
  BY <1>3, LatePaidIs
<1>5. late \in Nat /\ faults \in Nat /\ interruptions \in Nat
  BY DEF DedupTypeOK
<1>6. Balance(k, j)' <= Balance(k, j)
  BY <1>1, <1>2, <1>5, Sizes, SizesNext, OwedLess DEF Balance
<1>7. Balance(k, j) \in Nat /\ Balance(k, j)' \in Nat
  BY <1>5, Sizes, SizesNext, OwedType DEF Balance
<1>8. Payment(faults, interruptions) \in Nat
      /\ Payment(faults', interruptions') = Payment(faults, interruptions)
  BY <1>5, PaymentGrows
<1>9. \A x, y, z \in Nat : x <= y /\ y <= z => x <= z
  OBVIOUS
<1>10. Balance(k, j)' <= Payment(faults', interruptions')
  BY <1>4, <1>6, <1>7, <1>8, <1>9
<1>11. QED
  BY <1>3, <1>10, LatePaidNext

\* A call that is cancelled, or dies, is not about to set the key again.
LEMMA InterruptStep ==
  ASSUME DedupTypeOK, DedupTypeOK', LatePaid, NEW c \in Callers, Cancel(c) \/ Die(c)
  PROVE  LatePaid'
<1>1. /\ UNCHANGED <<key, first, late, faults>> /\ interruptions' = interruptions + 1
      /\ \A d \in Callers : d # c => call'[d] = call[d]
      /\ \/ /\ Here(c)' = Here(c) /\ call'[c].pc = call[c].pc /\ ~ call'[c].live
         \/ call'[c].pc = "idle"
  BY CancelIs, DieIs, IdleIs DEF Here
<1>2. PICK k \in Keys : k = Here(c)
  BY CallTypes
<1>3. Danger' \subseteq Danger /\ Deleting' \subseteq Deleting
  BY <1>1 DEF Danger, Deleting
<1>4. Setting(k)' => Setting(k)
  BY <1>1, <1>2 DEF Setting, Here
<1>5. Lost(k)' => Lost(k)
  BY <1>1, <1>4 DEF Lost
<1>6. Asked(k)' = Asked(k) \ {c}
  BY <1>1, <1>2 DEF Asked, Here
<1>7. Exposed(k)' <= Exposed(k) + 1
  <2> DEFINE a == Cardinality(Asked(k))
             b == Cardinality(Asked(k)')
  <2>1. Asked(k) \subseteq Callers /\ Asked(k)' \subseteq Callers
        /\ Asked(k) \ {c} = Asked(k)' \ {c}
    BY <1>6 DEF Asked
  <2>2. a <= b + 1 /\ a \in Nat /\ b \in Nat /\ a <= N /\ b <= N /\ N \in Nat
    BY <2>1, SetStep, CallersFinite
  <2>3. /\ Exposed(k) = (IF Lost(k) THEN N - a ELSE 0)
        /\ Exposed(k)' = (IF Lost(k)' THEN N - b ELSE 0)
    BY DEF Exposed
  <2> HIDE DEF a, b
  <2>4. QED
    BY <1>5, <2>2, <2>3
<1>8. ASSUME NEW j \in Keys, j # k PROVE Exposed(j)' = Exposed(j)
  <2>1. Setting(j)' = Setting(j)
    BY <1>1, <1>2, <1>8 DEF Setting, Here
  <2>2. Asked(j)' = Asked(j)
    BY <1>1, <1>2, <1>8 DEF Asked, Here
  <2>3. Lost(j)' = Lost(j)
    BY <1>1, <2>1 DEF Lost
  <2>4. QED
    BY <2>2, <2>3 DEF Exposed
<1>9. PaidChange(k)
  <2>1. Danger \subseteq Callers /\ Deleting \subseteq Callers
    BY DEF Danger, Deleting
  <2>2. Cardinality(Danger') <= Cardinality(Danger)
        /\ Cardinality(Deleting') <= Cardinality(Deleting)
    BY <1>3, <2>1, NotMore
  <2>3. QED
    BY <1>7, <2>2 DEF PaidChange
<1>10. QED
  BY <1>1, <1>8, <1>9, PaidStep

LEMMA LatePaidStep ==
  ASSUME DedupTypeOK, DedupTypeOK', LatePaid, \A c \in Callers : CallOK(c), DedupNext
  PROVE  LatePaid'
<1>1. ASSUME NEW c \in Callers, NEW op \in Op, Begin(c, op) PROVE LatePaid'
  <2>1. /\ \A d \in Callers : d # c => call'[d] = call[d]
        /\ call[c].pc = "idle" /\ call'[c].pc \in {"exists", "get", "check"}
        /\ UNCHANGED <<key, first, late, faults, interruptions>>
    BY <1>1, BeginIs
  <2>2. Danger' \subseteq Danger /\ Deleting' \subseteq Deleting
    BY <2>1 DEF Danger, Deleting
  <2>3. ASSUME NEW k \in Keys PROVE (Lost(k)' => Lost(k)) /\ Asked(k)' = Asked(k)
    <3>1. Setting(k)' => Setting(k)
      BY <2>1 DEF Setting, Here
    <3>2. Asked(k)' = Asked(k)
      BY <2>1 DEF Asked, Here
    <3>3. QED
      BY <2>1, <3>1, <3>2 DEF Lost
  <2>4. QED
    BY <2>1, <2>2, <2>3, QuietStep
<1>2. ASSUME NEW c \in Callers, Cancel(c) \/ Die(c) PROVE LatePaid'
  BY <1>2, InterruptStep
<1>3. ASSUME NEW j \in Keys, KeyExpires(j) PROVE LatePaid'
  <2>1. /\ ~ Setting(j) /\ UNCHANGED <<late, faults, interruptions>>
        /\ \A d \in Callers :
             /\ Here(d)' = Here(d) /\ call'[d].pc = call[d].pc
             /\ call'[d].live = call[d].live
             /\ call'[d].after => call[d].after
        /\ ~ first'[j]
        /\ \A k \in Keys : k # j => key'[k] = key[k] /\ first'[k] = first[k]
    BY <1>3, KeyExpiresIs DEF DedupTypeOK, Here
  <2>2. Danger' \subseteq Danger /\ Deleting' \subseteq Deleting
    BY <2>1 DEF Danger, Deleting
  <2>3. ASSUME NEW k \in Keys PROVE (Lost(k)' => Lost(k)) /\ Asked(k)' = Asked(k)
    <3>1. Setting(k)' <=> Setting(k)
      BY <2>1 DEF Setting
    <3>2. Asked(k)' = Asked(k)
      BY <2>1 DEF Asked
    <3>3. QED
      BY <2>1, <3>1, <3>2 DEF Lost
  <2>4. QED
    BY <2>1, <2>2, <2>3, QuietStep
<1>4. CASE Insert
  <2>1. UNCHANGED <<key, call, first, late, faults, interruptions>>
    BY <1>4 DEF Insert
  <2>2. Danger' \subseteq Danger /\ Deleting' \subseteq Deleting
    BY <2>1 DEF Danger, Deleting
  <2>3. \A k \in Keys : (Lost(k)' => Lost(k)) /\ Asked(k)' = Asked(k)
    BY <2>1 DEF Lost, Setting, Asked, Here
  <2>4. QED
    BY <2>1, <2>2, <2>3, QuietStep
<1>5. ASSUME NEW c \in Callers, NEW o \in Outcome, DedupStep(c, o) PROVE LatePaid'
  BY <1>5, CommandKeepsPaid
<1>6. QED
  BY <1>1, <1>2, <1>3, <1>4, <1>5 DEF DedupNext

-----------------------------------------------------------------------------
(* The invariant, and the theorems.                                         *)

LEMMA DedupInvInit == DedupInit => DedupInv
<1> SUFFICES ASSUME DedupInit PROVE DedupInv
  OBVIOUS
<1>1. DedupTypeOK
  BY IdleIs DEF DedupInit, DedupTypeOK, KeyState
<1>2. \A c \in Callers : call[c].pc = "idle" /\ call[c].live = TRUE /\ call[c].after = FALSE
                         /\ call[c].answer = "none"
  BY IdleIs DEF DedupInit
<1>3. \A k \in Keys : key[k] = "absent" /\ first[k] = FALSE /\ ~ Setting(k)
  BY <1>2 DEF DedupInit, Setting
<1>4. late = 0 /\ faults = 0 /\ interruptions = 0
  BY DEF DedupInit
<1>5. (\A c \in Callers : CallOK(c)) /\ NoneLost /\ RecordsHavePassed
  BY <1>2, <1>3, <1>4 DEF CallOK, NoneLost, RecordsHavePassed
<1>6. KeysHaveAnOriginal /\ DuplicatesHaveAnOriginal /\ KeysExpire
  BY <1>2, <1>3 DEF KeysHaveAnOriginal, DuplicatesHaveAnOriginal, KeysExpire, Keys
<1>7. LatePaid
  <2>1. Danger = {} /\ Deleting = {}
    BY <1>2 DEF Danger, Deleting
  <2>2. Cardinality(Danger) = 0 /\ Cardinality(Deleting) = 0
    BY <2>1, FS_EmptySet
  <2>3. Exposed("dedup") = 0 /\ Exposed("idempotency") = 0
    BY <1>3 DEF Exposed, Lost, Keys
  <2>4. N \in Nat
    BY CallersFinite
  <2>5. Owed(0, 0, 0, 0, 0) = 0 /\ Payment(0, 0) = 0
    BY <2>4 DEF Owed, Payment
  <2>6. QED
    BY <1>4, <2>2, <2>3, <2>5 DEF LatePaid
<1>8. QED
  BY <1>1, <1>5, <1>6, <1>7 DEF DedupInv

LEMMA DedupInvNext == DedupInv /\ [DedupNext]_dedupVars => DedupInv'
<1>1. ASSUME DedupInv, DedupNext PROVE DedupInv'
  <2>1. DedupTypeOK'
    BY <1>1, DedupTypeStep DEF DedupInv
  <2>2. (\A c \in Callers : CallOK(c))' /\ RecordsHavePassed' /\ KeysExpire'
    BY <1>1, CallOKStep, RecordsStep, KeysExpireStep DEF DedupInv
  <2>3. NoneLost' /\ KeysHaveAnOriginal' /\ DuplicatesHaveAnOriginal'
    BY <1>1, NoneLostStep, OriginalsStep, DuplicatesStep DEF DedupInv
  <2>4. LatePaid'
    BY <1>1, <2>1, LatePaidStep DEF DedupInv
  <2>5. QED
    BY <2>1, <2>2, <2>3, <2>4 DEF DedupInv
<1>2. ASSUME DedupInv, UNCHANGED dedupVars PROVE DedupInv'
  <2> USE <1>2 DEF dedupVars
  <2>1. DedupTypeOK' /\ (\A c \in Callers : CallOK(c))' /\ NoneLost'
    BY DEF DedupInv, DedupTypeOK, CallOK, NoneLost, Here, Setting
  <2>2. RecordsHavePassed' /\ KeysHaveAnOriginal' /\ DuplicatesHaveAnOriginal' /\ KeysExpire'
    BY DEF DedupInv, RecordsHavePassed, KeysHaveAnOriginal, DuplicatesHaveAnOriginal,
           KeysExpire, Here, Setting
  <2>3. Danger' = Danger /\ Deleting' = Deleting
        /\ \A k \in Keys : Exposed(k)' = Exposed(k)
    BY DEF Danger, Deleting, Exposed, Lost, Asked, Setting, Here
  <2>4. LatePaid'
    BY <2>3 DEF DedupInv, LatePaid, Keys
  <2>5. QED
    BY <2>1, <2>2, <2>4 DEF DedupInv
<1>3. QED
  BY <1>1, <1>2

\* The inductive invariant of the duplicate checks.
THEOREM DedupInvariant == DedupSpec => []DedupInv
<1>1. DedupInit => DedupInv
  BY DedupInvInit
<1>2. DedupInv /\ [DedupNext]_dedupVars => DedupInv'
  BY DedupInvNext
<1>3. QED
  BY <1>1, <1>2, PTL DEF DedupSpec

\* CheckAndSet leaves no key for good, unless a call has failed, a context has
\* been cancelled or a process has died.
THEOREM KeysAlwaysExpire == DedupSpec => []KeysExpire
<1>1. DedupInv => KeysExpire
  BY DEF DedupInv
<1>2. QED
  BY <1>1, DedupInvariant, PTL

\* Whoever is told "duplicate" by IsDuplicate, CheckAndSet or the tracker is
\* the duplicate of a call that has passed, or will unless something fails.
THEOREM DuplicatesAlwaysOriginal == DedupSpec => []DuplicatesHaveAnOriginal
<1>1. DedupInv => DuplicatesHaveAnOriginal
  BY DEF DedupInv
<1>2. QED
  BY <1>1, DedupInvariant, PTL

\* However many calls overlap, the calls that pass although they came after a
\* first are paid for: each failed call on a store, cancelled context or death
\* lets at most as many pass as there are callers, and without a failed call
\* none does.
THEOREM LateCallsAlwaysPaid == DedupSpec => []LateCallsPaid
<1>1. ASSUME DedupInv PROVE LateCallsPaid
  <2>1. faults = 0 => late = 0
    BY <1>1 DEF DedupInv, NoneLost
  <2>2. late \in Nat /\ faults \in Nat /\ interruptions \in Nat
    BY <1>1 DEF DedupInv, DedupTypeOK
  <2> DEFINE d == Cardinality(Danger)  e == Exposed("dedup")  i == Exposed("idempotency")
             g == Cardinality(Deleting)
  <2>3. d \in Nat /\ e \in Nat /\ i \in Nat /\ g \in Nat /\ N \in Nat /\ N * g \in Nat
    BY Sizes, CallersFinite, Times
  <2>4. Owed(late, d, e, i, g) <= Payment(faults, interruptions)
    BY <1>1 DEF DedupInv, LatePaid
  <2>5. Payment(faults, interruptions) = (faults + interruptions) * Cardinality(Callers)
    BY <2>2, <2>3 DEF Payment, N
  <2>6. Payment(faults, interruptions) \in Nat
    BY <2>2, PaymentGrows
  <2> HIDE DEF d, e, i, g
  <2>7. late <= Payment(faults, interruptions)
    BY <2>2, <2>3, <2>4, <2>6 DEF Owed
  <2>8. QED
    BY <2>1, <2>5, <2>7 DEF LateCallsPaid
<1>2. QED
  BY <1>1, DedupInvariant, PTL
=============================================================================
