----------------------------- MODULE Deduplication ----------------------------
(***************************************************************************)
(* The three ways in which the code tells a first request from a repeated  *)
(* one by a key in Redis: IsDuplicate of the exactly-once engine, the      *)
(* IdempotencyTracker (internal/engine/exactly_once.go) and CheckAndSet of *)
(* the IdempotencyService (internal/service/billing.go).  Each is several  *)
(* commands, so that calls overlap, fail between two of them or are cut    *)
(* short by their context.  All calls here are about one request.          *)
(***************************************************************************)
EXTENDS StoreCalls, FiniteSets

CONSTANTS
  Callers,          \* concurrent calls
  MaxInterruptions  \* bound: contexts that are cancelled, processes that die

ASSUME DeduplicationAssumption == IsFiniteSet(Callers) /\ MaxInterruptions \in Nat

VARIABLES
  key,           \* the keys: "window" has a time to live and "kept" has none
  stored,        \* whether the message is in the messages table
  call,          \* what each caller is at
  first,         \* history: a call has passed and left its key, which has not expired
  passed,        \* history: a call has passed
  late,          \* history: calls that passed although they came after a first
  interruptions

dedupVars == <<key, stored, call, first, passed, late, faults, interruptions>>

Op == {"IsDuplicate", "CheckAndSet", "Tracker"}
Keys == {"dedup", "idempotency"}
KeyOf(op) == IF op = "IsDuplicate" THEN "dedup" ELSE "idempotency"
KeyState == {"absent", "window", "kept"}

\* after: "first" held when the call came, and the key has not expired since.
Idle == [op |-> "IsDuplicate", pc |-> "idle", live |-> TRUE, after |-> FALSE,
         answer |-> "none"]

\* generateDeduplicationKey: the same sender, conversation, task and content
\* have the same key, whatever the message id.
Here(c) == KeyOf(call[c].op)
Present(c) == key[Here(c)] # "absent"
Put(c, state) == key' = [key EXCEPT ![Here(c)] = state]

Goto(c, pc) ==
  call' = [call EXCEPT ![c].pc = pc] /\ UNCHANGED <<first, passed, late>>
Answer(c, a) ==
  call' = [call EXCEPT ![c].pc = "idle", ![c].answer = a]
    /\ UNCHANGED <<first, passed, late>>

\* The request is told to go on, as the first of its kind; left: its key is set.
Passes(c, pc, left) ==
  /\ call' = [call EXCEPT ![c].pc = pc, ![c].answer = "fresh"]
  /\ first' = [first EXCEPT ![Here(c)] = @ \/ left]
  /\ passed' = [passed EXCEPT ![Here(c)] = TRUE]
  /\ late' = late + (IF call[c].after THEN 1 ELSE 0)

Command(c, pc, o) == call[c].pc = pc /\ Call(o, call[c].live)

-----------------------------------------------------------------------------
Begin(c, op) ==
  /\ call[c].pc = "idle"
  /\ call' = [call EXCEPT ![c] = [Idle EXCEPT
                !.op = op, !.after = first[KeyOf(op)],
                !.pc = CASE op = "IsDuplicate" -> "exists"
                         [] op = "CheckAndSet" -> "get"
                         [] op = "Tracker"     -> "check"]]
  /\ UNCHANGED <<key, stored, first, passed, late, faults, interruptions>>

-----------------------------------------------------------------------------
(* IsDuplicate                                                              *)

\* A mutant of Exists: the message is marked first.
ExistsMarking(c, o) ==
  /\ Command(c, "exists", o)
  /\ IF o = "ok" THEN Put(c, "window") ELSE UNCHANGED key
  /\ IF o = "ok" THEN Answer(c, "duplicate") ELSE Goto(c, "db")
  /\ UNCHANGED <<stored, interruptions>>

Exists(c, o) ==
  /\ Command(c, "exists", o)
  /\ \/ o # "ok" /\ Goto(c, "db")
     \/ o = "ok" /\ Present(c) /\ Answer(c, "duplicate")
     \/ o = "ok" /\ ~ Present(c) /\ Goto(c, "mark")
  /\ UNCHANGED <<key, stored, interruptions>>

\* A message that is in the table is called a duplicate, although every message
\* is there before it is processed at all.
checkInDB(c, o) ==
  /\ Command(c, "db", o)
  /\ \/ o # "ok" /\ Answer(c, "error")
     \/ o = "ok" /\ stored /\ Answer(c, "duplicate")
     \/ o = "ok" /\ ~ stored /\ Passes(c, "idle", FALSE)
  /\ UNCHANGED <<key, stored, interruptions>>

\* A mutant of markAsProcessed: the key is not set.
MarkNothing(c, o) ==
  /\ Command(c, "mark", o)
  /\ IF o = "ok" THEN Passes(c, "idle", TRUE) ELSE Answer(c, "error")
  /\ UNCHANGED <<key, stored, interruptions>>

markAsProcessed(c, o) ==
  /\ Command(c, "mark", o)
  /\ IF Took(o) THEN Put(c, "window") ELSE UNCHANGED key
  /\ IF o = "ok" THEN Passes(c, "idle", TRUE) ELSE Answer(c, "error")
  /\ UNCHANGED <<stored, interruptions>>

-----------------------------------------------------------------------------
(* CheckAndSet, with a time to live                                         *)

\* An error of GET is taken for an absent key.
GetKey(c, o) ==
  /\ Command(c, "get", o)
  /\ IF o = "ok" /\ Present(c) THEN Answer(c, "duplicate") ELSE Goto(c, "set")
  /\ UNCHANGED <<key, stored, interruptions>>

\* SET takes away the time to live that the key may have by now.
SetKey(c, o) ==
  /\ Command(c, "set", o)
  /\ IF Took(o) THEN Put(c, "kept") ELSE UNCHANGED key
  /\ IF o = "ok" THEN Goto(c, "expire") ELSE Answer(c, "error")
  /\ UNCHANGED <<stored, interruptions>>

\* A mutant of ExpireKey: no time to live is set.
ExpireNothing(c, o) ==
  /\ Command(c, "expire", o)
  /\ IF o = "ok" THEN Passes(c, "idle", TRUE) ELSE Goto(c, "del")
  /\ UNCHANGED <<key, stored, interruptions>>

ExpireKey(c, o) ==
  /\ Command(c, "expire", o)
  /\ IF Took(o) /\ Present(c) THEN Put(c, "window") ELSE UNCHANGED key
  /\ IF o = "ok" THEN Passes(c, "idle", TRUE) ELSE Goto(c, "del")
  /\ UNCHANGED <<stored, interruptions>>

\* Whoever has set the key.
DelKey(c, o) ==
  /\ Command(c, "del", o)
  /\ IF Took(o) THEN Put(c, "absent") ELSE UNCHANGED key
  /\ Answer(c, "error")
  /\ UNCHANGED <<stored, interruptions>>

-----------------------------------------------------------------------------
(* IdempotencyTracker: Check, the request itself, Record                    *)

CheckKey(c, o) ==
  /\ Command(c, "check", o)
  /\ \/ o # "ok" /\ Answer(c, "error")
     \/ o = "ok" /\ Present(c) /\ Answer(c, "duplicate")
     \/ o = "ok" /\ ~ Present(c) /\ Passes(c, "record", FALSE)
  /\ UNCHANGED <<key, stored, interruptions>>

RecordKey(c, o) ==
  /\ Command(c, "record", o)
  /\ IF Took(o) THEN Put(c, "window") ELSE UNCHANGED key
  /\ call' = [call EXCEPT ![c].pc = "idle"]
  /\ first' = [first EXCEPT ![Here(c)] = @ \/ o = "ok"]
  /\ UNCHANGED <<stored, passed, late, interruptions>>

-----------------------------------------------------------------------------
(* The surroundings.                                                        *)

\* A time to live, of hours, ends; not between the SET and the EXPIRE of a call.
KeyExpires(k) ==
  /\ key[k] = "window"
  /\ ~ \E c \in Callers : call[c].pc = "expire" /\ Here(c) = k
  /\ key' = [key EXCEPT ![k] = "absent"]
  /\ first' = [first EXCEPT ![k] = FALSE]
  /\ call' = [c \in Callers |-> [call[c] EXCEPT !.after = @ /\ Here(c) # k]]
  /\ UNCHANGED <<stored, passed, late, faults, interruptions>>

\* The message is inserted by the service that got it.
Insert ==
  /\ ~ stored /\ stored' = TRUE
  /\ UNCHANGED <<key, call, first, passed, late, faults, interruptions>>

Interrupted(c) ==
  /\ call[c].pc # "idle" /\ interruptions < MaxInterruptions
  /\ interruptions' = interruptions + 1
  /\ UNCHANGED <<key, stored, first, passed, late, faults>>

Cancel(c) == Interrupted(c) /\ call[c].live /\ call' = [call EXCEPT ![c].live = FALSE]
Die(c) == Interrupted(c) /\ call' = [call EXCEPT ![c] = Idle]

DedupInit ==
  /\ key = [k \in Keys |-> "absent"]
  /\ stored = FALSE
  /\ call = [c \in Callers |-> Idle]
  /\ first = [k \in Keys |-> FALSE] /\ passed = [k \in Keys |-> FALSE]
  /\ late = 0 /\ faults = 0 /\ interruptions = 0

DedupStep(c, o) ==
  \/ Exists(c, o) \/ checkInDB(c, o) \/ markAsProcessed(c, o)
  \/ GetKey(c, o) \/ SetKey(c, o) \/ ExpireKey(c, o) \/ DelKey(c, o)
  \/ CheckKey(c, o) \/ RecordKey(c, o)

DedupNext ==
  \/ \E c \in Callers :
       \/ \E op \in Op : Begin(c, op)
       \/ \E o \in Outcome : DedupStep(c, o)
       \/ Cancel(c) \/ Die(c)
  \/ (\E k \in Keys : KeyExpires(k)) \/ Insert

DedupSpec == DedupInit /\ [][DedupNext]_dedupVars

-----------------------------------------------------------------------------
(* Properties.                                                              *)

\* A call that comes after another has passed and set the key, within the key's
\* window, passes only at the price of a failed call on a store: calls that
\* overlap may all pass, one that follows does not.  Once a failure has lost the
\* key, no more pass than overlap, until a call fails or dies before it sets it.
LateCallsPaid ==
  /\ faults = 0 => late = 0
  /\ late <= (faults + interruptions) * Cardinality(Callers)

\* A call is told "duplicate" because another one has passed or is about to;
\* a request that all its calls are told to drop, and nobody handles, has cost a
\* failed call, a cancelled context or a death.
DuplicatesHaveAnOriginal ==
  \A c \in Callers :
    call[c].answer = "duplicate" /\ faults + interruptions = 0 =>
      \/ passed[Here(c)]
      \/ \E d \in Callers : call[d].pc = "expire" /\ Here(d) = Here(c)

\* A key without a time to live, which would make a request a duplicate for
\* good, is about to get one or to be deleted, or has cost a failed call, a
\* cancelled context or a death.
KeysExpire ==
  key["idempotency"] = "kept" =>
    \/ \E c \in Callers : call[c].pc \in {"expire", "del"}
    \/ faults + interruptions > 0
=============================================================================
