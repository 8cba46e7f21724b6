--------------------------- MODULE MigrationRunner ----------------------------
(***************************************************************************)
(* RunMigrations (internal/repository/migration_runner.go) as processes    *)
(* run it that start at the same time on the same database: cmd/migrate,   *)
(* and the gateways with AUTO_MIGRATE.  A process makes one call after the *)
(* other, so that its pool serves them all on one connection; the advisory *)
(* lock and an open transaction belong to the session of that connection.  *)
(***************************************************************************)
EXTENDS Naturals, FiniteSets

CONSTANTS
  Processes,        \* the processes that migrate
  Gateways,         \* those that stay up afterwards, with their connection
  Last,             \* the number of embedded files, in the order of their names
  Nobody, Ghost,    \* no session; one whose process is gone or has lost it
  MaxFaults,        \* bound: calls that fail
  MaxInterruptions  \* bound: deaths of a process and connections that break

ASSUME MigrationAssumption ==
  /\ Gateways \subseteq Processes
  /\ Nobody \notin Processes /\ Ghost \notin Processes /\ Nobody # Ghost
  /\ Last \in Nat \ {0}
  /\ MaxFaults \in Nat /\ MaxInterruptions \in Nat

VARIABLES
  runner,       \* where each process is, the file it is at, and its error
  table,        \* whether schema_migrations exists
  lock,         \* the session that holds the advisory lock
  work,         \* the session with an uncommitted run of each file
  applied,      \* how often each file has been run and committed
  recorded,     \* the rows of schema_migrations
  faults,       \* calls that have failed
  breaks,       \* connections that have broken between two calls
  deaths,       \* processes that have died
  failures      \* history: processes that have exited with an error

runnerVars == <<runner, table, lock, work, applied, recorded,
                faults, breaks, deaths, failures>>

Files == 1 .. Last
PC == {"down", "ensure", "create", "lock", "check", "run", "record", "commit",
       "unlock", "up"}
Runner == [pc : PC, file : 1 .. Last + 1, err : BOOLEAN]
Down == [pc |-> "down", file |-> 1, err |-> FALSE]
Session == Processes \cup {Nobody, Ghost}

MigrationTypeOK ==
  /\ runner \in [Processes -> Runner]
  /\ table \in BOOLEAN
  /\ lock \in Session
  /\ work \in [Files -> Session]
  /\ applied \in [Files -> Nat]
  /\ recorded \in SUBSET Files
  /\ faults \in 0 .. MaxFaults
  /\ breaks \in Nat /\ deaths \in Nat /\ breaks + deaths <= MaxInterruptions
  /\ failures \in Nat

-----------------------------------------------------------------------------
(* Calls.  "ok"; "error": the server refuses the statement, which has no    *)
(* effect, and the session stays; "broken": the connection breaks during    *)
(* the call, which may have taken effect, and the caller gets an error.     *)
Reply == {"ok", "error", "broken"}

Call(o) ==
  /\ o # "ok" => faults < MaxFaults
  /\ faults' = IF o = "ok" THEN faults ELSE faults + 1

Own(p, owner) == IF owner = p THEN Ghost ELSE owner

\* The session of p has lost its process: the server has still to notice.
LoseLock(p) == lock' = Own(p, lock)
LoseWork(p) == work' = [f \in Files |-> Own(p, work[f])]

Goto(p, pc) == runner' = [runner EXCEPT ![p].pc = pc]

\* os.Exit(1), or return 1 from run.
Exit(p) ==
  /\ runner' = [runner EXCEPT ![p] = Down]
  /\ failures' = failures + 1

\* return err: the deferred unlock is still to be run.
ReturnErr(p) ==
  /\ runner' = [runner EXCEPT ![p].pc = "unlock", ![p].err = TRUE]
  /\ UNCHANGED failures

\* The next file, or the end of the loop.
NextFile(p) ==
  LET f == runner[p].file IN
  runner' = [runner EXCEPT ![p].file = f + 1,
                           ![p].pc = IF f = Last THEN "unlock" ELSE "check"]

-----------------------------------------------------------------------------
\* main: the configuration and the first connection.
Launch(p) ==
  /\ runner[p].pc = "down"
  /\ Goto(p, "ensure")
  /\ UNCHANGED <<table, lock, work, applied, recorded, faults, breaks, deaths, failures>>

\* ensureMigrationTable looks for the table; without one it goes on to create.
Ensure(p, o) ==
  /\ runner[p].pc = "ensure"
  /\ Call(o)
  /\ \/ o = "ok" /\ table /\ Goto(p, "lock") /\ UNCHANGED failures
     \/ o = "ok" /\ ~table /\ Goto(p, "create") /\ UNCHANGED failures
     \/ o # "ok" /\ Exit(p)
  /\ UNCHANGED <<table, lock, work, applied, recorded, breaks, deaths>>

\* The second half of CREATE TABLE IF NOT EXISTS: if another session created
\* the table after this one had looked, the catalog's unique index refuses it.
Create(p, o) ==
  /\ runner[p].pc = "create"
  /\ Call(o)
  /\ \/ o = "ok" /\ ~table /\ table' = TRUE /\ Goto(p, "lock") /\ UNCHANGED failures
     \/ o = "ok" /\ table /\ Exit(p) /\ UNCHANGED table
     \/ o = "error" /\ Exit(p) /\ UNCHANGED table
     \/ o = "broken" /\ Exit(p) /\ table' \in {table, TRUE}
  /\ UNCHANGED <<lock, work, applied, recorded, breaks, deaths>>

\* A mutant of Lock: pg_try_advisory_lock, its answer not looked at.
LockTrying(p, o) ==
  /\ runner[p].pc = "lock"
  /\ Call(o)
  /\ o = "ok"
  /\ lock' = IF lock = Nobody THEN p ELSE lock
  /\ Goto(p, "check") /\ UNCHANGED failures
  /\ UNCHANGED <<table, work, applied, recorded, breaks, deaths>>

\* pg_advisory_lock waits, without a deadline, for the session that holds it.
Lock(p, o) ==
  /\ runner[p].pc = "lock"
  /\ Call(o)
  /\ \/ /\ o = "ok" /\ lock = Nobody
        /\ lock' = p /\ Goto(p, "check") /\ UNCHANGED failures
     \/ o = "error" /\ Exit(p) /\ UNCHANGED lock
     \/ /\ o = "broken" /\ Exit(p)
        /\ UNCHANGED lock \/ (lock = Nobody /\ lock' = Ghost)
  /\ UNCHANGED <<table, work, applied, recorded, breaks, deaths>>

\* migrationApplied
Check(p, o) ==
  /\ runner[p].pc = "check"
  /\ Call(o)
  /\ \/ /\ o = "ok" /\ UNCHANGED <<lock, failures>>
        /\ IF runner[p].file \in recorded THEN NextFile(p) ELSE Goto(p, "run")
     \/ o = "error" /\ ReturnErr(p) /\ UNCHANGED lock
     \/ o = "broken" /\ ReturnErr(p) /\ LoseLock(p)
  /\ UNCHANGED <<table, work, applied, recorded, breaks, deaths>>

\* BeginTxx and the script, which waits while another session has run it and
\* not committed.  Having waited, it may meet what the other has created.
Run(p, o) ==
  LET f == runner[p].file IN
  /\ runner[p].pc = "run"
  /\ Call(o)
  /\ \/ /\ o = "ok" /\ work[f] = Nobody
        /\ work' = [work EXCEPT ![f] = p]
        /\ Goto(p, "record") /\ UNCHANGED <<lock, failures>>
     \/ /\ o = "ok" /\ applied[f] > 0
        /\ ReturnErr(p) /\ UNCHANGED <<lock, work>>
     \/ o = "error" /\ ReturnErr(p) /\ UNCHANGED <<lock, work>>
     \/ /\ o = "broken" /\ ReturnErr(p) /\ LoseLock(p)
        /\ \/ UNCHANGED work
           \/ work[f] = Nobody /\ work' = [work EXCEPT ![f] = Ghost]
  /\ UNCHANGED <<table, applied, recorded, breaks, deaths>>

\* A mutant of Record: the row is inserted on the pool, outside the transaction.
RecordOutside(p, o) ==
  LET f == runner[p].file IN
  /\ runner[p].pc = "record"
  /\ Call(o)
  /\ o = "ok"
  /\ recorded' = recorded \cup {f}
  /\ Goto(p, "commit") /\ UNCHANGED <<lock, work, failures>>
  /\ UNCHANGED <<table, applied, breaks, deaths>>

\* INSERT INTO schema_migrations, in the transaction: the row is visible when
\* it commits.  A row that is there already is an error.
Record(p, o) ==
  LET f == runner[p].file IN
  /\ runner[p].pc = "record"
  /\ Call(o)
  /\ \/ /\ o = "ok" /\ f \notin recorded
        /\ Goto(p, "commit") /\ UNCHANGED <<lock, work, failures>>
     \/ /\ o = "error" \/ (o = "ok" /\ f \in recorded)
        /\ ReturnErr(p)
        /\ work' = [work EXCEPT ![f] = Nobody] /\ UNCHANGED lock
     \/ o = "broken" /\ ReturnErr(p) /\ LoseLock(p) /\ LoseWork(p)
  /\ UNCHANGED <<table, applied, recorded, breaks, deaths>>

\* The transaction of p commits.
Committed(p) ==
  LET f == runner[p].file IN
  /\ applied' = [applied EXCEPT ![f] = @ + 1]
  /\ recorded' = recorded \cup {f}
  /\ work' = [work EXCEPT ![f] = Nobody]

\* A mutant of Commit: its error is not looked at.
CommitUnchecked(p, o) ==
  /\ runner[p].pc = "commit"
  /\ Call(o)
  /\ \/ o = "ok" /\ Committed(p)
     \/ /\ o # "ok"
        /\ work' = [work EXCEPT ![runner[p].file] = Nobody]
        /\ UNCHANGED <<applied, recorded>>
  /\ NextFile(p)
  /\ UNCHANGED <<table, lock, breaks, deaths, failures>>

\* tx.Commit
Commit(p, o) ==
  /\ runner[p].pc = "commit"
  /\ Call(o)
  /\ \/ o = "ok" /\ Committed(p) /\ NextFile(p) /\ UNCHANGED <<lock, failures>>
     \/ /\ o = "error" /\ ReturnErr(p)
        /\ work' = [work EXCEPT ![runner[p].file] = Nobody]
        /\ UNCHANGED <<lock, applied, recorded>>
     \/ /\ o = "broken" /\ ReturnErr(p) /\ LoseLock(p)
        /\ \/ Committed(p)
           \/ LoseWork(p) /\ UNCHANGED <<applied, recorded>>
  /\ UNCHANGED <<table, breaks, deaths>>

\* RunMigrations returns to main.
Return(p) ==
  IF runner[p].err THEN Exit(p) ELSE Goto(p, "up") /\ UNCHANGED failures

\* The connection stays with a gateway that goes on; any other exits.
Keeps(p) == p \in Gateways /\ ~ runner[p].err

\* A mutant of Unlock: the deferred function is missing.
UnlockNever(p, o) ==
  /\ runner[p].pc = "unlock"
  /\ Call(o) /\ o = "ok"
  /\ Return(p)
  /\ lock' = IF Keeps(p) THEN lock ELSE Own(p, lock)
  /\ UNCHANGED <<table, work, applied, recorded, breaks, deaths>>

\* pg_advisory_unlock; its error is ignored, and so is its answer that this
\* session does not hold the lock.
Unlock(p, o) ==
  /\ runner[p].pc = "unlock"
  /\ Call(o)
  /\ Return(p)
  /\ \/ o \in {"ok", "broken"} /\ lock' = IF lock = p THEN Nobody ELSE lock
     \/ o = "broken" /\ LoseLock(p)
     \/ o = "error" /\ lock' = IF Keeps(p) THEN lock ELSE Own(p, lock)
  /\ UNCHANGED <<table, work, applied, recorded, breaks, deaths>>

-----------------------------------------------------------------------------
(* The environment.                                                         *)

\* The idle connection breaks between two calls: database/sql makes the next
\* call on a new one and does not tell.
Break(p) ==
  /\ runner[p].pc \in {"check", "run", "unlock"} /\ lock = p
  /\ breaks + deaths < MaxInterruptions
  /\ breaks' = breaks + 1
  /\ LoseLock(p)
  /\ UNCHANGED <<runner, table, work, applied, recorded, faults, deaths, failures>>

Die(p) ==
  /\ runner[p].pc # "down"
  /\ breaks + deaths < MaxInterruptions
  /\ deaths' = deaths + 1
  /\ runner' = [runner EXCEPT ![p] = Down]
  /\ LoseLock(p) /\ LoseWork(p)
  /\ UNCHANGED <<table, applied, recorded, faults, breaks, failures>>

\* The server notices that the client of a session is gone.
GhostEnds ==
  /\ \/ lock = Ghost /\ lock' = Nobody /\ UNCHANGED work
     \/ /\ \E f \in Files : work[f] = Ghost /\ work' = [work EXCEPT ![f] = Nobody]
        /\ UNCHANGED lock
  /\ UNCHANGED <<runner, table, applied, recorded, faults, breaks, deaths, failures>>

MigrationInit ==
  /\ runner = [p \in Processes |-> Down]
  /\ table = FALSE
  /\ lock = Nobody
  /\ work = [f \in Files |-> Nobody]
  /\ applied = [f \in Files |-> 0]
  /\ recorded = {}
  /\ faults = 0 /\ breaks = 0 /\ deaths = 0 /\ failures = 0

Step(p, o) ==
  \/ Ensure(p, o) \/ Create(p, o) \/ Lock(p, o) \/ Check(p, o) \/ Run(p, o)
  \/ Record(p, o) \/ Commit(p, o) \/ Unlock(p, o)

MigrationNext ==
  \/ \E p \in Processes :
       Launch(p) \/ (\E o \in Reply : Step(p, o)) \/ Break(p) \/ Die(p)
  \/ GhostEnds

\* A process whose call is not blocked gets on, and a blocked one waits (it is
\* fair to the answer "ok", so that waiting does not end in an error); a gateway
\* that has exited is started again (a Deployment); the server gets rid of
\* sessions without a client.  Nobody has to start cmd/migrate.
MigrationSpec ==
  /\ MigrationInit /\ [][MigrationNext]_runnerVars
  /\ \A p \in Processes : WF_runnerVars(Step(p, "ok"))
  /\ \A p \in Gateways : WF_runnerVars(Launch(p))
  /\ WF_runnerVars(GhostEnds)

-----------------------------------------------------------------------------
(* Properties.                                                              *)

\* Where a process is, and what the database holds for it: the files before the
\* one it is at are recorded; from the script to the commit its session has
\* the file to itself; the row it is about to commit is not there yet.
RunnerOK(p) ==
  LET f == runner[p].file
      pc == runner[p].pc
  IN
  /\ \A g \in Files : g < f => g \in recorded
  /\ pc \in {"down", "ensure", "create", "lock"} => f = 1 /\ ~ runner[p].err
  /\ pc \in {"check", "run", "record", "commit"} => f \in Files /\ ~ runner[p].err
  /\ pc \in {"record", "commit"} => work[f] = p
  /\ pc = "commit" => f \notin recorded
  /\ pc = "unlock" /\ ~ runner[p].err => f = Last + 1
  /\ pc = "up" => f = Last + 1

\* The type invariant, strengthened by what makes the next two inductive.
MigrationInv ==
  /\ MigrationTypeOK
  /\ \A p \in Processes : RunnerOK(p)

\* What schema_migrations says is what was done: a file has been run and
\* committed exactly once if it is recorded and not at all otherwise, and
\* the recorded files are the first ones, whatever died, broke or ran beside.
AppliedOnceInOrder ==
  /\ \A f \in Files : applied[f] = IF f \in recorded THEN 1 ELSE 0
  /\ \A f \in recorded : \A g \in Files : g < f => g \in recorded

\* A process that came through RunMigrations, and serves requests on the
\* schema, finds it complete.
UpIsMigrated == \A p \in Processes : runner[p].pc = "up" => recorded = Files

\* The lock keeps processes that start together from failing on each other's
\* files: beyond failed calls, a process exits with an error only because
\* another created schema_migrations, which happens outside the lock, at the
\* same time, or because a broken connection had lost the lock unnoticed.
FailuresExplained ==
  failures <= faults + Last * breaks + Cardinality(Processes) - 1

\* Every gateway comes up for good, unless the unlock failed of one that is up
\* and keeps the lock on its connection for as long as it lives.
GatewaysComeUp ==
  \A p \in Gateways :
    <>[](\/ runner[p].pc = "up"
         \/ faults > 0 /\ \E q \in Gateways : runner[q].pc = "up" /\ lock = q)
=============================================================================
