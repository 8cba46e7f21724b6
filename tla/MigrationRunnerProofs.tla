------------------------ MODULE MigrationRunnerProofs -------------------------
(***************************************************************************)
(* Theorems about the migration runner, for any number of processes, files *)
(* and faults.  The lock is not needed for the first three: the           *)
(* transaction, the primary key of schema_migrations and the order of the  *)
(* loop are enough.  The lock spares the processes from failing on each    *)
(* other, which is what the last one counts.                               *)
(***************************************************************************)
EXTENDS MigrationRunner, FiniteSetTheorems, TLAPS

\* Everything that is proved together.
Inv == MigrationInv /\ AppliedOnceInOrder

\* Nothing is done yet.
LEMMA InitInv == MigrationInit => Inv
<1> SUFFICES ASSUME MigrationInit PROVE Inv
  OBVIOUS
<1> USE MigrationAssumption
<1>1. MigrationTypeOK
  <2>1. Down \in Runner
    BY SMT DEF Down, Runner, PC
  <2>2. runner \in [Processes -> Runner]
    BY <2>1 DEF MigrationInit
  <2>3. work \in [Files -> Session] /\ applied \in [Files -> Nat] /\ lock \in Session
    BY DEF MigrationInit, Session
  <2>4. table \in BOOLEAN /\ recorded \in SUBSET Files
    BY DEF MigrationInit
  <2> QED BY <2>2, <2>3, <2>4, SMT DEF MigrationInit, MigrationTypeOK
<1>2. ASSUME NEW p \in Processes PROVE RunnerOK(p)
  BY SMT DEF MigrationInit, RunnerOK, Down, Files
<1>3. AppliedOnceInOrder
  BY DEF MigrationInit, AppliedOnceInOrder
<1> QED BY <1>1, <1>2, <1>3 DEF Inv, MigrationInv

\* What a process does to the state: to its own entry, and to what is shared,
\* within the types; it takes no file from the session of another.
Moves(p) ==
  /\ runner' = [runner EXCEPT ![p] = runner'[p]]
  /\ runner'[p] \in Runner
  /\ table' \in BOOLEAN /\ lock' \in Session
  /\ work' \in [Files -> Session]
  /\ \A q \in Processes \ {p} : \A f \in Files : work[f] = q => work'[f] = q
  /\ faults' \in 0 .. MaxFaults
  /\ breaks' \in Nat /\ deaths' \in Nat /\ breaks' + deaths' <= MaxInterruptions
  /\ failures' \in Nat

\* A move that commits nothing keeps the invariant if it does so for its process.
LEMMA QuietMove ==
  ASSUME Inv, NEW p \in Processes, Moves(p), UNCHANGED <<applied, recorded>>,
         RunnerOK(p)'
  PROVE  Inv'
<1>1. MigrationTypeOK'
  BY SMT DEF Inv, MigrationInv, MigrationTypeOK, Moves
<1>2. ASSUME NEW q \in Processes, q # p PROVE RunnerOK(q)'
  <2>1. runner'[q] = runner[q] /\ runner[q] \in Runner
    BY <1>2 DEF Moves, Inv, MigrationInv, MigrationTypeOK
  <2>2. RunnerOK(q)
    BY DEF Inv, MigrationInv
  <2>3. \A f \in Files : work[f] = q => work'[f] = q
    BY <1>2 DEF Moves
  <2>4. runner[q].pc \in {"record", "commit"} => runner[q].file \in Files
    BY <2>2 DEF RunnerOK
  <2> QED BY <2>1, <2>2, <2>3, <2>4 DEF RunnerOK
<1>3. AppliedOnceInOrder'
  BY DEF Inv, AppliedOnceInOrder
<1> QED BY <1>1, <1>2, <1>3 DEF Inv, MigrationInv

\* The same for a move that commits the file of its process.
LEMMA CommittingMove ==
  ASSUME Inv, NEW p \in Processes, Moves(p),
         runner[p].pc = "commit", Committed(p), RunnerOK(p)'
  PROVE  Inv'
<1> DEFINE f == runner[p].file
<1>1. /\ f \in Files /\ work[f] = p /\ f \notin recorded
      /\ \A g \in Files : g < f => g \in recorded
  BY DEF Inv, MigrationInv, RunnerOK
<1>2. /\ recorded' = recorded \cup {f} /\ applied' = [applied EXCEPT ![f] = @ + 1]
      /\ recorded \in SUBSET Files /\ applied \in [Files -> Nat]
  BY DEF Committed, Inv, MigrationInv, MigrationTypeOK
<1>3. MigrationTypeOK'
  <2>1. applied' \in [Files -> Nat] /\ recorded' \in SUBSET Files
    BY <1>1, <1>2, SMT
  <2> QED BY <2>1, SMT DEF Inv, MigrationInv, MigrationTypeOK, Moves
<1>4. ASSUME NEW q \in Processes, q # p PROVE RunnerOK(q)'
  <2>1. runner'[q] = runner[q]
    BY <1>4 DEF Moves, Inv, MigrationInv, MigrationTypeOK
  <2>2. RunnerOK(q)
    BY DEF Inv, MigrationInv
  <2>3. \A g \in Files : work[g] = q => work'[g] = q
    BY <1>4 DEF Moves
  <2>4. runner[q].pc \in {"record", "commit"} =>
          runner[q].file \in Files /\ runner[q].file # f
    BY <1>1, <1>4, <2>2 DEF RunnerOK
  <2> QED BY <1>2, <2>1, <2>2, <2>3, <2>4 DEF RunnerOK
<1>5. AppliedOnceInOrder'
  <2>1. AppliedOnceInOrder
    BY DEF Inv
  <2>2. ASSUME NEW g \in Files
        PROVE  applied'[g] = IF g \in recorded' THEN 1 ELSE 0
    BY <1>1, <1>2, <2>1, SMT DEF AppliedOnceInOrder
  <2>3. ASSUME NEW h \in recorded', NEW g \in Files, g < h PROVE g \in recorded'
    BY <1>1, <1>2, <2>1, <2>3 DEF AppliedOnceInOrder
  <2> QED BY <2>2, <2>3 DEF AppliedOnceInOrder
<1> QED BY <1>3, <1>4, <1>5 DEF Inv, MigrationInv

-----------------------------------------------------------------------------
(* What the parts of a step do to the entry of its process.                 *)

\* The entry of p, and only it, changes.
OnlyEntry(p) == runner' = [runner EXCEPT ![p] = runner'[p]] /\ runner'[p] \in Runner

\* A process that exits starts over.
LEMMA Exits ==
  ASSUME Inv, NEW p \in Processes, Exit(p)
  PROVE  OnlyEntry(p) /\ RunnerOK(p)' /\ failures' \in Nat
<1>1. runner'[p] = Down /\ runner' = [runner EXCEPT ![p] = Down]
  BY DEF Exit, Inv, MigrationInv, MigrationTypeOK
<1>2. Down \in Runner
  BY MigrationAssumption, SMT DEF Down, Runner, PC
<1>3. RunnerOK(p)'
  BY <1>1, SMT DEF Down, RunnerOK, Files
<1>4. failures' \in Nat
  BY SMT DEF Exit, Inv, MigrationInv, MigrationTypeOK
<1> QED BY <1>1, <1>2, <1>3, <1>4 DEF OnlyEntry

\* A process that returns an error has only the unlock before it.
LEMMA ReturnsErr ==
  ASSUME Inv, NEW p \in Processes, ReturnErr(p), recorded \subseteq recorded'
  PROVE  OnlyEntry(p) /\ RunnerOK(p)' /\ failures' \in Nat
<1>1. runner[p] \in Runner /\ RunnerOK(p)
  BY DEF Inv, MigrationInv, MigrationTypeOK
<1>2. /\ runner'[p] = [runner[p] EXCEPT !.pc = "unlock", !.err = TRUE]
      /\ runner' = [runner EXCEPT ![p] = runner'[p]]
  BY DEF ReturnErr, Inv, MigrationInv, MigrationTypeOK
<1>3. runner'[p] \in Runner
  <2>1. runner'[p] = [pc |-> "unlock", file |-> runner[p].file, err |-> TRUE]
    BY <1>1, <1>2 DEF Runner
  <2>2. runner[p].file \in 1 .. Last + 1
    BY <1>1 DEF Runner
  <2> QED BY <2>1, <2>2 DEF Runner, PC
<1>4. runner'[p].pc = "unlock" /\ runner'[p].err /\ runner'[p].file = runner[p].file
  BY <1>1, <1>2, SMT DEF Runner
<1>5. RunnerOK(p)'
  BY <1>1, <1>4 DEF RunnerOK
<1>6. failures' \in Nat
  BY DEF ReturnErr, Inv, MigrationInv, MigrationTypeOK
<1> QED BY <1>2, <1>3, <1>5, <1>6 DEF OnlyEntry

\* A process that goes on keeps its file.
LEMMA Goes ==
  ASSUME Inv, NEW p \in Processes, NEW pc \in PC, Goto(p, pc)
  PROVE  /\ OnlyEntry(p)
         /\ runner'[p].pc = pc /\ runner'[p].file = runner[p].file
         /\ runner'[p].err = runner[p].err
<1>1. runner[p] \in Runner
  BY DEF Inv, MigrationInv, MigrationTypeOK
<1>2. /\ runner'[p] = [runner[p] EXCEPT !.pc = pc]
      /\ runner' = [runner EXCEPT ![p] = runner'[p]]
  BY DEF Goto, Inv, MigrationInv, MigrationTypeOK
<1>3. runner'[p] \in Runner
  BY <1>1, <1>2, SMT DEF Runner
<1>4. /\ runner'[p].pc = pc /\ runner'[p].file = runner[p].file
      /\ runner'[p].err = runner[p].err
  BY <1>1, <1>2, SMT DEF Runner
<1> QED BY <1>2, <1>3, <1>4 DEF OnlyEntry

\* A process whose file is recorded goes to the next one, or ends the loop.
LEMMA GoesNext ==
  ASSUME Inv, NEW p \in Processes, NextFile(p), runner[p].file \in Files,
         ~ runner[p].err,
         recorded \subseteq recorded', runner[p].file \in recorded'
  PROVE  OnlyEntry(p) /\ RunnerOK(p)'
<1> DEFINE f == runner[p].file
           pc == IF f = Last THEN "unlock" ELSE "check"
<1>1. runner[p] \in Runner /\ RunnerOK(p)
  BY DEF Inv, MigrationInv, MigrationTypeOK
<1>2. /\ runner'[p] = [runner[p] EXCEPT !.file = f + 1, !.pc = pc]
      /\ runner' = [runner EXCEPT ![p] = runner'[p]]
  BY DEF NextFile, Inv, MigrationInv, MigrationTypeOK
<1>3. runner'[p] \in Runner
  <2>1. runner'[p] = [pc |-> pc, file |-> f + 1, err |-> runner[p].err]
    BY <1>1, <1>2 DEF Runner
  <2>2. f + 1 \in 1 .. Last + 1
    BY MigrationAssumption, SMT DEF Files
  <2>3. runner[p].err \in BOOLEAN /\ pc \in PC
    BY <1>1 DEF Runner, PC
  <2> HIDE DEF pc
  <2> QED BY <2>1, <2>2, <2>3 DEF Runner
<1>4. runner'[p].pc = pc /\ runner'[p].err = runner[p].err /\ runner'[p].file = f + 1
  BY <1>1, <1>2, SMT DEF Runner
<1>5. \A g \in Files : g < f + 1 => g \in recorded'
  BY <1>1, SMT DEF RunnerOK, Files
<1>6. f # Last => f + 1 \in Files
  BY MigrationAssumption, SMT DEF Files
<1>7. RunnerOK(p)'
  BY <1>4, <1>5, <1>6 DEF RunnerOK
<1> QED BY <1>2, <1>3, <1>7 DEF OnlyEntry

\* The parts of a move that a call on the server leaves within their types.
LEMMA Counts ==
  ASSUME Inv, NEW o \in Reply, Call(o)
  PROVE  faults' \in 0 .. MaxFaults
BY MigrationAssumption, SMT DEF Call, Inv, MigrationInv, MigrationTypeOK

LEMMA LosesLock ==
  ASSUME Inv, NEW p \in Processes, LoseLock(p)
  PROVE  lock' \in Session
BY DEF LoseLock, Own, Session, Inv, MigrationInv, MigrationTypeOK

\* Only what is the session's own goes to the ghost.
LEMMA LosesWork ==
  ASSUME Inv, NEW p \in Processes, LoseWork(p)
  PROVE  /\ work' \in [Files -> Session]
         /\ \A q \in Processes \ {p} : \A f \in Files : work[f] = q => work'[f] = q
BY DEF LoseWork, Own, Session, Inv, MigrationInv, MigrationTypeOK

\* A file that no other process works on may change hands.
LEMMA Takes ==
  ASSUME Inv, NEW p \in Processes, NEW f \in Files, NEW s \in Session,
         work[f] \in {p, Nobody, Ghost}, work' = [work EXCEPT ![f] = s]
  PROVE  /\ work' \in [Files -> Session]
         /\ \A q \in Processes \ {p} : \A g \in Files : work[g] = q => work'[g] = q
         /\ work'[f] = s
BY MigrationAssumption DEF Session, Inv, MigrationInv, MigrationTypeOK

\* What a call that touches no shared data leaves within its types.
LEMMA StaysTyped ==
  ASSUME Inv, NEW p \in Processes
  PROVE  /\ UNCHANGED table => table' \in BOOLEAN
         /\ UNCHANGED lock => lock' \in Session
         /\ UNCHANGED work => /\ work' \in [Files -> Session]
                              /\ \A q \in Processes \ {p} : \A f \in Files :
                                   work[f] = q => work'[f] = q
         /\ UNCHANGED <<breaks, deaths>> =>
              breaks' \in Nat /\ deaths' \in Nat /\ breaks' + deaths' <= MaxInterruptions
         /\ UNCHANGED failures => failures' \in Nat
         /\ UNCHANGED faults => faults' \in 0 .. MaxFaults
BY DEF Inv, MigrationInv, MigrationTypeOK

-----------------------------------------------------------------------------
(* One lemma for each call.                                                 *)

LEMMA LaunchStep ==
  ASSUME Inv, NEW p \in Processes, Launch(p)
  PROVE  Inv'
<1>1. Goto(p, "ensure") /\ "ensure" \in PC
  BY DEF Launch, PC
<1>2. RunnerOK(p)'
  <2>1. RunnerOK(p) /\ UNCHANGED recorded /\ runner[p].pc = "down"
    BY DEF Launch, Inv, MigrationInv
  <2> QED BY <1>1, <2>1, Goes DEF RunnerOK
<1>3. Moves(p)
  BY <1>1, Goes, StaysTyped DEF Launch, Moves, OnlyEntry
<1> QED BY <1>2, <1>3, QuietMove DEF Launch

LEMMA EnsureStep ==
  ASSUME Inv, NEW p \in Processes, NEW o \in Reply, Ensure(p, o)
  PROVE  Inv'
<1>1. OnlyEntry(p) /\ RunnerOK(p)' /\ failures' \in Nat
  <2>1. CASE Exit(p)
    BY <2>1, Exits
  <2>2. ASSUME NEW next \in {"lock", "create"}, Goto(p, next), UNCHANGED failures
        PROVE  OnlyEntry(p) /\ RunnerOK(p)' /\ failures' \in Nat
    <3>1. /\ next \in PC /\ RunnerOK(p) /\ UNCHANGED recorded
          /\ runner[p].pc = "ensure"
      BY DEF PC, Ensure, Inv, MigrationInv
    <3> QED BY <2>2, <3>1, Goes, StaysTyped DEF RunnerOK
  <2> QED BY <2>1, <2>2 DEF Ensure
<1>2. Moves(p)
  BY <1>1, Counts, StaysTyped DEF Ensure, Moves, OnlyEntry
<1> QED BY <1>1, <1>2, QuietMove DEF Ensure

LEMMA CreateStep ==
  ASSUME Inv, NEW p \in Processes, NEW o \in Reply, Create(p, o)
  PROVE  Inv'
<1>1. OnlyEntry(p) /\ RunnerOK(p)' /\ failures' \in Nat
  <2>1. CASE Exit(p)
    BY <2>1, Exits
  <2>2. CASE Goto(p, "lock") /\ UNCHANGED failures
    <3>1. /\ "lock" \in PC /\ RunnerOK(p) /\ UNCHANGED recorded
          /\ runner[p].pc = "create"
      BY DEF PC, Create, Inv, MigrationInv
    <3> QED BY <2>2, <3>1, Goes, StaysTyped DEF RunnerOK
  <2> QED BY <2>1, <2>2 DEF Create
<1>2. table' \in BOOLEAN
  BY StaysTyped DEF Create, Inv, MigrationInv, MigrationTypeOK
<1>3. Moves(p)
  BY <1>1, <1>2, Counts, StaysTyped DEF Create, Moves, OnlyEntry
<1> QED BY <1>1, <1>3, QuietMove DEF Create

LEMMA LockStep ==
  ASSUME Inv, NEW p \in Processes, NEW o \in Reply, Lock(p, o)
  PROVE  Inv'
<1>1. OnlyEntry(p) /\ RunnerOK(p)' /\ failures' \in Nat
  <2>1. CASE Exit(p)
    BY <2>1, Exits
  <2>2. CASE Goto(p, "check") /\ UNCHANGED failures
    <3>1. "check" \in PC /\ RunnerOK(p) /\ UNCHANGED recorded
      BY DEF PC, Lock, Inv, MigrationInv
    <3>2. runner[p].file = 1 /\ ~ runner[p].err
      BY DEF Lock, Inv, MigrationInv, RunnerOK
    <3>3. 1 \in Files
      BY MigrationAssumption, SMT DEF Files
    <3> QED BY <2>2, <3>1, <3>2, <3>3, Goes, StaysTyped DEF RunnerOK
  <2> QED BY <2>1, <2>2 DEF Lock
<1>2. lock' \in Session
  BY StaysTyped DEF Lock, Session
<1>3. Moves(p)
  BY <1>1, <1>2, Counts, StaysTyped DEF Lock, Moves, OnlyEntry
<1> QED BY <1>1, <1>3, QuietMove DEF Lock

LEMMA CheckStep ==
  ASSUME Inv, NEW p \in Processes, NEW o \in Reply, Check(p, o)
  PROVE  Inv'
<1>1. /\ runner[p].file \in Files /\ ~ runner[p].err /\ RunnerOK(p)
      /\ UNCHANGED recorded
  BY DEF Check, Inv, MigrationInv, RunnerOK
<1>2. OnlyEntry(p) /\ RunnerOK(p)' /\ failures' \in Nat
  <2>1. CASE ReturnErr(p)
    BY <1>1, <2>1, ReturnsErr
  <2>2. CASE Goto(p, "run") /\ UNCHANGED failures
    <3>1. "run" \in PC
      BY DEF PC
    <3> QED BY <1>1, <2>2, <3>1, Goes, StaysTyped DEF RunnerOK
  <2>3. CASE NextFile(p) /\ runner[p].file \in recorded /\ UNCHANGED failures
    BY <1>1, <2>3, GoesNext, StaysTyped
  <2> QED BY <2>1, <2>2, <2>3 DEF Check
<1>3. lock' \in Session
  BY LosesLock, StaysTyped DEF Check
<1>4. Moves(p)
  BY <1>2, <1>3, Counts, StaysTyped DEF Check, Moves, OnlyEntry
<1> QED BY <1>2, <1>4, QuietMove DEF Check

LEMMA RunStep ==
  ASSUME Inv, NEW p \in Processes, NEW o \in Reply, Run(p, o)
  PROVE  Inv'
<1> DEFINE f == runner[p].file
<1>1. f \in Files /\ ~ runner[p].err /\ RunnerOK(p) /\ UNCHANGED recorded
  BY DEF Run, Inv, MigrationInv, RunnerOK
<1>2. /\ work' \in [Files -> Session]
      /\ \A q \in Processes \ {p} : \A g \in Files : work[g] = q => work'[g] = q
  <2>1. CASE UNCHANGED work
    BY <2>1, StaysTyped
  <2>2. ASSUME NEW s \in Session, work[f] = Nobody, work' = [work EXCEPT ![f] = s]
        PROVE  <1>2!1 /\ <1>2!2
    BY <1>1, <2>2, Takes
  <2>3. p \in Session /\ Ghost \in Session
    BY DEF Session
  <2> QED BY <2>1, <2>2, <2>3 DEF Run
<1>3. OnlyEntry(p) /\ RunnerOK(p)' /\ failures' \in Nat
  <2>1. CASE ReturnErr(p)
    BY <1>1, <2>1, ReturnsErr
  <2>2. CASE /\ Goto(p, "record") /\ UNCHANGED failures
             /\ work[f] = Nobody /\ work' = [work EXCEPT ![f] = p]
    <3>1. "record" \in PC /\ p \in Session
      BY DEF PC, Session
    <3>2. work'[f] = p
      BY <1>1, <2>2, <3>1, Takes
    <3> QED BY <1>1, <2>2, <3>1, <3>2, Goes, StaysTyped DEF RunnerOK
  <2> QED BY <2>1, <2>2 DEF Run
<1>4. lock' \in Session
  BY LosesLock, StaysTyped DEF Run
<1>5. Moves(p)
  BY <1>2, <1>3, <1>4, Counts, StaysTyped DEF Run, Moves, OnlyEntry
<1> QED BY <1>3, <1>5, QuietMove DEF Run

LEMMA RecordStep ==
  ASSUME Inv, NEW p \in Processes, NEW o \in Reply, Record(p, o)
  PROVE  Inv'
<1> DEFINE f == runner[p].file
<1>1. /\ f \in Files /\ ~ runner[p].err /\ work[f] = p /\ RunnerOK(p)
      /\ UNCHANGED recorded
  BY DEF Record, Inv, MigrationInv, RunnerOK
<1>2. /\ work' \in [Files -> Session]
      /\ \A q \in Processes \ {p} : \A g \in Files : work[g] = q => work'[g] = q
  <2>1. CASE UNCHANGED work
    BY <2>1, StaysTyped
  <2>2. CASE work' = [work EXCEPT ![f] = Nobody]
    <3>1. Nobody \in Session
      BY DEF Session
    <3> QED BY <1>1, <2>2, <3>1, Takes
  <2>3. CASE LoseWork(p)
    BY <2>3, LosesWork
  <2> QED BY <2>1, <2>2, <2>3 DEF Record
<1>3. OnlyEntry(p) /\ RunnerOK(p)' /\ failures' \in Nat
  <2>1. CASE ReturnErr(p)
    BY <1>1, <2>1, ReturnsErr
  <2>2. CASE Goto(p, "commit") /\ f \notin recorded /\ UNCHANGED <<work, failures>>
    <3>1. "commit" \in PC
      BY DEF PC
    <3> QED BY <1>1, <2>2, <3>1, Goes, StaysTyped DEF RunnerOK
  <2> QED BY <2>1, <2>2 DEF Record
<1>4. lock' \in Session
  BY LosesLock, StaysTyped DEF Record
<1>5. Moves(p)
  BY <1>2, <1>3, <1>4, Counts, StaysTyped DEF Record, Moves, OnlyEntry
<1> QED BY <1>3, <1>5, QuietMove DEF Record

LEMMA CommitStep ==
  ASSUME Inv, NEW p \in Processes, NEW o \in Reply, Commit(p, o)
  PROVE  Inv'
<1> DEFINE f == runner[p].file
<1>1. /\ f \in Files /\ ~ runner[p].err /\ work[f] = p /\ RunnerOK(p)
      /\ runner[p].pc = "commit"
  BY DEF Commit, Inv, MigrationInv, RunnerOK
<1>2. Nobody \in Session
  BY DEF Session
<1>3. lock' \in Session
  BY LosesLock, StaysTyped DEF Commit
<1>4. CASE Committed(p)
  <2>1. recorded \subseteq recorded' /\ f \in recorded'
    BY <1>4 DEF Committed
  <2>2. OnlyEntry(p) /\ RunnerOK(p)' /\ failures' \in Nat
    <3>1. CASE ReturnErr(p)
      BY <2>1, <3>1, ReturnsErr
    <3>2. CASE NextFile(p) /\ UNCHANGED failures
      BY <1>1, <2>1, <3>2, GoesNext, StaysTyped
    <3> QED BY <1>4, <3>1, <3>2 DEF Commit
  <2>3. /\ work' \in [Files -> Session]
        /\ \A q \in Processes \ {p} : \A g \in Files : work[g] = q => work'[g] = q
    BY <1>1, <1>2, <1>4, Takes DEF Committed
  <2>4. Moves(p)
    BY <1>3, <2>2, <2>3, Counts, StaysTyped DEF Commit, Moves, OnlyEntry
  <2> QED BY <1>1, <1>4, <2>2, <2>4, CommittingMove
<1>5. CASE ~ Committed(p)
  <2>1. ReturnErr(p) /\ UNCHANGED <<applied, recorded>>
    BY <1>5 DEF Commit
  <2>2. OnlyEntry(p) /\ RunnerOK(p)' /\ failures' \in Nat
    BY <2>1, ReturnsErr
  <2>3. /\ work' \in [Files -> Session]
        /\ \A q \in Processes \ {p} : \A g \in Files : work[g] = q => work'[g] = q
    <3>1. CASE LoseWork(p)
      BY <3>1, LosesWork
    <3>2. CASE work' = [work EXCEPT ![f] = Nobody]
      BY <1>1, <1>2, <3>2, Takes
    <3> QED BY <1>5, <3>1, <3>2 DEF Commit
  <2>4. Moves(p)
    BY <1>3, <2>2, <2>3, Counts, StaysTyped DEF Commit, Moves, OnlyEntry
  <2> QED BY <2>1, <2>2, <2>4, QuietMove
<1> QED BY <1>4, <1>5

LEMMA UnlockStep ==
  ASSUME Inv, NEW p \in Processes, NEW o \in Reply, Unlock(p, o)
  PROVE  Inv'
<1>1. RunnerOK(p) /\ runner[p].pc = "unlock" /\ UNCHANGED recorded
  BY DEF Unlock, Inv, MigrationInv
<1>2. OnlyEntry(p) /\ RunnerOK(p)' /\ failures' \in Nat
  <2>1. CASE Exit(p)
    BY <2>1, Exits
  <2>2. CASE Goto(p, "up") /\ UNCHANGED failures /\ ~ runner[p].err
    <3>1. "up" \in PC
      BY DEF PC
    <3> QED BY <1>1, <2>2, <3>1, Goes, StaysTyped DEF RunnerOK
  <2> QED BY <2>1, <2>2 DEF Unlock, Return
<1>3. lock' \in Session
  BY DEF Unlock, LoseLock, Own, Session, Inv, MigrationInv, MigrationTypeOK
<1>4. Moves(p)
  BY <1>2, <1>3, Counts, StaysTyped DEF Unlock, Moves, OnlyEntry
<1> QED BY <1>2, <1>4, QuietMove DEF Unlock

-----------------------------------------------------------------------------
(* The environment.                                                         *)

LEMMA DieStep ==
  ASSUME Inv, NEW p \in Processes, Die(p)
  PROVE  Inv'
<1>1. /\ runner' = [runner EXCEPT ![p] = Down] /\ runner'[p] = Down
      /\ Down \in Runner
  BY MigrationAssumption, SMT DEF Die, Down, Runner, PC, Inv, MigrationInv, MigrationTypeOK
<1>2. RunnerOK(p)'
  BY <1>1, SMT DEF Down, RunnerOK, Files
<1>3. breaks' \in Nat /\ deaths' \in Nat /\ breaks' + deaths' <= MaxInterruptions
  BY MigrationAssumption, SMT DEF Die, Inv, MigrationInv, MigrationTypeOK
<1>4. Moves(p)
  BY <1>1, <1>3, LosesLock, LosesWork, StaysTyped DEF Die, Moves
<1> QED BY <1>2, <1>4, QuietMove DEF Die

LEMMA BreakStep ==
  ASSUME Inv, NEW p \in Processes, Break(p)
  PROVE  Inv'
<1>1. /\ runner' = [runner EXCEPT ![p] = runner'[p]] /\ runner'[p] = runner[p]
      /\ runner[p] \in Runner /\ RunnerOK(p)
  BY DEF Break, Inv, MigrationInv, MigrationTypeOK
<1>2. RunnerOK(p)'
  BY <1>1 DEF RunnerOK, Break
<1>3. breaks' \in Nat /\ deaths' \in Nat /\ breaks' + deaths' <= MaxInterruptions
  BY MigrationAssumption, SMT DEF Break, Inv, MigrationInv, MigrationTypeOK
<1>4. Moves(p)
  BY <1>1, <1>3, LosesLock, StaysTyped DEF Break, Moves
<1> QED BY <1>2, <1>4, QuietMove DEF Break

LEMMA GhostStep ==
  ASSUME Inv, GhostEnds
  PROVE  Inv'
<1>1. /\ lock' \in Session /\ work' \in [Files -> Session]
      /\ \A q \in Processes : \A f \in Files : work[f] = q => work'[f] = q
  BY MigrationAssumption DEF GhostEnds, Session, Inv, MigrationInv, MigrationTypeOK
<1>2. UNCHANGED <<runner, table, applied, recorded, faults, breaks, deaths, failures>>
  BY DEF GhostEnds
<1>3. MigrationTypeOK'
  BY <1>1, <1>2 DEF Inv, MigrationInv, MigrationTypeOK
<1>4. ASSUME NEW q \in Processes PROVE RunnerOK(q)'
  BY <1>1, <1>2 DEF RunnerOK, Inv, MigrationInv
<1>5. AppliedOnceInOrder'
  BY <1>2 DEF AppliedOnceInOrder, Inv
<1> QED BY <1>3, <1>4, <1>5 DEF Inv, MigrationInv

LEMMA NextInv == Inv /\ [MigrationNext]_runnerVars => Inv'
<1> SUFFICES ASSUME Inv, [MigrationNext]_runnerVars PROVE Inv'
  OBVIOUS
<1>1. ASSUME NEW p \in Processes, NEW o \in Reply, Step(p, o) PROVE Inv'
  BY <1>1, EnsureStep, CreateStep, LockStep, CheckStep, RunStep, RecordStep,
     CommitStep, UnlockStep DEF Step
<1>2. ASSUME NEW p \in Processes, Launch(p) \/ Break(p) \/ Die(p) PROVE Inv'
  BY <1>2, LaunchStep, BreakStep, DieStep
<1>3. CASE UNCHANGED runnerVars
  BY <1>3 DEF runnerVars, Inv, MigrationInv, MigrationTypeOK, RunnerOK, AppliedOnceInOrder
<1> QED BY <1>1, <1>2, <1>3, GhostStep DEF MigrationNext

-----------------------------------------------------------------------------
(* Theorems.                                                                *)

\* In every behaviour a process is where the database says it is: the type
\* invariant and RunnerOK of RunMigrations hold throughout.
THEOREM MigrationInvariant == MigrationSpec => [](MigrationInv /\ AppliedOnceInOrder)
<1>1. Inv = (MigrationInv /\ AppliedOnceInOrder)
  BY DEF Inv
<1> QED BY <1>1, InitInv, NextInv, PTL DEF MigrationSpec, Inv

\* schema_migrations tells exactly which files have been run and committed, each
\* once and in the order of their names, however many processes run the loop,
\* with the lock or after having lost it.
THEOREM MigratedOnceInOrder == MigrationSpec => []AppliedOnceInOrder
BY MigrationInvariant, PTL

\* A process that returns from RunMigrations without an error finds every file
\* applied.
THEOREM UpMeansMigrated == MigrationSpec => []UpIsMigrated
<1>1. Inv => UpIsMigrated
  <2> SUFFICES ASSUME Inv, NEW p \in Processes, runner[p].pc = "up"
               PROVE  recorded = Files
    BY DEF UpIsMigrated
  <2>1. runner[p].file = Last + 1 /\ \A g \in Files : g < runner[p].file => g \in recorded
    BY DEF Inv, MigrationInv, RunnerOK
  <2>2. \A g \in Files : g < Last + 1
    BY MigrationAssumption, SMT DEF Files
  <2>3. recorded \subseteq Files
    BY DEF Inv, MigrationInv, MigrationTypeOK
  <2> QED BY <2>1, <2>2, <2>3
<1> QED BY <1>1, InitInv, NextInv, PTL DEF MigrationSpec
-----------------------------------------------------------------------------
(* Why a process fails.                                                     *)

\* The processes that are going to fail although nothing fails them: those that
\* return an error, those at a file that another has committed since they looked,
\* and those that create the table that another has created since they looked.
Doomed(p) ==
  \/ runner[p].pc = "unlock" /\ runner[p].err
  \/ runner[p].pc \in {"run", "record"} /\ runner[p].file \in recorded
  \/ runner[p].pc = "create" /\ table
Owing == {p \in Processes : Doomed(p)}

\* The processes that are in the loop without the lock.
InLoop(p) == runner[p].pc \in {"check", "run", "record", "commit"}
Lockless == {p \in Processes : InLoop(p) /\ lock # p}

\* Those that may meet the table that another has created: all but that one.
Late == IF table THEN Cardinality(Processes) - 1 ELSE 0

\* What failures may be due to: a fault each, for each recorded file the processes
\* that had lost the lock, and being late to create the table.
Bound(fa, n, b, late) == fa + n * b + late

\* The failures that have happened and those that are owed are accounted for, and
\* a process is in the loop without the lock only if its connection broke.
FailInv ==
  /\ Cardinality(Lockless) <= breaks
  /\ failures + Cardinality(Owing)
       <= Bound(faults, Cardinality(recorded), breaks, Late)

LEMMA SetOfProcesses ==
  ASSUME IsFiniteSet(Processes), NEW S, S \subseteq Processes
  PROVE  IsFiniteSet(S) /\ Cardinality(S) \in Nat
BY FS_Subset, FS_CardinalityType

LEMMA RecordedFinite ==
  ASSUME Inv
  PROVE  /\ IsFiniteSet(recorded) /\ Cardinality(recorded) \in Nat
         /\ Cardinality(recorded) <= Last
<1>1. recorded \subseteq 1 .. Last /\ Last \in Nat /\ 1 \in Int /\ Last \in Int
  BY MigrationAssumption DEF Inv, MigrationInv, MigrationTypeOK, Files
<1>2. IsFiniteSet(1 .. Last) /\ Cardinality(1 .. Last) = Last
  BY <1>1, FS_Interval, MigrationAssumption, SMT
<1>3. IsFiniteSet(recorded) /\ Cardinality(recorded) <= Cardinality(1 .. Last)
  BY <1>1, <1>2, FS_Subset
<1> QED BY <1>2, <1>3, FS_CardinalityType

\* How the bound grows.
LEMMA BoundGrows ==
  ASSUME NEW fa \in Nat, NEW n \in Nat, NEW b \in Nat, NEW late \in Nat
  PROVE  /\ Bound(fa, n, b, late) \in Nat
         /\ Bound(fa + 1, n, b, late) = Bound(fa, n, b, late) + 1
         /\ Bound(fa, n + 1, b, late) = Bound(fa, n, b, late) + b
         /\ Bound(fa, n, b + 1, late) \in Nat
         /\ Bound(fa, n, b + 1, late) >= Bound(fa, n, b, late)
         /\ Bound(fa, n, b, late) = Bound(fa, n, b, 0) + late
<1>1. /\ n * b \in Nat /\ (n + 1) * b = n * b + b /\ n * (b + 1) >= n * b
      /\ n * (b + 1) \in Nat
  OBVIOUS
<1>2. /\ Bound(fa, n, b, late) = fa + n * b + late
      /\ Bound(fa + 1, n, b, late) = (fa + 1) + n * b + late
      /\ Bound(fa, n + 1, b, late) = fa + (n + 1) * b + late
      /\ Bound(fa, n, b + 1, late) = fa + n * (b + 1) + late
      /\ Bound(fa, n, b, 0) = fa + n * b + 0
  BY DEF Bound
<1> QED BY <1>1, <1>2

\* There is a process, so that the number of the others is a number.
LEMMA OthersCounted ==
  ASSUME IsFiniteSet(Processes), Processes # {}
  PROVE  Cardinality(Processes) - 1 \in Nat /\ Late \in Nat
<1>1. Cardinality(Processes) \in Nat /\ Cardinality(Processes) # 0
  BY FS_CardinalityType, FS_EmptySet
<1>2. Cardinality(Processes) - 1 \in Nat
  BY <1>1
<1> QED BY <1>2 DEF Late

\* The types of what is counted.
LEMMA Counted ==
  ASSUME Inv, IsFiniteSet(Processes)
  PROVE  /\ faults \in Nat /\ breaks \in Nat /\ failures \in Nat /\ table \in BOOLEAN
         /\ Cardinality(Owing) \in Nat /\ Cardinality(Lockless) \in Nat
<1>1. Owing \subseteq Processes /\ Lockless \subseteq Processes
  BY DEF Owing, Lockless
<1>2. faults \in 0 .. MaxFaults /\ breaks \in Nat /\ failures \in Nat /\ table \in BOOLEAN
  BY DEF Inv, MigrationInv, MigrationTypeOK
<1> QED BY <1>1, <1>2, SetOfProcesses

LEMMA OneMoreOwes ==
  ASSUME IsFiniteSet(Processes), NEW S \in SUBSET Processes, NEW T \in SUBSET Processes,
         NEW p \in Processes
  PROVE  /\ T \subseteq S => Cardinality(T) <= Cardinality(S)
         /\ T \subseteq S \cup {p} => Cardinality(T) <= Cardinality(S) + 1
         /\ p \in S /\ T \subseteq S \ {p} => Cardinality(T) + 1 <= Cardinality(S)
<1>1. /\ IsFiniteSet(S) /\ Cardinality(S) \in Nat
      /\ IsFiniteSet(T) /\ Cardinality(T) \in Nat
  BY SetOfProcesses
<1>2. T \subseteq S => Cardinality(T) <= Cardinality(S)
  BY <1>1, FS_Subset
<1>3. ASSUME T \subseteq S \cup {p} PROVE Cardinality(T) <= Cardinality(S) + 1
  <2>1. IsFiniteSet(S \cup {p}) /\ Cardinality(T) <= Cardinality(S \cup {p})
    BY <1>1, <1>3, FS_AddElement, FS_Subset
  <2>2. Cardinality(S \cup {p}) = Cardinality(S) \/ Cardinality(S \cup {p}) = Cardinality(S) + 1
    BY <1>1, FS_AddElement
  <2> QED BY <1>1, <2>1, <2>2
<1>4. ASSUME p \in S, T \subseteq S \ {p} PROVE Cardinality(T) + 1 <= Cardinality(S)
  <2>1. IsFiniteSet(S \ {p}) /\ Cardinality(S \ {p}) = Cardinality(S) - 1
    BY <1>1, <1>4, FS_RemoveElement
  <2>2. Cardinality(T) <= Cardinality(S \ {p})
    BY <1>4, <2>1, FS_Subset
  <2> QED BY <1>1, <2>1, <2>2
<1> QED BY <1>2, <1>3, <1>4

\* BoundGrows at the present state.
LEMMA BoundNow ==
  ASSUME Inv, IsFiniteSet(Processes), Processes # {}, NEW late \in Nat
  PROVE  LET fa == faults
             n == Cardinality(recorded)
             b == breaks
         IN  /\ Bound(fa, n, b, late) \in Nat
             /\ Bound(fa + 1, n, b, late) = Bound(fa, n, b, late) + 1
             /\ Bound(fa, n + 1, b, late) = Bound(fa, n, b, late) + b
             /\ Bound(fa + 1, n + 1, b, late) = Bound(fa, n, b, late) + b + 1
             /\ Bound(fa, n, b + 1, late) \in Nat
             /\ Bound(fa, n, b + 1, late) >= Bound(fa, n, b, late)
             /\ Bound(fa, n, b, late) = Bound(fa, n, b, 0) + late
             /\ Bound(fa, n, b, 0) \in Nat
<1>1. PICK fa \in Nat, n \in Nat, b \in Nat :
        fa = faults /\ n = Cardinality(recorded) /\ b = breaks
  BY Counted, RecordedFinite
<1>2. n + 1 \in Nat
  OBVIOUS
<1>3. Bound(fa + 1, n + 1, b, late) = Bound(fa, n + 1, b, late) + 1
  BY <1>2, BoundGrows
<1>4. /\ Bound(fa, n, b, late) \in Nat
      /\ Bound(fa + 1, n, b, late) = Bound(fa, n, b, late) + 1
      /\ Bound(fa, n + 1, b, late) = Bound(fa, n, b, late) + b
      /\ Bound(fa, n, b + 1, late) \in Nat
      /\ Bound(fa, n, b + 1, late) >= Bound(fa, n, b, late)
      /\ Bound(fa, n, b, late) = Bound(fa, n, b, 0) + late
  BY BoundGrows
<1>5. Bound(fa, n, b, 0) \in Nat
  BY BoundGrows
<1> QED BY <1>1, <1>3, <1>4, <1>5

\* No process gets into the loop without the lock.
Orderly(p) ==
  /\ \A q \in Processes \ {p} : lock = q => lock' = q
  /\ InLoop(p)' /\ lock' # p => InLoop(p) /\ lock # p

LEMMA OrderlyMove ==
  ASSUME Inv, FailInv, IsFiniteSet(Processes), NEW p \in Processes,
         OnlyEntry(p), Orderly(p), UNCHANGED breaks
  PROVE  (Cardinality(Lockless) <= breaks)'
<1>1. \A q \in Processes \ {p} : runner'[q] = runner[q]
  BY DEF OnlyEntry, Inv, MigrationInv, MigrationTypeOK
<1>2. Lockless' \subseteq Lockless
  BY <1>1 DEF Lockless, Orderly, InLoop
<1>3. Cardinality(Lockless') <= Cardinality(Lockless)
  BY <1>2, OneMoreOwes DEF Lockless
<1>4. Cardinality(Lockless') \in Nat
  BY SetOfProcesses DEF Lockless
<1>5. Cardinality(Lockless') <= breaks
  BY <1>3, <1>4, Counted DEF FailInv
<1> QED BY <1>5

\* Who fails, or is going to, is paid for: by a fault, or by having been owed.
Pays(p) ==
  \/ /\ faults' = faults + 1
     /\ \/ failures' = failures
        \/ failures' = failures + 1 /\ ~ Doomed(p)'
  \/ /\ faults' = faults /\ failures' = failures /\ (Doomed(p)' => Doomed(p))
  \/ /\ faults' = faults /\ failures' = failures + 1 /\ Doomed(p) /\ ~ Doomed(p)'

\* A step that commits no file and creates no table keeps the account.
LEMMA PaidMove ==
  ASSUME Inv, FailInv, IsFiniteSet(Processes), Processes # {}, NEW p \in Processes,
         OnlyEntry(p), Orderly(p), Pays(p), UNCHANGED <<table, recorded, breaks>>
  PROVE  FailInv'
<1>1. \A q \in Processes \ {p} : Doomed(q)' <=> Doomed(q)
  BY DEF OnlyEntry, Inv, MigrationInv, MigrationTypeOK, Doomed
<1> DEFINE S == Cardinality(Owing)
           T == Cardinality(Owing')
           B == Bound(faults, Cardinality(recorded), breaks, Late)
<1>2. /\ Owing' \subseteq Owing \cup {p}
      /\ (Doomed(p)' => Doomed(p)) => Owing' \subseteq Owing
      /\ ~ Doomed(p)' => Owing' \subseteq Owing \ {p}
      /\ Doomed(p) => p \in Owing
  BY <1>1 DEF Owing
<1>3. Owing \in SUBSET Processes /\ Owing' \in SUBSET Processes
  BY DEF Owing
<1>4. S \in Nat /\ T \in Nat /\ faults \in Nat /\ failures \in Nat
  BY <1>3, Counted, SetOfProcesses
<1>5. /\ T <= S + 1
      /\ (Doomed(p)' => Doomed(p)) => T <= S
      /\ ~ Doomed(p)' => T <= S
      /\ Doomed(p) /\ ~ Doomed(p)' => T + 1 <= S
  BY <1>2, <1>3, OneMoreOwes
<1>6. B \in Nat /\ Bound(faults + 1, Cardinality(recorded), breaks, Late) = B + 1
  BY OthersCounted, BoundNow
<1>7. failures + S <= B
  BY DEF FailInv
<1> HIDE DEF S, T, B
<1>8. CASE faults' = faults + 1
  <2>1. Bound(faults', Cardinality(recorded'), breaks', Late') = B + 1
    BY <1>6, <1>8 DEF Late
  <2>2. failures' + T <= B + 1
    <3>1. CASE failures' = failures
      BY <1>4, <1>5, <1>6, <1>7, <3>1
    <3>2. CASE failures' = failures + 1 /\ ~ Doomed(p)'
      <4>1. T <= S
        BY <1>5, <3>2
      <4> QED BY <1>4, <1>6, <1>7, <3>2, <4>1
    <3> QED BY <1>4, <1>8, <3>1, <3>2 DEF Pays
  <2> QED BY <2>1, <2>2, OrderlyMove DEF FailInv, T
<1>9. CASE faults' = faults
  <2>1. Bound(faults', Cardinality(recorded'), breaks', Late') = B
    BY <1>9 DEF B, Late
  <2>2. failures' + T <= B
    <3>1. CASE failures' = failures /\ (Doomed(p)' => Doomed(p))
      <4>1. T <= S
        BY <1>5, <3>1
      <4> QED BY <1>4, <1>6, <1>7, <3>1, <4>1
    <3>2. CASE failures' = failures + 1 /\ Doomed(p) /\ ~ Doomed(p)'
      <4>1. T + 1 <= S
        BY <1>5, <3>2
      <4> QED BY <1>4, <1>6, <1>7, <3>2, <4>1
    <3> QED BY <1>4, <1>9, <3>1, <3>2 DEF Pays
  <2> QED BY <2>1, <2>2, OrderlyMove DEF FailInv, T
<1> QED BY <1>8, <1>9 DEF Pays

\* A call that fails is a fault; one that succeeds is none.
LEMMA CallPays ==
  ASSUME Inv, NEW o \in Reply, Call(o)
  PROVE  /\ o # "ok" => faults' = faults + 1
         /\ o = "ok" => faults' = faults
BY DEF Call

\* Where an entry is after a part of a step.
LEMMA ExitMoves ==
  ASSUME Inv, NEW p \in Processes, Exit(p)
  PROVE  /\ OnlyEntry(p) /\ failures' = failures + 1
         /\ ~ Doomed(p)' /\ ~ InLoop(p)'
<1>1. runner'[p] = Down
  BY DEF Exit, Inv, MigrationInv, MigrationTypeOK
<1>2. runner'[p].pc = "down"
  BY <1>1 DEF Down
<1> QED BY <1>2, Exits DEF Exit, Doomed, InLoop

LEMMA ReturnMoves ==
  ASSUME Inv, NEW p \in Processes, ReturnErr(p), recorded \subseteq recorded'
  PROVE  OnlyEntry(p) /\ failures' = failures /\ ~ InLoop(p)'
<1>1. runner[p] \in Runner
  BY DEF Inv, MigrationInv, MigrationTypeOK
<1>2. runner'[p] = [runner[p] EXCEPT !.pc = "unlock", !.err = TRUE]
  BY DEF ReturnErr, Inv, MigrationInv, MigrationTypeOK
<1>3. runner'[p].pc = "unlock"
  BY <1>1, <1>2 DEF Runner
<1> QED BY <1>3, ReturnsErr DEF ReturnErr, InLoop

LEMMA NextMoves ==
  ASSUME Inv, NEW p \in Processes, NextFile(p), ~ runner[p].err
  PROVE  ~ Doomed(p)' /\ (InLoop(p)' => runner'[p].pc = "check")
<1>1. runner[p] \in Runner
  BY DEF Inv, MigrationInv, MigrationTypeOK
<1> DEFINE pc == IF runner[p].file = Last THEN "unlock" ELSE "check"
<1>2. runner'[p] = [runner[p] EXCEPT !.file = runner[p].file + 1, !.pc = pc]
  BY DEF NextFile, Inv, MigrationInv, MigrationTypeOK
<1>3. pc \in {"unlock", "check"}
  OBVIOUS
<1> HIDE DEF pc
<1>4. runner'[p].pc = pc /\ runner'[p].err = runner[p].err
  BY <1>1, <1>2 DEF Runner
<1> QED BY <1>3, <1>4 DEF Doomed, InLoop

LEMMA LosesOwn ==
  ASSUME Inv, NEW p \in Processes, LoseLock(p)
  PROVE  \A q \in Processes \ {p} : lock = q => lock' = q
BY DEF LoseLock, Own

-----------------------------------------------------------------------------
(* One lemma for each call.                                                 *)

LEMMA LaunchPays ==
  ASSUME Inv, FailInv, IsFiniteSet(Processes), Processes # {},
         NEW p \in Processes, Launch(p)
  PROVE  FailInv'
<1>1. OnlyEntry(p) /\ runner'[p].pc = "ensure"
  BY Goes DEF Launch, PC
<1>2. Pays(p) /\ Orderly(p)
  BY <1>1 DEF Launch, Pays, Orderly, Doomed, InLoop
<1> QED BY <1>1, <1>2, PaidMove DEF Launch

LEMMA EnsurePays ==
  ASSUME Inv, FailInv, IsFiniteSet(Processes), Processes # {},
         NEW p \in Processes, NEW o \in Reply, Ensure(p, o)
  PROVE  FailInv'
<1>1. CASE o # "ok"
  BY <1>1, ExitMoves, CallPays, PaidMove DEF Ensure, Pays, Orderly
<1>2. CASE o = "ok"
  <2>1. PICK next \in {"lock", "create"} :
          Goto(p, next) /\ (next = "create" => ~ table) /\ UNCHANGED failures
    BY <1>2 DEF Ensure
  <2>2. OnlyEntry(p) /\ runner'[p].pc = next
    BY <2>1, Goes DEF PC
  <2>3. Pays(p) /\ Orderly(p)
    BY <1>2, <2>1, <2>2, CallPays DEF Ensure, Pays, Orderly, Doomed, InLoop
  <2> QED BY <2>2, <2>3, PaidMove DEF Ensure
<1> QED BY <1>1, <1>2

\* The process that creates the table dooms at most all the others.
LEMMA CreatePays ==
  ASSUME Inv, FailInv, IsFiniteSet(Processes), Processes # {},
         NEW p \in Processes, NEW o \in Reply, Create(p, o)
  PROVE  FailInv'
<1>1. Orderly(p) /\ ~ Doomed(p)' /\ OnlyEntry(p)
  <2>1. CASE Exit(p)
    BY <2>1, ExitMoves DEF Create, Orderly
  <2>2. CASE Goto(p, "lock")
    <3>1. OnlyEntry(p) /\ runner'[p].pc = "lock"
      BY <2>2, Goes DEF PC
    <3> QED BY <3>1 DEF Create, Orderly, Doomed, InLoop
  <2> QED BY <2>1, <2>2 DEF Create
<1>2. CASE UNCHANGED table
  <2>1. Pays(p)
    <3>1. CASE o # "ok"
      BY <1>1, <3>1, ExitMoves, CallPays DEF Create, Pays
    <3>2. CASE o = "ok" /\ table /\ Exit(p)
      <4>1. Doomed(p)
        BY <3>2 DEF Create, Doomed
      <4> QED BY <1>1, <3>2, <4>1, ExitMoves, CallPays DEF Create, Pays
    <3> QED BY <1>2, <3>1, <3>2 DEF Create
  <2> QED BY <1>1, <1>2, <2>1, PaidMove DEF Create
<1>3. CASE ~ UNCHANGED table
  <2>1. table = FALSE /\ table' = TRUE
    BY <1>3 DEF Create, Inv, MigrationInv, MigrationTypeOK
  <2>2. \/ faults' = faults /\ failures' = failures
        \/ faults' = faults + 1 /\ failures' = failures + 1
    BY <1>3, ExitMoves, CallPays DEF Create
  <2> DEFINE c == Cardinality(Processes) - 1
             S == Cardinality(Owing)
             T == Cardinality(Owing')
             B == Bound(faults, Cardinality(recorded), breaks, 0)
  <2>3. T <= c /\ T \in Nat /\ c \in Nat
    <3>1. Owing' \subseteq Processes \ {p}
      BY <1>1 DEF Owing
    <3>2. T + 1 <= Cardinality(Processes) /\ T \in Nat
      BY <3>1, OneMoreOwes, SetOfProcesses
    <3>3. Cardinality(Processes) \in Nat
      BY FS_CardinalityType
    <3> QED BY <3>2, <3>3
  <2>4. /\ B \in Nat
        /\ Bound(faults, Cardinality(recorded), breaks, c) = B + c
        /\ Bound(faults + 1, Cardinality(recorded), breaks, c) = B + c + 1
    <3>1. /\ B \in Nat
          /\ Bound(faults, Cardinality(recorded), breaks, c) = B + c
          /\ Bound(faults + 1, Cardinality(recorded), breaks, c) =
               Bound(faults, Cardinality(recorded), breaks, c) + 1
      BY OthersCounted, BoundNow
    <3> HIDE DEF B, c
    <3> QED BY <3>1
  <2>5. failures + S <= B /\ failures \in Nat /\ S \in Nat
    BY <2>1, Counted DEF FailInv, Late
  <2>6. UNCHANGED <<recorded, breaks>>
    BY DEF Create
  <2> HIDE DEF c, S, T, B
  <2>7. Late' = c /\ Late = 0
    BY <2>1 DEF Late, c
  <2>8. /\ faults' = faults =>
             Bound(faults', Cardinality(recorded'), breaks', Late') = B + c
        /\ faults' = faults + 1 =>
             Bound(faults', Cardinality(recorded'), breaks', Late') = B + c + 1
    BY <2>4, <2>6, <2>7
  <2>9. failures' + T <= Bound(faults', Cardinality(recorded'), breaks', Late')
    <3>1. CASE faults' = faults /\ failures' = failures
      BY <2>3, <2>4, <2>5, <2>8, <3>1
    <3>2. CASE faults' = faults + 1 /\ failures' = failures + 1
      BY <2>3, <2>4, <2>5, <2>8, <3>2
    <3> QED BY <2>2, <3>1, <3>2
  <2> QED BY <1>1, <2>6, <2>9, OrderlyMove DEF FailInv, T
<1> QED BY <1>2, <1>3

LEMMA LockPays ==
  ASSUME Inv, FailInv, IsFiniteSet(Processes), Processes # {},
         NEW p \in Processes, NEW o \in Reply, Lock(p, o)
  PROVE  FailInv'
<1>1. \A q \in Processes : q # Nobody
  BY MigrationAssumption
<1>2. CASE o # "ok"
  BY <1>1, <1>2, ExitMoves, CallPays, PaidMove DEF Lock, Pays, Orderly
<1>3. CASE o = "ok"
  <2>1. Goto(p, "check") /\ lock = Nobody /\ lock' = p /\ UNCHANGED failures
    BY <1>3 DEF Lock
  <2>2. OnlyEntry(p) /\ runner'[p].pc = "check"
    BY <2>1, Goes DEF PC
  <2>3. Pays(p) /\ Orderly(p)
    BY <1>1, <1>3, <2>1, <2>2, CallPays DEF Lock, Pays, Orderly, Doomed, InLoop
  <2> QED BY <2>2, <2>3, PaidMove DEF Lock
<1> QED BY <1>2, <1>3

LEMMA CheckPays ==
  ASSUME Inv, FailInv, IsFiniteSet(Processes), Processes # {},
         NEW p \in Processes, NEW o \in Reply, Check(p, o)
  PROVE  FailInv'
<1>1. /\ runner[p].file \in Files /\ ~ runner[p].err
      /\ UNCHANGED <<recorded, table, breaks>> /\ InLoop(p)
  BY DEF Check, Inv, MigrationInv, RunnerOK, InLoop
<1>2. CASE o # "ok"
  <2>1. ReturnErr(p) /\ (UNCHANGED lock \/ LoseLock(p))
    BY <1>2 DEF Check
  <2>2. OnlyEntry(p) /\ failures' = failures /\ ~ InLoop(p)'
    BY <1>1, <2>1, ReturnMoves
  <2>3. Orderly(p)
    BY <2>1, <2>2, LosesOwn DEF Orderly
  <2> QED BY <1>1, <1>2, <2>2, <2>3, CallPays, PaidMove DEF Check, Pays
<1>3. CASE o = "ok"
  <2>1. OnlyEntry(p) /\ ~ Doomed(p)'
    <3>1. CASE NextFile(p) /\ runner[p].file \in recorded
      BY <1>1, <3>1, NextMoves, GoesNext
    <3>2. CASE Goto(p, "run") /\ runner[p].file \notin recorded
      <4>1. OnlyEntry(p) /\ runner'[p].pc = "run" /\ runner'[p].file = runner[p].file
        BY <3>2, Goes DEF PC
      <4> QED BY <1>1, <3>2, <4>1 DEF Doomed
    <3> QED BY <1>3, <3>1, <3>2 DEF Check
  <2>2. UNCHANGED <<lock, failures>> /\ faults' = faults
    BY <1>3, CallPays DEF Check
  <2>3. Orderly(p) /\ Pays(p)
    BY <1>1, <2>1, <2>2 DEF Orderly, Pays
  <2> QED BY <1>1, <2>1, <2>3, PaidMove
<1> QED BY <1>2, <1>3

\* A file that has been run and committed has its row.
LEMMA AppliedRecorded ==
  ASSUME Inv, NEW f \in Files, applied[f] > 0
  PROVE  f \in recorded
BY DEF Inv, AppliedOnceInOrder

LEMMA RunPays ==
  ASSUME Inv, FailInv, IsFiniteSet(Processes), Processes # {},
         NEW p \in Processes, NEW o \in Reply, Run(p, o)
  PROVE  FailInv'
<1>1. /\ runner[p].file \in Files /\ ~ runner[p].err /\ runner[p].pc = "run"
      /\ UNCHANGED <<recorded, table, breaks>> /\ InLoop(p)
  BY DEF Run, Inv, MigrationInv, RunnerOK, InLoop
<1>2. CASE o # "ok"
  <2>1. ReturnErr(p) /\ (UNCHANGED lock \/ LoseLock(p))
    BY <1>2 DEF Run
  <2>2. OnlyEntry(p) /\ failures' = failures /\ ~ InLoop(p)'
    BY <1>1, <2>1, ReturnMoves
  <2>3. Orderly(p)
    BY <2>1, <2>2, LosesOwn DEF Orderly
  <2> QED BY <1>1, <1>2, <2>2, <2>3, CallPays, PaidMove DEF Run, Pays
<1>3. CASE o = "ok"
  <2>1. OnlyEntry(p) /\ failures' = failures /\ (Doomed(p)' => Doomed(p))
    <3>1. CASE ReturnErr(p) /\ applied[runner[p].file] > 0
      <4>1. Doomed(p)
        BY <1>1, <3>1, AppliedRecorded DEF Doomed
      <4> QED BY <1>1, <3>1, <4>1, ReturnMoves
    <3>2. CASE Goto(p, "record") /\ UNCHANGED failures
      <4>1. OnlyEntry(p) /\ runner'[p].pc = "record" /\ runner'[p].file = runner[p].file
        BY <3>2, Goes DEF PC
      <4> QED BY <1>1, <3>2, <4>1 DEF Doomed
    <3> QED BY <1>3, <3>1, <3>2 DEF Run
  <2>2. UNCHANGED lock /\ faults' = faults
    BY <1>3, CallPays DEF Run
  <2>3. Orderly(p) /\ Pays(p)
    BY <1>1, <2>1, <2>2 DEF Orderly, Pays
  <2> QED BY <1>1, <2>1, <2>3, PaidMove
<1> QED BY <1>2, <1>3

LEMMA RecordPays ==
  ASSUME Inv, FailInv, IsFiniteSet(Processes), Processes # {},
         NEW p \in Processes, NEW o \in Reply, Record(p, o)
  PROVE  FailInv'
<1>1. /\ runner[p].file \in Files /\ ~ runner[p].err /\ runner[p].pc = "record"
      /\ UNCHANGED <<recorded, table, breaks>> /\ InLoop(p)
  BY DEF Record, Inv, MigrationInv, RunnerOK, InLoop
<1>2. CASE o # "ok"
  <2>1. ReturnErr(p) /\ (UNCHANGED lock \/ LoseLock(p))
    BY <1>2 DEF Record
  <2>2. OnlyEntry(p) /\ failures' = failures /\ ~ InLoop(p)'
    BY <1>1, <2>1, ReturnMoves
  <2>3. Orderly(p)
    BY <2>1, <2>2, LosesOwn DEF Orderly
  <2> QED BY <1>1, <1>2, <2>2, <2>3, CallPays, PaidMove DEF Record, Pays
<1>3. CASE o = "ok"
  <2>1. OnlyEntry(p) /\ failures' = failures /\ (Doomed(p)' => Doomed(p))
    <3>1. CASE ReturnErr(p) /\ runner[p].file \in recorded
      <4>1. Doomed(p)
        BY <1>1, <3>1 DEF Doomed
      <4> QED BY <1>1, <3>1, <4>1, ReturnMoves
    <3>2. CASE Goto(p, "commit") /\ UNCHANGED failures
      <4>1. OnlyEntry(p) /\ runner'[p].pc = "commit"
        BY <3>2, Goes DEF PC
      <4> QED BY <1>1, <3>2, <4>1 DEF Doomed
    <3> QED BY <1>3, <3>1, <3>2 DEF Record
  <2>2. UNCHANGED lock /\ faults' = faults
    BY <1>3, CallPays DEF Record
  <2>3. Orderly(p) /\ Pays(p)
    BY <1>1, <2>1, <2>2 DEF Orderly, Pays
  <2> QED BY <1>1, <2>1, <2>3, PaidMove
<1> QED BY <1>2, <1>3

\* The processes that the commit of p dooms.
Overtaken(p) ==
  {q \in Processes \ {p} :
     runner[q].pc \in {"run", "record"} /\ runner[q].file = runner[p].file}

\* At most one of those in the loop has the lock, so that as many as a commit
\* dooms are in the loop without it.
LEMMA DoomedByCommit ==
  ASSUME Inv, FailInv, IsFiniteSet(Processes), NEW p \in Processes,
         runner[p].pc = "commit"
  PROVE  /\ IsFiniteSet(Overtaken(p)) /\ Cardinality(Overtaken(p)) \in Nat
         /\ Cardinality(Overtaken(p)) <= breaks
<1> DEFINE X == Overtaken(p)
<1>1. /\ \A q \in X : q \in Processes /\ q # p /\ InLoop(q)
      /\ InLoop(p) /\ p \notin X
  BY DEF Overtaken, InLoop
<1>2. /\ IsFiniteSet(X) /\ Cardinality(X) \in Nat
      /\ IsFiniteSet(Lockless) /\ Cardinality(Lockless) \in Nat
  <2>1. X \subseteq Processes /\ Lockless \subseteq Processes
    BY DEF Overtaken, Lockless
  <2> QED BY <2>1, SetOfProcesses
<1> HIDE DEF X
<1>3. Cardinality(X) <= Cardinality(Lockless)
  <2>1. CASE lock \in X
    <3>1. (X \ {lock}) \cup {p} \subseteq Lockless
      BY <1>1, <2>1 DEF Lockless
    <3>2. /\ IsFiniteSet(X \ {lock})
          /\ Cardinality(X \ {lock}) = Cardinality(X) - 1
      BY <1>2, <2>1, FS_RemoveElement
    <3>3. p \notin X \ {lock}
      BY <1>1
    <3>4. /\ IsFiniteSet((X \ {lock}) \cup {p})
          /\ Cardinality((X \ {lock}) \cup {p}) = Cardinality(X \ {lock}) + 1
      BY <3>2, <3>3, FS_AddElement
    <3>5. Cardinality((X \ {lock}) \cup {p}) <= Cardinality(Lockless)
      BY <1>2, <3>1, FS_Subset
    <3> QED BY <1>2, <3>2, <3>4, <3>5
  <2>2. CASE lock \notin X
    <3>1. X \subseteq Lockless
      BY <1>1, <2>2 DEF Lockless
    <3> QED BY <1>2, <3>1, FS_Subset
  <2> QED BY <2>1, <2>2
<1>4. Cardinality(X) <= breaks
  BY <1>2, <1>3, Counted DEF FailInv
<1> QED BY <1>2, <1>4 DEF X

LEMMA CommitPays ==
  ASSUME Inv, FailInv, IsFiniteSet(Processes), Processes # {},
         NEW p \in Processes, NEW o \in Reply, Commit(p, o)
  PROVE  FailInv'
<1> DEFINE f == runner[p].file
<1>1. /\ f \in Files /\ ~ runner[p].err /\ runner[p].pc = "commit"
      /\ f \notin recorded /\ UNCHANGED <<table, breaks>> /\ InLoop(p)
  BY DEF Commit, Inv, MigrationInv, RunnerOK, InLoop
<1>2. CASE ~ Committed(p)
  <2>1. /\ ReturnErr(p) /\ UNCHANGED recorded /\ o # "ok"
        /\ UNCHANGED lock \/ LoseLock(p)
    BY <1>2 DEF Commit
  <2>2. OnlyEntry(p) /\ failures' = failures /\ ~ InLoop(p)'
    BY <1>1, <2>1, ReturnMoves
  <2>3. Orderly(p)
    BY <2>1, <2>2, LosesOwn DEF Orderly
  <2> QED BY <1>1, <2>1, <2>2, <2>3, CallPays, PaidMove DEF Commit, Pays
<1>3. CASE Committed(p)
  <2>1. recorded' = recorded \cup {f}
    BY <1>3 DEF Committed
  <2>2. /\ OnlyEntry(p) /\ Orderly(p) /\ failures' = failures
        /\ \/ faults' = faults + 1
           \/ faults' = faults /\ ~ Doomed(p)'
    <3>1. CASE ReturnErr(p) /\ o # "ok" /\ (UNCHANGED lock \/ LoseLock(p))
      <4>1. OnlyEntry(p) /\ failures' = failures /\ ~ InLoop(p)'
        BY <2>1, <3>1, ReturnMoves
      <4>2. Orderly(p)
        BY <3>1, <4>1, LosesOwn DEF Orderly
      <4> QED BY <3>1, <4>1, <4>2, CallPays DEF Commit
    <3>2. CASE NextFile(p) /\ o = "ok" /\ UNCHANGED <<lock, failures>>
      <4>1. OnlyEntry(p)
        BY <1>1, <2>1, <3>2, GoesNext
      <4>2. ~ Doomed(p)'
        BY <1>1, <3>2, NextMoves
      <4>3. Orderly(p)
        BY <1>1, <3>2 DEF Orderly
      <4> QED BY <3>2, <4>1, <4>2, <4>3, CallPays DEF Commit
    <3> QED BY <1>3, <3>1, <3>2 DEF Commit
  <2> DEFINE X == Overtaken(p)
             S == Cardinality(Owing)
             U == Cardinality(Owing \cup X)
             T == Cardinality(Owing')
             n == Cardinality(recorded)
             B == Bound(faults, n, breaks, Late)
  <2>3. /\ Owing' \subseteq (Owing \cup X) \cup {p}
        /\ ~ Doomed(p)' => Owing' \subseteq Owing \cup X
    <3>1. ASSUME NEW q \in Processes \ {p}, Doomed(q)'
          PROVE  Doomed(q) \/ q \in X
      <4>1. runner'[q] = runner[q]
        BY <2>2 DEF OnlyEntry, Inv, MigrationInv, MigrationTypeOK
      <4> QED BY <1>1, <2>1, <3>1, <4>1 DEF Doomed, Overtaken
    <3> QED BY <3>1 DEF Owing
  <2>4. Owing \in SUBSET Processes /\ X \in SUBSET Processes /\ Owing' \in SUBSET Processes
    BY DEF Owing, Overtaken
  <2>5. S \in Nat /\ U \in Nat /\ T \in Nat /\ U <= S + breaks /\ breaks \in Nat
    <3>1. IsFiniteSet(Owing) /\ IsFiniteSet(X) /\ Cardinality(X) \in Nat
      BY <2>4, SetOfProcesses
    <3>2. /\ U = S + Cardinality(X) - Cardinality(Owing \cap X)
      BY <3>1, FS_Union
    <3>3. Cardinality(Owing \cap X) \in Nat
      BY <2>4, SetOfProcesses
    <3>4. S \in Nat /\ U \in Nat /\ T \in Nat
      BY <2>4, SetOfProcesses
    <3>5. Cardinality(X) <= breaks /\ breaks \in Nat
      BY <1>1, DoomedByCommit, Counted
    <3> HIDE DEF S, U, T, X
    <3> QED BY <3>1, <3>2, <3>3, <3>4, <3>5
  <2>6. T <= U + 1 /\ (~ Doomed(p)' => T <= U)
    BY <2>3, <2>4, OneMoreOwes
  <2>7. Cardinality(recorded') = n + 1 /\ n \in Nat
    BY <1>1, <2>1, RecordedFinite, FS_AddElement
  <2>8. /\ B \in Nat
        /\ Bound(faults, n + 1, breaks, Late) = B + breaks
        /\ Bound(faults + 1, n + 1, breaks, Late) = B + breaks + 1
    <3>1. /\ B \in Nat
          /\ Bound(faults, n + 1, breaks, Late) = B + breaks
          /\ Bound(faults + 1, n + 1, breaks, Late) =
               Bound(faults, n + 1, breaks, Late) + 1
      BY OthersCounted, BoundNow
    <3> HIDE DEF B, n
    <3> QED BY <3>1
  <2>9. failures + S <= B /\ failures \in Nat
    BY Counted DEF FailInv
  <2>10. Late' = Late
    BY <1>1 DEF Late
  <2> HIDE DEF S, T, U, n, B
  <2>11. /\ faults' = faults =>
              Bound(faults', Cardinality(recorded'), breaks', Late') = B + breaks
         /\ faults' = faults + 1 =>
              Bound(faults', Cardinality(recorded'), breaks', Late') = B + breaks + 1
    BY <1>1, <2>7, <2>8, <2>10
  <2>12. failures' + T <= Bound(faults', Cardinality(recorded'), breaks', Late')
    <3>1. CASE faults' = faults + 1
      BY <2>2, <2>5, <2>6, <2>8, <2>9, <2>11, <3>1
    <3>2. CASE faults' = faults /\ ~ Doomed(p)'
      <4>1. T <= U
        BY <2>6, <3>2
      <4> QED BY <2>2, <2>5, <2>8, <2>9, <2>11, <3>2, <4>1
    <3> QED BY <2>2, <3>1, <3>2
  <2> QED BY <1>1, <2>2, <2>12, OrderlyMove DEF FailInv, T
<1> QED BY <1>2, <1>3

LEMMA UnlockPays ==
  ASSUME Inv, FailInv, IsFiniteSet(Processes), Processes # {},
         NEW p \in Processes, NEW o \in Reply, Unlock(p, o)
  PROVE  FailInv'
<1>1. UNCHANGED <<table, recorded, breaks>> /\ runner[p].pc = "unlock"
  BY DEF Unlock
<1>2. /\ OnlyEntry(p) /\ ~ InLoop(p)' /\ ~ Doomed(p)'
      /\ \/ Doomed(p) /\ failures' = failures + 1
         \/ failures' = failures
  <2>1. CASE Exit(p) /\ runner[p].err
    BY <1>1, <2>1, ExitMoves DEF Doomed
  <2>2. CASE Goto(p, "up") /\ UNCHANGED failures
    <3>1. OnlyEntry(p) /\ runner'[p].pc = "up"
      BY <2>2, Goes DEF PC
    <3> QED BY <2>2, <3>1 DEF InLoop, Doomed
  <2> QED BY <2>1, <2>2 DEF Unlock, Return
<1>3. Orderly(p)
  BY <1>2 DEF Orderly, Unlock, LoseLock, Own
<1>4. faults' = faults \/ faults' = faults + 1
  BY CallPays DEF Unlock
<1>5. Pays(p)
  BY <1>2, <1>4 DEF Pays
<1> QED BY <1>1, <1>2, <1>3, <1>5, PaidMove

LEMMA DiePays ==
  ASSUME Inv, FailInv, IsFiniteSet(Processes), Processes # {},
         NEW p \in Processes, Die(p)
  PROVE  FailInv'
<1>1. OnlyEntry(p) /\ runner'[p].pc = "down"
  <2>1. Down \in Runner /\ Down.pc = "down"
    BY MigrationAssumption, SMT DEF Down, Runner, PC
  <2>2. runner'[p] = Down
    BY DEF Die, Inv, MigrationInv, MigrationTypeOK
  <2> QED BY <2>1, <2>2 DEF Die, OnlyEntry
<1>2. Orderly(p) /\ Pays(p)
  BY <1>1, LosesOwn DEF Die, Orderly, Pays, Doomed, InLoop
<1> QED BY <1>1, <1>2, PaidMove DEF Die

\* Only a broken connection puts a process in the loop without the lock.
LEMMA BreakPays ==
  ASSUME Inv, FailInv, IsFiniteSet(Processes), Processes # {},
         NEW p \in Processes, Break(p)
  PROVE  FailInv'
<1>1. UNCHANGED <<runner, table, recorded, faults, failures>> /\ breaks' = breaks + 1
  BY DEF Break
<1>2. Owing' = Owing
  BY <1>1 DEF Owing, Doomed
<1>3. Lockless' \subseteq Lockless \cup {p}
  BY <1>1, LosesOwn DEF Lockless, InLoop, Break
<1>4. Cardinality(Lockless') <= Cardinality(Lockless) + 1 /\ Cardinality(Lockless') \in Nat
  BY <1>3, OneMoreOwes, SetOfProcesses DEF Lockless
<1>5. Cardinality(Lockless') <= breaks'
  BY <1>1, <1>4, Counted DEF FailInv
<1>6. /\ Bound(faults, Cardinality(recorded), breaks + 1, Late)
           >= Bound(faults, Cardinality(recorded), breaks, Late)
      /\ Bound(faults, Cardinality(recorded), breaks, Late) \in Nat
      /\ Bound(faults, Cardinality(recorded), breaks + 1, Late) \in Nat
  BY OthersCounted, BoundNow
<1>7. failures + Cardinality(Owing)
        <= Bound(faults, Cardinality(recorded), breaks + 1, Late)
  BY <1>6, Counted DEF FailInv
<1>8. Late' = Late
  BY <1>1 DEF Late
<1>9. failures' + Cardinality(Owing')
        <= Bound(faults', Cardinality(recorded'), breaks', Late')
  BY <1>1, <1>2, <1>7, <1>8
<1> QED BY <1>5, <1>9 DEF FailInv

LEMMA GhostPays ==
  ASSUME Inv, FailInv, IsFiniteSet(Processes), GhostEnds
  PROVE  FailInv'
<1>1. Owing' = Owing
  BY DEF GhostEnds, Owing, Doomed
<1>2. Lockless' = Lockless
  BY MigrationAssumption DEF GhostEnds, Lockless, InLoop
<1>3. UNCHANGED <<failures, faults, breaks, recorded>> /\ Late' = Late
  BY DEF GhostEnds, Late
<1> QED BY <1>1, <1>2, <1>3 DEF FailInv

LEMMA NextFails ==
  ASSUME IsFiniteSet(Processes), Processes # {}
  PROVE  Inv /\ FailInv /\ [MigrationNext]_runnerVars => FailInv'
<1> SUFFICES ASSUME Inv, FailInv, [MigrationNext]_runnerVars PROVE FailInv'
  OBVIOUS
<1>1. ASSUME NEW p \in Processes, NEW o \in Reply, Step(p, o) PROVE FailInv'
  BY <1>1, EnsurePays, CreatePays, LockPays, CheckPays, RunPays, RecordPays,
     CommitPays, UnlockPays DEF Step
<1>2. ASSUME NEW p \in Processes, Launch(p) \/ Break(p) \/ Die(p) PROVE FailInv'
  BY <1>2, LaunchPays, BreakPays, DiePays
<1>3. CASE UNCHANGED runnerVars
  <2>1. Owing' = Owing /\ Lockless' = Lockless /\ Late' = Late
    BY <1>3 DEF runnerVars, Owing, Doomed, Lockless, InLoop, Late
  <2> QED BY <1>3, <2>1 DEF runnerVars, FailInv
<1> QED BY <1>1, <1>2, <1>3, GhostPays DEF MigrationNext

LEMMA InitFails ==
  ASSUME IsFiniteSet(Processes), Processes # {}
  PROVE  MigrationInit => FailInv
<1> SUFFICES ASSUME MigrationInit PROVE FailInv
  OBVIOUS
<1>1. \A p \in Processes : runner[p].pc = "down"
  BY DEF MigrationInit, Down
<1>2. Owing = {} /\ Lockless = {}
  BY <1>1 DEF Owing, Doomed, Lockless, InLoop
<1>3. /\ recorded = {} /\ Cardinality({}) = 0 /\ table = FALSE
      /\ faults = 0 /\ breaks = 0 /\ failures = 0
  BY FS_EmptySet DEF MigrationInit
<1>4. Late = 0 /\ Bound(0, 0, 0, 0) \in Nat
  BY <1>3, BoundGrows DEF Late
<1>5. Cardinality(Owing) = 0 /\ Cardinality(Lockless) = 0 /\ Cardinality(recorded) = 0
  BY <1>2, <1>3
<1>6. Bound(faults, Cardinality(recorded), breaks, Late) \in Nat
  BY <1>3, <1>4, <1>5
<1> HIDE DEF Bound
<1> QED BY <1>3, <1>5, <1>6 DEF FailInv

-----------------------------------------------------------------------------
(* Theorem.                                                                 *)

\* With any number of processes on any number of files, a process of RunMigrations
\* exits with an error only after a failed call of its own, because another
\* created schema_migrations at the same time (all but one of them, once), or
\* because of a connection that had broken with the lock (once for each file).
THEOREM FailuresAlwaysExplained ==
  ASSUME IsFiniteSet(Processes), Processes # {}
  PROVE  MigrationSpec => []FailuresExplained
<1>1. Inv /\ FailInv => FailuresExplained
  <2> SUFFICES ASSUME Inv, FailInv PROVE FailuresExplained
    OBVIOUS
  <2> DEFINE n == Cardinality(recorded)
             c == Cardinality(Processes) - 1
             e == IF table THEN c ELSE 0
             s == Cardinality(Owing)
  <2>1. n \in Nat /\ n <= Last /\ Last \in Nat
    BY RecordedFinite, MigrationAssumption
  <2>2. /\ faults \in Nat /\ breaks \in Nat /\ failures \in Nat /\ s \in Nat
        /\ table \in BOOLEAN
    BY Counted
  <2>3. c \in Nat
    BY OthersCounted
  <2>4. e \in Nat /\ e <= c
    BY <2>3
  <2>5. failures + s <= faults + n * breaks + e
    BY DEF FailInv, Bound, Late
  <2> HIDE DEF n, c, e, s
  <2>6. \A k, l, b \in Nat : k <= l => k * b <= l * b /\ k * b \in Nat /\ l * b \in Nat
    OBVIOUS
  <2>7. n * breaks <= Last * breaks /\ n * breaks \in Nat /\ Last * breaks \in Nat
    BY <2>1, <2>2, <2>6
  <2>8. failures <= faults + Last * breaks + c
    BY <2>2, <2>3, <2>4, <2>5, <2>7
  <2>9. Cardinality(Processes) \in Nat
    BY FS_CardinalityType
  <2>10. failures <= faults + Last * breaks + (Cardinality(Processes) - 1)
    BY <2>8 DEF c
  <2> QED BY <2>2, <2>7, <2>9, <2>10 DEF FailuresExplained
<1> QED BY <1>1, InitInv, NextInv, InitFails, NextFails, PTL DEF MigrationSpec
=============================================================================
