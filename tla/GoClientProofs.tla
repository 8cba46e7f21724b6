---------------------------- MODULE GoClientProofs ----------------------------
(***************************************************************************)
(* Theorems about the Go SDK's WebSocketClient, for any limit of attempts, *)
(* any capacity of recvCh and any number of connections.                   *)
(***************************************************************************)
EXTENDS GoWebSocketClient, FiniteSetTheorems, TLAPS

-----------------------------------------------------------------------------
(***************************************************************************)
(* The inductive invariant.  AttemptsBounded is not inductive: a loop that *)
(* canReconnect has let through still has its attempt to count, and what   *)
(* retries++ has read may be more than what retries is when it writes.     *)
(***************************************************************************)

LoopPC == {"none", "top", "load", "read", "deliver", "check", "count", "add",
           "dial", "install", "reset", "zero", "ended"}

GoTypeOK ==
  /\ net \in [Conns -> {"none", "open", "failed", "closed"}]
  /\ conn \in Conns \cup {Nil}
  /\ shouldReconnect \in BOOLEAN /\ done \in BOOLEAN /\ gone \in BOOLEAN
  /\ retries \in Nat /\ seen \in Nat
  /\ recv \in 0 .. Buffer
  /\ loop \in [Conns -> [pc : LoopPC, on : Conns \cup {Nil}]]
  /\ app \in {"idle", "connected", "done", "conn", "closed"}

\* The read loops that canReconnect has let through, and that have not counted.
Pending == {i \in Conns : loop[i].pc \in {"count", "add"}}

Limit == MaxRetries + Cardinality(Loops) - 1

PendingBounded ==
  /\ Loops # {} => retries + Cardinality(Pending) <= Limit
  /\ Locked => seen + Cardinality(Pending) <= Limit

\* One loop at a time holds c.mu.
OneAdder ==
  \A i, j \in Conns : loop[i].pc = "add" /\ loop[j].pc = "add" => i = j

\* Nothing runs before Connect; whoever reads, or installs a connection, has one.
Connected ==
  /\ app = "idle" => Loops = {}
  /\ Loops # {} => conn \in Conns /\ net[conn] # "none"
  /\ \A i \in Conns : loop[i].pc \in {"read", "install", "reset", "zero"} =>
       loop[i].on \in Conns /\ net[loop[i].on] # "none"

\* Close has not been called: no loop is told to end.
NotClosed ==
  /\ app \in {"idle", "connected"} => ~ done
  /\ app = "connected" => shouldReconnect

GoInv ==
  /\ GoTypeOK
  /\ PendingBounded
  /\ OneAdder
  /\ Connected
  /\ NotClosed
  /\ KeepsTrying

-----------------------------------------------------------------------------
(* Sets of loops, and what a step of one loop does to them.                 *)

Entry == [pc : LoopPC, on : Conns \cup {Nil}]

LEMMA GotoEntry ==
  /\ {"count", "add", "dial", "ended"} \subseteq LoopPC
  /\ \A pc \in LoopPC : /\ [pc |-> pc, on |-> Nil] \in Entry
                        /\ [pc |-> pc, on |-> Nil].pc = pc
BY DEF Entry, LoopPC

LEMMA Domains == MaxConns \in Nat /\ MaxRetries \in Nat /\ MaxRetries > 0
                 /\ Buffer \in Nat /\ Nil \notin Conns /\ 1 \in Conns
BY GoClientAssumption DEF Conns, Nil

LEMMA ConnsFinite == ASSUME NEW S \in SUBSET Conns
                     PROVE  IsFiniteSet(S) /\ Cardinality(S) \in Nat
<1>1. IsFiniteSet(Conns)
  BY Domains, FS_Interval DEF Conns
<1>2. QED
  BY <1>1, FS_Subset, FS_CardinalityType

LEMMA SmallerSet == ASSUME NEW T \in SUBSET Conns, NEW S \in SUBSET T
                    PROVE  Cardinality(S) <= Cardinality(T)
BY ConnsFinite, FS_Subset

\* A loop that runs goes on, ends, or waits somewhere else.
LEMMA OneMoves ==
  ASSUME GoTypeOK, NEW i \in Conns, i \in Loops, NEW r \in Entry, r.pc # "none",
         loop' = [loop EXCEPT ![i] = r]
  PROVE  /\ Loops' = Loops
         /\ r.pc \notin {"count", "add"} => Pending' = Pending \ {i}
         /\ r.pc # "add" /\ Locked' => Locked
BY DEF GoTypeOK, Entry, Loops, Pending, Locked

\* The bound holds after a step that counts nothing and lets nobody through.
LEMMA BoundKept ==
  ASSUME GoTypeOK, PendingBounded, GoTypeOK', Loops' = Loops,
         Pending' \subseteq Pending, retries' = retries,
         Locked' => Locked /\ seen' = seen
  PROVE  PendingBounded'
<1>1. Pending \subseteq Conns /\ Pending' \subseteq Conns
  BY DEF Pending
<1>2. Cardinality(Pending') <= Cardinality(Pending)
  BY <1>1, SmallerSet
<1>3. Cardinality(Pending') \in Nat /\ Cardinality(Pending) \in Nat
      /\ Cardinality(Loops) \in Nat
  BY <1>1, ConnsFinite DEF Loops
<1>4. Limit' = Limit /\ Limit \in Int
  BY <1>3, Domains DEF Limit
<1>5. retries + Cardinality(Pending') <= retries + Cardinality(Pending)
      /\ seen + Cardinality(Pending') <= seen + Cardinality(Pending)
  BY <1>2, <1>3 DEF GoTypeOK
<1>6. QED
  BY <1>2, <1>3, <1>4, <1>5, Domains DEF PendingBounded, GoTypeOK

-----------------------------------------------------------------------------
(* Types.                                                                   *)

LEMMA GoTypeStep == ASSUME GoTypeOK, Connected, GoNext PROVE GoTypeOK'
<1> USE DEF GoTypeOK
<1>1. CASE Connect
  BY <1>1, Domains DEF Connect, Dial, Install, Reset, Zero, Goto, LoopPC
<1>2. CASE CloseFlag \/ CloseDone
  BY <1>2 DEF CloseFlag, CloseDone
<1>3. CASE CloseConn
  BY <1>3 DEF CloseConn
<1>4. CASE OnMessage
  BY <1>4, Domains DEF OnMessage
<1>5. CASE ServerGone \/ \E k \in Conns : Fail(k)
  BY <1>5 DEF ServerGone, Fail
<1>6. ASSUME NEW i \in Conns, Top(i) \/ Load(i) PROVE GoTypeOK'
  BY <1>6 DEF Top, Load, Goto, LoopPC
<1>7. ASSUME NEW i \in Conns, ReadFrame(i) \/ ReadError(i) PROVE GoTypeOK'
  BY <1>7 DEF ReadFrame, ReadError, Goto, LoopPC
<1>8. ASSUME NEW i \in Conns, Deliver(i) PROVE GoTypeOK'
  BY <1>8, Domains DEF Deliver, Goto, LoopPC
<1>9. ASSUME NEW i \in Conns, Check(i) \/ Count(i) \/ Add(i) \/ DialFails(i)
      PROVE  GoTypeOK'
  BY <1>9 DEF Check, Count, Add, DialFails, Goto, LoopPC
<1>10. ASSUME NEW i \in Conns, NEW k \in Conns, DialWorks(i, k) PROVE GoTypeOK'
  BY <1>10 DEF DialWorks, Dial, LoopPC
<1>11. ASSUME NEW i \in Conns, LoopInstall(i) PROVE GoTypeOK'
  BY <1>11 DEF LoopInstall, Install, LoopPC
<1>12. ASSUME NEW i \in Conns, LoopReset(i) PROVE GoTypeOK'
  BY <1>12 DEF LoopReset, Reset, LoopPC
<1>13. ASSUME NEW i \in Conns, LoopZero(i) PROVE GoTypeOK'
  <2>1. [pc |-> "top", on |-> Nil] \in [pc : LoopPC, on : Conns \cup {Nil}]
    BY DEF LoopPC
  <2>2. loop' \in [Conns -> [pc : LoopPC, on : Conns \cup {Nil}]]
    BY <1>13, <2>1 DEF LoopZero
  <2>3. QED
    BY <1>13, <2>2 DEF LoopZero, Zero
<1>14. QED
  BY <1>1, <1>2, <1>3, <1>4, <1>5, <1>6, <1>7, <1>8, <1>9, <1>10, <1>11, <1>12, <1>13
     DEF GoNext, LoopStep

-----------------------------------------------------------------------------
(* The limit of attempts.                                                   *)

\* Every step of a loop that leaves the count alone, but canReconnect.
LEMMA OthersKeepBound ==
  ASSUME GoTypeOK, PendingBounded, GoTypeOK', NEW i \in Conns,
         \/ Top(i) \/ Load(i) \/ ReadFrame(i) \/ ReadError(i) \/ Deliver(i)
         \/ DialFails(i) \/ (\E k \in Conns : DialWorks(i, k))
         \/ LoopInstall(i) \/ LoopReset(i)
  PROVE  PendingBounded'
<1> USE DEF Top, Load, ReadFrame, ReadError, Deliver, DialFails, DialWorks, LoopInstall,
            LoopReset
<1>1. i \in Loops
  BY DEF Loops
<1>2. PICK r \in Entry : /\ r.pc \notin {"none", "count", "add"}
                         /\ loop' = [loop EXCEPT ![i] = r]
  BY DEF Goto, Entry, LoopPC, GoTypeOK
<1>3. retries' = retries /\ seen' = seen
  OBVIOUS
<1>4. Loops' = Loops /\ Pending' = Pending \ {i} /\ (Locked' => Locked)
  BY <1>1, <1>2, OneMoves
<1>5. QED
  BY <1>3, <1>4, BoundKept

LEMMA CheckKeepsBound ==
  ASSUME GoTypeOK, PendingBounded, GoTypeOK', NEW i \in Conns, Check(i)
  PROVE  PendingBounded'
<1>1. /\ i \in Loops /\ retries' = retries /\ retries \in Nat
      /\ ~ Locked /\ seen' = seen
  BY DEF Check, Loops, GoTypeOK
<1>2. CASE shouldReconnect /\ retries < MaxRetries
  <2>1. loop' = [loop EXCEPT ![i] = [pc |-> "count", on |-> Nil]]
    BY <1>2 DEF Check, Goto
  <2>2. Loops' = Loops /\ Pending' \subseteq Conns /\ ~ Locked'
    BY <1>1, <2>1, GotoEntry, OneMoves DEF Pending
  <2>3. Pending' \subseteq Loops'
    BY DEF Pending, Loops
  <2>4. Cardinality(Pending') <= Cardinality(Loops')
    BY <2>3, SmallerSet DEF Loops
  <2>5. Cardinality(Pending') \in Nat /\ Cardinality(Loops') \in Nat
    BY <2>2, ConnsFinite DEF Loops
  <2>6. QED
    BY <1>1, <1>2, <2>2, <2>4, <2>5, Domains DEF PendingBounded, Limit
<1>3. CASE ~ (shouldReconnect /\ retries < MaxRetries)
  <2>1. loop' = [loop EXCEPT ![i] = [pc |-> "ended", on |-> Nil]]
    BY <1>3 DEF Check, Goto
  <2>2. Loops' = Loops /\ Pending' = Pending \ {i} /\ (Locked' => Locked)
    BY <1>1, <2>1, GotoEntry, OneMoves
  <2>3. QED
    BY <1>1, <2>2, BoundKept
<1>4. QED
  BY <1>2, <1>3

\* The read of retries++: what was read is what retries is.
LEMMA CountKeepsBound ==
  ASSUME GoTypeOK, PendingBounded, NEW i \in Conns, Count(i)
  PROVE  PendingBounded'
<1>1. i \in Loops /\ i \in Pending /\ retries' = retries /\ seen' = retries
  BY DEF Count, Loops, Pending
<1>2. loop' = [loop EXCEPT ![i] = [pc |-> "add", on |-> Nil]]
  BY DEF Count, Goto
<1>3. Loops' = Loops
  BY <1>1, <1>2, GotoEntry, OneMoves
<1>4. Pending' = Pending
  BY <1>1, <1>2 DEF Pending, GoTypeOK
<1>5. retries + Cardinality(Pending) <= Limit
  BY <1>1 DEF PendingBounded
<1>6. QED
  BY <1>1, <1>3, <1>4, <1>5 DEF PendingBounded, Limit

\* The write of retries++, which lets the mutex go.
LEMMA AddKeepsBound ==
  ASSUME GoTypeOK, PendingBounded, OneAdder, NEW i \in Conns, Add(i)
  PROVE  PendingBounded'
<1>1. i \in Loops /\ i \in Pending /\ retries' = seen + 1 /\ seen \in Nat /\ Locked
  BY DEF Add, Loops, Pending, GoTypeOK, Locked
<1>2. loop' = [loop EXCEPT ![i] = [pc |-> "dial", on |-> Nil]]
  BY DEF Add, Goto
<1>3. Loops' = Loops /\ Pending' = Pending \ {i}
  BY <1>1, <1>2, GotoEntry, OneMoves
<1>4. ~ Locked'
  BY <1>2 DEF Add, OneAdder, Locked, GoTypeOK
<1>5. IsFiniteSet(Pending) /\ Cardinality(Pending) \in Nat /\ Cardinality(Loops) \in Nat
  BY ConnsFinite DEF Pending, Loops
<1>6. Cardinality(Pending') = Cardinality(Pending) - 1
  BY <1>1, <1>3, <1>5, FS_RemoveElement
<1>7. Limit' = Limit /\ Limit \in Int
  BY <1>3, <1>5, Domains DEF Limit
<1>8. QED
  BY <1>1, <1>3, <1>4, <1>5, <1>6, <1>7 DEF PendingBounded

\* A loop that has nothing to count leaves room for every other one's attempt.
LEMMA RoomForOthers ==
  ASSUME NEW i \in Conns, i \in Loops' \ Pending'
  PROVE  (Cardinality(Pending) <= Limit /\ Cardinality(Pending) \in Nat /\ Limit \in Int)'
<1>1. Pending' \subseteq Loops' \ {i} /\ Loops' \subseteq Conns /\ i \in Loops'
  BY DEF Pending, Loops
<1>2. IsFiniteSet(Loops') /\ Cardinality(Loops') \in Nat /\ Cardinality(Pending') \in Nat
  BY <1>1, ConnsFinite
<1>3. Cardinality(Loops' \ {i}) = Cardinality(Loops') - 1
  BY <1>1, <1>2, FS_RemoveElement
<1>4. Cardinality(Pending') <= Cardinality(Loops' \ {i})
  BY <1>1, SmallerSet
<1>5. QED
  BY <1>2, <1>3, <1>4, Domains DEF Limit

\* The application's Connect is the first thing that happens.
LEMMA ConnectKeepsBound ==
  ASSUME GoTypeOK, Connected, Connect
  PROVE  PendingBounded'
<1>1. 1 \in Conns /\ loop' = [loop EXCEPT ![1] = [pc |-> "top", on |-> Nil]]
      /\ Loops = {} /\ retries' = 0
  BY Domains DEF Connect, Goto, Zero, Connected
<1>2. 1 \in Loops' \ Pending' /\ ~ Locked'
  BY <1>1 DEF Loops, Pending, Locked, GoTypeOK
<1>3. (Cardinality(Pending) <= Limit /\ Cardinality(Pending) \in Nat)'
  BY <1>1, <1>2, RoomForOthers
<1>4. QED
  BY <1>1, <1>2, <1>3 DEF PendingBounded

\* A connection that is made gives everyone all the attempts again, and the new
\* loops do not lower the limit.
LEMMA ZeroKeepsBound ==
  ASSUME GoTypeOK, PendingBounded, Connected, NEW i \in Conns, LoopZero(i)
  PROVE  PendingBounded'
<1>1. /\ retries' = 0 /\ seen' = seen /\ loop[i].pc = "zero" /\ loop[i].on \in Conns
      /\ loop' = [j \in Conns |-> IF j \in {i, loop[i].on} THEN [pc |-> "top", on |-> Nil]
                                  ELSE loop[j]]
  BY DEF LoopZero, Zero, Connected
<1>2. /\ i \in Loops' \ Pending' /\ Loops \subseteq Loops' /\ Loops' \subseteq Conns
      /\ Pending' \subseteq Pending /\ Pending \subseteq Conns
      /\ Locked' => Locked
  BY <1>1 DEF Loops, Pending, Locked, GoTypeOK
<1>3. (Cardinality(Pending) <= Limit /\ Cardinality(Pending) \in Nat /\ Limit \in Int)'
  BY <1>2, RoomForOthers
<1>4. Cardinality(Loops) <= Cardinality(Loops') /\ Cardinality(Pending') <= Cardinality(Pending)
      /\ Cardinality(Loops) \in Nat /\ Cardinality(Loops') \in Nat
      /\ Cardinality(Pending) \in Nat /\ Cardinality(Pending') \in Nat
  BY <1>2, ConnsFinite, SmallerSet
<1>5. seen \in Nat
  BY DEF GoTypeOK
<1>6. Locked => seen + Cardinality(Pending) <= MaxRetries + Cardinality(Loops) - 1
  BY DEF PendingBounded, Limit
<1>7. Locked' => seen + Cardinality(Pending') <= MaxRetries + Cardinality(Loops') - 1
  BY <1>2, <1>4, <1>5, <1>6, Domains
<1>8. QED
  BY <1>1, <1>3, <1>7 DEF PendingBounded, Limit

LEMMA BoundStep == ASSUME GoTypeOK, PendingBounded, OneAdder, Connected, GoTypeOK', GoNext
                   PROVE  PendingBounded'
<1>1. CASE CloseFlag \/ CloseDone \/ CloseConn \/ OnMessage \/ ServerGone
           \/ \E k \in Conns : Fail(k)
  <2>1. loop' = loop /\ retries' = retries /\ seen' = seen
    BY <1>1 DEF CloseFlag, CloseDone, CloseConn, OnMessage, ServerGone, Fail
  <2>2. QED
    BY <2>1, BoundKept DEF Loops, Pending, Locked
<1>2. QED
  BY <1>1, ConnectKeepsBound, OthersKeepBound, CheckKeepsBound, CountKeepsBound,
     AddKeepsBound, ZeroKeepsBound DEF GoNext, LoopStep

\* The mutex.
LEMMA OneAdderStep == ASSUME GoTypeOK, OneAdder, Connected, GoNext PROVE OneAdder'
<1> USE DEF GoTypeOK, OneAdder
<1>1. CASE CloseFlag \/ CloseDone \/ CloseConn \/ OnMessage \/ ServerGone
           \/ \E k \in Conns : Fail(k)
  BY <1>1 DEF CloseFlag, CloseDone, CloseConn, OnMessage, ServerGone, Fail
<1>2. CASE Connect
  BY <1>2 DEF Connect, Goto
<1>3. ASSUME NEW i \in Conns, Count(i) PROVE OneAdder'
  BY <1>3 DEF Count, Goto, Locked
<1>4. ASSUME NEW i \in Conns, LoopZero(i) PROVE OneAdder'
  BY <1>4 DEF LoopZero
<1>5. ASSUME NEW i \in Conns, ~ Count(i), ~ LoopZero(i), LoopStep(i) \/ ReadFrame(i)
      PROVE  OneAdder'
  <2>1. \A j \in Conns : loop'[j].pc = "add" => loop[j].pc = "add"
    BY <1>5 DEF LoopStep, Top, Load, ReadFrame, ReadError, Deliver, Check, Add,
                DialFails, DialWorks, LoopInstall, LoopReset, Goto
  <2>2. QED
    BY <2>1
<1>6. QED
  BY <1>1, <1>2, <1>3, <1>4, <1>5 DEF GoNext

-----------------------------------------------------------------------------
(* Connections, the flags of Close, and who goes on trying.                 *)

LEMMA ConnectedStep == ASSUME GoTypeOK, Connected, GoNext PROVE Connected'
<1> USE DEF GoTypeOK, Connected, Loops
<1>1. CASE Connect
  BY <1>1, Domains DEF Connect, Dial, Install, Goto
<1>2. CASE CloseFlag \/ CloseDone \/ OnMessage \/ ServerGone
  BY <1>2 DEF CloseFlag, CloseDone, OnMessage, ServerGone
<1>3. CASE CloseConn \/ \E k \in Conns : Fail(k)
  BY <1>3 DEF CloseConn, Fail
<1>4. ASSUME NEW i \in Conns, Top(i) \/ Load(i) PROVE Connected'
  BY <1>4 DEF Top, Load, Goto
<1>5. ASSUME NEW i \in Conns, ReadFrame(i) \/ ReadError(i) \/ Deliver(i) PROVE Connected'
  BY <1>5 DEF ReadFrame, ReadError, Deliver, Goto
<1>6. ASSUME NEW i \in Conns, Check(i) \/ Count(i) \/ Add(i) \/ DialFails(i)
      PROVE  Connected'
  BY <1>6 DEF Check, Count, Add, DialFails, Goto
<1>7. ASSUME NEW i \in Conns, NEW k \in Conns, DialWorks(i, k) PROVE Connected'
  BY <1>7 DEF DialWorks, Dial
<1>8. ASSUME NEW i \in Conns, LoopInstall(i) PROVE Connected'
  BY <1>8 DEF LoopInstall, Install
<1>9. ASSUME NEW i \in Conns, LoopReset(i) \/ LoopZero(i) PROVE Connected'
  BY <1>9 DEF LoopReset, LoopZero
<1>10. QED
  BY <1>1, <1>2, <1>3, <1>4, <1>5, <1>6, <1>7, <1>8, <1>9 DEF GoNext, LoopStep

LEMMA NotClosedStep == ASSUME GoTypeOK, NotClosed, GoNext PROVE NotClosed'
<1> USE DEF NotClosed
<1>1. CASE Connect \/ CloseFlag \/ CloseDone \/ CloseConn
  BY <1>1 DEF Connect, Reset, CloseFlag, CloseDone, CloseConn
<1>2. CASE OnMessage \/ ServerGone \/ \E k \in Conns : Fail(k)
  BY <1>2 DEF OnMessage, ServerGone, Fail
<1>3. ASSUME NEW i \in Conns, LoopReset(i) PROVE NotClosed'
  BY <1>3 DEF LoopReset, Reset
<1>4. ASSUME NEW i \in Conns, ~ LoopReset(i), LoopStep(i) \/ ReadFrame(i) PROVE NotClosed'
  BY <1>4 DEF LoopStep, Top, ReadFrame, ReadError, Deliver, Check, Count, DialFails,
              DialWorks, LoopInstall, Load, Add, LoopZero
<1>5. QED
  BY <1>1, <1>2, <1>3, <1>4 DEF GoNext

\* A client that was not closed is only given up by a loop that finds no attempt
\* left.
LEMMA TryingStep ==
  ASSUME GoTypeOK, Connected, NotClosed, KeepsTrying, GoNext
  PROVE  KeepsTrying'
<1> USE DEF KeepsTrying, Alive, Loops
<1>1. CASE Connect
  BY <1>1, Domains DEF Connect, Goto, GoTypeOK
<1>2. CASE CloseFlag \/ CloseDone \/ CloseConn
  BY <1>2 DEF CloseFlag, CloseDone, CloseConn
<1>3. CASE OnMessage \/ ServerGone \/ \E k \in Conns : Fail(k)
  BY <1>3 DEF OnMessage, ServerGone, Fail
<1>4. ASSUME NEW i \in Conns, LoopReset(i) \/ LoopZero(i) PROVE KeepsTrying'
  BY <1>4 DEF LoopReset, LoopZero, GoTypeOK
<1>5. ASSUME NEW i \in Conns, Check(i) PROVE KeepsTrying'
  BY <1>5 DEF Check, Goto, NotClosed, GoTypeOK
<1>6. ASSUME NEW i \in Conns, Top(i) \/ Load(i) \/ ReadFrame(i) \/ ReadError(i)
      PROVE  KeepsTrying'
  BY <1>6 DEF Top, Load, ReadFrame, ReadError, Goto, NotClosed, GoTypeOK
<1>7. ASSUME NEW i \in Conns, Deliver(i) PROVE KeepsTrying'
  BY <1>7 DEF Deliver, Goto, NotClosed, GoTypeOK
<1>8. ASSUME NEW i \in Conns, Count(i) \/ Add(i) \/ DialFails(i) PROVE KeepsTrying'
  BY <1>8 DEF Count, Add, DialFails, Goto, GoTypeOK
<1>9. ASSUME NEW i \in Conns, LoopInstall(i) \/ \E k \in Conns : DialWorks(i, k)
      PROVE  KeepsTrying'
  BY <1>9 DEF LoopInstall, DialWorks, Dial, GoTypeOK
<1>10. QED
  BY <1>1, <1>2, <1>3, <1>4, <1>5, <1>6, <1>7, <1>8, <1>9 DEF GoNext, LoopStep

-----------------------------------------------------------------------------
(* The theorems.                                                            *)

LEMMA GoInvInit == NewWebSocketClient => GoInv
<1> SUFFICES ASSUME NewWebSocketClient PROVE GoInv
  OBVIOUS
<1>1. GoTypeOK
  <2>1. loop \in [Conns -> [pc : LoopPC, on : Conns \cup {Nil}]]
    BY DEF NewWebSocketClient, LoopPC
  <2>2. net \in [Conns -> {"none", "open", "failed", "closed"}]
    BY DEF NewWebSocketClient
  <2>3. shouldReconnect \in BOOLEAN /\ done \in BOOLEAN /\ gone \in BOOLEAN
        /\ app \in {"idle", "connected", "done", "conn", "closed"}
    BY DEF NewWebSocketClient
  <2>4. conn \in Conns \cup {Nil} /\ retries \in Nat /\ seen \in Nat /\ recv \in 0 .. Buffer
    BY Domains DEF NewWebSocketClient
  <2>5. QED
    BY <2>1, <2>2, <2>3, <2>4 DEF GoTypeOK
<1>2. Loops = {} /\ ~ Locked
  BY DEF NewWebSocketClient, Loops, Locked
<1>3. QED
  BY <1>1, <1>2 DEF NewWebSocketClient, GoInv, PendingBounded, OneAdder, Connected,
                    NotClosed, KeepsTrying, Loops

LEMMA GoInvStep == GoInv /\ [GoNext]_goVars => GoInv'
<1>1. ASSUME GoInv, GoNext PROVE GoInv'
  BY <1>1, GoTypeStep, BoundStep, OneAdderStep, ConnectedStep, NotClosedStep, TryingStep DEF GoInv
<1>2. ASSUME GoInv, UNCHANGED goVars PROVE GoInv'
  BY <1>2 DEF goVars, GoInv, GoTypeOK, PendingBounded, Pending, Limit, Locked, OneAdder,
              Connected, NotClosed, KeepsTrying, Loops, Alive
<1>3. QED
  BY <1>1, <1>2

\* Every state of the client has the types and the relations between its loops,
\* its connections and its flags that the other theorems rest on: no read loop
\* ever reads c.conn while it is nil.
THEOREM GoInvariant == GoSpec => []GoInv
BY GoInvInit, GoInvStep, PTL DEF GoSpec

\* retries exceeds maxRetries by at most one for each read loop but the first,
\* however the loops of the same client interleave canReconnect and retries++.
THEOREM GoAttempts == GoSpec => []AttemptsBounded
<1>1. GoInv => AttemptsBounded
  <2>1. Cardinality(Pending) \in Nat /\ Cardinality(Loops) \in Nat
    BY ConnsFinite DEF Pending, Loops
  <2>2. QED
    BY <2>1, Domains DEF GoInv, GoTypeOK, PendingBounded, Limit, AttemptsBounded
<1>2. QED
  BY <1>1, GoInvariant, PTL

\* While the application has not called Close and attempts are left, some loop
\* of the client reads or reconnects.
THEOREM GoKeepsTrying == GoSpec => []KeepsTrying
<1>1. GoInv => KeepsTrying
  BY DEF GoInv
<1>2. QED
  BY <1>1, GoInvariant, PTL
=============================================================================
