--------------------------- MODULE NodeClientProofs ---------------------------
(***************************************************************************)
(* Theorems about the Node.js client, for any number of sockets, calls of  *)
(* connect and retries.                                                    *)
(***************************************************************************)
EXTENDS NodeWebSocketClient, FiniteSetTheorems, TLAPS

-----------------------------------------------------------------------------
(***************************************************************************)
(* The inductive invariant.                                                *)
(***************************************************************************)

SocketState == {"none", "connecting", "open", "closing"}

\* A field that is set names a timer that runs.
TimerOK(t) == t \in [run : Nat, set : BOOLEAN] /\ (t.set => t.run > 0)

NodeTypeOK ==
  /\ sock \in [Sockets -> SocketState]
  /\ ws \in Sockets \cup {Nil}
  /\ retries \in Nat /\ isIntentionallyClosed \in BOOLEAN
  /\ TimerOK(intervals) /\ TimerOK(timeouts) /\ backoffs \in Nat
  /\ pings \in [Sockets -> 0 .. MaxIntervals] /\ silent \subseteq Sockets
  /\ gone \in BOOLEAN /\ calls \in Nat /\ gaveUp \in BOOLEAN

Up(s) == sock[s] \in {"connecting", "open"}
Strays == {s \in Sockets \ {ws} : Up(s)}

\* Everything that connects, is connected or waits to connect goes back to a
\* call of its own.
Lineages ==
  /\ IsFiniteSet(Lives) /\ Cardinality(Lives) + backoffs <= calls
  /\ Cardinality(Strays) <= IF calls = 0 THEN 0 ELSE calls - 1

\* With one call, the fields of the client name all there is: this.ws the only
\* socket, and the heartbeat the timers of that socket.
OneHeartbeat ==
  /\ \A s \in Sockets : Up(s) => ws = s
  /\ intervals.run <= (IF intervals.set THEN 1 ELSE 0)
  /\ timeouts.run <= (IF timeouts.set THEN 1 ELSE 0)
  /\ timeouts.set => intervals.set
  /\ intervals.set => \E s \in Sockets : sock[s] \in {"open", "closing"}
  /\ timeouts.set => \A s \in Sockets : sock[s] = "open" => pings[s] > 0

NodeInv ==
  /\ NodeTypeOK
  /\ Lineages
  /\ calls <= 1 => OneHeartbeat

-----------------------------------------------------------------------------
(* Counting sockets.                                                        *)

LEMMA StraysLive == Strays \subseteq Lives /\ \A s : ws = s => Strays \subseteq Lives \ {s}
BY DEF Strays, Lives, Live, Up

LEMMA StraysLiveNext ==
  Strays' \subseteq Lives' /\ \A s : ws' = s => Strays' \subseteq Lives' \ {s}
BY DEF Strays, Lives, Live, Up

\* With one call there is one socket, or one timer that will make one.
LEMMA OnlyOne ==
  ASSUME NodeTypeOK, Lineages, calls <= 1
  PROVE  /\ \A s, t \in Lives : s = t
         /\ backoffs > 0 \/ calls = 0 => Lives = {}
<1>1. /\ IsFiniteSet(Lives) /\ Cardinality(Lives) \in Nat
      /\ Cardinality(Lives) + backoffs <= calls /\ backoffs \in Nat /\ calls \in Nat
  BY FS_CardinalityType DEF Lineages, NodeTypeOK
<1>2. ASSUME NEW s \in Lives, NEW t \in Lives, s # t PROVE FALSE
  <2>1. IsFiniteSet(Lives \ {s}) /\ Cardinality(Lives \ {s}) = Cardinality(Lives) - 1
    BY <1>1, <1>2, FS_RemoveElement
  <2>2. t \in Lives \ {s}
    BY <1>2
  <2>3. IsFiniteSet((Lives \ {s}) \ {t})
        /\ Cardinality((Lives \ {s}) \ {t}) = Cardinality(Lives \ {s}) - 1
    BY <2>1, <2>2, FS_RemoveElement
  <2>4. Cardinality((Lives \ {s}) \ {t}) \in Nat
    BY <2>3, FS_CardinalityType
  <2>5. QED
    BY <1>1, <2>1, <2>3, <2>4
<1>3. backoffs > 0 \/ calls = 0 => Cardinality(Lives) = 0
  BY <1>1
<1>4. QED
  BY <1>1, <1>2, <1>3, FS_EmptySet

\* What the steps do to the sockets.
Joins(s) == s \in Sockets \ Lives /\ Lives' = Lives \cup {s} /\ ws' = s
Leaves(s) == s \in Lives /\ Lives' = Lives \ {s} /\ Strays' \subseteq Strays
StaysUp == Lives' = Lives /\ Strays' \subseteq Strays

LEMMA ConnectJoins ==
  ASSUME NodeTypeOK, NEW s \in Sockets, connect(s)
  PROVE  Joins(s)
<1>1. sock[s] = "none" /\ sock' = [sock EXCEPT ![s] = "connecting"] /\ ws' = s
  BY DEF connect
<1>2. QED
  BY <1>1 DEF Joins, Lives, Live, NodeTypeOK

LEMMA OnCloseLeaves ==
  ASSUME NodeTypeOK, NEW s \in Sockets, sock[s] # "none", OnClose(s), ws' = ws
  PROVE  Leaves(s)
<1>1. sock' = [sock EXCEPT ![s] = "none"]
  BY DEF OnClose
<1>2. QED
  BY <1>1 DEF Leaves, Lives, Live, Strays, Up, NodeTypeOK

LEMMA EndSocketStays ==
  ASSUME NodeTypeOK, NEW s \in Sockets, EndSocket(s)
  PROVE  /\ Lives' = Lives /\ ~ Up(s)'
         /\ \A t \in Sockets : t # s => sock'[t] = sock[t]
         /\ sock'[s] = IF sock[s] = "none" THEN "none" ELSE "closing"
<1>1. sock' = [sock EXCEPT ![s] = IF sock[s] = "none" THEN sock[s] ELSE "closing"]
  BY DEF EndSocket
<1>2. QED
  BY <1>1 DEF Lives, Live, Up, NodeTypeOK

\* A new socket is paid for by a call of connect or by a backoff timer.
LEMMA JoinKeeps ==
  ASSUME NodeTypeOK, NodeTypeOK', Lineages, NEW s, Joins(s),
         \/ calls' = calls + 1 /\ backoffs' = backoffs
         \/ calls' = calls /\ backoffs = backoffs' + 1
  PROVE  Lineages'
<1>1. IsFiniteSet(Lives) /\ Cardinality(Lives) \in Nat
      /\ Cardinality(Lives) + backoffs <= calls
  BY FS_CardinalityType DEF Lineages
<1>2. IsFiniteSet(Lives') /\ Cardinality(Lives') = Cardinality(Lives) + 1 /\ s \in Lives'
  BY <1>1, FS_AddElement DEF Joins
<1>3. backoffs \in Nat /\ backoffs' \in Nat /\ calls \in Nat /\ calls' \in Nat
  BY DEF NodeTypeOK
<1>4. Cardinality(Lives') + backoffs' <= calls'
  <2>1. \A l, b, c, b2, c2 \in Nat :
          /\ l + b <= c
          /\ (c2 = c + 1 /\ b2 = b) \/ (c2 = c /\ b = b2 + 1)
          => (l + 1) + b2 <= c2
    OBVIOUS
  <2>2. Cardinality(Lives) + 1 + backoffs' <= calls'
    BY <1>1, <1>3, <2>1
  <2>3. QED
    BY <1>2, <2>2
<1>5. IsFiniteSet(Lives' \ {s}) /\ Cardinality(Lives' \ {s}) = Cardinality(Lives') - 1
  BY <1>2, FS_RemoveElement
<1>6. Strays' \subseteq Lives' \ {s}
  BY StraysLiveNext DEF Joins
<1>7. Cardinality(Strays') <= Cardinality(Lives' \ {s}) /\ Cardinality(Strays') \in Nat
  BY <1>5, <1>6, FS_Subset, FS_CardinalityType
<1>8. QED
  BY <1>1, <1>2, <1>3, <1>4, <1>5, <1>7 DEF Lineages

\* A socket that ends leaves at most a backoff timer.
LEMMA LeaveKeeps ==
  ASSUME NodeTypeOK, NodeTypeOK', Lineages, NEW s, Leaves(s), calls' = calls,
         backoffs' = backoffs \/ backoffs' = backoffs + 1
  PROVE  Lineages'
<1>1. IsFiniteSet(Lives) /\ Cardinality(Lives) \in Nat
      /\ Cardinality(Lives) + backoffs <= calls
      /\ Cardinality(Strays) <= IF calls = 0 THEN 0 ELSE calls - 1
  BY FS_CardinalityType DEF Lineages
<1>2. IsFiniteSet(Lives') /\ Cardinality(Lives') = Cardinality(Lives) - 1
  BY <1>1, FS_RemoveElement DEF Leaves
<1>3. backoffs \in Nat /\ backoffs' \in Nat /\ calls \in Nat
  BY DEF NodeTypeOK
<1>4. IsFiniteSet(Strays) /\ Cardinality(Strays) \in Nat
  BY <1>1, StraysLive, FS_Subset, FS_CardinalityType
<1>5. Cardinality(Strays') <= Cardinality(Strays) /\ Cardinality(Strays') \in Nat
  BY <1>4, FS_Subset, FS_CardinalityType DEF Leaves
<1>6. QED
  BY <1>1, <1>2, <1>3, <1>4, <1>5 DEF Lineages

LEMMA StayKeeps ==
  ASSUME NodeTypeOK, NodeTypeOK', Lineages, StaysUp, calls' = calls, backoffs' = backoffs
  PROVE  Lineages'
<1>1. IsFiniteSet(Lives) /\ Cardinality(Strays) <= IF calls = 0 THEN 0 ELSE calls - 1
  BY DEF Lineages
<1>2. IsFiniteSet(Strays) /\ Cardinality(Strays) \in Nat /\ calls \in Nat
  BY <1>1, StraysLive, FS_Subset, FS_CardinalityType DEF NodeTypeOK
<1>3. Cardinality(Strays') <= Cardinality(Strays) /\ Cardinality(Strays') \in Nat
  BY <1>2, FS_Subset, FS_CardinalityType DEF StaysUp
<1>4. QED
  BY <1>1, <1>2, <1>3 DEF Lineages, StaysUp

-----------------------------------------------------------------------------
(* Timers.                                                                  *)

LEMMA ClearedOK ==
  ASSUME NEW t, TimerOK(t)
  PROVE  /\ TimerOK(Cleared(t)) /\ ~ Cleared(t).set
         /\ t.run <= (IF t.set THEN 1 ELSE 0) => Cleared(t).run <= 0
BY DEF TimerOK, Cleared

LEMMA StartedOK ==
  ASSUME NEW t, TimerOK(t)
  PROVE  TimerOK(Started(t)) /\ Started(t).set /\ Started(t).run = t.run + 1
BY DEF TimerOK, Started

-----------------------------------------------------------------------------
(* Step by step.                                                            *)

LEMMA ConnectKeeps ==
  ASSUME NodeInv, NEW s \in Sockets, Connect(s)
  PROVE  NodeInv'
<1> USE DEF NodeInv
<1>1. /\ connect(s) /\ calls' = calls + 1 /\ gaveUp' = FALSE
      /\ UNCHANGED <<retries, intervals, timeouts, backoffs, pings, silent, gone>>
  BY DEF Connect
<1>2. sock' = [sock EXCEPT ![s] = "connecting"] /\ ws' = s /\ sock[s] = "none"
      /\ isIntentionallyClosed' = FALSE
  BY <1>1 DEF connect
<1>3. NodeTypeOK'
  <2>1. sock' \in [Sockets -> SocketState]
    BY <1>2 DEF NodeTypeOK, SocketState
  <2>2. ws' \in Sockets \cup {Nil} /\ calls' \in Nat
    BY <1>1, <1>2 DEF NodeTypeOK
  <2>3. gaveUp' \in BOOLEAN /\ isIntentionallyClosed' \in BOOLEAN
    BY <1>1, <1>2
  <2>4. QED
    BY <1>1, <2>1, <2>2, <2>3, Zenon DEF NodeTypeOK
<1>4. Lineages'
  BY <1>1, <1>3, ConnectJoins, JoinKeeps
<1>5. ASSUME calls' <= 1 PROVE OneHeartbeat'
  <2>1. calls = 0 /\ Lives = {}
    BY <1>1, <1>5, OnlyOne DEF NodeTypeOK
  <2>2. \A t \in Sockets : sock[t] = "none" /\ (t # s => sock'[t] = "none")
    BY <1>2, <2>1 DEF Lives, Live, NodeTypeOK
  <2>3. OneHeartbeat
    BY <2>1
  <2>4. ~ intervals.set /\ ~ timeouts.set
    BY <2>2, <2>3 DEF OneHeartbeat
  <2>5. QED
    BY <1>1, <1>2, <2>2, <2>3, <2>4 DEF OneHeartbeat, Up
<1>6. QED
  BY <1>3, <1>4, <1>5

LEMMA BackoffKeeps ==
  ASSUME NodeInv, NEW s \in Sockets, BackoffEnds(s)
  PROVE  NodeInv'
<1> USE DEF NodeInv
<1>1. /\ connect(s) /\ backoffs > 0 /\ backoffs' = backoffs - 1
      /\ UNCHANGED <<retries, intervals, timeouts, pings, silent, gone, calls, gaveUp>>
  BY DEF BackoffEnds
<1>2. sock' = [sock EXCEPT ![s] = "connecting"] /\ ws' = s /\ sock[s] = "none"
      /\ isIntentionallyClosed' = FALSE
  BY <1>1 DEF connect
<1>3. NodeTypeOK' /\ backoffs = backoffs' + 1
  <2>1. sock' \in [Sockets -> SocketState]
    BY <1>2 DEF NodeTypeOK, SocketState
  <2>2. backoffs \in Nat /\ backoffs > 0 /\ backoffs' = backoffs - 1
    BY <1>1 DEF NodeTypeOK
  <2>3. backoffs' \in Nat /\ backoffs = backoffs' + 1
    BY <2>2
  <2>4. ws' \in Sockets \cup {Nil} /\ isIntentionallyClosed' \in BOOLEAN
    BY <1>2
  <2>5. QED
    BY <1>1, <2>1, <2>3, <2>4, Zenon DEF NodeTypeOK
<1>4. Lineages'
  BY <1>1, <1>3, ConnectJoins, JoinKeeps
<1>5. ASSUME calls' <= 1 PROVE OneHeartbeat'
  <2>1. calls <= 1 /\ Lives = {}
    BY <1>1, <1>5, OnlyOne
  <2>2. \A t \in Sockets : sock[t] = "none" /\ (t # s => sock'[t] = "none")
    BY <1>2, <2>1 DEF Lives, Live, NodeTypeOK
  <2>3. OneHeartbeat
    BY <2>1
  <2>4. ~ intervals.set /\ ~ timeouts.set
    BY <2>2, <2>3 DEF OneHeartbeat
  <2>5. QED
    BY <1>1, <1>2, <2>2, <2>3, <2>4 DEF OneHeartbeat, Up
<1>6. QED
  BY <1>3, <1>4, <1>5

LEMMA OpensKeeps ==
  ASSUME NodeInv, NEW s \in Sockets, Opens(s)
  PROVE  NodeInv'
<1> USE DEF NodeInv
<1>1. /\ sock[s] = "connecting" /\ sock' = [sock EXCEPT ![s] = "open"]
      /\ retries' = 0 /\ gaveUp' = FALSE /\ intervals' = Started(intervals)
      /\ UNCHANGED <<ws, isIntentionallyClosed, timeouts, backoffs, pings, silent, gone, calls>>
  BY DEF Opens, startHeartbeat
<1>2. TimerOK(intervals) /\ TimerOK(timeouts)
  BY DEF NodeTypeOK
<1>3. TimerOK(intervals') /\ intervals'.set /\ intervals'.run = intervals.run + 1
  BY <1>1, <1>2, StartedOK
<1>4. NodeTypeOK'
  BY <1>1, <1>3 DEF NodeTypeOK, SocketState
<1>5. StaysUp
  BY <1>1 DEF StaysUp, Lives, Live, Strays, Up, NodeTypeOK
<1>6. Lineages'
  BY <1>1, <1>4, <1>5, StayKeeps
<1>7. ASSUME calls' <= 1 PROVE OneHeartbeat'
  <2>1. OneHeartbeat /\ s \in Lives
    BY <1>1, <1>7 DEF Lives, Live
  <2>2. \A t \in Sockets : t # s => sock[t] = "none" /\ sock'[t] = "none"
    BY <1>1, <1>7, <2>1, OnlyOne DEF Lives, Live, NodeTypeOK
  <2>3. sock'[s] = "open" /\ ws' = s
    BY <1>1, <2>1 DEF OneHeartbeat, Up, NodeTypeOK
  <2>4. ~ intervals.set /\ ~ timeouts.set
    BY <1>1, <2>1, <2>2 DEF OneHeartbeat
  <2>5. intervals.run \in Nat /\ intervals.run <= 0
    BY <1>2, <2>1, <2>4 DEF OneHeartbeat, TimerOK
  <2>6. QED
    BY <1>1, <1>3, <2>1, <2>2, <2>3, <2>4, <2>5 DEF OneHeartbeat, Up
<1>8. QED
  BY <1>4, <1>6, <1>7

\* Refused and Closes.
LEMMA OnCloseKeeps ==
  ASSUME NodeInv, NEW s \in Sockets, sock[s] # "none", OnClose(s),
         UNCHANGED <<ws, isIntentionallyClosed, gone, calls>>
  PROVE  NodeInv'
<1> USE DEF NodeInv
<1>1. /\ sock' = [sock EXCEPT ![s] = "none"]
      /\ pings' = [pings EXCEPT ![s] = 0] /\ silent' = silent \ {s}
      /\ intervals' = Cleared(intervals) /\ timeouts' = Cleared(timeouts)
      /\ \/ UNCHANGED <<retries, backoffs, gaveUp>>
         \/ gaveUp' = TRUE /\ UNCHANGED <<retries, backoffs>>
         \/ retries' = retries + 1 /\ backoffs' = backoffs + 1 /\ UNCHANGED gaveUp
  BY DEF OnClose, stopHeartbeat, reconnectWithBackoff
<1>2. TimerOK(intervals) /\ TimerOK(timeouts)
  BY DEF NodeTypeOK
<1>3. TimerOK(intervals') /\ ~ intervals'.set /\ TimerOK(timeouts') /\ ~ timeouts'.set
  BY <1>1, <1>2, ClearedOK
<1>4. NodeTypeOK'
  <2>1. sock' \in [Sockets -> SocketState] /\ silent' \subseteq Sockets
    BY <1>1 DEF NodeTypeOK, SocketState
  <2>2. pings' \in [Sockets -> 0 .. MaxIntervals]
    BY <1>1, NodeClientAssumption DEF NodeTypeOK
  <2>3. retries' \in Nat /\ backoffs' \in Nat
    BY <1>1 DEF NodeTypeOK
  <2>4. gaveUp' \in BOOLEAN
    BY <1>1 DEF NodeTypeOK
  <2>5. QED
    BY <1>3, <2>1, <2>2, <2>3, <2>4, Zenon DEF NodeTypeOK
<1>5. Lineages'
  BY <1>1, <1>4, OnCloseLeaves, LeaveKeeps
<1>6. ASSUME calls' <= 1 PROVE OneHeartbeat'
  <2>1. OneHeartbeat
    BY <1>6
  <2>2. intervals'.run <= 0 /\ timeouts'.run <= 0
    BY <1>1, <1>2, <2>1, ClearedOK DEF OneHeartbeat
  <2>3. \A t \in Sockets : Up(t)' => Up(t)
    BY <1>1 DEF Up, NodeTypeOK
  <2>4. QED
    BY <1>3, <2>1, <2>2, <2>3 DEF OneHeartbeat
<1>7. QED
  BY <1>4, <1>5, <1>6

LEMMA closeKeeps ==
  ASSUME NodeInv, close
  PROVE  NodeInv'
<1> USE DEF NodeInv
<1>1. /\ isIntentionallyClosed' = TRUE /\ ws' = Nil
      /\ intervals' = Cleared(intervals) /\ timeouts' = Cleared(timeouts)
      /\ IF ws = Nil THEN sock' = sock ELSE EndSocket(ws)
      /\ UNCHANGED <<retries, backoffs, pings, silent, gone, calls, gaveUp>>
  BY DEF close, stopHeartbeat
<1>2. TimerOK(intervals) /\ TimerOK(timeouts)
  BY DEF NodeTypeOK
<1>3. TimerOK(intervals') /\ ~ intervals'.set /\ TimerOK(timeouts') /\ ~ timeouts'.set
  BY <1>1, <1>2, ClearedOK
<1>4. ws \in Sockets \cup {Nil}
  BY DEF NodeTypeOK
<1>5. /\ sock' \in [Sockets -> SocketState] /\ Lives' = Lives
      /\ \A t \in Sockets : Up(t)' => Up(t) /\ t # ws
  <2>1. CASE ws = Nil
    BY <1>1, <2>1, NilAssumption DEF NodeTypeOK, Lives, Live, Up
  <2>2. CASE ws \in Sockets /\ ws # Nil
    <3>1. PICK s \in Sockets : s = ws
      BY <2>2
    <3>2. /\ Lives' = Lives /\ ~ Up(s)'
          /\ \A t \in Sockets : t # s => sock'[t] = sock[t]
      BY <1>1, <2>2, <3>1, EndSocketStays
    <3>3. sock' \in [Sockets -> SocketState]
      BY <1>1, <2>2 DEF EndSocket, NodeTypeOK, SocketState
    <3>4. QED
      BY <3>1, <3>2, <3>3 DEF Up
  <2>3. QED
    BY <1>4, <2>1, <2>2
<1>6. NodeTypeOK'
  BY <1>1, <1>3, <1>5 DEF NodeTypeOK
<1>7. StaysUp
  BY <1>5 DEF StaysUp, Strays
<1>8. Lineages'
  BY <1>1, <1>6, <1>7, StayKeeps
<1>9. ASSUME calls' <= 1 PROVE OneHeartbeat'
  <2>1. OneHeartbeat
    BY <1>1, <1>9
  <2>2. intervals'.run <= 0 /\ timeouts'.run <= 0
    BY <1>1, <1>2, <2>1, ClearedOK DEF OneHeartbeat
  <2>3. \A t \in Sockets : ~ Up(t)'
    BY <1>5, <2>1 DEF OneHeartbeat
  <2>4. QED
    BY <1>3, <2>2, <2>3 DEF OneHeartbeat
<1>10. QED
  BY <1>6, <1>8, <1>9

LEMMA PingKeeps ==
  ASSUME NodeInv, Ping
  PROVE  NodeInv'
<1> USE DEF NodeInv
<1>1. /\ timeouts.run < intervals.run /\ ws # Nil /\ Owes(ws)
      /\ timeouts' = Started(timeouts)
      /\ UNCHANGED <<sock, ws, retries, isIntentionallyClosed, intervals, backoffs,
                     silent, gone, calls, gaveUp>>
  BY DEF Ping
<1>2. ws \in Sockets /\ TimerOK(intervals) /\ TimerOK(timeouts)
  BY <1>1 DEF NodeTypeOK
<1>3. TimerOK(timeouts') /\ timeouts'.set /\ timeouts'.run = timeouts.run + 1
  BY <1>1, <1>2, StartedOK
<1>4. pings' \in [Sockets -> 0 .. MaxIntervals] /\ pings'[ws] > 0
  BY <1>1, <1>2, NodeClientAssumption DEF Owes, NodeTypeOK
<1>5. NodeTypeOK'
  BY <1>1, <1>3, <1>4 DEF NodeTypeOK
<1>6. StaysUp
  BY <1>1 DEF StaysUp, Lives, Live, Strays, Up
<1>7. Lineages'
  BY <1>1, <1>5, <1>6, StayKeeps
<1>8. ASSUME calls' <= 1 PROVE OneHeartbeat'
  <2>1. OneHeartbeat
    BY <1>1, <1>8
  <2>2. intervals.set /\ intervals.run \in Nat /\ timeouts.run \in Nat /\ timeouts.run <= 0
    BY <1>1, <1>2, <2>1 DEF OneHeartbeat, TimerOK
  <2>3. \A t \in Sockets : sock[t] = "open" => t = ws
    BY <2>1 DEF OneHeartbeat, Up
  <2>4. QED
    BY <1>1, <1>3, <1>4, <2>1, <2>2, <2>3 DEF OneHeartbeat, Up
<1>9. QED
  BY <1>5, <1>7, <1>8

LEMMA PongKeeps ==
  ASSUME NodeInv, NEW s \in Sockets, Pong(s)
  PROVE  NodeInv'
<1> USE DEF NodeInv
<1>1. /\ pings[s] > 0 /\ pings' = [pings EXCEPT ![s] = @ - 1]
      /\ timeouts' = Cleared(timeouts)
      /\ UNCHANGED <<sock, ws, retries, isIntentionallyClosed, intervals, backoffs,
                     silent, gone, calls, gaveUp>>
  BY DEF Pong
<1>2. TimerOK(timeouts)
  BY DEF NodeTypeOK
<1>3. TimerOK(timeouts') /\ ~ timeouts'.set
  BY <1>1, <1>2, ClearedOK
<1>4. pings' \in [Sockets -> 0 .. MaxIntervals]
  <2>1. pings[s] \in 0 .. MaxIntervals /\ pings[s] > 0 /\ MaxIntervals \in Nat
    BY <1>1, NodeClientAssumption DEF NodeTypeOK
  <2>2. pings[s] - 1 \in 0 .. MaxIntervals
    BY <2>1
  <2>3. QED
    BY <1>1, <2>2 DEF NodeTypeOK
<1>5. NodeTypeOK'
  BY <1>1, <1>3, <1>4 DEF NodeTypeOK
<1>6. StaysUp
  BY <1>1 DEF StaysUp, Lives, Live, Strays, Up
<1>7. Lineages'
  BY <1>1, <1>5, <1>6, StayKeeps
<1>8. ASSUME calls' <= 1 PROVE OneHeartbeat'
  <2>1. OneHeartbeat
    BY <1>1, <1>8
  <2>2. timeouts'.run <= 0
    BY <1>1, <1>2, <2>1, ClearedOK DEF OneHeartbeat
  <2>3. QED
    BY <1>1, <1>3, <2>1, <2>2 DEF OneHeartbeat, Up
<1>9. QED
  BY <1>5, <1>7, <1>8

LEMMA PongTimeoutKeeps ==
  ASSUME NodeInv, PongTimeout
  PROVE  NodeInv'
<1> USE DEF NodeInv
<1>1. /\ IF ws = Nil THEN sock' = sock ELSE EndSocket(ws)
      /\ UNCHANGED <<ws, retries, isIntentionallyClosed, intervals, backoffs, pings,
                     silent, gone, calls, gaveUp>>
  BY DEF PongTimeout
<1>2. TimerOK(intervals) /\ TimerOK(timeouts) /\ ws \in Sockets \cup {Nil}
  BY DEF NodeTypeOK
<1>3. /\ TimerOK(timeouts')
      /\ timeouts.run <= (IF timeouts.set THEN 1 ELSE 0) => timeouts'.run <= 0 /\ ~ timeouts'.set
  <2>1. PICK own \in {timeouts.set} \cup {FALSE} :
          /\ own \/ timeouts.run > (IF timeouts.set THEN 1 ELSE 0)
          /\ timeouts' = [run |-> timeouts.run - 1, set |-> timeouts.set /\ ~ own]
    BY DEF PongTimeout
  <2>2. timeouts.run \in Nat /\ timeouts.run > 0 /\ timeouts.set \in BOOLEAN
        /\ own \in BOOLEAN /\ (own => timeouts.set)
    BY <1>2 DEF PongTimeout, TimerOK
  <2> DEFINE r == timeouts.run - 1
             b == timeouts.set /\ ~ own
  <2>3. b \in BOOLEAN /\ r \in Nat /\ timeouts' = [run |-> r, set |-> b]
    BY <2>1, <2>2
  <2>4. timeouts'.run = r /\ timeouts'.set = b
    BY <2>3
  <2>5. b => r > 0
    BY <2>1, <2>2
  <2>6. timeouts.run <= (IF timeouts.set THEN 1 ELSE 0) => r <= 0 /\ ~ b
    BY <2>1, <2>2
  <2> HIDE DEF r, b
  <2>7. QED
    BY <2>3, <2>4, <2>5, <2>6 DEF TimerOK
<1>5. /\ sock' \in [Sockets -> SocketState] /\ Lives' = Lives
      /\ \A t \in Sockets : /\ Up(t)' => Up(t)
                            /\ sock[t] = "closing" => sock'[t] = "closing"
                            /\ sock[t] = "open" => sock'[t] \in {"open", "closing"}
  <2>1. CASE ws = Nil
    BY <1>1, <2>1 DEF NodeTypeOK, Lives, Live, Up
  <2>2. CASE ws \in Sockets /\ ws # Nil
    <3>1. PICK s \in Sockets : s = ws
      BY <2>2
    <3>2. /\ Lives' = Lives /\ ~ Up(s)'
          /\ \A t \in Sockets : t # s => sock'[t] = sock[t]
          /\ sock'[s] = IF sock[s] = "none" THEN "none" ELSE "closing"
      BY <1>1, <2>2, <3>1, EndSocketStays
    <3>3. sock' \in [Sockets -> SocketState]
      BY <1>1, <2>2 DEF EndSocket, NodeTypeOK, SocketState
    <3>4. QED
      BY <3>2, <3>3 DEF Up
  <2>3. QED
    BY <1>2, <2>1, <2>2
<1>6. NodeTypeOK'
  BY <1>1, <1>3, <1>5 DEF NodeTypeOK
<1>7. StaysUp
  BY <1>1, <1>5 DEF StaysUp, Strays
<1>8. Lineages'
  BY <1>1, <1>6, <1>7, StayKeeps
<1>9. ASSUME calls' <= 1 PROVE OneHeartbeat'
  <2>1. OneHeartbeat
    BY <1>1, <1>9
  <2>2. timeouts'.run <= 0 /\ ~ timeouts'.set
    BY <1>3, <2>1 DEF OneHeartbeat
  <2>3. (\E t \in Sockets : sock[t] \in {"open", "closing"}) =>
          \E t \in Sockets : sock'[t] \in {"open", "closing"}
    BY <1>5
  <2>4. QED
    BY <1>1, <1>5, <2>1, <2>2, <2>3 DEF OneHeartbeat
<1>10. QED
  BY <1>6, <1>8, <1>9

LEMMA DropsKeeps ==
  ASSUME NodeInv, NEW s \in Sockets, Drops(s)
  PROVE  NodeInv'
<1> USE DEF NodeInv
<1>1. /\ sock[s] = "open" /\ EndSocket(s)
      /\ UNCHANGED <<ws, retries, isIntentionallyClosed, intervals, timeouts,
                     backoffs, pings, silent, gone, calls, gaveUp>>
  BY DEF Drops
<1>2. /\ Lives' = Lives /\ ~ Up(s)'
      /\ \A t \in Sockets : t # s => sock'[t] = sock[t]
      /\ sock'[s] = "closing"
  BY <1>1, EndSocketStays
<1>3. NodeTypeOK'
  BY <1>1 DEF EndSocket, NodeTypeOK, SocketState
<1>4. StaysUp
  BY <1>1, <1>2 DEF StaysUp, Strays, Up
<1>5. Lineages'
  BY <1>1, <1>3, <1>4, StayKeeps
<1>6. ASSUME calls' <= 1 PROVE OneHeartbeat'
  <2>1. OneHeartbeat
    BY <1>1, <1>6
  <2>2. QED
    BY <1>1, <1>2, <2>1 DEF OneHeartbeat, Up
<1>7. QED
  BY <1>3, <1>5, <1>6

\* Neither the sockets nor the timers change.
LEMMA RestKeeps ==
  ASSUME NodeInv, silent' \subseteq Sockets, gone' \in BOOLEAN,
         UNCHANGED <<sock, ws, retries, isIntentionallyClosed, intervals, timeouts,
                     backoffs, pings, calls, gaveUp>>
  PROVE  NodeInv'
<1> USE DEF NodeInv
<1>1. NodeTypeOK'
  BY DEF NodeTypeOK
<1>2. Lives' = Lives /\ Strays' = Strays
  BY DEF Lives, Live, Strays, Up
<1>3. Lineages'
  BY <1>2 DEF Lineages
<1>4. OneHeartbeat => OneHeartbeat'
  BY DEF OneHeartbeat, Up
<1>5. QED
  BY <1>1, <1>3, <1>4

LEMMA NodeInvInit == NodeInit => NodeInv
<1> SUFFICES ASSUME NodeInit PROVE NodeInv
  OBVIOUS
<1> USE DEF NodeInit
<1>0. TimerOK(NoTimer) /\ NoTimer.run = 0 /\ ~ NoTimer.set
  BY DEF TimerOK, NoTimer
<1>1. NodeTypeOK
  <2>1. sock \in [Sockets -> SocketState] /\ pings \in [Sockets -> 0 .. MaxIntervals]
    BY NodeClientAssumption DEF SocketState
  <2>2. QED
    BY <1>0, <2>1 DEF NodeTypeOK
<1>2. Lives = {} /\ Strays = {}
  BY DEF Lives, Live, Strays, Up
<1>3. Lineages
  BY <1>2, FS_EmptySet DEF Lineages
<1>4. OneHeartbeat
  BY <1>0 DEF OneHeartbeat, Up
<1>5. QED
  BY <1>1, <1>3, <1>4 DEF NodeInv

LEMMA NodeInvNext == NodeInv /\ [NodeNext]_nodeVars => NodeInv'
<1> SUFFICES ASSUME NodeInv, [NodeNext]_nodeVars PROVE NodeInv'
  OBVIOUS
<1>1. ASSUME NEW s \in Sockets, Connect(s) PROVE NodeInv'
  BY <1>1, ConnectKeeps
<1>2. ASSUME NEW s \in Sockets, EventLoop(s) PROVE NodeInv'
  BY <1>2, OpensKeeps, OnCloseKeeps DEF EventLoop, Refused, Closes
<1>3. ASSUME NEW s \in Sockets, BackoffEnds(s) PROVE NodeInv'
  BY <1>3, BackoffKeeps
<1>4. ASSUME NEW s \in Sockets, Pong(s) \/ Drops(s) PROVE NodeInv'
  BY <1>4, PongKeeps, DropsKeeps
<1>5. ASSUME NEW s \in Sockets, SocketVanishes(s) PROVE NodeInv'
  BY <1>5, RestKeeps DEF SocketVanishes, Vanishes, NodeInv, NodeTypeOK
<1>6. CASE close
  BY <1>6, closeKeeps
<1>7. CASE Ping
  BY <1>7, PingKeeps
<1>8. CASE PongTimeout
  BY <1>8, PongTimeoutKeeps
<1>9. CASE ServerGone
  BY <1>9, RestKeeps DEF ServerGone, Vanishes, NodeInv, NodeTypeOK
<1>10. CASE UNCHANGED nodeVars
  BY <1>10, RestKeeps DEF nodeVars, NodeInv, NodeTypeOK
<1>11. QED
  BY <1>1, <1>2, <1>3, <1>4, <1>5, <1>6, <1>7, <1>8, <1>9, <1>10 DEF NodeNext

-----------------------------------------------------------------------------
(***************************************************************************)
(* The theorems.                                                           *)
(***************************************************************************)

\* The inductive invariant of the Node.js client.
THEOREM NodeInvariant == NodeSpec => []NodeInv
<1>1. NodeInit => NodeInv
  BY NodeInvInit
<1>2. NodeInv /\ [NodeNext]_nodeVars => NodeInv'
  BY NodeInvNext
<1>3. QED
  BY <1>1, <1>2, PTL DEF NodeSpec

\* However often the connection ends and comes back, a call of connect is
\* behind at most one socket or backoff timer, and only the other calls can
\* leave a connection that this.ws does not name.
THEOREM LineagesStayApart == NodeSpec => []OneLineagePerCall
<1>1. NodeInv => OneLineagePerCall
  BY DEF NodeInv, Lineages, OneLineagePerCall, Strays, Up
<1>2. QED
  BY <1>1, NodeInvariant, PTL

\* With one call of connect a pong timeout ends only a connection that owes an
\* answer.
THEOREM HealthyNeverEnded == NodeSpec => OnlyUnansweredEnded
<1>1. NodeInv /\ [NodeNext]_nodeVars =>
        [(calls = 1 /\ PongTimeout /\ ws # Nil /\ sock[ws] = "open") => pings[ws] > 0]_nodeVars
  <2>1. SUFFICES ASSUME NodeInv, calls = 1, PongTimeout, ws # Nil, sock[ws] = "open"
                 PROVE  pings[ws] > 0
    OBVIOUS
  <2>2. OneHeartbeat /\ TimerOK(timeouts) /\ ws \in Sockets
    BY <2>1 DEF NodeInv, NodeTypeOK
  <2>3. timeouts.set
    BY <2>1, <2>2 DEF PongTimeout, OneHeartbeat, TimerOK
  <2>4. QED
    BY <2>1, <2>2, <2>3 DEF OneHeartbeat
<1>2. QED
  BY <1>1, NodeInvariant, PTL DEF NodeSpec, OnlyUnansweredEnded
=============================================================================
