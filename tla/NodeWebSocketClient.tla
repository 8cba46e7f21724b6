------------------------- MODULE NodeWebSocketClient --------------------------
(***************************************************************************)
(* The WebSocketClient of the Node.js SDK (sdk/nodejs/agentmsg/websocket.ts) *)
(* on the event loop: an action is one callback, which runs to its end.    *)
(* The application calls connect and close when it likes.  Every connect   *)
(* makes a socket, whose 'close' event starts a backoff timer, whose       *)
(* callback calls connect again; the fields of the client know the socket  *)
(* and the timers that were made last, and no others.                      *)
(***************************************************************************)
EXTENDS Naturals, FiniteSets

CONSTANTS
  MaxRetries,    \* maxRetries, 5 by default
  Sockets,       \* sockets; one is used again after its 'close' event
  MaxCalls,      \* bound: calls of connect by the application
  MaxIntervals   \* bound: heartbeat intervals that run, answers that are owed

ASSUME NodeClientAssumption ==
  MaxRetries \in Nat \ {0} /\ MaxCalls \in Nat \ {0} /\ MaxIntervals \in Nat \ {0}

Nil == "null"
ASSUME NilAssumption == Nil \notin Sockets

VARIABLES
  sock,      \* the state of every socket
  ws,        \* this.ws
  retries,   \* this.retries
  isIntentionallyClosed,
  intervals, \* [run |-> intervals that run, set |-> this.pingInterval is one]
  timeouts,  \* [run |-> pong timeouts that run, set |-> this.pongTimeout is one]
  backoffs,  \* backoff timers that run; nothing keeps them
  pings,     \* pings of every socket that its peer has not answered
  silent,    \* sockets whose peer has vanished, without the socket knowing
  gone,      \* the server is gone for good
  calls,     \* calls of connect by the application
  gaveUp     \* 'Max reconnection attempts reached' was emitted since the last
             \* connection or call of connect

nodeVars == <<sock, ws, retries, isIntentionallyClosed, intervals, timeouts,
              backoffs, pings, silent, gone, calls, gaveUp>>

NoTimer == [run |-> 0, set |-> FALSE]

\* clearInterval and clearTimeout of the field, if it is set.
Cleared(t) == [run |-> IF t.set THEN t.run - 1 ELSE t.run, set |-> FALSE]
\* setInterval and setTimeout into the field, whatever it was.
Started(t) == [run |-> t.run + 1, set |-> TRUE]

Live(s) == sock[s] # "none"
Lives == {s \in Sockets : Live(s)}

NodeInit ==
  /\ sock = [s \in Sockets |-> "none"] /\ ws = Nil
  /\ retries = 0 /\ isIntentionallyClosed = FALSE
  /\ intervals = NoTimer /\ timeouts = NoTimer /\ backoffs = 0
  /\ pings = [s \in Sockets |-> 0] /\ silent = {} /\ gone = FALSE
  /\ calls = 0 /\ gaveUp = FALSE

-----------------------------------------------------------------------------
(* connect, and the events of a socket.                                     *)

\* isIntentionallyClosed = false; ws = new WebSocket(url)
connect(s) ==
  /\ sock[s] = "none" /\ sock' = [sock EXCEPT ![s] = "connecting"]
  /\ ws' = s /\ isIntentionallyClosed' = FALSE

Connect(s) ==
  /\ calls < MaxCalls /\ calls' = calls + 1
  /\ connect(s) /\ gaveUp' = FALSE
  /\ UNCHANGED <<retries, intervals, timeouts, backoffs, pings, silent, gone>>

startHeartbeat == intervals' = Started(intervals)

\* A mutant of stopHeartbeat: the pong timeout stays.
StopIntervalOnly == intervals' = Cleared(intervals) /\ UNCHANGED timeouts

stopHeartbeat == intervals' = Cleared(intervals) /\ timeouts' = Cleared(timeouts)

\* 'open'
Opens(s) ==
  /\ sock[s] = "connecting" /\ ~ gone
  /\ intervals.run < MaxIntervals
  /\ sock' = [sock EXCEPT ![s] = "open"]
  /\ retries' = 0 /\ gaveUp' = FALSE
  /\ startHeartbeat
  /\ UNCHANGED <<ws, isIntentionallyClosed, timeouts, backoffs, pings, silent, gone, calls>>

reconnectWithBackoff ==
  IF retries >= MaxRetries
  THEN gaveUp' = TRUE /\ UNCHANGED <<retries, backoffs>>
  ELSE retries' = retries + 1 /\ backoffs' = backoffs + 1 /\ UNCHANGED gaveUp

\* The body of the handler of 'close'.
OnClose(s) ==
  /\ sock' = [sock EXCEPT ![s] = "none"]
  /\ pings' = [pings EXCEPT ![s] = 0] /\ silent' = silent \ {s}
  /\ stopHeartbeat
  /\ IF isIntentionallyClosed THEN UNCHANGED <<retries, backoffs, gaveUp>>
                              ELSE reconnectWithBackoff

\* A mutant of Refused: the handler of 'error' connects again too.
RefusedTwice(s) ==
  /\ sock[s] = "connecting"
  /\ sock' = [sock EXCEPT ![s] = "none"]
  /\ retries' = retries + 2 /\ backoffs' = backoffs + 2
  /\ UNCHANGED <<ws, isIntentionallyClosed, intervals, timeouts, pings, silent, gone, calls, gaveUp>>

\* The connection is not made: 'error', which only rejects the promise, and
\* 'close' right after it.
Refused(s) ==
  /\ sock[s] = "connecting"
  /\ OnClose(s)
  /\ UNCHANGED <<ws, isIntentionallyClosed, gone, calls>>

\* 'close' of a socket that was open, or that this side has closed.
Closes(s) ==
  /\ sock[s] = "closing"
  /\ OnClose(s)
  /\ UNCHANGED <<ws, isIntentionallyClosed, gone, calls>>

\* setTimeout of reconnectWithBackoff; close does not stop it.
BackoffEnds(s) ==
  /\ backoffs > 0 /\ backoffs' = backoffs - 1
  /\ connect(s)
  /\ UNCHANGED <<retries, intervals, timeouts, pings, silent, gone, calls, gaveUp>>

\* A socket that is closed twice is closed.
EndSocket(s) == sock' = [sock EXCEPT ![s] = IF @ = "none" THEN @ ELSE "closing"]

close ==
  /\ isIntentionallyClosed' = TRUE
  /\ stopHeartbeat
  /\ IF ws = Nil THEN UNCHANGED sock ELSE EndSocket(ws)
  /\ ws' = Nil
  /\ UNCHANGED <<retries, backoffs, pings, silent, gone, calls, gaveUp>>

-----------------------------------------------------------------------------
(* The heartbeat.                                                           *)

\* The peer owes one answer more; answers are counted up to MaxIntervals.
Owes(s) == pings' = [pings EXCEPT ![s] = IF @ = MaxIntervals THEN @ ELSE @ + 1]

\* A mutant of Ping: it does not wait for the answer.
PingOnly ==
  /\ timeouts.run < intervals.run
  /\ ws # Nil /\ sock[ws] = "open"
  /\ Owes(ws)
  /\ UNCHANGED <<sock, ws, retries, isIntentionallyClosed, intervals, timeouts,
                 backoffs, silent, gone, calls, gaveUp>>

\* An interval's callback, which does nothing when this.ws is not open.  A
\* timeout (10 s) is over before its interval (30 s) comes again.
Ping ==
  /\ timeouts.run < intervals.run
  /\ ws # Nil /\ sock[ws] = "open"
  /\ Owes(ws)
  /\ timeouts' = Started(timeouts)
  /\ UNCHANGED <<sock, ws, retries, isIntentionallyClosed, intervals, backoffs,
                 silent, gone, calls, gaveUp>>

\* 'pong': clears the timeout that was set last, whoever answers.
Pong(s) ==
  /\ sock[s] = "open" /\ s \notin silent /\ pings[s] > 0
  /\ pings' = [pings EXCEPT ![s] = @ - 1]
  /\ timeouts' = Cleared(timeouts)
  /\ UNCHANGED <<sock, ws, retries, isIntentionallyClosed, intervals, backoffs,
                 silent, gone, calls, gaveUp>>

\* A pong timeout's callback: terminates the socket that is this.ws by now.
\* The timer is the one in the field, which is not set to null (clearing it is
\* nothing then), or one that the field has lost.
PongTimeout ==
  /\ timeouts.run > 0
  /\ \E own \in {timeouts.set} \cup {FALSE} :
       /\ own \/ timeouts.run > (IF timeouts.set THEN 1 ELSE 0)
       /\ timeouts' = [run |-> timeouts.run - 1, set |-> timeouts.set /\ ~ own]
  /\ IF ws = Nil THEN UNCHANGED sock ELSE EndSocket(ws)
  /\ UNCHANGED <<ws, retries, isIntentionallyClosed, intervals, backoffs, pings,
                 silent, gone, calls, gaveUp>>

-----------------------------------------------------------------------------
(* The server and the network.                                              *)

\* The peer closes the connection, or it breaks and the socket is told.
Drops(s) ==
  /\ sock[s] = "open" /\ s \notin silent
  /\ EndSocket(s)
  /\ UNCHANGED <<ws, retries, isIntentionallyClosed, intervals, timeouts,
                 backoffs, pings, silent, gone, calls, gaveUp>>

\* The peer vanishes without a word; the server may be gone for good.
Vanishes(S) ==
  /\ silent' = silent \cup S
  /\ UNCHANGED <<sock, ws, retries, isIntentionallyClosed, intervals, timeouts,
                 backoffs, pings, calls, gaveUp>>

SocketVanishes(s) ==
  sock[s] = "open" /\ s \notin silent /\ Vanishes({s}) /\ UNCHANGED gone

ServerGone ==
  ~ gone /\ gone' = TRUE /\ Vanishes({s \in Sockets : sock[s] = "open"})

\* Timers and the events of sockets that are connecting or closing come.
EventLoop(s) == Opens(s) \/ Refused(s) \/ Closes(s)

NodeNext ==
  \/ \E s \in Sockets :
       \/ Connect(s) \/ EventLoop(s) \/ BackoffEnds(s)
       \/ Pong(s) \/ Drops(s) \/ SocketVanishes(s)
  \/ close \/ Ping \/ PongTimeout \/ ServerGone

NodeSpec ==
  /\ NodeInit /\ [][NodeNext]_nodeVars
  /\ \A s \in Sockets : WF_nodeVars(EventLoop(s))
  /\ WF_nodeVars(\E s \in Sockets : BackoffEnds(s))
  /\ WF_nodeVars(Ping) /\ WF_nodeVars(PongTimeout)

-----------------------------------------------------------------------------
(* Properties.                                                              *)

\* A call of connect by the application is behind at most one socket or one
\* backoff timer at any time, and close ends what this.ws points to: at most the
\* other calls can leave a connection that the client has lost.
OneLineagePerCall ==
  /\ Cardinality(Lives) + backoffs <= calls
  /\ Cardinality({s \in Sockets \ {ws} : sock[s] \in {"connecting", "open"}})
       <= IF calls = 0 THEN 0 ELSE calls - 1

\* An application that called connect once has one heartbeat, which ends only a
\* connection that owes it an answer: a timeout of an earlier connection never
\* ends the one that replaced it, and an answer in time is heeded.
OnlyUnansweredEnded ==
  [][(calls = 1 /\ PongTimeout /\ ws # Nil /\ sock[ws] = "open") => pings[ws] > 0]_nodeVars

\* A silent connection that the heartbeat does not see: this.ws is another
\* socket, or the 'close' of another socket has stopped the heartbeat.
Unwatched(s) ==
  /\ calls > 1 /\ sock[s] = "open" /\ s \in silent
  /\ ws # s \/ intervals.run = 0

\* docs/websocket.md:219: when the server is gone for good, and so silently that
\* only the heartbeat can tell, the client finds out and reports that it has given
\* up, if the application does not close it.  Several calls of connect may leave
\* connections that nothing watches.
ReportsGivingUp ==
  gone /\ calls > 0 ~>
    gaveUp \/ isIntentionallyClosed \/ \E s \in Sockets : Unwatched(s)
=============================================================================
