-------------------------- MODULE GoWebSocketClient ---------------------------
(***************************************************************************)
(* The WebSocketClient of the Go SDK (sdk/go/agentmsg/websocket.go): the   *)
(* application calls Connect and Close, and every connection that is made  *)
(* starts a read loop and a write loop.  A read loop whose connection has  *)
(* failed connects again by itself, which starts another pair of loops,    *)
(* and goes on reading.  The loops share the fields of the client, which   *)
(* Connect writes without the mutex: a step makes one access to one field, *)
(* unless a comment says why two make no difference.  No server is in the  *)
(* repository: it accepts or refuses a connection, sends frames and breaks *)
(* connections.                                                            *)
(***************************************************************************)
EXTENDS Naturals, FiniteSets

CONSTANTS
  MaxRetries,   \* maxRetries, 5 in NewWebSocketClient
  Buffer,       \* the capacity of recvCh
  MaxConns      \* bound: connections that are made

ASSUME GoClientAssumption ==
  MaxRetries \in Nat \ {0} /\ Buffer \in Nat /\ MaxConns \in Nat \ {0}

VARIABLES
  net,              \* the state of every connection
  conn,             \* c.conn
  shouldReconnect,  \* c.shouldReconnect
  retries,          \* c.retries
  seen,             \* what retries++ has read, for whoever holds c.mu
  done,             \* whether doneCh is closed
  recv,             \* frames in recvCh
  loop,             \* the read loops; the one that connection k starts is k
  app,              \* how far the application is with Connect and Close
  gone              \* the server is gone for good

goVars == <<net, conn, shouldReconnect, retries, seen, done, recv, loop, app, gone>>

Conns == 1 .. MaxConns
Nil == 0

Alive(i) == loop[i].pc \notin {"none", "ended"}
Locked == \E i \in Conns : loop[i].pc = "add"   \* c.mu is held
Goto(i, pc) == loop' = [loop EXCEPT ![i] = [pc |-> pc, on |-> Nil]]

NewWebSocketClient ==
  /\ net = [k \in Conns |-> "none"]
  /\ conn = Nil /\ shouldReconnect = FALSE /\ retries = 0 /\ seen = 0
  /\ done = FALSE /\ recv = 0
  /\ loop = [i \in Conns |-> [pc |-> "none", on |-> Nil]]
  /\ app = "idle" /\ gone = FALSE

-----------------------------------------------------------------------------
(* Connect, called by the application or by a read loop.                    *)

\* DialContext succeeds with the next connection.
Dial(k) ==
  /\ ~ gone
  /\ net[k] = "none" /\ \A j \in Conns : j < k => net[j] # "none"
  /\ net' = [net EXCEPT ![k] = "open"]

\* c.conn = conn
Install(k) == conn' = k

\* c.shouldReconnect = true
Reset == shouldReconnect' = TRUE

\* c.retries = 0
Zero == retries' = 0

-----------------------------------------------------------------------------
(* The application.                                                         *)

\* Nothing else runs yet, so that the whole call is one step.
Connect ==
  /\ app = "idle" /\ app' = "connected"
  /\ Dial(1) /\ Install(1) /\ Reset /\ Zero
  /\ Goto(1, "top")
  /\ UNCHANGED <<seen, done, recv, gone>>

\* Close: the flag under the mutex, then doneCh, then the connection that c.conn
\* points to by then; it is not nil since Connect, so that the read that
\* compares it makes no difference.
CloseFlag ==
  /\ app = "connected" /\ app' = "done"
  /\ ~ Locked
  /\ shouldReconnect' = FALSE
  /\ UNCHANGED <<net, conn, retries, seen, done, recv, loop, gone>>

CloseDone ==
  /\ app = "done" /\ app' = "conn"
  /\ done' = TRUE
  /\ UNCHANGED <<net, conn, shouldReconnect, retries, seen, recv, loop, gone>>

CloseConn ==
  /\ app = "conn" /\ app' = "closed"
  /\ net' = [net EXCEPT ![conn] = "closed"]
  /\ UNCHANGED <<conn, shouldReconnect, retries, seen, done, recv, loop, gone>>

\* The goroutine that OnMessage starts takes a frame; an application need not
\* have called OnMessage, and its handler may take for ever.
OnMessage ==
  /\ recv > 0 /\ recv' = recv - 1
  /\ UNCHANGED <<net, conn, shouldReconnect, retries, seen, done, loop, app, gone>>

-----------------------------------------------------------------------------
(* readLoop.  writeLoop waits for doneCh only: Send writes to the connection    *)
(* itself, and nothing is ever put in sendCh.                                 *)

\* The select on doneCh.
Top(i) ==
  /\ loop[i].pc = "top"
  /\ Goto(i, IF done THEN "ended" ELSE "load")
  /\ UNCHANGED <<net, conn, shouldReconnect, retries, seen, done, recv, app, gone>>

\* The read of c.conn, which by now may be the connection of another loop.
Load(i) ==
  /\ loop[i].pc = "load"
  /\ loop' = [loop EXCEPT ![i] = [pc |-> "read", on |-> conn]]
  /\ UNCHANGED <<net, conn, shouldReconnect, retries, seen, done, recv, app, gone>>

\* ReadMessage returns a frame; one that does not decode is passed over.
\* Several loops may be reading from one connection, for which it is not made:
\* each frame goes to one of them, and each may be told that it has failed.
ReadFrame(i) ==
  /\ loop[i].pc = "read" /\ net[loop[i].on] = "open"
  /\ Goto(i, "deliver") \/ Goto(i, "top")
  /\ UNCHANGED <<net, conn, shouldReconnect, retries, seen, done, recv, app, gone>>

ReadError(i) ==
  /\ loop[i].pc = "read" /\ net[loop[i].on] # "open"
  /\ Goto(i, "check")
  /\ UNCHANGED <<net, conn, shouldReconnect, retries, seen, done, recv, app, gone>>

\* A mutant of Deliver: a plain send on the channel.
DeliverBlocking(i) ==
  /\ loop[i].pc = "deliver"
  /\ recv < Buffer /\ recv' = recv + 1 /\ Goto(i, "top")
  /\ UNCHANGED <<net, conn, shouldReconnect, retries, seen, done, app, gone>>

\* The select of recvCh and doneCh.
Deliver(i) ==
  /\ loop[i].pc = "deliver"
  /\ \/ recv < Buffer /\ recv' = recv + 1 /\ Goto(i, "top")
     \/ done /\ Goto(i, "ended") /\ UNCHANGED recv
  /\ UNCHANGED <<net, conn, shouldReconnect, retries, seen, done, app, gone>>

\* A mutant of Check: one attempt more.
CheckOneMore(i) ==
  /\ loop[i].pc = "check" /\ ~ Locked
  /\ Goto(i, IF shouldReconnect /\ retries <= MaxRetries THEN "count" ELSE "ended")
  /\ UNCHANGED <<net, conn, shouldReconnect, retries, seen, done, recv, app, gone>>

\* canReconnect, under the mutex.  Only Close clears the flag, which waits for
\* the mutex: its read and that of the count are as good as one.
Check(i) ==
  /\ loop[i].pc = "check" /\ ~ Locked
  /\ Goto(i, IF shouldReconnect /\ retries < MaxRetries THEN "count" ELSE "ended")
  /\ UNCHANGED <<net, conn, shouldReconnect, retries, seen, done, recv, app, gone>>

\* reconnectLoop: retries++ under the mutex again, its read and its write.  A
\* Connect that another loop makes may clear the count between them.
Count(i) ==
  /\ loop[i].pc = "count" /\ ~ Locked
  /\ seen' = retries
  /\ Goto(i, "add")
  /\ UNCHANGED <<net, conn, shouldReconnect, retries, done, recv, app, gone>>

\* A mutant of Add: the attempt is not counted.
AddNothing(i) ==
  /\ loop[i].pc = "add"
  /\ seen' = 0
  /\ Goto(i, "dial")
  /\ UNCHANGED <<net, conn, shouldReconnect, retries, done, recv, app, gone>>

\* The write, the mutex is released, and the sleep.
Add(i) ==
  /\ loop[i].pc = "add"
  /\ retries' = seen + 1 /\ seen' = 0
  /\ Goto(i, "dial")
  /\ UNCHANGED <<net, conn, shouldReconnect, done, recv, app, gone>>

\* A mutant of DialFails: the loop returns.
DialFailsForGood(i) ==
  /\ loop[i].pc = "dial"
  /\ Goto(i, "ended")
  /\ UNCHANGED <<net, conn, shouldReconnect, retries, seen, done, recv, app, gone>>

\* The loop goes on with the connection that c.conn still points to.
DialFails(i) ==
  /\ loop[i].pc = "dial"
  /\ Goto(i, "top")
  /\ UNCHANGED <<net, conn, shouldReconnect, retries, seen, done, recv, app, gone>>

DialWorks(i, k) ==
  /\ loop[i].pc = "dial"
  /\ Dial(k)
  /\ loop' = [loop EXCEPT ![i] = [pc |-> "install", on |-> k]]
  /\ UNCHANGED <<conn, shouldReconnect, retries, seen, done, recv, app, gone>>

LoopInstall(i) ==
  /\ loop[i].pc = "install"
  /\ Install(loop[i].on)
  /\ loop' = [loop EXCEPT ![i].pc = "reset"]
  /\ UNCHANGED <<net, shouldReconnect, retries, seen, done, recv, app, gone>>

LoopReset(i) ==
  /\ loop[i].pc = "reset"
  /\ Reset
  /\ loop' = [loop EXCEPT ![i].pc = "zero"]
  /\ UNCHANGED <<net, conn, retries, seen, done, recv, app, gone>>

\* The new loops are started, and this one continues.
LoopZero(i) ==
  /\ loop[i].pc = "zero"
  /\ Zero
  /\ loop' = [j \in Conns |-> IF j \in {i, loop[i].on} THEN [pc |-> "top", on |-> Nil]
                            ELSE loop[j]]
  /\ UNCHANGED <<net, conn, shouldReconnect, seen, done, recv, app, gone>>

-----------------------------------------------------------------------------
(* The server and the network.                                              *)

Fail(k) ==
  /\ net[k] = "open"
  /\ net' = [net EXCEPT ![k] = "failed"]
  /\ UNCHANGED <<conn, shouldReconnect, retries, seen, done, recv, loop, app, gone>>

ServerGone ==
  /\ ~ gone /\ gone' = TRUE
  /\ UNCHANGED <<net, conn, shouldReconnect, retries, seen, done, recv, loop, app>>

\* What a read loop does by itself; it waits in ReadMessage for the server.
LoopStep(i) ==
  \/ Top(i) \/ Load(i) \/ ReadError(i) \/ Deliver(i)
  \/ Check(i) \/ Count(i) \/ Add(i)
  \/ DialFails(i) \/ (\E k \in Conns : DialWorks(i, k))
  \/ LoopInstall(i) \/ LoopReset(i) \/ LoopZero(i)

GoNext ==
  \/ Connect \/ CloseFlag \/ CloseDone \/ CloseConn \/ OnMessage
  \/ ServerGone \/ \E k \in Conns : Fail(k)
  \/ \E i \in Conns : LoopStep(i) \/ ReadFrame(i)

\* The read loops run; Close, once called, ends.  The connections of a server
\* that is gone fail (TCP keep-alive).
GoSpec ==
  /\ NewWebSocketClient /\ [][GoNext]_goVars
  /\ \A i \in Conns : WF_goVars(LoopStep(i))
  /\ WF_goVars(CloseDone) /\ WF_goVars(CloseConn)
  /\ \A k \in Conns : WF_goVars(gone /\ Fail(k))

-----------------------------------------------------------------------------
(* Properties.                                                              *)

Loops == {i \in Conns : loop[i].pc # "none"}

\* docs/websocket.md:218 has at most 5 attempts.  canReconnect and retries++
\* are two critical sections: each other read loop may add one attempt to the
\* limit, and no more.
AttemptsBounded ==
  Loops # {} => retries <= MaxRetries + Cardinality(Loops) - 1

\* A client that was not closed and has attempts left is not abandoned: one of
\* its loops reads or reconnects, whichever of them gave up.
KeepsTrying ==
  Loops # {} /\ app = "connected" /\ retries < MaxRetries =>
    \E i \in Loops : Alive(i)

\* A loop that waits for a connection that is not the one Close has closed: it
\* was replaced before, or a reconnect that was under way has made it c.conn since,
\* and the loop had passed its select before doneCh was closed.
Stranded(i) ==
  /\ loop[i].pc = "read" /\ net[loop[i].on] = "open"
  /\ \E k \in Conns \ {loop[i].on} : net[k] = "closed"

\* After Close every loop ends, whether it was reading, waiting for room in
\* recvCh or reconnecting, but those that are stranded.
CloseEndsLoops ==
  \A i \in Conns :
    done ~> (~ Alive(i) \/ Stranded(i))

\* When the server is gone for good, every loop gives up, but for one that
\* waits for an application that takes no messages.
GivesUp ==
  \A i \in Conns :
    gone ~> (~ Alive(i) \/ (loop[i].pc = "deliver" /\ recv = Buffer))
=============================================================================
