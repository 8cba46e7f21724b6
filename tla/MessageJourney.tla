---------------------------- MODULE MessageJourney ----------------------------
(***************************************************************************)
(* What the system promises of the way of a message, without the processes *)
(* that carry it: it waits in one line, in the order of arrival, is handed *)
(* out once, and leaves the system or is filed as a dead letter.  It never *)
(* turns back, and its recipients are reached only on the way.             *)
(***************************************************************************)
EXTENDS Naturals, Sequences

CONSTANT Messages

VARIABLES
  line,         \* the messages that wait, the first to be handed out first
  place,        \* where each message is
  reached       \* the messages that all their recipients have been sent

journey == <<line, place, reached>>

Places == {"sender", "line", "worker", "letter", "gone"}

At(p) == {m \in Messages : place[m] = p}
Move(S, p) == place' = [m \in Messages |-> IF m \in S THEN p ELSE place[m]]

Init ==
  /\ line = << >>
  /\ place = [m \in Messages |-> "sender"]
  /\ reached = {}

Join(m) ==
  /\ m \in At("sender") /\ Move({m}, "line")
  /\ line' = Append(line, m)
  /\ UNCHANGED reached

\* A sender's request ends; what it has not sent is not sent any more.
Refuse(S) ==
  /\ S \subseteq At("sender") /\ Move(S, "gone")
  /\ UNCHANGED <<line, reached>>

\* The reply may be lost.
HandOut ==
  /\ line # << >>
  /\ line' = Tail(line)
  /\ Move({Head(line)}, "worker") \/ Move({Head(line)}, "gone")
  /\ UNCHANGED reached

\* Workers are done with messages, or die.
LetGo(S) ==
  /\ S \subseteq At("worker") /\ Move(S, "gone")
  /\ UNCHANGED <<line, reached>>

File(m) ==
  /\ m \in At("worker") /\ Move({m}, "letter")
  /\ UNCHANGED <<line, reached>>

\* By a worker, or by a retry of the dead letter.
Reach(m) ==
  /\ m \in At("worker") \cup At("letter")
  /\ reached' = reached \cup {m}
  /\ UNCHANGED <<line, place>>

Next ==
  \/ HandOut
  \/ \E m \in Messages : Join(m) \/ File(m) \/ Reach(m)
  \/ \E S \in SUBSET Messages : Refuse(S) \/ LetGo(S)

Spec == Init /\ [][Next]_journey
=============================================================================
