------------------------------ MODULE StoreCalls ------------------------------
(***************************************************************************)
(* How a call on PostgreSQL or Redis may end.  Every component makes its   *)
(* calls through this module, so that it is the only source of failures.   *)
(***************************************************************************)
EXTENDS Naturals

CONSTANT MaxFaults  \* bound: calls on a store that fail, in one behaviour

ASSUME MaxFaultsAssumption == MaxFaults \in Nat

VARIABLE faults     \* calls on a store that have failed so far

(***************************************************************************)
(* "ok": the call took effect and returned nil.  "lost": it returned an    *)
(* error and had no effect.  "unanswered": it took effect, but the caller  *)
(* got an error (the connection broke or the deadline passed before the    *)
(* reply).  "refused": the caller's context was already cancelled, and the *)
(* client library returns before it sends anything.                        *)
(***************************************************************************)
Outcome == {"ok", "lost", "unanswered", "refused"}

Took(o) == o \in {"ok", "unanswered"}

\* One call under a context that is live or cancelled.  One that is under way
\* when its context is cancelled may still be lost or unanswered.
Call(o, live) ==
  /\ o = "ok" => live
  /\ o = "refused" => ~live
  /\ o \in {"lost", "unanswered"} => faults < MaxFaults
  /\ faults' = IF o \in {"lost", "unanswered"} THEN faults + 1 ELSE faults
=============================================================================
