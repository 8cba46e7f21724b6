----------------------------- MODULE RateLimiter ------------------------------
(***************************************************************************)
(* The counters of the rate limiter (RateLimit in                          *)
(* internal/middleware/middleware.go): one Redis key for each caller,      *)
(* route and slot of the wall clock, counted up by INCR and given a time   *)
(* to live by the request that created it.                                 *)
(***************************************************************************)
EXTENDS StoreCalls

CONSTANTS
  Callers,      \* the agents named by the tokens of requests
  Routes,       \* c.FullPath() of a request
  Limit,        \* rateLimitRequests
  Window,       \* rateLimitWindow, in ticks of the clock
  MaxClock      \* bound: ticks in one behaviour

ASSUME LimiterAssumption ==
  /\ Limit \in Nat \ {0}     \* NewMiddleware replaces a limit or window that is
  /\ Window \in Nat \ {0}    \* not positive
  /\ MaxClock \in Nat

VARIABLES
  clock,        \* the wall clock
  window        \* the counters; one with count 0 does not exist

limiterVars == <<clock, window>>

Slot == clock \div Window

Key == Callers \X Routes \X (0 .. MaxClock \div Window)
NoTTL == 0                   \* no key expires at 0
NoCounter == [count |-> 0, expires |-> NoTTL]

Counter == [count : Nat, expires : 0 .. MaxClock + Window]

LimiterTypeOK ==
  /\ clock \in 0 .. MaxClock
  /\ window \in [Key -> Counter]

\* INCR creates a key that does not exist, without a time to live.
IncrKey(k, o) ==
  window' = IF Took(o) THEN [window EXCEPT ![k].count = @ + 1] ELSE window

\* EXPIRE; it does nothing to a key that does not exist.
ExpireKey(k, o) ==
  window' = IF Took(o) /\ window[k] # NoCounter
            THEN [window EXCEPT ![k].expires = clock + Window] ELSE window

\* Time passes, and Redis removes the keys whose time has come.
Tick ==
  /\ clock < MaxClock
  /\ clock' = clock + 1
  /\ window' = [k \in Key |-> IF /\ window[k].expires # NoTTL
                                 /\ window[k].expires <= clock + 1
                              THEN NoCounter ELSE window[k]]

LimiterInit ==
  /\ clock = 0
  /\ window = [k \in Key |-> NoCounter]
=============================================================================
