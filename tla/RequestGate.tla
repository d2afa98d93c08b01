----------------------------- MODULE RequestGate -----------------------------
(***************************************************************************)
(* What the asynchronous CourtListener client promises the server, with    *)
(* none of its machinery: at most Capacity requests are open at any moment *)
(* and requests are sent as a token bucket of depth Burst sends them, one  *)
(* token every Interval ticks.  The client's limiter and semaphore         *)
(* (AsyncClient) are shown to implement this specification.                *)
(***************************************************************************)
EXTENDS Integers, FiniteSets

CONSTANTS
  Task,      \* the coroutines that share one client
  Capacity,  \* open requests allowed at once
  Interval,  \* ticks one request costs
  Burst      \* requests that may go back to back after a quiet spell

VARIABLES
  open,   \* the tasks whose request the server is working on
  tokens  \* the level of the bucket, in ticks

gateVars == <<open, tokens>>

Full == Burst * Interval

Init ==
  /\ open = {}
  /\ tokens = Full

(* A task that has no open request sends one. *)
Send(t) ==
  /\ t \notin open
  /\ Cardinality(open) < Capacity
  /\ tokens >= Interval
  /\ open' = open \union {t}
  /\ tokens' = tokens - Interval

(* A request ends: an answer, an error or a timeout. *)
Finish(t) ==
  /\ t \in open
  /\ open' = open \ {t}
  /\ UNCHANGED tokens

Refill ==
  /\ tokens' = IF tokens < Full THEN tokens + 1 ELSE Full
  /\ UNCHANGED open

Next ==
  \/ \E t \in Task : Send(t) \/ Finish(t)
  \/ Refill

Spec == Init /\ [][Next]_gateVars
=============================================================================
