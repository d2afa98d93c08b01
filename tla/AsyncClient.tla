----------------------------- MODULE AsyncClient -----------------------------
(***************************************************************************)
(* AsyncCourtListenerClient of src/citation_verifier/client.py: the        *)
(* coroutines that share one client, its rate limiter (an asyncio.Lock and *)
(* the time of the last pass), its semaphore, the 429 retry loop, and the  *)
(* PDF download that takes the two in the opposite order.                  *)
(*                                                                         *)
(* A step is what one coroutine does between two awaits that can suspend.  *)
(* asyncio.Lock and asyncio.Semaphore are FIFO: a task that arrives while  *)
(* others wait queues behind them.  Time is discrete; `elapsed` saturates  *)
(* at Interval, because the code only asks whether it is that large.       *)
(***************************************************************************)
EXTENDS Integers, Sequences, FiniteSets

CONSTANTS
  Task,            \* coroutines that share the client
  MaxCalls,        \* bound: the calls one coroutine makes
  MAX_RETRIES,     \* attempts of one call
  MAX_CONCURRENT,  \* permits of the semaphore
  Interval,        \* MIN_REQUEST_INTERVAL, in ticks
  Buffer,          \* the extra second of a backoff, in ticks
  Waits,           \* the waits a 429 may name, in ticks
  DefaultWait,     \* the wait taken when none is read from the answer, in ticks
  Burst            \* depth of the token bucket the sending is measured by

ASSUME ClientAssumption ==
  /\ IsFiniteSet(Task)
  /\ MaxCalls \in Nat
  /\ MAX_RETRIES \in Nat \ {0}
  /\ MAX_CONCURRENT \in Nat \ {0}
  /\ Interval \in Nat \ {0}
  /\ Buffer \in Nat
  /\ Waits \subseteq Nat
  /\ DefaultWait \in Nat
  /\ Burst \in Nat \ {0}

(* tlapm has no theory of exponentiation; TLC evaluates this on every run. *)
ASSUME PowerAssumption == \A a \in 0..(MAX_RETRIES - 1) : 2^a \in Nat \ {0}

VARIABLES
  pc,       \* where each coroutine is suspended
  kind,     \* its current call: "api" (_request_with_retry) or "pdf"
  calls,    \* calls it still has to make
  attempt,  \* the loop variable of _request_with_retry
  rateQ,    \* _rate_lock: the head holds it, the others wait in order
  permits,  \* _semaphore: its value
  semQ,     \* _semaphore: its waiters, in order
  elapsed,  \* ticks since _last_request_time, up to Interval
  timer,    \* ticks until a backoff sleep ends
  embargo,  \* (history) ticks left of the wait the last 429 of the call named
  unheard,  \* (history) that wait is longer than the default, and was not read
  tokens    \* (history) level of a token bucket filled by time, emptied by sending

taskVars == <<pc, kind, calls, attempt>>
syncVars == <<rateQ, permits, semQ>>
timeVars == <<elapsed, timer, embargo, unheard, tokens>>
vars == <<pc, kind, calls, attempt, rateQ, permits, semQ, elapsed, timer, embargo,
          unheard, tokens>>

Kind == {"api", "pdf"}
Pc == {"idle", "limiter", "semaphore", "inflight", "backoff"}

InFlight == {t \in Task : pc[t] = "inflight"}

(* Inside `async with self._semaphore`: the PDF path is already there while *)
(* it goes through the limiter, the API path only from the request on.  The *)
(* backoff sleep is inside it too (client.py:652), although the docstring   *)
(* (:619) and a comment (:650) say that the semaphore is released there.    *)
Holding == {t \in Task : \/ pc[t] \in {"inflight", "backoff"}
                         \/ kind[t] = "pdf" /\ pc[t] = "limiter"}

TypeOK ==
  /\ pc \in [Task -> Pc]
  /\ kind \in [Task -> Kind]
  /\ calls \in [Task -> 0..MaxCalls]
  /\ attempt \in [Task -> 0..(MAX_RETRIES - 1)]
  /\ rateQ \in Seq(Task)
  /\ permits \in 0..MAX_CONCURRENT
  /\ semQ \in Seq(Task)
  /\ elapsed \in 0..Interval
  /\ timer \in [Task -> Nat]
  /\ embargo \in [Task -> Nat]
  /\ unheard \in [Task -> BOOLEAN]
  /\ tokens \in Int

(* The client is created with all permits and _last_request_time = 0, long ago. *)
Init ==
  /\ pc = [t \in Task |-> "idle"]
  /\ kind = [t \in Task |-> "api"]
  /\ calls = [t \in Task |-> MaxCalls]
  /\ attempt = [t \in Task |-> 0]
  /\ rateQ = << >>
  /\ permits = MAX_CONCURRENT
  /\ semQ = << >>
  /\ elapsed = Interval
  /\ timer = [t \in Task |-> 0]
  /\ embargo = [t \in Task |-> 0]
  /\ unheard = [t \in Task |-> FALSE]
  /\ tokens = Burst * Interval

-----------------------------------------------------------------------------
(* A new call of the coroutine starts with no wait named. *)
Unembargoed(t) ==
  /\ embargo' = [embargo EXCEPT ![t] = 0]
  /\ unheard' = [unheard EXCEPT ![t] = FALSE]

(* _request_with_retry begins: the first attempt asks for the rate lock. *)
StartApi(t) ==
  /\ pc[t] = "idle" /\ calls[t] > 0
  /\ pc' = [pc EXCEPT ![t] = "limiter"]
  /\ kind' = [kind EXCEPT ![t] = "api"]
  /\ calls' = [calls EXCEPT ![t] = @ - 1]
  /\ attempt' = [attempt EXCEPT ![t] = 0]
  /\ rateQ' = Append(rateQ, t)
  /\ Unembargoed(t)
  /\ UNCHANGED <<permits, semQ, elapsed, timer, tokens>>

(* The PDF fallback asks for the semaphore first; with a permit it goes to the *)
(* rate lock inside the semaphore.                                            *)
StartPdf(t) ==
  /\ pc[t] = "idle" /\ calls[t] > 0
  /\ kind' = [kind EXCEPT ![t] = "pdf"]
  /\ calls' = [calls EXCEPT ![t] = @ - 1]
  /\ attempt' = [attempt EXCEPT ![t] = 0]
  /\ Unembargoed(t)
  /\ \/ /\ permits > 0 /\ semQ = << >>
        /\ permits' = permits - 1
        /\ pc' = [pc EXCEPT ![t] = "limiter"]
        /\ rateQ' = Append(rateQ, t)
        /\ UNCHANGED semQ
     \/ /\ permits = 0 \/ semQ # << >>
        /\ pc' = [pc EXCEPT ![t] = "semaphore"]
        /\ semQ' = Append(semQ, t)
        /\ UNCHANGED <<permits, rateQ>>
  /\ UNCHANGED <<elapsed, timer, tokens>>

(* The HTTP request leaves: what the token bucket charges for. *)
SendRequest(t) ==
  /\ pc' = [pc EXCEPT ![t] = "inflight"]
  /\ tokens' = tokens - Interval

(* Seeded fault: the limiter never stamps _last_request_time. *)
PassLimiterUnstamped(t) ==
  /\ pc[t] = "limiter" /\ rateQ # << >> /\ Head(rateQ) = t
  /\ elapsed = Interval
  /\ rateQ' = Tail(rateQ)
  /\ \/ kind[t] = "pdf" /\ SendRequest(t) /\ UNCHANGED <<permits, semQ>>
     \/ /\ kind[t] = "api" /\ permits > 0 /\ semQ = << >>
        /\ permits' = permits - 1
        /\ SendRequest(t)
        /\ UNCHANGED semQ
  /\ UNCHANGED <<kind, calls, attempt, elapsed, timer, embargo, unheard>>

(* Seeded fault: the API path takes its permit inside the rate lock. *)
PassLimiterNested(t) ==
  /\ pc[t] = "limiter" /\ rateQ # << >> /\ Head(rateQ) = t
  /\ elapsed = Interval
  /\ elapsed' = 0
  /\ rateQ' = Tail(rateQ)
  /\ \/ kind[t] = "pdf" /\ SendRequest(t) /\ UNCHANGED <<permits, semQ>>
     \/ /\ kind[t] = "api" /\ permits > 0 /\ semQ = << >>
        /\ permits' = permits - 1
        /\ SendRequest(t)
        /\ UNCHANGED semQ
  /\ UNCHANGED <<kind, calls, attempt, timer, embargo, unheard>>

(* The holder of the rate lock has slept until the interval is over: it stamps *)
(* the time, releases the lock, and goes on to what follows _rate_limit().     *)
PassLimiter(t) ==
  /\ pc[t] = "limiter" /\ rateQ # << >> /\ Head(rateQ) = t
  /\ elapsed = Interval
  /\ elapsed' = 0
  /\ rateQ' = Tail(rateQ)
  /\ \/ /\ kind[t] = "pdf"
        /\ SendRequest(t)
        /\ UNCHANGED <<permits, semQ>>
     \/ /\ kind[t] = "api" /\ permits > 0 /\ semQ = << >>
        /\ permits' = permits - 1
        /\ SendRequest(t)
        /\ UNCHANGED semQ
     \/ /\ kind[t] = "api" /\ (permits = 0 \/ semQ # << >>)
        /\ pc' = [pc EXCEPT ![t] = "semaphore"]
        /\ semQ' = Append(semQ, t)
        /\ UNCHANGED <<permits, tokens>>
  /\ UNCHANGED <<kind, calls, attempt, timer, embargo, unheard>>

(* A released permit goes to the longest waiter. *)
Granted(t) ==
  /\ pc[t] = "semaphore" /\ semQ # << >> /\ Head(semQ) = t
  /\ permits > 0
  /\ permits' = permits - 1
  /\ semQ' = Tail(semQ)
  /\ \/ /\ kind[t] = "api"
        /\ SendRequest(t)
        /\ UNCHANGED rateQ
     \/ /\ kind[t] = "pdf"
        /\ pc' = [pc EXCEPT ![t] = "limiter"]
        /\ rateQ' = Append(rateQ, t)
        /\ UNCHANGED tokens
  /\ UNCHANGED <<kind, calls, attempt, elapsed, timer, embargo, unheard>>
-----------------------------------------------------------------------------
(* The call returns or raises: an answer, an HTTP error, a transport error, *)
(* the session's timeout, or the 429 of the last attempt.  Whatever it is,  *)
(* leaving `async with` releases the permit.                                *)
EndCall(t) ==
  /\ pc[t] = "inflight"
  /\ pc' = [pc EXCEPT ![t] = "idle"]
  /\ permits' = permits + 1
  /\ UNCHANGED <<kind, calls, attempt, rateQ, semQ, timeVars>>

(* Seeded fault: linear backoff that forgets the first wait. *)
LinearBackoff(w, a) == w * a + Buffer

Backoff(w, a) == w * 2^a + Buffer

(* What the loop takes from a 429 that names the wait w.  It reads w from the *)
(* body's wait_until, or, when the body cannot be read so far, from a         *)
(* Retry-After in seconds.  Beside a body that reads well but has no          *)
(* wait_until the header is never looked at, and one that holds a date is     *)
(* passed over: then w is not read, and the default is taken for it.          *)
WaitSeconds(w, read) == IF read THEN w ELSE DefaultWait

(* A 429 names a wait, in a form that is read or not; the coroutine will *)
(* sleep for what it took, doubled with every attempt.                   *)
NamedWait(t, w, read) ==
  /\ timer' = [timer EXCEPT ![t] = Backoff(WaitSeconds(w, read), attempt[t])]
  /\ embargo' = [embargo EXCEPT ![t] = w]
  /\ unheard' = [unheard EXCEPT ![t] = ~read /\ w > DefaultWait]

(* Seeded fault: the permit is given back before the sleep and again after it. *)
ThrottledReleasing(t) ==
  /\ pc[t] = "inflight" /\ kind[t] = "api"
  /\ attempt[t] < MAX_RETRIES - 1
  /\ \E w \in Waits, read \in BOOLEAN : NamedWait(t, w, read)
  /\ pc' = [pc EXCEPT ![t] = "backoff"]
  /\ permits' = permits + 1
  /\ UNCHANGED <<kind, calls, attempt, rateQ, semQ, elapsed, tokens>>

(* A 429 that is not the last attempt's: the coroutine sleeps where it is, *)
(* inside `async with self._semaphore`.                                    *)
Throttled(t) ==
  /\ pc[t] = "inflight" /\ kind[t] = "api"
  /\ attempt[t] < MAX_RETRIES - 1
  /\ \E w \in Waits, read \in BOOLEAN : NamedWait(t, w, read)
  /\ pc' = [pc EXCEPT ![t] = "backoff"]
  /\ UNCHANGED <<kind, calls, attempt, syncVars, elapsed, tokens>>

(* Seeded fault: `continue` from a hand-written acquire, with no release. *)
RetryLeaking(t) ==
  /\ pc[t] = "backoff" /\ timer[t] = 0
  /\ pc' = [pc EXCEPT ![t] = "limiter"]
  /\ attempt' = [attempt EXCEPT ![t] = @ + 1]
  /\ rateQ' = Append(rateQ, t)
  /\ UNCHANGED <<kind, calls, permits, semQ, timeVars>>

(* `continue`: the permit is released and the next attempt starts over. *)
Retry(t) ==
  /\ pc[t] = "backoff" /\ timer[t] = 0
  /\ pc' = [pc EXCEPT ![t] = "limiter"]
  /\ attempt' = [attempt EXCEPT ![t] = @ + 1]
  /\ permits' = permits + 1
  /\ rateQ' = Append(rateQ, t)
  /\ UNCHANGED <<kind, calls, semQ, timeVars>>

CountDown(f) == [t \in Task |-> IF f[t] > 0 THEN f[t] - 1 ELSE 0]

(* Time passes; a coroutine whose sleep is over may be resumed later. *)
Tick ==
  /\ elapsed' = IF elapsed < Interval THEN elapsed + 1 ELSE Interval
  /\ timer' = CountDown(timer)
  /\ embargo' = CountDown(embargo)
  /\ tokens' = IF tokens < Burst * Interval THEN tokens + 1 ELSE Burst * Interval
  /\ unheard' = [t \in Task |-> unheard[t] /\ embargo[t] > 1]
  /\ UNCHANGED <<taskVars, syncVars>>

TaskNext(t) ==
  \/ StartApi(t)
  \/ StartPdf(t)
  \/ PassLimiter(t)
  \/ Granted(t)
  \/ EndCall(t)
  \/ Throttled(t)
  \/ Retry(t)

Next == Tick \/ \E t \in Task : TaskNext(t)

Spec == Init /\ [][Next]_vars

(* The event loop resumes whatever can run, and the session's total timeout *)
(* ends every request; nothing makes a coroutine start a call.              *)
Fairness ==
  /\ WF_vars(Tick)
  /\ \A t \in Task : /\ WF_vars(PassLimiter(t))
                     /\ WF_vars(Granted(t))
                     /\ WF_vars(EndCall(t) \/ Throttled(t))
                     /\ WF_vars(Retry(t))

FairSpec == Spec /\ Fairness
-----------------------------------------------------------------------------
(* Every permit is free or held by exactly one coroutine that is inside    *)
(* `async with self._semaphore`, on every path in and out of it: the PDF   *)
(* download, the retry loop's `continue`, an exception.  A leaked permit   *)
(* would stall the client, a permit given back twice would lift its cap.   *)
(* A sleeper of a backoff is one of the holders: "the semaphore is         *)
(* released during backoff so other requests can proceed" (client.py:619)  *)
(* is not what the code does, and not what is claimed here.                *)
PermitsConserved == permits + Cardinality(Holding) = MAX_CONCURRENT

(* Only the API path sleeps, and only if an attempt is left to wake up to. *)
AttemptLeft ==
  \A t \in Task : pc[t] = "backoff" => kind[t] = "api" /\ attempt[t] < MAX_RETRIES - 1

(* Coroutines with a pass of the limiter in hand that still want a permit. *)
Passed == {t \in Task : kind[t] = "api" /\ pc[t] = "semaphore"}

(* Why the bucket is never overdrawn: every pass in hand is paid for, and  *)
(* so is the part of the interval that has gone by since the last one.     *)
PassesPaid == Interval * Cardinality(Passed) + elapsed <= tokens

(* The inductive invariant of the client. *)
IInv == TypeOK /\ PermitsConserved /\ AttemptLeft /\ PassesPaid

(* The requests CourtListener sees are those of a gate with MAX_CONCURRENT *)
(* places and a token bucket: the limiter spaces the passes, and what can  *)
(* go back to back is only the backlog the semaphore held up.              *)
Gate == INSTANCE RequestGate WITH
          Capacity <- MAX_CONCURRENT, open <- InFlight
ImplementsGate == Gate!Spec

(* A call that was told to wait sends its next request only after the wait *)
(* the server named is over, whatever the other coroutines do meanwhile;   *)
(* excepted is a wait longer than the default that the answer named in a   *)
(* form the loop does not read (client.py:630-648).  The two clocks are    *)
(* taken to agree on wait_until.                                           *)
ServerWaitHonoured ==
  [][\A t \in Task : pc[t] # "inflight" /\ pc'[t] = "inflight"
                       => embargo[t] = 0 \/ unheard[t]]_vars

(* Every call ends.  The API path takes the limiter before the semaphore   *)
(* and the PDF path takes them the other way round; nobody waits for ever  *)
(* because no path keeps the rate lock while it waits for a permit.        *)
EveryCallEnds == \A t \in Task : (pc[t] # "idle") ~> (pc[t] = "idle")
=============================================================================
