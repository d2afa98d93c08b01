-------------------------- MODULE AsyncClient_proofs --------------------------
(***************************************************************************)
(* Theorems about AsyncClient for any number of coroutines, permits,       *)
(* retries and any lengths of the interval and the waits.                  *)
(***************************************************************************)
EXTENDS AsyncClient, FiniteSetTheorems, TLAPS

(* A queue of tasks stays one when a task joins it or its head leaves. *)
LEMMA QueueTyping ==
  ASSUME NEW q \in Seq(Task), NEW t \in Task
  PROVE  /\ Append(q, t) \in Seq(Task)
         /\ q # << >> => Head(q) \in Task /\ Tail(q) \in Seq(Task)
  OBVIOUS

(* A backoff lasts a natural number of ticks. *)
LEMMA BackoffNat ==
  ASSUME NEW w \in Nat, NEW a \in 0..(MAX_RETRIES - 1)
  PROVE  Backoff(w, a) \in Nat
<1>1. 2^a \in Nat
  BY PowerAssumption
<1>. DEFINE p == 2^a
<1>2. w * p + Buffer \in Nat
  <2>. HIDE DEF p
  <2>. QED
    BY <1>1, ClientAssumption DEF p
<1>. QED
  BY <1>2 DEF Backoff

(* The step of every coroutine and the passing of time keep the types, given *)
(* that a released permit was held: the permits never exceed their number.   *)
LEMMA NextTypeOK ==
  ASSUME TypeOK, PermitsConserved, AttemptLeft, [Next]_vars
  PROVE  TypeOK'
<1> USE ClientAssumption DEF TypeOK, Pc, Kind
<1>0. /\ \A t \in Task : Append(rateQ, t) \in Seq(Task) /\ Append(semQ, t) \in Seq(Task)
      /\ rateQ # << >> => Tail(rateQ) \in Seq(Task)
      /\ semQ # << >> => Tail(semQ) \in Seq(Task)
  BY QueueTyping
<1>1. CASE Tick
  BY <1>1 DEF Tick, CountDown, taskVars, syncVars
<1>2. ASSUME NEW t \in Task, pc[t] \in {"inflight", "backoff"}
      PROVE  permits < MAX_CONCURRENT
  <2>1. IsFiniteSet(Holding) /\ t \in Holding
    BY <1>2, FS_Subset DEF Holding
  <2>2. Cardinality(Holding) \in Nat /\ Cardinality(Holding) # 0
    BY <2>1, FS_CardinalityType, FS_EmptySet
  <2>. QED
    BY <2>2 DEF PermitsConserved
<1>3. ASSUME NEW t \in Task, StartApi(t)
      PROVE  TypeOK'
  <2>1. pc' \in [Task -> Pc] /\ kind' \in [Task -> Kind]
    BY <1>3 DEF StartApi
  <2>2. calls' \in [Task -> 0..MaxCalls]
    BY <1>3 DEF StartApi
  <2>3. attempt' \in [Task -> 0..(MAX_RETRIES - 1)]
    BY <1>3 DEF StartApi
  <2>4. rateQ' \in Seq(Task) /\ semQ' \in Seq(Task)
    BY <1>3, <1>0 DEF StartApi
  <2>5. /\ embargo' \in [Task -> Nat] /\ timer' \in [Task -> Nat]
        /\ unheard' \in [Task -> BOOLEAN]
    BY <1>3 DEF StartApi, Unembargoed
  <2>6. permits' \in 0..MAX_CONCURRENT /\ elapsed' \in 0..Interval /\ tokens' \in Int
    BY <1>3 DEF StartApi
  <2>. QED
    BY <2>1, <2>2, <2>3, <2>4, <2>5, <2>6
<1>4. ASSUME NEW t \in Task, StartPdf(t)
      PROVE  TypeOK'
  <2>1. pc' \in [Task -> Pc] /\ kind' \in [Task -> Kind]
    BY <1>4 DEF StartPdf
  <2>2. calls' \in [Task -> 0..MaxCalls]
    BY <1>4, SMTT(30) DEF StartPdf
  <2>3. attempt' \in [Task -> 0..(MAX_RETRIES - 1)]
    BY <1>4 DEF StartPdf
  <2>4. rateQ' \in Seq(Task) /\ semQ' \in Seq(Task)
    BY <1>4, <1>0 DEF StartPdf
  <2>5. /\ embargo' \in [Task -> Nat] /\ timer' \in [Task -> Nat]
        /\ unheard' \in [Task -> BOOLEAN]
    BY <1>4 DEF StartPdf, Unembargoed
  <2>6. permits' \in 0..MAX_CONCURRENT /\ elapsed' \in 0..Interval /\ tokens' \in Int
    BY <1>4 DEF StartPdf
  <2>. QED
    BY <2>1, <2>2, <2>3, <2>4, <2>5, <2>6
<1>5. ASSUME NEW t \in Task, PassLimiter(t)
      PROVE  TypeOK'
  <2>1. pc' \in [Task -> Pc] /\ UNCHANGED <<kind, calls, attempt, timer, embargo, unheard>>
    BY <1>5 DEF PassLimiter, SendRequest
  <2>2. rateQ' \in Seq(Task) /\ semQ' \in Seq(Task)
    BY <1>5, <1>0 DEF PassLimiter
  <2>3. permits' \in 0..MAX_CONCURRENT
    <3>1. permits' = permits \/ (permits > 0 /\ permits' = permits - 1)
      BY <1>5 DEF PassLimiter
    <3>. QED
      BY <3>1
  <2>4. elapsed' \in 0..Interval
    BY <1>5 DEF PassLimiter
  <2>5. tokens' \in Int
    BY <1>5 DEF PassLimiter, SendRequest
  <2>. QED
    BY <2>1, <2>2, <2>3, <2>4, <2>5
<1>6. ASSUME NEW t \in Task, Granted(t)
      PROVE  TypeOK'
  <2>1. pc' \in [Task -> Pc] /\ UNCHANGED <<kind, calls, attempt, elapsed, timer, embargo, unheard>>
    BY <1>6 DEF Granted, SendRequest
  <2>2. rateQ' \in Seq(Task) /\ semQ' \in Seq(Task)
    BY <1>6, <1>0 DEF Granted
  <2>3. permits' \in 0..MAX_CONCURRENT
    BY <1>6 DEF Granted
  <2>4. tokens' \in Int
    BY <1>6 DEF Granted, SendRequest
  <2>. QED
    BY <2>1, <2>2, <2>3, <2>4
<1>7. ASSUME NEW t \in Task, EndCall(t)
      PROVE  TypeOK'
  BY <1>7, <1>2 DEF EndCall, timeVars
<1>8. ASSUME NEW t \in Task, Throttled(t)
      PROVE  TypeOK'
  <2>1. PICK w \in Waits, read \in BOOLEAN : NamedWait(t, w, read)
    BY <1>8 DEF Throttled
  <2>2. w \in Nat /\ Backoff(WaitSeconds(w, read), attempt[t]) \in Nat
    BY BackoffNat DEF WaitSeconds
  <2>3. /\ timer' \in [Task -> Nat] /\ embargo' \in [Task -> Nat]
        /\ unheard' \in [Task -> BOOLEAN]
    BY <2>1, <2>2 DEF NamedWait
  <2>. QED
    BY <1>8, <2>3 DEF Throttled, syncVars
<1>9. ASSUME NEW t \in Task, Retry(t)
      PROVE  TypeOK'
  BY <1>9, <1>2, <1>0 DEF Retry, timeVars, AttemptLeft
<1>10. CASE UNCHANGED vars
  BY <1>10 DEF vars
<1>. QED
  BY <1>1, <1>3, <1>4, <1>5, <1>6, <1>7, <1>8, <1>9, <1>10 DEF Next, TaskNext
-----------------------------------------------------------------------------
(* A set of coroutines is finite, and grows or shrinks by one with a member. *)
LEMMA TaskSets ==
  ASSUME NEW S \in SUBSET Task, NEW t \in Task
  PROVE  /\ IsFiniteSet(S) /\ Cardinality(S) \in Nat /\ Cardinality(S) <= Cardinality(Task)
         /\ t \notin S => Cardinality(S \union {t}) = Cardinality(S) + 1
         /\ t \in S => Cardinality(S \ {t}) = Cardinality(S) - 1 /\ Cardinality(S) > 0
<1>1. IsFiniteSet(S) /\ Cardinality(S) <= Cardinality(Task)
  BY FS_Subset, ClientAssumption
<1>2. Cardinality(S) \in Nat
  BY <1>1, FS_CardinalityType
<1>3. t \notin S => Cardinality(S \union {t}) = Cardinality(S) + 1
  BY <1>1, FS_AddElement
<1>4. t \in S => Cardinality(S \ {t}) = Cardinality(S) - 1
  BY <1>1, FS_RemoveElement
<1>5. t \in S => Cardinality(S) > 0
  <2>1. t \in S => S # {}
    OBVIOUS
  <2>. QED
    BY <2>1, <1>1, <1>2, FS_EmptySet
<1>. QED
  BY <1>1, <1>2, <1>3, <1>4, <1>5

(* What each step does to the permits and to the set that holds them. *)
LEMMA NextPermits ==
  ASSUME TypeOK, PermitsConserved, AttemptLeft, [Next]_vars
  PROVE  PermitsConserved'
<1> USE DEF TypeOK, Pc, Kind
<1>1. ASSUME NEW t \in Task, t \notin Holding, Holding' = Holding \union {t},
             permits' = permits - 1
      PROVE  PermitsConserved'
  <2>1. Cardinality(Holding') = Cardinality(Holding) + 1 /\ Cardinality(Holding) \in Nat
    BY <1>1, TaskSets DEF Holding
  <2>. QED
    BY <1>1, <2>1, ClientAssumption DEF PermitsConserved
<1>2. ASSUME NEW t \in Task, t \in Holding, Holding' = Holding \ {t}, permits' = permits + 1
      PROVE  PermitsConserved'
  <2>1. Cardinality(Holding') = Cardinality(Holding) - 1 /\ Cardinality(Holding) \in Nat
    BY <1>2, TaskSets DEF Holding
  <2>. QED
    BY <1>2, <2>1, ClientAssumption DEF PermitsConserved
<1>3. ASSUME Holding' = Holding, permits' = permits
      PROVE  PermitsConserved'
  BY <1>3 DEF PermitsConserved
<1>4. CASE Tick
  BY <1>4, <1>3 DEF Tick, taskVars, syncVars, Holding
<1>5. ASSUME NEW t \in Task, StartApi(t)
      PROVE  PermitsConserved'
  BY <1>5, <1>3 DEF StartApi, Holding
<1>6. ASSUME NEW t \in Task, StartPdf(t)
      PROVE  PermitsConserved'
  <2>1. CASE permits' = permits - 1 /\ pc'[t] = "limiter"
    <3>1. t \notin Holding /\ Holding' = Holding \union {t}
      BY <1>6, <2>1 DEF StartPdf, Holding
    <3>. QED
      BY <3>1, <2>1, <1>1
  <2>2. CASE permits' = permits /\ pc'[t] = "semaphore"
    BY <1>6, <2>2, <1>3 DEF StartPdf, Holding
  <2>. QED
    BY <1>6, <2>1, <2>2 DEF StartPdf
<1>7. ASSUME NEW t \in Task, PassLimiter(t)
      PROVE  PermitsConserved'
  <2>1. CASE kind[t] = "pdf"
    BY <1>7, <2>1, <1>3 DEF PassLimiter, SendRequest, Holding
  <2>2. CASE kind[t] = "api" /\ permits' = permits - 1 /\ SendRequest(t)
    <3>1. t \notin Holding /\ Holding' = Holding \union {t}
      BY <1>7, <2>2 DEF PassLimiter, SendRequest, Holding
    <3>. QED
      BY <3>1, <2>2, <1>1
  <2>3. CASE kind[t] = "api" /\ permits' = permits /\ pc' = [pc EXCEPT ![t] = "semaphore"]
    BY <1>7, <2>3, <1>3 DEF PassLimiter, Holding
  <2>. QED
    BY <1>7, <2>1, <2>2, <2>3 DEF PassLimiter
<1>8. ASSUME NEW t \in Task, Granted(t)
      PROVE  PermitsConserved'
  <2>1. t \notin Holding /\ Holding' = Holding \union {t}
    BY <1>8 DEF Granted, SendRequest, Holding
  <2>2. permits' = permits - 1
    BY <1>8 DEF Granted
  <2>. QED
    BY <2>1, <2>2, <1>1
<1>9. ASSUME NEW t \in Task, EndCall(t)
      PROVE  PermitsConserved'
  <2>1. t \in Holding /\ Holding' = Holding \ {t}
    BY <1>9 DEF EndCall, Holding
  <2>. QED
    BY <1>9, <2>1, <1>2 DEF EndCall
<1>10. ASSUME NEW t \in Task, Throttled(t)
       PROVE  PermitsConserved'
  BY <1>10, <1>3 DEF Throttled, syncVars, Holding
<1>11. ASSUME NEW t \in Task, Retry(t)
       PROVE  PermitsConserved'
  <2>1. t \in Holding /\ Holding' = Holding \ {t}
    BY <1>11 DEF Retry, Holding, AttemptLeft
  <2>. QED
    BY <1>11, <2>1, <1>2 DEF Retry
<1>12. CASE UNCHANGED vars
  BY <1>12, <1>3 DEF vars, Holding
<1>. QED
  BY <1>4, <1>5, <1>6, <1>7, <1>8, <1>9, <1>10, <1>11, <1>12 DEF Next, TaskNext
LEMMA NextAttemptLeft ==
  ASSUME TypeOK, AttemptLeft, [Next]_vars
  PROVE  AttemptLeft'
<1> USE DEF TypeOK, Pc, Kind, AttemptLeft
<1>1. CASE Tick
  BY <1>1 DEF Tick, taskVars
<1>2. ASSUME NEW t \in Task, StartApi(t) \/ StartPdf(t)
      PROVE  AttemptLeft'
  BY <1>2 DEF StartApi, StartPdf
<1>3. ASSUME NEW t \in Task, PassLimiter(t) \/ Granted(t)
      PROVE  AttemptLeft'
  BY <1>3 DEF PassLimiter, Granted, SendRequest
<1>4. ASSUME NEW t \in Task, EndCall(t) \/ Throttled(t) \/ Retry(t)
      PROVE  AttemptLeft'
  BY <1>4 DEF EndCall, Throttled, Retry
<1>5. CASE UNCHANGED vars
  BY <1>5 DEF vars
<1>. QED
  BY <1>1, <1>2, <1>3, <1>4, <1>5 DEF Next, TaskNext

-----------------------------------------------------------------------------
(* A product grows by one factor at a time. *)
LEMMA OneMore ==
  ASSUME NEW n \in Nat
  PROVE  /\ Interval * (n + 1) = Interval * n + Interval
         /\ n > 0 => Interval * (n - 1) = Interval * n - Interval
         /\ Interval * n \in Nat
         /\ \A m \in Nat : n <= m => Interval * n <= Interval * m
  BY ClientAssumption

LEMMA LongerIntervals ==
  ASSUME NEW n \in Nat, NEW m \in Nat, n <= m
  PROVE  Interval * n <= Interval * m
  BY OneMore

(* Every pass in hand stays paid for, if the bucket is as deep as the backlog *)
(* of passes can be.                                                          *)
LEMMA NextPassesPaid ==
  ASSUME TypeOK, PassesPaid, [Next]_vars, Burst > Cardinality(Task)
  PROVE  PassesPaid'
<1> USE DEF TypeOK, Pc, Kind
<1>0. Passed \in SUBSET Task /\ Cardinality(Passed) \in Nat
      /\ Cardinality(Passed) <= Cardinality(Task)
  BY TaskSets, FS_Subset, FS_CardinalityType, ClientAssumption DEF Passed
<1>. DEFINE paid == Interval * Cardinality(Passed)
<1>1. /\ paid \in Nat /\ paid + elapsed <= tokens
      /\ Interval \in Nat /\ Interval > 0 /\ elapsed \in Nat /\ elapsed <= Interval /\ tokens \in Int
  BY <1>0, OneMore, ClientAssumption DEF PassesPaid
<1>2. ASSUME Passed' = Passed
      PROVE  paid' = paid
  BY <1>2
<1>3. ASSUME NEW t \in Task, t \notin Passed, Passed' = Passed \union {t}
      PROVE  paid' = paid + Interval
  <2>1. Cardinality(Passed') = Cardinality(Passed) + 1
    BY <1>0, <1>3, TaskSets
  <2>. QED
    BY <1>0, <2>1, OneMore
<1>4. ASSUME NEW t \in Task, t \in Passed, Passed' = Passed \ {t}
      PROVE  paid' = paid - Interval
  <2>1. Cardinality(Passed') = Cardinality(Passed) - 1 /\ Cardinality(Passed) > 0
    BY <1>0, <1>4, TaskSets
  <2>. QED
    BY <1>0, <2>1, OneMore
<1>5. SUFFICES paid' + elapsed' <= tokens'
  BY DEF PassesPaid
<1> HIDE DEF paid
<1>6. ASSUME paid' = paid, elapsed' = elapsed, tokens' = tokens
      PROVE  paid' + elapsed' <= tokens'
  BY <1>1, <1>6
<1>7. CASE Tick
  <2>1. Passed' = Passed
    BY <1>7 DEF Tick, taskVars, Passed
  <2>2. paid + Interval <= Burst * Interval
    <3>1. Interval * Cardinality(Passed) <= Interval * Cardinality(Task)
      <4>1. Cardinality(Task) \in Nat
        BY FS_CardinalityType, ClientAssumption
      <4>. QED
        BY <1>0, <4>1, OneMore
    <3>2. Interval * (Cardinality(Task) + 1) <= Interval * Burst
      <4>1. Cardinality(Task) \in Nat /\ Burst \in Nat
        BY FS_CardinalityType, ClientAssumption
      <4>2. Cardinality(Task) + 1 \in Nat /\ Cardinality(Task) + 1 <= Burst
        BY <4>1
      <4>. QED
        BY <4>1, <4>2, LongerIntervals
    <3>3. Interval * (Cardinality(Task) + 1) = Interval * Cardinality(Task) + Interval
      BY OneMore, FS_CardinalityType, ClientAssumption
    <3>. QED
      BY <3>1, <3>2, <3>3, <1>0, OneMore, FS_CardinalityType, ClientAssumption DEF paid
  <2>3. Burst * Interval \in Nat
    BY ClientAssumption
  <2>4. /\ elapsed' = IF elapsed < Interval THEN elapsed + 1 ELSE Interval
        /\ tokens' = IF tokens < Burst * Interval THEN tokens + 1 ELSE Burst * Interval
    BY <1>7 DEF Tick
  <2>. DEFINE full == Burst * Interval
  <2>. HIDE DEF full
  <2>5. tokens' = IF tokens < full THEN tokens + 1 ELSE full
    BY <2>4 DEF full
  <2>6. paid + Interval <= full /\ full \in Nat
    BY <2>2, <2>3 DEF full
  <2>. QED
    BY <1>1, <2>1, <1>2, <2>4, <2>5, <2>6
<1>8. ASSUME NEW t \in Task, StartApi(t) \/ StartPdf(t)
      PROVE  paid' + elapsed' <= tokens'
  <2>1. Passed' = Passed
    BY <1>8 DEF StartApi, StartPdf, Passed
  <2>. QED
    BY <1>8, <2>1, <1>2, <1>6 DEF StartApi, StartPdf
<1>9. ASSUME NEW t \in Task, PassLimiter(t)
      PROVE  paid' + elapsed' <= tokens'
  <2>1. elapsed = Interval /\ elapsed' = 0
    BY <1>9 DEF PassLimiter
  <2>2. CASE SendRequest(t)
    <3>1. Passed' = Passed
      BY <1>9, <2>2 DEF PassLimiter, SendRequest, Passed
    <3>. QED
      BY <3>1, <2>1, <2>2, <1>1, <1>2 DEF SendRequest
  <2>3. CASE kind[t] = "api" /\ pc' = [pc EXCEPT ![t] = "semaphore"] /\ tokens' = tokens
    <3>1. t \notin Passed /\ Passed' = Passed \union {t}
      BY <1>9, <2>3 DEF PassLimiter, Passed
    <3>. QED
      BY <3>1, <2>1, <2>3, <1>1, <1>3
  <2>. QED
    BY <1>9, <2>2, <2>3 DEF PassLimiter
<1>10. ASSUME NEW t \in Task, Granted(t)
       PROVE  paid' + elapsed' <= tokens'
  <2>1. elapsed' = elapsed
    BY <1>10 DEF Granted
  <2>2. CASE kind[t] = "api"
    <3>1. t \in Passed /\ Passed' = Passed \ {t}
      BY <1>10, <2>2 DEF Granted, SendRequest, Passed
    <3>2. tokens' = tokens - Interval
      BY <1>10, <2>2 DEF Granted, SendRequest
    <3>. QED
      BY <3>1, <3>2, <2>1, <1>1, <1>4
  <2>3. CASE kind[t] = "pdf"
    <3>1. Passed' = Passed /\ tokens' = tokens
      BY <1>10, <2>3 DEF Granted, Passed
    <3>. QED
      BY <3>1, <2>1, <1>2, <1>6
  <2>. QED
    BY <2>2, <2>3
<1>11. ASSUME NEW t \in Task, EndCall(t) \/ Throttled(t) \/ Retry(t)
       PROVE  paid' + elapsed' <= tokens'
  <2>1. Passed' = Passed
    BY <1>11 DEF EndCall, Throttled, Retry, Passed
  <2>. QED
    BY <1>11, <2>1, <1>2, <1>6 DEF EndCall, Throttled, Retry, timeVars
<1>12. CASE UNCHANGED vars
  <2>1. Passed' = Passed
    BY <1>12 DEF vars, Passed
  <2>. QED
    BY <1>12, <2>1, <1>2, <1>6 DEF vars
<1>. QED
  BY <1>7, <1>8, <1>9, <1>10, <1>11, <1>12 DEF Next, TaskNext
-----------------------------------------------------------------------------
(* What holds of the client whatever the bucket its sending is measured by. *)
Sound == TypeOK /\ PermitsConserved /\ AttemptLeft

LEMMA InitSound == Init => Sound
<1> SUFFICES ASSUME Init PROVE Sound
  OBVIOUS
<1>1. TypeOK
  BY ClientAssumption DEF Init, TypeOK, Pc, Kind
<1>2. Holding = {}
  BY DEF Init, Holding
<1>3. PermitsConserved
  BY <1>2, FS_EmptySet, ClientAssumption DEF Init, PermitsConserved
<1>4. AttemptLeft
  BY DEF Init, AttemptLeft
<1>. QED
  BY <1>1, <1>3, <1>4 DEF Sound

LEMMA AlwaysSound == Spec => []Sound
<1>1. Sound /\ [Next]_vars => Sound'
  BY NextTypeOK, NextPermits, NextAttemptLeft DEF Sound
<1>. QED
  BY InitSound, <1>1, PTL DEF Spec

(* Every variable keeps its type: the permits stay between 0 and their number, *)
(* and the attempt never runs past the last one (client.py:625, 649).          *)
THEOREM TypeCorrect == Spec => []TypeOK
  BY AlwaysSound, PTL DEF Sound

(* No path through the client leaks a permit or gives one back twice *)
(* (client.py:627-656 and 948-953).                                  *)
THEOREM PermitsAlwaysConserved == Spec => []PermitsConserved
  BY AlwaysSound, PTL DEF Sound

LEMMA AlwaysPassesPaid == Burst > Cardinality(Task) => (Spec => []PassesPaid)
<1> SUFFICES ASSUME Burst > Cardinality(Task) PROVE Spec => []PassesPaid
  OBVIOUS
<1>1. Init => PassesPaid
  <2> SUFFICES ASSUME Init PROVE PassesPaid
    OBVIOUS
  <2>1. Passed = {} /\ elapsed = Interval /\ tokens = Burst * Interval
    BY DEF Init, Passed
  <2>2. Cardinality(Passed) = 0 /\ Interval * 0 = 0
    BY <2>1, FS_EmptySet, ClientAssumption
  <2>3. Interval * 1 <= Interval * Burst
    BY OneMore, ClientAssumption
  <2>. QED
    BY <2>1, <2>2, <2>3, ClientAssumption DEF PassesPaid
<1>2. TypeOK /\ PassesPaid /\ [Next]_vars => PassesPaid'
  BY NextPassesPaid
<1>. QED
  BY <1>1, <1>2, TypeCorrect, PTL DEF Spec

-----------------------------------------------------------------------------
(* A backoff is never shorter than the wait the server asked for. *)
LEMMA BackoffCoversWait ==
  ASSUME NEW w \in Nat, NEW a \in 0..(MAX_RETRIES - 1)
  PROVE  w <= Backoff(w, a)
<1>. DEFINE p == 2^a
<1>1. p \in Nat \ {0}
  BY PowerAssumption
<1>. HIDE DEF p
<1>2. w * 1 <= w * p
  <2>1. \A i \in Nat : w * 1 <= w * (1 + i)
    BY SMT
  <2>2. p - 1 \in Nat /\ p = 1 + (p - 1)
    BY <1>1
  <2>. QED
    BY <2>1, <2>2
<1>3. w <= w * p + Buffer
  <2>1. w * p \in Nat /\ w * 1 = w
    BY <1>1
  <2>. QED
    BY <1>2, <2>1, ClientAssumption
<1>. QED
  BY <1>3 DEF Backoff, p

(* Why no wait is cut short: an embargo is only running while its coroutine *)
(* sleeps, and the sleep outlasts it, unless the wait was not heard.        *)
EmbargoCovered ==
  \A t \in Task : \/ unheard[t]
                  \/ IF pc[t] = "backoff" THEN embargo[t] <= timer[t] ELSE embargo[t] = 0

LEMMA NextEmbargoCovered ==
  ASSUME TypeOK, EmbargoCovered, [Next]_vars
  PROVE  EmbargoCovered'
<1> USE DEF TypeOK, Pc, EmbargoCovered
<1>1. CASE Tick
  <2> SUFFICES ASSUME NEW u \in Task
               PROVE  \/ unheard'[u]
                      \/ IF pc'[u] = "backoff" THEN embargo'[u] <= timer'[u]
                                              ELSE embargo'[u] = 0
    OBVIOUS
  <2>1. /\ pc' = pc
        /\ embargo'[u] = IF embargo[u] > 0 THEN embargo[u] - 1 ELSE 0
        /\ timer'[u] = IF timer[u] > 0 THEN timer[u] - 1 ELSE 0
        /\ unheard'[u] = (unheard[u] /\ embargo[u] > 1)
    BY <1>1 DEF Tick, CountDown, taskVars
  <2>. QED
    BY <2>1
<1>2. ASSUME NEW t \in Task, StartApi(t) \/ StartPdf(t)
      PROVE  EmbargoCovered'
  BY <1>2 DEF StartApi, StartPdf, Unembargoed
<1>3. ASSUME NEW t \in Task, PassLimiter(t) \/ Granted(t)
      PROVE  EmbargoCovered'
  BY <1>3 DEF PassLimiter, Granted, SendRequest
<1>4. ASSUME NEW t \in Task, EndCall(t)
      PROVE  EmbargoCovered'
  BY <1>4 DEF EndCall, timeVars
<1>5. ASSUME NEW t \in Task, Throttled(t)
      PROVE  EmbargoCovered'
  <2>1. PICK w \in Waits, read \in BOOLEAN : NamedWait(t, w, read)
    BY <1>5 DEF Throttled
  <2>. DEFINE taken == WaitSeconds(w, read)
              sleep == Backoff(taken, attempt[t])
  <2>2. w \in Nat /\ taken \in Nat /\ taken <= sleep /\ sleep \in Nat
    BY BackoffCoversWait, BackoffNat, ClientAssumption DEF WaitSeconds
  <2>3. w <= taken \/ (~read /\ w > DefaultWait)
    BY <2>2, ClientAssumption DEF WaitSeconds
  <2>4. timer'[t] = sleep /\ embargo'[t] = w /\ unheard'[t] = (~read /\ w > DefaultWait)
    BY <2>1 DEF NamedWait
  <2>5. \A u \in Task \ {t} : /\ timer'[u] = timer[u] /\ embargo'[u] = embargo[u]
                             /\ unheard'[u] = unheard[u] /\ pc'[u] = pc[u]
    BY <1>5, <2>1 DEF NamedWait, Throttled
  <2>6. pc'[t] = "backoff"
    BY <1>5 DEF Throttled
  <2>. HIDE DEF taken, sleep
  <2>7. w <= taken => embargo'[t] <= timer'[t]
    BY <2>2, <2>4
  <2>8. ~read /\ w > DefaultWait => unheard'[t]
    BY <2>4, Zenon
  <2>. QED
    BY <2>3, <2>5, <2>6, <2>7, <2>8
<1>6. ASSUME NEW t \in Task, Retry(t)
      PROVE  EmbargoCovered'
  BY <1>6 DEF Retry, timeVars
<1>7. CASE UNCHANGED vars
  BY <1>7 DEF vars
<1>. QED
  BY <1>1, <1>2, <1>3, <1>4, <1>5, <1>6, <1>7 DEF Next, TaskNext

(* A coroutine enters the network from the limiter or the semaphore, where no *)
(* embargo runs that was heard.                                               *)
SentFree ==
  \A t \in Task : pc[t] # "inflight" /\ pc'[t] = "inflight" => embargo[t] = 0 \/ unheard[t]

LEMMA SendsAfterWait ==
  ASSUME TypeOK, EmbargoCovered, [Next]_vars
  PROVE  SentFree
<1> SUFFICES ASSUME NEW t \in Task, pc[t] # "inflight", pc'[t] = "inflight"
             PROVE  pc[t] \in {"limiter", "semaphore"}
  BY DEF SentFree, EmbargoCovered
<1>1. PICK u \in Task : TaskNext(u)
  BY DEF Next, Tick, taskVars, vars
<1>. QED
  BY <1>1 DEF TypeOK, Pc, TaskNext, StartApi, StartPdf, PassLimiter, Granted, SendRequest,
              EndCall, Throttled, Retry

(* A coroutine the server told to wait sends nothing before the wait is over, *)
(* if the wait is no longer than the default or was named in a form the loop  *)
(* reads, whatever the waits and the default are (client.py:630-652).         *)
THEOREM WaitsAlwaysHonoured == Spec => ServerWaitHonoured
<1>1. Init => EmbargoCovered
  BY DEF Init, EmbargoCovered
<1>2. TypeOK /\ EmbargoCovered /\ [Next]_vars => EmbargoCovered'
  BY NextEmbargoCovered
<1>3. TypeOK /\ EmbargoCovered /\ [Next]_vars => [SentFree]_vars
  BY SendsAfterWait
<1>4. Spec => [][SentFree]_vars
  BY <1>1, <1>2, <1>3, TypeCorrect, PTL DEF Spec
<1>. QED
  BY <1>4 DEF ServerWaitHonoured, SentFree

(* The inductive invariant of the client, at the depth of the bucket at which  *)
(* every coroutine may have a pass of the limiter in hand (client.py:570-656). *)
THEOREM ClientInvariant == Burst > Cardinality(Task) => (Spec => []IInv)
<1> SUFFICES ASSUME Burst > Cardinality(Task) PROVE Spec => []IInv
  OBVIOUS
<1>1. Sound /\ PassesPaid => IInv
  BY DEF Sound, IInv
<1>. QED
  BY <1>1, AlwaysSound, AlwaysPassesPaid, PTL

-----------------------------------------------------------------------------
(* A coroutine that sends holds a permit and pays with its pass: the gate has *)
(* a free place and a token for it.                                           *)
LEMMA SendAllowed ==
  ASSUME TypeOK, PermitsConserved, PassesPaid, NEW t \in Task, SendRequest(t),
         PassLimiter(t) \/ Granted(t)
  PROVE  Gate!Send(t)
<1> USE DEF TypeOK, Pc, Kind
<1>1. t \notin InFlight /\ InFlight' = InFlight \union {t}
  BY DEF SendRequest, PassLimiter, Granted, InFlight
<1>2. InFlight \in SUBSET Holding /\ Holding \in SUBSET Task
  BY DEF InFlight, Holding
<1>3. Cardinality(InFlight) < MAX_CONCURRENT
  <2>1. /\ IsFiniteSet(Holding) /\ Cardinality(Holding) \in Nat
        /\ Cardinality(InFlight) \in Nat /\ Cardinality(InFlight) <= Cardinality(Holding)
    BY <1>2, TaskSets, FS_Subset, FS_CardinalityType
  <2>2. CASE permits > 0
    BY <2>1, <2>2, ClientAssumption DEF PermitsConserved
  <2>3. CASE t \in Holding
    <3>1. Cardinality(InFlight) # Cardinality(Holding)
      BY <1>1, <1>2, <2>1, <2>3, FS_Subset
    <3>. QED
      BY <2>1, <3>1, ClientAssumption DEF PermitsConserved
  <2>4. permits > 0 \/ t \in Holding
    BY DEF PassLimiter, Granted, SendRequest, Holding
  <2>. QED
    BY <2>2, <2>3, <2>4
<1>4. tokens >= Interval
  <2>. DEFINE paid == Interval * Cardinality(Passed)
  <2>1. Passed \in SUBSET Task /\ Cardinality(Passed) \in Nat
    BY TaskSets DEF Passed
  <2>2. paid \in Nat /\ paid + elapsed <= tokens /\ elapsed \in Nat /\ Interval \in Nat
    BY <2>1, OneMore, ClientAssumption DEF PassesPaid
  <2>3. CASE PassLimiter(t)
    <3>1. elapsed = Interval
      BY <2>3 DEF PassLimiter
    <3>. HIDE DEF paid
    <3>. QED
      BY <2>2, <3>1
  <2>4. CASE Granted(t)
    <3>1. t \in Passed
      BY <2>4 DEF Granted, SendRequest, Passed
    <3>2. Cardinality(Passed) > 0
      BY <2>1, <3>1, TaskSets
    <3>3. Interval * 1 <= paid
      <4>1. 1 <= Cardinality(Passed)
        BY <2>1, <3>2
      <4>. QED
        BY <2>1, <4>1, OneMore
    <3>4. Interval <= paid
      BY <3>3, ClientAssumption
    <3>. HIDE DEF paid
    <3>. QED
      BY <2>2, <3>4
  <2>. QED
    BY <2>3, <2>4
<1>5. tokens' = tokens - Interval
  BY DEF SendRequest
<1>6. Cardinality(InFlight) = Gate!Cardinality(InFlight)
  BY Zenon DEF Cardinality, Gate!Cardinality
<1>. QED
  BY <1>1, <1>3, <1>4, <1>5, <1>6 DEF Gate!Send

LEMMA NextGate ==
  ASSUME TypeOK, PermitsConserved, AttemptLeft, PassesPaid, [Next]_vars
  PROVE  [Gate!Next]_(Gate!gateVars)
<1> USE DEF TypeOK, Pc, Kind
<1>1. CASE Tick
  <2>1. InFlight' = InFlight
    BY <1>1 DEF Tick, taskVars, InFlight
  <2>2. Gate!Refill
    BY <1>1, <2>1 DEF Tick, Gate!Refill, Gate!Full
  <2>. QED
    BY <2>2 DEF Gate!Next
<1>2. ASSUME NEW t \in Task, SendRequest(t), PassLimiter(t) \/ Granted(t)
      PROVE  Gate!Next
  BY <1>2, SendAllowed DEF Gate!Next
<1>3. ASSUME NEW t \in Task, EndCall(t) \/ Throttled(t)
      PROVE  Gate!Next
  <2>1. t \in InFlight /\ InFlight' = InFlight \ {t} /\ tokens' = tokens
    BY <1>3 DEF EndCall, Throttled, InFlight, timeVars
  <2>. QED
    BY <2>1 DEF Gate!Next, Gate!Finish
<1>4. ASSUME InFlight' = InFlight, tokens' = tokens
      PROVE  UNCHANGED Gate!gateVars
  BY <1>4 DEF Gate!gateVars
<1>5. ASSUME NEW t \in Task, StartApi(t) \/ StartPdf(t) \/ Retry(t)
      PROVE  UNCHANGED Gate!gateVars
  BY <1>5, <1>4 DEF StartApi, StartPdf, Retry, InFlight, timeVars
<1>6. ASSUME NEW t \in Task, PassLimiter(t), ~SendRequest(t)
      PROVE  UNCHANGED Gate!gateVars
  BY <1>6, <1>4 DEF PassLimiter, InFlight
<1>7. ASSUME NEW t \in Task, Granted(t), ~SendRequest(t)
      PROVE  UNCHANGED Gate!gateVars
  BY <1>7, <1>4 DEF Granted, InFlight
<1>8. CASE UNCHANGED vars
  BY <1>8, <1>4 DEF vars, InFlight
<1>. QED
  BY <1>1, <1>2, <1>3, <1>5, <1>6, <1>7, <1>8 DEF Next, TaskNext

(* The client keeps the promise of RequestGate: at most MAX_CONCURRENT open   *)
(* requests, sent at the limiter's rate but for the backlog that the          *)
(* semaphore held up (client.py:570-574, 600-611, 626-627, 948-950).          *)
THEOREM GateImplemented == Burst > Cardinality(Task) => (Spec => ImplementsGate)
<1> SUFFICES ASSUME Burst > Cardinality(Task) PROVE Spec => Gate!Spec
  BY DEF ImplementsGate
<1>1. Init => Gate!Init
  BY DEF Init, Gate!Init, Gate!Full, InFlight
<1>2. Sound /\ PassesPaid /\ [Next]_vars => [Gate!Next]_(Gate!gateVars)
  BY NextGate DEF Sound
<1>3. Spec => []PassesPaid
  BY AlwaysPassesPaid
<1>. QED
  BY <1>1, <1>2, <1>3, AlwaysSound, PTL DEF Spec, Gate!Spec
=============================================================================
