-------------------------- MODULE Transports_proofs --------------------------
(***************************************************************************)
(* Proofs about Transports, for any opinions, claims, recordings, number   *)
(* of threads and number of faults.  The invariant says of every job how   *)
(* far it is: one that waits has no claim with a verdict, one that is done *)
(* is among the failures or its verdicts are appended or about to be, no   *)
(* more of them than its answer has, and only the jobs of a run that has   *)
(* not ended can be on their way.                                          *)
(***************************************************************************)
EXTENDS Transports, FiniteSetTheorems, WellFoundedInduction, TLAPS

Counts == [Id -> Nat]

Reply == [kind: {"none", "auth", "error", "unparseable", "single", "packed"}, of: Counts]

ShadowOK ==
    /\ rows \in [ShadowClaim -> 0..1]
    /\ todo \in SUBSET ShadowClaim
    /\ \A c \in todo : rows[c] = 0

TransTypeOK ==
    /\ lines \in Counts /\ out \in Counts
    /\ pc \in {"idle", "shadow", "asking", "polling", "closing"}
    /\ transport \in Transport
    /\ asked \in [Opinion -> SUBSET AllClaims]
    /\ call \in [Opinion -> {"none", "queued", "sent", "back", "done"}]
    /\ reply \in [Opinion -> Reply]
    /\ failures \in SUBSET Opinion

\* The claims of a job that its answer speaks of.
Spoken(o) ==
    IF reply[o].kind = "packed" THEN {c \in asked[o] : reply[o].of[c] > 0} ELSE asked[o]

\* Claims with a verdict, appended or about to be.
Told == {c \in AllClaims : lines[c] > 0 \/ out[c] > 0}

\* None of the claims of a job has a verdict.
Untold(o) == \A c \in asked[o] : lines[c] = 0 /\ out[c] = 0

Accounted(o) ==
    \/ o \in failures /\ Fails(o, reply[o])
    \/ reply[o].kind \notin {"error", "unparseable"} /\ Spoken(o) \subseteq Told

JobOK(o) ==
    /\ asked[o] \subseteq Claims[o]
    /\ call[o] = "none" => asked[o] = {}
    /\ call[o] \in {"queued", "sent"} => Untold(o)
    /\ call[o] = "back" /\ transport # "replay" => Untold(o) /\ reply[o].kind # "none"
    /\ call[o] \in {"back", "done"} => \A c \in asked[o] : lines[c] + out[c] <= Due(o, c)
    /\ call[o] = "done" => Accounted(o)
    /\ transport = "batch" => reply[o].kind # "auth"
    /\ transport = "replay" => reply[o].kind = "none" /\ call[o] # "sent"

\* A run that returned left nothing behind; verdicts wait only for a job that
\* answered.
RunOK ==
    /\ ended = "returned" =>
         pc = "idle" /\ out = Nothing /\ \A o \in Opinion : call[o] \in {"none", "done"}
    /\ pc = "shadow" => out = Nothing
    /\ \A c \in Id : out[c] > 0 =>
         \E o \in Opinion : c \in asked[o] /\ call[o] \in {"back", "done"}

TransInv ==
    /\ ShadowOK /\ TransTypeOK /\ RunOK
    /\ \A o \in Opinion : JobOK(o)

----------------------------------------------------------------------------
(* Operators *)

LEMMA NothingType == Nothing \in Counts /\ \A c \in Id : Nothing[c] = 0
BY DEF Nothing, Counts

LEMMA PackedType ==
    ASSUME NEW n \in Nat, NEW S, NEW e \in [1..n -> S]
    PROVE  [c \in Id |-> Cardinality({i \in DOMAIN e : e[i] = c})] \in Counts
<1>1. ASSUME NEW c \in Id PROVE Cardinality({i \in DOMAIN e : e[i] = c}) \in Nat
    <2>1. IsFiniteSet(1..n)
        BY FS_Interval
    <2>2. IsFiniteSet({i \in DOMAIN e : e[i] = c})
        BY <2>1, FS_Subset
    <2> QED
        BY <2>2, FS_CardinalityType
<1> QED
    BY <1>1 DEF Counts

LEMMA ReplyType ==
    ASSUME NEW o \in Opinion, NEW r \in Replies(o)
    PROVE  r \in Reply /\ r.kind # "none"
<1>1. CASE r \in Errors
    BY <1>1, NothingType DEF Errors, Reply
<1>2. CASE r = Whole
    BY <1>2, NothingType DEF Whole, Reply
<1>3. ASSUME NEW n \in 0..MaxEntries[o], NEW e \in [1..n -> asked[o] \cup {Stranger}],
             r = [kind |-> "packed",
                  of |-> [c \in Id |-> Cardinality({i \in DOMAIN e : e[i] = c})]]
      PROVE  r \in Reply /\ r.kind # "none"
    <2> DEFINE of == [c \in Id |-> Cardinality({i \in DOMAIN e : e[i] = c})]
    <2>1. n \in Nat
        BY TransportAssumption
    <2>2. of \in Counts
        BY <2>1, PackedType
    <2>3. r = [kind |-> "packed", of |-> of]
        BY <1>3
    <2> HIDE DEF of
    <2> QED
        BY <2>2, <2>3 DEF Reply
<1> QED
    BY <1>1, <1>2, <1>3 DEF Replies

LEMMA NoReplyType == NoReply \in Reply /\ NoReply.kind = "none"
BY NothingType DEF NoReply, Reply

LEMMA ClaimIds == AllClaims \subseteq Id /\ \A o \in Opinion : Claims[o] \subseteq AllClaims
BY DEF Id, AllClaims

\* A claim is of one job.
LEMMA OneJob ==
    ASSUME TransInv, NEW o \in Opinion, NEW p \in Opinion, NEW c \in asked[o], c \in asked[p]
    PROVE  o = p
<1>1. c \in Claims[o] \cap Claims[p]
    BY DEF TransInv, JobOK
<1> QED
    BY <1>1, TransportAssumption

\* A reply that does not fail the job has a verdict for every claim it speaks of.
LEMMA FanOutSpoken ==
    ASSUME TransInv, NEW o \in Opinion, reply[o].kind \notin {"none", "auth"}
    PROVE  /\ FanOut(o, reply[o]) \in Counts
           /\ \A c \in Id : FanOut(o, reply[o])[c] > 0 => c \in asked[o]
           /\ \/ Fails(o, reply[o])
              \/ /\ reply[o].kind \notin {"error", "unparseable"}
                 /\ \A c \in Spoken(o) : FanOut(o, reply[o])[c] > 0
<1>1. asked[o] \subseteq Id /\ reply[o] \in Reply
    BY ClaimIds DEF TransInv, TransTypeOK
<1>2. reply[o].of \in Counts
    BY <1>1 DEF Reply
<1>3. /\ FanOut(o, reply[o]) \in Counts
      /\ \A c \in Id : FanOut(o, reply[o])[c] > 0 => c \in asked[o]
    BY <1>2 DEF FanOut, Counts
<1>4. CASE reply[o].kind \in {"error", "unparseable"}
    BY <1>3, <1>4 DEF Fails
<1>5. CASE reply[o].kind = "single"
    <2>1. \A c \in asked[o] : FanOut(o, reply[o])[c] = 1
        BY <1>1, <1>5 DEF FanOut
    <2>2. Spoken(o) = asked[o]
        BY <1>5 DEF Spoken
    <2> QED
        BY <1>3, <1>5, <2>1, <2>2
<1>6. CASE reply[o].kind = "packed"
    <2>1. \A c \in asked[o] : FanOut(o, reply[o])[c] = reply[o].of[c]
        BY <1>1, <1>6 DEF FanOut
    <2>2. Spoken(o) = {c \in asked[o] : reply[o].of[c] > 0}
        BY <1>6 DEF Spoken
    <2> QED
        BY <1>3, <1>6, <2>1, <2>2
<1> QED
    BY <1>1, <1>4, <1>5, <1>6 DEF Reply

\* A job that nothing touches stays as it is.
LEMMA JobStays ==
    ASSUME TransInv, NEW p \in Opinion, call'[p] = call[p], reply'[p] = reply[p],
           asked'[p] = asked[p], transport' = transport,
           \A c \in asked[p] : lines'[c] = lines[c] /\ out'[c] = out[c],
           p \in failures => p \in failures'
    PROVE  JobOK(p)'
<1>1. JobOK(p) /\ asked[p] \subseteq AllClaims
    BY DEF TransInv, TransTypeOK
<1>2. Untold(p)' <=> Untold(p)
    BY DEF Untold
<1>3. \A c \in asked[p] : Due(p, c)' = Due(p, c)
    <2>1. ASSUME NEW c \in asked[p] PROVE FanOut(p, reply[p])[c]' = FanOut(p, reply[p])[c]
        BY <1>1, <2>1, ClaimIds DEF FanOut
    <2> QED
        BY <2>1 DEF Due
<1>4. Accounted(p) => Accounted(p)'
    <2>1. Spoken(p)' = Spoken(p) /\ Spoken(p) \subseteq asked[p]
        BY DEF Spoken
    <2>2. Spoken(p) \subseteq Told => Spoken(p) \subseteq Told'
        BY <2>1 DEF Told
    <2> QED
        BY <2>1, <2>2 DEF Accounted, Fails
<1> QED
    BY <1>1, <1>2, <1>3, <1>4 DEF JobOK

----------------------------------------------------------------------------
(* The shadow step *)

Before == {ss \in Nat \X Nat : ss[1] < ss[2]}

LEMMA MinOfTodo == ASSUME ShadowOK, todo # {} PROVE Min(todo) \in todo
<1>1. todo \in SUBSET Nat
    BY ShadowAssumption DEF ShadowOK
<1>2. IsWellFoundedOn(Before, Nat)
    BY NatLessThanWellFounded DEF OpToRel, Before
<1>3. PICK x \in todo : \A y \in todo : <<y, x>> \notin Before
    BY <1>1, <1>2, WFMin
<1>4. \A y \in todo : ~(y < x) /\ x \in Nat /\ y \in Nat
    BY <1>1, <1>3 DEF Before
<1>5. \A y \in todo : x <= y
    BY <1>4
<1> QED
    BY <1>5 DEF Min

LEMMA RowOnce == Min({1, 2}) = 1
<1>1. \A x \in {1, 2} : (\A y \in {1, 2} : x <= y) <=> x = 1
    OBVIOUS
<1> QED
    BY <1>1 DEF Min

LEMMA ShadowKeeps == ASSUME ShadowOK, ShadowOne PROVE ShadowOK'
<1> DEFINE c == Min(todo)
<1>1. todo # {} /\ c \in todo /\ todo' = todo \ {c}
    BY MinOfTodo DEF ShadowOne, ShadowAnswers, ShadowFails
<1>2. rows' = rows \/ rows' = [rows EXCEPT ![c] = Min({rows[c] + 1, 2})]
    BY DEF ShadowOne, ShadowAnswers, ShadowFails, Row
<1> HIDE DEF c
<1>3. rows[c] = 0 /\ c \in ShadowClaim
    BY <1>1 DEF ShadowOK
<1>4. Min({rows[c] + 1, 2}) = 1
    BY <1>3, RowOnce
<1>5. rows' = rows \/ rows' = [rows EXCEPT ![c] = 1]
    BY <1>2, <1>4
<1> QED
    BY <1>1, <1>3, <1>5 DEF ShadowOK

----------------------------------------------------------------------------
(* The steps of a run *)

LEMMA TransInitial == ASSUME Init PROVE TransInv
<1>1. ShadowOK
    BY DEF Init, ShadowInit, ShadowOK
<1>2. TransTypeOK
    BY NoReplyType, NothingType DEF Init, TransTypeOK, Transport
<1>3. RunOK /\ \A o \in Opinion : JobOK(o)
    BY NoReplyType, NothingType DEF Init, RunOK, JobOK
<1> QED
    BY <1>1, <1>2, <1>3 DEF TransInv

\* Nothing is left of the calls of a run, or of an earlier one.
LEMMA Emptied ==
    ASSUME TransInv, ShadowOK', NoCalls, out' = Nothing, lines' = lines,
           pc' \in {"idle", "shadow"}, transport' \in Transport, ended' # "returned"
    PROVE  TransInv'
<1>1. TransTypeOK'
    BY NoReplyType, NothingType DEF TransInv, TransTypeOK, NoCalls
<1>2. RunOK'
    BY NothingType DEF RunOK, NoCalls
<1>3. \A o \in Opinion : JobOK(o)'
    BY NoReplyType DEF JobOK, NoCalls
<1> QED
    BY <1>1, <1>2, <1>3 DEF TransInv

LEMMA Ended ==
    ASSUME TransInv, NEW how, how # "returned", End(how), ShadowOK', lines' = lines
    PROVE  TransInv'
<1>1. transport' \in Transport
    BY DEF End, TransInv, TransTypeOK
<1> QED
    BY <1>1, Emptied DEF End

LEMMA ShadowStays == ASSUME TransInv, UNCHANGED shadowVars PROVE ShadowOK'
BY DEF TransInv, ShadowOK, shadowVars

LEMMA StartKeeps == ASSUME TransInv, NEW t \in Transport, Start(t) PROVE TransInv'
<1>1. todo' \subseteq ShadowClaim /\ rows' = rows /\ \A c \in todo' : rows[c] = 0
    BY DEF Start, ShadowTodo, AlreadyLogged, TransInv, ShadowOK
<1>2. ShadowOK'
    BY <1>1 DEF TransInv, ShadowOK
<1> QED
    BY <1>2, Emptied DEF Start

LEMMA KillKeeps == ASSUME TransInv, Kill PROVE TransInv'
<1>1. ShadowOK'
    BY DEF Kill, ShadowKilled, TransInv, ShadowOK
<1> QED
    BY <1>1, Ended DEF Kill

\* Only the shadow step moves.
LEMMA ShadowStepKeeps == ASSUME TransInv, Shadow \/ ShadowRaises PROVE TransInv'
<1>1. ShadowOK' /\ UNCHANGED <<lines, runVars>>
    BY ShadowKeeps DEF Shadow, ShadowRaises, TransInv, ShadowOK
<1>2. TransTypeOK' /\ RunOK'
    BY <1>1 DEF TransInv, TransTypeOK, RunOK, runVars
<1>3. \A o \in Opinion : JobOK(o)'
    BY <1>1, JobStays DEF runVars
<1> QED
    BY <1>1, <1>2, <1>3 DEF TransInv

LEMMA RenderKeeps == ASSUME TransInv, Render PROVE TransInv'
<1>1. /\ asked' = [o \in Opinion |-> Claims[o] \ Answered]
      /\ call' = [o \in Opinion |-> IF asked'[o] = {} THEN "none" ELSE "queued"]
      /\ pc = "shadow" /\ pc' = "asking" /\ out = Nothing
      /\ UNCHANGED <<shadowVars, lines, transport, reply, out, failures, ended>>
    BY DEF Render, JobClaims, TransInv, RunOK
<1>2. ended # "returned"
    BY <1>1 DEF TransInv, RunOK
<1>3. ShadowOK'
    BY <1>1, ShadowStays
<1>4. \A o \in Opinion : Claims[o] \subseteq AllClaims
    BY DEF AllClaims
<1>5. TransTypeOK'
    BY <1>1, <1>4 DEF TransInv, TransTypeOK
<1>6. RunOK'
    BY <1>1, <1>2, NothingType DEF RunOK
<1>7. ASSUME NEW o \in Opinion PROVE JobOK(o)'
    <2>1. asked'[o] = Claims[o] \ Answered /\ call'[o] \in {"none", "queued"}
          /\ (call'[o] = "none" => asked'[o] = {})
        BY <1>1
    <2>2. \A c \in asked'[o] : lines'[c] = 0 /\ out'[c] = 0
        <3>1. TAKE c \in asked'[o]
        <3>2. c \in AllClaims /\ c \in Id /\ c \notin Answered
            BY <1>4, <2>1, ClaimIds
        <3>3. lines[c] \in Nat /\ ~(lines[c] > 0)
            BY <3>2 DEF Answered, TransInv, TransTypeOK, Counts
        <3> QED
            BY <1>1, <3>2, <3>3, NothingType
    <2>3. JobOK(o) /\ reply'[o] = reply[o] /\ transport' = transport
        BY <1>1 DEF TransInv
    <2> QED
        BY <2>1, <2>2, <2>3 DEF JobOK, Untold
<1> QED
    BY <1>3, <1>5, <1>6, <1>7 DEF TransInv

\* The line is of a job that answered, so no claim that waits gets a verdict.
LEMMA AppendKeeps == ASSUME TransInv, AppendLine PROVE TransInv'
<1>1. PICK c \in Id : /\ out[c] > 0 /\ lines' = [lines EXCEPT ![c] = lines[c] + 1]
                      /\ out' = [out EXCEPT ![c] = out[c] - 1]
    BY DEF AppendLine
<1>2. UNCHANGED <<shadowVars, pc, transport, asked, call, reply, failures, ended>>
    BY DEF AppendLine
<1>3. ShadowOK'
    BY <1>2, ShadowStays
<1>4. lines \in Counts /\ out \in Counts /\ lines[c] \in Nat /\ out[c] \in Nat
    BY DEF TransInv, TransTypeOK, Counts
<1>5. PICK m \in Nat, n \in Nat : /\ m = lines[c] + 1 /\ n = out[c] - 1
                                  /\ m > 0 /\ m + n = lines[c] + out[c]
    BY <1>1, <1>4
<1>6. lines' = [lines EXCEPT ![c] = m] /\ out' = [out EXCEPT ![c] = n]
    BY <1>1, <1>5
<1>7. /\ lines' \in Counts /\ out' \in Counts
      /\ lines'[c] = m /\ out'[c] = n
      /\ \A d \in Id \ {c} : lines'[d] = lines[d] /\ out'[d] = out[d]
    BY <1>4, <1>6 DEF Counts
<1>8. TransTypeOK'
    BY <1>2, <1>7 DEF TransInv, TransTypeOK
<1>9. out # Nothing
    BY <1>1, NothingType
<1>10. \A d \in Id : out'[d] > 0 => out[d] > 0
    BY <1>1, <1>7
<1>11. RunOK'
    BY <1>2, <1>9, <1>10 DEF TransInv, RunOK
<1>12. PICK q \in Opinion : c \in asked[q] /\ call[q] \in {"back", "done"}
    BY <1>1 DEF TransInv, RunOK
<1>13. ASSUME NEW o \in Opinion PROVE JobOK(o)'
    <2>1. asked[o] \subseteq AllClaims /\ asked[o] \subseteq Id /\ JobOK(o)
        BY ClaimIds DEF TransInv, TransTypeOK
    <2>2. CASE c \notin asked[o]
        <3>1. \A d \in asked[o] : lines'[d] = lines[d] /\ out'[d] = out[d]
            BY <1>7, <2>1, <2>2
        <3> QED
            BY <1>2, <3>1, JobStays
    <2>3. CASE c \in asked[o]
        <3>1. call[o] \in {"back", "done"}
            BY <1>12, <2>3, OneJob
        <3>2. ~(call[o] = "back" /\ transport # "replay")
            BY <1>1, <2>1, <2>3 DEF JobOK, Untold
        <3>3. \A d \in asked[o] : lines'[d] + out'[d] = lines[d] + out[d]
            BY <1>5, <1>7, <2>1
        <3>4. \A d \in asked[o] : Due(o, d)' = Due(o, d)
            BY <1>2, <2>1 DEF Due, FanOut
        <3>5. Told \subseteq Told'
            BY <1>5, <1>7, ClaimIds DEF Told
        <3>6. Accounted(o) => Accounted(o)'
            BY <1>2, <3>5 DEF Accounted, Fails, Spoken
        <3> QED
            BY <1>2, <2>1, <3>1, <3>2, <3>3, <3>4, <3>6 DEF JobOK
    <2> QED
        BY <2>2, <2>3
<1> QED
    BY <1>3, <1>8, <1>11, <1>13 DEF TransInv

LEMMA ReturnKeeps == ASSUME TransInv, Return PROVE TransInv'
<1>1. /\ pc = "asking" /\ pc' = "idle" /\ out = Nothing /\ ended' = "returned"
      /\ \A o \in Opinion : call[o] \in {"none", "done"}
      /\ UNCHANGED <<shadowVars, lines, transport, asked, call, reply, out, failures>>
    BY DEF Return
<1>2. ShadowOK'
    BY <1>1, ShadowStays
<1>3. TransTypeOK' /\ RunOK'
    BY <1>1 DEF TransInv, TransTypeOK, RunOK
<1>4. \A o \in Opinion : JobOK(o)'
    BY <1>1, JobStays
<1> QED
    BY <1>2, <1>3, <1>4 DEF TransInv

----------------------------------------------------------------------------
(* The steps of a job *)

\* Nothing moves but how far o is, and what came back of it.
LEMMA JobMoves ==
    ASSUME TransInv, NEW o \in Opinion, NEW x \in {"queued", "sent", "back", "done"},
           call' = [call EXCEPT ![o] = x], reply' \in [Opinion -> Reply],
           \A p \in Opinion \ {o} : reply'[p] = reply[p],
           call[o] \in {"queued", "sent"},
           UNCHANGED <<shadowVars, lines, pc, transport, asked, out, failures, ended>>,
           JobOK(o)'
    PROVE  TransInv'
<1>1. ShadowOK'
    BY ShadowStays
<1>2. TransTypeOK'
    BY DEF TransInv, TransTypeOK
<1>3. RunOK'
    <2>1. ended # "returned"
        BY DEF TransInv, RunOK
    <2>2. \A q \in Opinion : call[q] \in {"back", "done"} => call'[q] = call[q]
        BY DEF TransInv, TransTypeOK
    <2> QED
        BY <2>1, <2>2 DEF TransInv, RunOK, TransTypeOK
<1>4. ASSUME NEW p \in Opinion \ {o} PROVE JobOK(p)'
    <2>1. call'[p] = call[p] /\ reply'[p] = reply[p] /\ asked'[p] = asked[p]
        BY DEF TransInv, TransTypeOK
    <2> QED
        BY <2>1, JobStays
<1> QED
    BY <1>1, <1>2, <1>3, <1>4 DEF TransInv

LEMMA CallReturnsKeeps ==
    ASSUME TransInv, NEW o \in Opinion, NEW r \in Replies(o), CallReturns(o, r)
    PROVE  TransInv'
<1>1. /\ call[o] = "sent" /\ call' = [call EXCEPT ![o] = "back"]
      /\ reply' = [reply EXCEPT ![o] = r]
      /\ transport = "batch" => r.kind # "auth"
      /\ UNCHANGED <<shadowVars, lines, pc, transport, asked, out, failures, ended>>
    BY DEF CallReturns
<1>2. r \in Reply /\ r.kind # "none"
    BY ReplyType
<1>3. /\ reply' \in [Opinion -> Reply] /\ reply'[o] = r /\ call'[o] = "back"
      /\ \A p \in Opinion \ {o} : reply'[p] = reply[p]
    BY <1>1, <1>2 DEF TransInv, TransTypeOK
<1>4. JobOK(o) /\ Untold(o) /\ asked[o] \subseteq Id
    BY <1>1, ClaimIds DEF TransInv, TransTypeOK, JobOK
<1>5. Untold(o)' /\ \A c \in asked[o] : lines'[c] + out'[c] <= Due(o, c)'
    BY <1>1, <1>2, <1>3, <1>4 DEF Untold, Due, FanOut, Reply, Counts
<1>6. JobOK(o)'
    BY <1>1, <1>2, <1>3, <1>4, <1>5 DEF JobOK
<1> QED
    BY <1>1, <1>3, <1>6, JobMoves

\* A job is sent, or the file it needs cannot be read.
LEMMA SendKeeps ==
    ASSUME TransInv, NEW o \in Opinion, SdkSend(o) \/ PoolSend(o)
    PROVE  TransInv'
<1>1. /\ call[o] = "queued" /\ transport \in {"sdk", "pool"}
      /\ UNCHANGED <<shadowVars, lines, pc, transport, asked, out, failures, ended>>
    BY DEF SdkSend, PoolSend, FirstQueued
<1>2. reply[o] \in Reply /\ reply \in [Opinion -> Reply] /\ call \in [Opinion -> {"none", "queued", "sent", "back", "done"}]
    BY DEF TransInv, TransTypeOK
<1>3. CASE call' = [call EXCEPT ![o] = "sent"] /\ reply' = reply
    <2>1. call'[o] = "sent" /\ JobOK(o)'
        BY <1>1, <1>2, <1>3 DEF TransInv, JobOK, Untold
    <2> QED
        BY <1>1, <1>2, <1>3, <2>1, JobMoves
<1>4. CASE call' = [call EXCEPT ![o] = "back"]
           /\ reply' = [reply EXCEPT ![o] = [kind |-> "error", of |-> Nothing]]
    <2> DEFINE r == [kind |-> "error", of |-> Nothing]
    <2>1. r \in Reply /\ r.kind = "error"
        BY NothingType DEF Reply
    <2> HIDE DEF r
    <2>2. reply' = [reply EXCEPT ![o] = r]
        BY <1>4 DEF r
    <2>3. /\ reply' \in [Opinion -> Reply] /\ reply'[o] = r /\ call'[o] = "back"
          /\ \A p \in Opinion \ {o} : reply'[p] = reply[p]
        BY <1>2, <1>4, <2>1, <2>2
    <2>4. JobOK(o) /\ Untold(o) /\ asked[o] \subseteq Id
        BY <1>1, ClaimIds DEF TransInv, TransTypeOK, JobOK
    <2>5. Untold(o)' /\ \A c \in asked[o] : lines'[c] + out'[c] <= Due(o, c)'
        BY <1>1, <2>1, <2>3, <2>4 DEF Untold, Due, FanOut, Reply, Counts
    <2>6. JobOK(o)'
        BY <1>1, <2>1, <2>3, <2>4, <2>5 DEF JobOK
    <2> QED
        BY <1>1, <1>4, <2>3, <2>6, JobMoves
<1>5. \/ call' = [call EXCEPT ![o] = "sent"] /\ reply' = reply
      \/ /\ call' = [call EXCEPT ![o] = "back"]
         /\ reply' = [reply EXCEPT ![o] = [kind |-> "error", of |-> Nothing]]
    BY DEF SdkSend, PoolSend
<1> QED
    BY <1>3, <1>4, <1>5

\* What a job makes of its reply: its verdicts are to be appended, or it is
\* recorded as failed.
LEMMA TakenKeeps ==
    ASSUME TransInv, NEW o \in Opinion, call[o] = "back", out = Nothing, Taken(o),
           reply[o].kind \notin {"none", "auth"}, pc # "shadow",
           UNCHANGED <<shadowVars, lines, pc, transport, asked, reply, ended>>
    PROVE  TransInv'
<1> DEFINE new == FanOut(o, reply[o])
<1>1. /\ call' = [call EXCEPT ![o] = "done"] /\ out' = new
      /\ failures' = IF Fails(o, reply[o]) THEN failures \cup {o} ELSE failures
    BY DEF Taken
<1>2. /\ new \in Counts /\ \A c \in Id : new[c] > 0 => c \in asked[o]
      /\ \/ Fails(o, reply[o])
         \/ /\ reply[o].kind \notin {"error", "unparseable"}
            /\ \A c \in Spoken(o) : new[c] > 0
    BY FanOutSpoken
<1>3. JobOK(o) /\ transport # "replay" /\ asked[o] \subseteq AllClaims /\ asked[o] \subseteq Id
    BY ClaimIds DEF TransInv, TransTypeOK, JobOK
<1>4. \A c \in asked[o] : lines[c] = 0 /\ new[c] \in Nat /\ Due(o, c)' = new[c]
    BY <1>2, <1>3 DEF JobOK, Untold, Due, FanOut, Counts
<1> HIDE DEF new
<1>5. ShadowOK'
    BY ShadowStays
<1>6. TransTypeOK'
    BY <1>1, <1>2 DEF TransInv, TransTypeOK
<1>7. call'[o] = "done" /\ \A p \in Opinion \ {o} : call'[p] = call[p]
    BY <1>1 DEF TransInv, TransTypeOK
<1>8. RunOK'
    <2>1. ended # "returned"
        BY DEF TransInv, RunOK
    <2> QED
        BY <1>1, <1>2, <1>7, <2>1 DEF RunOK
<1>9. Accounted(o)'
    <2>1. CASE Fails(o, reply[o])
        BY <1>1, <2>1 DEF Accounted, Fails
    <2>2. CASE ~Fails(o, reply[o])
        <3>1. Spoken(o)' = Spoken(o) /\ Spoken(o) \subseteq AllClaims
            BY <1>3 DEF Spoken
        <3>2. Spoken(o) \subseteq Told'
            BY <1>1, <1>2, <2>2, <3>1 DEF Told
        <3> QED
            BY <1>2, <2>2, <3>1, <3>2 DEF Accounted
    <2> QED
        BY <2>1, <2>2
<1>10. JobOK(o)'
    <2>1. \A c \in asked[o] : lines'[c] + out'[c] <= Due(o, c)'
        BY <1>1, <1>4
    <2> QED
        BY <1>3, <1>7, <1>9, <2>1 DEF JobOK
<1>11. ASSUME NEW p \in Opinion \ {o} PROVE JobOK(p)'
    <2>1. \A c \in asked[p] : c \in Id /\ c \notin asked[o]
        BY OneJob, ClaimIds DEF TransInv, TransTypeOK
    <2>2. \A c \in asked[p] : new[c] \in Nat /\ ~(new[c] > 0)
        BY <1>2, <2>1 DEF Counts
    <2>3. \A c \in asked[p] : lines'[c] = lines[c] /\ out'[c] = out[c]
        BY <1>1, <2>1, <2>2, NothingType
    <2>4. p \in failures => p \in failures'
        BY <1>1
    <2> QED
        BY <1>7, <2>3, <2>4, JobStays
<1> QED
    BY <1>5, <1>6, <1>8, <1>10, <1>11 DEF TransInv

LEMMA TakesKeeps ==
    ASSUME TransInv, NEW o \in Opinion, SdkTakes(o) \/ PoolTakes(o) \/ BatchTakes(o)
    PROVE  TransInv'
<1>1. /\ call[o] = "back" /\ out = Nothing /\ pc = "asking" /\ UNCHANGED <<shadowVars, lines>>
      /\ transport \in {"sdk", "pool", "batch"}
    BY DEF SdkTakes, PoolTakes, BatchTakes
<1>2. reply[o].kind # "none" /\ (transport = "batch" => reply[o].kind # "auth") /\ ended # "returned"
    BY <1>1 DEF TransInv, JobOK, RunOK
<1>3. ShadowOK'
    BY <1>1, ShadowStays
<1>4. CASE IsAuth(reply[o]) /\ SdkTakes(o)
    <2>1. End("auth")
        BY <1>4 DEF SdkTakes
    <2> QED
        BY <1>1, <1>3, <2>1, Ended
<1>5. CASE IsAuth(reply[o]) /\ PoolTakes(o)
    <2>1. pc' = "closing" /\ UNCHANGED <<shadowVars, lines, transport, asked, call, reply, out, failures, ended>>
        BY <1>5 DEF PoolTakes
    <2>2. TransTypeOK' /\ RunOK'
        BY <1>2, <2>1 DEF TransInv, TransTypeOK, RunOK
    <2>3. \A p \in Opinion : JobOK(p)'
        BY <2>1, JobStays
    <2> QED
        BY <1>3, <2>2, <2>3 DEF TransInv
<1>6. CASE ~IsAuth(reply[o]) \/ BatchTakes(o)
    <2>1. Taken(o) /\ UNCHANGED <<pc, transport, asked, reply, ended>>
        BY <1>1, <1>6 DEF SdkTakes, PoolTakes, BatchTakes
    <2>2. reply[o].kind # "auth"
        BY <1>1, <1>2, <1>6 DEF IsAuth, BatchTakes
    <2> QED
        BY <1>1, <1>2, <2>1, <2>2, TakenKeeps
<1> QED
    BY <1>4, <1>5, <1>6

LEMMA BatchCreatedKeeps == ASSUME TransInv, BatchCreated PROVE TransInv'
<1>1. /\ transport = "batch" /\ pc = "asking" /\ pc' = "polling"
      /\ call' = [o \in Opinion |-> IF call[o] = "queued" THEN "sent" ELSE call[o]]
      /\ UNCHANGED <<shadowVars, lines, transport, asked, reply, out, failures, ended>>
    BY DEF BatchCreated, Batched
<1>2. ended # "returned"
    BY <1>1 DEF TransInv, RunOK
<1>3. ShadowOK'
    BY <1>1, ShadowStays
<1>4. TransTypeOK'
    BY <1>1 DEF TransInv, TransTypeOK
<1>5. \A o \in Opinion : call[o] # "queued" => call'[o] = call[o]
    BY <1>1
<1>6. RunOK'
    <2>1. \A o \in Opinion : call[o] \in {"back", "done"} => call'[o] = call[o]
        BY <1>5
    <2> QED
        BY <1>1, <1>2, <2>1 DEF TransInv, RunOK
<1>7. ASSUME NEW o \in Opinion PROVE JobOK(o)'
    <2>1. CASE call[o] = "queued"
        <3>1. JobOK(o) /\ call'[o] = "sent" /\ Untold(o)'
            BY <1>1, <2>1 DEF TransInv, JobOK, Untold
        <3> QED
            BY <1>1, <2>1, <3>1 DEF JobOK
    <2>2. CASE call[o] # "queued"
        BY <1>1, <1>5, <2>2, JobStays
    <2> QED
        BY <2>1, <2>2
<1> QED
    BY <1>3, <1>4, <1>6, <1>7 DEF TransInv

LEMMA BatchRaisesKeeps == ASSUME TransInv, BatchRaises PROVE TransInv'
<1>1. ShadowOK' /\ lines' = lines
    BY ShadowStays DEF BatchRaises
<1>2. End("raised") \/ End("auth")
    BY DEF BatchRaises
<1> QED
    BY <1>1, <1>2, Ended

LEMMA BatchEndedKeeps == ASSUME TransInv, BatchEnded PROVE TransInv'
<1>1. /\ pc = "polling" /\ pc' = "asking"
      /\ UNCHANGED <<shadowVars, lines, transport, asked, call, reply, out, failures, ended>>
    BY DEF BatchEnded
<1>2. ShadowOK'
    BY <1>1, ShadowStays
<1>3. TransTypeOK' /\ RunOK'
    BY <1>1 DEF TransInv, TransTypeOK, RunOK
<1>4. \A o \in Opinion : JobOK(o)'
    BY <1>1, JobStays
<1> QED
    BY <1>2, <1>3, <1>4 DEF TransInv

\* The runs that end with an error after a job: PoolCloses, ReplayRaises.
LEMMA RaisesKeeps == ASSUME TransInv, PoolCloses \/ ReplayRaises PROVE TransInv'
<1>1. ShadowOK' /\ lines' = lines
    BY ShadowStays DEF PoolCloses, ReplayRaises
<1>2. End("raised") \/ End("auth")
    BY DEF PoolCloses, ReplayRaises
<1> QED
    BY <1>1, <1>2, Ended

\* A recording answers every claim of a job, or those before the first that it
\* does not know.
LEMMA ReplayKeeps == ASSUME TransInv, NEW o \in Opinion, Replay(o) PROVE TransInv'
<1> DEFINE Known(c) == c \in asked[o] /\ \A d \in asked[o] : d <= c => d \in Recorded
           new == [c \in Id |-> IF Known(c) THEN 1 ELSE 0]
           x == IF ReplayMisses(o) THEN "back" ELSE "done"
<1>1. /\ transport = "replay" /\ pc = "asking" /\ out = Nothing /\ call[o] = "queued"
      /\ out' = new /\ call' = [call EXCEPT ![o] = x]
      /\ UNCHANGED <<shadowVars, lines, pc, transport, asked, reply, failures, ended>>
    BY DEF Replay, FirstQueued
<1>2. /\ JobOK(o) /\ asked[o] \subseteq AllClaims /\ asked[o] \subseteq Id
      /\ ended # "returned"
    BY <1>1, ClaimIds DEF TransInv, TransTypeOK, RunOK
<1>3. ~ReplayMisses(o) => \A c \in asked[o] : new[c] = 1
    BY <1>2 DEF ReplayMisses
<1>4. x \in {"back", "done"} /\ (x = "done" => ~ReplayMisses(o))
    OBVIOUS
<1>5. new \in Counts /\ \A c \in Id : new[c] <= 1 /\ (new[c] > 0 => c \in asked[o])
    BY DEF Counts
<1> HIDE DEF x, new
<1>6. ShadowOK'
    BY <1>1, ShadowStays
<1>7. TransTypeOK'
    BY <1>1, <1>4, <1>5 DEF TransInv, TransTypeOK
<1>8. call'[o] = x /\ \A p \in Opinion \ {o} : call'[p] = call[p]
    BY <1>1 DEF TransInv, TransTypeOK
<1>9. RunOK'
    BY <1>1, <1>2, <1>4, <1>5, <1>8 DEF RunOK
<1>10. JobOK(o)'
    <2>1. \A c \in asked[o] : lines[c] = 0 /\ Due(o, c)' = 1
        BY <1>1, <1>2 DEF JobOK, Untold, Due
    <2>2. \A c \in asked[o] : lines'[c] + out'[c] <= Due(o, c)'
        <3>1. TAKE c \in asked[o]
        <3>2. new[c] \in Nat /\ new[c] <= 1 /\ lines'[c] = 0 /\ out'[c] = new[c]
            BY <1>1, <1>2, <1>5, <2>1 DEF Counts
        <3> QED
            BY <2>1, <3>2
    <2>3. reply[o].kind = "none" /\ reply'[o] = reply[o] /\ asked'[o] = asked[o]
        BY <1>1, <1>2 DEF JobOK
    <2>4. x = "done" => Accounted(o)'
        <3>1. Spoken(o)' = asked[o]
            BY <2>3 DEF Spoken
        <3>2. x = "done" => asked[o] \subseteq Told'
            BY <1>1, <1>2, <1>3, <1>4 DEF Told
        <3> QED
            BY <2>3, <3>1, <3>2 DEF Accounted
    <2> QED
        BY <1>1, <1>2, <1>4, <1>8, <2>2, <2>3, <2>4 DEF JobOK
<1>11. ASSUME NEW p \in Opinion \ {o} PROVE JobOK(p)'
    <2>1. \A c \in asked[p] : c \in Id /\ c \notin asked[o]
        BY OneJob, ClaimIds DEF TransInv, TransTypeOK
    <2>2. \A c \in asked[p] : new[c] \in Nat /\ ~(new[c] > 0)
        BY <1>5, <2>1 DEF Counts
    <2>3. \A c \in asked[p] : lines'[c] = lines[c] /\ out'[c] = out[c]
        BY <1>1, <2>1, <2>2, NothingType
    <2> QED
        BY <1>1, <1>8, <2>3, JobStays
<1> QED
    BY <1>6, <1>7, <1>9, <1>10, <1>11 DEF TransInv

LEMMA TransStep == ASSUME TransInv, [Next]_vars PROVE TransInv'
<1>1. CASE VerbStep
    BY <1>1, ShadowStepKeeps, RenderKeeps, AppendKeeps, ReturnKeeps, SendKeeps, TakesKeeps,
       ReplayKeeps, RaisesKeeps, BatchCreatedKeeps, BatchRaisesKeeps, BatchEndedKeeps
       DEF VerbStep
<1>2. CASE Service
    BY <1>2, CallReturnsKeeps DEF Service
<1>3. CASE Kill
    BY <1>3, KillKeeps
<1>4. CASE \E t \in Transport : Start(t)
    BY <1>4, StartKeeps
<1>5. CASE UNCHANGED vars
    <2>1. ShadowOK' /\ UNCHANGED <<lines, runVars>>
        BY <1>5, ShadowStays DEF vars
    <2>2. TransTypeOK' /\ RunOK'
        BY <2>1 DEF TransInv, TransTypeOK, RunOK, runVars
    <2>3. \A o \in Opinion : JobOK(o)'
        BY <2>1, JobStays DEF runVars
    <2> QED
        BY <2>1, <2>2, <2>3 DEF TransInv
<1> QED
    BY <1>1, <1>2, <1>3, <1>4, <1>5 DEF Next

----------------------------------------------------------------------------
(* Theorems *)

\* The invariant of the transports is inductive (executor.py, run_assess).
THEOREM TransInductive == Spec => []TransInv
<1>1. Init => TransInv
    BY TransInitial
<1>2. TransInv /\ [Next]_vars => TransInv'
    BY TransStep
<1> QED
    BY <1>1, <1>2, PTL DEF Spec

\* A run that returns accounts for every job: among the failures, or with a
\* line for every claim its answer speaks of; whatever the transport, and in
\* whichever order calls come back.
THEOREM EveryJobAlwaysAccounted == Spec => []EveryJobAccounted
<1>1. ASSUME TransInv, ended = "returned", NEW o \in Opinion, asked[o] # {}
      PROVE  \/ o \in failures /\ Fails(o, reply[o])
             \/ /\ reply[o].kind # "error" /\ reply[o].kind # "unparseable"
                /\ IF reply[o].kind = "packed"
                   THEN {c \in asked[o] : reply[o].of[c] > 0} \subseteq Answered
                   ELSE asked[o] \subseteq Answered
    <2>1. call[o] = "done" /\ Told = Answered
        BY <1>1, NothingType, ClaimIds DEF TransInv, RunOK, JobOK, Told, Answered
    <2>2. Accounted(o)
        BY <1>1, <2>1 DEF TransInv, JobOK
    <2> QED
        BY <2>1, <2>2 DEF Accounted, Spoken
<1>2. TransInv => EveryJobAccounted
    BY <1>1 DEF EveryJobAccounted
<1> QED
    BY <1>2, TransInductive, PTL

OneMoreOfOne == Recording /\ \A c \in ShadowClaim : rows'[c] <= 1

\* A line is written only by AppendLine, for a job whose answer has more
\* verdicts on the claim than there are lines yet.
LEMMA RecordingStep == ASSUME TransInv, [Next]_vars PROVE Recording
<1>1. CASE lines' = lines
    BY <1>1 DEF Recording
<1>2. CASE AppendLine
    <2>1. PICK c \in Id : /\ out[c] > 0 /\ lines' = [lines EXCEPT ![c] = lines[c] + 1]
        BY <1>2 DEF AppendLine
    <2>2. lines \in Counts /\ lines[c] \in Nat /\ out[c] \in Nat
        BY DEF TransInv, TransTypeOK, Counts
    <2>3. PICK m \in Nat : m = lines[c] + 1 /\ m <= lines[c] + out[c]
        BY <2>1, <2>2
    <2>4. lines'[c] = m /\ \A d \in Id \ {c} : lines'[d] = lines[d]
        BY <2>1, <2>2, <2>3 DEF Counts
    <2>5. PICK o \in Opinion : c \in asked[o] /\ call[o] \in {"back", "done"}
        BY <2>1 DEF TransInv, RunOK
    <2>6. JobOK(o)
        BY DEF TransInv
    <2>7. c \in Claims[o] /\ lines[c] + out[c] <= Due(o, c)
        BY <2>5, <2>6 DEF JobOK
    <2>8. Due(o, c) \in Nat
        BY <2>5 DEF Due, FanOut, Reply, Counts, TransInv, TransTypeOK
    <2>9. m <= Due(o, c)
        BY <2>2, <2>3, <2>7, <2>8
    <2> QED
        BY <2>4, <2>5, <2>7, <2>9 DEF Recording
<1>3. lines' = lines \/ AppendLine
    <2>1. CASE VerbStep
        BY <2>1 DEF VerbStep, Shadow, ShadowRaises, Render, Return, SdkSend, SdkTakes, PoolSend,
                    PoolTakes, BatchTakes, Replay, PoolCloses, BatchCreated, BatchRaises,
                    BatchEnded, ReplayRaises
    <2>2. CASE Service \/ Kill \/ (\E t \in Transport : Start(t)) \/ UNCHANGED vars
        BY <2>2 DEF Service, CallReturns, Kill, Start, vars
    <2> QED
        BY <2>1, <2>2 DEF Next
<1> QED
    BY <1>1, <1>2, <1>3

\* The lines of a claim are of one answer, which was given to the job of its own
\* opinion file, and no more than that answer has entries for it, over any number
\* of kills and reruns; and there is one shadow row for it at most.
THEOREM AlwaysOneAnswerEach == Spec => OneAnswerEach
<1>1. TransInv' => \A c \in ShadowClaim : rows'[c] <= 1
    BY DEF TransInv, ShadowOK
<1>2. TransInv /\ TransInv' /\ [Next]_vars => [OneMoreOfOne]_<<lines, rows>>
    BY <1>1, RecordingStep DEF OneMoreOfOne
<1>3. Spec => [][OneMoreOfOne]_<<lines, rows>>
    BY <1>2, TransInductive, PTL DEF Spec
<1> QED
    BY <1>3 DEF OneAnswerEach, OneMoreOfOne

Unasked ==
    \A o \in Opinion : call'[o] = "sent" /\ call[o] # "sent" => asked[o] \cap Answered = {}

\* A job becomes sent only from the queue.
LEMMA SentFromQueue ==
    ASSUME TransInv, [Next]_vars, NEW o \in Opinion, call'[o] = "sent", call[o] # "sent"
    PROVE  call[o] = "queued"
<1>1. call \in [Opinion -> {"none", "queued", "sent", "back", "done"}]
    BY DEF TransInv, TransTypeOK
<1>2. CASE VerbStep
    <2>1. CASE \E p \in Opinion : SdkSend(p) \/ SdkTakes(p) \/ PoolSend(p) \/ PoolTakes(p)
                                  \/ BatchTakes(p) \/ Replay(p)
        BY <1>1, <2>1 DEF SdkSend, SdkTakes, PoolSend, PoolTakes, BatchTakes, Replay, FirstQueued,
                          Taken, End, NoCalls
    <2>2. CASE PoolCloses \/ BatchCreated \/ BatchRaises \/ BatchEnded \/ ReplayRaises
        BY <1>1, <2>2 DEF PoolCloses, BatchCreated, Batched, BatchRaises, BatchEnded, ReplayRaises,
                          End, NoCalls
    <2>3. CASE Shadow \/ ShadowRaises \/ Render \/ AppendLine \/ Return
        BY <1>1, <2>3 DEF Shadow, ShadowRaises, Render, AppendLine, Return, runVars
    <2> QED
        BY <1>2, <2>1, <2>2, <2>3 DEF VerbStep
<1>3. CASE Service
    BY <1>1, <1>3 DEF Service, CallReturns
<1>4. CASE Kill \/ \E t \in Transport : Start(t)
    BY <1>1, <1>4 DEF Kill, Start, End, NoCalls
<1>5. CASE UNCHANGED vars
    BY <1>5 DEF vars, runVars
<1> QED
    BY <1>2, <1>3, <1>4, <1>5 DEF Next

\* A job is sent only if none of its claims has a verdict, after kills and
\* runs that raised too (the resume key of run_assess).
THEOREM NeverAskedTwice == Spec => NeverAskedAgain
<1>1. TransInv /\ [Next]_vars => [Unasked]_vars
    <2> SUFFICES ASSUME TransInv, [Next]_vars, NEW o \in Opinion,
                        call'[o] = "sent", call[o] # "sent"
                 PROVE  asked[o] \cap Answered = {}
        BY DEF Unasked
    <2>1. JobOK(o) /\ Untold(o)
        BY SentFromQueue DEF TransInv, JobOK
    <2> QED
        BY <2>1 DEF Untold, Answered
<1>2. Spec => [][Unasked]_vars
    BY <1>1, TransInductive, PTL DEF Spec
<1> QED
    BY <1>2 DEF NeverAskedAgain, Unasked
=============================================================================
