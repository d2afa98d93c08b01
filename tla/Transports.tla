----------------------------- MODULE Transports -----------------------------
(***************************************************************************)
(* executor.py, as run_assess uses it: one run of the verb sends the jobs  *)
(* of the claims that have no verdict yet through one of four transports,  *)
(* appends a line for every verdict as it comes, and returns or raises.    *)
(*                                                                         *)
(*   sdk     one agent after the other (AgentSDKExecutor)                  *)
(*   pool    streaming calls on a pool of threads (MessagesAPIExecutor)    *)
(*   batch   one message batch that is polled until it ended (the same)    *)
(*   replay  the lines of a recorded run (RecordedExecutor)                *)
(*                                                                         *)
(* In `full` the shadow step of ShadowLog comes before.  Which case a      *)
(* verdict speaks of, and agents that answer by themselves, are left to    *)
(* PropositionPipeline.                                                    *)
(***************************************************************************)
EXTENDS ShadowLog

CONSTANTS
    Opinion,     \* opinion files with claims to assess, in their order
    Claims,      \* [Opinion -> its assessable claims]
    JobId,       \* [Opinion -> the name of its job: its first sixty letters]
    Unreadable,  \* opinion files that cannot be read as text
    Recorded,    \* claims with a line in the recording
    Workers,     \* max_concurrency
    Stranger,    \* a claim id that is in no job
    MaxEntries,  \* bound of the model: [Opinion -> entries of one answer]
    MaxFaults    \* bound of the model: auth errors, errors of a batch, kills

AllClaims == UNION {Claims[o] : o \in Opinion}
Id == AllClaims \cup {Stranger}
Transport == {"sdk", "pool", "batch", "replay"}

ASSUME TransportAssumption ==
    /\ Opinion \subseteq Nat /\ IsFiniteSet(Opinion)
    /\ DOMAIN Claims = Opinion /\ DOMAIN JobId = Opinion
    /\ AllClaims \subseteq Nat /\ IsFiniteSet(AllClaims)
    /\ \A o, p \in Opinion : o # p => Claims[o] \cap Claims[p] = {}
    /\ Unreadable \subseteq Opinion /\ Recorded \subseteq AllClaims
    /\ Workers \in Nat \ {0} /\ Stranger \notin AllClaims
    /\ MaxEntries \in [Opinion -> Nat] /\ MaxFaults \in Nat

VARIABLES
    lines,      \* the results file: [claim id -> the lines that name it]
    pc,         \* "idle"; "shadow"; "asking"; "polling" a batch; "closing" a pool
    transport,
    asked,      \* [Opinion -> the claims of its job]
    call,       \* [Opinion -> how far its job is]
    reply,      \* [Opinion -> what came back]
    out,        \* [claim id -> verdicts of one reply that are not appended yet]
    failures,   \* jobs in executor.failures
    ended,      \* how the last run ended
    faults

runVars == <<pc, transport, asked, call, reply, out, failures, ended>>
vars == <<shadowVars, lines, runVars, faults>>

\* What comes back: an exception, a text without a JSON object, an object for
\* the whole job, or one with a list of entries, kept as the number of them that
\* name each claim.
Nothing == [c \in Id |-> 0]
Errors == {[kind |-> k, of |-> Nothing] : k \in {"auth", "error", "unparseable"}}
Whole == [kind |-> "single", of |-> Nothing]
Replies(o) == Errors \cup {Whole} \cup
    {[kind |-> "packed", of |-> [c \in Id |-> Cardinality({i \in DOMAIN e : e[i] = c})]] :
        e \in UNION {[1..n -> asked[o] \cup {Stranger}] : n \in 0..MaxEntries[o]}}
NoReply == [kind |-> "none", of |-> Nothing]

Answered == {c \in AllClaims : lines[c] > 0}

Init ==
    /\ ShadowInit
    /\ lines = Nothing /\ pc = "idle" /\ transport = "sdk"
    /\ asked = [o \in Opinion |-> {}]
    /\ call = [o \in Opinion |-> "none"]
    /\ reply = [o \in Opinion |-> NoReply]
    /\ out = Nothing /\ failures = {} /\ ended = "none" /\ faults = 0

Fault == faults < MaxFaults /\ faults' = faults + 1

NoCalls ==
    /\ asked' = [o \in Opinion |-> {}]
    /\ call' = [o \in Opinion |-> "none"]
    /\ reply' = [o \in Opinion |-> NoReply]
    /\ failures' = {}

\* The run is over: a run that raises leaves nothing but the lines.
End(how) ==
    /\ pc' = "idle" /\ ended' = how /\ out' = Nothing /\ NoCalls
    /\ UNCHANGED transport

----------------------------------------------------------------------------
(* run_assess: the jobs *)

\* Mutant: the claims of a job are asked about again if one of them is open.
JobClaimsAll(o) == IF Claims[o] \subseteq Answered THEN {} ELSE Claims[o]
\* Mutant: a job that brought a verdict is not asked again for the others.
JobClaimsOnce(o) == IF Claims[o] \cap Answered # {} THEN {} ELSE Claims[o]
JobClaims(o) == Claims[o] \ Answered

\* A verb or `full` starts; `full` may take the shadow step first.
Start(t) ==
    /\ pc = "idle"
    /\ transport' = t /\ ended' = "none"
    /\ NoCalls /\ out' = Nothing
    /\ pc' = "shadow"
    /\ todo' \in {{}, ShadowTodo}
    /\ UNCHANGED <<rows, tail, lines, faults>>

Shadow == pc = "shadow" /\ ShadowOne /\ UNCHANGED <<lines, runVars, faults>>

\* No key, no library, no claims.csv: the step is given up and `full` goes on.
ShadowRaises ==
    /\ pc = "shadow" /\ todo # {} /\ todo' = {}
    /\ UNCHANGED <<rows, tail, lines, runVars, faults>>

\* One job for each opinion file with claims that have no verdict.
Render ==
    /\ pc = "shadow" /\ todo = {}
    /\ asked' = [o \in Opinion |-> JobClaims(o)]
    /\ call' = [o \in Opinion |-> IF asked'[o] = {} THEN "none" ELSE "queued"]
    /\ pc' = "asking"
    /\ UNCHANGED <<shadowVars, lines, transport, reply, out, failures, ended, faults>>

\* append_verdict_jsonl, one line for each verdict that the executor yields.
AppendLine ==
    /\ \E c \in Id :
         /\ out[c] > 0
         /\ lines' = [lines EXCEPT ![c] = @ + 1]
         /\ out' = [out EXCEPT ![c] = @ - 1]
    /\ UNCHANGED <<shadowVars, pc, transport, asked, call, reply, failures, ended, faults>>

Return ==
    /\ pc = "asking" /\ out = Nothing
    /\ \A o \in Opinion : call[o] \in {"none", "done"}
    /\ pc' = "idle" /\ ended' = "returned"
    /\ UNCHANGED <<shadowVars, lines, transport, asked, call, reply, out, failures, faults>>

\* A killed process: what was appended stays.
Kill ==
    /\ pc # "idle" /\ Fault
    /\ ShadowKilled
    /\ End("killed")
    /\ UNCHANGED lines

----------------------------------------------------------------------------
(* What a job makes of its reply *)

\* Mutant: entries are taken whatever claim they name.
FanOutAll(o, r) ==
    [c \in Id |-> IF r.kind # "single" THEN r.of[c] ELSE IF c \in asked[o] THEN 1 ELSE 0]

\* An object without entries stands for every claim of the job; of entries, one
\* verdict each, those on other claims are dropped.
FanOut(o, r) ==
    [c \in Id |-> IF c \notin asked[o] THEN 0 ELSE IF r.kind = "single" THEN 1 ELSE r.of[c]]

\* Mutant: a job whose answer has no JSON object is not recorded.
FailsOnlyIfRaised(o, r) == r.kind = "error"

\* An exception or text that looks like an authentication failure.
IsAuth(r) == r.kind = "auth"

\* Building the request reads the opinion file, which may raise.
ReadFails(o) == o \in Unreadable

\* The job goes to executor.failures.
Fails(o, r) == r.kind \in {"error", "unparseable"} \/ r.of[Stranger] > 0

Taken(o) ==
    /\ call' = [call EXCEPT ![o] = "done"]
    /\ out' = FanOut(o, reply[o])
    /\ failures' = IF Fails(o, reply[o]) THEN failures \cup {o} ELSE failures

\* The service answers a call that is under way.
CallReturns(o, r) ==
    /\ call[o] = "sent" /\ r \in Replies(o)
    /\ transport = "batch" => r.kind # "auth"
    /\ IF IsAuth(r) THEN Fault ELSE UNCHANGED faults
    /\ call' = [call EXCEPT ![o] = "back"]
    /\ reply' = [reply EXCEPT ![o] = r]
    /\ UNCHANGED <<shadowVars, lines, pc, transport, asked, out, failures, ended>>

FirstQueued(o) ==
    /\ call[o] = "queued"
    /\ \A p \in Opinion : call[p] = "queued" => o <= p

UnderWay == {o \in Opinion : call[o] \in {"sent", "back"}}

----------------------------------------------------------------------------
(* AgentSDKExecutor: the next job once the verdicts of this one are appended *)

SdkSend(o) ==
    /\ transport = "sdk" /\ pc = "asking" /\ out = Nothing
    /\ UnderWay = {} /\ FirstQueued(o)
    /\ call' = [call EXCEPT ![o] = "sent"]
    /\ UNCHANGED <<shadowVars, lines, pc, transport, asked, reply, out, failures, ended, faults>>

SdkTakes(o) ==
    /\ transport = "sdk" /\ pc = "asking" /\ out = Nothing /\ call[o] = "back"
    /\ IF IsAuth(reply[o])
       THEN End("auth")
       ELSE Taken(o) /\ UNCHANGED <<pc, transport, asked, reply, ended>>
    /\ UNCHANGED <<shadowVars, lines, faults>>

----------------------------------------------------------------------------
(* MessagesAPIExecutor on a pool of threads *)

\* A thread takes the next job.  The file is read there: that it cannot be
\* read is an error of this job alone.
PoolSend(o) ==
    /\ transport = "pool" /\ pc \in {"asking", "closing"}
    /\ FirstQueued(o)
    /\ Cardinality({p \in Opinion : call[p] = "sent"}) < Workers
    /\ IF ReadFails(o)
       THEN /\ call' = [call EXCEPT ![o] = "back"]
            /\ reply' = [reply EXCEPT ![o] = [kind |-> "error", of |-> Nothing]]
       ELSE call' = [call EXCEPT ![o] = "sent"] /\ UNCHANGED reply
    /\ UNCHANGED <<shadowVars, lines, pc, transport, asked, out, failures, ended, faults>>

\* as_completed: any job that is back; an authentication error is raised
\* inside the `with` of the pool, whose exit waits for every job submitted.
PoolTakes(o) ==
    /\ transport = "pool" /\ pc = "asking" /\ out = Nothing /\ call[o] = "back"
    /\ IF IsAuth(reply[o])
       THEN pc' = "closing" /\ UNCHANGED <<call, out, failures>>
       ELSE Taken(o) /\ UNCHANGED pc
    /\ UNCHANGED <<shadowVars, lines, transport, asked, reply, ended, faults>>

PoolCloses ==
    /\ pc = "closing"
    /\ \A o \in Opinion : call[o] \notin {"queued", "sent"}
    /\ End("auth")
    /\ UNCHANGED <<shadowVars, lines, faults>>

----------------------------------------------------------------------------
(* MessagesAPIExecutor with one batch *)

Batched == {o \in Opinion : call[o] = "queued"}

\* Two requests with one name are refused by the service.
SharedId == \E o, p \in Batched : o # p /\ JobId[o] = JobId[p]

BatchCreated ==
    /\ transport = "batch" /\ pc = "asking" /\ Batched # {}
    /\ ~SharedId /\ \A o \in Batched : ~ReadFails(o)
    /\ pc' = "polling"
    /\ call' = [o \in Opinion |-> IF o \in Batched THEN "sent" ELSE call[o]]
    /\ UNCHANGED <<shadowVars, lines, transport, asked, reply, out, failures, ended, faults>>

\* A file that cannot be read, a refused batch, or an error of the service
\* while it is made or polled, ends the verb.
BatchRaises ==
    /\ transport = "batch"
    /\ \/ /\ pc = "asking" /\ Batched # {}
          /\ (SharedId \/ \E o \in Batched : ReadFails(o))
          /\ End("raised") /\ UNCHANGED faults
       \/ /\ pc \in {"asking", "polling"}
          /\ pc = "asking" => Batched # {}
          /\ Fault
          /\ \E how \in {"auth", "raised"} : End(how)
    /\ UNCHANGED <<shadowVars, lines>>

BatchEnded ==
    /\ pc = "polling" /\ \A o \in Opinion : call[o] # "sent"
    /\ pc' = "asking"
    /\ UNCHANGED <<shadowVars, lines, transport, asked, call, reply, out, failures, ended, faults>>

BatchTakes(o) ==
    /\ transport = "batch" /\ pc = "asking" /\ out = Nothing /\ call[o] = "back"
    /\ Taken(o)
    /\ UNCHANGED <<shadowVars, lines, pc, transport, asked, reply, ended, faults>>

----------------------------------------------------------------------------
(* RecordedExecutor: the first claim without a recording ends the verb, once *)
(* those before it are appended.                                             *)

ReplayMisses(o) == asked[o] \ Recorded # {}

Replay(o) ==
    /\ transport = "replay" /\ pc = "asking" /\ out = Nothing /\ FirstQueued(o)
    /\ UnderWay = {}
    /\ out' = [c \in Id |->
                  IF c \in asked[o] /\ \A d \in asked[o] : d <= c => d \in Recorded
                  THEN 1 ELSE 0]
    /\ call' = [call EXCEPT ![o] = IF ReplayMisses(o) THEN "back" ELSE "done"]
    /\ UNCHANGED <<shadowVars, lines, pc, transport, asked, reply, failures, ended, faults>>

ReplayRaises ==
    /\ transport = "replay" /\ pc = "asking" /\ out = Nothing
    /\ \E o \in Opinion : call[o] = "back"
    /\ End("raised")
    /\ UNCHANGED <<shadowVars, lines, faults>>

----------------------------------------------------------------------------
Service == \E o \in Opinion : \E r \in Replies(o) : CallReturns(o, r)

VerbStep ==
    \/ Shadow \/ ShadowRaises \/ Render \/ AppendLine \/ Return
    \/ \E o \in Opinion : SdkSend(o) \/ SdkTakes(o) \/ PoolSend(o) \/ PoolTakes(o)
                          \/ BatchTakes(o) \/ Replay(o)
    \/ PoolCloses \/ BatchCreated \/ BatchRaises \/ BatchEnded \/ ReplayRaises

Next == VerbStep \/ Service \/ Kill \/ \E t \in Transport : Start(t)

Spec == Init /\ [][Next]_vars

\* The verb is run again and again, by every transport in turn; a call ends,
\* and none fails for ever.
Fairness ==
    /\ WF_vars(VerbStep) /\ WF_vars(Service)
    /\ \A t \in {"sdk", "pool"} : SF_vars(Start(t) /\ todo' = ShadowTodo)
    /\ \A o \in Opinion : SF_vars(CallReturns(o, Whole))
    /\ \A c \in ShadowClaim :
         SF_vars(Shadow /\ ShadowAnswers /\ c = Min(todo))

FairSpec == Spec /\ Fairness

----------------------------------------------------------------------------
(* Properties *)

\* A run that returns accounts for every job, whatever the transport and in
\* whichever order the calls came back: it is among the failures, or every
\* claim of it that the answer speaks of has its line.
EveryJobAccounted ==
    ended = "returned" =>
        \A o \in Opinion : asked[o] # {} =>
            \/ o \in failures /\ Fails(o, reply[o])
            \/ /\ reply[o].kind # "error" /\ reply[o].kind # "unparseable"
               /\ IF reply[o].kind = "packed"
                  THEN {c \in asked[o] : reply[o].of[c] > 0} \subseteq Answered
                  ELSE asked[o] \subseteq Answered

\* The verdicts that the answer of job o has for claim c.
Due(o, c) == IF transport = "replay" THEN 1 ELSE FanOut(o, reply[o])[c]

\* Every line of a claim is of one answer: while it is written, the job that was
\* sent the claim's own opinion file has its answer, and the claim has as many
\* lines at most as that answer has entries for it, the lines of earlier runs
\* counted (_fan_out_verdicts; the resume key of run_assess).
Recording ==
    \A c \in Id : lines'[c] # lines[c] =>
        \E o \in Opinion :
            /\ c \in asked[o] /\ c \in Claims[o] /\ call[o] \in {"back", "done"}
            /\ lines'[c] <= Due(o, c)

\* So no claim is judged by two answers, though one may repeat it; and one row of
\* the shadow file at most can be read for a claim, over kills that leave half
\* of one and reruns of the step.
OneAnswerEach == [][Recording /\ \A c \in ShadowClaim : rows'[c] <= 1]_<<lines, rows>>

\* No transport sends a claim that has its verdict, after kills and raised
\* runs too: "the resume key re-runs" the others only.
NeverAskedAgain ==
    [][\A o \in Opinion : call'[o] = "sent" /\ call[o] # "sent" =>
          asked[o] \cap Answered = {}]_vars

\* Rerunning the verb ends with a verdict on every claim whose opinion file
\* can be read, and with a shadow row for every claim that has a text, after
\* kills, authentication errors and failed jobs.
EveryClaimDone ==
    /\ \A o \in Opinion \ Unreadable : <>(Claims[o] \subseteq Answered)
    /\ \A c \in ShadowClaim : ShadowText[c] = "text" => <>(rows[c] > 0)
=============================================================================
