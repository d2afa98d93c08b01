------------------------- MODULE PropositionPipeline -------------------------
(***************************************************************************)
(* The whole of src/citation_verifier/proposition_pipeline.py with its     *)
(* executors: the verbs of Workdir, then those that check quotations,      *)
(* raise flags, choose a track, have claims assessed, apply the verdicts   *)
(* and write the report.                                                   *)
(*                                                                         *)
(* Verdicts come from agents that take a job of jobs/assess.json, read the *)
(* opinion file it names and append a line to jobs/assess_results.jsonl    *)
(* whenever they are done, or from an executor that runs inside the verb   *)
(* and returns a list of entries.  One prompt version is in use.           *)
(***************************************************************************)
EXTENDS Workdir

CONSTANTS
  Quoted,       \* [Claim -> does the claim carry quotations]
  QuoteCheck,   \* [Claim -> [Case -> results of its quotations in a text]]
  Unreadable,   \* cases whose opinion is a PDF
  OtherCourt,   \* pairs <<citation, case>>: the case is of another court
  BadPincite,   \* pairs <<citation, case>>: its text lacks the page cited
  Answer,       \* what an agent may say of a claim
  MaxVerdicts   \* bound: verdicts on one claim

ASSUME PipelineAssumption ==
  /\ Quoted \in [Claim -> BOOLEAN]
  /\ QuoteCheck \in [Claim -> [Case -> SUBSET QuoteResult]]
  /\ \A c \in Claim, k \in Case : Quoted[c] => QuoteCheck[c][k] # {}
  /\ Unreadable \subseteq Case
  /\ OtherCourt \subseteq Cite \X Case /\ BadPincite \subseteq Cite \X Case
  /\ Answer \subseteq Support \cup ValidColor \cup {Invalid}
  /\ MaxVerdicts \in Nat

VARIABLES
  jobs,      \* jobs/assess.json: the claims to assess, by opinion file
  agents,    \* jobs agents have read, and the text they read
  verdicts,  \* jobs/assess_results.jsonl
  report     \* report.html and findings.json: the rows they show

assessVars == <<jobs, agents, verdicts, report>>
vars == <<workVars, assessVars>>

Init ==
  /\ WorkdirInit
  /\ jobs = {} /\ agents = {} /\ verdicts = << >> /\ report = << >>

-----------------------------------------------------------------------------
(* check_quotes, crosscheck, triage *)

Text(row) == IF row.opinion = NoName THEN NoCase ELSE opinions[row.opinion]

QuotesChecked(c, row) ==
  IF ~Quoted[c] THEN [row EXCEPT !.worst = "NO_QUOTES", !.floor = ""]
  ELSE IF Text(row) \in {NoCase} \cup Unreadable
  THEN [row EXCEPT !.worst = "NO_OPINION", !.floor = ""]
  ELSE [row EXCEPT !.worst = QuoteWorst(QuoteCheck[c][Text(row)]),
                   !.floor = QuoteFloor(QuoteCheck[c][Text(row)])]

(* The lists of the document give two citations under one name. *)
ToaMismatch(cite) ==
  \E a, b \in toa \cup body : /\ Key[a] # Key[b]
                              /\ {NamePart[a], NamePart[b]} = {NamePart[cite]}

CrossChecked(c, row) ==
  [row EXCEPT !.flagged = \/ ToaMismatch(row.cited)
                          \/ <<row.cited, LookedUp(row.cited).match>> \in OtherCourt
                          \/ <<row.cited, Text(row)>> \in BadPincite]

(* Agents judge a claim with an opinion, unless it is one of another case. *)
Assessable(row) == row.opinion # NoName /\ row.status # "WRONG_CASE"

TrackFor(c, row) ==
  IF ~Assessable(row) THEN ""
  ELSE IF \/ row.worst \in {"FABRICATED", "CLOSE"} \/ row.floor # ""
          \/ Quoted[c] \/ row.flagged \/ row.status \notin CleanVerified
  THEN "full"
  ELSE "fast"

Triaged(c, row) == [row EXCEPT !.track = TrackFor(c, row)]

(* A verb that rewrites every row of claims.csv, and raises without it. *)
Rewrite(verb, rows) ==
  /\ pc = verb
  /\ \/ /\ "claims.csv" \in exists
        /\ claims' = rows
        /\ Return(verb)
     \/ /\ "claims.csv" \notin exists
        /\ Stop /\ UNCHANGED claims
  /\ UNCHANGED <<exists, toa, body, vr, opinions, extracted, besideVars, assessVars>>

CheckQuotes == Rewrite("check_quotes", [c \in DOMAIN claims |-> QuotesChecked(c, claims[c])])

RunCrosscheck == Rewrite("crosscheck", [c \in DOMAIN claims |-> CrossChecked(c, claims[c])])

RunTriage == Rewrite("triage", [c \in DOMAIN claims |-> Triaged(c, claims[c])])

-----------------------------------------------------------------------------
(* assess *)

Eligible == {c \in DOMAIN claims : Assessable(claims[c])}

(* Seeded fault: once a verdict is there, no claim is pending. *)
HaveAll == IF verdicts = << >> THEN {} ELSE Claim

(* Any verdict of the prompt version counts, a useless one too. *)
Have == {verdicts[i].claim : i \in DOMAIN verdicts}

Pending == Eligible \ Have

(* The verdicts on a claim, by their places in the file. *)
About(c) == {i \in DOMAIN verdicts : verdicts[i].claim = c}

(* The executor answers in the verb: for the claims of its jobs, some of   *)
(* them twice or not at all, with no more entries than claims (bound).     *)
(* Entries are appended one by one: a killed executor is one that left out *)
(* the last ones.                                                          *)
Entries ==
  {s \in BoundedSeq([claim : Pending, answer : Answer], Cardinality(Pending)) :
     \A c \in Pending : Cardinality(About(c)) + Cardinality({i \in DOMAIN s : s[i].claim = c})
                         <= MaxVerdicts}

(* stats.done counts one for every entry. *)
DoneWith(entries) == Len(entries)

Assess ==
  /\ pc = "assess"
  /\ \/ /\ "claims.csv" \notin exists
        /\ Stop /\ UNCHANGED <<jobs, verdicts>>
     \/ /\ "claims.csv" \in exists /\ Pending = {}
        /\ Return("assess") /\ UNCHANGED <<jobs, verdicts>>
     \/ /\ "claims.csv" \in exists /\ Pending # {} /\ ~InProcess
        /\ jobs' = {[claim |-> c, opinion |-> claims[c].opinion] : c \in Pending}
        /\ Stop /\ UNCHANGED verdicts
     \/ /\ "claims.csv" \in exists /\ Pending # {} /\ InProcess
        /\ \E entries \in Entries :
             /\ verdicts' = verdicts \o
                  [i \in DOMAIN entries |-> [claim |-> entries[i].claim,
                                             answer |-> entries[i].answer,
                                             about |-> Text(claims[entries[i].claim])]]
             /\ IF DoneWith(entries) = Cardinality(Pending) THEN Return("assess") ELSE Stop
        /\ UNCHANGED jobs
  /\ UNCHANGED <<fileVars, besideVars, agents, report>>

(* An agent takes a job and reads the opinion file it names. *)
AgentReads(j) ==
  /\ j \in jobs
  /\ Cardinality(About(j.claim)) + Cardinality({a \in agents : a.claim = j.claim}) < MaxVerdicts
  /\ agents' = agents \cup {[claim |-> j.claim, about |-> opinions[j.opinion]]}
  /\ UNCHANGED <<workVars, jobs, verdicts, report>>

(* submit_job_result appends whatever it says. *)
AgentSubmits(a, says) ==
  /\ a \in agents
  /\ agents' = agents \ {a}
  /\ verdicts' = Append(verdicts, [claim |-> a.claim, answer |-> says, about |-> a.about])
  /\ UNCHANGED <<workVars, jobs, report>>

-----------------------------------------------------------------------------
(* apply-assessments *)

(* Seeded fault: verdicts are not told apart by their claim. *)
LastVerdict(c) == Last(verdicts)

VerdictOn(c) == verdicts[Max(About(c))]

(* The colour of the axes under assess-v2, the agent's own under assess-v1.*)
(* A quotation counts against a claim if it set a floor.                   *)
ColorOf(row, says) ==
  IF says \in Support
  THEN DeriveColor(row.status, says, IF row.floor = "" THEN "" ELSE row.worst)
  ELSE says

Applied(c, row) ==
  IF ~Assessable(row) \/ About(c) = {} \/ VerdictOn(c).answer = Invalid THEN row
  ELSE [row EXCEPT !.assessment = Floored(ColorOf(row, VerdictOn(c).answer), row.floor)]

(* Raises if no verdict was ever appended, or claims.csv is missing. *)
ApplyAssessments ==
  /\ pc = "apply"
  /\ \/ /\ verdicts # << >> /\ "claims.csv" \in exists
        /\ claims' = [c \in DOMAIN claims |-> Applied(c, claims[c])]
        /\ Return("apply")
     \/ /\ verdicts = << >> \/ "claims.csv" \notin exists
        /\ Stop /\ UNCHANGED claims
  /\ UNCHANGED <<exists, toa, body, vr, opinions, extracted, besideVars, assessVars>>

-----------------------------------------------------------------------------
(* report *)

WriteReport ==
  /\ pc = "report"
  /\ \/ /\ "claims.csv" \in exists
        /\ report' = claims
        /\ exists' = exists \cup {"report.html"}
     \/ /\ "claims.csv" \notin exists
        /\ UNCHANGED <<report, exists>>
  /\ Stop
  /\ UNCHANGED <<claims, toa, body, vr, opinions, extracted, besideVars, jobs, agents, verdicts>>

Lane(row) == ReportLane(row.status, row.assessment, row.opinion # NoName)

-----------------------------------------------------------------------------
(* A verb goes on until it returns; the user and the agents are outside. *)
VerbStep ==
  \/ /\ \/ ExtractDone \/ ExtractAsks \/ ExtractWrites \/ ExtractToa \/ ExtractBody
        \/ VerifyDone \/ VerifyStarts \/ Wave1 \/ Download \/ WriteResults
        \/ Wave2 \/ AppendResults \/ Merge
     /\ UNCHANGED assessVars
  \/ CheckQuotes \/ RunCrosscheck \/ RunTriage
  \/ Assess \/ ApplyAssessments \/ WriteReport

(* `full` starts with extract if it is given the document. *)
RunFull == \E verb \in {"extract", "verify"}, again \in BOOLEAN :
             Call(verb, TRUE, again) /\ UNCHANGED assessVars

RunVerb == \E verb \in Verb, again \in BOOLEAN :
             Call(verb, FALSE, again) /\ UNCHANGED assessVars

Killed == Kill /\ UNCHANGED assessVars

ExtractAgent == \E e \in Extraction \cup {Invalid} :
                  ExtractAnswered(e) /\ UNCHANGED assessVars

Agent == \/ \E j \in jobs : AgentReads(j)
         \/ \E a \in agents, says \in Answer : AgentSubmits(a, says)

Next == VerbStep \/ RunFull \/ RunVerb \/ Killed \/ ExtractAgent \/ Agent

Spec == Init /\ [][Next]_vars

(* Rerunning `full` is how a run is resumed; an agent that is asked reads  *)
(* the opinion and answers.  Nobody has to kill, to force or to call a     *)
(* verb by itself.                                                         *)
Fairness ==
  /\ WF_vars(VerbStep)
  /\ SF_vars(Call("extract", TRUE, FALSE) /\ UNCHANGED assessVars)
  /\ WF_vars(\E e \in Extraction : ExtractAnswered(e) /\ UNCHANGED assessVars)
  /\ \A c \in Claim :
       /\ SF_vars(\E j \in jobs : j.claim = c /\ AgentReads(j))
       /\ WF_vars(\E a \in agents, says \in Answer : a.claim = c /\ AgentSubmits(a, says))

LiveSpec == Spec /\ Fairness

-----------------------------------------------------------------------------
(* Properties.  A report is judged as `full` is about to write it. *)

Reporting == pc = "report" /\ chain

(* A claim in the green lane was found supported by an agent that read the *)
(* very text the claim is linked to: run_assess and run_apply_assessments  *)
(* identify a verdict by its claim alone.                                  *)
GreenIsSupported ==
  Reporting => \A c \in DOMAIN claims : Lane(claims[c]) = "Green" =>
    \E i \in DOMAIN verdicts : /\ verdicts[i].claim = c
                               /\ verdicts[i].answer \in {"supported", "Green"}
                               /\ verdicts[i].about = Text(claims[c])

(* No claim is in the green lane if one of its quotations is invented or   *)
(* altered in the text it is linked to, whatever the agent thought of it.  *)
FloorHolds ==
  Reporting => \A c \in DOMAIN claims : Lane(claims[c]) = "Green" =>
    \/ ~Quoted[c] \/ Text(claims[c]) \in {NoCase} \cup Unreadable
    \/ QuoteCheck[c][Text(claims[c])] \cap {"CLOSE", "FABRICATED"} = {}

(* A claim whose citation only the second wave resolved is merged with     *)
(* what the second wave found: both waves leave a row for it.              *)
MissesResolved ==
  (pc = "check_quotes" /\ chain /\ citations # {}) =>
    \A c \in DOMAIN claims :
      [status |-> claims[c].status, match |-> claims[c].match] = results[claims[c].cited]

(* Running the deterministic verbs of `full` once more on what `full` has  *)
(* just left changes no row: a rerun keeps what later verbs wrote.         *)
FullIsIdempotent ==
  Reporting => \A c \in DOMAIN claims :
    Triaged(c, CrossChecked(c, QuotesChecked(c, Merged(claims[c])))) = claims[c]

(* `full` writes no report while a claim that an agent could judge has no  *)
(* verdict (mcp_server.full: "once verdicts are complete").                *)
OnlyFinishedReports == Reporting => \A c \in Eligible : About(c) # {}

(* Rerunning `full` ends in its report, after kills and after answers that *)
(* fail validation, unless the claims are such that none can be judged.    *)
ReportedUnlessNothingToJudge ==
  <>Reporting \/ <>[](claims # << >> /\ Eligible = {})

(* After a killed verify, "a killed call can simply be re-issued to        *)
(* resume" (mcp_server.verify): once `full` has passed it, no citation is  *)
(* left with the outcome of the first wave alone.                          *)
VerifyResumes ==
  Reporting => \A w \in DOMAIN vr : \A c \in DOMAIN vr[w] :
    vr[w][c].status \notin Located => Cardinality({v \in DOMAIN vr : c \in DOMAIN vr[v]}) = 2

(* When `full` reports and no kill or --force came between, the table and  *)
(* both lists are of one answer of the agent, however many it gave, and    *)
(* every citation that verify was to look up has a row: those of the table *)
(* and of either list, unless verify was given a list of its own, whose    *)
(* citations are then the ones; the others stay unverified in the report.  *)
ListsVerified ==
  (Reporting /\ extracted # << >> /\ kills = 0 /\ forced = 0) =>
    \E e \in Range(extracted) \ {Invalid} :
      /\ \A c \in DOMAIN claims : claims[c].cited = e.claims[c]
      /\ toa = e.toa /\ body = e.body
      /\ (IF given = NotGiven THEN Range(e.claims) \cup e.toa \cup e.body ELSE given)
           \subseteq UNION {DOMAIN vr[w] : w \in DOMAIN vr}

(* merge "links each claim to its opinion file": a claim whose citation    *)
(* resolved to a case is linked to the file named after that case if there *)
(* is one, however similar the names of the others are.                    *)
OwnFileIfStored ==
  pc = "check_quotes" => \A c \in DOMAIN claims :
    (claims[c].match # NoCase /\ Caption[claims[c].match] \in Stored)
      => claims[c].opinion = Caption[claims[c].match]
=============================================================================
