------------------------------- MODULE Workdir -------------------------------
(***************************************************************************)
(* The files of a work directory and the verbs of                          *)
(* src/citation_verifier/proposition_pipeline.py that fill them before an  *)
(* assessment: extract, verify (two waves of lookups, each followed by the *)
(* downloads of opinions) and merge, which joins the two tables and links  *)
(* every claim to an opinion file by the similarity of names.              *)
(*                                                                         *)
(* One process at a time runs a verb, alone or as a link of the chain of   *)
(* `full`, and may be killed between any two of its writes.  The process   *)
(* keeps in memory what a killed one loses: citations, results, todo.      *)
(*                                                                         *)
(* Citations are numbered in the order of citations_from_workdir.  A name  *)
(* is its set of tokens, which is what linkage compares; a file is named   *)
(* after the caption of its case.                                          *)
(***************************************************************************)
EXTENDS Scoring, Sequences, FiniteSets, FiniteSetsExt, SequencesExt

CONSTANTS
  Claim,        \* claim identifiers: positions in the list of an extraction
  Cite,         \* citations
  Key,          \* [Cite -> what is left of a citation without its pinpoint]
  Case,         \* the cases CourtListener holds
  NamePart,     \* [Cite -> tokens of the case name as cited]
  Caption,      \* [Case -> tokens of CourtListener's caption]
  Slug,         \* [Case -> tokens of the last part of its address]
  Sibling,      \* [Case -> longer clusters of the same docket]
  Quick,        \* [Cite -> outcomes of the batch lookup]
  Full,         \* [Cite -> outcomes of the complete verification]
  Extraction,   \* what an agent may extract: claims and both citation lists
  Prepared,     \* extractions the user may have put into claims.csv
  Explicit,     \* lists of citations a caller may give to verify or to full
  NotGiven,
  NoCase,
  NoName,
  Invalid,      \* an answer of an agent that fails validation
  InProcess,    \* does an executor answer within the verb, or do agents later
  MaxAnswers,   \* bound: lines of jobs/extract_results.jsonl, the last one valid
  MaxKills,     \* bound: times the process is killed
  MaxForced     \* bound: verbs run with --force

Outcome == [status : CitationStatus, match : Case \cup {NoCase}]

ASSUME WorkdirAssumption ==
  /\ Claim \subseteq Nat /\ Cite \subseteq Nat
  /\ IsFiniteSet(Claim) /\ IsFiniteSet(Cite) /\ Cite # {}
  /\ NoCase \notin Case /\ Invalid \notin Extraction
  /\ \A k \in Case : IsFiniteSet(Caption[k]) /\ Caption[k] # NoName
  /\ Sibling \in [Case -> SUBSET Case]
  /\ Quick \in [Cite -> SUBSET Outcome]
  /\ Full \in [Cite -> SUBSET Outcome]
  /\ Extraction \subseteq [claims : [Claim -> Cite], toa : SUBSET Cite, body : SUBSET Cite]
  /\ Prepared \subseteq [Claim -> Cite]
  /\ Explicit \subseteq SUBSET Cite /\ NotGiven \notin Explicit
  /\ InProcess \in BOOLEAN
  /\ MaxAnswers \in Nat /\ MaxKills \in Nat /\ MaxForced \in Nat

VARIABLES
  exists,     \* files of the work directory that exist
  claims,     \* claims.csv: a row for every claim it lists
  toa,        \* citations_toa.txt
  body,       \* citations_body.txt
  vr,         \* verification_results.csv: the rows of each wave, by citation
  opinions,   \* opinions/: the case whose text a file holds
  extracted,  \* jobs/extract_results.jsonl
  pc,         \* the verb that runs, and how far it is
  chain,      \* is it a link of `full`
  force,      \* was it run with --force
  answer,     \* in memory: the answer extract writes out
  citations,  \* in memory: the citations being verified
  results,    \* in memory: their outcomes
  todo,       \* in memory: those whose opinion is still to be fetched
  given,      \* (history) the list given to the last verify, if it was given one
  kills,
  forced

fileVars == <<exists, claims, toa, body, vr, opinions, extracted>>
callVars == <<chain, force, answer, citations, results, todo>>
besideVars == <<given, kills, forced>>
workVars == <<fileVars, pc, callVars, besideVars>>

Names == {Caption[k] : k \in Case}

Unverified == [status |-> "", match |-> NoCase]

(* A row as extract or a user writes it. *)
NewRow(cite) ==
  [cited |-> cite, status |-> "", match |-> NoCase, opinion |-> NoName,
   worst |-> "", floor |-> "", flagged |-> FALSE, track |-> "", assessment |-> ""]

Idle ==
  /\ pc = "idle" /\ chain = FALSE /\ force = FALSE
  /\ answer = Invalid /\ citations = {} /\ todo = {}
  /\ results = [c \in Cite |-> Unverified]

WorkdirInit ==
  /\ \/ exists = {} /\ claims = << >>
     \/ exists = {"claims.csv"} /\ claims \in {[c \in Claim |-> NewRow(p[c])] : p \in Prepared}
  /\ toa = {} /\ body = {}
  /\ vr = << >>
  /\ opinions = [n \in Names |-> NoCase]
  /\ extracted = << >>
  /\ Idle
  /\ given = NotGiven /\ kills = 0 /\ forced = 0

-----------------------------------------------------------------------------
(* The chain of `full`, and the verbs one by one. *)

Chain == <<"extract", "verify", "merge", "check_quotes", "crosscheck", "triage",
           "assess", "apply", "report">>

Verb == Range(Chain)

Following(verb) ==
  IF chain /\ verb # Last(Chain)
  THEN Chain[(CHOOSE i \in DOMAIN Chain : Chain[i] = verb) + 1]
  ELSE "idle"

(* The call is over, and what it kept in memory is gone. *)
Stop ==
  /\ pc' = "idle" /\ chain' = FALSE /\ force' = FALSE
  /\ answer' = Invalid /\ citations' = {} /\ todo' = {}
  /\ results' = [c \in Cite |-> Unverified]

(* A verb returned: the next one of the chain, if any. *)
Return(verb) ==
  IF Following(verb) = "idle" THEN Stop
  ELSE pc' = Following(verb) /\ UNCHANGED callVars

Call(verb, whole, again) ==
  /\ pc = "idle"
  /\ pc' = verb /\ chain' = whole /\ force' = again
  /\ again => verb \in {"extract", "verify"} /\ forced < MaxForced
  /\ forced' = IF again THEN forced + 1 ELSE forced
  /\ UNCHANGED <<fileVars, answer, citations, results, todo, given, kills>>

Kill ==
  /\ pc # "idle" /\ kills < MaxKills
  /\ kills' = kills + 1
  /\ Stop
  /\ UNCHANGED <<fileVars, given, forced>>

-----------------------------------------------------------------------------
(* extract *)

(* Seeded fault: the first answer of an agent wins. *)
FirstAnswer == extracted[1]

(* load_verdicts_jsonl in a loop: the last answer wins. *)
LastAnswer == Last(extracted)

Done(file) == file \in exists /\ ~force

ExtractDone ==
  /\ pc = "extract" /\ Done("claims.csv")
  /\ Return("extract")
  /\ UNCHANGED <<fileVars, besideVars>>

(* No answer yet: a job for an agent, or an executor that answers or fails. *)
ExtractAsks ==
  /\ pc = "extract" /\ ~Done("claims.csv") /\ extracted = << >>
  /\ IF InProcess
     THEN \/ /\ \E e \in Extraction \cup {Invalid} : extracted' = << e >>
             /\ UNCHANGED <<exists, pc, callVars>>
          \/ Stop /\ UNCHANGED <<exists, extracted>>
     ELSE /\ exists' = exists \cup {"extract.json"}
          /\ Stop /\ UNCHANGED extracted
  /\ UNCHANGED <<claims, toa, body, vr, opinions, besideVars>>

(* _write_extract_outputs: raises on an invalid answer, or writes claims.csv. *)
ExtractWrites ==
  /\ pc = "extract" /\ ~Done("claims.csv") /\ extracted # << >>
  /\ \/ /\ LastAnswer = Invalid
        /\ Stop /\ UNCHANGED <<exists, claims>>
     \/ /\ LastAnswer # Invalid
        /\ answer' = LastAnswer
        /\ claims' = [c \in Claim |-> NewRow(answer'.claims[c])]
        /\ exists' = exists \cup {"claims.csv"}
        /\ pc' = "citations_toa"
        /\ UNCHANGED <<chain, force, citations, results, todo>>
  /\ UNCHANGED <<toa, body, vr, opinions, extracted, besideVars>>

ExtractToa ==
  /\ pc = "citations_toa"
  /\ toa' = answer.toa
  /\ exists' = exists \cup {"citations_toa.txt"}
  /\ pc' = "citations_body"
  /\ UNCHANGED <<claims, body, vr, opinions, extracted, callVars, besideVars>>

ExtractBody ==
  /\ pc = "citations_body"
  /\ body' = answer.body
  /\ exists' = exists \cup {"citations_body.txt"}
  /\ Return("extract")
  /\ UNCHANGED <<claims, toa, vr, opinions, extracted, besideVars>>

(* An agent appends its answer to jobs/extract_results.jsonl. *)
ExtractAnswered(e) ==
  /\ ~InProcess /\ "extract.json" \in exists
  /\ Len(extracted) < MaxAnswers
  /\ e = Invalid => Len(extracted) < MaxAnswers - 1
  /\ extracted' = Append(extracted, e)
  /\ UNCHANGED <<exists, claims, toa, body, vr, opinions, pc, callVars, besideVars>>

-----------------------------------------------------------------------------
(* verify *)

Downloadable(c) == results'[c].status \in Located

VerifyDone ==
  /\ pc = "verify" /\ Done("verification_results.csv")
  /\ Return("verify")
  /\ UNCHANGED <<fileVars, besideVars>>

(* Seeded fault: the list of the document's body is forgotten. *)
CitedOrInTable == {claims[c].cited : c \in DOMAIN claims} \cup toa

(* citations_from_workdir *)
CitationsFromWorkdir == {claims[c].cited : c \in DOMAIN claims} \cup toa \cup body

(* The citations verify is given, or else those of the work directory:     *)
(* citations_from_workdir raises without claims.csv.  A list is taken to   *)
(* name no citation twice, in the order of their numbers.                  *)
VerifyStarts ==
  /\ pc = "verify" /\ ~Done("verification_results.csv")
  /\ \/ \E list \in Explicit \cup {NotGiven} :
          /\ list = NotGiven => "claims.csv" \in exists
          /\ citations' = IF list = NotGiven THEN CitationsFromWorkdir ELSE list
          /\ given' = list
          /\ pc' = "wave1"
          /\ UNCHANGED <<chain, force, answer, results, todo>>
     \/ "claims.csv" \notin exists /\ Stop /\ UNCHANGED given
  /\ UNCHANGED <<fileVars, kills, forced>>

(* A lookup of some citations: their outcomes, and the opinions to fetch. *)
LookUp(asked, outcomes) ==
  /\ results' \in [Cite -> UNION {outcomes[c] : c \in asked} \cup Range(results)]
  /\ \A c \in asked : results'[c] \in outcomes[c]
  /\ \A c \in Cite \ asked : results'[c] = results[c]
  /\ todo' = {c \in asked : Downloadable(c)}

Wave1 ==
  /\ pc = "wave1"
  /\ LookUp(citations, Quick)
  /\ pc' = "downloads1"
  /\ UNCHANGED <<fileVars, chain, force, answer, citations, besideVars>>

(* _find_substantive_sibling: a short order stands for a longer opinion of *)
(* its docket, unless a request for one fails.                             *)
Fetchable(k) == {k} \cup Sibling[k]

(* _download_opinion: one citation, and its result follows what was fetched; *)
(* any failure is swallowed, that of the write too.                          *)
Download ==
  /\ pc \in {"downloads1", "downloads2"} /\ todo # {}
  /\ LET c == Min(todo)
     IN /\ todo' = todo \ {c}
        /\ \/ UNCHANGED <<opinions, results>>
           \/ /\ results[c].match # NoCase
              /\ \E k \in Fetchable(results[c].match) :
                   /\ results' = [results EXCEPT ![c].match = k]
                   /\ opinions' \in {opinions, [opinions EXCEPT ![Caption[k]] = k]}
  /\ UNCHANGED <<exists, claims, toa, body, vr, extracted, pc, chain, force, answer, citations>>
  /\ UNCHANGED besideVars

Misses == {c \in citations : results[c].status \notin Located}

(* One row for each citation of a wave, in their order. *)
RowsOf(cites) == [c \in cites |-> results[c]]

WriteResults ==
  /\ pc = "downloads1" /\ todo = {}
  /\ vr' = << RowsOf(citations) >>
  /\ exists' = exists \cup {"verification_results.csv"}
  /\ pc' = "wave2"
  /\ UNCHANGED <<claims, toa, body, opinions, extracted, callVars, besideVars>>

(* Wave 2 looks up what wave 1 missed, if anything. *)
Wave2 ==
  /\ pc = "wave2"
  /\ \/ /\ Misses = {}
        /\ Return("verify")
     \/ /\ Misses # {}
        /\ LookUp(Misses, Full)
        /\ citations' = Misses
        /\ pc' = "downloads2"
        /\ UNCHANGED <<chain, force, answer>>
  /\ UNCHANGED <<fileVars, besideVars>>

AppendResults ==
  /\ pc = "downloads2" /\ todo = {}
  /\ vr' = Append(vr, RowsOf(citations))
  /\ Return("verify")
  /\ UNCHANGED <<exists, claims, toa, body, opinions, extracted, besideVars>>

-----------------------------------------------------------------------------
(* merge *)

(* The rows of a wave that share the key of a citation, and the waves with one. *)
RowsFor(cite, wave) == {c \in DOMAIN vr[wave] : Key[c] = Key[cite]}
WavesFor(cite) == {w \in DOMAIN vr : RowsFor(cite, w) # {}}

(* Seeded fault: the first row of a citation counts. *)
FirstRow(cite) ==
  LET wave == Min(WavesFor(cite))
  IN IF WavesFor(cite) = {} THEN Unverified ELSE vr[wave][Min(RowsFor(cite, wave))]

(* vr_lookup: a dictionary by key, so the last row of a key counts. *)
LookedUp(cite) ==
  LET wave == Max(WavesFor(cite))
  IN IF WavesFor(cite) = {} THEN Unverified ELSE vr[wave][Max(RowsFor(cite, wave))]

(* The Jaccard similarity of two names is at least _LINK_THRESHOLD = 1/4,  *)
(* or that of one pair greater than that of another.                       *)
Similar(a, b) == a # {} /\ 4 * Cardinality(a \cap b) >= Cardinality(a \cup b)

Closer(a, b, d) ==
  Cardinality(a \cap b) * Cardinality(a \cup d) > Cardinality(a \cap d) * Cardinality(a \cup b)

Stored == {n \in Names : opinions[n] # NoCase}

(* Seeded fault: any file that is close enough. *)
CloseEnough(name) == {n \in Stored : Similar(name, n)}

(* The files as close to a name as any other, if close enough. *)
Closest(name) ==
  {n \in Stored : Similar(name, n) /\ \A m \in Stored : ~Closer(name, m, n)}

(* The directory is listed in a fixed order that nothing else depends on. *)
FileLike(name) == CHOOSE n \in Closest(name) : TRUE

(* _link_opinion_file, and the gate of merge_claims. *)
Linked(cite, match) ==
  IF match = NoCase THEN NoName
  ELSE IF Closest(Slug[match]) # {} THEN FileLike(Slug[match])
  ELSE IF Closest(Caption[match]) # {} THEN FileLike(Caption[match])
  ELSE IF Closest(NamePart[cite]) # {} THEN FileLike(NamePart[cite])
  ELSE NoName

(* Seeded fault: a merge keeps the columns of an extracted row only. *)
MergedAfresh(row) ==
  LET found == LookedUp(row.cited)
  IN [NewRow(row.cited) EXCEPT !.status = found.status, !.match = found.match,
                               !.opinion = Linked(row.cited, found.match)]

Merged(row) ==
  LET found == LookedUp(row.cited)
  IN [row EXCEPT !.status = found.status, !.match = found.match,
                 !.opinion = Linked(row.cited, found.match)]

Merge ==
  /\ pc = "merge"
  /\ \/ /\ {"claims.csv", "verification_results.csv"} \subseteq exists
        /\ claims' = [c \in DOMAIN claims |-> Merged(claims[c])]
        /\ Return("merge")
     \/ /\ ~({"claims.csv", "verification_results.csv"} \subseteq exists)
        /\ Stop /\ UNCHANGED claims
  /\ UNCHANGED <<exists, toa, body, vr, opinions, extracted, besideVars>>
=============================================================================
