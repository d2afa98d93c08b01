------------------------------- MODULE Verifier -------------------------------
(***************************************************************************)
(* The resolution pipeline of src/citation_verifier/verifier.py, as one    *)
(* citation goes through it in verify() and verify_async(): the citation   *)
(* lookup, the caption investigation of a hit whose name disagrees, the    *)
(* three searches of the fallback with their guards, the choice among the  *)
(* pooled candidates, and _finalize_result with its two promotions.        *)
(*                                                                         *)
(* What CourtListener holds about a citation is its `world`, fixed for the *)
(* run; an API call either returns what the world says or raises.  Names,  *)
(* dates and citations are abstracted to the outcomes the code branches    *)
(* on.  Scores are hundredths.  A stage keeps only its best candidate: the *)
(* code reads nothing else of the others.                                  *)
(***************************************************************************)
EXTENDS Integers, Sequences

CONSTANTS
  Cite,    \* the citations being verified
  Input,   \* what the parser may have found in a citation
  World    \* what CourtListener may hold about it

VerifiedScore == 40   \* _VERIFIED_SCORE_THRESHOLD
CredibleScore == 50   \* has_credible_match

Score == 0..100

(* ParsedCitation: has it a case name, a court, a year, a docket number, a *)
(* reporter or WL cite; is its court id known, is it a state-court cite.   *)
ParsedCitation ==
  [name : BOOLEAN, court : BOOLEAN, year : BOOLEAN, docketNo : BOOLEAN,
   cite : BOOLEAN, courtId : BOOLEAN, state : BOOLEAN]

(* The best opinion a search returns; `check` is its CiteCheck. *)
Opinion ==
  [score : Score, sameCourt : BOOLEAN,
   check : {"corroborated", "not_on_record", "contradicted"}]

(* The best docket a RECAP search returns: its score with the date of its   *)
(* document and without, what that document is (`doc`: none, one the gate   *)
(* accepts, one it accepts once its details are fetched, one it refuses),   *)
(* and what the search response itself carries of it (`docs`: the document, *)
(* others only, or nothing).                                                *)
Docket ==
  [score : Score, undated : Score, sameCourt : BOOLEAN, corroborated : BOOLEAN,
   doc : {"none", "opinion", "refinable", "refused"},
   docs : {"listed", "others", "absent"}]

NoMatch == [none |-> TRUE]

Source == {"display", "full", "docket", "text"}
Lookup == {"miss", "match", "nameless", "mismatch", "no_primary"}

WorldType ==
  [lookup : Lookup, captions : SUBSET Source,
   opinion : Opinion \cup {NoMatch},
   recapDoc : Docket \cup {NoMatch}, recapDocket : Docket \cup {NoMatch}]

ASSUME VerifierAssumption ==
  /\ Input \subseteq ParsedCitation
  /\ World \subseteq WorldType

(* CandidateMatch, as _build_fallback_result reads it. *)
Candidate ==
  [kind : {"opinion", "recap"}, score : Score, sameCourt : BOOLEAN,
   check : {"corroborated", "not_on_record", "contradicted"},
   corroborated : BOOLEAN, doc : {"none", "opinion", "refinable", "refused"}]

Stage == {"citation_lookup", "caption_investigation", "opinion_search",
          "recap_document_search", "recap_docket_search"}
Verdict == {"resolved", "no_match", "errored"}
Status == {"VERIFIED", "VERIFIED_PARTIAL", "VERIFIED_VIA_RECAP",
           "VERIFIED_DOCKET_ONLY", "WRONG_CASE", "CITE_UNCONFIRMED", "NOT_FOUND",
           "VERIFICATION_INCOMPLETE", "INSUFFICIENT_DATA"}
Id == {"cluster", "docket", "document"}
Category == {"none", "name_unverified", "name_divergence", "silent_partial",
             "cite_contradicted", "cite_not_on_record"}
Result == [status : Status, ids : SUBSET Id, text : {"none", "opinion", "recap"},
           warning : Category]
NoResult == [status |-> "none"]

(* The API calls one citation may make. *)
Call == {"lookup", "cluster", "docket", "text", "opinions", "recap_documents",
         "recap_dockets", "entries", "document", "investigation"}

VARIABLES
  parsed,     \* the parsed citation
  world,      \* what CourtListener holds about it
  quickOnly,  \* the quick_only argument of the call
  pc,         \* the stage the citation is at
  path,       \* its resolution_path
  pool,       \* its candidates, in the order the stages found them
  result,     \* its VerificationResult
  failed      \* (history) the API calls that raised

pipeline == <<pc, path, pool, result, failed>>
vars == <<parsed, world, quickOnly, pc, path, pool, result, failed>>

Pc == Stage \cup {"waiting", "conclude", "done"}

TypeOK ==
  /\ parsed \in [Cite -> Input]
  /\ world \in [Cite -> World]
  /\ quickOnly \in BOOLEAN
  /\ pc \in [Cite -> Pc]
  /\ path \in [Cite -> Seq([stage : Stage, verdict : Verdict])]
  /\ pool \in [Cite -> Seq(Candidate)]
  /\ result \in [Cite -> Result \cup {NoResult}]
  /\ failed \in [Cite -> SUBSET Call]

-----------------------------------------------------------------------------
(* _finalize_result *)

Has(entries, v) == \E i \in DOMAIN entries : entries[i].verdict = v

(* Seeded fault: only an error of the last stage counts. *)
PromotedIfLastErrored(status, entries) ==
  IF /\ status = "NOT_FOUND" /\ entries # << >>
     /\ entries[Len(entries)].verdict = "errored" /\ ~Has(entries, "resolved")
  THEN "VERIFICATION_INCOMPLETE"
  ELSE status

(* _promote_to_incomplete_if_only_errored *)
PromotedToIncomplete(status, entries) ==
  IF status = "NOT_FOUND" /\ Has(entries, "errored") /\ ~Has(entries, "resolved")
  THEN "VERIFICATION_INCOMPLETE"
  ELSE status

(* _promote_to_insufficient_data_if_no_anchors *)
PromotedToInsufficient(status, p) ==
  IF status = "NOT_FOUND" /\ ~p.court /\ ~p.year THEN "INSUFFICIENT_DATA" ELSE status

(* Seeded fault: the ids of an answer that is none are left in place. *)
FinalizedKeepingIds(p, entries, r) ==
  [r EXCEPT !.status = PromotedToInsufficient(PromotedToIncomplete(r.status, entries), p)]

Finalized(p, entries, r) ==
  LET status == PromotedToInsufficient(PromotedToIncomplete(r.status, entries), p)
  IN IF status \in {"VERIFICATION_INCOMPLETE", "INSUFFICIENT_DATA"}
     THEN [r EXCEPT !.status = status, !.ids = {}, !.text = "none"]
     ELSE [r EXCEPT !.status = status]

Nothing == [status |-> "NOT_FOUND", ids |-> {}, text |-> "none", warning |-> "none"]

(* A result with a CourtListener cluster behind it. *)
OfCluster(status, warning) ==
  [status |-> status, ids |-> {"cluster"}, text |-> "opinion", warning |-> warning]

-----------------------------------------------------------------------------
(* Choosing among the candidates: _build_fallback_result *)

OfOpinion(o) ==
  [kind |-> "opinion", score |-> o.score, sameCourt |-> o.sameCourt,
   check |-> o.check, corroborated |-> FALSE, doc |-> "none"]

OfDocket(p, d, score, doc) ==
  [kind |-> "recap", score |-> score, sameCourt |-> d.sameCourt,
   check |-> "not_on_record", corroborated |-> p.docketNo /\ d.corroborated,
   doc |-> doc]

(* Seeded fault: the bare docket's score is multiplied but not brought back. *)
RecapCandidateUnscaled(p, d, entriesFetched) == OfDocket(p, d, d.undated * 6, "none")

(* _process_recap_results with _fetch_docs_for_docket: the document is in the *)
(* response, or the docket entries of the cited year bring it; without it     *)
(* another document of the response stands in, or the bare docket at six      *)
(* tenths of its score.                                                       *)
RecapCandidate(p, d, entriesFetched) ==
  IF d.doc # "none" /\ (d.docs = "listed" \/ (p.year /\ entriesFetched))
  THEN OfDocket(p, d, d.score, d.doc)
  ELSE IF d.docs = "others"
       THEN OfDocket(p, d, d.undated, "refused")
       ELSE OfDocket(p, d, (d.undated * 6) \div 10, "none")

(* The sort is stable: of equal scores the first found wins. *)
Best(candidates) ==
  candidates[CHOOSE i \in DOMAIN candidates :
               \A j \in DOMAIN candidates :
                 \/ candidates[j].score < candidates[i].score
                 \/ candidates[j].score = candidates[i].score /\ i <= j]

(* _classify_cite_unconfirmed *)
CiteChecked(p, best, r) ==
  IF ~p.cite THEN r
  ELSE CASE r.status = "VERIFIED" /\ best.check = "contradicted" ->
              [r EXCEPT !.status = "CITE_UNCONFIRMED", !.warning = "cite_contradicted"]
         [] r.status = "VERIFIED" /\ best.check = "not_on_record" ->
              [r EXCEPT !.warning = "cite_not_on_record"]
         [] r.status = "VERIFIED_VIA_RECAP" ->
              [r EXCEPT !.warning = "cite_not_on_record"]
         [] r.status = "VERIFIED_DOCKET_ONLY" /\ best.corroborated ->
              [r EXCEPT !.warning = "cite_not_on_record"]
         [] r.status = "VERIFIED_DOCKET_ONLY" /\ ~best.corroborated ->
              [r EXCEPT !.status = "CITE_UNCONFIRMED", !.warning = "cite_not_on_record"]
         [] OTHER -> r

(* Seeded fault: the threshold is dropped for opinions. *)
WorthAnyScore(best, docFetched) ==
  IF best.kind = "opinion" THEN OfCluster("VERIFIED", "none") ELSE Nothing

(* What the winning candidate is worth before the citation itself is checked: *)
(* `docFetched` says whether the details of its document could be had.        *)
Worth(best, docFetched) ==
  LET gate == best.doc = "opinion" \/ (best.doc = "refinable" /\ docFetched) IN
  CASE best.kind = "opinion" /\ best.score >= VerifiedScore -> OfCluster("VERIFIED", "none")
    [] best.kind = "opinion" /\ best.score < VerifiedScore ->
         [Nothing EXCEPT !.ids = {"cluster"}]
    [] best.kind = "recap" /\ best.score < VerifiedScore ->
         [Nothing EXCEPT !.ids = {"docket"}]
    [] best.kind = "recap" /\ best.score >= VerifiedScore /\ gate ->
         [status |-> "VERIFIED_VIA_RECAP", ids |-> {"docket", "document"},
          text |-> "recap", warning |-> "none"]
    [] best.kind = "recap" /\ best.score >= VerifiedScore /\ ~gate ->
         [status |-> "VERIFIED_DOCKET_ONLY", ids |-> {"docket"},
          text |-> "none", warning |-> "none"]

(* Only the best candidate is held against the cited court. *)
WrongCourt(p, best) == p.cite /\ p.courtId /\ ~best.sameCourt

Judged(p, candidates, docFetched) ==
  IF candidates = << >> THEN Nothing
  ELSE LET best == Best(candidates) IN
       IF WrongCourt(p, best) THEN Nothing
       ELSE CiteChecked(p, best, Worth(best, docFetched))

-----------------------------------------------------------------------------
(* The guards of _search_fallback: which search comes next *)

(* not has_credible_match and not is_state_court *)
RecapAllowed(p, candidates) ==
  /\ ~p.state
  /\ \A i \in DOMAIN candidates :
       candidates[i].kind = "opinion" => candidates[i].score < CredibleScore

AfterRecapDocument(p, candidates) ==
  IF RecapAllowed(p, candidates) /\ p.name THEN "recap_docket_search" ELSE "conclude"

(* Seeded fault: the state-court and credible-match guards are dropped. *)
AfterOpinionUnguarded(p, candidates) ==
  IF p.docketNo THEN "recap_document_search" ELSE AfterRecapDocument(p, candidates)

AfterOpinion(p, candidates) ==
  IF RecapAllowed(p, candidates) /\ p.docketNo
  THEN "recap_document_search"
  ELSE AfterRecapDocument(p, candidates)

AfterMiss(p) == IF p.name THEN "opinion_search" ELSE AfterOpinion(p, << >>)

-----------------------------------------------------------------------------
(* The machine.  `hit` of the batch surface and of verify() share these steps. *)

Entry(stage, verdict) == [stage |-> stage, verdict |-> verdict]

Init ==
  /\ parsed \in [Cite -> Input]
  /\ world \in [Cite -> World]
  /\ quickOnly \in BOOLEAN
  /\ pc = [c \in Cite |-> "citation_lookup"]
  /\ path = [c \in Cite |-> << >>]
  /\ pool = [c \in Cite |-> << >>]
  /\ result = [c \in Cite |-> NoResult]
  /\ failed = [c \in Cite |-> {}]

(* The path is closed by these entries and the result built from it. *)
Finish(c, entries, r) ==
  /\ pc' = [pc EXCEPT ![c] = "done"]
  /\ path' = [path EXCEPT ![c] = @ \o entries]
  /\ result' = [result EXCEPT ![c] = Finalized(parsed[c], path[c] \o entries, r)]

(* _process_citation_lookup_hit: without a parsed name there is none to compare. *)
LookupKind(c) ==
  IF world[c].lookup # "miss" /\ ~parsed[c].name THEN "nameless" ELSE world[c].lookup

HitResult(kind) ==
  CASE kind = "match" -> OfCluster("VERIFIED", "none")
    [] kind = "nameless" -> OfCluster("VERIFIED_PARTIAL", "name_unverified")
    [] kind = "no_primary" -> OfCluster("VERIFIED_PARTIAL", "silent_partial")

LookupHit(c) ==
  LET entry == Entry("citation_lookup", "resolved") IN
  /\ \/ /\ LookupKind(c) = "mismatch"
        /\ pc' = [pc EXCEPT ![c] = "caption_investigation"]
        /\ path' = [path EXCEPT ![c] = Append(@, entry)]
        /\ UNCHANGED result
     \/ /\ LookupKind(c) \in {"match", "nameless", "no_primary"}
        /\ Finish(c, << entry >>, HitResult(LookupKind(c)))
  /\ UNCHANGED pool

(* Without a hit: quick_only stops here, and so does a citation with neither *)
(* court nor year; else the first search whose guard holds.                  *)
LookupWithoutHit(c, verdict) ==
  LET entry == Entry("citation_lookup", verdict) IN
  /\ \/ quickOnly /\ Finish(c, << entry >>, Nothing)
     \/ /\ ~quickOnly /\ ~parsed[c].court /\ ~parsed[c].year
        /\ Finish(c, << entry, Entry("opinion_search", "no_match") >>, Nothing)
     \/ /\ ~quickOnly /\ (parsed[c].court \/ parsed[c].year)
        /\ pc' = [pc EXCEPT ![c] = AfterMiss(parsed[c])]
        /\ path' = [path EXCEPT ![c] = Append(@, entry)]
        /\ UNCHANGED result
  /\ UNCHANGED pool

Failed(c, calls) == failed' = [failed EXCEPT ![c] = @ \cup calls]

CitationLookup(c) ==
  /\ pc[c] = "citation_lookup"
  /\ \/ Failed(c, {"lookup"}) /\ LookupWithoutHit(c, "errored")
     \/ world[c].lookup = "miss" /\ Failed(c, {}) /\ LookupWithoutHit(c, "no_match")
     \/ world[c].lookup # "miss" /\ Failed(c, {}) /\ LookupHit(c)
  /\ UNCHANGED <<parsed, world, quickOnly>>

(* _investigate_caption: each of its calls may raise and is then passed over; *)
(* the docket is only known from the cluster.                                 *)
InvestigateCaption(c) ==
  LET Classified(heard) ==
        IF heard # {} THEN OfCluster("VERIFIED", "name_divergence")
                      ELSE OfCluster("WRONG_CASE", "none")
  IN
  /\ pc[c] = "caption_investigation"
  /\ \E lost \in SUBSET {"cluster", "docket", "text"} :
       LET unheard == (lost \cap {"docket", "text"})
                        \cup (IF "cluster" \in lost THEN {"full", "docket"} ELSE {}) IN
       /\ "cluster" \in lost => "docket" \notin lost
       /\ Failed(c, lost)
       /\ Finish(c, << Entry("caption_investigation", "resolved") >>,
                 Classified(world[c].captions \ unheard))
  /\ UNCHANGED <<parsed, world, quickOnly, pool>>

(* The investigation itself raises: the hit stands, its name unclassified. *)
CaptionUnclassified(c) ==
  /\ pc[c] = "caption_investigation"
  /\ Finish(c, << Entry("caption_investigation", "errored") >>,
            OfCluster("VERIFIED", "name_divergence"))
  /\ Failed(c, {"investigation"})
  /\ UNCHANGED <<parsed, world, quickOnly, pool>>

(* A search found these candidates (one or none), having lost these calls. *)
SearchReturns(c, stage, found, lost) ==
  /\ path' = [path EXCEPT ![c] = Append(@, Entry(stage,
                 IF found # << >> /\ found[1].score >= VerifiedScore
                 THEN "resolved" ELSE "no_match"))]
  /\ pool' = [pool EXCEPT ![c] = @ \o found]
  /\ Failed(c, lost)

(* Seeded fault: a search that raised is recorded as one that found nothing. *)
SearchRaisesSilently(c, stage, call) == SearchReturns(c, stage, << >>, {call})

SearchRaises(c, stage, call) ==
  /\ path' = [path EXCEPT ![c] = Append(@, Entry(stage, "errored"))]
  /\ UNCHANGED pool
  /\ Failed(c, {call})

GoOn(c, next) ==
  /\ pc' = [pc EXCEPT ![c] = next]
  /\ UNCHANGED <<parsed, world, quickOnly, result>>

OpinionsFound(w) == IF w.opinion = NoMatch THEN << >> ELSE << OfOpinion(w.opinion) >>

OpinionSearch(c) ==
  /\ pc[c] = "opinion_search"
  /\ \/ SearchReturns(c, "opinion_search", OpinionsFound(world[c]), {})
     \/ SearchRaises(c, "opinion_search", "opinions")
  /\ GoOn(c, AfterOpinion(parsed[c], pool'[c]))

DocketsFound(p, d, entriesFetched) ==
  IF d = NoMatch THEN << >> ELSE << RecapCandidate(p, d, entriesFetched) >>

(* A RECAP search; the docket-entries query inside it is lost without a trace. *)
RecapSearch(c, stage, call, d) ==
  \/ SearchReturns(c, stage, DocketsFound(parsed[c], d, TRUE), {})
  \/ /\ d # NoMatch /\ d.docs # "listed" /\ parsed[c].year
     /\ SearchReturns(c, stage, DocketsFound(parsed[c], d, FALSE), {"entries"})
  \/ SearchRaises(c, stage, call)

RecapDocumentSearch(c) ==
  /\ pc[c] = "recap_document_search"
  /\ RecapSearch(c, "recap_document_search", "recap_documents", world[c].recapDoc)
  /\ GoOn(c, AfterRecapDocument(parsed[c], pool'[c]))

RecapDocketSearch(c) ==
  /\ pc[c] = "recap_docket_search"
  /\ RecapSearch(c, "recap_docket_search", "recap_dockets", world[c].recapDocket)
  /\ GoOn(c, "conclude")

(* _build_fallback_result; fetching the details of the best document may raise. *)
Conclude(c) ==
  /\ pc[c] = "conclude"
  /\ \E docFetched \in BOOLEAN :
       /\ Failed(c, IF docFetched THEN {} ELSE {"document"})
       /\ ~docFetched =>
            LET best == Best(pool[c]) IN
            /\ pool[c] # << >> /\ ~WrongCourt(parsed[c], best)
            /\ best.doc = "refinable" /\ best.score >= VerifiedScore
       /\ Finish(c, << >>, Judged(parsed[c], pool[c], docFetched))
  /\ UNCHANGED <<parsed, world, quickOnly, pool>>

(* What verify() and the fallback of verify_batch() both run. *)
Fallback(c) ==
  \/ OpinionSearch(c)
  \/ RecapDocumentSearch(c)
  \/ RecapDocketSearch(c)
  \/ Conclude(c)

Verify(c) ==
  \/ CitationLookup(c)
  \/ InvestigateCaption(c)
  \/ CaptionUnclassified(c)
  \/ Fallback(c)

Done == (\A c \in Cite : pc[c] = "done") /\ UNCHANGED vars

Next == (\E c \in Cite : Verify(c)) \/ Done

Spec == Init /\ [][Next]_vars

-----------------------------------------------------------------------------
(* Properties *)

Answered(c) == pc[c] = "done"

(* What the pipeline is to answer when no call fails, read off the world: the *)
(* candidates of the opinion search, and RECAP's unless the cite is a state   *)
(* court's or an opinion is credible.                                         *)
FailureFree(c) ==
  LET p == parsed[c]
      w == world[c]
      opinions == IF p.name THEN OpinionsFound(w) ELSE << >>
      credible == opinions # << >> /\ opinions[1].score >= CredibleScore
      Dockets(asked, d) == IF asked /\ ~p.state /\ ~credible
                           THEN DocketsFound(p, d, TRUE) ELSE << >>
      candidates == opinions \o Dockets(p.docketNo, w.recapDoc)
                             \o Dockets(p.name, w.recapDocket)
      answer ==
        CASE LookupKind(c) = "mismatch" ->
               OfCluster(IF w.captions = {} THEN "WRONG_CASE" ELSE "VERIFIED",
                         IF w.captions = {} THEN "none" ELSE "name_divergence")
          [] LookupKind(c) \in {"match", "nameless", "no_primary"} ->
               HitResult(LookupKind(c))
          [] OTHER -> IF quickOnly \/ (~p.court /\ ~p.year) THEN Nothing
                      ELSE Judged(p, candidates, TRUE)
  IN Finalized(p, << >>, answer)

(* A citation none of whose calls failed gets the answer its world determines, *)
(* whatever guards skipped stages on the way and whoever else is verified      *)
(* (verify, _search_fallback).                                                 *)
FailureFreeAnswer ==
  \A c \in Cite : Answered(c) /\ failed[c] = {} => result[c] = FailureFree(c)

StageCall == {"lookup", "opinions", "recap_documents", "recap_dockets"}

(* The gate of _promote_to_incomplete_if_only_errored, held against the calls  *)
(* that really raised: a lookup or search that failed shows in a NOT_FOUND or  *)
(* INSUFFICIENT_DATA answer unless some stage resolved.                        *)
ErrorsSurface ==
  \A c \in Cite :
    /\ Answered(c) /\ failed[c] \cap StageCall # {}
    /\ ~Has(path[c], "resolved")
    => result[c].status \notin {"NOT_FOUND", "INSUFFICIENT_DATA"}

(* Whatever is claimed of a case is backed by a resolved entry of the path, so *)
(* that headline_confidence is not None; an incomplete verification has an     *)
(* errored entry and no resolved one (models.py, headline_confidence).         *)
ClaimsAreBacked ==
  \A c \in Cite : Answered(c) =>
    /\ result[c].status \notin {"NOT_FOUND", "INSUFFICIENT_DATA", "VERIFICATION_INCOMPLETE"}
         => Has(path[c], "resolved")
    /\ result[c].status = "VERIFICATION_INCOMPLETE"
         => Has(path[c], "errored") /\ ~Has(path[c], "resolved")

(* The ids and the text source a consumer downloads by fit the status: text   *)
(* behind every full verification, a RECAP document exactly when the gate      *)
(* passed, and nothing at all behind the two statuses that answer nothing      *)
(* (_finalize_result, _build_fallback_result).                                 *)
IdsFitStatus ==
  \A c \in Cite : Answered(c) =>
    LET r == result[c] IN
    /\ r.status \in {"VERIFIED", "VERIFIED_PARTIAL", "WRONG_CASE"}
         => r.ids = {"cluster"} /\ r.text = "opinion"
    /\ r.status = "VERIFIED_VIA_RECAP" <=> "document" \in r.ids
    /\ r.text = "recap" <=> "document" \in r.ids
    /\ r.status = "VERIFIED_DOCKET_ONLY" => r.ids = {"docket"}
    /\ r.status \in {"VERIFICATION_INCOMPLETE", "INSUFFICIENT_DATA"} => r.ids = {}
    /\ r.status = "NOT_FOUND" => r.text = "none"

(* The inductive invariant of the three properties above: what has been found *)
(* and what has failed so far shows in the path.                              *)

(* Each search adds at most one candidate. *)
PoolFitsStage ==
  \A c \in Cite :
    /\ Len(pool[c]) <= 3
    /\ pc[c] = "recap_docket_search" => Len(pool[c]) <= 2
    /\ pc[c] = "recap_document_search" => Len(pool[c]) <= 1
    /\ pc[c] \in {"citation_lookup", "caption_investigation", "opinion_search"}
         => pool[c] = << >>

(* A candidate over the threshold, or a hit under investigation, has resolved *)
(* its stage.                                                                 *)
FindingsRecorded ==
  \A c \in Cite :
    /\ \A i \in 1..Len(pool[c]) :
         pool[c][i].score >= VerifiedScore => Has(path[c], "resolved")
    /\ pc[c] = "caption_investigation" => Has(path[c], "resolved")

FailuresRecorded ==
  \A c \in Cite : failed[c] \cap StageCall # {} => Has(path[c], "errored")

IInv ==
  /\ TypeOK
  /\ PoolFitsStage
  /\ FindingsRecorded
  /\ FailuresRecorded
  /\ ErrorsSurface
  /\ ClaimsAreBacked
  /\ IdsFitStatus

(* Where a failing call may end in NOT_FOUND or WRONG_CASE though a run        *)
(* without failures ends in another status.  It is NOT_FOUND only after the    *)
(* docket-entries query failed (_fetch_docs_for_docket swallows it), or if a   *)
(* stage resolved and its candidate was then rejected, which silences the      *)
(* error of another.  It is WRONG_CASE only after a call of the caption        *)
(* investigation failed.  Other changes of status, to VERIFICATION_INCOMPLETE  *)
(* or to a claim of another source, are not limited here.                      *)
LossIsConfined ==
  \A c \in Cite : Answered(c) /\ result[c].status # FailureFree(c).status =>
    /\ result[c].status = "NOT_FOUND" =>
         \/ "entries" \in failed[c]
         \/ Has(path[c], "errored") /\ Has(path[c], "resolved")
    /\ result[c].status = "WRONG_CASE" => failed[c] \cap {"cluster", "docket", "text"} # {}
=============================================================================
