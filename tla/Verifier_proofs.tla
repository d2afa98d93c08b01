--------------------------- MODULE Verifier_proofs ---------------------------
(* Proofs about Verifier. *)
EXTENDS Verifier, SequenceTheorems, TLAPS

PathEntry == [stage : Stage, verdict : Verdict]

LEMMA EntryType ==
  ASSUME NEW s \in Stage, NEW v \in Verdict
  PROVE  Entry(s, v) \in PathEntry /\ Entry(s, v).verdict = v
BY DEF Entry, PathEntry

LEMMA HasLen ==
  ASSUME NEW s \in Seq(PathEntry), NEW v
  PROVE  Has(s, v) <=> \E i \in 1..Len(s) : s[i].verdict = v
BY LenProperties DEF Has

LEMMA HasConcat ==
  ASSUME NEW s \in Seq(PathEntry), NEW t \in Seq(PathEntry), NEW v
  PROVE  /\ s \o t \in Seq(PathEntry)
         /\ Has(s \o t, v) <=> Has(s, v) \/ Has(t, v)
<1>1. /\ s \o t \in Seq(PathEntry)
      /\ Len(s \o t) = Len(s) + Len(t)
      /\ \A i \in 1 .. Len(s) + Len(t) : (s \o t)[i] =
                     IF i <= Len(s) THEN s[i] ELSE t[i - Len(s)]
  BY ConcatProperties
<1>2. Len(s) \in Nat /\ Len(t) \in Nat
  BY LenProperties
<1>3. ASSUME Has(s \o t, v)
      PROVE  Has(s, v) \/ Has(t, v)
  <2>1. PICK i \in 1..Len(s) + Len(t) : (s \o t)[i].verdict = v
    <3>1. Has(s \o t, v) <=> \E i \in 1..Len(s \o t) : (s \o t)[i].verdict = v
      BY ONLY <1>1, HasLen
    <3> QED
      BY <1>1, <1>3, <3>1
  <2>2. CASE i <= Len(s)
    BY <1>1, <1>2, <2>1, <2>2, HasLen
  <2>3. CASE ~(i <= Len(s))
    <3>1. i - Len(s) \in 1..Len(t)
      BY <1>2, <2>1, <2>3
    <3> QED
      BY <1>1, <2>1, <2>3, <3>1, HasLen
  <2> QED
    BY <2>2, <2>3
<1>4. ASSUME Has(s, v)
      PROVE  Has(s \o t, v)
  <2>1. PICK i \in 1..Len(s) : s[i].verdict = v
    BY <1>4, HasLen
  <2>2. i \in 1..Len(s) + Len(t) /\ i <= Len(s)
    BY <1>2, <2>1
  <2> QED
    BY <1>1, <2>1, <2>2, HasLen
<1>5. ASSUME Has(t, v)
      PROVE  Has(s \o t, v)
  <2>1. PICK i \in 1..Len(t) : t[i].verdict = v
    BY <1>5, HasLen
  <2>2. /\ i + Len(s) \in 1..Len(s) + Len(t)
        /\ ~(i + Len(s) <= Len(s))
        /\ (i + Len(s)) - Len(s) = i
    BY <1>2, <2>1
  <2>3. (s \o t)[i + Len(s)] = t[i]
    BY <1>1, <2>2
  <2> QED
    BY <1>1, <2>1, <2>2, <2>3, HasLen
<1> QED
  BY <1>1, <1>3, <1>4, <1>5

LEMMA HasOne ==
  ASSUME NEW e \in PathEntry, NEW v
  PROVE  << e >> \in Seq(PathEntry) /\ (Has(<< e >>, v) <=> e.verdict = v)
BY DEF Has

LEMMA HasTwo ==
  ASSUME NEW e \in PathEntry, NEW f \in PathEntry, NEW v
  PROVE  /\ << e, f >> \in Seq(PathEntry)
         /\ Has(<< e, f >>, v) <=> e.verdict = v \/ f.verdict = v
BY DEF Has

LEMMA HasAppend ==
  ASSUME NEW s \in Seq(PathEntry), NEW e \in PathEntry, NEW v
  PROVE  /\ Append(s, e) \in Seq(PathEntry)
         /\ Has(Append(s, e), v) <=> Has(s, v) \/ e.verdict = v
<1>1. Append(s, e) = s \o << e >>
  BY AppendIsConcat
<1>2. << e >> \in Seq(PathEntry) /\ (Has(<< e >>, v) <=> e.verdict = v)
  BY HasOne
<1>3. /\ s \o << e >> \in Seq(PathEntry)
      /\ Has(s \o << e >>, v) <=> Has(s, v) \/ Has(<< e >>, v)
  BY <1>2, HasConcat
<1> QED
  BY <1>1, <1>2, <1>3

LEMMA ScoreInt == \A n \in Score : n \in Int
BY DEF Score

LEMMA CandidateFields ==
  ASSUME NEW x \in Candidate
  PROVE  /\ x.kind \in {"opinion", "recap"} /\ x.score \in Score
         /\ x.sameCourt \in BOOLEAN /\ x.corroborated \in BOOLEAN
         /\ x.check \in {"corroborated", "not_on_record", "contradicted"}
         /\ x.doc \in {"none", "opinion", "refinable", "refused"}
BY DEF Candidate

LEMMA BestIsCandidate ==
  ASSUME NEW candidates \in Seq(Candidate), candidates # << >>, Len(candidates) <= 3
  PROVE  \E i \in 1..Len(candidates) : Best(candidates) = candidates[i]
<1>0. Len(candidates) \in Nat /\ candidates \in [1..Len(candidates) -> Candidate]
  BY LenProperties
<1>1. \A i \in 1..Len(candidates) : candidates[i].score \in Int
  <2>1. \A x \in Candidate : x.score \in Int
    BY CandidateFields, ScoreInt
  <2>2. \A i \in 1..Len(candidates) : candidates[i] \in Candidate
    BY <1>0
  <2> QED
    BY <2>1, <2>2
<1>2. Len(candidates) \in 1..3
  <2>1. Len(candidates) # 0
    OBVIOUS
  <2> QED
    BY <1>0, <2>1
<1> DEFINE Wins(i) == \A j \in 1..Len(candidates) :
                        \/ candidates[j].score < candidates[i].score
                        \/ candidates[j].score = candidates[i].score /\ i <= j
<1>3. \E i \in 1..Len(candidates) : Wins(i)
  <2>1. CASE Len(candidates) = 1
    BY <2>1
  <2>2. CASE Len(candidates) = 2
    BY <1>1, <2>2
  <2>3. CASE Len(candidates) = 3
    BY <1>1, <2>3
  <2> QED
    BY <1>2, <2>1, <2>2, <2>3
<1>4. DOMAIN candidates = 1..Len(candidates)
  OBVIOUS
<1> QED
  BY <1>3, <1>4 DEF Best

-----------------------------------------------------------------------------
(* What the pure part of the pipeline returns *)

LEMMA ResultFields ==
  ASSUME NEW r \in Result
  PROVE  /\ r.status \in Status /\ r.ids \in SUBSET Id
         /\ r.text \in {"none", "opinion", "recap"} /\ r.warning \in Category
         /\ DOMAIN r = {"status", "ids", "text", "warning"}
BY DEF Result

LEMMA NothingType == Nothing \in Result
BY DEF Nothing, Result, Status, Category

LEMMA OfClusterType ==
  ASSUME NEW s \in Status, NEW w \in Category
  PROVE  OfCluster(s, w) \in Result
BY DEF OfCluster, Result, Id

(* Finalized keeps a result but for the promotion of a NOT_FOUND. *)
LEMMA FinalizedCases ==
  ASSUME NEW r \in Result, NEW p \in ParsedCitation, NEW entries
  PROVE  LET f == Finalized(p, entries, r) IN
         /\ f \in Result
         /\ r.status # "NOT_FOUND" /\ r.status \notin {"VERIFICATION_INCOMPLETE", "INSUFFICIENT_DATA"} => f = r
         /\ r.status = "NOT_FOUND" =>
              \/ /\ f.status = "VERIFICATION_INCOMPLETE" /\ f.ids = {} /\ f.text = "none"
                 /\ Has(entries, "errored") /\ ~Has(entries, "resolved")
              \/ /\ f.status = "INSUFFICIENT_DATA" /\ f.ids = {} /\ f.text = "none"
                 /\ ~Has(entries, "errored") \/ Has(entries, "resolved")
              \/ /\ f.status = "NOT_FOUND" /\ f.ids = r.ids /\ f.text = r.text
                 /\ ~Has(entries, "errored") \/ Has(entries, "resolved")
<1> USE ResultFields
<1> DEFINE inc == PromotedToIncomplete(r.status, entries)
           ins == PromotedToInsufficient(inc, p)
<1>1. /\ r.status # "NOT_FOUND" => inc = r.status /\ ins = r.status
      /\ r.status = "NOT_FOUND" =>
           \/ /\ inc = "VERIFICATION_INCOMPLETE" /\ ins = inc
              /\ Has(entries, "errored") /\ ~Has(entries, "resolved")
           \/ /\ inc = "NOT_FOUND" /\ ins \in {"NOT_FOUND", "INSUFFICIENT_DATA"}
              /\ ~Has(entries, "errored") \/ Has(entries, "resolved")
  BY DEF PromotedToIncomplete, PromotedToInsufficient
<1>2. ins \in Status
  BY <1>1 DEF Status
<1> HIDE DEF inc, ins
<1>3. Finalized(p, entries, r) =
        IF ins \in {"VERIFICATION_INCOMPLETE", "INSUFFICIENT_DATA"}
        THEN [r EXCEPT !.status = ins, !.ids = {}, !.text = "none"]
        ELSE [r EXCEPT !.status = ins]
  BY DEF Finalized, inc, ins
<1>4. [r EXCEPT !.status = r.status] = r
  BY DEF Result
<1>5. [r EXCEPT !.status = ins] \in Result /\ [r EXCEPT !.status = ins, !.ids = {}, !.text = "none"] \in Result
  BY <1>2 DEF Result
<1>6. Finalized(p, entries, r) \in Result
  BY <1>3, <1>5
<1>7. CASE r.status # "NOT_FOUND"
  BY <1>1, <1>3, <1>4, <1>6, <1>7
<1>8. CASE r.status = "NOT_FOUND"
  BY <1>1, <1>3, <1>6, <1>8
<1> QED
  BY <1>7, <1>8

(* What IdsFitStatus says of one result. *)
Fits(r) ==
  /\ r.status \in {"VERIFIED", "VERIFIED_PARTIAL", "WRONG_CASE"}
       => r.ids = {"cluster"} /\ r.text = "opinion"
  /\ r.status = "VERIFIED_VIA_RECAP" <=> "document" \in r.ids
  /\ r.text = "recap" <=> "document" \in r.ids
  /\ r.status = "VERIFIED_DOCKET_ONLY" => r.ids = {"docket"}
  /\ r.status \in {"VERIFICATION_INCOMPLETE", "INSUFFICIENT_DATA"} => r.ids = {}
  /\ r.status = "NOT_FOUND" => r.text = "none"

(* The statuses only _finalize_result gives. *)
Promoted == {"VERIFICATION_INCOMPLETE", "INSUFFICIENT_DATA"}

(* A result as _finalize_result receives it. *)
Raw(r) == r \in Result /\ Fits(r) /\ r.status \notin Promoted

LEMMA OfClusterRaw ==
  ASSUME NEW s \in {"VERIFIED", "VERIFIED_PARTIAL", "WRONG_CASE"}, NEW w \in Category
  PROVE  Raw(OfCluster(s, w)) /\ OfCluster(s, w).status = s
BY DEF OfCluster, Raw, Fits, Promoted, Result, Status, Id

LEMMA NothingRaw == Raw(Nothing) /\ Nothing.status = "NOT_FOUND"
BY DEF Nothing, Raw, Fits, Promoted, Result, Status, Id, Category

(* Without a candidate over the threshold there is nothing to claim. *)
LEMMA WorthRaw ==
  ASSUME NEW best \in Candidate, NEW fetched \in BOOLEAN
  PROVE  /\ Raw(Worth(best, fetched))
         /\ Worth(best, fetched).status # "NOT_FOUND" => best.score >= VerifiedScore
         /\ Worth(best, fetched).status # "VERIFIED_PARTIAL"
<1> DEFINE gate == best.doc = "opinion" \/ (best.doc = "refinable" /\ fetched)
<1>1. best.kind \in {"opinion", "recap"} /\ best.score \in Int
  BY CandidateFields, ScoreInt
<1>2. CASE best.kind = "opinion" /\ best.score >= VerifiedScore
  <2>1. Worth(best, fetched) = OfCluster("VERIFIED", "none")
    BY <1>1, <1>2 DEF Worth, VerifiedScore
  <2> QED
    BY <1>2, <2>1, OfClusterRaw DEF Category
<1>3. CASE best.kind = "opinion" /\ best.score < VerifiedScore
  <2>1. Worth(best, fetched) = [Nothing EXCEPT !.ids = {"cluster"}]
    BY <1>1, <1>3 DEF Worth, VerifiedScore
  <2>2. Worth(best, fetched) = [status |-> "NOT_FOUND", ids |-> {"cluster"},
                                text |-> "none", warning |-> "none"]
    BY <2>1 DEF Nothing
  <2> QED
    BY <2>2 DEF Raw, Fits, Promoted, Result, Status, Id, Category
<1>4. CASE best.kind = "recap" /\ best.score < VerifiedScore
  <2>1. Worth(best, fetched) = [Nothing EXCEPT !.ids = {"docket"}]
    BY <1>1, <1>4 DEF Worth, VerifiedScore
  <2>2. Worth(best, fetched) = [status |-> "NOT_FOUND", ids |-> {"docket"},
                                text |-> "none", warning |-> "none"]
    BY <2>1 DEF Nothing
  <2> QED
    BY <2>2 DEF Raw, Fits, Promoted, Result, Status, Id, Category
<1>5. CASE best.kind = "recap" /\ best.score >= VerifiedScore /\ gate
  <2>1. Worth(best, fetched) = [status |-> "VERIFIED_VIA_RECAP", ids |-> {"docket", "document"},
                                text |-> "recap", warning |-> "none"]
    BY <1>1, <1>5 DEF Worth, VerifiedScore
  <2> QED
    BY <1>5, <2>1 DEF Raw, Fits, Promoted, Result, Status, Id, Category
<1>6. CASE best.kind = "recap" /\ best.score >= VerifiedScore /\ ~gate
  <2>1. Worth(best, fetched) = [status |-> "VERIFIED_DOCKET_ONLY", ids |-> {"docket"},
                                text |-> "none", warning |-> "none"]
    BY <1>1, <1>6 DEF Worth, VerifiedScore
  <2> QED
    BY <1>6, <2>1 DEF Raw, Fits, Promoted, Result, Status, Id, Category
<1> QED
  BY <1>1, <1>2, <1>3, <1>4, <1>5, <1>6 DEF VerifiedScore

(* The check of the citation downgrades a result or adds a warning; it makes *)
(* nothing of a NOT_FOUND.                                                   *)
LEMMA CiteCheckedRaw ==
  ASSUME NEW p \in ParsedCitation, NEW best \in Candidate, NEW r, Raw(r),
         r.status # "VERIFIED_PARTIAL"
  PROVE  /\ Raw(CiteChecked(p, best, r))
         /\ r.status = "NOT_FOUND" => CiteChecked(p, best, r) = r
<1>1. r \in Result /\ Fits(r) /\ r.status \notin Promoted
  BY DEF Raw
<1>2. best.corroborated \in BOOLEAN
  BY CandidateFields
<1>3. CASE CiteChecked(p, best, r) = r
  BY <1>3
<1>4. CASE r.status = "VERIFIED" /\ CiteChecked(p, best, r) =
             [r EXCEPT !.status = "CITE_UNCONFIRMED", !.warning = "cite_contradicted"]
  <2>1. r.ids = {"cluster"} /\ r.text = "opinion"
    BY <1>1, <1>4, ResultFields DEF Fits
  <2> DEFINE u == [r EXCEPT !.status = "CITE_UNCONFIRMED", !.warning = "cite_contradicted"]
  <2>2. u.status = "CITE_UNCONFIRMED" /\ u.ids = r.ids /\ u.text = r.text
    BY <1>1 DEF Result
  <2>3. u \in Result
    BY <1>1 DEF Result, Status, Category
  <2> HIDE DEF u
  <2>4. Raw(u)
    BY <2>1, <2>2, <2>3 DEF Raw, Fits, Promoted
  <2> QED
    BY <1>4, <2>4 DEF u
<1>5. CASE r.status = "VERIFIED_DOCKET_ONLY" /\ CiteChecked(p, best, r) =
             [r EXCEPT !.status = "CITE_UNCONFIRMED", !.warning = "cite_not_on_record"]
  <2>1. r.ids = {"docket"} /\ r.text # "recap"
    BY <1>1, <1>5, ResultFields DEF Fits
  <2> DEFINE u == [r EXCEPT !.status = "CITE_UNCONFIRMED", !.warning = "cite_not_on_record"]
  <2>2. u.status = "CITE_UNCONFIRMED" /\ u.ids = r.ids /\ u.text = r.text
    BY <1>1 DEF Result
  <2>3. u \in Result
    BY <1>1 DEF Result, Status, Category
  <2> HIDE DEF u
  <2>4. Raw(u)
    BY <2>1, <2>2, <2>3 DEF Raw, Fits, Promoted
  <2> QED
    BY <1>5, <2>4 DEF u
<1>6. CASE r.status # "NOT_FOUND" /\ CiteChecked(p, best, r) =
             [r EXCEPT !.warning = "cite_not_on_record"]
  <2>1. [r EXCEPT !.warning = "cite_not_on_record"]
        = [status |-> r.status, ids |-> r.ids, text |-> r.text,
           warning |-> "cite_not_on_record"]
    BY <1>1 DEF Result
  <2> QED
    BY <1>1, <1>6, <2>1, ResultFields DEF Raw, Fits, Promoted, Result, Category
<1>7. \/ CiteChecked(p, best, r) = r
      \/ r.status = "VERIFIED" /\ CiteChecked(p, best, r) =
             [r EXCEPT !.status = "CITE_UNCONFIRMED", !.warning = "cite_contradicted"]
      \/ r.status = "VERIFIED_DOCKET_ONLY" /\ CiteChecked(p, best, r) =
             [r EXCEPT !.status = "CITE_UNCONFIRMED", !.warning = "cite_not_on_record"]
      \/ r.status # "NOT_FOUND" /\ CiteChecked(p, best, r) =
             [r EXCEPT !.warning = "cite_not_on_record"]
  BY <1>2 DEF CiteChecked
<1> QED
  BY <1>3, <1>4, <1>5, <1>6, <1>7

LEMMA JudgedRaw ==
  ASSUME NEW p \in ParsedCitation, NEW candidates \in Seq(Candidate),
         Len(candidates) <= 3, NEW fetched \in BOOLEAN
  PROVE  /\ Raw(Judged(p, candidates, fetched))
         /\ Judged(p, candidates, fetched).status # "NOT_FOUND" =>
              \E i \in 1..Len(candidates) : candidates[i].score >= VerifiedScore
<1>1. CASE candidates = << >>
  BY <1>1, NothingRaw DEF Judged
<1>2. CASE candidates # << >>
  <2>1. PICK i \in 1..Len(candidates) : Best(candidates) = candidates[i]
    BY <1>2, BestIsCandidate
  <2>2. Best(candidates) \in Candidate
    BY <2>1, ElementOfSeq
  <2>3. CASE WrongCourt(p, Best(candidates))
    BY <1>2, <2>3, NothingRaw DEF Judged
  <2>4. CASE ~WrongCourt(p, Best(candidates))
    <3> DEFINE w == Worth(Best(candidates), fetched)
    <3>1. Raw(w) /\ w.status # "VERIFIED_PARTIAL"
          /\ (w.status # "NOT_FOUND" => Best(candidates).score >= VerifiedScore)
      BY <2>2, WorthRaw
    <3>2. Judged(p, candidates, fetched) = CiteChecked(p, Best(candidates), w)
      BY <1>2, <2>4 DEF Judged
    <3> HIDE DEF w
    <3> QED
      BY <2>1, <2>2, <3>1, <3>2, CiteCheckedRaw
  <2> QED
    BY <2>3, <2>4
<1> QED
  BY <1>1, <1>2

-----------------------------------------------------------------------------
(* The invariant, one citation at a time *)

PoolFits(c) ==
  /\ Len(pool[c]) <= 3
  /\ pc[c] = "recap_docket_search" => Len(pool[c]) <= 2
  /\ pc[c] = "recap_document_search" => Len(pool[c]) <= 1
  /\ pc[c] \in {"citation_lookup", "caption_investigation", "opinion_search"}
       => pool[c] = << >>

Recorded(c) ==
  /\ \A i \in 1..Len(pool[c]) :
       pool[c][i].score >= VerifiedScore => Has(path[c], "resolved")
  /\ pc[c] = "caption_investigation" => Has(path[c], "resolved")
  /\ failed[c] \cap StageCall # {} => Has(path[c], "errored")

AnswerSound(c) ==
  pc[c] = "done" =>
    /\ result[c] \in Result /\ Fits(result[c])
    /\ result[c].status \notin {"NOT_FOUND", "INSUFFICIENT_DATA", "VERIFICATION_INCOMPLETE"}
         => Has(path[c], "resolved")
    /\ result[c].status = "VERIFICATION_INCOMPLETE"
         => Has(path[c], "errored") /\ ~Has(path[c], "resolved")
    /\ result[c].status \in {"NOT_FOUND", "INSUFFICIENT_DATA"}
         => ~Has(path[c], "errored") \/ Has(path[c], "resolved")

CInv(c) == PoolFits(c) /\ Recorded(c) /\ AnswerSound(c)

SInv == TypeOK /\ \A c \in Cite : CInv(c)

LEMMA PerCitation == SInv => IInv
<1> SUFFICES ASSUME TypeOK, \A c \in Cite : CInv(c)
             PROVE  IInv
  BY DEF SInv
<1>1. PoolFitsStage
  BY DEF CInv, PoolFits, PoolFitsStage
<1>2. FindingsRecorded /\ FailuresRecorded
  BY DEF CInv, Recorded, FindingsRecorded, FailuresRecorded
<1>3. IdsFitStatus
  BY DEF CInv, AnswerSound, IdsFitStatus, Answered, Fits
<1>4. ClaimsAreBacked
  BY DEF CInv, AnswerSound, ClaimsAreBacked, Answered
<1>5. ErrorsSurface
  BY DEF CInv, AnswerSound, Recorded, ErrorsSurface, Answered
<1> QED
  BY <1>1, <1>2, <1>3, <1>4, <1>5 DEF IInv

(* What a step of one citation leaves of another. *)
Same(d) == /\ pc'[d] = pc[d] /\ path'[d] = path[d] /\ pool'[d] = pool[d]
           /\ result'[d] = result[d] /\ failed'[d] = failed[d]

(* A step that keeps the types, touches one citation and keeps its part of *)
(* the invariant keeps the invariant.                                      *)
Keeps(c) == TypeOK' /\ CInv(c)' /\ \A d \in Cite \ {c} : Same(d)

LEMMA KeepsAll ==
  ASSUME NEW c \in Cite, \A d \in Cite : CInv(d), Keeps(c)
  PROVE  \A d \in Cite : CInv(d)'
<1> TAKE d \in Cite
<1>1. CASE d = c
  BY <1>1 DEF Keeps
<1>2. CASE d # c
  <2>1. CInv(d) /\ Same(d)
    BY <1>2 DEF Keeps
  <2> QED
    BY <2>1 DEF CInv, PoolFits, Recorded, AnswerSound, Same
<1> QED
  BY <1>1, <1>2

(* Moving on: an entry and at most one candidate are added. *)
LEMMA MoveKeeps ==
  ASSUME TypeOK, NEW c \in Cite, CInv(c), pc[c] # "done",
         NEW next \in Pc \ {"done"}, NEW e \in PathEntry,
         NEW found \in Seq(Candidate), NEW calls \in SUBSET Call,
         pc' = [pc EXCEPT ![c] = next],
         path' = [path EXCEPT ![c] = Append(@, e)],
         pool' = [pool EXCEPT ![c] = @ \o found],
         failed' = [failed EXCEPT ![c] = @ \cup calls],
         UNCHANGED <<parsed, world, quickOnly, result>>,
         PoolFits(c)',
         \A i \in 1..Len(found) : found[i].score >= VerifiedScore => e.verdict = "resolved",
         next = "caption_investigation" => e.verdict = "resolved",
         calls \cap StageCall # {} => e.verdict = "errored"
  PROVE  Keeps(c)
<1>1. path[c] \in Seq(PathEntry) /\ pool[c] \in Seq(Candidate) /\ failed[c] \in SUBSET Call
  BY DEF TypeOK, PathEntry
<1>2. Append(path[c], e) \in Seq(PathEntry) /\ pool[c] \o found \in Seq(Candidate)
  BY <1>1, HasAppend, ConcatProperties
<1>3. TypeOK'
  <2>1. path' \in [Cite -> Seq(PathEntry)]
    BY <1>2 DEF TypeOK, PathEntry
  <2>2. pool' \in [Cite -> Seq(Candidate)]
    BY <1>2 DEF TypeOK
  <2>3. failed' \in [Cite -> SUBSET Call]
    BY <1>1 DEF TypeOK
  <2>4. pc' \in [Cite -> Pc]
    BY DEF TypeOK
  <2> QED
    BY <2>1, <2>2, <2>3, <2>4 DEF TypeOK, PathEntry
<1>4. \A d \in Cite \ {c} : Same(d)
  BY DEF TypeOK, Same
<1>5. /\ pc'[c] = next /\ path'[c] = Append(path[c], e)
      /\ pool'[c] = pool[c] \o found /\ failed'[c] = failed[c] \cup calls
  BY DEF TypeOK
<1>6. \A v : Has(path'[c], v) <=> Has(path[c], v) \/ e.verdict = v
  BY <1>1, <1>5, HasAppend
<1>7. Recorded(c)'
  <2>1. ASSUME NEW i \in 1..Len(pool'[c]), pool'[c][i].score >= VerifiedScore
        PROVE  Has(path'[c], "resolved")
    <3>1. /\ Len(pool[c]) \in Nat /\ Len(found) \in Nat
          /\ Len(pool[c] \o found) = Len(pool[c]) + Len(found)
          /\ (pool[c] \o found)[i] = IF i <= Len(pool[c]) THEN pool[c][i]
                                     ELSE found[i - Len(pool[c])]
      BY <1>1, <1>5, <2>1, ConcatProperties, LenProperties
    <3>2. CASE i <= Len(pool[c])
      BY <1>5, <1>6, <2>1, <3>1, <3>2 DEF CInv, Recorded
    <3>3. CASE ~(i <= Len(pool[c]))
      <4>1. i - Len(pool[c]) \in 1..Len(found)
        BY <1>5, <3>1, <3>3
      <4> QED
        BY <1>5, <1>6, <2>1, <3>1, <3>3, <4>1
    <3> QED
      BY <3>2, <3>3
  <2>2. pc'[c] = "caption_investigation" => Has(path'[c], "resolved")
    BY <1>5, <1>6
  <2>3. failed'[c] \cap StageCall # {} => Has(path'[c], "errored")
    BY <1>5, <1>6 DEF CInv, Recorded
  <2> QED
    BY <2>1, <2>2, <2>3 DEF Recorded
<1>8. AnswerSound(c)'
  BY <1>5 DEF AnswerSound
<1> QED
  BY <1>3, <1>4, <1>7, <1>8 DEF Keeps, CInv

(* Finishing: the entries close the path and the raw result is finalized. *)
LEMMA FinishKeeps ==
  ASSUME TypeOK, NEW c \in Cite, CInv(c), pc[c] # "done",
         NEW entries \in Seq(PathEntry), NEW r, Raw(r), NEW calls \in SUBSET Call,
         Finish(c, entries, r),
         failed' = [failed EXCEPT ![c] = @ \cup calls],
         UNCHANGED <<parsed, world, quickOnly, pool>>,
         r.status # "NOT_FOUND" => Has(path[c], "resolved") \/ Has(entries, "resolved"),
         calls \cap StageCall # {} => Has(entries, "errored")
  PROVE  Keeps(c)
<1>1. path[c] \in Seq(PathEntry) /\ failed[c] \in SUBSET Call /\ parsed[c] \in ParsedCitation
  BY VerifierAssumption DEF TypeOK, PathEntry
<1>2. /\ path[c] \o entries \in Seq(PathEntry)
      /\ \A v : Has(path[c] \o entries, v) <=> Has(path[c], v) \/ Has(entries, v)
  BY <1>1, HasConcat
<1> DEFINE full == path[c] \o entries
           f == Finalized(parsed[c], full, r)
<1>3. /\ r \in Result
      /\ f \in Result
      /\ r.status # "NOT_FOUND" => f = r
      /\ r.status = "NOT_FOUND" =>
           \/ /\ f.status = "VERIFICATION_INCOMPLETE" /\ f.ids = {} /\ f.text = "none"
              /\ Has(full, "errored") /\ ~Has(full, "resolved")
           \/ /\ f.status = "INSUFFICIENT_DATA" /\ f.ids = {} /\ f.text = "none"
              /\ ~Has(full, "errored") \/ Has(full, "resolved")
           \/ /\ f.status = "NOT_FOUND" /\ f.ids = r.ids /\ f.text = r.text
              /\ ~Has(full, "errored") \/ Has(full, "resolved")
  BY <1>1, FinalizedCases DEF Raw, Promoted
<1>4. /\ pc' = [pc EXCEPT ![c] = "done"]
      /\ path' = [path EXCEPT ![c] = full]
      /\ result' = [result EXCEPT ![c] = f]
  BY DEF Finish
<1> HIDE DEF f, full
<1>5. TypeOK'
  <2>1. path' \in [Cite -> Seq(PathEntry)]
    BY <1>2, <1>4 DEF TypeOK, PathEntry, full
  <2>2. pc' \in [Cite -> Pc]
    BY <1>4 DEF TypeOK, Pc
  <2>3. result' \in [Cite -> Result \cup {NoResult}]
    BY <1>3, <1>4 DEF TypeOK
  <2>4. failed' \in [Cite -> SUBSET Call]
    BY <1>1 DEF TypeOK
  <2> QED
    BY <2>1, <2>2, <2>3, <2>4 DEF TypeOK, PathEntry
<1>6. \A d \in Cite \ {c} : Same(d)
  BY <1>4 DEF TypeOK, Same
<1>7. /\ pc'[c] = "done" /\ path'[c] = full /\ result'[c] = f
      /\ pool'[c] = pool[c] /\ failed'[c] = failed[c] \cup calls
  BY <1>4 DEF TypeOK
<1>8. \A v : Has(path'[c], v) <=> Has(path[c], v) \/ Has(entries, v)
  BY <1>2, <1>7 DEF full
<1>9. PoolFits(c)'
  BY <1>7 DEF CInv, PoolFits
<1>10. Recorded(c)'
  BY <1>7, <1>8 DEF CInv, Recorded
<1>11. AnswerSound(c)'
  <2>1. CASE r.status # "NOT_FOUND"
    <3>1. Fits(f) /\ f.status \notin Promoted /\ f.status # "NOT_FOUND"
      BY <1>3, <2>1 DEF Raw
    <3>2. Has(path'[c], "resolved")
      BY <1>8, <2>1
    <3> QED
      BY <1>3, <1>7, <3>1, <3>2 DEF AnswerSound, Promoted
  <2>2. CASE r.status = "NOT_FOUND"
    <3>1. "document" \notin r.ids /\ r.text = "none"
      BY <2>2 DEF Raw, Fits
    <3>2. Fits(f)
      BY <1>3, <2>2, <3>1 DEF Fits
    <3> QED
      BY <1>3, <1>7, <2>2, <3>2 DEF AnswerSound
  <2> QED
    BY <2>1, <2>2
<1> QED
  BY <1>5, <1>6, <1>9, <1>10, <1>11 DEF Keeps, CInv

-----------------------------------------------------------------------------
(* The steps *)

LEMMA NextStages ==
  ASSUME NEW p \in ParsedCitation, NEW candidates
  PROVE  /\ AfterRecapDocument(p, candidates) \in {"recap_docket_search", "conclude"}
         /\ AfterOpinion(p, candidates)
              \in {"recap_document_search", "recap_docket_search", "conclude"}
         /\ AfterMiss(p)
              \in {"opinion_search", "recap_document_search", "recap_docket_search", "conclude"}
BY DEF AfterRecapDocument, AfterOpinion, AfterMiss

LEMMA EmptyFound ==
  /\ << >> \in Seq(Candidate) /\ Len(<< >>) = 0
  /\ \A s \in Seq(Candidate) : s \o << >> = s
BY ConcatEmptySeq

(* Moving on without a candidate. *)
LEMMA StepKeeps ==
  ASSUME TypeOK, NEW c \in Cite, CInv(c), pc[c] # "done",
         NEW next \in Pc \ {"done"}, NEW e \in PathEntry, NEW calls \in SUBSET Call,
         pc' = [pc EXCEPT ![c] = next],
         path' = [path EXCEPT ![c] = Append(@, e)],
         failed' = [failed EXCEPT ![c] = @ \cup calls],
         UNCHANGED <<parsed, world, quickOnly, pool, result>>,
         PoolFits(c)',
         next = "caption_investigation" => e.verdict = "resolved",
         calls \cap StageCall # {} => e.verdict = "errored"
  PROVE  Keeps(c)
<1>1. pool' = [pool EXCEPT ![c] = @ \o << >>]
  <2>1. pool \in [Cite -> Seq(Candidate)]
    BY DEF TypeOK
  <2> QED
    BY <2>1, EmptyFound
<1>2. \A i \in 1..Len(<< >>) : << >>[i].score >= VerifiedScore => e.verdict = "resolved"
  BY EmptyFound
<1>3. << >> \in Seq(Candidate)
  BY EmptyFound
<1> DEFINE found == << >>
<1>4. /\ found \in Seq(Candidate)
      /\ pool' = [pool EXCEPT ![c] = @ \o found]
      /\ \A i \in 1..Len(found) : found[i].score >= VerifiedScore => e.verdict = "resolved"
  BY <1>1, <1>2, <1>3
<1> HIDE DEF found
<1> QED
  BY <1>4, MoveKeeps

(* A lookup that found nothing, or raised. *)
LEMMA WithoutHitKeeps ==
  ASSUME TypeOK, NEW c \in Cite, CInv(c), pc[c] # "done", pool[c] = << >>,
         NEW v \in {"no_match", "errored"}, NEW calls \in SUBSET Call,
         calls \cap StageCall # {} => v = "errored",
         LookupWithoutHit(c, v), Failed(c, calls), UNCHANGED <<parsed, world, quickOnly>>
  PROVE  Keeps(c)
<1> DEFINE e == Entry("citation_lookup", v)
           n == Entry("opinion_search", "no_match")
<1>1. /\ e \in PathEntry /\ e.verdict = v /\ n \in PathEntry /\ n.verdict = "no_match"
      /\ parsed[c] \in ParsedCitation /\ pool \in [Cite -> Seq(Candidate)]
  BY EntryType, VerifierAssumption DEF Stage, Verdict, TypeOK
<1>2. failed' = [failed EXCEPT ![c] = @ \cup calls] /\ pool' = pool
  BY DEF Failed, LookupWithoutHit
<1>3. \/ Finish(c, << e >>, Nothing)
      \/ Finish(c, << e, n >>, Nothing)
      \/ /\ pc' = [pc EXCEPT ![c] = AfterMiss(parsed[c])]
         /\ path' = [path EXCEPT ![c] = Append(@, e)]
         /\ UNCHANGED result
  BY DEF LookupWithoutHit
<1> HIDE DEF e, n
<1>4. CASE Finish(c, << e >>, Nothing)
  <2>1. << e >> \in Seq(PathEntry) /\ (Has(<< e >>, "errored") <=> v = "errored")
    BY <1>1, HasOne
  <2> QED
    BY <1>2, <1>4, <2>1, FinishKeeps, NothingRaw
<1>5. CASE Finish(c, << e, n >>, Nothing)
  <2>1. /\ << e, n >> \in Seq(PathEntry)
        /\ Has(<< e, n >>, "errored") <=> v = "errored"
    BY <1>1, HasTwo
  <2> QED
    BY <1>2, <1>5, <2>1, FinishKeeps, NothingRaw
<1>6. CASE /\ pc' = [pc EXCEPT ![c] = AfterMiss(parsed[c])]
           /\ path' = [path EXCEPT ![c] = Append(@, e)]
           /\ UNCHANGED result
  <2> DEFINE next == AfterMiss(parsed[c])
  <2>1. next \in {"opinion_search", "recap_document_search", "recap_docket_search", "conclude"}
    BY <1>1, NextStages
  <2> HIDE DEF next
  <2>2. next \in Pc \ {"done"} /\ next # "caption_investigation"
    BY <2>1 DEF Pc, Stage
  <2>4. pc'[c] = next /\ pool'[c] = << >> /\ Len(pool'[c]) = 0
    BY <1>2, <1>6, EmptyFound DEF TypeOK, next
  <2>5. PoolFits(c)'
    BY <2>4 DEF PoolFits
  <2> QED
    BY <1>1, <1>2, <1>6, <2>2, <2>5, StepKeeps DEF next
<1> QED
  BY <1>3, <1>4, <1>5, <1>6

(* A lookup that found a cluster. *)
LEMMA HitKeeps ==
  ASSUME TypeOK, NEW c \in Cite, CInv(c), pc[c] # "done", pool[c] = << >>,
         LookupHit(c), Failed(c, {}), UNCHANGED <<parsed, world, quickOnly>>
  PROVE  Keeps(c)
<1> DEFINE e == Entry("citation_lookup", "resolved")
<1>1. e \in PathEntry /\ e.verdict = "resolved" /\ pool \in [Cite -> Seq(Candidate)]
  BY EntryType DEF Stage, Verdict, TypeOK
<1>2. failed' = [failed EXCEPT ![c] = @ \cup {}] /\ pool' = pool
  BY DEF Failed, LookupHit
<1>3. \/ /\ pc' = [pc EXCEPT ![c] = "caption_investigation"]
         /\ path' = [path EXCEPT ![c] = Append(@, e)]
         /\ UNCHANGED result
      \/ /\ LookupKind(c) \in {"match", "nameless", "no_primary"}
         /\ Finish(c, << e >>, HitResult(LookupKind(c)))
  BY DEF LookupHit
<1> HIDE DEF e
<1>6. {} \in SUBSET Call /\ {} \cap StageCall = {}
  OBVIOUS
<1>4. CASE /\ pc' = [pc EXCEPT ![c] = "caption_investigation"]
           /\ path' = [path EXCEPT ![c] = Append(@, e)]
           /\ UNCHANGED result
  <2>2. pc'[c] = "caption_investigation" /\ pool'[c] = << >> /\ Len(pool'[c]) = 0
    BY <1>2, <1>4, EmptyFound DEF TypeOK
  <2>3. PoolFits(c)'
    BY <2>2 DEF PoolFits
  <2>4. "caption_investigation" \in Pc \ {"done"}
    BY DEF Pc, Stage
  <2> QED
    BY <1>1, <1>2, <1>4, <1>6, <2>3, <2>4, StepKeeps
<1>5. CASE /\ LookupKind(c) \in {"match", "nameless", "no_primary"}
           /\ Finish(c, << e >>, HitResult(LookupKind(c)))
  <2> DEFINE r == HitResult(LookupKind(c))
  <2>1. \/ r = OfCluster("VERIFIED", "none")
        \/ r = OfCluster("VERIFIED_PARTIAL", "name_unverified")
        \/ r = OfCluster("VERIFIED_PARTIAL", "silent_partial")
    BY <1>5 DEF HitResult
  <2>2. Raw(r)
    BY <2>1, OfClusterRaw DEF Category
  <2>3. << e >> \in Seq(PathEntry) /\ Has(<< e >>, "resolved")
    BY <1>1, HasOne
  <2> HIDE DEF r
  <2> QED
    BY <1>2, <1>5, <1>6, <2>2, <2>3, FinishKeeps DEF r
<1> QED
  BY <1>3, <1>4, <1>5

LEMMA CitationLookupKeeps ==
  ASSUME TypeOK, NEW c \in Cite, CInv(c), CitationLookup(c)
  PROVE  Keeps(c)
<1>1. pc[c] = "citation_lookup" /\ pool[c] = << >> /\ UNCHANGED <<parsed, world, quickOnly>>
  BY DEF CitationLookup, CInv, PoolFits
<1>2. {"lookup"} \in SUBSET Call /\ {} \in SUBSET Call /\ {} \cap StageCall = {}
  BY DEF Call
<1>3. CASE Failed(c, {"lookup"}) /\ LookupWithoutHit(c, "errored")
  BY <1>1, <1>2, <1>3, WithoutHitKeeps
<1>4. CASE Failed(c, {}) /\ LookupWithoutHit(c, "no_match")
  BY <1>1, <1>2, <1>4, WithoutHitKeeps
<1>5. CASE Failed(c, {}) /\ LookupHit(c)
  BY <1>1, <1>5, HitKeeps
<1> QED
  BY <1>3, <1>4, <1>5 DEF CitationLookup

(* A hit under another name: whatever the investigation comes to. *)
LEMMA InvestigationKeeps ==
  ASSUME TypeOK, NEW c \in Cite, CInv(c), InvestigateCaption(c) \/ CaptionUnclassified(c)
  PROVE  Keeps(c)
<1>1. /\ pc[c] = "caption_investigation" /\ UNCHANGED <<parsed, world, quickOnly, pool>>
      /\ Has(path[c], "resolved")
  BY DEF InvestigateCaption, CaptionUnclassified, CInv, Recorded
<1>2. PICK v \in {"resolved", "errored"}, s \in {"VERIFIED", "WRONG_CASE"},
           w \in {"none", "name_divergence"},
           calls \in SUBSET {"cluster", "docket", "text", "investigation"} :
        /\ Failed(c, calls)
        /\ Finish(c, << Entry("caption_investigation", v) >>, OfCluster(s, w))
  <2>1. CASE CaptionUnclassified(c)
    BY <2>1 DEF CaptionUnclassified
  <2>2. CASE InvestigateCaption(c)
    <3>1. PICK lost \in SUBSET {"cluster", "docket", "text"} :
            \E unheard : /\ Failed(c, lost)
               /\ Finish(c, << Entry("caption_investigation", "resolved") >>,
                    IF world[c].captions \ unheard # {}
                    THEN OfCluster("VERIFIED", "name_divergence")
                    ELSE OfCluster("WRONG_CASE", "none"))
      BY <2>2 DEF InvestigateCaption
    <3> QED
      BY <3>1
  <2> QED
    BY <2>1, <2>2
<1>3. /\ Entry("caption_investigation", v) \in PathEntry
      /\ << Entry("caption_investigation", v) >> \in Seq(PathEntry)
  BY EntryType, HasOne DEF Stage, Verdict
<1>4. Raw(OfCluster(s, w))
  BY OfClusterRaw DEF Category
<1>5. calls \in SUBSET Call /\ calls \cap StageCall = {}
  BY DEF Call, StageCall
<1>6. failed' = [failed EXCEPT ![c] = @ \cup calls]
  BY <1>2 DEF Failed
<1> QED
  BY <1>1, <1>2, <1>3, <1>4, <1>5, <1>6, FinishKeeps

(* A search, wherever it leads. *)
LEMMA SearchKeeps ==
  ASSUME TypeOK, NEW c \in Cite, CInv(c), pc[c] # "done",
         NEW stage \in Stage, NEW next \in {"recap_document_search", "recap_docket_search", "conclude"},
         NEW call \in Call, NEW found \in Seq(Candidate), NEW lost \in SUBSET Call,
         lost \cap StageCall = {},
         Len(found) <= 1,
         \/ SearchReturns(c, stage, found, lost)
         \/ SearchRaises(c, stage, call),
         GoOn(c, next),
         Len(pool[c]) <= CASE next = "recap_document_search" -> 0
                           [] next = "recap_docket_search" -> 1
                           [] next = "conclude" -> 2
  PROVE  Keeps(c)
<1>1. /\ pool \in [Cite -> Seq(Candidate)] /\ Len(pool[c]) \in Nat /\ Len(found) \in Nat
      /\ Len(pool[c] \o found) = Len(pool[c]) + Len(found)
      /\ next \in Pc \ {"done"} /\ next # "caption_investigation"
  <2>1. pool \in [Cite -> Seq(Candidate)]
    BY DEF TypeOK
  <2>2. next \in Pc \ {"done"} /\ next # "caption_investigation"
    BY DEF Pc, Stage
  <2> QED
    BY <2>1, <2>2, LenProperties, ConcatProperties
<1>2. /\ pc' = [pc EXCEPT ![c] = next] /\ pc'[c] = next
      /\ UNCHANGED <<parsed, world, quickOnly, result>>
  BY DEF GoOn, TypeOK
<1>3. CASE SearchReturns(c, stage, found, lost)
  <2> DEFINE v == IF found # << >> /\ found[1].score >= VerifiedScore
                  THEN "resolved" ELSE "no_match"
             e == Entry(stage, v)
  <2>1. e \in PathEntry /\ e.verdict = v
    BY EntryType DEF Verdict
  <2>2. /\ path' = [path EXCEPT ![c] = Append(@, e)]
        /\ pool' = [pool EXCEPT ![c] = @ \o found]
        /\ failed' = [failed EXCEPT ![c] = @ \cup lost]
    BY <1>3 DEF SearchReturns, Failed
  <2>3. pool'[c] = pool[c] \o found
    BY <1>1, <2>2
  <2>4. PoolFits(c)'
    BY <1>1, <1>2, <2>3 DEF PoolFits
  <2>5. \A i \in 1..Len(found) : found[i].score >= VerifiedScore => v = "resolved"
    <3> TAKE i \in 1..Len(found)
    <3>1. i = 1 /\ found # << >>
      BY <1>1
    <3> QED
      BY <3>1
  <2> HIDE DEF e, v
  <2> QED
    BY <1>1, <1>2, <2>1, <2>2, <2>4, <2>5, MoveKeeps
<1>4. CASE SearchRaises(c, stage, call)
  <2> DEFINE e == Entry(stage, "errored")
  <2>1. e \in PathEntry /\ e.verdict = "errored"
    BY EntryType DEF Verdict
  <2>2. /\ path' = [path EXCEPT ![c] = Append(@, e)]
        /\ pool' = pool
        /\ failed' = [failed EXCEPT ![c] = @ \cup {call}]
    BY <1>4 DEF SearchRaises, Failed
  <2>4. PoolFits(c)'
    BY <1>1, <1>2, <2>2 DEF PoolFits
  <2>5. {call} \in SUBSET Call
    OBVIOUS
  <2> HIDE DEF e
  <2> QED
    BY <1>1, <1>2, <2>1, <2>2, <2>4, <2>5, StepKeeps
<1> QED
  BY <1>3, <1>4

(* What a search brings is a candidate. *)
LEMMA OpinionsFoundType ==
  ASSUME NEW w \in WorldType
  PROVE  OpinionsFound(w) \in Seq(Candidate) /\ Len(OpinionsFound(w)) <= 1
<1>1. CASE w.opinion = NoMatch
  BY <1>1, EmptyFound DEF OpinionsFound
<1>2. CASE w.opinion # NoMatch
  <2>1. w.opinion \in Opinion
    BY <1>2 DEF WorldType
  <2>2. OfOpinion(w.opinion) \in Candidate
    BY <2>1 DEF OfOpinion, Opinion, Candidate
  <2> QED
    BY <1>2, <2>2 DEF OpinionsFound
<1> QED
  BY <1>1, <1>2

LEMMA OfDocketType ==
  ASSUME NEW p \in ParsedCitation, NEW d \in Docket, NEW score \in Score,
         NEW doc \in {"none", "opinion", "refinable", "refused"}
  PROVE  OfDocket(p, d, score, doc) \in Candidate
<1>1. d.sameCourt \in BOOLEAN /\ d.corroborated \in BOOLEAN /\ p.docketNo \in BOOLEAN
  BY DEF Docket, ParsedCitation
<1>2. (p.docketNo /\ d.corroborated) \in BOOLEAN
  OBVIOUS
<1> QED
  BY <1>1, <1>2 DEF OfDocket, Candidate

LEMMA DiscountType == \A n \in Score : (n * 6) \div 10 \in Score
BY DEF Score

LEMMA DocketsFoundType ==
  ASSUME NEW p \in ParsedCitation, NEW d \in Docket \cup {NoMatch}, NEW fetched \in BOOLEAN
  PROVE  DocketsFound(p, d, fetched) \in Seq(Candidate) /\ Len(DocketsFound(p, d, fetched)) <= 1
<1>1. CASE d = NoMatch
  BY <1>1, EmptyFound DEF DocketsFound
<1>2. CASE d # NoMatch
  <2>1. d \in Docket
    BY <1>2
  <2>2. /\ d.score \in Score /\ d.undated \in Score
        /\ d.doc \in {"none", "opinion", "refinable", "refused"}
    BY <2>1 DEF Docket
  <2>3. (d.undated * 6) \div 10 \in Score
    BY <2>2, DiscountType
  <2>4. \/ RecapCandidate(p, d, fetched) = OfDocket(p, d, d.score, d.doc)
        \/ RecapCandidate(p, d, fetched) = OfDocket(p, d, d.undated, "refused")
        \/ RecapCandidate(p, d, fetched) = OfDocket(p, d, (d.undated * 6) \div 10, "none")
    BY DEF RecapCandidate
  <2> DEFINE x == RecapCandidate(p, d, fetched)
  <2>5. x \in Candidate
    BY <2>1, <2>2, <2>3, <2>4, OfDocketType
  <2> HIDE DEF x
  <2>6. << x >> \in Seq(Candidate) /\ Len(<< x >>) = 1
    BY <2>5
  <2> QED
    BY <1>2, <2>6 DEF DocketsFound, x
<1> QED
  BY <1>1, <1>2

LEMMA InputType ==
  ASSUME TypeOK, NEW c \in Cite
  PROVE  /\ parsed[c] \in ParsedCitation /\ world[c] \in WorldType
         /\ world[c].recapDoc \in Docket \cup {NoMatch}
         /\ world[c].recapDocket \in Docket \cup {NoMatch}
         /\ pool[c] \in Seq(Candidate) /\ Len(pool[c]) \in Nat
<1>1. parsed[c] \in ParsedCitation /\ world[c] \in WorldType
  BY VerifierAssumption DEF TypeOK
<1>2. pool[c] \in Seq(Candidate)
  BY DEF TypeOK
<1> QED
  BY <1>1, <1>2, LenProperties DEF WorldType

LEMMA OpinionSearchKeeps ==
  ASSUME TypeOK, NEW c \in Cite, CInv(c), OpinionSearch(c)
  PROVE  Keeps(c)
<1> DEFINE next == AfterOpinion(parsed[c], pool'[c])
           found == OpinionsFound(world[c])
<1>1. /\ pc[c] = "opinion_search" /\ pool[c] = << >> /\ Len(pool[c]) = 0
      /\ GoOn(c, next)
      /\ \/ SearchReturns(c, "opinion_search", found, {})
         \/ SearchRaises(c, "opinion_search", "opinions")
  BY EmptyFound DEF OpinionSearch, CInv, PoolFits
<1>2. found \in Seq(Candidate) /\ Len(found) <= 1
  BY InputType, OpinionsFoundType
<1>3. next \in {"recap_document_search", "recap_docket_search", "conclude"}
  BY InputType, NextStages
<1>4. "opinion_search" \in Stage /\ "opinions" \in Call /\ {} \in SUBSET Call /\ {} \cap StageCall = {}
  BY DEF Stage, Call
<1> HIDE DEF next, found
<1>5. Len(pool[c]) <= CASE next = "recap_document_search" -> 0
                        [] next = "recap_docket_search" -> 1
                        [] next = "conclude" -> 2
  BY <1>1, <1>3
<1> QED
  BY <1>1, <1>2, <1>3, <1>4, <1>5, SearchKeeps

(* A RECAP search returns one docket at most, with its entries or without. *)
LEMMA RecapSearchCases ==
  ASSUME TypeOK, NEW c \in Cite, NEW stage, NEW call,
         NEW d \in Docket \cup {NoMatch}, RecapSearch(c, stage, call, d)
  PROVE  \E found \in Seq(Candidate), lost \in SUBSET {"entries"} :
           /\ Len(found) <= 1
           /\ \/ SearchReturns(c, stage, found, lost)
              \/ SearchRaises(c, stage, call)
<1> DEFINE Found(fetched) == DocketsFound(parsed[c], d, fetched)
<1>1. \A fetched \in BOOLEAN : Found(fetched) \in Seq(Candidate) /\ Len(Found(fetched)) <= 1
  BY InputType, DocketsFoundType
<1>2. \/ SearchReturns(c, stage, Found(TRUE), {})
      \/ SearchReturns(c, stage, Found(FALSE), {"entries"})
      \/ SearchRaises(c, stage, call)
  BY DEF RecapSearch
<1> HIDE DEF Found
<1> QED
  BY <1>1, <1>2

LEMMA RecapDocumentSearchKeeps ==
  ASSUME TypeOK, NEW c \in Cite, CInv(c), RecapDocumentSearch(c)
  PROVE  Keeps(c)
<1> DEFINE next == AfterRecapDocument(parsed[c], pool'[c])
<1>1. /\ pc[c] = "recap_document_search" /\ Len(pool[c]) <= 1
      /\ GoOn(c, next)
      /\ RecapSearch(c, "recap_document_search", "recap_documents", world[c].recapDoc)
  BY DEF RecapDocumentSearch, CInv, PoolFits
<1>2. PICK found \in Seq(Candidate), lost \in SUBSET {"entries"} :
        /\ Len(found) <= 1
        /\ \/ SearchReturns(c, "recap_document_search", found, lost)
           \/ SearchRaises(c, "recap_document_search", "recap_documents")
  BY <1>1, InputType, RecapSearchCases
<1>3. next \in {"recap_docket_search", "conclude"}
  BY InputType, NextStages
<1>4. /\ "recap_document_search" \in Stage /\ "recap_documents" \in Call
      /\ lost \in SUBSET Call /\ lost \cap StageCall = {}
  BY DEF Stage, Call, StageCall
<1> HIDE DEF next
<1>5. Len(pool[c]) <= CASE next = "recap_document_search" -> 0
                        [] next = "recap_docket_search" -> 1
                        [] next = "conclude" -> 2
  BY <1>1, <1>3, InputType
<1> QED
  BY <1>1, <1>2, <1>3, <1>4, <1>5, SearchKeeps

LEMMA RecapDocketSearchKeeps ==
  ASSUME TypeOK, NEW c \in Cite, CInv(c), RecapDocketSearch(c)
  PROVE  Keeps(c)
<1>1. /\ pc[c] = "recap_docket_search" /\ Len(pool[c]) <= 2
      /\ GoOn(c, "conclude")
      /\ RecapSearch(c, "recap_docket_search", "recap_dockets", world[c].recapDocket)
  BY DEF RecapDocketSearch, CInv, PoolFits
<1>2. PICK found \in Seq(Candidate), lost \in SUBSET {"entries"} :
        /\ Len(found) <= 1
        /\ \/ SearchReturns(c, "recap_docket_search", found, lost)
           \/ SearchRaises(c, "recap_docket_search", "recap_dockets")
  BY <1>1, InputType, RecapSearchCases
<1>3. /\ "recap_docket_search" \in Stage /\ "recap_dockets" \in Call
      /\ lost \in SUBSET Call /\ lost \cap StageCall = {}
  BY DEF Stage, Call, StageCall
<1>4. PICK next \in {"recap_document_search", "recap_docket_search", "conclude"} :
        next = "conclude"
  OBVIOUS
<1> QED
  BY <1>1, <1>2, <1>3, <1>4, SearchKeeps

LEMMA ConcludeKeeps ==
  ASSUME TypeOK, NEW c \in Cite, CInv(c), Conclude(c)
  PROVE  Keeps(c)
<1>1. PICK fetched \in BOOLEAN :
        /\ Failed(c, IF fetched THEN {} ELSE {"document"})
        /\ Finish(c, << >>, Judged(parsed[c], pool[c], fetched))
  BY DEF Conclude
<1> DEFINE r == Judged(parsed[c], pool[c], fetched)
           calls == IF fetched THEN {} ELSE {"document"}
           none == << >>
<1>2. /\ pc[c] = "conclude" /\ UNCHANGED <<parsed, world, quickOnly, pool>>
      /\ Len(pool[c]) <= 3
      /\ \A i \in 1..Len(pool[c]) :
           pool[c][i].score >= VerifiedScore => Has(path[c], "resolved")
  BY DEF Conclude, CInv, PoolFits, Recorded
<1>3. /\ Raw(r)
      /\ r.status # "NOT_FOUND" => \E i \in 1..Len(pool[c]) : pool[c][i].score >= VerifiedScore
  BY <1>2, InputType, JudgedRaw
<1>4. calls \in SUBSET Call /\ calls \cap StageCall = {}
  BY DEF Call, StageCall
<1>5. failed' = [failed EXCEPT ![c] = @ \cup calls]
  BY <1>1 DEF Failed
<1>6. none \in Seq(PathEntry) /\ Finish(c, none, r)
  BY <1>1
<1> HIDE DEF r, calls, none
<1> QED
  BY <1>2, <1>3, <1>4, <1>5, <1>6, FinishKeeps

LEMMA VerifyKeeps ==
  ASSUME TypeOK, NEW c \in Cite, CInv(c), Verify(c)
  PROVE  Keeps(c)
BY CitationLookupKeeps, InvestigationKeeps, OpinionSearchKeeps,
   RecapDocumentSearchKeeps, RecapDocketSearchKeeps, ConcludeKeeps DEF Verify, Fallback

LEMMA InitHolds == Init => SInv
<1> SUFFICES ASSUME Init
             PROVE  TypeOK /\ \A c \in Cite : CInv(c)
  BY DEF SInv
<1>1. TypeOK
  <2>1. << >> \in Seq([stage : Stage, verdict : Verdict]) /\ << >> \in Seq(Candidate)
    OBVIOUS
  <2>2. "citation_lookup" \in Pc
    BY DEF Pc, Stage
  <2> QED
    BY <2>1, <2>2 DEF Init, TypeOK
<1>2. ASSUME NEW c \in Cite
      PROVE  CInv(c)
  <2>1. pc[c] = "citation_lookup" /\ pool[c] = << >> /\ Len(pool[c]) = 0 /\ failed[c] = {}
    BY EmptyFound DEF Init
  <2> QED
    BY <2>1 DEF CInv, PoolFits, Recorded, AnswerSound
<1> QED
  BY <1>1, <1>2

LEMMA NextKeeps == SInv /\ [Next]_vars => SInv'
<1> SUFFICES ASSUME TypeOK, \A c \in Cite : CInv(c), [Next]_vars
             PROVE  TypeOK' /\ \A c \in Cite : CInv(c)'
  BY DEF SInv
<1>1. CASE UNCHANGED vars
  BY <1>1 DEF vars, TypeOK, CInv, PoolFits, Recorded, AnswerSound
<1>2. CASE \E c \in Cite : Verify(c)
  <2>1. PICK c \in Cite : Verify(c)
    BY <1>2
  <2>2. Keeps(c)
    BY <2>1, VerifyKeeps
  <2> QED
    BY <2>2, KeepsAll DEF Keeps
<1> QED
  BY <1>1, <1>2 DEF Next, Done

LEMMA Invariance == Spec => []SInv
BY InitHolds, NextKeeps, PTL DEF Spec

(* Every result, path and pool has its type, whatever CourtListener holds and *)
(* whichever of the calls raise.                                              *)
THEOREM VerifierTypeCorrect == Spec => []TypeOK
<1>1. IInv => TypeOK
  BY DEF IInv
<1> QED
  BY Invariance, PerCitation, <1>1, PTL

(* An error of a lookup or a search is never hidden behind NOT_FOUND or       *)
(* INSUFFICIENT_DATA by verify(), unless a stage resolved: the promised gate  *)
(* of _promote_to_incomplete_if_only_errored, against the calls that raised.  *)
THEOREM ErrorsAlwaysSurface == Spec => []ErrorsSurface
<1>1. IInv => ErrorsSurface
  BY DEF IInv
<1> QED
  BY Invariance, PerCitation, <1>1, PTL

(* Every claim about a case has a resolved stage behind it, and an incomplete *)
(* verification an errored one and none resolved.                             *)
THEOREM ClaimsAlwaysBacked == Spec => []ClaimsAreBacked
<1>1. IInv => ClaimsAreBacked
  BY DEF IInv
<1> QED
  BY Invariance, PerCitation, <1>1, PTL

(* The ids and the text source always fit the status. *)
THEOREM IdsAlwaysFit == Spec => []IdsFitStatus
<1>1. IInv => IdsFitStatus
  BY DEF IInv
<1> QED
  BY Invariance, PerCitation, <1>1, PTL

(* The inductive invariant of the run: what was found and what failed so far *)
(* shows in the path, and the answer is built from the path.                 *)
THEOREM VerifierInvariant == Spec => []IInv
BY Invariance, PerCitation, PTL

-----------------------------------------------------------------------------
(* The answer that failures do not change *)

(* What the searches of a citation bring when none of them fails. *)
Opinions(c) == IF parsed[c].name THEN OpinionsFound(world[c]) ELSE << >>

Credible(c) == Opinions(c) # << >> /\ Opinions(c)[1].score >= CredibleScore

Brought(c, asked, d) ==
  IF asked /\ ~parsed[c].state /\ ~Credible(c) THEN DocketsFound(parsed[c], d, TRUE) ELSE << >>

Documents(c) == Brought(c, parsed[c].docketNo, world[c].recapDoc)
Dockets(c) == Brought(c, parsed[c].name, world[c].recapDocket)
Candidates(c) == Opinions(c) \o Documents(c) \o Dockets(c)

(* The fallback is owed to the citation at all. *)
Sought(c) ==
  /\ LookupKind(c) \notin {"mismatch", "match", "nameless", "no_primary"}
  /\ ~quickOnly /\ (parsed[c].court \/ parsed[c].year)

(* No call was lost that could have brought a candidate. *)
Unhindered(c) == failed[c] \cap (StageCall \cup {"entries"}) = {}

(* Without such a loss the pool holds what the stages behind would bring, and *)
(* the stage ahead is the one whose guard holds of it.                        *)
StageTracked(c) ==
  /\ ~Has(path[c], "errored")
  /\ pc[c] = "opinion_search" => Sought(c) /\ parsed[c].name /\ pool[c] = << >>
  /\ pc[c] = "recap_document_search" =>
       /\ Sought(c) /\ parsed[c].docketNo /\ ~parsed[c].state /\ ~Credible(c)
       /\ pool[c] = Opinions(c)
  /\ pc[c] = "recap_docket_search" =>
       /\ Sought(c) /\ parsed[c].name /\ ~parsed[c].state /\ ~Credible(c)
       /\ pool[c] = Opinions(c) \o Documents(c)
  /\ pc[c] = "conclude" => Sought(c) /\ pool[c] = Candidates(c)

CaptionCall == {"cluster", "docket", "text"}

AnswerTracked(c) ==
  /\ failed[c] = {} => result[c] = FailureFree(c)
  /\ Unhindered(c) /\ result[c].status = "NOT_FOUND" => FailureFree(c).status = "NOT_FOUND"
  /\ failed[c] \cap CaptionCall = {} /\ result[c].status = "WRONG_CASE"
       => FailureFree(c).status = "WRONG_CASE"

OnTrack(c) ==
  /\ pc[c] = "caption_investigation" => LookupKind(c) = "mismatch"
  /\ pc[c] # "done" /\ Unhindered(c) => StageTracked(c)
  /\ pc[c] = "done" => AnswerTracked(c)

(* The failure-free answer, by what the lookup holds. *)
LEMMA FailureFreeCases ==
  ASSUME NEW c \in Cite
  PROVE  /\ LookupKind(c) = "mismatch" =>
              FailureFree(c) = Finalized(parsed[c], << >>,
                OfCluster(IF world[c].captions = {} THEN "WRONG_CASE" ELSE "VERIFIED",
                          IF world[c].captions = {} THEN "none" ELSE "name_divergence"))
         /\ LookupKind(c) \in {"match", "nameless", "no_primary"} =>
              FailureFree(c) = Finalized(parsed[c], << >>, HitResult(LookupKind(c)))
         /\ /\ LookupKind(c) \notin {"mismatch", "match", "nameless", "no_primary"}
            /\ quickOnly \/ (~parsed[c].court /\ ~parsed[c].year)
            => FailureFree(c) = Finalized(parsed[c], << >>, Nothing)
         /\ Sought(c) =>
              FailureFree(c) = Finalized(parsed[c], << >>, Judged(parsed[c], Candidates(c), TRUE))
<1> DEFINE kind == LookupKind(c)
           answer ==
             CASE kind = "mismatch" ->
                    OfCluster(IF world[c].captions = {} THEN "WRONG_CASE" ELSE "VERIFIED",
                              IF world[c].captions = {} THEN "none" ELSE "name_divergence")
               [] kind \in {"match", "nameless", "no_primary"} -> HitResult(kind)
               [] OTHER -> IF quickOnly \/ (~parsed[c].court /\ ~parsed[c].year) THEN Nothing
                           ELSE Judged(parsed[c], Candidates(c), TRUE)
<1>1. FailureFree(c) = Finalized(parsed[c], << >>, answer)
  BY DEF FailureFree, Candidates, Documents, Dockets, Brought, Credible, Opinions
<1>2. kind = LookupKind(c)
  OBVIOUS
<1> HIDE DEF kind
<1>3. CASE kind = "mismatch"
  BY <1>1, <1>2, <1>3 DEF Sought
<1>4. CASE kind \in {"match", "nameless", "no_primary"}
  BY <1>1, <1>2, <1>4 DEF Sought
<1>5. CASE kind \notin {"mismatch", "match", "nameless", "no_primary"}
  BY <1>1, <1>2, <1>5 DEF Sought
<1> QED
  BY <1>3, <1>4, <1>5

(* It is read off what never changes. *)
LEMMA FailureFreeStable ==
  ASSUME NEW c \in Cite, UNCHANGED <<parsed, world, quickOnly>>
  PROVE  /\ FailureFree(c)' = FailureFree(c) /\ LookupKind(c)' = LookupKind(c)
         /\ Sought(c)' = Sought(c) /\ Opinions(c)' = Opinions(c) /\ Credible(c)' = Credible(c)
         /\ Documents(c)' = Documents(c) /\ Candidates(c)' = Candidates(c)
<1>1. LookupKind(c)' = LookupKind(c)
  BY DEF LookupKind
<1>2. Opinions(c)' = Opinions(c)
  BY DEF Opinions
<1>3. Credible(c)' = Credible(c)
  BY <1>2 DEF Credible
<1>4. Documents(c)' = Documents(c) /\ Dockets(c)' = Dockets(c)
  BY <1>3 DEF Documents, Dockets, Brought
<1>5. Sought(c)' = Sought(c)
  BY <1>1 DEF Sought
<1>6. Candidates(c)' = Candidates(c)
  BY <1>2, <1>4 DEF Candidates
<1>7. FailureFree(c)' = FailureFree(c)
  BY DEF FailureFree, LookupKind
<1> QED
  BY <1>1, <1>2, <1>3, <1>4, <1>5, <1>6, <1>7

(* Opinions are the opinion search's, the rest are dockets; the guard of the *)
(* RECAP searches asks only about the former.                                *)
LEMMA CandidateKinds ==
  ASSUME TypeOK, NEW c \in Cite
  PROVE  /\ Opinions(c) \in Seq(Candidate) /\ Len(Opinions(c)) <= 1
         /\ \A i \in 1..Len(Opinions(c)) : Opinions(c)[i].kind = "opinion"
         /\ \A asked, d : d \in Docket \cup {NoMatch} =>
              /\ Brought(c, asked, d) \in Seq(Candidate) /\ Len(Brought(c, asked, d)) <= 1
              /\ \A i \in 1..Len(Brought(c, asked, d)) : Brought(c, asked, d)[i].kind = "recap"
<1>1. Opinions(c) \in Seq(Candidate) /\ Len(Opinions(c)) <= 1
  BY InputType, OpinionsFoundType, EmptyFound DEF Opinions
<1>2. \A i \in 1..Len(Opinions(c)) : Opinions(c)[i].kind = "opinion"
  <2>1. CASE Opinions(c) = << >>
    BY <2>1
  <2>2. CASE Opinions(c) = << OfOpinion(world[c].opinion) >>
    <3>1. OfOpinion(world[c].opinion).kind = "opinion"
      BY DEF OfOpinion
    <3> QED
      BY <2>2, <3>1
  <2> QED
    BY <2>1, <2>2 DEF Opinions, OpinionsFound
<1>3. ASSUME NEW asked, NEW d \in Docket \cup {NoMatch}
      PROVE  /\ Brought(c, asked, d) \in Seq(Candidate) /\ Len(Brought(c, asked, d)) <= 1
             /\ \A i \in 1..Len(Brought(c, asked, d)) : Brought(c, asked, d)[i].kind = "recap"
  <2>1. CASE Brought(c, asked, d) = << >>
    BY <2>1, EmptyFound
  <2>2. CASE Brought(c, asked, d) = DocketsFound(parsed[c], d, TRUE) /\ d # NoMatch
    <3> DEFINE x == RecapCandidate(parsed[c], d, TRUE)
    <3>1. /\ Brought(c, asked, d) = << x >>
          /\ Brought(c, asked, d) \in Seq(Candidate)
      BY <2>2, InputType, DocketsFoundType DEF DocketsFound
    <3>2. x.kind = "recap"
      BY DEF RecapCandidate, OfDocket
    <3> HIDE DEF x
    <3>3. Len(<< x >>) = 1 /\ << x >>[1] = x
      OBVIOUS
    <3>4. \A i \in 1..1 : i = 1
      OBVIOUS
    <3> QED
      BY <3>1, <3>2, <3>3, <3>4
  <2> QED
    BY <2>1, <2>2 DEF Brought, DocketsFound
<1> QED
  BY <1>1, <1>2, <1>3

LEMMA NoneOrOne == \A n \in Nat : n <= 1 => n = 1 \/ (n = 0 /\ 1..n = {})
OBVIOUS

LEMMA GuardOfRecap ==
  ASSUME TypeOK, NEW c \in Cite, NEW t \in Seq(Candidate),
         \A i \in 1..Len(t) : t[i].kind = "recap"
  PROVE  RecapAllowed(parsed[c], Opinions(c) \o t) <=> ~parsed[c].state /\ ~Credible(c)
<1> DEFINE o == Opinions(c)
<1>1. /\ o \in Seq(Candidate) /\ Len(o) <= 1 /\ Len(o) \in Nat /\ Len(t) \in Nat
      /\ \A i \in 1..Len(o) : o[i].kind = "opinion"
  BY CandidateKinds, LenProperties
<1>2. /\ o \o t \in Seq(Candidate) /\ DOMAIN (o \o t) = 1..Len(o) + Len(t)
      /\ \A i \in 1..Len(o) + Len(t) :
           (o \o t)[i] = IF i <= Len(o) THEN o[i] ELSE t[i - Len(o)]
  BY <1>1, ConcatProperties, LenProperties
<1>3. Credible(c) <=> Len(o) = 1 /\ o[1].score >= CredibleScore
  <2>1. o = << >> <=> Len(o) = 0
    BY <1>1, EmptySeq
  <2>2. o # << >> <=> Len(o) = 1
    <3>1. Len(o) = 1 \/ Len(o) = 0
      BY <1>1, NoneOrOne
    <3>2. Len(o) = 1 => Len(o) # 0
      OBVIOUS
    <3> QED
      BY <2>1, <3>1, <3>2, Zenon
  <2>3. Credible(c) <=> o # << >> /\ o[1].score >= CredibleScore
    BY DEF Credible
  <2> QED
    BY <2>2, <2>3
<1>4. \A i \in 1..Len(o) + Len(t) : (o \o t)[i].kind = "opinion" <=> i <= Len(o)
  <2> TAKE i \in 1..Len(o) + Len(t)
  <2>1. CASE i <= Len(o)
    BY <1>1, <1>2, <2>1
  <2>2. CASE ~(i <= Len(o))
    <3>1. i - Len(o) \in 1..Len(t)
      BY <1>1, <2>2
    <3> QED
      BY <1>2, <2>2, <3>1
  <2> QED
    BY <2>1, <2>2
<1>5. \A i \in 1..Len(o) : o[i].score \in Int
  BY <1>1, ElementOfSeq, CandidateFields, ScoreInt
<1>6. RecapAllowed(parsed[c], o \o t) <=>
        /\ ~parsed[c].state
        /\ \A i \in 1..Len(o) + Len(t) :
             (o \o t)[i].kind = "opinion" => (o \o t)[i].score < CredibleScore
  BY <1>2 DEF RecapAllowed
<1> HIDE DEF o
<1>7. (\A i \in 1..Len(o) + Len(t) :
         (o \o t)[i].kind = "opinion" => (o \o t)[i].score < CredibleScore)
      <=> \A i \in 1..Len(o) : o[i].score < CredibleScore
  BY <1>1, <1>2, <1>4
<1>8. (\A i \in 1..Len(o) : o[i].score < CredibleScore) <=> ~Credible(c)
  <2>1. CASE Len(o) = 1
    <3>1. 1..Len(o) = {1} /\ o[1].score \in Int
      BY <1>5, <2>1
    <3>2. ~(o[1].score >= CredibleScore) <=> o[1].score < CredibleScore
      BY <3>1 DEF CredibleScore
    <3> QED
      BY <1>3, <2>1, <3>1, <3>2
  <2>2. CASE Len(o) # 1
    <3>1. 1..Len(o) = {}
      BY <1>1, <2>2, NoneOrOne
    <3> QED
      BY <1>3, <2>2, <3>1
  <2> QED
    BY <2>1, <2>2
<1> QED
  BY <1>6, <1>7, <1>8 DEF o

(* Where the citation goes from the opinions, and what is left to be brought. *)
LEMMA AfterOpinionTracked ==
  ASSUME TypeOK, NEW c \in Cite, NEW next, next = AfterOpinion(parsed[c], Opinions(c))
  PROVE  /\ next \in {"recap_document_search", "recap_docket_search", "conclude"}
         /\ next = "recap_document_search" => parsed[c].docketNo /\ ~parsed[c].state /\ ~Credible(c)
         /\ next = "recap_docket_search" =>
              /\ parsed[c].name /\ ~parsed[c].state /\ ~Credible(c)
              /\ Opinions(c) \o Documents(c) = Opinions(c)
         /\ next = "conclude" => Candidates(c) = Opinions(c)
<1>1. Opinions(c) \in Seq(Candidate) /\ Opinions(c) \o << >> = Opinions(c)
  BY CandidateKinds, EmptyFound
<1>2. RecapAllowed(parsed[c], Opinions(c)) <=> ~parsed[c].state /\ ~Credible(c)
  <2>1. \A i \in 1..Len(<< >>) : << >>[i].kind = "recap"
    BY EmptyFound
  <2> QED
    BY <1>1, <2>1, EmptyFound, GuardOfRecap
<1>3. /\ ~parsed[c].docketNo => Documents(c) = << >>
      /\ ~parsed[c].name => Dockets(c) = << >>
      /\ parsed[c].state \/ Credible(c) => Documents(c) = << >> /\ Dockets(c) = << >>
  BY DEF Documents, Dockets, Brought
<1>4. CASE RecapAllowed(parsed[c], Opinions(c)) /\ parsed[c].docketNo
  BY <1>2, <1>4 DEF AfterOpinion
<1>5. CASE ~(RecapAllowed(parsed[c], Opinions(c)) /\ parsed[c].docketNo)
  <2>1. Documents(c) = << >>
    BY <1>2, <1>3, <1>5
  <2>2. next = AfterRecapDocument(parsed[c], Opinions(c))
    BY <1>5 DEF AfterOpinion
  <2>3. CASE RecapAllowed(parsed[c], Opinions(c)) /\ parsed[c].name
    BY <1>1, <1>2, <2>1, <2>2, <2>3 DEF AfterRecapDocument
  <2>4. CASE ~(RecapAllowed(parsed[c], Opinions(c)) /\ parsed[c].name)
    <3>1. Dockets(c) = << >> /\ next = "conclude"
      BY <1>2, <1>3, <2>2, <2>4 DEF AfterRecapDocument
    <3> QED
      BY <1>1, <2>1, <3>1 DEF Candidates
  <2> QED
    BY <2>3, <2>4
<1> QED
  BY <1>4, <1>5

LEMMA AfterDocumentsTracked ==
  ASSUME TypeOK, NEW c \in Cite, ~parsed[c].state, ~Credible(c),
         NEW next, next = AfterRecapDocument(parsed[c], Opinions(c) \o Documents(c))
  PROVE  /\ next \in {"recap_docket_search", "conclude"}
         /\ next = "recap_docket_search" => parsed[c].name
         /\ next = "conclude" => Candidates(c) = Opinions(c) \o Documents(c)
<1> DEFINE d == Documents(c)
<1>1. d \in Seq(Candidate) /\ \A i \in 1..Len(d) : d[i].kind = "recap"
  BY InputType, CandidateKinds DEF Documents
<1>2. RecapAllowed(parsed[c], Opinions(c) \o d)
  BY <1>1, GuardOfRecap
<1>3. Opinions(c) \o d \in Seq(Candidate) /\ (Opinions(c) \o d) \o << >> = Opinions(c) \o d
  BY <1>1, CandidateKinds, ConcatProperties, EmptyFound
<1>4. ~parsed[c].name => Dockets(c) = << >>
  BY DEF Dockets, Brought
<1> QED
  BY <1>2, <1>3, <1>4 DEF AfterRecapDocument, Candidates

LEMMA FailedGrows ==
  ASSUME TypeOK, NEW c \in Cite, NEW calls, Failed(c, calls)
  PROVE  failed'[c] = failed[c] \cup calls /\ (Unhindered(c)' => Unhindered(c))
<1>1. failed'[c] = failed[c] \cup calls
  BY DEF Failed, TypeOK
<1> QED
  BY <1>1 DEF Unhindered

(* A raw answer that is the failure-free one where that is claimed of it. *)
LEMMA FinishTracks ==
  ASSUME TypeOK, NEW c \in Cite, NEW entries, NEW r, Raw(r),
         Finish(c, entries, r), UNCHANGED <<parsed, world, quickOnly>>,
         failed'[c] = {} => FailureFree(c) = Finalized(parsed[c], << >>, r),
         Unhindered(c)' /\ r.status = "NOT_FOUND" =>
           /\ ~Has(path[c] \o entries, "errored")
           /\ FailureFree(c) = Finalized(parsed[c], << >>, r),
         failed'[c] \cap CaptionCall = {} /\ r.status = "WRONG_CASE" =>
           FailureFree(c) = Finalized(parsed[c], << >>, r)
  PROVE  OnTrack(c)'
<1> DEFINE full == path[c] \o entries
           f == Finalized(parsed[c], full, r)
           g == Finalized(parsed[c], << >>, r)
<1>1. pc'[c] = "done" /\ result'[c] = f
  BY DEF Finish, TypeOK
<1>2. r \in Result /\ parsed[c] \in ParsedCitation /\ r.status \notin Promoted
  BY InputType DEF Raw
<1>3. r.status # "NOT_FOUND" => f = r /\ g = r
  BY <1>2, FinalizedCases DEF Promoted
<1>4. ~Has(full, "errored") => f = g
  BY DEF Finalized, PromotedToIncomplete, Has
<1>5. FailureFree(c)' = FailureFree(c)
  BY FailureFreeStable
<1>6. failed'[c] = {} => Unhindered(c)'
  BY DEF Unhindered
<1> HIDE DEF f, g
<1>7. failed'[c] = {} => result'[c] = FailureFree(c)
  BY <1>1, <1>3, <1>4, <1>6 DEF g
<1>8. Unhindered(c)' /\ f.status = "NOT_FOUND" => FailureFree(c).status = "NOT_FOUND"
  BY <1>3, <1>4 DEF g
<1>9. f.status = "WRONG_CASE" => r.status = "WRONG_CASE"
  <2>1. r.status = "NOT_FOUND" => f.status # "WRONG_CASE"
    BY <1>2, FinalizedCases DEF f
  <2> QED
    BY <1>3, <2>1
<1>10. failed'[c] \cap CaptionCall = {} /\ f.status = "WRONG_CASE"
         => FailureFree(c).status = "WRONG_CASE"
  BY <1>3, <1>9 DEF g
<1> QED
  BY <1>1, <1>5, <1>7, <1>8, <1>10 DEF OnTrack, AnswerTracked

(* Moving on, with what the stage ahead asks of the pool. *)
LEMMA MoveTracks ==
  ASSUME TypeOK, NEW c \in Cite, OnTrack(c), pc[c] # "done", NEW next, next # "done",
         pc' = [pc EXCEPT ![c] = next], NEW e \in PathEntry,
         path' = [path EXCEPT ![c] = Append(@, e)],
         UNCHANGED <<parsed, world, quickOnly>>,
         next = "caption_investigation" => LookupKind(c) = "mismatch",
         Unhindered(c)' =>
           /\ Unhindered(c) /\ e.verdict # "errored"
           /\ next = "opinion_search" => Sought(c) /\ parsed[c].name /\ pool'[c] = << >>
           /\ next = "recap_document_search" =>
                /\ Sought(c) /\ parsed[c].docketNo /\ ~parsed[c].state /\ ~Credible(c)
                /\ pool'[c] = Opinions(c)
           /\ next = "recap_docket_search" =>
                /\ Sought(c) /\ parsed[c].name /\ ~parsed[c].state /\ ~Credible(c)
                /\ pool'[c] = Opinions(c) \o Documents(c)
           /\ next = "conclude" => Sought(c) /\ pool'[c] = Candidates(c)
  PROVE  OnTrack(c)'
<1>1. pc'[c] = next /\ path'[c] = Append(path[c], e)
  BY DEF TypeOK
<1>2. path[c] \in Seq(PathEntry)
  BY DEF TypeOK, PathEntry
<1>3. Has(path'[c], "errored") <=> Has(path[c], "errored") \/ e.verdict = "errored"
  BY <1>1, <1>2, HasAppend
<1>4. Unhindered(c)' => StageTracked(c)'
  <2> SUFFICES ASSUME Unhindered(c)'
               PROVE  StageTracked(c)'
    OBVIOUS
  <2>1. ~Has(path'[c], "errored")
    BY <1>3 DEF OnTrack, StageTracked
  <2> QED
    BY <1>1, <2>1, FailureFreeStable DEF StageTracked
<1> QED
  BY <1>1, <1>4, FailureFreeStable DEF OnTrack

LEMMA WithoutHitTracks ==
  ASSUME TypeOK, NEW c \in Cite, CInv(c), OnTrack(c), pc[c] = "citation_lookup",
         NEW v \in {"no_match", "errored"}, NEW calls, Failed(c, calls),
         v = "errored" => "lookup" \in calls,
         v = "no_match" => LookupKind(c) = "miss",
         LookupWithoutHit(c, v), UNCHANGED <<parsed, world, quickOnly>>
  PROVE  OnTrack(c)'
<1> DEFINE e == Entry("citation_lookup", v)
           n == Entry("opinion_search", "no_match")
<1>1. /\ e \in PathEntry /\ e.verdict = v /\ n \in PathEntry /\ n.verdict = "no_match"
      /\ path[c] \in Seq(PathEntry)
  BY EntryType DEF Stage, Verdict, TypeOK, PathEntry
<1>2. /\ Unhindered(c)' => Unhindered(c) /\ v = "no_match"
      /\ pool'[c] = << >> /\ pool[c] = << >>
  BY FailedGrows DEF LookupWithoutHit, Unhindered, StageCall, CInv, PoolFits
<1>3. Unhindered(c)' => ~Has(path[c], "errored")
  BY <1>2 DEF OnTrack, StageTracked
<1>4. ASSUME Unhindered(c)', quickOnly \/ (~parsed[c].court /\ ~parsed[c].year)
      PROVE  FailureFree(c) = Finalized(parsed[c], << >>, Nothing)
  BY <1>2, <1>4, FailureFreeCases
<1>5. Raw(Nothing) /\ Nothing.status = "NOT_FOUND" /\ (failed'[c] = {} => Unhindered(c)')
  BY NothingRaw DEF Unhindered
<1>6. \/ /\ quickOnly \/ (~parsed[c].court /\ ~parsed[c].year)
         /\ Finish(c, << e >>, Nothing) \/ Finish(c, << e, n >>, Nothing)
      \/ /\ ~quickOnly /\ (parsed[c].court \/ parsed[c].year)
         /\ pc' = [pc EXCEPT ![c] = AfterMiss(parsed[c])]
         /\ path' = [path EXCEPT ![c] = Append(@, e)]
  BY DEF LookupWithoutHit
<1> HIDE DEF e, n
<1>7. ASSUME NEW entries \in Seq(PathEntry), Has(entries, "errored") <=> v = "errored",
             quickOnly \/ (~parsed[c].court /\ ~parsed[c].year),
             Finish(c, entries, Nothing)
      PROVE  OnTrack(c)'
  <2>1. Unhindered(c)' => ~Has(path[c] \o entries, "errored")
    BY <1>1, <1>2, <1>3, <1>7, HasConcat
  <2> QED
    BY <1>4, <1>5, <1>7, <2>1, FinishTracks
<1>8. /\ << e >> \in Seq(PathEntry) /\ (Has(<< e >>, "errored") <=> v = "errored")
      /\ << e, n >> \in Seq(PathEntry) /\ (Has(<< e, n >>, "errored") <=> v = "errored")
  BY <1>1, HasOne, HasTwo
<1>9. CASE /\ ~quickOnly /\ (parsed[c].court \/ parsed[c].year)
           /\ pc' = [pc EXCEPT ![c] = AfterMiss(parsed[c])]
           /\ path' = [path EXCEPT ![c] = Append(@, e)]
  <2> DEFINE next == AfterMiss(parsed[c])
  <2>1. next \notin {"done", "caption_investigation", "citation_lookup"}
    BY InputType, NextStages
  <2>2. Unhindered(c)' => Sought(c) /\ e.verdict # "errored"
    BY <1>1, <1>2, <1>9 DEF Sought
  <2>3. parsed[c].name => next = "opinion_search"
    BY DEF AfterMiss
  <2>4. ~parsed[c].name => Opinions(c) = << >> /\ next = AfterOpinion(parsed[c], Opinions(c))
    BY DEF AfterMiss, Opinions
  <2>5. next = "opinion_search" => parsed[c].name
    BY <2>4, AfterOpinionTracked
  <2> HIDE DEF next
  <2>6. CASE parsed[c].name
    BY <1>1, <1>2, <1>9, <2>1, <2>2, <2>3, <2>6, MoveTracks DEF next
  <2>7. CASE ~parsed[c].name
    <3>1. /\ next \in {"recap_document_search", "recap_docket_search", "conclude"}
          /\ next = "recap_document_search" => parsed[c].docketNo /\ ~parsed[c].state /\ ~Credible(c)
          /\ next = "recap_docket_search" =>
               /\ parsed[c].name /\ ~parsed[c].state /\ ~Credible(c)
               /\ Opinions(c) \o Documents(c) = Opinions(c)
          /\ next = "conclude" => Candidates(c) = Opinions(c)
          /\ Opinions(c) = << >>
      BY <2>4, <2>7, AfterOpinionTracked
    <3> QED
      BY <1>1, <1>2, <1>9, <2>1, <2>2, <3>1, MoveTracks DEF next
  <2> QED
    BY <2>6, <2>7
<1> QED
  BY <1>6, <1>7, <1>8, <1>9

LEMMA HitTracks ==
  ASSUME TypeOK, NEW c \in Cite, CInv(c), OnTrack(c), pc[c] = "citation_lookup",
         Failed(c, {}), LookupHit(c), UNCHANGED <<parsed, world, quickOnly>>
  PROVE  OnTrack(c)'
<1> DEFINE e == Entry("citation_lookup", "resolved")
           r == HitResult(LookupKind(c))
<1>1. e \in PathEntry /\ e.verdict = "resolved"
  BY EntryType DEF Stage, Verdict
<1>2. CASE /\ LookupKind(c) = "mismatch"
           /\ pc' = [pc EXCEPT ![c] = "caption_investigation"]
           /\ path' = [path EXCEPT ![c] = Append(@, e)]
  <2>1. Unhindered(c)' => Unhindered(c)
    BY FailedGrows
  <2> DEFINE next == "caption_investigation"
  <2>2. /\ next \notin {"done", "opinion_search", "recap_document_search",
                        "recap_docket_search", "conclude"}
        /\ pc' = [pc EXCEPT ![c] = next]
    BY <1>2
  <2> HIDE DEF next, e
  <2> QED
    BY <1>1, <1>2, <2>1, <2>2, MoveTracks
<1>3. CASE /\ LookupKind(c) \in {"match", "nameless", "no_primary"}
           /\ Finish(c, << e >>, r)
  <2>1. \/ r = OfCluster("VERIFIED", "none")
        \/ r = OfCluster("VERIFIED_PARTIAL", "name_unverified")
        \/ r = OfCluster("VERIFIED_PARTIAL", "silent_partial")
    BY <1>3 DEF HitResult
  <2>2. Raw(r) /\ r.status \notin {"NOT_FOUND", "WRONG_CASE"}
    BY <2>1, OfClusterRaw DEF Category
  <2>3. FailureFree(c) = Finalized(parsed[c], << >>, r)
    BY <1>3, FailureFreeCases
  <2> HIDE DEF r, e
  <2> QED
    BY <1>3, <2>2, <2>3, FinishTracks
<1> QED
  BY <1>2, <1>3 DEF LookupHit

LEMMA CitationLookupTracks ==
  ASSUME TypeOK, NEW c \in Cite, CInv(c), OnTrack(c), CitationLookup(c)
  PROVE  OnTrack(c)'
<1>1. pc[c] = "citation_lookup" /\ UNCHANGED <<parsed, world, quickOnly>>
  BY DEF CitationLookup
<1>2. CASE Failed(c, {"lookup"}) /\ LookupWithoutHit(c, "errored")
  BY <1>1, <1>2, WithoutHitTracks
<1>3. CASE world[c].lookup = "miss" /\ Failed(c, {}) /\ LookupWithoutHit(c, "no_match")
  <2>1. LookupKind(c) = "miss"
    BY <1>3 DEF LookupKind
  <2> QED
    BY <1>1, <1>3, <2>1, WithoutHitTracks
<1>4. CASE Failed(c, {}) /\ LookupHit(c)
  BY <1>1, <1>4, HitTracks
<1> QED
  BY <1>2, <1>3, <1>4 DEF CitationLookup

LEMMA InvestigationTracks ==
  ASSUME TypeOK, NEW c \in Cite, OnTrack(c), InvestigateCaption(c) \/ CaptionUnclassified(c)
  PROVE  OnTrack(c)'
<1>1. LookupKind(c) = "mismatch" /\ UNCHANGED <<parsed, world, quickOnly>>
  BY DEF InvestigateCaption, CaptionUnclassified, OnTrack
<1> DEFINE r(heard) == IF heard # {} THEN OfCluster("VERIFIED", "name_divergence")
                                     ELSE OfCluster("WRONG_CASE", "none")
<1>2. FailureFree(c) = Finalized(parsed[c], << >>, r(world[c].captions))
  BY <1>1, FailureFreeCases
<1>3. \A heard : Raw(r(heard)) /\ r(heard).status \in {"VERIFIED", "WRONG_CASE"}
  BY OfClusterRaw DEF Category
<1>4. CASE CaptionUnclassified(c)
  <2> DEFINE one == {1}
  <2>1. /\ Finish(c, << Entry("caption_investigation", "errored") >>, r(one))
        /\ r(one).status = "VERIFIED"
        /\ "investigation" \in failed'[c]
    BY <1>4, FailedGrows, OfClusterRaw DEF CaptionUnclassified, Category
  <2> HIDE DEF r
  <2> QED
    BY <1>1, <1>3, <2>1, FinishTracks
<1>5. CASE InvestigateCaption(c)
  <2>1. PICK lost \in SUBSET {"cluster", "docket", "text"} :
          /\ Failed(c, lost)
          /\ Finish(c, << Entry("caption_investigation", "resolved") >>,
                    r(world[c].captions \ ((lost \cap {"docket", "text"})
                       \cup (IF "cluster" \in lost THEN {"full", "docket"} ELSE {}))))
    BY <1>5 DEF InvestigateCaption
  <2> DEFINE unheard == (lost \cap {"docket", "text"})
                          \cup (IF "cluster" \in lost THEN {"full", "docket"} ELSE {})
             got == r(world[c].captions \ unheard)
  <2>2. failed'[c] = failed[c] \cup lost
    BY <2>1, FailedGrows
  <2>3. failed'[c] \cap CaptionCall = {} => lost = {}
    BY <2>2 DEF CaptionCall
  <2>4. lost = {} => world[c].captions \ unheard = world[c].captions
    OBVIOUS
  <2>5. failed'[c] \cap CaptionCall = {} => FailureFree(c) = Finalized(parsed[c], << >>, got)
    BY <1>2, <2>3, <2>4
  <2>6. Raw(got) /\ got.status # "NOT_FOUND"
    BY <1>3
  <2>7. Finish(c, << Entry("caption_investigation", "resolved") >>, got)
    BY <2>1
  <2>8. failed'[c] = {} => failed'[c] \cap CaptionCall = {}
    OBVIOUS
  <2> HIDE DEF got
  <2> QED
    BY <1>1, <2>5, <2>6, <2>7, <2>8, FinishTracks
<1> QED
  BY <1>4, <1>5

(* What a search does when nothing is lost, and when something is. *)
LEMMA SearchTracks ==
  ASSUME TypeOK, NEW c \in Cite, NEW stage \in Stage, NEW call \in StageCall, NEW found
  PROVE  /\ SearchReturns(c, stage, found, {}) =>
              /\ \E e \in PathEntry : /\ path' = [path EXCEPT ![c] = Append(@, e)]
                                      /\ e.verdict # "errored"
              /\ pool'[c] = pool[c] \o found
              /\ Unhindered(c)' => Unhindered(c)
         /\ SearchReturns(c, stage, found, {"entries"}) \/ SearchRaises(c, stage, call) =>
              /\ \E e \in PathEntry : path' = [path EXCEPT ![c] = Append(@, e)]
              /\ ~Unhindered(c)'
<1>1. \A v \in Verdict : Entry(stage, v) \in PathEntry /\ Entry(stage, v).verdict = v
  BY EntryType
<1>2. ASSUME NEW lost, SearchReturns(c, stage, found, lost)
      PROVE  /\ \E e \in PathEntry : /\ path' = [path EXCEPT ![c] = Append(@, e)]
                                     /\ e.verdict # "errored"
             /\ pool'[c] = pool[c] \o found
             /\ Failed(c, lost)
  <2> DEFINE v == IF found # << >> /\ found[1].score >= VerifiedScore
                  THEN "resolved" ELSE "no_match"
  <2>1. path' = [path EXCEPT ![c] = Append(@, Entry(stage, v))] /\ v \in Verdict /\ v # "errored"
    BY <1>2 DEF SearchReturns, Verdict
  <2> HIDE DEF v
  <2>2. pool'[c] = pool[c] \o found /\ Failed(c, lost)
    BY <1>2 DEF SearchReturns, TypeOK
  <2> QED
    BY <1>1, <2>1, <2>2
<1>3. SearchReturns(c, stage, found, {}) => (Unhindered(c)' => Unhindered(c))
  BY <1>2, FailedGrows
<1>4. SearchReturns(c, stage, found, {"entries"}) => ~Unhindered(c)'
  <2>1. SearchReturns(c, stage, found, {"entries"}) => "entries" \in failed'[c]
    BY <1>2, FailedGrows
  <2> QED
    BY <2>1 DEF Unhindered
<1>5. ASSUME SearchRaises(c, stage, call)
      PROVE  /\ \E e \in PathEntry : path' = [path EXCEPT ![c] = Append(@, e)]
             /\ ~Unhindered(c)'
  <2>1. path' = [path EXCEPT ![c] = Append(@, Entry(stage, "errored"))] /\ Failed(c, {call})
    BY <1>5 DEF SearchRaises
  <2>2. Entry(stage, "errored") \in PathEntry
    BY <1>1 DEF Verdict
  <2>3. call \in failed'[c]
    BY <2>1, FailedGrows
  <2> QED
    BY <2>1, <2>2, <2>3 DEF Unhindered
<1> QED
  BY <1>2, <1>3, <1>4, <1>5

LEMMA OpinionSearchTracks ==
  ASSUME TypeOK, NEW c \in Cite, CInv(c), OnTrack(c), OpinionSearch(c)
  PROVE  OnTrack(c)'
<1> DEFINE found == OpinionsFound(world[c])
           next == AfterOpinion(parsed[c], pool'[c])
<1>1. /\ pc[c] = "opinion_search" /\ pool[c] = << >>
      /\ pc' = [pc EXCEPT ![c] = next] /\ UNCHANGED <<parsed, world, quickOnly>>
      /\ \/ SearchReturns(c, "opinion_search", found, {})
         \/ SearchRaises(c, "opinion_search", "opinions")
  BY DEF OpinionSearch, GoOn, CInv, PoolFits
<1>2. "opinion_search" \in Stage /\ "opinions" \in StageCall
  BY DEF Stage, StageCall
<1>3. next \notin {"done", "caption_investigation", "opinion_search"}
  BY InputType, NextStages
<1>4. found \in Seq(Candidate) /\ << >> \o found = found
  <2>1. found \in Seq(Candidate)
    BY InputType, OpinionsFoundType
  <2> QED
    BY <2>1, ConcatEmptySeq
<1>5. CASE SearchRaises(c, "opinion_search", "opinions")
  <2>1. (\E e \in PathEntry : path' = [path EXCEPT ![c] = Append(@, e)]) /\ ~Unhindered(c)'
    BY <1>2, <1>5, SearchTracks
  <2> HIDE DEF next
  <2> QED
    BY <1>1, <1>3, <2>1, MoveTracks
<1>6. CASE SearchReturns(c, "opinion_search", found, {})
  <2>1. PICK e \in PathEntry : path' = [path EXCEPT ![c] = Append(@, e)] /\ e.verdict # "errored"
    BY <1>2, <1>6, SearchTracks
  <2>2. (Unhindered(c)' => Unhindered(c)) /\ pool'[c] = found
    BY <1>1, <1>2, <1>4, <1>6, SearchTracks
  <2>3. Unhindered(c)' => Sought(c) /\ parsed[c].name /\ pool'[c] = Opinions(c)
    BY <1>1, <2>2 DEF OnTrack, StageTracked, Opinions
  <2> HIDE DEF found
  <2>4. Unhindered(c)' =>
         /\ next = "recap_document_search" => parsed[c].docketNo /\ ~parsed[c].state /\ ~Credible(c)
         /\ next = "recap_docket_search" =>
              /\ parsed[c].name /\ ~parsed[c].state /\ ~Credible(c)
              /\ Opinions(c) \o Documents(c) = Opinions(c)
         /\ next = "conclude" => Candidates(c) = Opinions(c)
    BY <2>3, AfterOpinionTracked
  <2> HIDE DEF next
  <2> QED
    BY <1>1, <1>3, <2>1, <2>2, <2>3, <2>4, MoveTracks
<1> QED
  BY <1>1, <1>5, <1>6

(* A RECAP search loses nothing only if it brings what it would bring. *)
LEMMA RecapSearchTracks ==
  ASSUME TypeOK, NEW c \in Cite, NEW stage \in Stage, NEW call \in StageCall,
         NEW d, RecapSearch(c, stage, call, d)
  PROVE  /\ \E e \in PathEntry : /\ path' = [path EXCEPT ![c] = Append(@, e)]
                                 /\ Unhindered(c)' => e.verdict # "errored"
         /\ Unhindered(c)' =>
              /\ Unhindered(c)
              /\ pool'[c] = pool[c] \o DocketsFound(parsed[c], d, TRUE)
BY SearchTracks DEF RecapSearch

LEMMA RecapDocumentSearchTracks ==
  ASSUME TypeOK, NEW c \in Cite, OnTrack(c), RecapDocumentSearch(c)
  PROVE  OnTrack(c)'
<1> DEFINE next == AfterRecapDocument(parsed[c], pool'[c])
<1>1. /\ pc[c] = "recap_document_search"
      /\ pc' = [pc EXCEPT ![c] = next] /\ UNCHANGED <<parsed, world, quickOnly>>
      /\ RecapSearch(c, "recap_document_search", "recap_documents", world[c].recapDoc)
  BY DEF RecapDocumentSearch, GoOn
<1>2. "recap_document_search" \in Stage /\ "recap_documents" \in StageCall
  BY DEF Stage, StageCall
<1>3. next \in {"recap_docket_search", "conclude"}
  BY InputType, NextStages
<1>4. PICK e \in PathEntry : /\ path' = [path EXCEPT ![c] = Append(@, e)]
                             /\ Unhindered(c)' => e.verdict # "errored"
  BY <1>1, <1>2, RecapSearchTracks
<1>5. Unhindered(c)' =>
        /\ Unhindered(c)
        /\ pool'[c] = pool[c] \o DocketsFound(parsed[c], world[c].recapDoc, TRUE)
  BY <1>1, <1>2, RecapSearchTracks
<1>6. Unhindered(c)' =>
        /\ Sought(c) /\ ~parsed[c].state /\ ~Credible(c)
        /\ pool'[c] = Opinions(c) \o Documents(c)
  BY <1>1, <1>5 DEF OnTrack, StageTracked, Documents, Brought
<1>7. Unhindered(c)' =>
        /\ next = "recap_docket_search" => parsed[c].name
        /\ next = "conclude" => Candidates(c) = Opinions(c) \o Documents(c)
  BY <1>6, AfterDocumentsTracked
<1> HIDE DEF next
<1> QED
  BY <1>1, <1>3, <1>4, <1>5, <1>6, <1>7, MoveTracks

LEMMA RecapDocketSearchTracks ==
  ASSUME TypeOK, NEW c \in Cite, OnTrack(c), RecapDocketSearch(c)
  PROVE  OnTrack(c)'
<1> DEFINE next == "conclude"
<1>1. /\ pc[c] = "recap_docket_search"
      /\ pc' = [pc EXCEPT ![c] = next] /\ UNCHANGED <<parsed, world, quickOnly>>
      /\ RecapSearch(c, "recap_docket_search", "recap_dockets", world[c].recapDocket)
  BY DEF RecapDocketSearch, GoOn
<1>2. "recap_docket_search" \in Stage /\ "recap_dockets" \in StageCall
  BY DEF Stage, StageCall
<1>3. PICK e \in PathEntry : /\ path' = [path EXCEPT ![c] = Append(@, e)]
                             /\ Unhindered(c)' => e.verdict # "errored"
  BY <1>1, <1>2, RecapSearchTracks
<1>4. Unhindered(c)' =>
        /\ Unhindered(c)
        /\ pool'[c] = pool[c] \o DocketsFound(parsed[c], world[c].recapDocket, TRUE)
  BY <1>1, <1>2, RecapSearchTracks
<1>5. Unhindered(c)' => Sought(c) /\ pool'[c] = Candidates(c)
  BY <1>1, <1>4 DEF OnTrack, StageTracked, Candidates, Dockets, Brought
<1>6. next \notin {"done", "caption_investigation", "opinion_search",
                   "recap_document_search", "recap_docket_search"}
  OBVIOUS
<1> HIDE DEF next
<1> QED
  BY <1>1, <1>3, <1>4, <1>5, <1>6, MoveTracks

(* A best candidate over the threshold, in the cited court, is never nothing; *)
(* and no candidate makes a wrong case.                                       *)
LEMMA WorthStatus ==
  ASSUME NEW best \in Candidate, NEW fetched
  PROVE  /\ Worth(best, fetched).status
              \in {"NOT_FOUND", "VERIFIED", "VERIFIED_VIA_RECAP", "VERIFIED_DOCKET_ONLY"}
         /\ best.score >= VerifiedScore => Worth(best, fetched).status # "NOT_FOUND"
         /\ DOMAIN Worth(best, fetched) = {"status", "ids", "text", "warning"}
<1>1. best.kind \in {"opinion", "recap"} /\ best.score \in Int
  BY CandidateFields, ScoreInt
<1>2. CASE best.kind = "opinion" /\ best.score >= VerifiedScore
  BY <1>1, <1>2 DEF Worth, VerifiedScore, OfCluster
<1>3. CASE best.kind = "opinion" /\ best.score < VerifiedScore
  BY <1>1, <1>3 DEF Worth, VerifiedScore, Nothing
<1>4. CASE best.kind = "recap" /\ best.score < VerifiedScore
  BY <1>1, <1>4 DEF Worth, VerifiedScore, Nothing
<1>5. CASE best.kind = "recap" /\ best.score >= VerifiedScore
  BY <1>1, <1>5 DEF Worth, VerifiedScore
<1> QED
  BY <1>1, <1>2, <1>3, <1>4, <1>5 DEF VerifiedScore

LEMMA CiteCheckedStatus ==
  ASSUME NEW p, NEW best, NEW r, DOMAIN r = {"status", "ids", "text", "warning"}
  PROVE  CiteChecked(p, best, r).status \in {r.status, "CITE_UNCONFIRMED"}
BY DEF CiteChecked

LEMMA JudgedStatus ==
  ASSUME NEW p \in ParsedCitation, NEW candidates \in Seq(Candidate), Len(candidates) <= 3,
         NEW fetched
  PROVE  /\ Judged(p, candidates, fetched).status # "WRONG_CASE"
         /\ /\ candidates # << >> /\ ~WrongCourt(p, Best(candidates))
            /\ Best(candidates).score >= VerifiedScore
            => Judged(p, candidates, fetched).status # "NOT_FOUND"
<1>1. CASE candidates = << >> \/ WrongCourt(p, Best(candidates))
  <2>1. Judged(p, candidates, fetched) = Nothing
    BY <1>1 DEF Judged
  <2> QED
    BY <1>1, <2>1, NothingRaw
<1>2. CASE candidates # << >> /\ ~WrongCourt(p, Best(candidates))
  <2> DEFINE best == Best(candidates)
             w == Worth(best, fetched)
  <2>1. best \in Candidate
    BY <1>2, BestIsCandidate, ElementOfSeq
  <2>2. Judged(p, candidates, fetched) = CiteChecked(p, best, w)
    BY <1>2 DEF Judged
  <2>3. /\ w.status \in {"NOT_FOUND", "VERIFIED", "VERIFIED_VIA_RECAP", "VERIFIED_DOCKET_ONLY"}
        /\ best.score >= VerifiedScore => w.status # "NOT_FOUND"
        /\ DOMAIN w = {"status", "ids", "text", "warning"}
    BY <2>1, WorthStatus
  <2> HIDE DEF w
  <2>4. CiteChecked(p, best, w).status \in {w.status, "CITE_UNCONFIRMED"}
    BY <2>3, CiteCheckedStatus
  <2> QED
    BY <2>2, <2>3, <2>4
<1> QED
  BY <1>1, <1>2

LEMMA ConcludeTracks ==
  ASSUME TypeOK, NEW c \in Cite, CInv(c), OnTrack(c), Conclude(c)
  PROVE  OnTrack(c)'
<1>1. PICK fetched \in BOOLEAN :
        /\ Failed(c, IF fetched THEN {} ELSE {"document"})
        /\ ~fetched => /\ pool[c] # << >> /\ ~WrongCourt(parsed[c], Best(pool[c]))
                       /\ Best(pool[c]).score >= VerifiedScore
        /\ Finish(c, << >>, Judged(parsed[c], pool[c], fetched))
  BY DEF Conclude
<1> DEFINE r == Judged(parsed[c], pool[c], fetched)
           none == << >>
<1>2. pc[c] = "conclude" /\ UNCHANGED <<parsed, world, quickOnly>> /\ Len(pool[c]) <= 3
  BY DEF Conclude, CInv, PoolFits
<1>3. Raw(r) /\ r.status # "WRONG_CASE" /\ (~fetched => r.status # "NOT_FOUND")
  BY <1>1, <1>2, InputType, JudgedRaw, JudgedStatus
<1>4. /\ Unhindered(c)' => Unhindered(c)
      /\ ~fetched => "document" \in failed'[c]
  BY <1>1, FailedGrows
<1>5. Unhindered(c)' =>
        /\ ~Has(path[c], "errored")
        /\ FailureFree(c) = Finalized(parsed[c], << >>, Judged(parsed[c], pool[c], TRUE))
  BY <1>2, <1>4, FailureFreeCases DEF OnTrack, StageTracked
<1>6. path[c] \o none = path[c]
  <2>1. path[c] \in Seq(PathEntry)
    BY DEF TypeOK, PathEntry
  <2> QED
    BY <2>1, ConcatEmptySeq
<1>7. failed'[c] = {} => Unhindered(c)' /\ fetched = TRUE
  BY <1>4 DEF Unhindered
<1>8. /\ failed'[c] = {} => FailureFree(c) = Finalized(parsed[c], << >>, r)
      /\ Unhindered(c)' /\ r.status = "NOT_FOUND" =>
           /\ ~Has(path[c] \o none, "errored")
           /\ FailureFree(c) = Finalized(parsed[c], << >>, r)
  <2>1. fetched => r = Judged(parsed[c], pool[c], TRUE)
    OBVIOUS
  <2> HIDE DEF r
  <2> QED
    BY <1>3, <1>5, <1>6, <1>7, <2>1
<1>9. Finish(c, none, r)
  BY <1>1
<1> HIDE DEF r, none
<1> QED
  BY <1>2, <1>3, <1>8, <1>9, FinishTracks

LEMMA VerifyTracks ==
  ASSUME TypeOK, NEW c \in Cite, CInv(c), OnTrack(c), Verify(c)
  PROVE  OnTrack(c)' /\ UNCHANGED <<parsed, world, quickOnly>>
<1>1. OnTrack(c)'
  BY CitationLookupTracks, InvestigationTracks, OpinionSearchTracks,
     RecapDocumentSearchTracks, RecapDocketSearchTracks, ConcludeTracks DEF Verify, Fallback
<1>2. UNCHANGED <<parsed, world, quickOnly>>
  BY DEF Verify, Fallback, CitationLookup, InvestigateCaption, CaptionUnclassified,
         OpinionSearch, RecapDocumentSearch, RecapDocketSearch, Conclude, GoOn
<1> QED
  BY <1>1, <1>2

LEMMA OthersTracked ==
  ASSUME NEW d \in Cite, OnTrack(d), Same(d), UNCHANGED <<parsed, world, quickOnly>>
  PROVE  OnTrack(d)'
<1>1. Unhindered(d)' <=> Unhindered(d)
  BY DEF Same, Unhindered
<1>2. Has(path[d], "errored")' <=> Has(path[d], "errored")
  BY DEF Same, Has
<1>3. StageTracked(d) => StageTracked(d)'
  BY <1>2, FailureFreeStable DEF Same, StageTracked
<1>4. AnswerTracked(d) => AnswerTracked(d)'
  BY <1>1, FailureFreeStable DEF Same, AnswerTracked
<1> QED
  BY <1>1, <1>3, <1>4, FailureFreeStable DEF Same, OnTrack

(* The invariant and the track, of every citation. *)
TInv == SInv /\ \A c \in Cite : OnTrack(c)

LEMMA InitOnTrack == Init => TInv
<1> SUFFICES ASSUME Init, NEW c \in Cite
             PROVE  OnTrack(c)
  BY InitHolds DEF TInv
<1>1. pc[c] = "citation_lookup" /\ path[c] = << >> /\ ~Has(path[c], "errored")
  BY DEF Init, Has
<1> QED
  BY <1>1 DEF OnTrack, StageTracked

LEMMA NextOnTrack == TInv /\ [Next]_vars => TInv'
<1> SUFFICES ASSUME SInv, \A c \in Cite : OnTrack(c), [Next]_vars
             PROVE  SInv' /\ \A c \in Cite : OnTrack(c)'
  BY DEF TInv
<1>1. SInv'
  BY NextKeeps
<1>2. CASE UNCHANGED vars
  <2> SUFFICES ASSUME NEW d \in Cite PROVE OnTrack(d)'
    BY <1>1
  <2>1. Same(d) /\ UNCHANGED <<parsed, world, quickOnly>>
    BY <1>2 DEF vars, Same
  <2> QED
    BY <2>1, OthersTracked
<1>3. CASE \E c \in Cite : Verify(c)
  <2>1. PICK c \in Cite : Verify(c)
    BY <1>3
  <2>2. TypeOK /\ CInv(c)
    BY DEF SInv
  <2>3. Keeps(c) /\ OnTrack(c)' /\ UNCHANGED <<parsed, world, quickOnly>>
    BY <2>1, <2>2, VerifyKeeps, VerifyTracks
  <2>4. ASSUME NEW d \in Cite, d # c PROVE OnTrack(d)'
    BY <2>3, <2>4, OthersTracked DEF Keeps
  <2> QED
    BY <1>1, <2>3, <2>4
<1> QED
  BY <1>2, <1>3 DEF Next, Done

LEMMA AlwaysOnTrack == Spec => []TInv
BY InitOnTrack, NextOnTrack, PTL DEF Spec

(* Verification is a function of what CourtListener holds as long as no call  *)
(* fails: the guards of _search_fallback skip only searches whose candidates  *)
(* the answer does not need, for every world and any number of citations      *)
(* verified together (verifier.py, verify and _search_fallback).              *)
THEOREM FailureFreeAlwaysAnswered == Spec => []FailureFreeAnswer
<1>1. TInv => FailureFreeAnswer
  BY DEF TInv, OnTrack, AnswerTracked, FailureFreeAnswer, Answered
<1> QED
  BY AlwaysOnTrack, <1>1, PTL

(* Where a failure can end in one of two answers.  A citation whose status     *)
(* differs from that of a run without failures is NOT_FOUND only if the        *)
(* swallowed docket-entries query failed, or a stage failed and another        *)
(* resolved; and is WRONG_CASE only if a call of the caption investigation     *)
(* failed (verifier.py, _fetch_docs_for_docket,                                *)
(* _promote_to_incomplete_if_only_errored, _investigate_caption).  Where a     *)
(* failure may end in any other status (VERIFICATION_INCOMPLETE, a claim of    *)
(* another source) the theorem does not say.                                   *)
THEOREM LossAlwaysConfined == Spec => []LossIsConfined
<1>1. TInv => LossIsConfined
  <2> SUFFICES ASSUME SInv, NEW c \in Cite, OnTrack(c), Answered(c),
                      result[c].status # FailureFree(c).status
               PROVE  /\ result[c].status = "NOT_FOUND" =>
                           \/ "entries" \in failed[c]
                           \/ Has(path[c], "errored") /\ Has(path[c], "resolved")
                      /\ result[c].status = "WRONG_CASE"
                           => failed[c] \cap {"cluster", "docket", "text"} # {}
    BY DEF TInv, LossIsConfined
  <2>1. AnswerTracked(c) /\ AnswerSound(c) /\ Recorded(c) /\ pc[c] = "done"
    BY DEF OnTrack, SInv, CInv, Answered
  <2>2. CASE result[c].status = "NOT_FOUND"
    <3>1. failed[c] \cap StageCall # {} \/ "entries" \in failed[c]
      BY <2>1, <2>2 DEF AnswerTracked, Unhindered
    <3>2. failed[c] \cap StageCall # {} => Has(path[c], "errored") /\ Has(path[c], "resolved")
      BY <2>1, <2>2 DEF AnswerSound, Recorded
    <3> QED
      BY <2>2, <3>1, <3>2
  <2>3. CASE result[c].status = "WRONG_CASE"
    BY <2>1, <2>3 DEF AnswerTracked, CaptionCall
  <2> QED
    BY <2>2, <2>3
<1> QED
  BY AlwaysOnTrack, <1>1, PTL
=============================================================================
