----------------------------- MODULE MatchScore -----------------------------
(***************************************************************************)
(* verifier.py on numbers: the score of a search result against a parsed   *)
(* citation (_score_match), the gates a docket of RECAP passes first, and  *)
(* the document of a docket that is held to be the opinion cited.          *)
(*                                                                         *)
(* A score is an integer: 10000 stands for 1.0.  The weights are kept in   *)
(* 300ths, which makes every redistributed weight an integer.              *)
(***************************************************************************)
EXTENDS Integers, Sequences, FiniteSets, SequencesExt, FiniteSetsExt

CONSTANTS
    KnownCourt,     \* the district and circuit courts of court_map.py
    StateReporter,  \* families of reporters that print state courts
    GateYears,      \* _TEMPORAL_GATE_YEARS
    EraFloor        \* _RECAP_PACER_ERA_FLOOR

Threshold == 4000   \* _VERIFIED_SCORE_THRESHOLD

\* A cited reporter citation: volume and page as sequences of digits.
NoCite == [kind |-> "none", family |-> "", vol |-> <<>>, page |-> <<>>]
NoDocket == [form |-> "none", year |-> 0, type |-> "", serial |-> 0]
NoDate == <<0, 0, 0>>

\* A court as cited: by its id, an abbreviation, either of its bankruptcy
\* court, or a text that no table knows.
NoCourt == [form |-> "none", name |-> ""]

----------------------------------------------------------------------------
(* Courts *)

\* The id of a bankruptcy court is not in the table, "Bankr. S.D.N.Y." is
\* made from the district's.
CourtId(court) ==
    IF court.name \notin KnownCourt THEN <<>>
    ELSE CASE court.form \in {"id", "abbreviation"} -> <<"district", court.name>>
           [] court.form = "bankr" -> <<"bankruptcy", court.name>>
           [] OTHER -> <<>>

\* The id that the text of the citation is by itself.
RawId(court) ==
    IF court.form = "bankrId" THEN <<"bankruptcy", court.name>> ELSE <<court.form, court.name>>

FederalCourt(id) == id[1] \in {"district", "bankruptcy"} /\ id[2] \in KnownCourt

----------------------------------------------------------------------------
(* Docket numbers *)

\* Division, judges and leading zeros go; "C15-1228", "03 C 7956" and
\* "20-20720-Civ" are civil numbers, "CR15-1228" a criminal one.  "CV15-1228"
\* is left as it stands.
NormalDocket(d) ==
    CASE d.form \in {"plain", "prefix", "spaced", "suffix"} -> <<d.year, d.type, d.serial>>
      [] OTHER -> <<d.form, d.year, d.type, d.serial>>

DocketAgrees(c, r) ==
    c.docket # NoDocket /\ r.docket # NoDocket /\ NormalDocket(c.docket) = NormalDocket(r.docket)
DocketContradicts(c, r) ==
    c.docket # NoDocket /\ r.docket # NoDocket /\ NormalDocket(c.docket) # NormalDocket(r.docket)

----------------------------------------------------------------------------
(* Citations: the cited one is looked for in the text of the record's *)

\* As a part of the text: the volume may end another one, the page begin one.
FoundIn(cite, other) ==
    /\ cite.kind = other.kind /\ cite.family = other.family
    /\ IsSuffix(cite.vol, other.vol) /\ IsPrefix(cite.page, other.page)

CiteAgrees(c, r) == c.cite # NoCite /\ \E other \in r.cites : FoundIn(c.cite, other)

\* CONTRADICTED takes a witness of the same family.
CiteCheckOf(c, r) ==
    CASE c.cite = NoCite -> "NO_CITE_IN_INPUT"
      [] CiteAgrees(c, r) -> "CORROBORATED"
      [] OTHER -> IF \E other \in r.cites : other.family = c.cite.family
                  THEN "CONTRADICTED" ELSE "NOT_ON_RECORD"

----------------------------------------------------------------------------
(* Weights *)

\* What cannot be compared gives its weight to name, docket number and cite.
Lost(c) == (IF c.court = NoCourt THEN 20 ELSE 0) + (IF c.date[1] = 0 THEN 20 ELSE 0)
NameWeight(c) == (5 * (60 + Lost(c))) \div 2
SmallWeight(c) == (60 + Lost(c)) \div 4
CourtWeight(c) == IF c.court = NoCourt THEN 0 ELSE 60
DateWeight(c) == IF c.date[1] = 0 THEN 0 ELSE 60

\* A court with a federal id is compared by it, another by its text.
CourtAgrees(c, r) ==
    /\ c.court # NoCourt /\ r.court # <<>>
    /\ r.court = (IF CourtId(c.court) # <<>> THEN CourtId(c.court) ELSE RawId(c.court))

\* Percent of the date's weight: a date that is not on the record has none.
DatePart(c, d) ==
    LET years == IF c.date[1] > d[1] THEN c.date[1] - d[1] ELSE d[1] - c.date[1]
        sameYear == IF c.date[2] = 0 \/ d[2] = 0 THEN 100
                    ELSE IF c.date[2] # d[2] THEN 75
                    ELSE IF c.date[3] # 0 /\ d[3] # 0 /\ c.date[3] = d[3] THEN 100 ELSE 90
    IN  IF c.date[1] = 0 \/ d[1] = 0 THEN 0
        ELSE CASE years = 0 -> sameYear
               [] years = 1 -> 50
               [] OTHER -> 0

\* A caption that lacks one of the parties counts for a quarter, unless the
\* record carries the citation.
NamePart(c, r) == IF r.overlap \/ CiteAgrees(c, r) THEN 4 * r.sim ELSE r.sim

Sum(c, r, d) ==
    (NameWeight(c) * NamePart(c, r)) \div 4
    + (IF CourtAgrees(c, r) THEN 100 * CourtWeight(c) ELSE 0)
    + DatePart(c, d) * DateWeight(c)
    + (IF DocketAgrees(c, r) THEN 100 * SmallWeight(c) ELSE 0)
    + (IF CiteAgrees(c, r) THEN 100 * SmallWeight(c) ELSE 0)

\* Nothing vouches for a record of other parties or of another docket number.
Uncorroborated(c, r) ==
    /\ ~r.overlap \/ DocketContradicts(c, r)
    /\ ~CiteAgrees(c, r) /\ ~DocketAgrees(c, r)

\* Mutant: the cap is a value and no bound.
ScoreSet(c, r, d) ==
    IF Uncorroborated(c, r) THEN Threshold - 100 ELSE (Sum(c, r, d) + 1) \div 3

\* Rounded to four places.
Score(c, r, d) ==
    LET s == (Sum(c, r, d) + 1) \div 3
    IN  IF Uncorroborated(c, r) THEN Min({s, Threshold - 100}) ELSE s

----------------------------------------------------------------------------
(* The gates of RECAP *)

\* No federal docket holds a case of a state court.
StateCourt(c) ==
    \/ c.court # NoCourt /\ CourtId(c.court) = <<>> /\ ~FederalCourt(RawId(c.court))
    \/ c.cite.family \in StateReporter

\* No word in common, a citation long before the case was filed, or one from
\* before there were electronic dockets.
Gated(c, r) ==
    \/ ~r.shares
    \/ c.date[1] # 0 /\ r.filed # 0 /\ r.filed - c.date[1] > GateYears
    \/ c.date[1] # 0 /\ c.date[1] < EraFloor

----------------------------------------------------------------------------
(* The documents of a docket.  A description is how it begins and the       *)
(* kinds of words in it; the entry has one and the document may.            *)

NoDescription == [lead |-> "none", kinds |-> {}]
Ruling == {"opinion", "reasons", "order", "judgment"}

\* What begins as a filing is none of the court's.
Substantive(desc) == desc.lead = "none" /\ desc.kinds \cap Ruling # {}

\* Both descriptions in a row: without one of its own the document's begins
\* with a blank, and no lead is seen.
FullDescription(doc) ==
    [lead |-> IF doc.own = NoDescription THEN "none" ELSE doc.own.lead,
     kinds |-> doc.own.kinds \cup doc.entry.kinds]

\* Some document of the cited month, or year, that may be the ruling.
\* Mutant: any document of the cited year will do.
HasDateMatchOfYear(c, docs) ==
    c.date[1] # 0 /\ \E doc \in docs :
        doc.date[1] = c.date[1] /\ (Substantive(doc.own) \/ doc.free)
HasDateMatch(c, docs) ==
    c.date[1] # 0 /\ \E doc \in docs :
        /\ doc.date[1] = c.date[1]
        /\ c.date[2] # 0 /\ doc.date[2] # 0 => doc.date[2] = c.date[2]
        /\ Substantive(doc.own) \/ doc.free

\* The cited day, then the months around it, then the year.
DateRanges(c) ==
    LET y == c.date[1]  m == c.date[2]  d == c.date[3]
    IN  (IF m # 0 /\ d # 0 THEN <<[from |-> c.date, to |-> c.date]>> ELSE <<>>)
        \o (IF m # 0 THEN <<[from |-> <<y, Max({m - 1, 1}), 1>>,
                             to |-> <<y, Min({m + 1, 12}), 31>>]>> ELSE <<>>)
        \o <<[from |-> <<y, 1, 1>>, to |-> <<y, 12, 31>>]>>

\* In a calendar of months of thirty-one days.
DayNumber(d) == 372 * d[1] + 31 * (d[2] - 1) + d[3] - 1

\* get_docket_entries, page after page; a docket is taken to be below
\* MAX_DOCKET_ENTRIES.
EntriesIn(docket, range) ==
    {doc \in docket : /\ DayNumber(range.from) <= DayNumber(doc.date)
                      /\ DayNumber(doc.date) <= DayNumber(range.to)}

\* The first range that has a document; a query that fails is passed over.
Fetched(c, docket, failing) ==
    LET ranges == DateRanges(c)
        In(i) == IF i \in failing THEN {} ELSE EntriesIn(docket, ranges[i])
        Found == {i \in 1..Len(ranges) : In(i) # {}}
    IN  IF Found = {} THEN {} ELSE In(Min(Found))

\* What a search result brings of its docket, and what is fetched on top.
Considered(c, docs, docket, failing) ==
    IF HasDateMatch(c, docs) \/ c.date[1] = 0 THEN docs
    ELSE docs \cup Fetched(c, docket, failing)

\* 60ths, as fractions of thirty-one and of twelve do not mix: only the order
\* among documents of one score is asked for.
DateProximity(c, d) ==
    LET days == IF c.date[3] > d[3] THEN c.date[3] - d[3] ELSE d[3] - c.date[3]
        months == IF c.date[2] > d[2] THEN c.date[2] - d[2] ELSE d[2] - c.date[2]
    IN  IF c.date[1] = 0 \/ d[1] # c.date[1] \/ c.date[2] = 0 THEN 0
        ELSE IF months = 0 THEN IF c.date[3] # 0 THEN 1860 - 60 * days ELSE 930
        ELSE Max({0, 558 - 155 * months})

\* Tier and pages, up to fifty.
OpinionLikelihood(desc, free, pages) ==
    100 * (CASE desc.kinds \cap {"opinion"} # {} -> IF free THEN 3 ELSE 2
             [] desc.kinds \cap {"opinion"} = {} /\ desc.kinds \cap {"order", "reasons"} # {} ->
                    IF free THEN 2 ELSE 1
             [] OTHER -> IF free THEN 1 ELSE 0)
    + Min({pages, 50})

\* Rulings and free documents first, any document if there are none; then by
\* score, date and likelihood.
Pool(docs) ==
    LET likely == {doc \in docs : Substantive(FullDescription(doc)) \/ doc.free}
    IN  IF likely = {} THEN docs ELSE likely

Rank(c, r, doc) ==
    <<Score(c, r, doc.date), DateProximity(c, doc.date),
      OpinionLikelihood(FullDescription(doc), doc.free, doc.pages)>>

Better(a, b) ==
    \/ a[1] > b[1]
    \/ a[1] = b[1] /\ a[2] > b[2]
    \/ a[1] = b[1] /\ a[2] = b[2] /\ a[3] >= b[3]

\* The first of the best: one of them here.
BestDocs(c, r, docs) ==
    {doc \in Pool(docs) : \A other \in Pool(docs) : Better(Rank(c, r, doc), Rank(c, r, other))}

\* Two weeks around the cited date, June and the fifteenth if it has less.
WithinWindow(c, d) ==
    LET cited == DayNumber(<<c.date[1], IF c.date[2] = 0 THEN 6 ELSE c.date[2],
                             IF c.date[3] = 0 THEN 15 ELSE c.date[3]>>)
    IN  c.date[1] # 0 /\ d # NoDate
        /\ DayNumber(d) - cited \in -14..14

\* Shown as the opinion cited, by a description that is no filing's.
Shown(doc) == IF doc.entry = NoDescription THEN doc.own ELSE doc.entry
CitedOpinion(c, doc, cited) ==
    /\ Shown(doc).lead # "motion" /\ "procedural" \notin Shown(doc).kinds
    /\ \/ cited
       \/ Shown(doc).kinds \cap {"opinion", "reasons"} # {} /\ WithinWindow(c, doc.date)
       \/ doc.pages >= 5 /\ doc.free

\* A docket without documents: discounted.
DocketOnly(c, r) == (6 * Score(c, r, NoDate) + 5) \div 10

\* A docket of the response: gated, or its best document, or itself.
OfRecap(c, r, docs, docket, failing) ==
    IF StateCourt(c) \/ Gated(c, r) THEN {}
    ELSE LET all == Considered(c, docs, docket, failing)
         IN  IF all = {} THEN {[doc |-> "none", score |-> DocketOnly(c, r)]}
             ELSE {[doc |-> doc, score |-> Score(c, r, doc.date)] : doc \in BestDocs(c, r, all)}

----------------------------------------------------------------------------
(* Properties *)

\* A record that agrees in more with the citation, and in nothing less, never
\* scores lower: not by the cap, the penalty or the weights.
AgreementNeverHurts(c, r, s) ==
    /\ r.sim <= s.sim
    /\ r.overlap => s.overlap
    /\ CourtAgrees(c, r) => CourtAgrees(c, s)
    /\ DatePart(c, r.date) <= DatePart(c, s.date)
    /\ DocketAgrees(c, r) => DocketAgrees(c, s)
    /\ DocketContradicts(c, s) => DocketContradicts(c, r)
    /\ CiteAgrees(c, r) => CiteAgrees(c, s)
    => Score(c, r, r.date) <= Score(c, s, s.date)

\* If the docket holds a ruling of the very day cited, then the document shown
\* is of that day, and is a ruling or free: neither the filing of that day nor
\* a document of another is shown in the ruling's place, though a free document
\* of that day may be.  Either the search brought that ruling, or it brought
\* nothing of the cited month that may be one, and the query for the day works.
ExactDateShown(c, r, docs, docket, failing) ==
    LET exact == {doc \in docket : doc.date = c.date /\ Substantive(doc.own)}
        inMonth == {doc \in docs : doc.date[1] = c.date[1] /\ doc.date[2] \in {0, c.date[2]}}
    IN  /\ c.date[2] # 0 /\ c.date[3] # 0 /\ exact # {}
        /\ \/ exact \cap docs # {}
           \/ 1 \notin failing /\ \A doc \in inMonth : ~Substantive(doc.own) /\ ~doc.free
        => \A best \in OfRecap(c, r, docs, docket, failing) :
               /\ best.doc.date = c.date
               /\ Substantive(FullDescription(best.doc)) \/ best.doc.free
=============================================================================
