---------------------- MODULE PropositionPipeline_proofs ----------------------
(***************************************************************************)
(* Proofs about PropositionPipeline, for any claims, citations, cases and  *)
(* quotations, any number of agents, kills and reruns.                     *)
(***************************************************************************)
EXTENDS PropositionPipeline, FiniteSetTheorems, SequenceTheorems, WellFoundedInduction, TLAPS

-----------------------------------------------------------------------------
(* The chain of `full` *)

LEMMA FollowingIs ==
  /\ ~chain => \A verb : Following(verb) = "idle"
  /\ chain =>
       /\ Following("extract") = "verify" /\ Following("verify") = "merge"
       /\ Following("merge") = "check_quotes" /\ Following("check_quotes") = "crosscheck"
       /\ Following("crosscheck") = "triage" /\ Following("triage") = "assess"
       /\ Following("assess") = "apply" /\ Following("apply") = "report"
<1>1. /\ DOMAIN Chain = 1..9 /\ Last(Chain) = "report"
      /\ Chain[1] = "extract" /\ Chain[2] = "verify" /\ Chain[3] = "merge"
      /\ Chain[4] = "check_quotes" /\ Chain[5] = "crosscheck" /\ Chain[6] = "triage"
      /\ Chain[7] = "assess" /\ Chain[8] = "apply" /\ Chain[9] = "report"
  BY DEF Chain, Last
<1>2. \A i \in 1..9 : i \in {1, 2, 3, 4, 5, 6, 7, 8, 9}
  OBVIOUS
<1>3. ASSUME NEW n \in 1..8
      PROVE  (CHOOSE i \in DOMAIN Chain : Chain[i] = Chain[n]) = n
  <2>1. \A i \in 1..9 : Chain[i] = Chain[n] => i = n
    BY <1>1, <1>2
  <2>2. n \in DOMAIN Chain
    BY <1>1
  <2> QED
    BY <1>1, <2>1, <2>2
<1>4. chain => \A n \in 1..8 : Following(Chain[n]) = Chain[n + 1]
  <2> SUFFICES ASSUME chain, NEW n \in 1..8
               PROVE  Following(Chain[n]) = Chain[n + 1]
    OBVIOUS
  <2>1. Chain[n] # Last(Chain)
    BY <1>1, <1>2
  <2> QED
    BY <1>3, <2>1 DEF Following
<1>5. ~chain => \A verb : Following(verb) = "idle"
  BY DEF Following
<1>6. chain =>
       /\ Following("extract") = "verify" /\ Following("verify") = "merge"
       /\ Following("merge") = "check_quotes" /\ Following("check_quotes") = "crosscheck"
       /\ Following("crosscheck") = "triage" /\ Following("triage") = "assess"
       /\ Following("assess") = "apply" /\ Following("apply") = "report"
  <2> SUFFICES ASSUME chain
               PROVE  \A n \in {1, 2, 3, 4, 5, 6, 7, 8} : Following(Chain[n]) = Chain[n + 1]
    BY <1>1
  <2> QED
    BY <1>4
<1> QED
  BY <1>5, <1>6

(* A verb that returns ends the call, or hands over to the next one. *)
GoesOn(verb) == chain /\ pc' = verb /\ UNCHANGED callVars

LEMMA Returns ==
  /\ Return("extract") => Stop \/ GoesOn("verify")
  /\ Return("verify") => Stop \/ GoesOn("merge")
  /\ Return("merge") => Stop \/ GoesOn("check_quotes")
  /\ Return("check_quotes") => Stop \/ GoesOn("crosscheck")
  /\ Return("crosscheck") => Stop \/ GoesOn("triage")
  /\ Return("triage") => Stop \/ GoesOn("assess")
  /\ Return("assess") => Stop \/ GoesOn("apply")
  /\ Return("apply") => Stop \/ GoesOn("report")
BY FollowingIs DEF Return, GoesOn

-----------------------------------------------------------------------------
(* The steps *)

Early == {"extract", "citations_toa", "citations_body", "verify", "wave1", "downloads1",
          "wave2", "downloads2"}

(* Extraction and verification: they write claims.csv at once or not at all. *)
EarlyStep ==
  /\ pc \in Early /\ UNCHANGED assessVars
  /\ Stop \/ (UNCHANGED chain /\ pc' \in Early \cup {"merge"})
  /\ ExtractWrites \/ UNCHANGED claims

(* A call from the command line, of a verb or of `full`. *)
Called ==
  /\ pc = "idle" /\ UNCHANGED <<fileVars, assessVars>>
  /\ chain' = FALSE \/ pc' \in Early

(* What agents and kills do to the files that are not theirs: nothing. *)
Aside ==
  /\ UNCHANGED <<exists, claims, toa, body, vr, opinions, report>>
  /\ Stop \/ UNCHANGED <<pc, callVars>>

LEMMA StepCases ==
  ASSUME [Next]_vars
  PROVE  \/ EarlyStep \/ Called \/ Aside
         \/ Merge /\ UNCHANGED assessVars
         \/ CheckQuotes \/ RunCrosscheck \/ RunTriage
         \/ Assess \/ ApplyAssessments \/ WriteReport
<1>1. ASSUME UNCHANGED assessVars,
             ExtractDone \/ ExtractAsks \/ ExtractWrites \/ ExtractToa \/ ExtractBody
      PROVE  EarlyStep
  <2>1. pc \in Early /\ (ExtractWrites \/ UNCHANGED claims)
    BY <1>1 DEF ExtractDone, ExtractAsks, ExtractWrites, ExtractToa, ExtractBody, Early, fileVars
  <2>2. Stop \/ (UNCHANGED chain /\ pc' \in Early)
    BY <1>1, Returns DEF ExtractDone, ExtractAsks, ExtractWrites, ExtractToa, ExtractBody,
       Early, GoesOn, callVars
  <2> QED
    BY <1>1, <2>1, <2>2 DEF EarlyStep
<1>2. ASSUME UNCHANGED assessVars,
             \/ VerifyDone \/ VerifyStarts \/ Wave1 \/ Download \/ WriteResults
             \/ Wave2 \/ AppendResults
      PROVE  EarlyStep
  <2>1. pc \in Early /\ UNCHANGED claims
    BY <1>2 DEF VerifyDone, VerifyStarts, Wave1, Download, WriteResults, Wave2, AppendResults,
       Early, fileVars
  <2>2. Stop \/ (UNCHANGED chain /\ pc' \in Early \cup {"merge"})
    BY <1>2, Returns DEF VerifyDone, VerifyStarts, Wave1, Download, WriteResults, Wave2,
       AppendResults, Early, GoesOn, callVars
  <2> QED
    BY <1>2, <2>1, <2>2 DEF EarlyStep
<1>3. ASSUME NEW verb, NEW whole \in BOOLEAN, NEW again, Call(verb, whole, again),
             UNCHANGED assessVars, whole => verb \in {"extract", "verify"}
      PROVE  Called
  BY <1>3 DEF Call, Called, Early
<1>4. ASSUME Killed
      PROVE  Aside
  BY <1>4 DEF Killed, Kill, Aside, fileVars, assessVars
<1>5. ASSUME UNCHANGED vars
      PROVE  Aside
  BY <1>5 DEF vars, workVars, fileVars, assessVars, Aside
<1>6. ASSUME ExtractAgent
      PROVE  Aside
  BY <1>6 DEF ExtractAgent, ExtractAnswered, Aside, assessVars
<1>7. ASSUME Agent
      PROVE  Aside
  BY <1>7 DEF Agent, AgentReads, AgentSubmits, Aside, workVars, fileVars
<1>8. CASE RunFull
  BY <1>3, <1>8 DEF RunFull
<1>9. CASE RunVerb
  BY <1>3, <1>9 DEF RunVerb
<1>10. CASE VerbStep
  BY <1>1, <1>2, <1>10 DEF VerbStep
<1> QED
  BY <1>4, <1>5, <1>6, <1>7, <1>8, <1>9, <1>10 DEF Next


-----------------------------------------------------------------------------
(* Rows, and what each verb does to one *)

IsRow(row) ==
  row = [cited |-> row.cited, status |-> row.status, match |-> row.match,
         opinion |-> row.opinion, worst |-> row.worst, floor |-> row.floor,
         flagged |-> row.flagged, track |-> row.track, assessment |-> row.assessment]

RowsOK == \A c \in DOMAIN claims : IsRow(claims[c])

(* The columns a verb writes, and the others stay. *)
LEMMA NewRowIs ==
  ASSUME NEW cite
  PROVE  /\ IsRow(NewRow(cite))
         /\ NewRow(cite).cited = cite /\ NewRow(cite).match = NoCase
         /\ NewRow(cite).opinion = NoName /\ NewRow(cite).assessment = ""
BY DEF NewRow, IsRow

LEMMA MergedIs ==
  ASSUME NEW row, IsRow(row)
  PROVE  Merged(row) =
           [cited |-> row.cited, status |-> LookedUp(row.cited).status,
            match |-> LookedUp(row.cited).match,
            opinion |-> Linked(row.cited, LookedUp(row.cited).match),
            worst |-> row.worst, floor |-> row.floor, flagged |-> row.flagged,
            track |-> row.track, assessment |-> row.assessment]
<1> DEFINE found == LookedUp(row.cited)
<1>1. Merged(row) = [row EXCEPT !.status = found.status, !.match = found.match,
                                !.opinion = Linked(row.cited, found.match)]
  BY DEF Merged
<1> HIDE DEF found
<1>2. Merged(row) =
           [cited |-> row.cited, status |-> found.status,
            match |-> found.match,
            opinion |-> Linked(row.cited, found.match),
            worst |-> row.worst, floor |-> row.floor, flagged |-> row.flagged,
            track |-> row.track, assessment |-> row.assessment]
  BY <1>1 DEF IsRow
<1> QED
  BY <1>2 DEF found

Worst(c, row) ==
  IF ~Quoted[c] THEN "NO_QUOTES"
  ELSE IF Text(row) \in {NoCase} \cup Unreadable THEN "NO_OPINION"
  ELSE QuoteWorst(QuoteCheck[c][Text(row)])

Floor(c, row) ==
  IF ~Quoted[c] \/ Text(row) \in {NoCase} \cup Unreadable THEN ""
  ELSE QuoteFloor(QuoteCheck[c][Text(row)])

LEMMA CheckedIs ==
  ASSUME NEW c, NEW row, IsRow(row)
  PROVE  QuotesChecked(c, row) =
           [cited |-> row.cited, status |-> row.status, match |-> row.match,
            opinion |-> row.opinion, worst |-> Worst(c, row), floor |-> Floor(c, row),
            flagged |-> row.flagged, track |-> row.track, assessment |-> row.assessment]
<1>1. QuotesChecked(c, row) = [row EXCEPT !.worst = Worst(c, row), !.floor = Floor(c, row)]
  BY DEF QuotesChecked, Worst, Floor
<1> QED
  BY <1>1 DEF IsRow

Flagged(row) ==
  \/ ToaMismatch(row.cited)
  \/ <<row.cited, LookedUp(row.cited).match>> \in OtherCourt
  \/ <<row.cited, Text(row)>> \in BadPincite

LEMMA CrossIs ==
  ASSUME NEW c, NEW row, IsRow(row)
  PROVE  CrossChecked(c, row) =
           [cited |-> row.cited, status |-> row.status, match |-> row.match,
            opinion |-> row.opinion, worst |-> row.worst, floor |-> row.floor,
            flagged |-> Flagged(row), track |-> row.track, assessment |-> row.assessment]
<1>1. CrossChecked(c, row) = [row EXCEPT !.flagged = Flagged(row)]
  BY DEF CrossChecked, Flagged
<1> HIDE DEF Flagged
<1> QED
  BY <1>1 DEF IsRow

LEMMA TriagedIs ==
  ASSUME NEW c, NEW row, IsRow(row)
  PROVE  Triaged(c, row) =
           [cited |-> row.cited, status |-> row.status, match |-> row.match,
            opinion |-> row.opinion, worst |-> row.worst, floor |-> row.floor,
            flagged |-> row.flagged, track |-> TrackFor(c, row), assessment |-> row.assessment]
BY DEF Triaged, IsRow

LEMMA AppliedIs ==
  ASSUME NEW c, NEW row, IsRow(row)
  PROVE  Applied(c, row) =
           [cited |-> row.cited, status |-> row.status, match |-> row.match,
            opinion |-> row.opinion, worst |-> row.worst, floor |-> row.floor,
            flagged |-> row.flagged, track |-> row.track,
            assessment |-> Applied(c, row).assessment]
<1>1. CASE Applied(c, row) = row
  BY <1>1 DEF IsRow
<1>2. CASE Applied(c, row) # row
  <2> DEFINE color == Floored(ColorOf(row, VerdictOn(c).answer), row.floor)
  <2>1. Applied(c, row) = [row EXCEPT !.assessment = color]
    BY <1>2 DEF Applied
  <2> HIDE DEF color
  <2> QED
    BY <2>1 DEF IsRow
<1> QED
  BY <1>1, <1>2

(* A row whose columns are those that a verb would write again. *)
LinkedRow(row) ==
  /\ row.status = LookedUp(row.cited).status /\ row.match = LookedUp(row.cited).match
  /\ row.opinion = Linked(row.cited, row.match)

CheckedRow(c, row) == row.worst = Worst(c, row) /\ row.floor = Floor(c, row)

LEMMA Fixpoints ==
  ASSUME NEW c, NEW row, IsRow(row)
  PROVE  /\ LinkedRow(row) => Merged(row) = row
         /\ CheckedRow(c, row) => QuotesChecked(c, row) = row
         /\ row.flagged = Flagged(row) => CrossChecked(c, row) = row
         /\ row.track = TrackFor(c, row) => Triaged(c, row) = row
<1>1. LinkedRow(row) => Merged(row) = row
  BY MergedIs DEF LinkedRow, IsRow
<1>2. CheckedRow(c, row) => QuotesChecked(c, row) = row
  BY CheckedIs DEF CheckedRow, IsRow
<1>3. row.flagged = Flagged(row) => CrossChecked(c, row) = row
  <2> HIDE DEF Flagged
  <2> QED
    BY CrossIs DEF IsRow
<1>4. row.track = TrackFor(c, row) => Triaged(c, row) = row
  BY TriagedIs DEF IsRow
<1> QED
  BY <1>1, <1>2, <1>3, <1>4

(* How far `full` has come with a row. *)
After(verb) ==
  CASE verb = "merge" -> {"check_quotes", "crosscheck", "triage", "assess", "apply", "report"}
    [] verb = "check_quotes" -> {"crosscheck", "triage", "assess", "apply", "report"}
    [] verb = "crosscheck" -> {"triage", "assess", "apply", "report"}
    [] verb = "triage" -> {"assess", "apply", "report"}

Stable(c, row, at) ==
  /\ at \in After("merge") => LinkedRow(row)
  /\ at \in After("check_quotes") => CheckedRow(c, row)
  /\ at \in After("crosscheck") => row.flagged = Flagged(row)
  /\ at \in After("triage") => row.track = TrackFor(c, row)

StableInv ==
  chain => \A at \in {pc}, c \in DOMAIN claims : \A row \in {claims[c]} : Stable(c, row, at)

LEMMA MergedStable ==
  ASSUME NEW c, NEW row, IsRow(row)
  PROVE  IsRow(Merged(row)) /\ Stable(c, Merged(row), "check_quotes")
BY MergedIs DEF IsRow, Stable, LinkedRow, After

LEMMA CheckedStable ==
  ASSUME NEW c, NEW row, IsRow(row), Stable(c, row, "check_quotes")
  PROVE  IsRow(QuotesChecked(c, row)) /\ Stable(c, QuotesChecked(c, row), "crosscheck")
<1> DEFINE new == QuotesChecked(c, row)
<1>1. /\ IsRow(new) /\ new.cited = row.cited /\ new.status = row.status
      /\ new.match = row.match /\ new.opinion = row.opinion
      /\ new.worst = Worst(c, row) /\ new.floor = Floor(c, row)
  BY CheckedIs DEF IsRow
<1> HIDE DEF new
<1>2. LinkedRow(row)
  BY DEF Stable, After
<1>3. LinkedRow(new)
  BY <1>1, <1>2 DEF LinkedRow
<1>4. Text(new) = Text(row)
  BY <1>1 DEF Text
<1>5. CheckedRow(c, new)
  BY <1>1, <1>4 DEF CheckedRow, Worst, Floor
<1>6. Stable(c, new, "crosscheck")
  BY <1>3, <1>5 DEF Stable, After
<1> QED
  BY <1>1, <1>6 DEF new

LEMMA CrossStable ==
  ASSUME NEW c, NEW row, IsRow(row), Stable(c, row, "crosscheck")
  PROVE  IsRow(CrossChecked(c, row)) /\ Stable(c, CrossChecked(c, row), "triage")
<1> DEFINE new == CrossChecked(c, row)
<1> HIDE DEF Flagged
<1>1. /\ IsRow(new) /\ new.cited = row.cited /\ new.status = row.status
      /\ new.match = row.match /\ new.opinion = row.opinion
      /\ new.worst = row.worst /\ new.floor = row.floor /\ new.flagged = Flagged(row)
  BY CrossIs DEF IsRow
<1> HIDE DEF new
<1>2. LinkedRow(row) /\ CheckedRow(c, row)
  BY DEF Stable, After
<1>3. Text(new) = Text(row)
  BY <1>1 DEF Text
<1>4. LinkedRow(new)
  BY <1>1, <1>2 DEF LinkedRow
<1>5. CheckedRow(c, new)
  BY <1>1, <1>2, <1>3 DEF CheckedRow, Worst, Floor
<1>6. Flagged(new) = Flagged(row)
  BY <1>1, <1>3 DEF Flagged
<1>7. Stable(c, new, "triage")
  BY <1>1, <1>4, <1>5, <1>6 DEF Stable, After
<1> QED
  BY <1>1, <1>7 DEF new

LEMMA TriagedStable ==
  ASSUME NEW c, NEW row, IsRow(row), Stable(c, row, "triage")
  PROVE  IsRow(Triaged(c, row)) /\ Stable(c, Triaged(c, row), "assess")
<1> DEFINE new == Triaged(c, row)
<1> HIDE DEF Flagged
<1>1. /\ IsRow(new) /\ new.cited = row.cited /\ new.status = row.status
      /\ new.match = row.match /\ new.opinion = row.opinion
      /\ new.worst = row.worst /\ new.floor = row.floor /\ new.flagged = row.flagged
      /\ new.track = TrackFor(c, row)
  BY TriagedIs DEF IsRow
<1> HIDE DEF new
<1>2. LinkedRow(row) /\ CheckedRow(c, row) /\ row.flagged = Flagged(row)
  BY DEF Stable, After
<1>3. Text(new) = Text(row)
  BY <1>1 DEF Text
<1>4. LinkedRow(new)
  BY <1>1, <1>2 DEF LinkedRow
<1>5. CheckedRow(c, new)
  BY <1>1, <1>2, <1>3 DEF CheckedRow, Worst, Floor
<1>6. Flagged(new) = Flagged(row)
  BY <1>1, <1>3 DEF Flagged
<1>7. TrackFor(c, new) = TrackFor(c, row)
  BY <1>1 DEF TrackFor, Assessable
<1>8. Stable(c, new, "assess")
  BY <1>1, <1>2, <1>4, <1>5, <1>6, <1>7 DEF Stable, After
<1> QED
  BY <1>1, <1>8 DEF new

LEMMA AppliedStable ==
  ASSUME NEW c, NEW row, IsRow(row), Stable(c, row, "apply")
  PROVE  IsRow(Applied(c, row)) /\ Stable(c, Applied(c, row), "report")
<1> DEFINE new == Applied(c, row)
<1> HIDE DEF Flagged
<1>1. /\ IsRow(new) /\ new.cited = row.cited /\ new.status = row.status
      /\ new.match = row.match /\ new.opinion = row.opinion
      /\ new.worst = row.worst /\ new.floor = row.floor /\ new.flagged = row.flagged
      /\ new.track = row.track
  BY AppliedIs DEF IsRow
<1> HIDE DEF new
<1>2. LinkedRow(row) /\ CheckedRow(c, row) /\ row.flagged = Flagged(row)
      /\ row.track = TrackFor(c, row)
  BY DEF Stable, After
<1>3. Text(new) = Text(row)
  BY <1>1 DEF Text
<1>4. LinkedRow(new)
  BY <1>1, <1>2 DEF LinkedRow
<1>5. CheckedRow(c, new)
  BY <1>1, <1>2, <1>3 DEF CheckedRow, Worst, Floor
<1>6. Flagged(new) = Flagged(row)
  BY <1>1, <1>3 DEF Flagged
<1>7. TrackFor(c, new) = TrackFor(c, row)
  BY <1>1 DEF TrackFor, Assessable
<1>8. Stable(c, new, "report")
  BY <1>1, <1>2, <1>4, <1>5, <1>6, <1>7 DEF Stable, After
<1> QED
  BY <1>1, <1>8 DEF new

-----------------------------------------------------------------------------
(* What the rows depend on *)

LEMMA LookedUpFrame ==
  ASSUME vr' = vr
  PROVE  \A cite : LookedUp(cite)' = LookedUp(cite)
<1>1. \A cite : WavesFor(cite)' = WavesFor(cite)
  BY DEF WavesFor, RowsFor
<1>2. \A cite, w : RowsFor(cite, w)' = RowsFor(cite, w)
  BY DEF RowsFor
<1> QED
  BY <1>1, <1>2 DEF LookedUp

LEMMA LinkedFrame ==
  ASSUME opinions' = opinions
  PROVE  \A cite, match : Linked(cite, match)' = Linked(cite, match)
<1>1. \A name : Closest(name)' = Closest(name)
  BY DEF Closest, Stored
<1>2. \A name : FileLike(name)' = FileLike(name)
  BY <1>1 DEF FileLike
<1> QED
  BY <1>1, <1>2 DEF Linked

LEMMA StableFrame ==
  ASSUME UNCHANGED <<vr, opinions, toa, body>>
  PROVE  \A at, c, row : Stable(c, row, at) => Stable(c, row, at)'
<1>1. \A row : LinkedRow(row)' = LinkedRow(row)
  BY LookedUpFrame, LinkedFrame DEF LinkedRow
<1>2. \A row : Text(row)' = Text(row)
  BY DEF Text
<1>3. \A c, row : CheckedRow(c, row)' = CheckedRow(c, row)
  BY <1>2 DEF CheckedRow, Worst, Floor
<1>4. \A cite : ToaMismatch(cite)' = ToaMismatch(cite)
  BY DEF ToaMismatch
<1>5. \A row : Flagged(row)' = Flagged(row)
  BY <1>2, <1>4, LookedUpFrame DEF Flagged
<1>6. \A c, row : TrackFor(c, row)' = TrackFor(c, row)
  BY DEF TrackFor, Assessable
<1> QED
  BY <1>1, <1>3, <1>5, <1>6 DEF Stable

-----------------------------------------------------------------------------
(* FullIsIdempotent *)

FullInv == RowsOK /\ StableInv

(* The rows are rewritten by one verb: what it makes of each is stable at  *)
(* the verb it hands over to.                                              *)
LEMMA Rewritten ==
  ASSUME FullInv, UNCHANGED <<vr, opinions, toa, body>>,
         NEW verb, NEW next, NEW rows, claims' = rows, DOMAIN rows = DOMAIN claims,
         pc = verb, Stop \/ (chain /\ pc' = next),
         \A c \in DOMAIN claims : /\ IsRow(rows[c])
                                  /\ chain => Stable(c, rows[c], next)
  PROVE  FullInv'
<1>1. RowsOK'
  BY DEF RowsOK, IsRow
<1>2. StableInv'
  <2> SUFFICES ASSUME chain', NEW at \in {pc'}, NEW c \in DOMAIN claims',
                      NEW row \in {claims'[c]}
               PROVE  Stable(c, row, at)'
    BY DEF StableInv
  <2>1. chain /\ at = next
    BY DEF Stop
  <2>2. Stable(c, row, at)
    BY <2>1
  <2> QED
    BY <2>2, StableFrame
<1> QED
  BY <1>1, <1>2 DEF FullInv

(* The rows stay: they are as stable as they were where `full` goes on.    *)
LEMMA RowsStay ==
  ASSUME FullInv, UNCHANGED <<claims, vr, opinions, toa, body>>,
         \/ Stop
         \/ UNCHANGED <<pc, chain>>
         \/ pc = "assess" /\ pc' = "apply" /\ UNCHANGED chain
  PROVE  FullInv'
<1>1. RowsOK'
  BY DEF RowsOK, IsRow, FullInv
<1>2. StableInv'
  <2> SUFFICES ASSUME chain', NEW at \in {pc'}, NEW c \in DOMAIN claims',
                      NEW row \in {claims'[c]}
               PROVE  Stable(c, row, at)'
    BY DEF StableInv
  <2>1. chain /\ (pc' = pc \/ (pc = "assess" /\ pc' = "apply"))
    BY DEF Stop
  <2>2. Stable(c, row, pc)
    BY <2>1 DEF FullInv, StableInv
  <2>3. Stable(c, row, at)
    BY <2>1, <2>2 DEF Stable, After
  <2> QED
    BY <2>3, StableFrame
<1> QED
  BY <1>1, <1>2 DEF FullInv

(* Before the merge nothing is claimed of a row. *)
LEMMA EarlyStable ==
  ASSUME RowsOK', chain' => pc' \in Early \cup {"merge"}
  PROVE  FullInv'
<1> SUFFICES ASSUME NEW at \in {pc'}, chain', NEW c, NEW row
             PROVE  Stable(c, row, at)'
  BY DEF FullInv, StableInv
<1> QED
  BY DEF Stable, After, Early

LEMMA FullStep == FullInv /\ [Next]_vars => FullInv'
<1> SUFFICES ASSUME FullInv, [Next]_vars
             PROVE  FullInv'
  OBVIOUS
<1> USE DEF FullInv
<1>1. CASE EarlyStep
  <2>1. ASSUME ExtractWrites PROVE RowsOK'
    <3>1. CASE UNCHANGED claims
      BY <3>1 DEF RowsOK, IsRow
    <3>2. CASE claims' = [c \in Claim |-> NewRow(answer'.claims[c])]
      <4>1. \A cite : NewRow(cite) = NewRow(cite)' /\ IsRow(NewRow(cite))
        BY NewRowIs DEF NewRow
      <4>2. \A c \in DOMAIN claims' : claims'[c] = NewRow(answer'.claims[c])
        BY <3>2
      <4>3. \A c \in DOMAIN claims' : IsRow(claims'[c])
        BY <4>1, <4>2
      <4> QED
        BY <4>3 DEF RowsOK, IsRow
    <3> QED
      BY <2>1, <3>1, <3>2 DEF ExtractWrites
  <2>2. RowsOK'
    BY <1>1, <2>1 DEF EarlyStep, RowsOK, IsRow
  <2>3. chain' => pc' \in Early \cup {"merge"}
    BY <1>1 DEF EarlyStep, Stop
  <2> QED
    BY <2>2, <2>3, EarlyStable
<1>2. CASE Called
  <2>1. RowsOK'
    BY <1>2 DEF Called, fileVars, RowsOK, IsRow
  <2> QED
    BY <1>2, <2>1, EarlyStable DEF Called
<1>3. CASE Aside
  BY <1>3, RowsStay DEF Aside, callVars
<1>4. CASE Merge
  <2>1. CASE claims' = [c \in DOMAIN claims |-> Merged(claims[c])] /\ Return("merge")
    <3>1. Stop \/ (chain /\ pc' = "check_quotes")
      BY <2>1, Returns DEF GoesOn
    <3>2. \A c \in DOMAIN claims : IsRow(Merged(claims[c]))
                                   /\ Stable(c, Merged(claims[c]), "check_quotes")
      BY MergedStable DEF RowsOK
    <3> DEFINE rows == [c \in DOMAIN claims |-> Merged(claims[c])]
    <3>3. DOMAIN rows = DOMAIN claims /\ \A c \in DOMAIN claims : rows[c] = Merged(claims[c])
      OBVIOUS
    <3>4. claims' = rows
      BY <2>1
    <3>5. pc = "merge" /\ UNCHANGED <<vr, opinions, toa, body>>
      BY <1>4 DEF Merge
    <3> HIDE DEF rows, FullInv
    <3>6. FullInv
      BY DEF FullInv
    <3> QED
      BY <3>1, <3>2, <3>3, <3>4, <3>5, <3>6, Rewritten
  <2>2. CASE Stop /\ UNCHANGED claims
    BY <1>4, <2>2, RowsStay DEF Merge
  <2> QED
    BY <1>4, <2>1, <2>2 DEF Merge
<1>5. CASE CheckQuotes
  <2> DEFINE rows == [c \in DOMAIN claims |-> QuotesChecked(c, claims[c])]
  <2>1. Rewrite("check_quotes", rows)
    BY <1>5 DEF CheckQuotes
  <2>2. CASE claims' = rows /\ Return("check_quotes")
    <3>1. Stop \/ (chain /\ pc' = "crosscheck")
      BY <2>2, Returns DEF GoesOn
    <3>2. pc = "check_quotes" /\ UNCHANGED <<vr, opinions, toa, body>>
      BY <2>1 DEF Rewrite
    <3>3. \A c \in DOMAIN claims :
            /\ IsRow(QuotesChecked(c, claims[c]))
            /\ chain => Stable(c, QuotesChecked(c, claims[c]), "crosscheck")
      <4> SUFFICES ASSUME NEW c \in DOMAIN claims
                   PROVE  /\ IsRow(QuotesChecked(c, claims[c]))
                          /\ chain => Stable(c, QuotesChecked(c, claims[c]), "crosscheck")
        OBVIOUS
      <4>1. IsRow(claims[c]) /\ (chain => Stable(c, claims[c], "check_quotes"))
        BY <3>2 DEF RowsOK, StableInv
      <4>2. IsRow(QuotesChecked(c, claims[c]))
        <5>1. \A row : IsRow(row) => IsRow(QuotesChecked(c, row))
          BY CheckedIs DEF IsRow
        <5> QED
          BY <4>1, <5>1
      <4> QED
        BY <4>1, <4>2, CheckedStable
    <3>4. DOMAIN rows = DOMAIN claims
          /\ \A c \in DOMAIN claims : rows[c] = QuotesChecked(c, claims[c])
      OBVIOUS
    <3> HIDE DEF rows, FullInv
    <3>5. FullInv
      BY DEF FullInv
    <3> QED
      BY <2>2, <3>1, <3>2, <3>3, <3>4, <3>5, Rewritten
  <2>3. CASE Stop /\ UNCHANGED claims
    BY <2>1, <2>3, RowsStay DEF Rewrite
  <2> QED
    BY <2>1, <2>2, <2>3 DEF Rewrite
<1>6. CASE RunCrosscheck
  <2> DEFINE rows == [c \in DOMAIN claims |-> CrossChecked(c, claims[c])]
  <2>1. Rewrite("crosscheck", rows)
    BY <1>6 DEF RunCrosscheck
  <2>2. CASE claims' = rows /\ Return("crosscheck")
    <3>1. Stop \/ (chain /\ pc' = "triage")
      BY <2>2, Returns DEF GoesOn
    <3>2. pc = "crosscheck" /\ UNCHANGED <<vr, opinions, toa, body>>
      BY <2>1 DEF Rewrite
    <3>3. \A c \in DOMAIN claims :
            /\ IsRow(CrossChecked(c, claims[c]))
            /\ chain => Stable(c, CrossChecked(c, claims[c]), "triage")
      <4> SUFFICES ASSUME NEW c \in DOMAIN claims
                   PROVE  /\ IsRow(CrossChecked(c, claims[c]))
                          /\ chain => Stable(c, CrossChecked(c, claims[c]), "triage")
        OBVIOUS
      <4>1. IsRow(claims[c]) /\ (chain => Stable(c, claims[c], "crosscheck"))
        BY <3>2 DEF RowsOK, StableInv
      <4>2. IsRow(CrossChecked(c, claims[c]))
        <5>1. \A row : IsRow(row) => IsRow(CrossChecked(c, row))
          BY CrossIs DEF IsRow
        <5> QED
          BY <4>1, <5>1
      <4> QED
        BY <4>1, <4>2, CrossStable
    <3>4. DOMAIN rows = DOMAIN claims
          /\ \A c \in DOMAIN claims : rows[c] = CrossChecked(c, claims[c])
      OBVIOUS
    <3> HIDE DEF rows, FullInv
    <3>5. FullInv
      BY DEF FullInv
    <3> QED
      BY <2>2, <3>1, <3>2, <3>3, <3>4, <3>5, Rewritten
  <2>3. CASE Stop /\ UNCHANGED claims
    BY <2>1, <2>3, RowsStay DEF Rewrite
  <2> QED
    BY <2>1, <2>2, <2>3 DEF Rewrite
<1>7. CASE RunTriage
  <2> DEFINE rows == [c \in DOMAIN claims |-> Triaged(c, claims[c])]
  <2>1. Rewrite("triage", rows)
    BY <1>7 DEF RunTriage
  <2>2. CASE claims' = rows /\ Return("triage")
    <3>1. Stop \/ (chain /\ pc' = "assess")
      BY <2>2, Returns DEF GoesOn
    <3>2. pc = "triage" /\ UNCHANGED <<vr, opinions, toa, body>>
      BY <2>1 DEF Rewrite
    <3>3. \A c \in DOMAIN claims :
            /\ IsRow(Triaged(c, claims[c]))
            /\ chain => Stable(c, Triaged(c, claims[c]), "assess")
      <4> SUFFICES ASSUME NEW c \in DOMAIN claims
                   PROVE  /\ IsRow(Triaged(c, claims[c]))
                          /\ chain => Stable(c, Triaged(c, claims[c]), "assess")
        OBVIOUS
      <4>1. IsRow(claims[c]) /\ (chain => Stable(c, claims[c], "triage"))
        BY <3>2 DEF RowsOK, StableInv
      <4>2. IsRow(Triaged(c, claims[c]))
        <5>1. \A row : IsRow(row) => IsRow(Triaged(c, row))
          BY TriagedIs DEF IsRow
        <5> QED
          BY <4>1, <5>1
      <4> QED
        BY <4>1, <4>2, TriagedStable
    <3>4. DOMAIN rows = DOMAIN claims
          /\ \A c \in DOMAIN claims : rows[c] = Triaged(c, claims[c])
      OBVIOUS
    <3> HIDE DEF rows, FullInv
    <3>5. FullInv
      BY DEF FullInv
    <3> QED
      BY <2>2, <3>1, <3>2, <3>3, <3>4, <3>5, Rewritten
  <2>3. CASE Stop /\ UNCHANGED claims
    BY <2>1, <2>3, RowsStay DEF Rewrite
  <2> QED
    BY <2>1, <2>2, <2>3 DEF Rewrite
<1>8. CASE Assess
  <2>1. pc = "assess" /\ UNCHANGED <<claims, vr, opinions, toa, body>>
    BY <1>8 DEF Assess, fileVars
  <2>2. Stop \/ Return("assess")
    BY <1>8 DEF Assess
  <2>3. Stop \/ (pc' = "apply" /\ UNCHANGED chain)
    BY <2>2, Returns DEF GoesOn, callVars
  <2> QED
    BY <2>1, <2>3, RowsStay
<1>9. CASE ApplyAssessments
  <2> DEFINE rows == [c \in DOMAIN claims |-> Applied(c, claims[c])]
  <2>1. pc = "apply" /\ UNCHANGED <<vr, opinions, toa, body>>
    BY <1>9 DEF ApplyAssessments
  <2>2. CASE claims' = rows /\ Return("apply")
    <3>1. Stop \/ (chain /\ pc' = "report")
      BY <2>2, Returns DEF GoesOn
    <3>3. \A c \in DOMAIN claims :
            /\ IsRow(Applied(c, claims[c]))
            /\ chain => Stable(c, Applied(c, claims[c]), "report")
      <4> SUFFICES ASSUME NEW c \in DOMAIN claims
                   PROVE  /\ IsRow(Applied(c, claims[c]))
                          /\ chain => Stable(c, Applied(c, claims[c]), "report")
        OBVIOUS
      <4>1. IsRow(claims[c]) /\ (chain => Stable(c, claims[c], "apply"))
        BY <2>1 DEF RowsOK, StableInv
      <4>2. IsRow(Applied(c, claims[c]))
        <5>1. \A row : IsRow(row) => IsRow(Applied(c, row))
          BY AppliedIs DEF IsRow
        <5> QED
          BY <4>1, <5>1
      <4> QED
        BY <4>1, <4>2, AppliedStable
    <3>4. DOMAIN rows = DOMAIN claims
          /\ \A c \in DOMAIN claims : rows[c] = Applied(c, claims[c])
      OBVIOUS
    <3> HIDE DEF rows, FullInv
    <3>5. FullInv
      BY DEF FullInv
    <3> QED
      BY <2>1, <2>2, <3>1, <3>3, <3>4, <3>5, Rewritten
  <2>3. CASE Stop /\ UNCHANGED claims
    BY <2>1, <2>3, RowsStay
  <2> QED
    BY <1>9, <2>2, <2>3 DEF ApplyAssessments
<1>10. CASE WriteReport
  BY <1>10, RowsStay DEF WriteReport
<1> QED
  BY <1>1, <1>2, <1>3, <1>4, <1>5, <1>6, <1>7, <1>8, <1>9, <1>10, StepCases

LEMMA FullStart == Init => FullInv
<1> SUFFICES ASSUME Init PROVE RowsOK
  BY DEF FullInv, StableInv, Init, WorkdirInit, Idle
<1>1. CASE claims = << >>
  BY <1>1 DEF RowsOK
<1>2. CASE claims \in {[c \in Claim |-> NewRow(p[c])] : p \in Prepared}
  <2>1. PICK p \in Prepared : claims = [c \in Claim |-> NewRow(p[c])]
    BY <1>2
  <2> QED
    BY <2>1, NewRowIs DEF RowsOK
<1> QED
  BY <1>1, <1>2 DEF Init, WorkdirInit

LEMMA StableNow == FullInv => FullIsIdempotent
<1> SUFFICES ASSUME FullInv, Reporting, NEW c \in DOMAIN claims
             PROVE  Triaged(c, CrossChecked(c, QuotesChecked(c, Merged(claims[c])))) = claims[c]
  BY DEF FullIsIdempotent
<1>1. IsRow(claims[c]) /\ Stable(c, claims[c], "report")
  BY DEF FullInv, RowsOK, StableInv, Reporting
<1>2. /\ LinkedRow(claims[c]) /\ CheckedRow(c, claims[c])
      /\ claims[c].flagged = Flagged(claims[c]) /\ claims[c].track = TrackFor(c, claims[c])
  BY <1>1 DEF Stable, After
<1> QED
  BY <1>1, <1>2, Fixpoints

(* FullIsIdempotent: a second run of merge, check_quotes, crosscheck and   *)
(* triage on what `full` is about to report changes no row, whatever the   *)
(* agents said, whoever killed or forced which verb before.                *)
THEOREM RerunsKeepRows == Spec => []FullIsIdempotent
<1>1. Spec => []FullInv
  BY FullStart, FullStep, PTL DEF Spec
<1> QED
  BY <1>1, StableNow, PTL

-----------------------------------------------------------------------------
(* Verdicts only grow *)

VerdictsOK ==
  /\ \E S : verdicts \in Seq(S)
  /\ \A i \in DOMAIN verdicts : verdicts[i].answer \in Answer

(* Where a verdict comes from: an agent with the text it read, or an       *)
(* executor with the text the claim is linked to.                          *)
Fresh(v) ==
  \/ \E a \in agents : v.claim = a.claim /\ v.about = a.about
  \/ v.claim \in Pending /\ v.about = Text(claims[v.claim])

Grown ==
  /\ \A i \in DOMAIN verdicts : i \in DOMAIN verdicts' /\ verdicts'[i] = verdicts[i]
  /\ \A i \in DOMAIN verdicts' \ DOMAIN verdicts : \A v \in {verdicts'[i]} : Fresh(v)

LEMMA VerdictsUnchanged ==
  ASSUME VerdictsOK, UNCHANGED verdicts
  PROVE  VerdictsOK' /\ Grown
BY DEF VerdictsOK, Grown

LEMMA VerdictsGrow ==
  ASSUME VerdictsOK, [Next]_vars
  PROVE  VerdictsOK' /\ Grown
<1>1. PICK S : verdicts \in Seq(S)
  BY DEF VerdictsOK
<1>2. ASSUME NEW a \in agents, NEW says \in Answer, AgentSubmits(a, says)
      PROVE  VerdictsOK' /\ Grown
  <2> DEFINE v == [claim |-> a.claim, answer |-> says, about |-> a.about]
  <2>1. verdicts' = Append(verdicts, v)
    BY <1>2 DEF AgentSubmits
  <2>2. v.answer \in Answer /\ v.claim = a.claim /\ v.about = a.about
    OBVIOUS
  <2> HIDE DEF v
  <2>3. verdicts \in Seq(S \cup {v})
    BY <1>1
  <2>4. /\ verdicts' \in Seq(S \cup {v})
        /\ DOMAIN verdicts = 1..Len(verdicts) /\ Len(verdicts) \in Nat
        /\ DOMAIN verdicts' = 1..(Len(verdicts) + 1)
        /\ \A i \in 1..Len(verdicts) : verdicts'[i] = verdicts[i]
        /\ verdicts'[Len(verdicts) + 1] = v
    BY <2>1, <2>3
  <2>5. \A i \in DOMAIN verdicts' : i \in DOMAIN verdicts \/ i = Len(verdicts) + 1
    BY <2>4
  <2>6. \A i \in DOMAIN verdicts : i \in DOMAIN verdicts'
    BY <2>4
  <2>7. VerdictsOK'
    BY <2>2, <2>4, <2>5 DEF VerdictsOK
  <2>8. Fresh(v)
    BY <2>2 DEF Fresh
  <2> QED
    BY <2>4, <2>5, <2>6, <2>7, <2>8 DEF Grown
<1>3. ASSUME NEW entries \in Entries,
             verdicts' = verdicts \o
                  [i \in DOMAIN entries |-> [claim |-> entries[i].claim,
                                             answer |-> entries[i].answer,
                                             about |-> Text(claims[entries[i].claim])]]
      PROVE  VerdictsOK' /\ Grown
  <2>1. PICK m \in 0..Cardinality(Pending) :
               entries \in [1..m -> [claim : Pending, answer : Answer]]
    BY DEF Entries, BoundedSeq, SeqOf
  <2> DEFINE new == [i \in 1..m |-> [claim |-> entries[i].claim,
                                     answer |-> entries[i].answer,
                                     about |-> Text(claims[entries[i].claim])]]
             T == {new[i] : i \in 1..m}
  <2>2. m \in Nat /\ DOMAIN entries = 1..m /\ verdicts' = verdicts \o new
    BY <1>3, <2>1
  <2>3. \A i \in 1..m : /\ new[i].answer \in Answer /\ new[i].claim \in Pending
                        /\ new[i].about = Text(claims[new[i].claim])
    BY <2>1
  <2>4. new \in [1..m -> T]
    OBVIOUS
  <2> HIDE DEF new, T
  <2>5. new \in Seq(S \cup T) /\ Len(new) = m /\ verdicts \in Seq(S \cup T)
    BY <1>1, <2>2, <2>4
  <2>6. /\ verdicts' \in Seq(S \cup T)
        /\ DOMAIN verdicts = 1..Len(verdicts) /\ Len(verdicts) \in Nat
        /\ DOMAIN verdicts' = 1..(Len(verdicts) + m)
        /\ \A i \in 1..Len(verdicts) : verdicts'[i] = verdicts[i]
        /\ \A i \in (Len(verdicts) + 1)..(Len(verdicts) + m) :
              verdicts'[i] = new[i - Len(verdicts)] /\ i - Len(verdicts) \in 1..m
    BY <2>2, <2>5
  <2>7. \A i \in DOMAIN verdicts' :
          i \in DOMAIN verdicts \/ i \in (Len(verdicts) + 1)..(Len(verdicts) + m)
    BY <2>2, <2>6
  <2>8. \A i \in DOMAIN verdicts : i \in DOMAIN verdicts'
    BY <2>2, <2>6
  <2>9. VerdictsOK'
    <3>1. \A i \in DOMAIN verdicts' : verdicts'[i].answer \in Answer
      BY <2>3, <2>6, <2>7 DEF VerdictsOK
    <3> QED
      BY <2>6, <3>1 DEF VerdictsOK
  <2>10. \A i \in DOMAIN verdicts' \ DOMAIN verdicts : \A v \in {verdicts'[i]} : Fresh(v)
    BY <2>3, <2>6, <2>7 DEF Fresh
  <2> QED
    BY <2>6, <2>8, <2>9, <2>10 DEF Grown
<1>4. CASE UNCHANGED assessVars
  BY <1>4, VerdictsUnchanged DEF assessVars
<1>5. CASE Assess
  BY <1>3, <1>5, VerdictsUnchanged DEF Assess
<1>6. CASE Agent
  BY <1>2, <1>6, VerdictsUnchanged DEF Agent, AgentReads
<1>7. CASE UNCHANGED vars
  BY <1>7, VerdictsUnchanged DEF vars, assessVars
<1>8. CASE WriteReport
  BY <1>8, VerdictsUnchanged DEF WriteReport
<1> QED
  BY <1>4, <1>5, <1>6, <1>7, <1>8 DEF Next, VerbStep, RunFull, RunVerb, Killed, ExtractAgent,
     CheckQuotes, RunCrosscheck, RunTriage, Rewrite, ApplyAssessments, assessVars

LEMMA AboutGrows ==
  ASSUME Grown
  PROVE  \A c : About(c) \subseteq About(c)'
BY DEF Grown, About

-----------------------------------------------------------------------------
(* OnlyFinishedReports *)

JudgedInv ==
  chain /\ pc \in {"apply", "report"} => \A c \in Eligible : About(c) # {}

AskedInv == FullInv /\ VerdictsOK /\ JudgedInv

LEMMA AppliedKeeps ==
  ASSUME NEW c, NEW row, IsRow(row)
  PROVE  /\ Applied(c, row).cited = row.cited /\ Applied(c, row).status = row.status
         /\ Applied(c, row).match = row.match /\ Applied(c, row).opinion = row.opinion
         /\ Applied(c, row).worst = row.worst /\ Applied(c, row).floor = row.floor
         /\ IsRow(Applied(c, row))
BY AppliedIs DEF IsRow

LEMMA JudgedStep ==
  ASSUME ~InProcess, AskedInv, [Next]_vars
  PROVE  JudgedInv'
<1> USE DEF AskedInv
<1> HIDE DEF FullInv
<1>0. Grown
  BY VerdictsGrow
<1>1. SUFFICES ASSUME chain', pc' \in {"apply", "report"}, NEW c \in Eligible'
               PROVE  About(c)' # {}
  BY DEF JudgedInv
<1>2. CASE EarlyStep \/ Called
  BY <1>1, <1>2 DEF EarlyStep, Called, Stop, Early
<1>3. CASE Aside
  <2>1. chain /\ pc' = pc /\ Eligible' = Eligible
    BY <1>1, <1>3 DEF Aside, Stop, callVars, Eligible, Assessable
  <2> QED
    BY <1>0, <1>1, <2>1, AboutGrows DEF JudgedInv
<1>4. CASE Merge \/ CheckQuotes \/ RunCrosscheck \/ RunTriage
  BY <1>1, <1>4, Returns DEF Merge, CheckQuotes, RunCrosscheck, RunTriage, Rewrite, Stop, GoesOn
<1>5. CASE Assess
  <2>1. Return("assess") /\ Pending = {}
    BY <1>1, <1>5 DEF Assess, Stop
  <2>2. Eligible' = Eligible
    BY <1>5 DEF Assess, fileVars, Eligible, Assessable
  <2>3. c \in Have
    BY <1>1, <2>1, <2>2 DEF Pending
  <2>4. About(c) # {}
    BY <2>3 DEF Have, About
  <2> QED
    BY <1>0, <2>4, AboutGrows
<1>6. CASE ApplyAssessments
  <2>1. chain /\ pc = "apply" /\ claims' = [d \in DOMAIN claims |-> Applied(d, claims[d])]
    BY <1>1, <1>6, Returns DEF ApplyAssessments, Stop, GoesOn
  <2>2. c \in DOMAIN claims /\ claims'[c] = Applied(c, claims[c]) /\ IsRow(claims[c])
    BY <2>1 DEF Eligible, FullInv, RowsOK
  <2>3. c \in Eligible
    BY <2>2, AppliedKeeps DEF Eligible, Assessable
  <2> QED
    BY <1>0, <2>1, <2>3, AboutGrows DEF JudgedInv
<1>7. CASE WriteReport
  BY <1>1, <1>7 DEF WriteReport, Stop
<1> QED
  BY <1>2, <1>3, <1>4, <1>5, <1>6, <1>7, StepCases

(* OnlyFinishedReports, where agents answer in their own time: however     *)
(* their answers are spread over reruns, kills and single verbs, `full`    *)
(* passes assess only when every claim that can be judged has a verdict.   *)
(* An executor that answers within the verb gives no such guarantee:       *)
(* run_assess counts its entries, and two for one claim hide a missing one.*)
THEOREM ReportsOnlyFinished ==
  ASSUME ~InProcess
  PROVE  Spec => []OnlyFinishedReports
<1>1. Init => AskedInv
  <2> SUFFICES ASSUME Init PROVE AskedInv
    OBVIOUS
  <2>1. verdicts \in Seq({}) /\ DOMAIN verdicts = {}
    BY DEF Init
  <2> QED
    BY <2>1, FullStart DEF AskedInv, VerdictsOK, JudgedInv, Init, WorkdirInit, Idle
<1>2. AskedInv /\ [Next]_vars => AskedInv'
  BY FullStep, VerdictsGrow, JudgedStep DEF AskedInv
<1>3. AskedInv => OnlyFinishedReports
  BY DEF AskedInv, JudgedInv, OnlyFinishedReports, Reporting
<1> QED
  BY <1>1, <1>2, <1>3, PTL DEF Spec

-----------------------------------------------------------------------------
(* FloorHolds *)

(* The greatest of a finite set of numbers. *)
LEMMA Greatest ==
  ASSUME NEW S, IsFiniteSet(S), S # {}, S \subseteq Nat
  PROVE  Max(S) \in S /\ \A y \in S : y <= Max(S)
<1> DEFINE Above(x) == {y \in S : y > x}
           Sizes == {Cardinality(Above(x)) : x \in S}
<1>1. \A x \in S : IsFiniteSet(Above(x)) /\ Cardinality(Above(x)) \in Nat
  <2> SUFFICES ASSUME NEW x \in S
               PROVE  IsFiniteSet(Above(x)) /\ Cardinality(Above(x)) \in Nat
    OBVIOUS
  <2>1. IsFiniteSet(Above(x))
    BY FS_Subset
  <2> QED
    BY <2>1, FS_CardinalityType
<1>2. PICK n \in Sizes : \A m \in Sizes : ~(<<m, n>> \in OpToRel(<, Nat))
  <2>1. Sizes \in SUBSET Nat /\ Sizes # {}
    BY <1>1
  <2> HIDE DEF Sizes
  <2> QED
    BY <2>1, NatLessThanWellFounded, WFMin
<1>3. PICK x \in S : n = Cardinality(Above(x))
  BY <1>2
<1>4. ASSUME NEW y \in S, y > x
      PROVE  FALSE
  <2>0. \A a, b, d \in Nat : (a > b /\ b > d => a > d) /\ ~(a > a)
    OBVIOUS
  <2>5. x \in Nat /\ y \in Nat
    OBVIOUS
  <2>6. ASSUME NEW z \in Above(y)
        PROVE  z \in Above(x)
    BY <1>4, <2>0, <2>5, <2>6
  <2>1. Above(y) \in SUBSET Above(x) /\ y \in Above(x) /\ y \notin Above(y)
    BY <1>4, <2>0, <2>5, <2>6
  <2>2. /\ Cardinality(Above(y)) <= Cardinality(Above(x))
        /\ Cardinality(Above(y)) # Cardinality(Above(x))
    <3>1. IsFiniteSet(Above(x))
      BY <1>1
    <3> DEFINE A == Above(x)
               B == Above(y)
    <3>2. IsFiniteSet(A) /\ B \in SUBSET A /\ B # A
      BY <2>1, <3>1
    <3> HIDE DEF A, B
    <3>3. Cardinality(B) <= Cardinality(A) /\ Cardinality(B) # Cardinality(A)
      BY <3>2, FS_Subset
    <3> QED
      BY <3>3 DEF A, B
  <2>3. Cardinality(Above(y)) \in Sizes /\ Cardinality(Above(y)) < n /\ n \in Nat
    <3>1. Cardinality(Above(y)) \in Sizes
      OBVIOUS
    <3>2. Cardinality(Above(y)) \in Nat /\ Cardinality(Above(x)) \in Nat
      BY <1>1
    <3> HIDE DEF Above, Sizes
    <3> QED
      BY <1>3, <2>2, <3>1, <3>2
  <2>4. Cardinality(Above(y)) \in Nat
    BY <1>1
  <2> HIDE DEF Above, Sizes
  <2> QED
    BY <1>2, <2>3, <2>4 DEF OpToRel
<1>5. \A y \in S : x >= y
  BY <1>4
<1>6. \E z \in S : \A y \in S : z >= y
  BY <1>5
<1>7. Max(S) \in S /\ \A y \in S : Max(S) >= y
  BY <1>6 DEF Max
<1> QED
  BY <1>7

(* A row carries a colour only once there was a verdict on its claim. *)
MarkedInv == \A c \in DOMAIN claims : claims[c].assessment # "" => About(c) # {}

FlooredInv ==
  chain /\ pc = "report" =>
    \A c \in DOMAIN claims :
      Assessable(claims[c]) /\ claims[c].assessment = "Green" => claims[c].floor # "Yellow"

FloorInv == FullInv /\ VerdictsOK /\ MarkedInv /\ FlooredInv

LEMMA VerdictIs ==
  ASSUME VerdictsOK, NEW c, About(c) # {}
  PROVE  Max(About(c)) \in About(c) /\ VerdictOn(c).answer \in Answer
<1>1. PICK S : verdicts \in Seq(S)
  BY DEF VerdictsOK
<1>2. DOMAIN verdicts = 1..Len(verdicts) /\ Len(verdicts) \in Nat
  BY <1>1
<1>3. IsFiniteSet(1..Len(verdicts)) /\ 1..Len(verdicts) \subseteq Nat
  BY <1>2, FS_Interval
<1>4. About(c) \subseteq 1..Len(verdicts)
  BY <1>2 DEF About
<1>5. IsFiniteSet(About(c)) /\ About(c) \subseteq Nat
  BY <1>3, <1>4, FS_Subset
<1>6. Max(About(c)) \in About(c)
  BY <1>5, Greatest
<1>7. Max(About(c)) \in DOMAIN verdicts
  BY <1>6 DEF About
<1> QED
  BY <1>6, <1>7 DEF VerdictOn, VerdictsOK

LEMMA FloorBinds == \A color : Floored(color, "Yellow") # "Green"
BY DEF Floored, SeverityRank

(* A row that apply leaves as it is was never judged, or is not to be. *)
LEMMA ColorIs ==
  ASSUME VerdictsOK, Invalid \notin Answer, NEW c, NEW row, IsRow(row), Assessable(row),
         About(c) # {}
  PROVE  Applied(c, row).assessment = Floored(ColorOf(row, VerdictOn(c).answer), row.floor)
<1> DEFINE color == Floored(ColorOf(row, VerdictOn(c).answer), row.floor)
<1>1. VerdictOn(c).answer # Invalid
  BY VerdictIs
<1>2. Applied(c, row) = [row EXCEPT !.assessment = color]
  BY <1>1 DEF Applied
<1> HIDE DEF color
<1>3. Applied(c, row).assessment = color
  BY <1>2 DEF IsRow
<1> QED
  BY <1>3 DEF color

LEMMA KeptIs ==
  ASSUME NEW c, NEW row, ~Assessable(row) \/ About(c) = {}
  PROVE  Applied(c, row) = row
BY DEF Applied

(* What a step does to the rows: extraction writes new ones, a merge joins *)
(* them, and whatever else rewrites them leaves those columns alone.       *)
Extracted ==
  /\ ExtractWrites
  /\ \A c \in DOMAIN claims' : /\ IsRow(claims'[c]) /\ claims'[c].match = NoCase
                                /\ claims'[c].opinion = NoName /\ claims'[c].assessment = ""

Joined ==
  /\ pc = "merge" /\ {"claims.csv", "verification_results.csv"} \subseteq exists
  /\ UNCHANGED <<exists, vr, opinions>> /\ pc' \in {"idle", "check_quotes"}
  /\ DOMAIN claims' = DOMAIN claims
  /\ \A c \in DOMAIN claims : claims'[c] = Merged(claims[c])

SameLinks ==
  /\ DOMAIN claims' = DOMAIN claims
  /\ \A c \in DOMAIN claims :
       /\ claims'[c].cited = claims[c].cited /\ claims'[c].status = claims[c].status
       /\ claims'[c].match = claims[c].match /\ claims'[c].opinion = claims[c].opinion
       /\ claims'[c].assessment \in {claims[c].assessment, Applied(c, claims[c]).assessment}

LEMMA RowsStep ==
  ASSUME RowsOK, [Next]_vars
  PROVE  Extracted \/ Joined \/ SameLinks
<1>1. UNCHANGED claims => SameLinks
  BY DEF SameLinks
<1>2. \A c \in DOMAIN claims : IsRow(claims[c])
  BY DEF RowsOK
<1>3. CASE ExtractWrites
  <2>1. CASE claims' = [c \in Claim |-> NewRow(answer'.claims[c])]
    <3>1. \A c \in DOMAIN claims' : claims'[c] = NewRow(answer'.claims[c])
      BY <2>1
    <3>2. \A cite : /\ IsRow(NewRow(cite)) /\ NewRow(cite).match = NoCase
                    /\ NewRow(cite).opinion = NoName /\ NewRow(cite).assessment = ""
      BY NewRowIs
    <3> QED
      BY <1>3, <3>1, <3>2 DEF Extracted
  <2> QED
    BY <1>1, <1>3, <2>1 DEF ExtractWrites
<1>4. CASE Merge
  <2>1. CASE claims' = [c \in DOMAIN claims |-> Merged(claims[c])] /\ Return("merge")
    <3>1. pc' \in {"idle", "check_quotes"}
      BY <2>1, Returns DEF Stop, GoesOn
    <3>2. DOMAIN claims' = DOMAIN claims /\ \A c \in DOMAIN claims : claims'[c] = Merged(claims[c])
      BY <2>1
    <3>3. ~({"claims.csv", "verification_results.csv"} \subseteq exists) => UNCHANGED claims
      BY <1>4 DEF Merge
    <3>4. pc = "merge" /\ UNCHANGED <<exists, vr, opinions>>
      BY <1>4 DEF Merge
    <3> QED
      BY <1>1, <3>1, <3>2, <3>3, <3>4 DEF Joined
  <2> QED
    BY <1>1, <1>4, <2>1 DEF Merge
<1>5. CASE claims' = [c \in DOMAIN claims |-> QuotesChecked(c, claims[c])]
  <2> DEFINE rows == [c \in DOMAIN claims |-> QuotesChecked(c, claims[c])]
  <2>1. \A c \in DOMAIN claims :
          /\ rows[c].cited = claims[c].cited /\ rows[c].status = claims[c].status
          /\ rows[c].match = claims[c].match /\ rows[c].opinion = claims[c].opinion
          /\ rows[c].assessment = claims[c].assessment
    BY <1>2, CheckedIs
  <2> QED
    BY <1>5, <2>1 DEF SameLinks
<1>6. CASE claims' = [c \in DOMAIN claims |-> CrossChecked(c, claims[c])]
  <2> DEFINE rows == [c \in DOMAIN claims |-> CrossChecked(c, claims[c])]
  <2>1. \A c \in DOMAIN claims :
          /\ rows[c].cited = claims[c].cited /\ rows[c].status = claims[c].status
          /\ rows[c].match = claims[c].match /\ rows[c].opinion = claims[c].opinion
          /\ rows[c].assessment = claims[c].assessment
    <3> HIDE DEF Flagged
    <3> QED
      BY <1>2, CrossIs
  <2> QED
    BY <1>6, <2>1 DEF SameLinks
<1>7. CASE claims' = [c \in DOMAIN claims |-> Triaged(c, claims[c])]
  <2> DEFINE rows == [c \in DOMAIN claims |-> Triaged(c, claims[c])]
  <2>1. \A c \in DOMAIN claims :
          /\ rows[c].cited = claims[c].cited /\ rows[c].status = claims[c].status
          /\ rows[c].match = claims[c].match /\ rows[c].opinion = claims[c].opinion
          /\ rows[c].assessment = claims[c].assessment
    BY <1>2, TriagedIs
  <2> QED
    BY <1>7, <2>1 DEF SameLinks
<1>8. CASE claims' = [c \in DOMAIN claims |-> Applied(c, claims[c])]
  <2> DEFINE rows == [c \in DOMAIN claims |-> Applied(c, claims[c])]
  <2>1. \A c \in DOMAIN claims :
          /\ rows[c].cited = claims[c].cited /\ rows[c].status = claims[c].status
          /\ rows[c].match = claims[c].match /\ rows[c].opinion = claims[c].opinion
          /\ rows[c].assessment = Applied(c, claims[c]).assessment
    BY <1>2, AppliedKeeps
  <2> QED
    BY <1>8, <2>1 DEF SameLinks
<1> QED
  BY <1>1, <1>3, <1>4, <1>5, <1>6, <1>7, <1>8, StepCases
  DEF EarlyStep, Called, Aside, CheckQuotes, RunCrosscheck, RunTriage, Rewrite, Assess,
      ApplyAssessments, WriteReport, fileVars

LEMMA MarkedStep ==
  ASSUME FloorInv, [Next]_vars
  PROVE  MarkedInv'
<1>1. \A c : About(c) \subseteq About(c)'
  BY VerdictsGrow, AboutGrows DEF FloorInv
<1>2. RowsOK
  BY DEF FloorInv, FullInv
<1>3. CASE Extracted
  BY <1>3 DEF Extracted, MarkedInv
<1>4. CASE Joined
  <2>1. \A c \in DOMAIN claims : Merged(claims[c]).assessment = claims[c].assessment
    BY <1>2, MergedIs DEF RowsOK
  <2> QED
    BY <1>1, <1>4, <2>1 DEF Joined, MarkedInv, FloorInv
<1>5. CASE SameLinks
  <2>1. \A c \in DOMAIN claims :
          claims'[c].assessment = claims[c].assessment \/ About(c) # {}
    BY <1>5, KeptIs DEF SameLinks
  <2> QED
    BY <1>1, <1>5, <2>1 DEF SameLinks, MarkedInv, FloorInv
<1> QED
  BY <1>2, <1>3, <1>4, <1>5, RowsStep

LEMMA FlooredStep ==
  ASSUME Invalid \notin Answer, FloorInv, [Next]_vars
  PROVE  FlooredInv'
<1> USE DEF FloorInv
<1> HIDE DEF FullInv
<1>1. SUFFICES ASSUME chain', pc' = "report", NEW c \in DOMAIN claims',
                      Assessable(claims'[c]), claims'[c].assessment = "Green"
               PROVE  claims'[c].floor # "Yellow"
  BY DEF FlooredInv, Assessable
<1>2. CASE EarlyStep \/ Called
  BY <1>1, <1>2 DEF EarlyStep, Called, Stop, Early
<1>3. CASE Aside
  BY <1>1, <1>3 DEF Aside, Stop, callVars, FlooredInv
<1>4. CASE Merge \/ CheckQuotes \/ RunCrosscheck \/ RunTriage
  BY <1>1, <1>4, Returns DEF Merge, CheckQuotes, RunCrosscheck, RunTriage, Rewrite, Stop, GoesOn
<1>5. CASE Assess
  BY <1>1, <1>5, Returns DEF Assess, Stop, GoesOn
<1>6. CASE ApplyAssessments
  <2>1. claims' = [d \in DOMAIN claims |-> Applied(d, claims[d])]
    BY <1>1, <1>6 DEF ApplyAssessments, Stop
  <2>2. c \in DOMAIN claims /\ claims'[c] = Applied(c, claims[c]) /\ IsRow(claims[c])
    BY <1>1, <2>1 DEF FullInv, RowsOK
  <2> DEFINE row == claims[c]
  <2>3. Assessable(row) /\ claims'[c].floor = row.floor
    BY <1>1, <2>2, AppliedKeeps DEF Assessable
  <2>4. About(c) # {}
    BY <1>1, <2>2, KeptIs DEF MarkedInv
  <2>5. claims'[c].assessment = Floored(ColorOf(row, VerdictOn(c).answer), row.floor)
    BY <2>2, <2>3, <2>4, ColorIs
  <2> QED
    BY <1>1, <2>3, <2>5, FloorBinds
<1>7. CASE WriteReport
  BY <1>1, <1>7 DEF WriteReport, Stop
<1> QED
  BY <1>2, <1>3, <1>4, <1>5, <1>6, <1>7, StepCases

(* FloorHolds, if every verdict is a colour or a degree of support: a      *)
(* quotation that check_quotes found altered or invented in the text keeps *)
(* its claim out of the green lane, whatever was stored, assessed, killed  *)
(* or forced before.  An invalid verdict is skipped by                     *)
(* run_apply_assessments and would leave an older colour standing.         *)
THEOREM FloorAlwaysHolds ==
  ASSUME Invalid \notin Answer
  PROVE  Spec => []FloorHolds
<1>1. Init => FloorInv
  <2> SUFFICES ASSUME Init PROVE FloorInv
    OBVIOUS
  <2>1. verdicts \in Seq({}) /\ DOMAIN verdicts = {}
    BY DEF Init
  <2>2. MarkedInv
    <3>1. CASE claims = << >>
      <4>1. DOMAIN claims = {}
        BY <3>1
      <4> QED
        BY <4>1 DEF MarkedInv
    <3>2. CASE claims \in {[c \in Claim |-> NewRow(p[c])] : p \in Prepared}
      <4>1. PICK p \in Prepared : claims = [c \in Claim |-> NewRow(p[c])]
        BY <3>2
      <4>2. \A cite : NewRow(cite).assessment = ""
        BY DEF NewRow
      <4> QED
        BY <4>1, <4>2 DEF MarkedInv
    <3> QED
      BY <3>1, <3>2 DEF Init, WorkdirInit
  <2> QED
    BY <2>1, <2>2, FullStart DEF FloorInv, VerdictsOK, FlooredInv, Init, WorkdirInit, Idle
<1>2. FloorInv /\ [Next]_vars => FloorInv'
  BY FullStep, VerdictsGrow, MarkedStep, FlooredStep DEF FloorInv
<1>3. FloorInv => FloorHolds
  <2> SUFFICES ASSUME FloorInv, Reporting, NEW c \in DOMAIN claims,
                      Lane(claims[c]) = "Green", Quoted[c],
                      Text(claims[c]) \notin {NoCase} \cup Unreadable
               PROVE  QuoteCheck[c][Text(claims[c])] \cap {"CLOSE", "FABRICATED"} = {}
    BY DEF FloorHolds
  <2>1. claims[c].assessment = "Green" /\ claims[c].status # "WRONG_CASE"
    BY DEF Lane, ReportLane
  <2>2. claims[c].opinion # NoName
    BY DEF Text
  <2>3. Stable(c, claims[c], "report")
    BY DEF FloorInv, FullInv, StableInv, Reporting
  <2>4. claims[c].floor = QuoteFloor(QuoteCheck[c][Text(claims[c])])
    BY <2>3 DEF Stable, After, CheckedRow, Floor
  <2>5. claims[c].floor # "Yellow"
    BY <2>1, <2>2 DEF FloorInv, FlooredInv, Reporting, Assessable
  <2> QED
    BY <2>4, <2>5 DEF QuoteFloor
<1> QED
  BY <1>1, <1>2, <1>3, PTL DEF Spec

-----------------------------------------------------------------------------
(* Links are settled once verify is over *)

Waves == {"wave1", "downloads1", "wave2", "downloads2"}

Settled == "verification_results.csv" \in exists /\ pc \notin Waves

FilesInv ==
  /\ forced = 0 /\ force = FALSE
  /\ "claims.csv" \notin exists => DOMAIN claims = {}

LEMMA VerbsAre ==
  /\ Verb = {"extract", "verify", "merge", "check_quotes", "crosscheck", "triage", "assess",
             "apply", "report"}
  /\ Verb \cap Waves = {}
<1>1. /\ DOMAIN Chain = 1..9 /\ \A i \in 1..9 : i \in {1, 2, 3, 4, 5, 6, 7, 8, 9}
      /\ {1, 2, 3, 4, 5, 6, 7, 8, 9} \subseteq 1..9
  BY DEF Chain
<1>2. Verb = {Chain[i] : i \in {1, 2, 3, 4, 5, 6, 7, 8, 9}}
  BY <1>1 DEF Verb, Range
<1> QED
  BY <1>2 DEF Chain, Waves

LEMMA FilesStep ==
  ASSUME MaxForced = 0 \/ forced' = 0, FilesInv, [Next]_vars
  PROVE  FilesInv'
<1> USE DEF FilesInv
<1>1. ASSUME UNCHANGED <<exists, claims, forced>>, Stop \/ UNCHANGED <<pc, force>>
      PROVE  FilesInv'
  BY <1>1 DEF Stop, Waves
<1>2. ASSUME NEW verb \in Verb, NEW whole, NEW again \in BOOLEAN, Call(verb, whole, again)
      PROVE  FilesInv'
  <2>1. again = FALSE
    BY <1>2 DEF Call
  <2>2. verb \notin Waves
    BY VerbsAre
  <2> QED
    BY <1>2, <2>1, <2>2 DEF Call, fileVars
<1>3. \A verb : Return(verb) => Stop \/ UNCHANGED force
  BY DEF Return, callVars
<1>4. CASE ExtractDone \/ ExtractAsks \/ ExtractWrites \/ ExtractToa \/ ExtractBody
  BY <1>3, <1>4, Returns DEF ExtractDone, ExtractAsks, ExtractWrites, ExtractToa, ExtractBody,
     fileVars, besideVars, callVars, Stop, GoesOn, Waves, Done
<1>5. CASE VerifyDone \/ VerifyStarts \/ Wave1 \/ Download
  BY <1>3, <1>5, Returns DEF VerifyDone, VerifyStarts, Wave1, Download,
     fileVars, besideVars, callVars, Stop, GoesOn, Waves
<1>6. CASE WriteResults \/ Wave2 \/ AppendResults
  BY <1>3, <1>6, Returns DEF WriteResults, Wave2, AppendResults,
     fileVars, besideVars, callVars, Stop, GoesOn, Waves
<1>7. ASSUME UNCHANGED <<exists, forced>>, DOMAIN claims' = DOMAIN claims,
             \/ Stop
             \/ UNCHANGED force /\ pc' \in {"check_quotes", "crosscheck", "triage", "assess",
                                            "apply", "report"}
      PROVE  FilesInv'
  BY <1>7 DEF Stop, Waves
<1>8. CASE Merge
  BY <1>3, <1>7, <1>8, Returns DEF Merge, besideVars, GoesOn, callVars
<1>9. CASE CheckQuotes \/ RunCrosscheck \/ RunTriage
  BY <1>3, <1>7, <1>9, Returns DEF CheckQuotes, RunCrosscheck, RunTriage, Rewrite, besideVars,
     GoesOn, callVars
<1>10. CASE Assess
  BY <1>3, <1>7, <1>10, Returns DEF Assess, besideVars, fileVars, GoesOn, callVars
<1>11. CASE ApplyAssessments
  BY <1>3, <1>7, <1>11, Returns DEF ApplyAssessments, besideVars, GoesOn, callVars
<1>12. CASE WriteReport
  BY <1>12 DEF WriteReport, besideVars, Stop, Waves
<1>13. CASE Killed
  BY <1>1, <1>13 DEF Killed, Kill, fileVars
<1>14. CASE RunFull \/ RunVerb
  BY <1>2, <1>14, VerbsAre DEF RunFull, RunVerb
<1>15. CASE ExtractAgent
  BY <1>1, <1>15 DEF ExtractAgent, ExtractAnswered, callVars, besideVars
<1>16. CASE Agent
  BY <1>1, <1>16 DEF Agent, AgentReads, AgentSubmits, workVars, fileVars, callVars, besideVars
<1>17. CASE UNCHANGED vars
  BY <1>1, <1>17 DEF vars, workVars, fileVars, callVars, besideVars
<1> QED
  BY <1>4, <1>5, <1>6, <1>8, <1>9, <1>10, <1>11, <1>12, <1>13, <1>14, <1>15, <1>16, <1>17
  DEF Next, VerbStep

(* Nothing that links are made of changes any more, nor are claims         *)
(* extracted anew: a verify with a list of its own may come before them.   *)
LEMMA SettledStays ==
  ASSUME FilesInv, [Next]_vars, Settled
  PROVE  /\ Settled' /\ UNCHANGED <<vr, opinions>>
         /\ DOMAIN claims # {} => ~ExtractWrites
<1> USE DEF FilesInv, Settled
<1>1. DOMAIN claims # {} => ~ExtractWrites
  BY DEF ExtractWrites, Done
<1>14. CASE ExtractWrites
  BY <1>1, <1>14 DEF ExtractWrites, Stop, Waves
<1>2. CASE ExtractDone \/ ExtractAsks \/ ExtractToa \/ ExtractBody \/ VerifyDone
  BY <1>1, <1>2, Returns DEF ExtractDone, ExtractAsks, ExtractToa, ExtractBody, VerifyDone,
     fileVars, Stop, GoesOn, Waves
<1>3. ~(VerifyStarts \/ Wave1 \/ Download \/ WriteResults \/ Wave2 \/ AppendResults)
  BY DEF VerifyStarts, Wave1, Download, WriteResults, Wave2, AppendResults, Waves, Done
<1>4. ASSUME NEW verb \in Verb, NEW whole, NEW again \in BOOLEAN, Call(verb, whole, again)
      PROVE  Settled' /\ UNCHANGED <<vr, opinions>>
  BY <1>4, VerbsAre DEF Call, fileVars, Waves
<1>5. CASE Merge
  BY <1>1, <1>5, Returns DEF Merge, Stop, GoesOn, Waves
<1>6. CASE CheckQuotes \/ RunCrosscheck \/ RunTriage
  BY <1>1, <1>6, Returns DEF CheckQuotes, RunCrosscheck, RunTriage, Rewrite, Stop, GoesOn, Waves
<1>7. CASE Assess
  BY <1>1, <1>7, Returns DEF Assess, fileVars, Stop, GoesOn, Waves
<1>8. CASE ApplyAssessments
  BY <1>1, <1>8, Returns DEF ApplyAssessments, Stop, GoesOn, Waves
<1>9. CASE WriteReport
  BY <1>1, <1>9 DEF WriteReport, Stop, Waves
<1>10. CASE Killed
  BY <1>1, <1>10 DEF Killed, Kill, fileVars, Stop, Waves
<1>11. CASE RunFull \/ RunVerb
  BY <1>1, <1>4, <1>11, VerbsAre DEF RunFull, RunVerb
<1>12. CASE ExtractAgent
  BY <1>1, <1>12 DEF ExtractAgent, ExtractAnswered
<1>13. CASE Agent \/ UNCHANGED vars
  BY <1>1, <1>13 DEF Agent, AgentReads, AgentSubmits, vars, workVars, fileVars
<1> QED
  BY <1>1, <1>2, <1>3, <1>5, <1>6, <1>7, <1>8, <1>9, <1>10, <1>11, <1>12, <1>13, <1>14
  DEF Next, VerbStep

(* Without --force a row is linked once, by a merge of the final results,  *)
(* and every later merge would link it the same.                           *)
LinkInv ==
  \A c \in DOMAIN claims : \A row \in {claims[c]} :
    (row.match = NoCase /\ row.opinion = NoName) \/ (Settled /\ LinkedRow(row))

LEMMA LinkedRowFrame ==
  ASSUME UNCHANGED <<vr, opinions>>
  PROVE  \A row : LinkedRow(row)' = LinkedRow(row)
BY LookedUpFrame, LinkedFrame DEF LinkedRow

LEMMA LinkStep ==
  ASSUME MaxForced = 0, RowsOK, FilesInv, LinkInv, [Next]_vars
  PROVE  LinkInv'
<1> SUFFICES ASSUME NEW c \in DOMAIN claims', NEW row \in {claims'[c]},
                    ~(row.match = NoCase /\ row.opinion = NoName)
             PROVE  Settled' /\ LinkedRow(row)'
  BY DEF LinkInv
<1>1. CASE Extracted
  BY <1>1 DEF Extracted
<1>2. CASE Joined
  <2>1. Settled'
    BY <1>2 DEF Joined, Settled, Waves
  <2>2. row = Merged(claims[c]) /\ IsRow(claims[c])
    BY <1>2 DEF Joined, RowsOK
  <2>3. LinkedRow(row)
    BY <2>2, MergedIs DEF LinkedRow
  <2> QED
    BY <1>2, <2>1, <2>3, LinkedRowFrame DEF Joined
<1>3. CASE SameLinks
  <2>1. Settled /\ LinkedRow(claims[c])
    BY <1>3 DEF SameLinks, LinkInv
  <2>2. LinkedRow(row)
    BY <1>3, <2>1 DEF SameLinks, LinkedRow
  <2> QED
    BY <2>1, <2>2, SettledStays, LinkedRowFrame
<1> QED
  BY <1>1, <1>2, <1>3, RowsStep

(* A claim that is linked to a file stays linked to it, with its text.     *)
LEMMA FileStays ==
  ASSUME MaxForced = 0, RowsOK, FilesInv, LinkInv, [Next]_vars,
         NEW c \in DOMAIN claims, claims[c].opinion # NoName
  PROVE  /\ c \in DOMAIN claims' /\ claims'[c].opinion = claims[c].opinion
         /\ UNCHANGED opinions
<1>1. Settled /\ LinkedRow(claims[c])
  BY DEF LinkInv
<1>2. UNCHANGED opinions /\ ~Extracted
  BY <1>1, SettledStays DEF Extracted
<1>3. CASE Joined
  <2>1. Merged(claims[c]) = claims[c]
    BY <1>1, Fixpoints DEF RowsOK
  <2> QED
    BY <1>2, <1>3, <2>1 DEF Joined
<1>4. CASE SameLinks
  BY <1>2, <1>4 DEF SameLinks
<1> QED
  BY <1>2, <1>3, <1>4, RowsStep

-----------------------------------------------------------------------------
(* GreenIsSupported *)

(* A claim is linked to a file that holds a text. *)
HasText(c, text) ==
  c \in DOMAIN claims /\ claims[c].opinion # NoName /\ opinions[claims[c].opinion] = text

JobsInv ==
  \A j \in jobs :
    /\ j.claim \in DOMAIN claims /\ j.opinion # NoName
    /\ claims[j.claim].opinion = j.opinion

AgentsInv == \A a \in agents : HasText(a.claim, a.about)

VerdictsInv == \A i \in DOMAIN verdicts : \A v \in {verdicts[i]} : HasText(v.claim, v.about)

Supports(i) == verdicts[i].answer \in {"supported", "Green"}

GreenInv ==
  \A c \in DOMAIN claims : claims[c].assessment = "Green" => \E i \in About(c) : Supports(i)

SupportInv ==
  /\ RowsOK /\ FilesInv /\ LinkInv /\ VerdictsOK
  /\ JobsInv /\ AgentsInv /\ VerdictsInv /\ GreenInv

LEMMA TextStays ==
  ASSUME MaxForced = 0, SupportInv, [Next]_vars
  PROVE  \A c, text : HasText(c, text) => HasText(c, text)'
<1> SUFFICES ASSUME NEW c, NEW text, HasText(c, text)
             PROVE  HasText(c, text)'
  OBVIOUS
<1>1. c \in DOMAIN claims /\ claims[c].opinion # NoName
  BY DEF HasText
<1>2. /\ c \in DOMAIN claims' /\ claims'[c].opinion = claims[c].opinion
      /\ UNCHANGED opinions
  BY <1>1, FileStays DEF SupportInv
<1> QED
  BY <1>1, <1>2 DEF HasText

LEMMA JobsStep ==
  ASSUME MaxForced = 0, SupportInv, [Next]_vars
  PROVE  JobsInv'
<1>1. CASE UNCHANGED jobs
  <2>1. ASSUME NEW j \in jobs
        PROVE  /\ j.claim \in DOMAIN claims' /\ j.opinion # NoName
               /\ claims'[j.claim].opinion = j.opinion
    <3>1. /\ j.claim \in DOMAIN claims /\ j.opinion # NoName
          /\ claims[j.claim].opinion = j.opinion
      BY DEF SupportInv, JobsInv
    <3> QED
      BY <3>1, FileStays DEF SupportInv
  <2> QED
    BY <1>1, <2>1 DEF JobsInv
<1>2. CASE Assess /\ jobs' = {[claim |-> c, opinion |-> claims[c].opinion] : c \in Pending}
  <2>1. UNCHANGED claims
    BY <1>2 DEF Assess, fileVars
  <2>2. \A c \in Pending : c \in DOMAIN claims /\ claims[c].opinion # NoName
    BY DEF Pending, Eligible, Assessable
  <2> QED
    BY <1>2, <2>1, <2>2 DEF JobsInv
<1>3. Assess => \/ UNCHANGED jobs
                \/ jobs' = {[claim |-> c, opinion |-> claims[c].opinion] : c \in Pending}
  BY DEF Assess
<1>4. UNCHANGED jobs \/ Assess
  BY DEF Next, VerbStep, RunFull, RunVerb, Killed, ExtractAgent, Agent, AgentReads, AgentSubmits,
     CheckQuotes, RunCrosscheck, RunTriage, Rewrite, ApplyAssessments, WriteReport,
     assessVars, vars
<1> QED
  BY <1>1, <1>2, <1>3, <1>4

LEMMA AgentsStep ==
  ASSUME MaxForced = 0, SupportInv, [Next]_vars
  PROVE  AgentsInv'
<1>1. ASSUME \A a \in agents' : a \in agents \/ HasText(a.claim, a.about)
      PROVE  AgentsInv'
  BY <1>1, TextStays DEF AgentsInv, SupportInv
<1>2. ASSUME NEW j \in jobs, AgentReads(j)
      PROVE  AgentsInv'
  <2>1. HasText(j.claim, opinions[j.opinion])
    BY DEF HasText, SupportInv, JobsInv
  <2>2. \A a \in agents' : a \in agents \/ (a.claim = j.claim /\ a.about = opinions[j.opinion])
    BY <1>2 DEF AgentReads
  <2> QED
    BY <1>1, <2>1, <2>2
<1>3. ASSUME NEW a \in agents, NEW says, AgentSubmits(a, says)
      PROVE  AgentsInv'
  BY <1>1, <1>3 DEF AgentSubmits
<1>4. UNCHANGED agents \/ Agent
  BY DEF Next, VerbStep, RunFull, RunVerb, Killed, ExtractAgent,
     CheckQuotes, RunCrosscheck, RunTriage, Rewrite, Assess, ApplyAssessments, WriteReport,
     assessVars, vars
<1> QED
  BY <1>1, <1>2, <1>3, <1>4 DEF Agent

LEMMA VerdictsStep ==
  ASSUME MaxForced = 0, SupportInv, [Next]_vars
  PROVE  VerdictsInv'
<1>1. Grown
  BY VerdictsGrow DEF SupportInv
<1> SUFFICES ASSUME NEW i \in DOMAIN verdicts', NEW v \in {verdicts'[i]}
             PROVE  HasText(v.claim, v.about)'
  BY DEF VerdictsInv
<1>2. HasText(v.claim, v.about)
  <2>1. CASE i \in DOMAIN verdicts
    BY <1>1, <2>1 DEF Grown, SupportInv, VerdictsInv
  <2>2. CASE i \notin DOMAIN verdicts
    <3>1. Fresh(v)
      BY <1>1, <2>2 DEF Grown
    <3>2. CASE v.claim \in Pending /\ v.about = Text(claims[v.claim])
      BY <3>2 DEF Pending, Eligible, Assessable, Text, HasText
    <3> QED
      BY <3>1, <3>2 DEF Fresh, SupportInv, AgentsInv
  <2> QED
    BY <2>1, <2>2
<1> QED
  BY <1>2, TextStays

(* Only a verdict of support makes a row green. *)
LEMMA GreenNeedsSupport ==
  ASSUME NEW row, NEW says, Floored(ColorOf(row, says), row.floor) = "Green"
  PROVE  says \in {"supported", "Green"}
<1>1. ColorOf(row, says) = "Green"
  BY DEF Floored, SeverityRank
<1>2. CASE says \in Support
  <2> DEFINE quote == IF row.floor = "" THEN "" ELSE row.worst
  <2>1. DeriveColor(row.status, says, quote) = "Green"
    BY <1>1, <1>2 DEF ColorOf
  <2> HIDE DEF quote
  <2>2. says # "supported" => DeriveColor(row.status, says, quote) # "Green"
    BY <1>2 DEF DeriveColor, Support, Unlocatable
  <2> QED
    BY <2>1, <2>2
<1>3. CASE says \notin Support
  BY <1>1, <1>3 DEF ColorOf
<1> QED
  BY <1>2, <1>3

LEMMA GreenStep ==
  ASSUME SupportInv, [Next]_vars
  PROVE  GreenInv'
<1>1. Grown
  BY VerdictsGrow DEF SupportInv
<1>2. \A c, i : i \in About(c) /\ Supports(i) => i \in About(c)' /\ Supports(i)'
  BY <1>1 DEF Grown, About, Supports
<1> SUFFICES ASSUME NEW c \in DOMAIN claims', claims'[c].assessment = "Green"
             PROVE  \E i \in About(c)' : Supports(i)'
  BY DEF GreenInv
<1>3. ASSUME c \in DOMAIN claims, claims[c].assessment = "Green"
      PROVE  \E i \in About(c)' : Supports(i)'
  BY <1>2, <1>3 DEF SupportInv, GreenInv
<1>4. CASE Extracted
  BY <1>4 DEF Extracted
<1>5. CASE Joined
  <2>1. c \in DOMAIN claims /\ claims'[c] = Merged(claims[c]) /\ IsRow(claims[c])
    BY <1>5 DEF Joined, SupportInv, RowsOK
  <2>2. claims'[c].assessment = claims[c].assessment
    BY <2>1, MergedIs
  <2> QED
    BY <1>3, <2>1, <2>2
<1>6. CASE SameLinks
  <2>1. c \in DOMAIN claims /\ IsRow(claims[c])
    BY <1>6 DEF SameLinks, SupportInv, RowsOK
  <2>2. CASE claims'[c].assessment = claims[c].assessment
    BY <1>3, <2>1, <2>2
  <2>3. CASE claims'[c].assessment # claims[c].assessment
    <3>1. Applied(c, claims[c]).assessment = "Green" /\ Applied(c, claims[c]) # claims[c]
      BY <1>6, <2>1, <2>3 DEF SameLinks
    <3>2. About(c) # {}
      BY <3>1, KeptIs
    <3> DEFINE row == claims[c]
               color == Floored(ColorOf(row, VerdictOn(c).answer), row.floor)
    <3>3. Applied(c, row) = [row EXCEPT !.assessment = color]
      BY <3>1 DEF Applied
    <3>4. color = "Green"
      <4> HIDE DEF color
      <4>1. Applied(c, row).assessment = color
        BY <2>1, <3>3 DEF IsRow
      <4> QED
        BY <3>1, <4>1
    <3>5. VerdictOn(c).answer \in {"supported", "Green"}
      BY <3>4, GreenNeedsSupport
    <3>6. Max(About(c)) \in About(c) /\ Supports(Max(About(c)))
      BY <3>2, <3>5, VerdictIs DEF VerdictOn, Supports, SupportInv
    <3> QED
      BY <1>2, <3>6
  <2> QED
    BY <2>2, <2>3
<1> QED
  BY <1>4, <1>5, <1>6, RowsStep DEF SupportInv

LEMMA SupportStart == Init => SupportInv
<1> SUFFICES ASSUME Init PROVE SupportInv
  OBVIOUS
<1>1. RowsOK
  BY FullStart DEF FullInv
<1>2. \A c \in DOMAIN claims : /\ claims[c].match = NoCase /\ claims[c].opinion = NoName
                               /\ claims[c].assessment = ""
  <2>1. CASE claims = << >>
    <3>1. DOMAIN claims = {}
      BY <2>1
    <3> QED
      BY <3>1
  <2>2. CASE claims \in {[c \in Claim |-> NewRow(p[c])] : p \in Prepared}
    <3>1. PICK p \in Prepared : claims = [c \in Claim |-> NewRow(p[c])]
      BY <2>2
    <3>2. \A cite : /\ NewRow(cite).match = NoCase /\ NewRow(cite).opinion = NoName
                    /\ NewRow(cite).assessment = ""
      BY NewRowIs
    <3> QED
      BY <3>1, <3>2
  <2> QED
    BY <2>1, <2>2 DEF Init, WorkdirInit
<1>3. FilesInv
  <2>1. exists = {} => DOMAIN claims = {}
    BY DEF Init, WorkdirInit
  <2> QED
    BY <2>1 DEF FilesInv, Init, WorkdirInit, Idle, Waves
<1>4. verdicts \in Seq({}) /\ DOMAIN verdicts = {}
  BY DEF Init
<1> QED
  BY <1>1, <1>2, <1>3, <1>4 DEF Init, SupportInv, LinkInv, VerdictsOK, JobsInv, AgentsInv,
     VerdictsInv, GreenInv

LEMMA SupportStep ==
  ASSUME MaxForced = 0, FullInv, SupportInv, [Next]_vars
  PROVE  FullInv' /\ SupportInv'
<1>1. FullInv' /\ RowsOK'
  BY FullStep DEF FullInv
<1>2. FilesInv' /\ LinkInv' /\ VerdictsOK'
  BY FilesStep, LinkStep, VerdictsGrow DEF SupportInv
<1> QED
  BY <1>1, <1>2, JobsStep, AgentsStep, VerdictsStep, GreenStep DEF SupportInv

(* GreenIsSupported, as long as nobody reruns a verb with --force: however *)
(* late an agent answers, and however often merge and assess were run in   *)
(* between, the text it read is the one its claim is linked to.  With      *)
(* --force verify may store another text under a name that a pending job   *)
(* still points to.                                                        *)
THEOREM GreenAlwaysSupported ==
  ASSUME MaxForced = 0
  PROVE  Spec => []GreenIsSupported
<1>1. Init => FullInv /\ SupportInv
  BY FullStart, SupportStart
<1>2. FullInv /\ SupportInv /\ [Next]_vars => (FullInv /\ SupportInv)'
  BY SupportStep
<1>3. SupportInv => GreenIsSupported
  <2> SUFFICES ASSUME SupportInv, NEW c \in DOMAIN claims, Lane(claims[c]) = "Green"
               PROVE  \E i \in DOMAIN verdicts :
                        /\ verdicts[i].claim = c
                        /\ verdicts[i].answer \in {"supported", "Green"}
                        /\ verdicts[i].about = Text(claims[c])
    BY DEF GreenIsSupported
  <2>1. claims[c].assessment = "Green"
    BY DEF Lane, ReportLane
  <2>2. PICK i \in About(c) : Supports(i)
    BY <2>1 DEF SupportInv, GreenInv
  <2>3. i \in DOMAIN verdicts /\ verdicts[i].claim = c
    BY DEF About
  <2>4. HasText(c, verdicts[i].about)
    BY <2>3 DEF SupportInv, VerdictsInv
  <2>5. verdicts[i].about = Text(claims[c])
    BY <2>4 DEF HasText, Text
  <2> QED
    BY <2>2, <2>3, <2>5 DEF Supports
<1> QED
  BY <1>1, <1>2, <1>3, PTL DEF Spec

-----------------------------------------------------------------------------
(* Types *)

FoundType == [status : CitationStatus \cup {""}, match : Case \cup {NoCase}]

Wave == UNION {[S -> FoundType] : S \in SUBSET Cite}

WorkTypeOK ==
  /\ \A c \in DOMAIN claims : claims[c].cited \in Cite /\ claims[c].match \in Case \cup {NoCase}
  /\ toa \subseteq Cite /\ body \subseteq Cite /\ citations \subseteq Cite
  /\ extracted \in Seq(Extraction \cup {Invalid})
  /\ pc \in {"citations_toa", "citations_body"} => answer \in Extraction
  /\ results \in [Cite -> FoundType]
  /\ vr \in Seq(Wave)

LEMMA GreatestOfCite ==
  ASSUME NEW S, S \subseteq Cite, S # {}
  PROVE  Max(S) \in S
BY WorkdirAssumption, FS_Subset, Greatest

LEMMA GreatestUpTo ==
  ASSUME NEW n \in Nat, NEW S, S \subseteq 1..n, S # {}
  PROVE  Max(S) \in S
<1>1. IsFiniteSet(1..n)
  BY FS_Interval
<1>2. IsFiniteSet(S)
  BY <1>1, FS_Subset
<1>3. S \subseteq Nat
  OBVIOUS
<1> QED
  BY <1>2, <1>3, Greatest

LEMMA LookedUpType ==
  ASSUME vr \in Seq(Wave), NEW cite
  PROVE  LookedUp(cite) \in FoundType
<1>1. Unverified \in FoundType
  BY DEF Unverified, FoundType
<1>2. ASSUME WavesFor(cite) # {}
      PROVE  LookedUp(cite) \in FoundType
  <2> DEFINE wave == Max(WavesFor(cite))
  <2>1. Len(vr) \in Nat /\ WavesFor(cite) \subseteq 1..Len(vr)
    BY DEF WavesFor
  <2>2. wave \in WavesFor(cite)
    BY <1>2, <2>1, GreatestUpTo
  <2> HIDE DEF wave
  <2>3. vr[wave] \in Wave /\ RowsFor(cite, wave) # {}
    BY <2>2 DEF WavesFor
  <2>4. PICK S \in SUBSET Cite : vr[wave] \in [S -> FoundType]
    BY <2>3 DEF Wave
  <2>5. RowsFor(cite, wave) \subseteq S
    BY <2>4 DEF RowsFor
  <2>6. Max(RowsFor(cite, wave)) \in S
    BY <2>3, <2>5, GreatestOfCite
  <2>7. vr[wave][Max(RowsFor(cite, wave))] \in FoundType
    BY <2>4, <2>6
  <2> QED
    BY <1>2, <2>7 DEF LookedUp, wave
<1> QED
  BY <1>1, <1>2 DEF LookedUp

LEMMA RowsOfType ==
  ASSUME results \in [Cite -> FoundType], citations \subseteq Cite
  PROVE  RowsOf(citations) \in Wave
<1>1. RowsOf(citations) \in [citations -> FoundType]
  BY DEF RowsOf
<1> QED
  BY <1>1 DEF Wave

LEMMA LookUpType ==
  ASSUME NEW asked \in SUBSET Cite, NEW outcomes \in [Cite -> SUBSET Outcome],
         results \in [Cite -> FoundType], LookUp(asked, outcomes)
  PROVE  results' \in [Cite -> FoundType]
<1>1. \A o \in Outcome : o \in FoundType
  BY DEF Outcome, FoundType
<1>2. \A c \in Cite : results'[c] \in FoundType
  BY <1>1 DEF LookUp
<1>3. PICK R : results' \in [Cite -> R]
  BY DEF LookUp
<1> QED
  BY <1>2, <1>3

LEMMA TypeStep ==
  ASSUME FullInv, WorkTypeOK, [Next]_vars
  PROVE  WorkTypeOK'
<1> USE DEF WorkTypeOK
<1> HIDE DEF FullInv
<1>0. RowsOK
  BY DEF FullInv
<1>1. \A verb : Return(verb) => Stop \/ UNCHANGED callVars
  BY DEF Return
<1>2. Unverified \in FoundType
  BY DEF Unverified, FoundType
<1>3. Stop => results' \in [Cite -> FoundType] /\ citations' = {}
  BY <1>2 DEF Stop
<1>4. (\A c \in DOMAIN claims' : claims'[c].cited \in Cite
                                /\ claims'[c].match \in Case \cup {NoCase})
  <2>1. CASE Extracted
    <3>1. UNCHANGED claims \/ (LastAnswer \in Extraction
                               /\ claims' = [c \in Claim |-> NewRow(LastAnswer.claims[c])])
      <4>1. extracted # << >> => LastAnswer \in Extraction \cup {Invalid}
        <5>1. extracted # << >> => Len(extracted) \in 1..Len(extracted)
          BY EmptySeq
        <5> QED
          BY <5>1 DEF LastAnswer, Last
      <4> QED
        BY <2>1, <4>1 DEF Extracted, ExtractWrites
    <3>2. \A cite : NewRow(cite).cited = cite
      BY NewRowIs
    <3>3. LastAnswer \in Extraction => LastAnswer.claims \in [Claim -> Cite]
      BY WorkdirAssumption
    <3>4. CASE LastAnswer \in Extraction /\ claims' = [c \in Claim |-> NewRow(LastAnswer.claims[c])]
      <4>1. \A c \in DOMAIN claims' : claims'[c].cited \in Cite
        BY <3>2, <3>3, <3>4
      <4> QED
        BY <2>1, <4>1 DEF Extracted
    <3> QED
      BY <3>1, <3>4
  <2>2. CASE Joined
    <3>1. \A c \in DOMAIN claims : /\ IsRow(claims[c])
                                   /\ claims'[c] = Merged(claims[c])
      BY <1>0, <2>2 DEF Joined, RowsOK
    <3>2. \A c \in DOMAIN claims :
            /\ claims'[c].cited = claims[c].cited
            /\ claims'[c].match = LookedUp(claims[c].cited).match
      BY <3>1, MergedIs
    <3>3. \A cite : LookedUp(cite).match \in Case \cup {NoCase}
      BY LookedUpType DEF FoundType
    <3> QED
      BY <2>2, <3>2, <3>3 DEF Joined
  <2>3. CASE SameLinks
    BY <2>3 DEF SameLinks
  <2> QED
    BY <1>0, <2>1, <2>2, <2>3, RowsStep
<1>5. ASSUME UNCHANGED <<toa, body, vr, extracted>>,
             Stop \/ (UNCHANGED callVars /\ pc' \notin {"citations_toa", "citations_body"})
      PROVE  WorkTypeOK'
  BY <1>3, <1>4, <1>5 DEF Stop, callVars
<1>6. CASE ExtractDone \/ VerifyDone
  <2>1. UNCHANGED <<toa, body, vr, extracted>>
    BY <1>6 DEF ExtractDone, VerifyDone, fileVars
  <2>2. Stop \/ GoesOn("verify") \/ GoesOn("merge")
    BY <1>6, Returns DEF ExtractDone, VerifyDone
  <2> QED
    BY <1>5, <2>1, <2>2 DEF GoesOn
<1>7. CASE ExtractAsks
  <2>1. extracted' \in Seq(Extraction \cup {Invalid})
    <3>1. UNCHANGED extracted \/ \E e \in Extraction \cup {Invalid} : extracted' = << e >>
      BY <1>7 DEF ExtractAsks
    <3>2. \A e \in Extraction \cup {Invalid} : << e >> \in Seq(Extraction \cup {Invalid})
      OBVIOUS
    <3> QED
      BY <3>1, <3>2
  <2> QED
    BY <1>3, <1>4, <1>7, <2>1 DEF ExtractAsks, Stop, callVars
<1>8. CASE ExtractWrites
  <2>1. extracted # << >> => LastAnswer \in Extraction \cup {Invalid}
    <3>1. extracted # << >> => Len(extracted) \in 1..Len(extracted)
      BY EmptySeq
    <3> QED
      BY <3>1 DEF LastAnswer, Last
  <2> QED
    BY <1>3, <1>4, <1>8, <2>1 DEF ExtractWrites, Stop
<1>9. CASE ExtractToa \/ ExtractBody
  <2>1. answer.toa \subseteq Cite /\ answer.body \subseteq Cite
    BY <1>9, WorkdirAssumption DEF ExtractToa, ExtractBody
  <2> QED
    BY <1>3, <1>4, <1>9, <2>1, Returns DEF ExtractToa, ExtractBody, GoesOn, Stop, callVars
<1>10. CASE VerifyStarts
  <2>1. PICK list \in Explicit \cup {NotGiven} :
          Stop \/ citations' = IF list = NotGiven THEN CitationsFromWorkdir ELSE list
    BY <1>10 DEF VerifyStarts
  <2>2. list # NotGiven => list \in SUBSET Cite
    BY WorkdirAssumption
  <2> QED
    BY <1>3, <1>4, <1>10, <2>1, <2>2 DEF VerifyStarts, CitationsFromWorkdir, fileVars, Stop
<1>11. CASE Wave1
  <2>1. results' \in [Cite -> FoundType]
    BY <1>11, LookUpType, WorkdirAssumption DEF Wave1
  <2> QED
    BY <1>4, <1>11, <2>1 DEF Wave1, fileVars
<1>12. CASE Download
  <2>1. results' \in [Cite -> FoundType]
    <3>1. CASE UNCHANGED results
      BY <3>1
    <3>2. ASSUME NEW c, NEW k \in Fetchable(results[c].match), results[c].match # NoCase,
                 results' = [results EXCEPT ![c].match = k]
          PROVE  results' \in [Cite -> FoundType]
      <4>1. CASE c \in Cite
        <5>1. results[c].match \in Case
          BY <3>2, <4>1 DEF FoundType
        <5>2. k \in Case
          BY <3>2, <5>1, WorkdirAssumption DEF Fetchable
        <5>3. [results[c] EXCEPT !.match = k] \in FoundType
          BY <4>1, <5>2 DEF FoundType
        <5> QED
          BY <3>2, <5>3
      <4>2. CASE c \notin Cite
        BY <3>2, <4>2
      <4> QED
        BY <4>1, <4>2
    <3> QED
      BY <1>12, <3>1, <3>2 DEF Download
  <2> QED
    BY <1>4, <1>12, <2>1 DEF Download
<1>13. CASE WriteResults
  <2>1. vr' \in Seq(Wave)
    BY <1>13, RowsOfType DEF WriteResults
  <2> QED
    BY <1>4, <1>13, <2>1 DEF WriteResults, callVars
<1>14. CASE Wave2
  <2>1. Misses # {} /\ LookUp(Misses, Full) => results' \in [Cite -> FoundType]
    BY LookUpType, WorkdirAssumption DEF Misses
  <2>2. Misses \subseteq Cite
    BY DEF Misses
  <2> QED
    BY <1>3, <1>4, <1>14, <2>1, <2>2, Returns DEF Wave2, fileVars, GoesOn, Stop, callVars
<1>15. CASE AppendResults
  <2>1. vr' \in Seq(Wave)
    BY <1>15, RowsOfType DEF AppendResults
  <2> QED
    BY <1>3, <1>4, <1>15, <2>1, Returns DEF AppendResults, GoesOn, Stop, callVars
<1>16. CASE Merge
  BY <1>5, <1>16, Returns DEF Merge, GoesOn
<1>17. CASE CheckQuotes \/ RunCrosscheck \/ RunTriage
  BY <1>5, <1>17, Returns DEF CheckQuotes, RunCrosscheck, RunTriage, Rewrite, GoesOn
<1>18. CASE Assess
  BY <1>5, <1>18, Returns DEF Assess, fileVars, GoesOn
<1>19. CASE ApplyAssessments
  BY <1>5, <1>19, Returns DEF ApplyAssessments, GoesOn
<1>20. CASE WriteReport
  BY <1>5, <1>20 DEF WriteReport
<1>21. CASE Killed
  BY <1>5, <1>21 DEF Killed, Kill, fileVars
<1>22. CASE RunFull \/ RunVerb
  <2>1. \A verb \in Verb : verb \notin {"citations_toa", "citations_body"}
    BY VerbsAre
  <2> QED
    BY <1>4, <1>22, <2>1, VerbsAre DEF RunFull, RunVerb, Call, fileVars
<1>23. CASE ExtractAgent
  <2>1. extracted' \in Seq(Extraction \cup {Invalid})
    BY <1>23 DEF ExtractAgent, ExtractAnswered
  <2> QED
    BY <1>4, <1>23, <2>1 DEF ExtractAgent, ExtractAnswered, callVars
<1>24. CASE Agent \/ UNCHANGED vars
  BY <1>4, <1>24 DEF Agent, AgentReads, AgentSubmits, vars, workVars, fileVars, callVars
<1> QED
  BY <1>6, <1>7, <1>8, <1>9, <1>10, <1>11, <1>12, <1>13, <1>14, <1>15, <1>16, <1>17, <1>18,
     <1>19, <1>20, <1>21, <1>22, <1>23, <1>24 DEF Next, VerbStep

LEMMA TypeStart == Init => WorkTypeOK
<1> SUFFICES ASSUME Init PROVE WorkTypeOK
  OBVIOUS
<1>1. \A c \in DOMAIN claims : claims[c].cited \in Cite /\ claims[c].match = NoCase
  <2>1. CASE claims = << >>
    <3>1. DOMAIN claims = {}
      BY <2>1
    <3> QED
      BY <3>1
  <2>2. CASE claims \in {[c \in Claim |-> NewRow(p[c])] : p \in Prepared}
    <3>1. PICK p \in Prepared : claims = [c \in Claim |-> NewRow(p[c])]
      BY <2>2
    <3>2. \A cite : NewRow(cite).match = NoCase /\ NewRow(cite).cited = cite
      BY NewRowIs
    <3>3. p \in [Claim -> Cite]
      BY WorkdirAssumption
    <3> QED
      BY <3>1, <3>2, <3>3
  <2> QED
    BY <2>1, <2>2 DEF Init, WorkdirInit
<1>2. Unverified \in FoundType
  BY DEF Unverified, FoundType
<1> QED
  BY <1>1, <1>2 DEF Init, WorkdirInit, Idle, WorkTypeOK

-----------------------------------------------------------------------------
(* OwnFileIfStored *)

(* The address of a case tells its caption from that of any other case. *)
SlugsTell ==
  \A k \in Case :
    /\ IsFiniteSet(Slug[k]) /\ Similar(Slug[k], Caption[k])
    /\ \A n \in Case : Caption[n] # Caption[k] => Closer(Slug[k], Caption[k], Caption[n])

LEMMA OverlapType ==
  ASSUME NEW a, NEW b, IsFiniteSet(a), IsFiniteSet(b)
  PROVE  Cardinality(a \cap b) \in Nat /\ Cardinality(a \cup b) \in Nat
<1>1. IsFiniteSet(a \cap b)
  BY FS_Intersection
<1>2. IsFiniteSet(a \cup b)
  BY FS_Union
<1> QED
  BY <1>1, <1>2, FS_CardinalityType

LEMMA CloserIsStrict ==
  ASSUME NEW a, NEW b, NEW d, IsFiniteSet(a), IsFiniteSet(b), IsFiniteSet(d)
  PROVE  ~(Closer(a, b, d) /\ Closer(a, d, b))
<1> DEFINE p == Cardinality(a \cap b) * Cardinality(a \cup d)
           q == Cardinality(a \cap d) * Cardinality(a \cup b)
<1>1. p \in Nat /\ q \in Nat
  <2>1. \A m, n \in Nat : m * n \in Nat
    OBVIOUS
  <2> QED
    BY <2>1, OverlapType
<1>2. Closer(a, b, d) => p > q
  BY DEF Closer
<1>3. Closer(a, d, b) => q > p
  BY DEF Closer
<1> HIDE DEF p, q
<1> QED
  BY <1>1, <1>2, <1>3

(* Satisfied, for instance, where an address spells the caption out. *)
LEMMA SlugsThatTell ==
  ASSUME \A k \in Case : Slug[k] = Caption[k] /\ Caption[k] # {}
  PROVE  SlugsTell
<1> SUFFICES ASSUME NEW k \in Case
             PROVE  /\ IsFiniteSet(Slug[k]) /\ Similar(Slug[k], Caption[k])
                    /\ \A n \in Case : Caption[n] # Caption[k] =>
                         Closer(Slug[k], Caption[k], Caption[n])
  BY DEF SlugsTell
<1> DEFINE a == Caption[k]
<1>1. IsFiniteSet(a) /\ a # {} /\ Slug[k] = a
  BY WorkdirAssumption
<1> HIDE DEF a
<1>2. a \cap a = a /\ a \cup a = a
  OBVIOUS
<1>3. Cardinality(a) \in Nat /\ Cardinality(a) # 0
  BY <1>1, FS_CardinalityType, FS_EmptySet
<1>4. Similar(a, a)
  <2>1. 4 * Cardinality(a) >= Cardinality(a)
    BY <1>3
  <2> QED
    BY <1>1, <1>2, <2>1 DEF Similar
<1>5. ASSUME NEW d, IsFiniteSet(d), d # a
      PROVE  Closer(a, a, d)
  <2>1. Cardinality(a \cap d) \in Nat /\ Cardinality(a \cup d) \in Nat
    BY <1>1, <1>5, OverlapType
  <2>2. Cardinality(a \cap d) < Cardinality(a \cup d)
    <3>1. IsFiniteSet(a \cup d)
      BY <1>1, <1>5, FS_Union
    <3>2. a \cap d \in SUBSET (a \cup d) /\ a \cap d # a \cup d
      BY <1>5
    <3> QED
      BY <2>1, <3>1, <3>2, FS_Subset
  <2>3. \A m, x, y \in Nat : m # 0 /\ x < y => m * y > x * m
    <3>1. ASSUME NEW m \in Nat, NEW x \in Nat, NEW y \in Nat, m # 0, x < y
          PROVE  m * y > x * m
      <4>1. PICK d1 \in Nat : y = x + d1 /\ d1 >= 1
        <5>1. y - x \in Nat /\ y = x + (y - x) /\ y - x >= 1
          BY <3>1
        <5> QED
          BY <5>1
      <4>2. m * y = m * x + m * d1 /\ x * m = m * x
        BY <4>1
      <4>3. m * d1 > 0 /\ m * x \in Nat /\ m * d1 \in Nat
        BY <3>1, <4>1
      <4> QED
        BY <4>2, <4>3
    <3> QED
      BY <3>1
  <2>4. Cardinality(a) * Cardinality(a \cup d) > Cardinality(a \cap d) * Cardinality(a)
    BY <1>3, <2>1, <2>2, <2>3
  <2> QED
    BY <1>2, <2>4 DEF Closer
<1>6. \A n \in Case : IsFiniteSet(Caption[n])
  BY WorkdirAssumption
<1> QED
  BY <1>1, <1>4, <1>5, <1>6 DEF a

LEMMA OwnFileIsClosest ==
  ASSUME SlugsTell, NEW k \in Case, Caption[k] \in Stored
  PROVE  Closest(Slug[k]) = {Caption[k]}
<1>1. \A m \in Stored : \E n \in Case : m = Caption[n]
  BY DEF Stored, Names
<1>2. IsFiniteSet(Slug[k]) /\ \A n \in Case : IsFiniteSet(Caption[n])
  BY WorkdirAssumption DEF SlugsTell
<1>3. \A m \in Stored : m # Caption[k] => Closer(Slug[k], Caption[k], m)
  BY <1>1 DEF SlugsTell
<1>4. \A m \in Stored : ~Closer(Slug[k], m, Caption[k])
  <2> SUFFICES ASSUME NEW m \in Stored, Closer(Slug[k], m, Caption[k])
               PROVE  FALSE
    OBVIOUS
  <2>1. IsFiniteSet(m) /\ IsFiniteSet(Caption[k])
    BY <1>1, <1>2
  <2>2. Closer(Slug[k], Caption[k], m)
    BY <1>3
  <2> QED
    BY <1>2, <2>1, <2>2, CloserIsStrict
<1>5. Caption[k] \in Closest(Slug[k])
  BY <1>4 DEF Closest, SlugsTell
<1>6. \A m \in Closest(Slug[k]) : m = Caption[k]
  BY <1>3 DEF Closest
<1> QED
  BY <1>5, <1>6

(* OwnFileIfStored, where addresses tell the cases apart and nobody forces *)
(* a verb: verify may overwrite and swap files as it likes, but once it is *)
(* over the merge finds the file of the case itself.                       *)
THEOREM OwnFileWhenStored ==
  ASSUME MaxForced = 0, SlugsTell
  PROVE  Spec => []OwnFileIfStored
<1>1. Init => FullInv /\ SupportInv /\ WorkTypeOK
  BY FullStart, SupportStart, TypeStart
<1>2. FullInv /\ SupportInv /\ WorkTypeOK /\ [Next]_vars => (FullInv /\ SupportInv /\ WorkTypeOK)'
  BY SupportStep, TypeStep
<1>3. FullInv /\ SupportInv /\ WorkTypeOK => OwnFileIfStored
  <2> SUFFICES ASSUME SupportInv, WorkTypeOK, NEW c \in DOMAIN claims,
                      claims[c].match # NoCase, Caption[claims[c].match] \in Stored
               PROVE  claims[c].opinion = Caption[claims[c].match]
    BY DEF OwnFileIfStored
  <2> DEFINE k == claims[c].match
  <2>1. k \in Case
    BY DEF WorkTypeOK
  <2>2. claims[c].opinion = Linked(claims[c].cited, k)
    BY DEF SupportInv, LinkInv, LinkedRow
  <2>3. Closest(Slug[k]) = {Caption[k]}
    BY <2>1, OwnFileIsClosest
  <2>4. FileLike(Slug[k]) = Caption[k]
    BY <2>3 DEF FileLike
  <2> QED
    BY <2>2, <2>3, <2>4 DEF Linked
<1> QED
  BY <1>1, <1>2, <1>3, PTL DEF Spec

-----------------------------------------------------------------------------
(* MissesResolved *)

(* No two citations differ in their pinpoint only. *)
KeysTell == \A a, b \in Cite : Key[a] = Key[b] => a = b

(* Nothing is known of a citation that is not looked up. *)
NoneBeside(cites) == \A d \in Cite \ cites : results[d] = Unverified

(* What a citation is found to be once verify is over. *)
Resolved == \A c \in DOMAIN claims : LookedUp(claims[c].cited) = results[claims[c].cited]

(* What the file holds of a wave, as the process goes through the second.  *)
MemoryInv ==
  /\ pc \in {"extract", "citations_toa", "citations_body", "verify", "idle"} =>
       citations = {} /\ NoneBeside({}) /\ todo = {}
  /\ pc \in {"wave1", "downloads1"} => NoneBeside(citations) /\ todo \subseteq citations
  /\ pc = "wave2" => NoneBeside(citations) /\ vr = << RowsOf(citations) >>
  /\ pc = "downloads2" =>
       /\ vr = << vr[1] >> /\ citations \subseteq DOMAIN vr[1]
       /\ NoneBeside(DOMAIN vr[1])
       /\ \A d \in DOMAIN vr[1] \ citations : vr[1][d] = results[d]
       /\ todo \subseteq citations
  /\ pc = "merge" /\ citations # {} => Resolved
  /\ pc = "check_quotes" /\ citations # {} =>
       \A c \in DOMAIN claims : /\ claims[c].status = results[claims[c].cited].status
                                /\ claims[c].match = results[claims[c].cited].match

LEMMA LeastOfCite ==
  ASSUME NEW S, S \subseteq Cite, S # {}
  PROVE  Min(S) \in S
<1>1. S \in SUBSET Nat
  BY WorkdirAssumption
<1>2. PICK n \in S : \A m \in S : ~(<<m, n>> \in OpToRel(<, Nat))
  BY <1>1, NatLessThanWellFounded, WFMin
<1>3. ASSUME NEW m \in S, ~(m >= n)
      PROVE  FALSE
  <2>1. m \in Nat /\ n \in Nat
    BY <1>1, <1>2
  <2>2. m < n
    BY <1>3, <2>1
  <2>3. <<m, n>> \in OpToRel(<, Nat)
    BY <2>1, <2>2 DEF OpToRel
  <2> QED
    BY <1>2, <2>3
<1> QED
  BY <1>3 DEF Min

LEMMA AppendedTwo ==
  ASSUME NEW f, NEW g
  PROVE  Append(<<f>>, g) = <<f, g>>
<1>1. <<f>> \in Seq({f, g}) /\ Len(<<f>>) = 1 /\ <<f>>[1] = f /\ g \in {f, g}
  OBVIOUS
<1>2. /\ Append(<<f>>, g) \in Seq({f, g}) /\ Len(Append(<<f>>, g)) = 2
      /\ Append(<<f>>, g)[1] = f /\ Append(<<f>>, g)[2] = g
  BY <1>1, AppendProperties
<1>3. /\ <<f, g>> \in Seq({f, g}) /\ Len(<<f, g>>) = 2
      /\ <<f, g>>[1] = f /\ <<f, g>>[2] = g
  OBVIOUS
<1> DEFINE s == Append(<<f>>, g)
           t == <<f, g>>
<1>4. s \in Seq({f, g}) /\ t \in Seq({f, g}) /\ Len(s) = Len(t)
  BY <1>2, <1>3
<1>5. \A i \in 1..Len(s) : s[i] = t[i]
  BY <1>2, <1>3
<1> HIDE DEF s, t
<1>6. s = t
  BY <1>4, <1>5, SeqEqual
<1> QED
  BY <1>6 DEF s, t

(* The row of a citation: of the only wave, or of the later one of the two *)
(* that are on file after the second.                                      *)
LEMMA OneWave ==
  ASSUME KeysTell, NEW S \in SUBSET Cite, NEW f, vr = << [c \in S |-> f[c]] >>, NEW cite \in S
  PROVE  LookedUp(cite) = f[cite]
<1>1. DOMAIN vr = {1} /\ vr[1] = [c \in S |-> f[c]]
  OBVIOUS
<1>2. RowsFor(cite, 1) = {cite}
  BY <1>1 DEF RowsFor, KeysTell
<1>3. WavesFor(cite) = {1}
  BY <1>1, <1>2 DEF WavesFor
<1>4. Max({1}) = 1 /\ Max({cite}) = cite
  BY WorkdirAssumption DEF Max
<1>5. LookedUp(cite) = vr[1][cite]
  BY <1>2, <1>3, <1>4 DEF LookedUp
<1> QED
  BY <1>1, <1>5

LEMMA NoWave ==
  ASSUME KeysTell, NEW cite \in Cite, \A w \in DOMAIN vr : DOMAIN vr[w] \subseteq Cite \ {cite}
  PROVE  LookedUp(cite) = Unverified
<1>1. \A w \in DOMAIN vr : RowsFor(cite, w) = {}
  BY DEF RowsFor, KeysTell
<1>2. WavesFor(cite) = {}
  BY <1>1 DEF WavesFor
<1> QED
  BY <1>2 DEF LookedUp

LEMMA NoWaveNext ==
  ASSUME KeysTell, NEW cite \in Cite, \A w \in DOMAIN vr' : DOMAIN vr'[w] \subseteq Cite \ {cite}
  PROVE  LookedUp(cite)' = Unverified
<1>1. \A w \in DOMAIN vr' : RowsFor(cite, w)' = {}
  BY DEF RowsFor, KeysTell
<1>2. WavesFor(cite)' = {}
  BY <1>1 DEF WavesFor
<1> QED
  BY <1>2 DEF LookedUp

LEMMA TwoWaves ==
  ASSUME KeysTell, NEW f, NEW g, vr' = <<f, g>>,
         DOMAIN f \subseteq Cite, DOMAIN g \subseteq DOMAIN f, NEW cite \in DOMAIN f
  PROVE  LookedUp(cite)' = IF cite \in DOMAIN g THEN g[cite] ELSE f[cite]
<1>1. DOMAIN vr' = {1, 2} /\ vr'[1] = f /\ vr'[2] = g
  OBVIOUS
<1>2. /\ RowsFor(cite, 1)' = {cite}
      /\ RowsFor(cite, 2)' = IF cite \in DOMAIN g THEN {cite} ELSE {}
  BY <1>1 DEF RowsFor, KeysTell
<1>3. WavesFor(cite)' = IF cite \in DOMAIN g THEN {1, 2} ELSE {1}
  BY <1>1, <1>2 DEF WavesFor
<1>4. Max({1}) = 1 /\ Max({1, 2}) = 2 /\ Max({cite}) = cite
  BY WorkdirAssumption DEF Max
<1>5. CASE cite \in DOMAIN g
  <2>1. LookedUp(cite)' = vr'[2][cite]
    BY <1>2, <1>3, <1>4, <1>5 DEF LookedUp
  <2> QED
    BY <1>1, <1>5, <2>1
<1>6. CASE cite \notin DOMAIN g
  <2>1. LookedUp(cite)' = vr'[1][cite]
    BY <1>2, <1>3, <1>4, <1>6 DEF LookedUp
  <2> QED
    BY <1>1, <1>6, <2>1
<1> QED
  BY <1>5, <1>6

(* Where the process is none the wiser, and the files are the same. *)
LEMMA MemoryStays ==
  ASSUME MemoryInv, UNCHANGED <<claims, vr>>, Stop \/ UNCHANGED <<pc, citations, results, todo>>
  PROVE  MemoryInv'
<1>1. CASE Stop
  BY <1>1 DEF Stop, MemoryInv, NoneBeside
<1>2. CASE UNCHANGED <<pc, citations, results, todo>>
  <2>1. /\ \A s : NoneBeside(s)' = NoneBeside(s) /\ RowsOf(s)' = RowsOf(s)
        /\ Resolved' = Resolved
    BY <1>2, LookedUpFrame DEF NoneBeside, RowsOf, Resolved
  <2> QED
    BY <1>2, <2>1 DEF MemoryInv
<1> QED
  BY <1>1, <1>2

(* Past check_quotes memory says nothing, and before verify it is empty. *)
LEMMA MemoryElsewhere ==
  ASSUME \/ Stop
         \/ /\ pc' \in {"citations_toa", "citations_body", "extract", "verify"}
            /\ citations' = {} /\ NoneBeside({})' /\ todo' = {}
         \/ pc' \in {"crosscheck", "triage", "assess", "apply", "report"}
         \/ pc' \in {"merge", "check_quotes"} /\ citations' = {}
  PROVE  MemoryInv'
BY DEF MemoryInv, Stop, NoneBeside

LEMMA MemoryStep ==
  ASSUME KeysTell, FullInv, WorkTypeOK, MemoryInv, [Next]_vars
  PROVE  MemoryInv'
<1>1. CASE ExtractDone \/ ExtractWrites \/ ExtractToa \/ ExtractBody \/ VerifyDone
  <2>1. citations = {} /\ NoneBeside({}) /\ todo = {}
    BY <1>1 DEF ExtractDone, ExtractWrites, ExtractToa, ExtractBody, VerifyDone, MemoryInv
  <2>2. UNCHANGED results => NoneBeside({})'
    BY <2>1 DEF NoneBeside
  <2> QED
    BY <1>1, <2>1, <2>2, MemoryElsewhere, Returns DEF ExtractDone, ExtractWrites, ExtractToa,
       ExtractBody, VerifyDone, GoesOn, callVars
<1>2. CASE ExtractAsks
  BY <1>2, MemoryStays DEF ExtractAsks, callVars
<1>3. CASE VerifyStarts
  <2>1. CASE pc' = "wave1" /\ UNCHANGED <<results, todo>>
    <3>1. NoneBeside(citations)'
      BY <1>3, <2>1 DEF VerifyStarts, MemoryInv, NoneBeside
    <3>2. todo' = {}
      BY <1>3, <2>1 DEF VerifyStarts, MemoryInv
    <3> QED
      BY <2>1, <3>1, <3>2 DEF MemoryInv
  <2> QED
    BY <1>3, <2>1, MemoryElsewhere DEF VerifyStarts
<1>4. CASE Wave1
  <2>1. NoneBeside(citations)' /\ todo' \subseteq citations'
    BY <1>4 DEF Wave1, LookUp, NoneBeside, MemoryInv
  <2> QED
    BY <1>4, <2>1 DEF Wave1, MemoryInv
<1>5. CASE Download
  <2>1. UNCHANGED <<claims, vr, pc, citations>> /\ todo' \subseteq todo /\ todo # {}
        /\ pc \in {"downloads1", "downloads2"}
    BY <1>5 DEF Download
  <2>2. Min(todo) \in citations
    <3>1. todo \subseteq Cite /\ todo \subseteq citations
      BY <2>1 DEF MemoryInv, WorkTypeOK
    <3> QED
      BY <2>1, <3>1, LeastOfCite
  <2>3. \A d \in Cite \ citations : results'[d] = results[d]
    <3>1. \/ UNCHANGED results
          \/ \E k : results' = [results EXCEPT ![Min(todo)].match = k]
      BY <1>5 DEF Download
    <3> QED
      BY <2>2, <3>1 DEF WorkTypeOK
  <2>4. CASE pc = "downloads1"
    <3>1. NoneBeside(citations)'
      BY <2>1, <2>3, <2>4 DEF NoneBeside, MemoryInv
    <3> QED
      BY <2>1, <2>4, <3>1 DEF MemoryInv
  <2>5. CASE pc = "downloads2"
    <3>1. DOMAIN vr[1] \subseteq Cite
      <4>1. vr = << vr[1] >>
        BY <2>5 DEF MemoryInv
      <4>2. 1 \in 1..Len(vr)
        BY <4>1
      <4>3. vr[1] \in Wave
        BY <4>2, ElementOfSeq DEF WorkTypeOK
      <4> QED
        BY <4>3 DEF Wave
    <3>2. \A d \in DOMAIN vr[1] \ citations : vr[1][d] = results'[d]
      BY <2>3, <2>5, <3>1 DEF MemoryInv
    <3>3. NoneBeside(DOMAIN vr[1])'
      BY <2>1, <2>3, <2>5 DEF NoneBeside, MemoryInv
    <3> QED
      BY <2>1, <2>5, <3>2, <3>3 DEF MemoryInv
  <2> QED
    BY <2>1, <2>4, <2>5
<1>6. CASE WriteResults
  <2>1. NoneBeside(citations)'
    BY <1>6 DEF WriteResults, callVars, NoneBeside, MemoryInv
  <2>2. vr' = << RowsOf(citations) >> /\ RowsOf(citations)' = RowsOf(citations)
    BY <1>6 DEF WriteResults, callVars, RowsOf
  <2> QED
    BY <1>6, <2>1, <2>2 DEF WriteResults, MemoryInv
<1>7. CASE Wave2
  <2>1. NoneBeside(citations) /\ vr = << RowsOf(citations) >> /\ UNCHANGED <<claims, vr>>
    BY <1>7 DEF Wave2, MemoryInv, fileVars
  <2>2. CASE Return("verify")
    <3>1. Stop \/ (pc' = "merge" /\ UNCHANGED callVars)
      BY <2>2, Returns DEF GoesOn
    <3>2. vr = << [d \in citations |-> results[d]] >> /\ citations \in SUBSET Cite
      BY <2>1 DEF RowsOf, WorkTypeOK
    <3>3. \A d \in citations : LookedUp(d) = results[d]
      BY <3>2, OneWave
    <3>6. ASSUME NEW d \in Cite \ citations
          PROVE  LookedUp(d) = results[d]
      <4>1. \A w \in DOMAIN vr : DOMAIN vr[w] \subseteq Cite \ {d}
        BY <3>2, <3>6
      <4> QED
        BY <2>1, <4>1, NoWave DEF NoneBeside
    <3>4. Resolved
      BY <3>3, <3>6 DEF Resolved, WorkTypeOK
    <3>5. UNCHANGED callVars => Resolved'
      BY <2>1, <3>4, LookedUpFrame DEF Resolved, callVars
    <3> QED
      BY <3>1, <3>5, MemoryElsewhere DEF MemoryInv
  <2>3. CASE pc' = "downloads2" /\ LookUp(Misses, Full) /\ citations' = Misses
    <3>1. DOMAIN vr[1] = citations /\ \A d \in citations : vr[1][d] = results[d]
      BY <2>1 DEF RowsOf
    <3>2. \A d \in Cite \ Misses : results'[d] = results[d]
      BY <2>3 DEF LookUp
    <3>3. Misses \subseteq citations /\ todo' \subseteq Misses
      BY <2>3 DEF Misses, LookUp
    <3>4. \A d \in DOMAIN vr[1] \ Misses : vr[1][d] = results'[d]
      BY <3>1, <3>2 DEF WorkTypeOK
    <3>5. vr = << vr[1] >>
      BY <2>1
    <3>6. NoneBeside(DOMAIN vr[1])'
      BY <2>1, <2>3, <3>1, <3>2, <3>3 DEF NoneBeside
    <3> QED
      BY <2>1, <2>3, <3>1, <3>3, <3>4, <3>5, <3>6 DEF MemoryInv
  <2> QED
    BY <1>7, <2>2, <2>3 DEF Wave2
<1>8. CASE AppendResults
  <2>1. /\ vr = << vr[1] >> /\ citations \subseteq DOMAIN vr[1]
        /\ NoneBeside(DOMAIN vr[1])
        /\ \A d \in DOMAIN vr[1] \ citations : vr[1][d] = results[d]
    BY <1>8 DEF AppendResults, MemoryInv
  <2> DEFINE f == vr[1]
             g == RowsOf(citations)
  <2>2. Stop \/ (pc' = "merge" /\ UNCHANGED callVars)
    BY <1>8, Returns DEF AppendResults, GoesOn
  <2>3. vr' = <<f, g>>
    <3>1. vr' = Append(<<f>>, g)
      BY <1>8, <2>1 DEF AppendResults
    <3> HIDE DEF f, g
    <3> QED
      BY <3>1, AppendedTwo
  <2>4. DOMAIN f \subseteq Cite
    <3>1. 1 \in 1..Len(vr)
      BY <2>1
    <3>2. vr[1] \in Wave
      BY <3>1, ElementOfSeq DEF WorkTypeOK
    <3> QED
      BY <3>2 DEF Wave
  <2>5. DOMAIN g = citations /\ \A d \in citations : g[d] = results[d]
    BY DEF RowsOf
  <2>6. \A d \in DOMAIN f : LookedUp(d)' = IF d \in DOMAIN g THEN g[d] ELSE f[d]
    <3> HIDE DEF f, g
    <3> QED
      BY <2>1, <2>3, <2>4, <2>5, TwoWaves DEF f
  <2>7. \A d \in DOMAIN f : LookedUp(d)' = results[d]
    BY <2>1, <2>5, <2>6
  <2>10. ASSUME NEW d \in Cite \ DOMAIN f
         PROVE  LookedUp(d)' = results[d]
    <3>1. \A w \in DOMAIN vr' : DOMAIN vr'[w] \subseteq Cite \ {d}
      <4> HIDE DEF f, g
      <4>1. DOMAIN g \subseteq DOMAIN f
        BY <2>1, <2>5 DEF f
      <4> QED
        BY <2>3, <2>4, <2>10, <4>1
    <3>2. LookedUp(d)' = Unverified
      BY <3>1, NoWaveNext
    <3> QED
      BY <2>1, <2>10, <3>2 DEF NoneBeside
  <2>8. UNCHANGED <<claims, callVars>> => Resolved'
    BY <2>7, <2>10 DEF Resolved, callVars, WorkTypeOK
  <2>9. UNCHANGED claims
    BY <1>8 DEF AppendResults
  <2> QED
    BY <2>2, <2>8, <2>9, MemoryElsewhere DEF MemoryInv
<1>9. CASE Merge
  <2>1. CASE Stop
    BY <2>1, MemoryElsewhere
  <2>2. CASE claims' = [c \in DOMAIN claims |-> Merged(claims[c])] /\ Return("merge")
    <3>1. Stop \/ (pc' = "check_quotes" /\ UNCHANGED callVars)
      BY <2>2, Returns DEF GoesOn
    <3>2. \A c \in DOMAIN claims : IsRow(claims[c])
      BY DEF FullInv, RowsOK
    <3>3. \A c \in DOMAIN claims :
            /\ claims'[c].cited = claims[c].cited
            /\ claims'[c].status = LookedUp(claims[c].cited).status
            /\ claims'[c].match = LookedUp(claims[c].cited).match
      BY <2>2, <3>2, MergedIs
    <3>4. citations # {} => Resolved
      BY <1>9 DEF Merge, MemoryInv
    <3>5. DOMAIN claims' = DOMAIN claims
      BY <2>2
    <3> QED
      BY <3>1, <3>3, <3>4, <3>5, MemoryElsewhere DEF MemoryInv, Resolved, callVars
  <2> QED
    BY <1>9, <2>1, <2>2 DEF Merge
<1>10. CASE CheckQuotes \/ RunCrosscheck \/ RunTriage
  BY <1>10, MemoryElsewhere, Returns DEF CheckQuotes, RunCrosscheck, RunTriage, Rewrite, GoesOn
<1>11. CASE Assess \/ ApplyAssessments \/ WriteReport
  BY <1>11, MemoryElsewhere, Returns DEF Assess, ApplyAssessments, WriteReport, GoesOn
<1>12. CASE Killed
  BY <1>12, MemoryElsewhere DEF Killed, Kill
<1>13. CASE RunFull \/ RunVerb
  <2>1. PICK verb \in Verb, whole \in BOOLEAN, again \in BOOLEAN : Call(verb, whole, again)
    BY <1>13, VerbsAre DEF RunFull, RunVerb
  <2>2. citations' = {} /\ todo' = {} /\ NoneBeside({})'
    BY <2>1 DEF Call, MemoryInv, NoneBeside
  <2> QED
    BY <2>1, <2>2, VerbsAre, MemoryElsewhere DEF Call
<1>14. CASE ExtractAgent
  BY <1>14, MemoryStays DEF ExtractAgent, ExtractAnswered, callVars
<1>15. CASE Agent \/ UNCHANGED vars
  BY <1>15, MemoryStays DEF Agent, AgentReads, AgentSubmits, vars, workVars, fileVars, callVars
<1> QED
  BY <1>1, <1>2, <1>3, <1>4, <1>5, <1>6, <1>7, <1>8, <1>9, <1>10, <1>11, <1>12, <1>13, <1>14,
     <1>15 DEF Next, VerbStep

(* MissesResolved, where citations are told apart by their keys: whatever  *)
(* the first wave missed is merged with what the second wave found, forced *)
(* or not.  Two citations that share a key share the last row of either.   *)
THEOREM MissesAlwaysResolved ==
  ASSUME KeysTell
  PROVE  Spec => []MissesResolved
<1>1. Init => FullInv /\ WorkTypeOK /\ MemoryInv
  BY FullStart, TypeStart DEF Init, WorkdirInit, Idle, MemoryInv, NoneBeside
<1>2. FullInv /\ WorkTypeOK /\ MemoryInv /\ [Next]_vars => (FullInv /\ WorkTypeOK /\ MemoryInv)'
  BY FullStep, TypeStep, MemoryStep
<1>3. FullInv /\ WorkTypeOK /\ MemoryInv => MissesResolved
  <2> SUFFICES ASSUME WorkTypeOK, MemoryInv, pc = "check_quotes", citations # {},
                      NEW c \in DOMAIN claims
               PROVE  [status |-> claims[c].status, match |-> claims[c].match]
                        = results[claims[c].cited]
    BY DEF MissesResolved
  <2>1. /\ claims[c].status = results[claims[c].cited].status
        /\ claims[c].match = results[claims[c].cited].match
    BY DEF MemoryInv
  <2>2. results[claims[c].cited] \in FoundType
    BY DEF WorkTypeOK
  <2> QED
    BY <2>1, <2>2 DEF FoundType
<1> QED
  BY <1>1, <1>2, <1>3, PTL DEF Spec

-----------------------------------------------------------------------------
(* ListsVerified *)

(* Extraction alone says what a claim cites. *)
LEMMA CitedStays ==
  ASSUME RowsOK, [Next]_vars, ~ExtractWrites
  PROVE  /\ DOMAIN claims' = DOMAIN claims
         /\ \A c \in DOMAIN claims : claims'[c].cited = claims[c].cited
<1>1. CASE Joined
  <2>1. \A c \in DOMAIN claims : claims'[c] = Merged(claims[c]) /\ IsRow(claims[c])
    BY <1>1 DEF Joined, RowsOK
  <2>2. \A c \in DOMAIN claims : claims'[c].cited = claims[c].cited
    BY <2>1, MergedIs
  <2> QED
    BY <1>1, <2>2 DEF Joined
<1>2. CASE SameLinks
  BY <1>2 DEF SameLinks
<1> QED
  BY <1>1, <1>2, RowsStep DEF Extracted

(* The citations with a row in verification_results.csv. *)
Verified == UNION {DOMAIN vr[w] : w \in DOMAIN vr}

(* What verify is to look up: its own list, or what the work directory cites. *)
Due == IF given = NotGiven THEN CitationsFromWorkdir ELSE given

(* Without --force, what is due is what verify looks up, and stays what it *)
(* has looked up: the lists of the work directory do not grow afterwards.  *)
(* `full` does not go past the merge without claims and results.           *)
CoverInv ==
  /\ given = NotGiven =>
       /\ pc \in {"citations_toa", "citations_body"} => "verification_results.csv" \notin exists
       /\ "verification_results.csv" \in exists \/ pc \in Waves => "claims.csv" \in exists
  /\ pc \in {"wave1", "downloads1"} => Due \subseteq citations
  /\ "verification_results.csv" \in exists => Due \subseteq Verified
  /\ chain /\ pc \in After("merge") =>
       "claims.csv" \in exists /\ "verification_results.csv" \in exists

LEMMA CoverStep ==
  ASSUME FullInv, WorkTypeOK, FilesInv, CoverInv, [Next]_vars
  PROVE  CoverInv'
<1> USE DEF FilesInv
<1>0. RowsOK
  BY DEF FullInv
<1>1. ~ExtractWrites => /\ DOMAIN claims' = DOMAIN claims
                        /\ \A c \in DOMAIN claims : claims'[c].cited = claims[c].cited
  BY <1>0, CitedStays
<1>2. /\ ~ExtractWrites /\ UNCHANGED <<toa, body, given>> => UNCHANGED Due
      /\ given # NotGiven /\ UNCHANGED given => UNCHANGED Due
  BY <1>1 DEF CitationsFromWorkdir, Due
<1>3. UNCHANGED vr => UNCHANGED Verified
  BY DEF Verified
<1>4. After("merge") = {"check_quotes", "crosscheck", "triage", "assess", "apply", "report"}
  BY DEF After
(* A step that leaves the lists and the results alone. *)
<1>5. ASSUME ~ExtractWrites, UNCHANGED <<toa, body, vr, given>>,
             "verification_results.csv" \in exists' <=> "verification_results.csv" \in exists,
             "claims.csv" \in exists => "claims.csv" \in exists',
             \/ Stop
             \/ UNCHANGED <<pc, chain, citations>>
             \/ pc' \in {"extract", "verify", "merge"}
             \/ UNCHANGED chain /\ pc \in After("merge") /\ pc' \in After("merge")
      PROVE  CoverInv'
  <2>1. CASE Stop
    BY <1>2, <1>3, <1>4, <1>5, <2>1 DEF CoverInv, Stop, Waves
  <2>2. CASE UNCHANGED <<pc, chain, citations>>
    BY <1>2, <1>3, <1>5, <2>2 DEF CoverInv
  <2>3. CASE pc' \in {"extract", "verify", "merge"}
    BY <1>2, <1>3, <1>4, <1>5, <2>3 DEF CoverInv, Waves
  <2>4. CASE UNCHANGED chain /\ pc \in After("merge") /\ pc' \in After("merge")
    BY <1>2, <1>3, <1>4, <1>5, <2>4 DEF CoverInv, Waves
  <2> QED
    BY <1>5, <2>1, <2>2, <2>3, <2>4
<1>6. CASE ExtractWrites
  <2>1. given = NotGiven => "verification_results.csv" \notin exists
    BY <1>6 DEF ExtractWrites, Done, CoverInv
  <2>2. UNCHANGED <<given, vr>> /\ exists \subseteq exists'
        /\ ("verification_results.csv" \in exists' <=> "verification_results.csv" \in exists)
    BY <1>6 DEF ExtractWrites, besideVars
  <2>3. Stop \/ (pc' = "citations_toa" /\ UNCHANGED chain)
    BY <1>6 DEF ExtractWrites
  <2>4. pc' \notin {"wave1", "downloads1"} /\ pc' \notin Waves
        /\ (pc' \in After("merge") => chain' = FALSE)
    BY <1>4, <2>3 DEF Stop, Waves
  <2> QED
    BY <1>2, <1>3, <2>1, <2>2, <2>4 DEF CoverInv
<1>7. CASE ExtractToa \/ ExtractBody
  <2>1. given = NotGiven => "verification_results.csv" \notin exists
    BY <1>7 DEF ExtractToa, ExtractBody, CoverInv
  <2>2. UNCHANGED <<given, vr>> /\ exists \subseteq exists'
        /\ ("verification_results.csv" \in exists' <=> "verification_results.csv" \in exists)
    BY <1>7 DEF ExtractToa, ExtractBody, besideVars
  <2>3. pc' \in {"citations_body", "verify", "idle"}
    BY <1>7, Returns DEF ExtractToa, ExtractBody, GoesOn, Stop
  <2> QED
    BY <1>2, <1>3, <1>4, <2>1, <2>2, <2>3 DEF CoverInv, Waves
<1>8. CASE ~ExtractWrites /\ (ExtractDone \/ ExtractAsks \/ VerifyDone)
  <2>1. CASE ExtractDone
    BY <1>5, <1>8, <2>1, Returns DEF ExtractDone, fileVars, callVars, GoesOn, besideVars
  <2>2. CASE ExtractAsks
    BY <1>5, <1>8, <2>2 DEF ExtractAsks, callVars, besideVars
  <2>3. CASE VerifyDone
    BY <1>5, <1>8, <2>3, Returns DEF VerifyDone, fileVars, callVars, GoesOn, besideVars
  <2> QED
    BY <1>8, <2>1, <2>2, <2>3
<1>9. CASE ~ExtractWrites /\ VerifyStarts
  <2>1. CASE Stop
    <3>1. UNCHANGED <<fileVars, given>>
      BY <1>9, <2>1 DEF VerifyStarts, Stop
    <3> QED
      BY <1>5, <1>9, <2>1, <3>1 DEF fileVars
  <2>2. CASE /\ pc' = "wave1"
             /\ citations' = IF given' = NotGiven THEN CitationsFromWorkdir ELSE given'
             /\ given' = NotGiven => "claims.csv" \in exists
    <3>1. "verification_results.csv" \notin exists /\ UNCHANGED fileVars
      BY <1>9 DEF VerifyStarts, Done
    <3>2. UNCHANGED CitationsFromWorkdir
      BY <1>1, <1>9, <3>1 DEF CitationsFromWorkdir, fileVars
    <3>3. Due' = citations'
      BY <2>2, <3>2 DEF Due
    <3> QED
      BY <1>4, <2>2, <3>1, <3>3 DEF fileVars, CoverInv
  <2> QED
    BY <1>9, <2>1, <2>2 DEF VerifyStarts
<1>10. CASE ~ExtractWrites /\ Wave1
  BY <1>2, <1>3, <1>4, <1>10 DEF Wave1, fileVars, CoverInv, Waves, besideVars
<1>11. CASE ~ExtractWrites /\ Download
  BY <1>5, <1>11 DEF Download, besideVars
<1>12. CASE ~ExtractWrites /\ WriteResults
  <2>1. vr' = << RowsOf(citations) >> /\ DOMAIN RowsOf(citations) = citations
    BY <1>12 DEF WriteResults, RowsOf
  <2>2. DOMAIN vr' = {1} /\ vr'[1] = RowsOf(citations)
    BY <2>1
  <2>3. citations \subseteq Verified'
    BY <2>1, <2>2 DEF Verified
  <2>4. Due \subseteq citations
    BY <1>12 DEF WriteResults, CoverInv
  <2> QED
    BY <1>2, <1>4, <1>12, <2>3, <2>4 DEF WriteResults, CoverInv, Waves, besideVars
<1>13. CASE ~ExtractWrites /\ Wave2
  <2>1. CASE Return("verify")
    BY <1>5, <1>13, <2>1, Returns DEF Wave2, fileVars, GoesOn, besideVars
  <2>2. CASE pc' = "downloads2"
    BY <1>2, <1>3, <1>4, <1>13, <2>2 DEF Wave2, fileVars, CoverInv, Waves, besideVars
  <2> QED
    BY <1>13, <2>1, <2>2 DEF Wave2
<1>14. CASE ~ExtractWrites /\ AppendResults
  <2>1. Verified \subseteq Verified'
    <3> SUFFICES ASSUME NEW w \in DOMAIN vr
                 PROVE  DOMAIN vr[w] \subseteq Verified'
      BY DEF Verified
    <3>1. RowsOf(citations) \in Wave
      BY RowsOfType DEF WorkTypeOK
    <3>2. w \in DOMAIN vr' /\ vr'[w] = vr[w]
      BY <1>14, <3>1 DEF AppendResults, WorkTypeOK
    <3> QED
      BY <3>2 DEF Verified
  <2>2. Stop \/ pc' = "merge"
    BY <1>14, Returns DEF AppendResults, GoesOn
  <2> QED
    BY <1>2, <1>4, <1>14, <2>1, <2>2 DEF AppendResults, CoverInv, Stop, Waves, besideVars
<1>15. CASE ~ExtractWrites /\ Merge
  <2>1. CASE Stop
    BY <1>5, <1>15, <2>1 DEF Merge, besideVars
  <2>2. CASE GoesOn("check_quotes") /\ {"claims.csv", "verification_results.csv"} \subseteq exists
    BY <1>2, <1>3, <1>15, <2>2 DEF Merge, GoesOn, CoverInv, Waves, besideVars
  <2> QED
    BY <1>15, <2>1, <2>2, Returns DEF Merge
<1>16. CASE ~ExtractWrites /\ (CheckQuotes \/ RunCrosscheck \/ RunTriage)
  BY <1>4, <1>5, <1>16, Returns DEF CheckQuotes, RunCrosscheck, RunTriage, Rewrite, GoesOn, callVars,
     besideVars
<1>17. CASE ~ExtractWrites /\ (Assess \/ ApplyAssessments)
  BY <1>4, <1>5, <1>17, Returns DEF Assess, ApplyAssessments, fileVars, GoesOn, callVars,
     besideVars
<1>18. CASE ~ExtractWrites /\ WriteReport
  BY <1>5, <1>18 DEF WriteReport, besideVars
<1>19. CASE ~ExtractWrites /\ Killed
  BY <1>5, <1>19 DEF Killed, Kill, fileVars
<1>20. CASE ~ExtractWrites /\ (RunFull \/ RunVerb)
  <2>1. PICK verb \in Verb, whole \in BOOLEAN, again \in BOOLEAN :
          Call(verb, whole, again) /\ (whole => verb \in {"extract", "verify"})
    BY <1>20, VerbsAre DEF RunFull, RunVerb
  <2> QED
    BY <1>2, <1>3, <1>4, <1>20, <2>1, VerbsAre DEF Call, fileVars, CoverInv, Waves
<1>21. CASE ~ExtractWrites /\ (ExtractAgent \/ Agent \/ UNCHANGED vars)
  BY <1>5, <1>21 DEF ExtractAgent, ExtractAnswered, Agent, AgentReads, AgentSubmits, vars,
     workVars, fileVars, callVars, besideVars
<1> QED
  BY <1>6, <1>7, <1>8, <1>9, <1>10, <1>11, <1>12, <1>13, <1>14, <1>15, <1>16, <1>17, <1>18,
     <1>19, <1>20, <1>21 DEF Next, VerbStep

(* The rows of claims.csv are those of an answer that passed validation.   *)
RowsOfAnswer(e) ==
  /\ e \in Range(extracted) /\ e # Invalid /\ DOMAIN claims = Claim
  /\ \A c \in DOMAIN claims : claims[c].cited = e.claims[c]

(* Where no kill came between, so are the lists once extract is over; the  *)
(* answer is in memory until then.  A table the user wrote is never asked  *)
(* about.                                                                  *)
AnswerInv ==
  /\ pc \in {"citations_toa", "citations_body"} => RowsOfAnswer(answer)
  /\ pc = "citations_body" => toa = answer.toa
  /\ "claims.csv" \in exists /\ extracted = << >> => "extract.json" \notin exists
  /\ ("claims.csv" \in exists /\ extracted # << >>
       /\ pc \notin {"citations_toa", "citations_body"}) =>
       \E e \in Range(extracted) : RowsOfAnswer(e) /\ toa = e.toa /\ body = e.body

(* An answer that is appended takes nothing from the others. *)
LEMMA AnswersStay ==
  ASSUME NEW S, extracted \in Seq(S), NEW e \in S, extracted' = Append(extracted, e)
  PROVE  Range(extracted) \subseteq Range(extracted)' /\ extracted' # << >>
<1>1. ASSUME NEW a \in Range(extracted)
      PROVE  a \in Range(extracted)'
  <2>1. PICK i \in DOMAIN extracted : extracted[i] = a
    BY <1>1 DEF Range
  <2>2. i \in DOMAIN extracted' /\ extracted'[i] = a
    BY <2>1
  <2> QED
    BY <2>2 DEF Range
<1>2. Len(extracted') = Len(extracted) + 1
  OBVIOUS
<1> QED
  BY <1>1, <1>2

LEMMA AnswerStep ==
  ASSUME FullInv, WorkTypeOK, FilesInv, AnswerInv, [Next]_vars, ~Killed
  PROVE  AnswerInv'
<1> USE DEF FilesInv
<1>0. RowsOK
  BY DEF FullInv
<1>1. ~ExtractWrites => /\ DOMAIN claims' = DOMAIN claims
                        /\ \A c \in DOMAIN claims : claims'[c].cited = claims[c].cited
  BY <1>0, CitedStays
<1>2. ASSUME ~ExtractWrites, Range(extracted) \subseteq Range(extracted)'
      PROVE  /\ \A e : RowsOfAnswer(e) => RowsOfAnswer(e)'
             /\ UNCHANGED answer /\ RowsOfAnswer(answer) => RowsOfAnswer(answer)'
  BY <1>1, <1>2 DEF RowsOfAnswer
<1>3. extracted # << >> => LastAnswer \in Range(extracted)
  <2>1. extracted # << >> => Len(extracted) \in DOMAIN extracted
    BY EmptySeq DEF WorkTypeOK
  <2> QED
    BY <2>1 DEF LastAnswer, Last, Range
(* Any step of another verb. *)
<1>4. ASSUME ~ExtractWrites, UNCHANGED <<toa, body, extracted>>,
             "claims.csv" \in exists' <=> "claims.csv" \in exists,
             "extract.json" \in exists' <=> "extract.json" \in exists,
             \/ UNCHANGED <<pc, answer>>
             \/ {pc, pc'} \cap {"citations_toa", "citations_body"} = {}
      PROVE  AnswerInv'
  <2>1. \A e : RowsOfAnswer(e) => RowsOfAnswer(e)'
    BY <1>2, <1>4 DEF Range
  <2>2. CASE UNCHANGED <<pc, answer>>
    BY <1>4, <2>1, <2>2 DEF AnswerInv, Range
  <2>3. CASE {pc, pc'} \cap {"citations_toa", "citations_body"} = {}
    BY <1>4, <2>1, <2>3 DEF AnswerInv, Range
  <2> QED
    BY <1>4, <2>2, <2>3
<1>5. CASE ExtractWrites
  <2>1. "claims.csv" \notin exists /\ extracted # << >> /\ UNCHANGED <<toa, body, extracted>>
    BY <1>5 DEF ExtractWrites, Done
  <2>2. CASE Stop /\ UNCHANGED <<exists, claims>>
    BY <2>1, <2>2 DEF AnswerInv, Stop
  <2>3. CASE LastAnswer # Invalid /\ answer' = LastAnswer /\ pc' = "citations_toa"
             /\ claims' = [c \in Claim |-> NewRow(answer'.claims[c])]
    <3>1. \A cite : NewRow(cite).cited = cite
      BY NewRowIs
    <3>2. DOMAIN claims' = Claim /\ \A c \in Claim : claims'[c] = NewRow(answer'.claims[c])
      BY <2>3
    <3>3. \A c \in DOMAIN claims' : claims'[c].cited = answer'.claims[c]
      BY <3>1, <3>2
    <3>4. answer' \in Range(extracted)'
      BY <1>3, <2>1, <2>3 DEF Range
    <3>5. RowsOfAnswer(answer)'
      BY <2>3, <3>3, <3>4 DEF RowsOfAnswer
    <3> QED
      BY <2>1, <2>3, <3>5 DEF AnswerInv
  <2> QED
    BY <1>5, <2>2, <2>3 DEF ExtractWrites
<1>6. CASE ~ExtractWrites /\ ExtractToa
  <2>1. RowsOfAnswer(answer)
    BY <1>6 DEF ExtractToa, AnswerInv
  <2>2. RowsOfAnswer(answer)'
    BY <1>2, <1>6, <2>1 DEF ExtractToa, callVars, Range
  <2> QED
    BY <1>6, <2>2 DEF ExtractToa, AnswerInv, callVars
<1>7. CASE ~ExtractWrites /\ ExtractBody
  <2>1. RowsOfAnswer(answer)
    BY <1>7 DEF ExtractBody, AnswerInv
  <2>2. \E e \in Range(extracted)' : RowsOfAnswer(e)' /\ toa' = e.toa /\ body' = e.body
    <3>1. answer \in Range(extracted)'
      BY <1>7, <2>1 DEF ExtractBody, RowsOfAnswer, Range
    <3>2. \A e : RowsOfAnswer(e) => RowsOfAnswer(e)'
      BY <1>2, <1>7 DEF ExtractBody, Range
    <3>3. toa' = answer.toa /\ body' = answer.body
      BY <1>7 DEF ExtractBody, AnswerInv
    <3> QED
      BY <2>1, <3>1, <3>2, <3>3
  <2>3. pc' \notin {"citations_toa", "citations_body"}
    BY <1>7, Returns DEF ExtractBody, Stop, GoesOn
  <2>4. ("claims.csv" \in exists' /\ extracted' = << >> => "extract.json" \notin exists')
    BY <1>7 DEF ExtractBody, AnswerInv
  <2> QED
    BY <2>2, <2>3, <2>4 DEF AnswerInv
<1>8. CASE ~ExtractWrites /\ ExtractDone
  BY <1>4, <1>8, Returns DEF ExtractDone, fileVars, Stop, GoesOn
<1>9. CASE ~ExtractWrites /\ ExtractAsks
  <2>1. "claims.csv" \notin exists /\ "claims.csv" \notin exists'
    BY <1>9 DEF ExtractAsks, Done
  <2>2. pc' \notin {"citations_toa", "citations_body"}
    BY <1>9 DEF ExtractAsks, Stop
  <2> QED
    BY <2>1, <2>2 DEF AnswerInv
<1>10. CASE ~ExtractWrites /\ ExtractAgent
  <2>1. PICK e \in Extraction \cup {Invalid} : extracted' = Append(extracted, e)
    BY <1>10 DEF ExtractAgent, ExtractAnswered
  <2>2. Range(extracted) \subseteq Range(extracted)' /\ extracted' # << >>
    BY <2>1, AnswersStay DEF WorkTypeOK
  <2>3. \A a : RowsOfAnswer(a) => RowsOfAnswer(a)'
    BY <1>2, <1>10, <2>2
  <2>4. "extract.json" \in exists /\ UNCHANGED <<exists, toa, body, pc, answer>>
    BY <1>10 DEF ExtractAgent, ExtractAnswered, callVars
  <2>5. "claims.csv" \in exists => extracted # << >>
    BY <2>4 DEF AnswerInv
  <2>6. RowsOfAnswer(answer) => RowsOfAnswer(answer)'
    BY <1>2, <1>10, <2>2, <2>4
  <2> QED
    BY <2>2, <2>3, <2>4, <2>5, <2>6 DEF AnswerInv
<1>11. CASE ~ExtractWrites /\ (VerifyDone \/ VerifyStarts \/ Wave1 \/ Download)
  BY <1>4, <1>11, Returns DEF VerifyDone, VerifyStarts, Wave1, Download, fileVars, Stop, GoesOn
<1>12. CASE ~ExtractWrites /\ (WriteResults \/ Wave2 \/ AppendResults)
  BY <1>4, <1>12, Returns DEF WriteResults, Wave2, AppendResults, fileVars, Stop, GoesOn
<1>13. CASE ~ExtractWrites /\ (Merge \/ CheckQuotes \/ RunCrosscheck \/ RunTriage)
  BY <1>4, <1>13, Returns DEF Merge, CheckQuotes, RunCrosscheck, RunTriage, Rewrite, Stop, GoesOn
<1>14. CASE ~ExtractWrites /\ (Assess \/ ApplyAssessments \/ WriteReport)
  BY <1>4, <1>14, Returns DEF Assess, ApplyAssessments, WriteReport, fileVars, Stop, GoesOn
<1>15. CASE ~ExtractWrites /\ (RunFull \/ RunVerb)
  <2>1. PICK verb \in Verb : pc' = verb /\ pc = "idle" /\ UNCHANGED fileVars
    BY <1>15, VerbsAre DEF RunFull, RunVerb, Call
  <2>2. verb \notin {"citations_toa", "citations_body"}
    BY VerbsAre
  <2> QED
    BY <1>4, <1>15, <2>1, <2>2 DEF fileVars
<1>16. CASE ~ExtractWrites /\ (Agent \/ UNCHANGED vars)
  BY <1>4, <1>16 DEF Agent, AgentReads, AgentSubmits, vars, workVars, fileVars, callVars
<1> QED
  BY <1>5, <1>6, <1>7, <1>8, <1>9, <1>10, <1>11, <1>12, <1>13, <1>14, <1>15, <1>16
  DEF Next, VerbStep

(* Neither bound is ever taken back. *)
LEMMA BoundsStep ==
  ASSUME kills \in Nat, forced \in Nat, [Next]_vars
  PROVE  /\ kills' \in Nat /\ forced' \in Nat
         /\ forced' = 0 => forced = 0
         /\ kills' = 0 => kills = 0 /\ ~Killed
<1>1. UNCHANGED <<kills, forced>> \/ Killed \/ RunFull \/ RunVerb
  BY DEF Next, VerbStep, ExtractDone, ExtractAsks, ExtractWrites, ExtractToa, ExtractBody,
     VerifyDone, VerifyStarts, Wave1, Download, WriteResults, Wave2, AppendResults, Merge,
     CheckQuotes, RunCrosscheck, RunTriage, Rewrite, Assess, ApplyAssessments, WriteReport,
     ExtractAgent, ExtractAnswered, Agent, AgentReads, AgentSubmits, vars, workVars,
     besideVars
<1>2. CASE UNCHANGED <<kills, forced>>
  BY <1>2 DEF Killed, Kill
<1>3. CASE Killed
  BY <1>3 DEF Killed, Kill
<1>4. CASE RunFull \/ RunVerb
  BY <1>4 DEF RunFull, RunVerb, Call, Killed, Kill
<1> QED
  BY <1>1, <1>2, <1>3, <1>4

ListsInv ==
  /\ FullInv /\ WorkTypeOK /\ kills \in Nat /\ forced \in Nat
  /\ forced = 0 => FilesInv /\ CoverInv
  /\ forced = 0 /\ kills = 0 => AnswerInv

(* ListsVerified, for any document and any answers of its agents. *)
THEOREM ListsAlwaysVerified == Spec => []ListsVerified
<1>1. Init => ListsInv
  <2> SUFFICES ASSUME Init PROVE ListsInv
    OBVIOUS
  <2>1. FullInv /\ WorkTypeOK
    BY FullStart, TypeStart
  <2>2. exists = {} => DOMAIN claims = {}
    <3>1. claims = << >> => DOMAIN claims = {}
      OBVIOUS
    <3> QED
      BY <3>1 DEF Init, WorkdirInit
  <2>3. FilesInv
    BY <2>2 DEF Init, WorkdirInit, Idle, FilesInv, Waves
  <2>4. CoverInv /\ AnswerInv
    BY DEF Init, WorkdirInit, Idle, CoverInv, AnswerInv, Waves
  <2> QED
    BY <2>1, <2>3, <2>4 DEF ListsInv, Init, WorkdirInit
<1>2. ListsInv /\ [Next]_vars => ListsInv'
  <2> SUFFICES ASSUME ListsInv, [Next]_vars PROVE ListsInv'
    OBVIOUS
  <2>1. (FullInv /\ WorkTypeOK)'
    BY FullStep, TypeStep DEF ListsInv
  <2>2. /\ kills' \in Nat /\ forced' \in Nat /\ (forced' = 0 => forced = 0)
        /\ kills' = 0 => kills = 0 /\ ~Killed
    BY BoundsStep DEF ListsInv
  <2>3. forced' = 0 => FilesInv' /\ CoverInv'
    BY <2>2, FilesStep, CoverStep DEF ListsInv
  <2>4. forced' = 0 /\ kills' = 0 => AnswerInv'
    BY <2>2, AnswerStep DEF ListsInv
  <2> QED
    BY <2>1, <2>2, <2>3, <2>4 DEF ListsInv
<1>3. ListsInv => ListsVerified
  <2> SUFFICES ASSUME ListsInv, Reporting, extracted # << >>, kills = 0, forced = 0
               PROVE  \E e \in Range(extracted) \ {Invalid} :
                        /\ \A c \in DOMAIN claims : claims[c].cited = e.claims[c]
                        /\ toa = e.toa /\ body = e.body
                        /\ (IF given = NotGiven
                            THEN Range(e.claims) \cup e.toa \cup e.body ELSE given) \subseteq Verified
    BY DEF ListsVerified, Verified
  <2>1. FilesInv /\ CoverInv /\ AnswerInv /\ chain /\ pc = "report"
    BY DEF ListsInv, Reporting
  <2>2. "verification_results.csv" \in exists /\ "claims.csv" \in exists
    BY <2>1 DEF CoverInv, After
  <2>3. Due \subseteq Verified
    BY <2>1, <2>2 DEF CoverInv
  <2>4. PICK e \in Range(extracted) : RowsOfAnswer(e) /\ toa = e.toa /\ body = e.body
    BY <2>1, <2>2 DEF AnswerInv
  <2>5. e # Invalid /\ DOMAIN claims = Claim /\ \A c \in Claim : claims[c].cited = e.claims[c]
    BY <2>4 DEF RowsOfAnswer
  <2>6. e \in Extraction
    <3>1. extracted \in Seq(Extraction \cup {Invalid})
      BY DEF ListsInv, WorkTypeOK
    <3> QED
      BY <2>5, <3>1 DEF Range
  <2>7. Range(e.claims) \subseteq {claims[c].cited : c \in DOMAIN claims}
    <3>1. DOMAIN e.claims = Claim
      BY <2>6, WorkdirAssumption
    <3> QED
      BY <2>5, <3>1 DEF Range
  <2>8. given = NotGiven => Range(e.claims) \cup e.toa \cup e.body \subseteq Due
    BY <2>4, <2>7 DEF Due, CitationsFromWorkdir
  <2>9. (IF given = NotGiven
         THEN Range(e.claims) \cup e.toa \cup e.body ELSE given) \subseteq Verified
    BY <2>3, <2>8 DEF Due
  <2> QED
    BY <2>4, <2>5, <2>9
<1> QED
  BY <1>1, <1>2, <1>3, PTL DEF Spec
=============================================================================
