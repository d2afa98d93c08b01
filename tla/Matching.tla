------------------------------ MODULE Matching ------------------------------
(***************************************************************************)
(* The decisions of the verifier that are functions of what it was given:  *)
(* is this record the case (Captions), how well does it match (MatchScore),*)
(* which document of a docket is the ruling (MatchScore), which text does  *)
(* a page give (Retrieval), are these the words (QuoteMatcher).  A session *)
(* asks one of these questions after another; the state is the last one.   *)
(***************************************************************************)
EXTENDS Naturals, Sequences, FiniteSets

CONSTANTS
    \* vocabulary of the captions
    Stop, Short, Generic, Placeholder, Government, LookupPrefix, OverlapPrefix,
    Acronym, Initial, Within, Base,
    \* tables of the scores
    KnownCourt, StateReporter, GateYears, EraFloor,
    \* tokens of the quotations
    Ellipsis, Bracket, StarPage, SmallNumber, QuantityLead, EllipsisLimit,
    EndOf, StartOf, PartOf,         \* words inside words
    \* what is asked
    CitedNames, CaptionSets,        \* names of a brief, captions of a record
    CitedCases, Records,            \* parsed citations, search results
    CitedDates, DocumentRecords, Dockets, Brought,  \* the same for documents
    Pages, Outcomes,                \* pages, and [page -> how its calls may end]
    Quotes, Opinions                \* texts

VARIABLE asked

Names == INSTANCE Captions
Scores == INSTANCE MatchScore
Texts == INSTANCE Retrieval
Words == INSTANCE QuoteMatcher

Nothing == [about |-> "nothing"]
Init == asked = Nothing

----------------------------------------------------------------------------
AskName ==
    /\ asked = Nothing
    /\ \E c \in CitedNames, w \in CaptionSets, failing \in SUBSET {"cluster", "docket", "text"} :
           asked' = [about |-> "name", c |-> c, w |-> w, failing |-> failing]

AskScore ==
    /\ asked = Nothing
    /\ \E c \in CitedCases, r \in Records :
           asked' = [about |-> "score", c |-> c, r |-> r]

AskDocument ==
    /\ asked = Nothing
    /\ \E c \in CitedDates, r \in DocumentRecords, docket \in Dockets, docs \in Brought,
          failing \in SUBSET (1..3) :
           /\ docs \subseteq docket
           /\ asked' = [about |-> "document", c |-> c, r |-> r, docs |-> docs,
                        docket |-> docket, failing |-> failing]

AskText ==
    /\ asked = Nothing
    /\ \E page \in Pages, preferHtml \in BOOLEAN : \E out \in Outcomes[page] :
           asked' = [about |-> "text", page |-> page, preferHtml |-> preferHtml, out |-> out]

\* The place found in the opinion is any stretch of it.
AskQuote ==
    /\ asked = Nothing
    /\ \E quote \in Quotes, opinion \in Opinions, poor \in BOOLEAN :
           \E from \in 1..Len(opinion) : \E to \in from..Len(opinion) :
               asked' = [about |-> "quote", quote |-> quote, opinion |-> opinion,
                         from |-> from, to |-> to, poor |-> poor]

Done == asked # Nothing /\ asked' = Nothing

Next ==
    AskName \/ AskScore \/ AskDocument \/ AskText \/ AskQuote \/ Done

Spec == Init /\ [][Next]_asked

----------------------------------------------------------------------------
\* Whatever calls of the investigation fail, a citation resolves to a record
\* only on a word of its own name that is neither generic nor a fragment, on
\* an acronym, on the first word of a government's opponent, or because its
\* name says nothing (verifier.py, _names_match_citation_lookup,
\* _investigate_caption_async).
NameOnEvidence ==
    asked.about = "name" => Names!AcceptedOnEvidence(asked.c, asked.w, asked.failing)

\* A record that agrees with the citation in more, and in nothing less, never
\* scores lower than another (verifier.py, _score_match).
AgreementHelps ==
    asked.about = "score" =>
        \A s \in Records : Scores!AgreementNeverHurts(asked.c, asked.r, s)

\* Of a docket that holds a ruling of the very day cited, a document of that
\* day is shown that is a ruling or free (verifier.py, _has_recap_date_match,
\* _docket_date_ranges, _pick_best_recap_doc).
ExactDateWins ==
    asked.about = "document" =>
        Scores!ExactDateShown(asked.c, asked.r, asked.docs, asked.docket, asked.failing)

\* A failing call costs a text and never puts another document's in its
\* place, and both clients give the same (client.py).
TextIsOfDocument ==
    asked.about = "text" =>
        /\ Texts!FailureNeverSubstitutes(asked.page, asked.preferHtml, asked.out)
        /\ Texts!ClientsAgree(asked.page, asked.preferHtml, asked.out)
        /\ Texts!EntryKeepsItsText(asked.page, asked.preferHtml, asked.out)

\* A verbatim quote can be read in the opinion, its first and last word perhaps
\* inside one, and what the reading leaves out is disclosed (quote_matcher.py,
\* verify_quote).
VerbatimReads ==
    asked.about = "quote" =>
        Words!VerbatimReading(asked.quote, asked.opinion, asked.from, asked.to, asked.poor)

\* "A bracketed alteration stands for exactly ONE word" (quote_matcher.py, on
\* _GAP_SPAN_LIMIT).
OneWordPerBracket ==
    asked.about = "quote" =>
        Words!BracketStandsForOne(asked.quote, asked.opinion, asked.from, asked.to, asked.poor)
=============================================================================
