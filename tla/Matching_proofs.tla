--------------------------- MODULE Matching_proofs ---------------------------
(***************************************************************************)
(* Proofs about Matching, for any vocabulary, tables, names, records,      *)
(* dockets, pages and texts.  A question keeps what it was asked with, so  *)
(* each property is a statement about the functions of Captions,           *)
(* MatchScore, Retrieval and QuoteMatcher.                                 *)
(***************************************************************************)
EXTENDS Matching, SequenceTheorems, WellFoundedInduction, TLAPS

\* What a question holds is what it was asked with.
Question ==
    \/ asked = Nothing
    \/ \E c \in CitedNames, w \in CaptionSets, failing \in SUBSET {"cluster", "docket", "text"} :
           asked = [about |-> "name", c |-> c, w |-> w, failing |-> failing]
    \/ \E c \in CitedCases, r \in Records : asked = [about |-> "score", c |-> c, r |-> r]
    \/ \E c \in CitedDates, r \in DocumentRecords, docket \in Dockets, docs \in Brought,
          failing \in SUBSET (1..3) :
           /\ docs \subseteq docket
           /\ asked = [about |-> "document", c |-> c, r |-> r, docs |-> docs,
                       docket |-> docket, failing |-> failing]
    \/ \E page \in Pages, preferHtml \in BOOLEAN : \E out \in Outcomes[page] :
           asked = [about |-> "text", page |-> page, preferHtml |-> preferHtml, out |-> out]
    \/ \E quote \in Quotes, opinion \in Opinions, poor \in BOOLEAN :
           \E from \in 1..Len(opinion) : \E to \in from..Len(opinion) :
               asked = [about |-> "quote", quote |-> quote, opinion |-> opinion,
                        from |-> from, to |-> to, poor |-> poor]

\* Every state of a session is a question that the constants allow.
LEMMA QuestionsAsAsked == Spec => []Question
<1>1. Init => Question
  BY DEF Init, Question
<1>2. Question /\ [Next]_asked => Question'
  <2> SUFFICES ASSUME Question, [Next]_asked PROVE Question'
    OBVIOUS
  <2>1. CASE AskName
    BY <2>1 DEF AskName, Question
  <2>2. CASE AskScore
    BY <2>2 DEF AskScore, Question
  <2>3. CASE AskDocument
    BY <2>3 DEF AskDocument, Question
  <2>4. CASE AskText
    BY <2>4 DEF AskText, Question
  <2>5. CASE AskQuote
    <3>1. PICK quote \in Quotes, opinion \in Opinions, poor \in BOOLEAN :
            \E from \in 1..Len(opinion) : \E to \in from..Len(opinion) :
                asked' = [about |-> "quote", quote |-> quote, opinion |-> opinion,
                          from |-> from, to |-> to, poor |-> poor]
      BY <2>5 DEF AskQuote
    <3> QED  BY <3>1 DEF Question
  <2>6. CASE Done
    BY <2>6 DEF Done, Question
  <2>7. CASE UNCHANGED asked
    BY <2>7 DEF Question
  <2> QED  BY <2>1, <2>2, <2>3, <2>4, <2>5, <2>6, <2>7 DEF Next
<1> QED  BY <1>1, <1>2, PTL DEF Spec

----------------------------------------------------------------------------
(* Least numbers *)

Before == {x \in Nat \X Nat : x[1] < x[2]}

LEMMA BeforeWellFounded == IsWellFoundedOn(Before, Nat)
<1>1. Before = OpToRel(<, Nat)
  BY DEF Before, OpToRel
<1> QED  BY <1>1, NatLessThanWellFounded

LeastIn(T) == CHOOSE x \in T : \A y \in T : x <= y

\* A set of natural numbers that is not empty has a least one.
LEMMA LeastOf ==
  ASSUME NEW T \in SUBSET Nat, T # {}
  PROVE  LeastIn(T) \in T /\ \A y \in T : LeastIn(T) <= y
<1>1. PICK x \in T : \A y \in T : <<y, x>> \notin Before
  BY BeforeWellFounded, WFMin
<1>2. \A y \in T : <<y, x>> \in Before <=> y < x
  BY DEF Before
<1>3. \A y \in T : ~(y < x)
  BY <1>1, <1>2
<1>4. \A y \in T : x \in Nat /\ y \in Nat
  OBVIOUS
<1>5. \A y \in T : x <= y
  BY <1>3, <1>4
<1> QED  BY <1>5 DEF LeastIn

----------------------------------------------------------------------------
(* Texts (Retrieval).  A page's lists are sequences, and the outcomes of a  *)
(* page tell how each of its calls ended.                                  *)

IsList(list) == list \in Seq({list[i] : i \in DOMAIN list})

OpinionCalls(page) ==
    {<<"cluster", 0>>, <<"scan", 0>>} \cup {<<"opinion", i>> : i \in DOMAIN page.opinions}

DocketCalls(page) ==
    {<<"entry", 0>>, <<"recent", 0>>, <<"docket", 0>>}
    \cup {<<"entry", i>> : i \in DOMAIN page.entry}
    \cup {<<"recent", i>> : i \in DOMAIN page.recent}

PagesAreCalled ==
    \A page \in Pages :
        /\ IsList(page.opinions) /\ IsList(page.entry) /\ IsList(page.recent)
        /\ \A out \in Outcomes[page] :
              /\ page.kind = "opinion" => OpinionCalls(page) \subseteq DOMAIN out
              /\ page.kind \in {"entry", "docket"} => DocketCalls(page) \subseteq DOMAIN out

\* How a walk ends when every call succeeds.
Reached(list, good) ==
    IF good = {} THEN [found |-> "no", at |-> 0]
    ELSE [found |-> "yes", at |-> Texts!Min(good \cup {Len(list) + 1})]

LEMMA ListIndices ==
  ASSUME NEW list, IsList(list)
  PROVE  Len(list) \in Nat /\ DOMAIN list = 1..Len(list)
BY DEF IsList

\* A walk ends at the first good item or, a call having failed, nowhere.
LEMMA WalkEnds ==
  ASSUME NEW list, IsList(list), NEW good \in SUBSET DOMAIN list, NEW call, NEW out
  PROVE  Texts!Walked(list, good, call, out)
           \in {[found |-> "failed", at |-> 0], Reached(list, good)}
BY DEF Texts!Walked, Reached

\* Without a failing call it ends at the first good item.
LEMMA WalkWithoutFailure ==
  ASSUME NEW list, IsList(list), NEW good \in SUBSET DOMAIN list, NEW call, NEW out,
         \A i \in DOMAIN list : out[<<call, i>>] = "ok"
  PROVE  Texts!Walked(list, good, call, out) = Reached(list, good)
<1> DEFINE first == Texts!Min(good \cup {Len(list) + 1})
           last  == Texts!Min({first, Len(list)})
<1>1. Len(list) \in Nat /\ DOMAIN list = 1..Len(list)
  BY ListIndices
<1>2. first \in Nat
  <2>1. good \cup {Len(list) + 1} \in SUBSET Nat /\ good \cup {Len(list) + 1} # {}
    BY <1>1
  <2> QED  BY <2>1, LeastOf DEF Texts!Min, LeastIn
<1>3. last \in Nat /\ last <= Len(list)
  <2>1. {first, Len(list)} \in SUBSET Nat /\ {first, Len(list)} # {}
    BY <1>1, <1>2
  <2> QED  BY <2>1, LeastOf DEF Texts!Min, LeastIn
<1>4. \A i \in 1..last : i \in DOMAIN list
  BY <1>1, <1>3
<1>5. \A i \in 1..last : Texts!Succeeds(out[<<call, i>>])
  BY <1>4 DEF Texts!Succeeds
<1> QED  BY <1>5 DEF Texts!Walked, Reached

LEMMA WalkIsSafe ==
  ASSUME NEW list, IsList(list), NEW good \in SUBSET DOMAIN list, NEW call, NEW out,
         \A i \in DOMAIN list : <<call, i>> \in DOMAIN out
  PROVE  /\ Texts!Walked(list, good, call, Texts!AllOk(out)) = Reached(list, good)
         /\ Texts!Walked(list, good, call, out)
              \in {[found |-> "failed", at |-> 0], Reached(list, good)}
<1>1. \A i \in DOMAIN list : Texts!AllOk(out)[<<call, i>>] = "ok"
  BY DEF Texts!AllOk
<1> QED  BY <1>1, WalkEnds, WalkWithoutFailure

LEMMA ReachedIsNoFailure ==
  ASSUME NEW list, NEW good
  PROVE  /\ Reached(list, good).found \in {"no", "yes"}
         /\ Reached(list, good).found = "no" <=> good = {}
BY DEF Reached

\* A failing call costs the text of an opinion.
LEMMA OpinionTextSafe ==
  ASSUME NEW page, NEW preferHtml, NEW out, NEW scanned,
         IsList(page.opinions), OpinionCalls(page) \subseteq DOMAIN out
  PROVE  Texts!OpinionText(page, preferHtml, out, scanned)
           \in {Texts!None, Texts!OpinionText(page, preferHtml, Texts!AllOk(out), TRUE)}
<1> DEFINE good == {i \in DOMAIN page.opinions :
                      Texts!FormatOf(page.opinions[i], preferHtml) # "none"}
           walk == Texts!Walked(page.opinions, good, "opinion", out)
           whole == Texts!Walked(page.opinions, good, "opinion", Texts!AllOk(out))
<1>1. /\ whole = Reached(page.opinions, good)
      /\ walk \in {[found |-> "failed", at |-> 0], Reached(page.opinions, good)}
  <2>1. \A i \in DOMAIN page.opinions : <<"opinion", i>> \in DOMAIN out
    BY DEF OpinionCalls
  <2> QED  BY <2>1, WalkIsSafe
<1>2. Texts!Succeeds(Texts!AllOk(out)[<<"cluster", 0>>])
  BY DEF OpinionCalls, Texts!AllOk, Texts!Succeeds
<1>3. walk = whole \/ walk.found = "failed"
  BY <1>1
<1>4. whole.found # "failed"
  BY <1>1, ReachedIsNoFailure
<1> QED  BY <1>2, <1>3, <1>4 DEF Texts!OpinionText

LEMMA DocketTextSafe ==
  ASSUME NEW page, NEW out, IsList(page.entry), IsList(page.recent),
         DocketCalls(page) \subseteq DOMAIN out
  PROVE  Texts!DocketText(page, out)
           \in {Texts!None, Texts!DocketText(page, Texts!AllOk(out))}
<1> DEFINE ok == Texts!AllOk(out)
<1>1. /\ Texts!InEntry(page, ok).found \in {"no", "yes"}
      /\ Texts!InEntry(page, out) = Texts!InEntry(page, ok)
         \/ Texts!InEntry(page, out).found = "failed"
  <2>1. \A i \in DOMAIN page.entry : <<"entry", i>> \in DOMAIN out
    BY DEF DocketCalls
  <2>2. Texts!WithText(page.entry) \in SUBSET DOMAIN page.entry
    BY DEF Texts!WithText
  <2>3. /\ Texts!Walked(page.entry, Texts!WithText(page.entry), "entry", ok)
             = Reached(page.entry, Texts!WithText(page.entry))
        /\ Texts!Walked(page.entry, Texts!WithText(page.entry), "entry", out)
             \in {[found |-> "failed", at |-> 0], Reached(page.entry, Texts!WithText(page.entry))}
    BY <2>1, <2>2, WalkIsSafe
  <2>4. Texts!Succeeds(ok[<<"entry", 0>>])
    BY DEF DocketCalls, Texts!AllOk, Texts!Succeeds
  <2>5. Reached(page.entry, Texts!WithText(page.entry)).found \in {"no", "yes"}
    BY ReachedIsNoFailure
  <2> QED  BY <2>3, <2>4, <2>5 DEF Texts!InEntry
<1>2. /\ Texts!InRecent(page, ok).found \in {"no", "yes"}
      /\ Texts!InRecent(page, out) = Texts!InRecent(page, ok)
         \/ Texts!InRecent(page, out).found = "failed"
  <2>1. \A i \in DOMAIN page.recent : <<"recent", i>> \in DOMAIN out
    BY DEF DocketCalls
  <2>2. Texts!WithText(page.recent) \in SUBSET DOMAIN page.recent
    BY DEF Texts!WithText
  <2>3. /\ Texts!Walked(page.recent, Texts!WithText(page.recent), "recent", ok)
             = Reached(page.recent, Texts!WithText(page.recent))
        /\ Texts!Walked(page.recent, Texts!WithText(page.recent), "recent", out)
             \in {[found |-> "failed", at |-> 0],
                  Reached(page.recent, Texts!WithText(page.recent))}
    BY <2>1, <2>2, WalkIsSafe
  <2>4. Texts!Succeeds(ok[<<"recent", 0>>])
    BY DEF DocketCalls, Texts!AllOk, Texts!Succeeds
  <2>5. Reached(page.recent, Texts!WithText(page.recent)).found \in {"no", "yes"}
    BY ReachedIsNoFailure
  <2> QED  BY <2>3, <2>4, <2>5 DEF Texts!InRecent
<1>3. Texts!Succeeds(ok[<<"docket", 0>>])
  BY DEF DocketCalls, Texts!AllOk, Texts!Succeeds
<1> QED  BY <1>1, <1>2, <1>3 DEF Texts!DocketText

LEMMA OpinionPdfSafe ==
  ASSUME NEW page, NEW out, IsList(page.opinions), OpinionCalls(page) \subseteq DOMAIN out
  PROVE  Texts!OpinionPdf(page, out) \in {<<"none">>, Texts!OpinionPdf(page, Texts!AllOk(out))}
<1> DEFINE ok == Texts!AllOk(out)
           good == {i \in DOMAIN page.opinions : Texts!HasPdf(page.opinions[i])}
<1>1. Texts!Succeeds(ok[<<"cluster", 0>>])
  BY DEF OpinionCalls, Texts!AllOk, Texts!Succeeds
<1>2. \A i \in DOMAIN page.opinions : <<"opinion", i>> \in DOMAIN out
  BY DEF OpinionCalls
<1>3. /\ Texts!Walked(page.opinions, good, "opinion", ok) = Reached(page.opinions, good)
      /\ Texts!Walked(page.opinions, good, "opinion", out)
           \in {[found |-> "failed", at |-> 0], Reached(page.opinions, good)}
  BY <1>2, WalkIsSafe
<1>4. Reached(page.opinions, good).found # "failed"
  BY ReachedIsNoFailure
<1>5. CASE Texts!Walked(page.opinions, good, "opinion", out).found = "failed"
  BY <1>5 DEF Texts!OpinionPdf
<1>6. CASE Texts!Walked(page.opinions, good, "opinion", out)
             = Texts!Walked(page.opinions, good, "opinion", ok)
  BY <1>1, <1>3, <1>4, <1>6 DEF Texts!OpinionPdf
<1> QED  BY <1>3, <1>5, <1>6

LEMMA DocketPdfSafe ==
  ASSUME NEW page, NEW out, DocketCalls(page) \subseteq DOMAIN out
  PROVE  Texts!DocketPdf(page, out) \in {<<"none">>, Texts!DocketPdf(page, Texts!AllOk(out))}
<1>1. /\ Texts!Succeeds(Texts!AllOk(out)[<<"entry", 0>>])
      /\ Texts!Succeeds(Texts!AllOk(out)[<<"recent", 0>>])
  BY DEF DocketCalls, Texts!AllOk, Texts!Succeeds
<1> QED  BY <1>1 DEF Texts!DocketPdf

LEMMA TextsSafe ==
  ASSUME PagesAreCalled, NEW page \in Pages, NEW preferHtml, NEW out \in Outcomes[page]
  PROVE  Texts!FailureNeverSubstitutes(page, preferHtml, out)
<1> DEFINE ok == Texts!AllOk(out)
<1>1. IsList(page.opinions) /\ IsList(page.entry) /\ IsList(page.recent)
  BY DEF PagesAreCalled
<1>2. CASE page.kind = "opinion"
  <2>1. OpinionCalls(page) \subseteq DOMAIN out
    BY <1>2 DEF PagesAreCalled
  <2>2. Texts!Succeeds(ok[<<"scan", 0>>]) = TRUE /\ Texts!Bare(ok[<<"scan", 0>>]) = TRUE
    BY <2>1 DEF OpinionCalls, Texts!AllOk, Texts!Succeeds, Texts!Bare
  <2>3. Texts!SyncOpinionText(page, preferHtml, out)
          \in {Texts!None, Texts!SyncOpinionText(page, preferHtml, ok)}
    BY <1>1, <2>1, <2>2, OpinionTextSafe DEF Texts!SyncOpinionText
  <2>4. Texts!AsyncOpinionText(page, preferHtml, out)
          \in {Texts!None, Texts!AsyncOpinionText(page, preferHtml, ok)}
    BY <1>1, <2>1, <2>2, OpinionTextSafe DEF Texts!AsyncOpinionText
  <2>5. Texts!OpinionPdf(page, out) \in {<<"none">>, Texts!OpinionPdf(page, ok)}
    BY <1>1, <2>1, OpinionPdfSafe
  <2> QED  BY <1>2, <2>3, <2>4, <2>5
              DEF Texts!FailureNeverSubstitutes, Texts!SyncText, Texts!AsyncText, Texts!PdfUrl
<1>3. CASE page.kind \in {"entry", "docket"}
  <2>1. DocketCalls(page) \subseteq DOMAIN out
    BY <1>3 DEF PagesAreCalled
  <2>2. Texts!DocketText(page, out) \in {Texts!None, Texts!DocketText(page, ok)}
    BY <1>1, <2>1, DocketTextSafe
  <2>3. Texts!DocketPdf(page, out) \in {<<"none">>, Texts!DocketPdf(page, ok)}
    BY <2>1, DocketPdfSafe
  <2> QED  BY <1>3, <2>2, <2>3
              DEF Texts!FailureNeverSubstitutes, Texts!SyncText, Texts!AsyncText, Texts!PdfUrl
<1>4. CASE page.kind \notin {"opinion", "entry", "docket"}
  BY <1>4 DEF Texts!FailureNeverSubstitutes, Texts!SyncText, Texts!AsyncText, Texts!PdfUrl
<1> QED  BY <1>2, <1>3, <1>4

\* Only a scan behind a busy server tells the two clients apart.
LEMMA ClientsAlike ==
  ASSUME NEW page, NEW preferHtml, NEW out
  PROVE  Texts!ClientsAgree(page, preferHtml, out)
<1>1. CASE page.kind = "opinion"
  <2> SUFFICES ASSUME out[<<"scan", 0>>] # "busy"
               PROVE  Texts!SyncText(page, preferHtml, out) = Texts!AsyncText(page, preferHtml, out)
    BY <1>1 DEF Texts!ClientsAgree
  <2>1. Texts!Succeeds(out[<<"scan", 0>>]) = Texts!Bare(out[<<"scan", 0>>])
    BY DEF Texts!Succeeds, Texts!Bare
  <2> QED  BY <1>1, <2>1 DEF Texts!SyncText, Texts!AsyncText,
              Texts!SyncOpinionText, Texts!AsyncOpinionText
<1>2. CASE page.kind # "opinion"
  BY <1>2 DEF Texts!ClientsAgree, Texts!SyncText, Texts!AsyncText
<1> QED  BY <1>1, <1>2

LEMMA EntryFirst ==
  ASSUME PagesAreCalled, NEW page \in Pages, NEW preferHtml, NEW out \in Outcomes[page]
  PROVE  Texts!EntryKeepsItsText(page, preferHtml, out)
<1> SUFFICES ASSUME page.kind = "entry", \E i \in 1..Len(page.entry) : page.entry[i].text
             PROVE  Texts!AsyncText(page, preferHtml, out).from[1] \in {"entry", "none"}
  BY DEF Texts!EntryKeepsItsText
<1>1. IsList(page.entry)
  BY DEF PagesAreCalled
<1>2. /\ Texts!WithText(page.entry) \in SUBSET DOMAIN page.entry
      /\ Texts!WithText(page.entry) # {}
  BY <1>1, ListIndices DEF Texts!WithText
<1>3. Texts!Walked(page.entry, Texts!WithText(page.entry), "entry", out).found
        \in {"failed", "yes"}
  <2>1. Texts!Walked(page.entry, Texts!WithText(page.entry), "entry", out)
          \in {[found |-> "failed", at |-> 0], Reached(page.entry, Texts!WithText(page.entry))}
    BY <1>1, <1>2, WalkEnds
  <2>2. Reached(page.entry, Texts!WithText(page.entry)).found = "yes"
    BY <1>2 DEF Reached
  <2> QED  BY <2>1, <2>2
<1>4. Texts!InEntry(page, out).found \in {"failed", "yes"}
  BY <1>3 DEF Texts!InEntry
<1>5. Texts!DocketText(page, out).from[1] \in {"entry", "none"}
  BY <1>4 DEF Texts!DocketText, Texts!None
<1> QED  BY <1>5 DEF Texts!AsyncText

\* A failing call costs a text and never puts another document's in its place,
\* the clients agree, and an entry with a text gives it: for any page
\* (client.py, get_opinion_text of both clients).
THEOREM TextAlwaysOfDocument ==
  ASSUME PagesAreCalled
  PROVE  Spec => []TextIsOfDocument
<1>1. Question => TextIsOfDocument
  <2> SUFFICES ASSUME Question, asked.about = "text"
               PROVE  /\ Texts!FailureNeverSubstitutes(asked.page, asked.preferHtml, asked.out)
                      /\ Texts!ClientsAgree(asked.page, asked.preferHtml, asked.out)
                      /\ Texts!EntryKeepsItsText(asked.page, asked.preferHtml, asked.out)
    BY DEF TextIsOfDocument
  <2>1. asked.page \in Pages /\ asked.out \in Outcomes[asked.page]
    BY DEF Question, Nothing
  <2> QED  BY <2>1, TextsSafe, ClientsAlike, EntryFirst
<1> QED  BY <1>1, QuestionsAsAsked, PTL

----------------------------------------------------------------------------
(* Names (Captions), for any vocabulary.  The parser takes the parties out  *)
(* of the name: their words are words of it.                               *)

Vocabulary == DOMAIN Acronym

PartiesOfName ==
    \A c \in CitedNames :
        /\ c.name \in Seq(Vocabulary) /\ c.plaintiff \in Seq(Vocabulary)
        /\ c.defendant \in Seq(Vocabulary)
        /\ Names!WordsOf(c.plaintiff) \cup Names!WordsOf(c.defendant) \subseteq Names!WordsOf(c.name)

LEMMA WordsThereAre ==
  ASSUME NEW s \in Seq(Vocabulary)
  PROVE  /\ s = << >> => Names!WordsOf(s) = {}
         /\ s # << >> => Head(s) \in Names!WordsOf(s)
<1>1. CASE s = << >>
  <2>1. DOMAIN << >> = {}
    OBVIOUS
  <2> QED  BY <1>1, <2>1 DEF Names!WordsOf, Names!Range
<1>2. CASE s # << >>
  <2>1. 1 \in DOMAIN s /\ Head(s) = s[1]
    BY <1>2
  <2> QED  BY <1>2, <2>1 DEF Names!WordsOf, Names!Range
<1> QED  BY <1>1, <1>2

LEMMA NoNameNoParty ==
  ASSUME PartiesOfName, NEW c \in CitedNames, c.name = << >>
  PROVE  c.plaintiff = << >>
<1>1. c.name \in Seq(Vocabulary) /\ c.plaintiff \in Seq(Vocabulary)
  BY DEF PartiesOfName
<1>2. Names!WordsOf(c.plaintiff) = {}
  BY <1>1, WordsThereAre DEF PartiesOfName
<1> QED  BY <1>1, <1>2, WordsThereAre

\* The name check accepts a cluster on a telling word, on the first word of a
\* government's opponent, or on nothing to compare.
LEMMA LookupOnEvidence ==
  ASSUME PartiesOfName, NEW c \in CitedNames, NEW w \in CaptionSets,
         Names!LookupNamesMatch(c, w.cluster)
  PROVE  \/ Names!NothingToCompare(c)
         \/ Names!GovernmentsCase(c) /\ Names!Occurs(Head(c.defendant), w.cluster)
         \/ \E x \in Names!Telling(c.name) : Names!Occurs(x, w.cluster)
<1>1. /\ c.name \in Seq(Vocabulary) /\ c.plaintiff \in Seq(Vocabulary)
      /\ c.defendant \in Seq(Vocabulary)
      /\ Names!WordsOf(c.plaintiff) \cup Names!WordsOf(c.defendant) \subseteq Names!WordsOf(c.name)
  BY DEF PartiesOfName
<1>2. CASE c.name = << >>
  <2>1. Names!WordsOf(c.name) = {}
    BY <1>1, <1>2, WordsThereAre
  <2>2. c.plaintiff = << >>
    BY <1>2, NoNameNoParty
  <2> QED  BY <2>1, <2>2 DEF Names!NothingToCompare, Names!NoParty
<1>3. CASE c.name # << >> /\ c.plaintiff = << >>
  <2>1. Names!InReMatches(c, w.cluster)
    BY <1>3 DEF Names!LookupNamesMatch, Names!NoParty
  <2>2. CASE Names!WordsOf(c.name) \ (Short \cup Stop \cup Generic) = {}
    BY <1>3, <2>2 DEF Names!NothingToCompare, Names!NoParty
  <2>3. CASE Names!WordsOf(c.name) \ (Short \cup Stop \cup Generic) # {}
    <3>1. PICK x \in Names!WordsOf(c.name) \ (Short \cup Stop \cup Generic) :
                 Names!Occurs(x, w.cluster)
      BY <2>1, <2>3 DEF Names!InReMatches
    <3>2. x \in Names!Telling(c.name)
      BY <3>1 DEF Names!Telling
    <3> QED  BY <3>1, <3>2
  <2> QED  BY <2>2, <2>3
<1>4. CASE /\ c.name # << >> /\ c.plaintiff # << >>
           /\ c.defendant # << >> /\ Head(c.name) \in LookupPrefix
  <2>1. Names!Occurs(Head(c.defendant), w.cluster)
    BY <1>4 DEF Names!LookupNamesMatch, Names!NoParty
  <2>2. Names!GovernmentsCase(c)
    BY <1>4 DEF Names!GovernmentsCase, Names!NoParty
  <2> QED  BY <2>1, <2>2
<1>5. CASE /\ c.name # << >> /\ c.plaintiff # << >>
           /\ ~(c.defendant # << >> /\ Head(c.name) \in LookupPrefix)
  <2>1. IF Names!AgainstGovernment(c) THEN Names!AgainstSameMatches(c, w.cluster)
        ELSE Names!SurnamesMatch(c, w.cluster)
    BY <1>5 DEF Names!LookupNamesMatch, Names!NoParty
  <2>2. CASE Names!AgainstGovernment(c)
    <3>1. PICK x \in Names!WordsOf(c.plaintiff) \ (Short \cup Generic) : Names!Occurs(x, w.cluster)
      BY <2>1, <2>2 DEF Names!AgainstSameMatches
    <3>2. x \in Names!Telling(c.name)
      BY <1>1, <3>1 DEF Names!Telling
    <3> QED  BY <3>1, <3>2
  <2>3. CASE ~Names!AgainstGovernment(c)
    <3>1. PICK x \in (Names!Surname(c.plaintiff) \cup Names!Surname(c.defendant))
                        \ (Short \cup Generic) : Names!Occurs(x, w.cluster)
      BY <2>1, <2>3 DEF Names!SurnamesMatch
    <3>2. x \in Names!WordsOf(c.name)
      <4>1. CASE x \in Names!Surname(c.plaintiff)
        <5>1. c.plaintiff # << >> /\ x = Head(c.plaintiff)
          BY <4>1 DEF Names!Surname, Names!NoParty
        <5> QED  BY <1>1, <5>1, WordsThereAre
      <4>2. CASE x \in Names!Surname(c.defendant)
        <5>1. c.defendant # << >> /\ x = Head(c.defendant)
          BY <4>2 DEF Names!Surname, Names!NoParty
        <5> QED  BY <1>1, <5>1, WordsThereAre
      <4> QED  BY <3>1, <4>1, <4>2
    <3>3. x \in Names!Telling(c.name)
      BY <3>1, <3>2 DEF Names!Telling
    <3> QED  BY <3>1, <3>3
  <2> QED  BY <2>2, <2>3
<1> QED  BY <1>2, <1>3, <1>4, <1>5

\* A distinctive word of the name in a caption is a telling word that occurs.
LEMMA SharedWordTells ==
  ASSUME NEW c, NEW k, NEW x \in Names!WordsOf(c.name), x \notin Stop \cup Short \cup Generic,
         x \in Names!Toks(Names!CaptionOf(k))
  PROVE  x \in Names!Telling(c.name) /\ Names!Occurs(x, k)
BY DEF Names!Telling, Names!Toks, Names!Occurs

\* The party check accepts a caption on a telling word or on an acronym.
LEMMA OverlapOnEvidence ==
  ASSUME PartiesOfName, NEW c \in CitedNames, NEW k,
         c.name # << >>, Names!PartyOverlapOk(c, k)
  PROVE  \/ \E x \in Names!Telling(c.name) : Names!Occurs(x, k)
         \/ Names!AcronymBridge(c.plaintiff, k) \/ Names!AcronymBridge(c.defendant, k)
<1>1. Names!WordsOf(c.plaintiff) \cup Names!WordsOf(c.defendant) \subseteq Names!WordsOf(c.name)
  BY DEF PartiesOfName
<1>2. CASE Names!NamesShareWord(c, k)
  <2>1. PICK x \in Names!Distinctive(c.name) : x \in Names!Toks(Names!CaptionOf(k))
    BY <1>2 DEF Names!NamesShareWord
  <2>2. x \in Names!WordsOf(c.name) /\ x \notin Stop \cup Short \cup Generic
    BY <2>1 DEF Names!Distinctive, Names!Toks
  <2> QED  BY <2>1, <2>2, SharedWordTells
<1>3. CASE /\ Names!BothSidesFound(c, k)
           /\ Names!CitedPlaintiff(c) \cup Names!CitedDefendant(c) # {}
  <2>1. CASE Names!AcronymBridge(c.plaintiff, k) \/ Names!AcronymBridge(c.defendant, k)
    BY <2>1
  <2>2. CASE ~(Names!AcronymBridge(c.plaintiff, k) \/ Names!AcronymBridge(c.defendant, k))
    <3>1. PICK x \in Names!CitedPlaintiff(c) \cup Names!CitedDefendant(c) :
                 x \in Names!Toks(Names!CaptionOf(k))
      BY <1>3, <2>2 DEF Names!BothSidesFound, Names!SideFound
    <3>2. /\ x \in Names!WordsOf(c.plaintiff) \cup Names!WordsOf(c.defendant)
          /\ x \notin Stop \cup Short \cup Generic
      BY <3>1 DEF Names!CitedPlaintiff, Names!CitedDefendant, Names!Distinctive, Names!Toks
    <3>3. x \in Names!WordsOf(c.name)
      BY <1>1, <3>2
    <3> QED  BY <3>1, <3>2, <3>3, SharedWordTells
  <2> QED  BY <2>1, <2>2
<1> QED  BY <1>2, <1>3 DEF Names!PartyOverlapOk

\* Whatever calls fail and for any vocabulary, a citation resolves to a record
\* on a word of its own name that is neither generic nor a fragment, on an
\* acronym, on the first word of a government's opponent, or because its name
\* says nothing (verifier.py, _names_match_citation_lookup, _party_overlap_ok).
THEOREM NamesAlwaysOnEvidence ==
  ASSUME PartiesOfName
  PROVE  Spec => []NameOnEvidence
<1>1. ASSUME NEW c \in CitedNames, NEW w \in CaptionSets, NEW failing,
             Names!HitVerdict(c, w, failing) # "WRONG_CASE"
      PROVE  \/ Names!NothingToCompare(c)
             \/ Names!GovernmentsCase(c) /\ Names!Occurs(Head(c.defendant), w.cluster)
             \/ Names!NameInCaptions(c, w)
  <2>1. CASE Names!LookupNamesMatch(c, w.cluster)
    BY <2>1, LookupOnEvidence DEF Names!NameInCaptions
  <2>2. CASE ~Names!LookupNamesMatch(c, w.cluster)
    <3>1. Names!Investigated(c, w, failing) # "WRONG_CASE"
      BY <1>1, <2>2 DEF Names!HitVerdict
    <3>2. PICK k \in Names!Captions(w, failing) : Names!PartyOverlapOk(c, k)
      BY <3>1 DEF Names!Investigated
    <3>3. k \in {w.cluster, w.full, w.docket, w.head}
      BY <3>2 DEF Names!Captions
    <3>4. c.name # << >>
      BY <2>2, NoNameNoParty DEF Names!LookupNamesMatch, Names!NoParty
    <3> QED  BY <3>2, <3>3, <3>4, OverlapOnEvidence DEF Names!NameInCaptions
  <2> QED  BY <2>1, <2>2
<1>2. Question => NameOnEvidence
  <2> SUFFICES ASSUME Question, asked.about = "name"
               PROVE  Names!AcceptedOnEvidence(asked.c, asked.w, asked.failing)
    BY DEF NameOnEvidence
  <2>1. asked.c \in CitedNames /\ asked.w \in CaptionSets
    BY DEF Question, Nothing
  <2> QED  BY <1>1, <2>1 DEF Names!AcceptedOnEvidence
<1> QED  BY <1>2, QuestionsAsAsked, PTL

----------------------------------------------------------------------------
(* Scores (MatchScore) *)

Date == Nat \X Nat \X Nat

CasesAreScored == \A c \in CitedCases : c.date \in Date
RecordsAreScored == \A r \in Records : r.sim \in Nat /\ r.overlap \in BOOLEAN /\ r.date \in Date

\* The parts of a score are numbers: a date counts for none to all of its
\* weight, and the weights depend on what is cited.
LEMMA DateParts ==
  ASSUME NEW c, NEW d, c.date \in Date, d \in Date
  PROVE  Scores!DatePart(c, d) \in 0..100
BY DEF Scores!DatePart, Date

LEMMA Weights ==
  ASSUME NEW c, c.date \in Date
  PROVE  /\ Scores!NameWeight(c) \in {150, 200, 250} /\ Scores!SmallWeight(c) \in {15, 20, 25}
         /\ Scores!CourtWeight(c) \in {0, 60} /\ Scores!DateWeight(c) \in {0, 60}
<1>1. Scores!Lost(c) \in {0, 20, 40}
  BY DEF Scores!Lost
<1>2. /\ Scores!Lost(c) = 0 => Scores!NameWeight(c) = 150 /\ Scores!SmallWeight(c) = 15
      /\ Scores!Lost(c) = 20 => Scores!NameWeight(c) = 200 /\ Scores!SmallWeight(c) = 20
      /\ Scores!Lost(c) = 40 => Scores!NameWeight(c) = 250 /\ Scores!SmallWeight(c) = 25
  BY DEF Scores!NameWeight, Scores!SmallWeight
<1> QED  BY <1>1, <1>2 DEF Scores!CourtWeight, Scores!DateWeight

NameTerm(c, r) == (Scores!NameWeight(c) * Scores!NamePart(c, r)) \div 4
DateTerm(c, d) == Scores!DatePart(c, d) * Scores!DateWeight(c)
CourtTerm(c, r) == IF Scores!CourtAgrees(c, r) THEN 100 * Scores!CourtWeight(c) ELSE 0
DocketTerm(c, r) == IF Scores!DocketAgrees(c, r) THEN 100 * Scores!SmallWeight(c) ELSE 0
CiteTerm(c, r) == IF Scores!CiteAgrees(c, r) THEN 100 * Scores!SmallWeight(c) ELSE 0

LEMMA SumOfTerms ==
  ASSUME NEW c, NEW r, NEW d
  PROVE  Scores!Sum(c, r, d) = NameTerm(c, r) + CourtTerm(c, r) + DateTerm(c, d)
                                 + DocketTerm(c, r) + CiteTerm(c, r)
BY DEF Scores!Sum, NameTerm, CourtTerm, DateTerm, DocketTerm, CiteTerm

LEMMA NameParts ==
  ASSUME NEW c, NEW r, r.sim \in Nat
  PROVE  Scores!NamePart(c, r) \in Nat
BY DEF Scores!NamePart

LEMMA NameTermGrows ==
  ASSUME NEW w \in {150, 200, 250}, NEW a \in Nat, NEW b \in Nat, a <= b
  PROVE  (w * a) \div 4 \in Nat /\ (w * a) \div 4 <= (w * b) \div 4
<1>1. CASE w = 150
  BY <1>1
<1>2. CASE w = 200
  BY <1>2
<1>3. CASE w = 250
  BY <1>3
<1> QED  BY <1>1, <1>2, <1>3

LEMMA DateTermGrows ==
  ASSUME NEW w \in {0, 60}, NEW a \in 0..100, NEW b \in 0..100, a <= b
  PROVE  a * w \in Nat /\ a * w <= b * w
<1>1. CASE w = 0
  BY <1>1
<1>2. CASE w = 60
  BY <1>2
<1> QED  BY <1>1, <1>2

LEMMA Terms ==
  ASSUME NEW c, NEW r, NEW d, c.date \in Date, d \in Date, r.sim \in Nat
  PROVE  /\ NameTerm(c, r) \in Nat /\ CourtTerm(c, r) \in Nat /\ DateTerm(c, d) \in Nat
         /\ DocketTerm(c, r) \in Nat /\ CiteTerm(c, r) \in Nat
         /\ Scores!Sum(c, r, d) \in Nat
<1>1. NameTerm(c, r) \in Nat
  BY Weights, NameParts, NameTermGrows DEF NameTerm
<1>2. DateTerm(c, d) \in Nat
  BY Weights, DateParts, DateTermGrows DEF DateTerm
<1>3. CourtTerm(c, r) \in Nat /\ DocketTerm(c, r) \in Nat /\ CiteTerm(c, r) \in Nat
  BY Weights DEF CourtTerm, DocketTerm, CiteTerm
<1> QED  BY <1>1, <1>2, <1>3, SumOfTerms

LEMMA LesserOf ==
  ASSUME NEW a \in Nat, NEW b \in Nat
  PROVE  Scores!Min({a, b}) = IF a <= b THEN a ELSE b
<1>1. {a, b} \in SUBSET Nat /\ {a, b} # {}
  OBVIOUS
<1>2. Scores!Min({a, b}) \in {a, b} /\ \A y \in {a, b} : Scores!Min({a, b}) <= y
  BY <1>1, LeastOf DEF Scores!Min, LeastIn
<1> QED  BY <1>2

\* A score is the rounded sum, capped below the threshold if nothing vouches.
LEMMA ScoreIs ==
  ASSUME NEW c, NEW r, NEW d, c.date \in Date, d \in Date, r.sim \in Nat
  PROVE  /\ (Scores!Sum(c, r, d) + 1) \div 3 \in Nat
         /\ Scores!Score(c, r, d) =
              IF Scores!Uncorroborated(c, r) /\ 3900 < (Scores!Sum(c, r, d) + 1) \div 3
              THEN 3900 ELSE (Scores!Sum(c, r, d) + 1) \div 3
<1>1. Scores!Sum(c, r, d) \in Nat
  BY Terms
<1>2. (Scores!Sum(c, r, d) + 1) \div 3 \in Nat
  BY <1>1
<1>3. Scores!Threshold - 100 = 3900
  BY DEF Scores!Threshold
<1>4. Scores!Min({(Scores!Sum(c, r, d) + 1) \div 3, 3900})
        = IF (Scores!Sum(c, r, d) + 1) \div 3 <= 3900 THEN (Scores!Sum(c, r, d) + 1) \div 3 ELSE 3900
  BY <1>2, LesserOf
<1> QED  BY <1>2, <1>3, <1>4 DEF Scores!Score

\* Nothing that grows makes a score fall.
LEMMA ScoreGrows ==
  ASSUME NEW c, NEW r, NEW s, NEW d, NEW e,
         c.date \in Date, d \in Date, e \in Date, r.sim \in Nat, s.sim \in Nat,
         NameTerm(c, r) <= NameTerm(c, s), CourtTerm(c, r) <= CourtTerm(c, s),
         DateTerm(c, d) <= DateTerm(c, e),
         DocketTerm(c, r) <= DocketTerm(c, s), CiteTerm(c, r) <= CiteTerm(c, s),
         Scores!Uncorroborated(c, s) => Scores!Uncorroborated(c, r)
  PROVE  Scores!Score(c, r, d) <= Scores!Score(c, s, e)
<1>1. /\ NameTerm(c, r) \in Nat /\ CourtTerm(c, r) \in Nat /\ DateTerm(c, d) \in Nat
      /\ DocketTerm(c, r) \in Nat /\ CiteTerm(c, r) \in Nat /\ Scores!Sum(c, r, d) \in Nat
  BY Terms
<1>2. /\ NameTerm(c, s) \in Nat /\ CourtTerm(c, s) \in Nat /\ DateTerm(c, e) \in Nat
      /\ DocketTerm(c, s) \in Nat /\ CiteTerm(c, s) \in Nat /\ Scores!Sum(c, s, e) \in Nat
  BY Terms
<1>3. Scores!Sum(c, r, d) <= Scores!Sum(c, s, e)
  BY <1>1, <1>2, SumOfTerms
<1>4. (Scores!Sum(c, r, d) + 1) \div 3 <= (Scores!Sum(c, s, e) + 1) \div 3
  BY <1>1, <1>2, <1>3
<1>5. (Scores!Sum(c, r, d) + 1) \div 3 \in Nat /\ (Scores!Sum(c, s, e) + 1) \div 3 \in Nat
  BY ScoreIs
<1>6. Scores!Score(c, r, d) =
        IF Scores!Uncorroborated(c, r) /\ 3900 < (Scores!Sum(c, r, d) + 1) \div 3
        THEN 3900 ELSE (Scores!Sum(c, r, d) + 1) \div 3
  BY ScoreIs
<1>7. Scores!Score(c, s, e) =
        IF Scores!Uncorroborated(c, s) /\ 3900 < (Scores!Sum(c, s, e) + 1) \div 3
        THEN 3900 ELSE (Scores!Sum(c, s, e) + 1) \div 3
  BY ScoreIs
<1> QED  BY <1>4, <1>5, <1>6, <1>7

LEMMA Agreement ==
  ASSUME NEW c, NEW r, NEW s, c.date \in Date, r.date \in Date, s.date \in Date,
         r.sim \in Nat, s.sim \in Nat, r.overlap \in BOOLEAN, s.overlap \in BOOLEAN
  PROVE  Scores!AgreementNeverHurts(c, r, s)
<1> SUFFICES ASSUME r.sim <= s.sim, r.overlap => s.overlap,
                    Scores!CourtAgrees(c, r) => Scores!CourtAgrees(c, s),
                    Scores!DatePart(c, r.date) <= Scores!DatePart(c, s.date),
                    Scores!DocketAgrees(c, r) => Scores!DocketAgrees(c, s),
                    Scores!DocketContradicts(c, s) => Scores!DocketContradicts(c, r),
                    Scores!CiteAgrees(c, r) => Scores!CiteAgrees(c, s)
             PROVE  Scores!Score(c, r, r.date) <= Scores!Score(c, s, s.date)
  BY DEF Scores!AgreementNeverHurts
<1>1. Scores!NamePart(c, r) <= Scores!NamePart(c, s)
  BY DEF Scores!NamePart
<1>2. NameTerm(c, r) <= NameTerm(c, s)
  BY <1>1, Weights, NameParts, NameTermGrows DEF NameTerm
<1>3. DateTerm(c, r.date) <= DateTerm(c, s.date)
  <2>1. Scores!DatePart(c, r.date) \in 0..100 /\ Scores!DatePart(c, s.date) \in 0..100
    BY DateParts
  <2> QED  BY <2>1, Weights, DateTermGrows DEF DateTerm
<1>4. /\ CourtTerm(c, r) <= CourtTerm(c, s) /\ DocketTerm(c, r) <= DocketTerm(c, s)
      /\ CiteTerm(c, r) <= CiteTerm(c, s)
  BY Weights DEF CourtTerm, DocketTerm, CiteTerm
<1>5. Scores!Uncorroborated(c, s) => Scores!Uncorroborated(c, r)
  BY DEF Scores!Uncorroborated
<1> QED  BY <1>2, <1>3, <1>4, <1>5, ScoreGrows

\* A record that agrees in more, and in nothing less, never scores lower than
\* another, for any cases, records and tables of courts (verifier.py,
\* _score_match).
THEOREM AgreementAlwaysHelps ==
  ASSUME CasesAreScored, RecordsAreScored
  PROVE  Spec => []AgreementHelps
<1>1. Question => AgreementHelps
  <2> SUFFICES ASSUME Question, asked.about = "score", NEW s \in Records
               PROVE  Scores!AgreementNeverHurts(asked.c, asked.r, s)
    BY DEF AgreementHelps
  <2>1. asked.c \in CitedCases /\ asked.r \in Records
    BY DEF Question, Nothing
  <2>2. /\ asked.c.date \in Date /\ asked.r.date \in Date /\ asked.r.sim \in Nat
        /\ asked.r.overlap \in BOOLEAN /\ s.date \in Date /\ s.sim \in Nat /\ s.overlap \in BOOLEAN
    BY <2>1 DEF CasesAreScored, RecordsAreScored
  <2> QED  BY <2>2, Agreement
<1> QED  BY <1>1, QuestionsAsAsked, PTL

----------------------------------------------------------------------------
(* Documents (MatchScore).  A document has a year only together with a      *)
(* month, and so has a citation that has a month; a docket's search result  *)
(* scores like any record.                                                  *)

DocketsAreDated ==
    /\ \A c \in CitedDates : c.date \in Date /\ (c.date[2] # 0 => c.date[1] # 0)
    /\ \A r \in DocumentRecords : r.sim \in Nat
    /\ \A docket \in Dockets : \A doc \in docket :
           doc.date \in Date /\ (doc.date[1] # 0 => doc.date[2] # 0)

\* The date cited has the whole weight, and is nearer than any other.
LEMMA SameDay ==
  ASSUME NEW c, c.date \in Date, c.date[1] # 0, c.date[3] # 0
  PROVE  Scores!DatePart(c, c.date) = 100
BY DEF Scores!DatePart, Date

LEMMA GreaterOf ==
  ASSUME NEW b \in Int
  PROVE  Scores!Max({0, b}) = IF b <= 0 THEN 0 ELSE b
<1> DEFINE P(x) == x \in {0, b} /\ \A y \in {0, b} : x >= y
<1>1. P(IF b <= 0 THEN 0 ELSE b)
  OBVIOUS
<1>2. \A x : P(x) => x = IF b <= 0 THEN 0 ELSE b
  OBVIOUS
<1>3. Scores!Max({0, b}) = CHOOSE x : P(x)
  BY DEF Scores!Max
<1>4. P(CHOOSE x : P(x))
  BY <1>1
<1> QED  BY <1>2, <1>3, <1>4

LEMMA OtherDaysAreFarther ==
  ASSUME NEW c, NEW d, c.date \in Date, d \in Date, d # c.date,
         c.date[1] # 0, c.date[2] # 0, c.date[3] # 0
  PROVE  /\ Scores!DateProximity(c, c.date) = 1860
         /\ Scores!DateProximity(c, d) \in Int /\ Scores!DateProximity(c, d) < 1860
<1>1. Scores!DateProximity(c, c.date) = 1860
  BY DEF Scores!DateProximity, Date
<1>2. /\ c.date[1] \in Nat /\ c.date[2] \in Nat /\ c.date[3] \in Nat
      /\ d[1] \in Nat /\ d[2] \in Nat /\ d[3] \in Nat
      /\ d[1] # c.date[1] \/ d[2] # c.date[2] \/ d[3] # c.date[3]
  BY DEF Date
<1>3. CASE d[1] # c.date[1]
  BY <1>1, <1>3 DEF Scores!DateProximity
<1>4. CASE d[1] = c.date[1] /\ d[2] = c.date[2]
  <2>1. Scores!DateProximity(c, d) =
          1860 - 60 * (IF c.date[3] > d[3] THEN c.date[3] - d[3] ELSE d[3] - c.date[3])
    BY <1>2, <1>4 DEF Scores!DateProximity
  <2> QED  BY <1>1, <1>2, <1>4, <2>1
<1>5. CASE d[1] = c.date[1] /\ d[2] # c.date[2]
  <2> DEFINE months == IF c.date[2] > d[2] THEN c.date[2] - d[2] ELSE d[2] - c.date[2]
  <2>1. months \in Nat /\ months # 0
    BY <1>2, <1>5
  <2>2. Scores!DateProximity(c, d) = Scores!Max({0, 558 - 155 * months})
    BY <1>2, <1>5, <2>1 DEF Scores!DateProximity
  <2>3. 558 - 155 * months \in Int /\ 558 - 155 * months <= 558
    BY <2>1
  <2>4. Scores!Max({0, 558 - 155 * months})
          = IF 558 - 155 * months <= 0 THEN 0 ELSE 558 - 155 * months
    BY <2>3, GreaterOf
  <2> QED  BY <1>1, <2>2, <2>3, <2>4
<1> QED  BY <1>2, <1>3, <1>4, <1>5

\* A ruling of the day cited ranks before every document of another day.
LEMMA DayRanksFirst ==
  ASSUME NEW c, NEW r, NEW doc, NEW exact, c.date \in Date, r.sim \in Nat,
         c.date[1] # 0, c.date[2] # 0, c.date[3] # 0,
         exact.date = c.date, doc.date \in Date,
         Scores!Better(Scores!Rank(c, r, doc), Scores!Rank(c, r, exact))
  PROVE  doc.date = c.date
<1> SUFFICES ASSUME doc.date # c.date PROVE FALSE
  OBVIOUS
<1>1. DateTerm(c, doc.date) <= DateTerm(c, exact.date)
  <2>1. /\ Scores!DatePart(c, doc.date) \in 0..100 /\ Scores!DatePart(c, exact.date) = 100
        /\ Scores!DatePart(c, exact.date) \in 0..100
    BY DateParts, SameDay
  <2>2. Scores!DateWeight(c) \in {0, 60}
    BY Weights
  <2>3. Scores!DatePart(c, doc.date) <= Scores!DatePart(c, exact.date)
    BY <2>1
  <2> QED  BY <2>1, <2>2, <2>3, DateTermGrows DEF DateTerm
<1>2. Scores!Score(c, r, doc.date) <= Scores!Score(c, r, exact.date)
  <2>1. /\ NameTerm(c, r) \in Nat /\ CourtTerm(c, r) \in Nat
        /\ DocketTerm(c, r) \in Nat /\ CiteTerm(c, r) \in Nat
    BY Terms
  <2>2. /\ NameTerm(c, r) <= NameTerm(c, r) /\ CourtTerm(c, r) <= CourtTerm(c, r)
        /\ DocketTerm(c, r) <= DocketTerm(c, r) /\ CiteTerm(c, r) <= CiteTerm(c, r)
    BY <2>1
  <2> QED  BY <1>1, <2>2, ScoreGrows
<1>3. Scores!Score(c, r, doc.date) \in Nat /\ Scores!Score(c, r, exact.date) \in Nat
  <2>1. Scores!Score(c, r, doc.date) \in Nat
    BY ScoreIs
  <2>2. Scores!Score(c, r, exact.date) \in Nat
    BY ScoreIs
  <2> QED  BY <2>1, <2>2
<1>4. /\ Scores!DateProximity(c, exact.date) = 1860
      /\ Scores!DateProximity(c, doc.date) \in Int /\ Scores!DateProximity(c, doc.date) < 1860
  BY OtherDaysAreFarther
<1>5. /\ Scores!Rank(c, r, doc)[1] = Scores!Score(c, r, doc.date)
      /\ Scores!Rank(c, r, doc)[2] = Scores!DateProximity(c, doc.date)
      /\ Scores!Rank(c, r, exact)[1] = Scores!Score(c, r, exact.date)
      /\ Scores!Rank(c, r, exact)[2] = Scores!DateProximity(c, exact.date)
  BY DEF Scores!Rank
<1> QED  BY <1>2, <1>3, <1>4, <1>5 DEF Scores!Better

\* The first query asks for the day, and its answer is taken if it has one.
LEMMA DayIsFetched ==
  ASSUME NEW c, NEW docket, NEW failing, NEW exact \in docket, c.date \in Date,
         c.date[2] # 0, c.date[3] # 0, exact.date = c.date, 1 \notin failing
  PROVE  /\ exact \in Scores!Fetched(c, docket, failing)
         /\ Scores!Fetched(c, docket, failing) \subseteq docket
<1> DEFINE ranges == Scores!DateRanges(c)
           In(i) == IF i \in failing THEN {} ELSE Scores!EntriesIn(docket, ranges[i])
           Found == {i \in 1..Len(ranges) : In(i) # {}}
<1>1. Len(ranges) = 3 /\ ranges[1] = [from |-> c.date, to |-> c.date]
  BY DEF Scores!DateRanges
<1>2. exact \in In(1)
  <2>1. Scores!DayNumber(c.date) \in Int
    BY DEF Scores!DayNumber, Date
  <2> QED  BY <1>1, <2>1 DEF Scores!EntriesIn
<1>3. 1 \in Found /\ Found \in SUBSET Nat
  BY <1>1, <1>2
<1>4. Scores!Min(Found) = 1
  <2>1. Scores!Min(Found) \in Found /\ \A y \in Found : Scores!Min(Found) <= y
    BY <1>3, LeastOf DEF Scores!Min, LeastIn
  <2>2. Scores!Min(Found) \in 1..Len(ranges) /\ Scores!Min(Found) <= 1
    BY <1>3, <2>1
  <2> QED  BY <1>1, <2>2
<1>5. Scores!Fetched(c, docket, failing) = In(1)
  BY <1>3, <1>4 DEF Scores!Fetched
<1>6. In(1) \subseteq docket
  BY DEF Scores!EntriesIn
<1> QED  BY <1>2, <1>5, <1>6

\* Whether the search brings the ruling or it is fetched, it is considered.
LEMMA DayIsConsidered ==
  ASSUME NEW c, NEW docs, NEW docket, NEW failing, NEW exact \in docket,
         c.date \in Date, c.date[1] # 0, c.date[2] # 0, c.date[3] # 0, exact.date = c.date,
         docs \subseteq docket,
         \/ exact \in docs
         \/ 1 \notin failing /\ ~Scores!HasDateMatch(c, docs)
  PROVE  LET all == Scores!Considered(c, docs, docket, failing)
         IN  exact \in all /\ all \subseteq docket
<1>1. Scores!Fetched(c, docket, failing) \subseteq docket
  <2> DEFINE ranges == Scores!DateRanges(c)
             In(i) == IF i \in failing THEN {} ELSE Scores!EntriesIn(docket, ranges[i])
             Found == {i \in 1..Len(ranges) : In(i) # {}}
  <2>1. \A i : In(i) \subseteq docket
    BY DEF Scores!EntriesIn
  <2>2. Scores!Fetched(c, docket, failing) = IF Found = {} THEN {} ELSE In(Scores!Min(Found))
    BY DEF Scores!Fetched
  <2> QED  BY <2>1, <2>2
<1>2. CASE exact \in docs
  BY <1>1, <1>2 DEF Scores!Considered
<1>3. CASE 1 \notin failing /\ ~Scores!HasDateMatch(c, docs)
  <2>1. exact \in Scores!Fetched(c, docket, failing)
    BY <1>3, DayIsFetched
  <2> QED  BY <1>1, <1>3, <2>1 DEF Scores!Considered
<1> QED  BY <1>2, <1>3

LEMMA DayIsShown ==
  ASSUME NEW c, NEW r, NEW docs, NEW docket, NEW failing,
         c.date \in Date, c.date[2] # 0 => c.date[1] # 0, r.sim \in Nat, docs \subseteq docket,
         \A doc \in docket : doc.date \in Date /\ (doc.date[1] # 0 => doc.date[2] # 0)
  PROVE  Scores!ExactDateShown(c, r, docs, docket, failing)
<1> DEFINE ruling == {doc \in docket : doc.date = c.date /\ Scores!Substantive(doc.own)}
           inMonth == {doc \in docs : doc.date[1] = c.date[1] /\ doc.date[2] \in {0, c.date[2]}}
<1> SUFFICES ASSUME c.date[2] # 0, c.date[3] # 0, ruling # {},
                    \/ ruling \cap docs # {}
                    \/ /\ 1 \notin failing
                       /\ \A doc \in inMonth : ~Scores!Substantive(doc.own) /\ ~doc.free,
                    NEW best \in Scores!OfRecap(c, r, docs, docket, failing)
             PROVE  /\ best.doc.date = c.date
                    /\ Scores!Substantive(Scores!FullDescription(best.doc)) \/ best.doc.free
  BY DEF Scores!ExactDateShown
<1> DEFINE all == Scores!Considered(c, docs, docket, failing)
<1>1. c.date[1] # 0
  OBVIOUS
<1>2. PICK exact \in ruling :
             \/ exact \in docs
             \/ 1 \notin failing /\ ~Scores!HasDateMatch(c, docs)
  <2>1. CASE ruling \cap docs # {}
    BY <2>1
  <2>2. CASE /\ 1 \notin failing
             /\ \A doc \in inMonth : ~Scores!Substantive(doc.own) /\ ~doc.free
    <3>1. ~Scores!HasDateMatch(c, docs)
      BY <1>1, <2>2 DEF Scores!HasDateMatch
    <3> QED  BY <2>2, <3>1
  <2> QED  BY <2>1, <2>2
<1>3. exact \in docket /\ exact.date = c.date /\ Scores!Substantive(exact.own)
  BY <1>2
<1>4. exact \in all /\ all \subseteq docket
  BY <1>1, <1>2, <1>3, DayIsConsidered
<1>5. PICK doc \in Scores!BestDocs(c, r, all) : best.doc = doc
  <2>1. all # {}
    BY <1>4
  <2>2. best \in {[doc |-> doc, score |-> Scores!Score(c, r, doc.date)] :
                   doc \in Scores!BestDocs(c, r, all)}
    BY <2>1 DEF Scores!OfRecap
  <2>3. PICK doc \in Scores!BestDocs(c, r, all) :
               best = [doc |-> doc, score |-> Scores!Score(c, r, doc.date)]
    BY <2>2
  <2>4. best.doc = doc
    BY <2>3
  <2> QED  BY <2>4
<1>6. /\ exact \in Scores!Pool(all)
      /\ \A other \in Scores!Pool(all) :
            /\ other \in all
            /\ Scores!Substantive(Scores!FullDescription(other)) \/ other.free
  <2>1. Scores!Substantive(Scores!FullDescription(exact))
    BY <1>3 DEF Scores!Substantive, Scores!FullDescription
  <2> QED  BY <1>4, <2>1 DEF Scores!Pool
<1>7. /\ doc \in Scores!Pool(all)
      /\ Scores!Better(Scores!Rank(c, r, doc), Scores!Rank(c, r, exact))
  BY <1>5, <1>6 DEF Scores!BestDocs
<1>8. doc.date \in Date
  BY <1>4, <1>6, <1>7
<1>9. doc.date = c.date
  BY <1>1, <1>3, <1>7, <1>8, DayRanksFirst
<1> QED  BY <1>5, <1>6, <1>7, <1>9

\* Of a docket that holds a ruling of the very day cited, a document of that
\* day is shown that is a ruling or free, for any docket, if the search brings
\* the ruling, or nothing of the month that may be one and the query for the
\* day works (verifier.py, _has_recap_date_match, _docket_date_ranges,
\* _pick_best_recap_doc).
THEOREM ExactDateAlwaysWins ==
  ASSUME DocketsAreDated
  PROVE  Spec => []ExactDateWins
<1>1. Question => ExactDateWins
  <2> SUFFICES ASSUME Question, asked.about = "document"
               PROVE  Scores!ExactDateShown(asked.c, asked.r, asked.docs, asked.docket,
                                            asked.failing)
    BY DEF ExactDateWins
  <2>1. /\ asked.c \in CitedDates /\ asked.r \in DocumentRecords /\ asked.docket \in Dockets
        /\ asked.docs \subseteq asked.docket
    BY DEF Question, Nothing
  <2>2. /\ asked.c.date \in Date /\ (asked.c.date[2] # 0 => asked.c.date[1] # 0)
        /\ asked.r.sim \in Nat
        /\ \A doc \in asked.docket : doc.date \in Date /\ (doc.date[1] # 0 => doc.date[2] # 0)
    BY <2>1 DEF DocketsAreDated
  <2> QED  BY <2>1, <2>2, DayIsShown
<1> QED  BY <1>1, QuestionsAsAsked, PTL

----------------------------------------------------------------------------
(* Induction, for sets: no operator stands for what is proved.             *)

\* A set of numbers with 0 and the successor of each is all of them.
LEMMA AllNumbers ==
  ASSUME NEW T, 0 \in T, \A n \in Nat : n \in T => n + 1 \in T
  PROVE  Nat \subseteq T
<1> SUFFICES ASSUME Nat \ T # {} PROVE FALSE
  OBVIOUS
<1> DEFINE n == LeastIn(Nat \ T)
<1>1. n \in Nat \ T /\ \A y \in Nat \ T : n <= y
  BY LeastOf
<1> HIDE DEF n
<1>2. n # 0 /\ n - 1 \in Nat /\ n - 1 + 1 = n /\ ~(n <= n - 1)
  BY <1>1
<1>3. n - 1 \in T
  BY <1>1, <1>2
<1> QED  BY <1>1, <1>2, <1>3

\* A set of texts with the empty one and every continuation of each is all.
LEMMA AllTexts ==
  ASSUME NEW S, NEW T, <<>> \in T,
         \A s \in Seq(S), x \in S : s \in T => Append(s, x) \in T
  PROVE  Seq(S) \subseteq T
<1> DEFINE N == {n \in Nat : \A s \in Seq(S) : Len(s) = n => s \in T}
<1>1. 0 \in N
  BY EmptySeq DEF N
<1>2. ASSUME NEW n \in Nat, n \in N
      PROVE  n + 1 \in N
  <2> SUFFICES ASSUME NEW s \in Seq(S), Len(s) = n + 1
               PROVE  s \in T
    BY DEF N
  <2> DEFINE f == SubSeq(s, 1, n)
             x == s[n + 1]
  <2>1. f \in Seq(S) /\ Len(f) = n /\ x \in S
    OBVIOUS
  <2>2. Append(f, x) = s
    <3>1. /\ Append(f, x) \in Seq(S) /\ Len(Append(f, x)) = n + 1
          /\ \A i \in 1..n + 1 : Append(f, x)[i] = s[i]
      BY <2>1
    <3> HIDE DEF f, x
    <3> QED  BY <3>1, SeqEqual
  <2>3. f \in T
    BY <1>2, <2>1
  <2> QED  BY <2>1, <2>2, <2>3
<1>3. Nat \subseteq N
  BY <1>1, <1>2, AllNumbers
<1> QED  BY <1>3 DEF N

----------------------------------------------------------------------------
(* The tokens that are kept (QuoteMatcher).  A recursive function is one    *)
(* that satisfies its equation if there is any: first there is one.        *)

KeptStep(kind, text, f, i) ==
    IF i = 0 THEN <<>>
    ELSE IF text[i] \in kind THEN f[i - 1] ELSE Append(f[i - 1], text[i])

KeptOf(kind, text) ==
    CHOOSE kept : kept = [i \in 0..Len(text) |-> KeptStep(kind, text, kept, i)]

LEMMA KeptIs ==
  ASSUME NEW kind, NEW text, Len(text) \in Nat
  PROVE  /\ \A i \in 0..Len(text) :
              KeptOf(kind, text)[i] = KeptStep(kind, text, KeptOf(kind, text), i)
         /\ Words!Without(kind, text) = KeptOf(kind, text)[Len(text)]
<1> DEFINE T == {n \in Nat : \E f : \A i \in 0..n : f[i] = KeptStep(kind, text, f, i)}
<1>1. 0 \in T
  <2>1. \A i \in 0..0 : [j \in {0} |-> <<>>][i] = KeptStep(kind, text, [j \in {0} |-> <<>>], i)
    BY DEF KeptStep
  <2> QED  BY <2>1
<1>2. ASSUME NEW n \in Nat, n \in T
      PROVE  n + 1 \in T
  <2>1. PICK f : \A i \in 0..n : f[i] = KeptStep(kind, text, f, i)
    BY <1>2
  <2> DEFINE g == [i \in 0..n + 1 |-> IF i = n + 1 THEN KeptStep(kind, text, f, i) ELSE f[i]]
  <2>2. ASSUME NEW i \in 0..n + 1
        PROVE  KeptStep(kind, text, g, i) = KeptStep(kind, text, f, i)
    <3>1. i # 0 => g[i - 1] = f[i - 1]
      OBVIOUS
    <3> HIDE DEF g
    <3> QED  BY <3>1 DEF KeptStep
  <2>3. \A i \in 0..n + 1 : g[i] = KeptStep(kind, text, f, i)
    <3> HIDE DEF KeptStep
    <3> QED  BY <2>1
  <2> HIDE DEF g
  <2>4. \A i \in 0..n + 1 : g[i] = KeptStep(kind, text, g, i)
    BY <2>2, <2>3
  <2> QED  BY <2>4
<1>3. Len(text) \in T
  BY <1>1, <1>2, AllNumbers
<1>4. PICK f : \A i \in 0..Len(text) : f[i] = KeptStep(kind, text, f, i)
  BY <1>3
<1> DEFINE g == [i \in 0..Len(text) |-> f[i]]
<1>5. ASSUME NEW i \in 0..Len(text)
      PROVE  KeptStep(kind, text, g, i) = f[i]
  <2>1. i # 0 => g[i - 1] = f[i - 1]
    OBVIOUS
  <2>2. f[i] = KeptStep(kind, text, f, i)
    BY <1>4
  <2> HIDE DEF g
  <2> QED  BY <2>1, <2>2 DEF KeptStep
<1>6. g = [i \in 0..Len(text) |-> KeptStep(kind, text, g, i)]
  <2> HIDE DEF KeptStep
  <2> QED  BY <1>5
<1> HIDE DEF g
<1>7. KeptOf(kind, text) = [i \in 0..Len(text) |-> KeptStep(kind, text, KeptOf(kind, text), i)]
  <2> HIDE DEF KeptStep
  <2> QED  BY <1>6 DEF KeptOf
<1>8. Words!Without(kind, text) = KeptOf(kind, text)[Len(text)]
  BY DEF Words!Without, KeptOf, KeptStep
<1> HIDE DEF KeptOf
<1> QED  BY <1>7, <1>8

LEMMA WithoutEmpty ==
  ASSUME NEW kind
  PROVE  Words!Without(kind, <<>>) = <<>>
<1>1. Len(<<>>) = 0
  OBVIOUS
<1> QED  BY <1>1, KeptIs DEF KeptStep

LEMMA WithoutAppend ==
  ASSUME NEW kind, NEW S, NEW s \in Seq(S), NEW x \in S
  PROVE  Words!Without(kind, Append(s, x)) =
           IF x \in kind THEN Words!Without(kind, s) ELSE Append(Words!Without(kind, s), x)
<1> DEFINE t == Append(s, x)
           T == {n \in Nat : n <= Len(s) => KeptOf(kind, t)[n] = KeptOf(kind, s)[n]}
<1>1. /\ Len(s) \in Nat /\ Len(t) = Len(s) + 1 /\ t[Len(s) + 1] = x
      /\ \A i \in 1..Len(s) : t[i] = s[i]
  OBVIOUS
<1> HIDE DEF t
<1>2. /\ \A i \in 0..Len(s) : KeptOf(kind, s)[i] = KeptStep(kind, s, KeptOf(kind, s), i)
      /\ \A i \in 0..Len(t) : KeptOf(kind, t)[i] = KeptStep(kind, t, KeptOf(kind, t), i)
  BY <1>1, KeptIs
<1>3. 0 \in T
  BY <1>1, <1>2 DEF KeptStep
<1>4. ASSUME NEW n \in Nat, n \in T
      PROVE  n + 1 \in T
  <2> SUFFICES ASSUME n + 1 <= Len(s)
               PROVE  KeptOf(kind, t)[n + 1] = KeptOf(kind, s)[n + 1]
    OBVIOUS
  <2>1. /\ KeptOf(kind, t)[n + 1] = KeptStep(kind, t, KeptOf(kind, t), n + 1)
        /\ KeptOf(kind, s)[n + 1] = KeptStep(kind, s, KeptOf(kind, s), n + 1)
    BY <1>1, <1>2
  <2>2. KeptOf(kind, t)[n] = KeptOf(kind, s)[n]
    BY <1>1, <1>4
  <2>3. t[n + 1] = s[n + 1] /\ n + 1 # 0 /\ n + 1 - 1 = n
    BY <1>1
  <2> HIDE DEF T
  <2> QED  BY <2>1, <2>2, <2>3 DEF KeptStep
<1>5. KeptOf(kind, t)[Len(s)] = KeptOf(kind, s)[Len(s)]
  <2>1. Nat \subseteq T
    <3> HIDE DEF T
    <3> QED  BY <1>3, <1>4, AllNumbers
  <2>2. Len(s) \in T /\ Len(s) <= Len(s)
    BY <1>1, <2>1
  <2> QED  BY <2>2
<1>6. KeptOf(kind, t)[Len(t)] = KeptStep(kind, t, KeptOf(kind, t), Len(t))
  BY <1>1, <1>2
<1>7. Len(t) # 0 /\ Len(t) - 1 = Len(s)
  BY <1>1
<1>8. KeptOf(kind, t)[Len(t)] =
        IF x \in kind THEN KeptOf(kind, s)[Len(s)] ELSE Append(KeptOf(kind, s)[Len(s)], x)
  BY <1>1, <1>5, <1>6, <1>7 DEF KeptStep
<1>9. /\ Words!Without(kind, t) = KeptOf(kind, t)[Len(t)]
      /\ Words!Without(kind, s) = KeptOf(kind, s)[Len(s)]
  BY <1>1, KeptIs
<1> QED  BY <1>8, <1>9 DEF t

\* What is kept are tokens of the text, and none of the kind.
LEMMA WithoutType ==
  ASSUME NEW kind, NEW S
  PROVE  \A s \in Seq(S) : Words!Without(kind, s) \in Seq(S)
<1> DEFINE T == {s \in Seq(S) : Words!Without(kind, s) \in Seq(S)}
<1>1. <<>> \in T
  <2>1. <<>> \in Seq(S)
    OBVIOUS
  <2> QED  BY <2>1, WithoutEmpty
<1>2. ASSUME NEW s \in Seq(S), NEW x \in S, s \in T
      PROVE  Append(s, x) \in T
  <2> DEFINE k == Words!Without(kind, s)
  <2>1. Words!Without(kind, Append(s, x)) = IF x \in kind THEN k ELSE Append(k, x)
    BY WithoutAppend
  <2>2. k \in Seq(S) /\ Append(s, x) \in Seq(S)
    BY <1>2
  <2> HIDE DEF k
  <2>3. Append(k, x) \in Seq(S)
    BY <2>2
  <2> QED  BY <2>1, <2>2, <2>3
<1> QED  BY <1>1, <1>2, AllTexts

LEMMA ConcatAppend ==
  ASSUME NEW S, NEW s \in Seq(S), NEW t \in Seq(S), NEW x \in S
  PROVE  s \o Append(t, x) = Append(s \o t, x)
<1>1. <<x>> \in Seq(S) /\ s \o t \in Seq(S)
  BY ConcatProperties
<1>2. Append(t, x) = t \o <<x>> /\ Append(s \o t, x) = (s \o t) \o <<x>>
  BY <1>1, AppendIsConcat
<1> QED  BY <1>1, <1>2, ConcatAssociative

\* The tokens kept of two texts in a row.
LEMMA WithoutConcat ==
  ASSUME NEW kind, NEW S, NEW s \in Seq(S)
  PROVE  \A t \in Seq(S) :
           Words!Without(kind, s \o t) = Words!Without(kind, s) \o Words!Without(kind, t)
<1> DEFINE K(t) == Words!Without(kind, t)
           T == {t \in Seq(S) : K(s \o t) = K(s) \o K(t)}
<1>0. \A t \in Seq(S) : K(t) \in Seq(S)
  BY WithoutType
<1>1. <<>> \in T
  <2>1. s \o <<>> = s /\ K(<<>>) = <<>> /\ <<>> \in Seq(S) /\ K(s) \in Seq(S)
    BY <1>0, WithoutEmpty
  <2>2. K(s) \o <<>> = K(s)
    BY <2>1, ConcatEmptySeq
  <2> QED  BY <2>1, <2>2
<1>2. ASSUME NEW t \in Seq(S), NEW x \in S, t \in T
      PROVE  Append(t, x) \in T
  <2>1. s \o Append(t, x) = Append(s \o t, x) /\ s \o t \in Seq(S)
    BY ConcatProperties, ConcatAppend
  <2>2. K(Append(s \o t, x)) = IF x \in kind THEN K(s \o t) ELSE Append(K(s \o t), x)
    <3> DEFINE u == s \o t
    <3>1. u \in Seq(S)
      BY <2>1
    <3> HIDE DEF u
    <3>2. K(Append(u, x)) = IF x \in kind THEN K(u) ELSE Append(K(u), x)
      BY <3>1, WithoutAppend
    <3> QED  BY <3>2 DEF u
  <2>6. K(Append(t, x)) = IF x \in kind THEN K(t) ELSE Append(K(t), x)
    BY WithoutAppend
  <2>3. K(s \o t) = K(s) \o K(t) /\ K(s) \in Seq(S) /\ K(t) \in Seq(S)
    BY <1>0, <1>2
  <2> HIDE DEF K
  <2>4. Append(K(s) \o K(t), x) = K(s) \o Append(K(t), x)
    BY <2>3, ConcatAppend
  <2>5. K(s \o Append(t, x)) = K(s) \o K(Append(t, x))
    BY <2>1, <2>2, <2>3, <2>4, <2>6
  <2> QED  BY <2>5
<1>3. Seq(S) \subseteq T
  BY <1>1, <1>2, AllTexts
<1> QED  BY <1>3

\* Edits are left out first or together with the pages' marks.
LEMMA WordsOfNeedle ==
  ASSUME NEW S
  PROVE  \A q \in Seq(S) : Words!Words(Words!Needle(q)) = Words!Words(q)
<1> DEFINE kind == Words!Gaps \cup {StarPage}
           gaps == Words!Gaps
           W(s) == Words!Without(kind, s)
           N(s) == Words!Without(gaps, s)
           T == {q \in Seq(S) : W(N(q)) = W(q)}
<1>0. \A q \in Seq(S) : N(q) \in Seq(S)
  BY WithoutType
<1>1. <<>> \in T
  <2>1. <<>> \in Seq(S) /\ N(<<>>) = <<>>
    BY WithoutEmpty
  <2> HIDE DEF N, W
  <2> QED  BY <2>1
<1>2. ASSUME NEW q \in Seq(S), NEW x \in S, q \in T
      PROVE  Append(q, x) \in T
  <2> DEFINE n == N(q)
  <2>1. n \in Seq(S) /\ W(n) = W(q)
    BY <1>0, <1>2
  <2>2. N(Append(q, x)) = IF x \in gaps THEN n ELSE Append(n, x)
    BY WithoutAppend
  <2>3. W(Append(q, x)) = IF x \in kind THEN W(q) ELSE Append(W(q), x)
    BY WithoutAppend
  <2> HIDE DEF n
  <2>4. W(Append(n, x)) = IF x \in kind THEN W(n) ELSE Append(W(n), x)
    BY <2>1, WithoutAppend
  <2>5. x \in gaps => x \in kind
    OBVIOUS
  <2> HIDE DEF N, W, kind, gaps
  <2>6. W(N(Append(q, x))) = W(Append(q, x))
    <3>1. CASE x \in gaps
      BY <2>1, <2>2, <2>3, <2>5, <3>1
    <3>2. CASE x \notin gaps
      <4>1. W(N(Append(q, x))) = W(Append(n, x))
        BY <2>2, <3>2
      <4> QED  BY <2>1, <2>3, <2>4, <4>1
    <3> QED  BY <3>1, <3>2
  <2>7. Append(q, x) \in Seq(S)
    OBVIOUS
  <2> QED  BY <2>6, <2>7
<1>3. Seq(S) \subseteq T
  <2> HIDE DEF T
  <2> QED  BY <1>1, <1>2, AllTexts
<1> QED  BY <1>3 DEF Words!Words, Words!Needle

\* The words of a stretch stand in the text as they do in the stretch.
LEMMA WordsOfStretch ==
  ASSUME NEW S, NEW text \in Seq(S), NEW from \in 1..Len(text), NEW to \in 1..Len(text)
  PROVE  \E shift \in Nat :
           /\ shift + Len(Words!Words(SubSeq(text, from, to))) <= Len(Words!Words(text))
           /\ \A n \in 1..Len(Words!Words(SubSeq(text, from, to))) :
                Words!Words(text)[shift + n] = Words!Words(SubSeq(text, from, to))[n]
<1> DEFINE kind == Words!Gaps \cup {StarPage}
           W(s) == Words!Without(kind, s)
           span == SubSeq(text, from, to)
<1> SUFFICES \E shift \in Nat :
               /\ shift + Len(W(span)) <= Len(W(text))
               /\ \A n \in 1..Len(W(span)) : W(text)[shift + n] = W(span)[n]
  BY DEF Words!Words
<1>0. Len(text) \in Nat /\ \A s \in Seq(S) : W(s) \in Seq(S)
  BY WithoutType
<1>1. CASE to < from
  <2>1. Len(span) = 0 /\ span \in Seq(S)
    BY <1>1
  <2>2. span = <<>>
    BY <2>1, EmptySeq
  <2>3. Len(W(span)) = 0
    BY <2>2, WithoutEmpty
  <2>4. Len(W(text)) \in Nat
    BY <1>0
  <2> HIDE DEF W, span
  <2>5. 0 + Len(W(span)) <= Len(W(text)) /\ 1..Len(W(span)) = {}
    BY <2>3, <2>4
  <2> QED  BY <2>5
<1>2. CASE from <= to
  <2> DEFINE head == SubSeq(text, 1, from - 1)
             tail == SubSeq(text, to + 1, Len(text))
  <2>0. Len(text) \in Nat /\ from \in Nat /\ to \in Nat /\ 1 <= from /\ to <= Len(text)
    BY <1>0
  <2>1. head \in Seq(S) /\ span \in Seq(S) /\ tail \in Seq(S)
    OBVIOUS
  <2>2. text = (head \o span) \o tail
    <3>1. /\ head \o span \in Seq(S) /\ Len(head \o span) = to
          /\ \A i \in 1..to : (head \o span)[i] = text[i]
      <4>1. Len(head) = from - 1 /\ Len(span) = to - from + 1
        BY <1>2
      <4>2. /\ \A i \in 1..from - 1 : head[i] = text[i]
            /\ \A i \in 1..to - from + 1 : span[i] = text[from - 1 + i]
        BY <1>2
      <4> HIDE DEF head, span
      <4>3. /\ head \o span \in Seq(S) /\ Len(head \o span) = Len(head) + Len(span)
            /\ \A i \in 1..Len(head) + Len(span) : (head \o span)[i] =
                 IF i <= Len(head) THEN head[i] ELSE span[i - Len(head)]
        BY <2>1, ConcatProperties
      <4>4. ASSUME NEW i \in 1..to
            PROVE  (head \o span)[i] = text[i]
        <5>1. i \in 1..Len(head) + Len(span)
          BY <1>2, <4>1
        <5>2. CASE i <= from - 1
          <6>1. i \in 1..from - 1
            BY <5>2
          <6>2. i <= Len(head)
            BY <4>1, <5>2
          <6>3. (head \o span)[i] = head[i]
            BY <4>3, <5>1, <6>2
          <6> QED  BY <4>2, <6>1, <6>3
        <5>3. CASE i > from - 1
          <6>1. i - (from - 1) \in 1..to - from + 1 /\ from - 1 + (i - (from - 1)) = i
            BY <5>3
          <6>2. (head \o span)[i] = span[i - (from - 1)]
            BY <4>1, <4>3, <5>1, <5>3
          <6>3. span[i - (from - 1)] = text[from - 1 + (i - (from - 1))]
            BY <4>2, <6>1
          <6> QED  BY <6>1, <6>2, <6>3
        <5>4. i <= from - 1 \/ i > from - 1
          BY <2>0
        <5> QED  BY <5>2, <5>3, <5>4
      <4>5. Len(head \o span) = to
        BY <1>2, <4>1, <4>3
      <4> QED  BY <4>3, <4>4, <4>5
    <3> DEFINE u == head \o span
    <3>2. Len(tail) = Len(text) - to /\ \A i \in 1..Len(text) - to : tail[i] = text[to + i]
      OBVIOUS
    <3>3. u \in Seq(S) /\ Len(u) = to /\ \A i \in 1..to : u[i] = text[i]
      BY <3>1
    <3> HIDE DEF u, tail
    <3>4. /\ u \o tail \in Seq(S) /\ Len(u \o tail) = Len(u) + Len(tail)
          /\ \A i \in 1..Len(u) + Len(tail) : (u \o tail)[i] =
               IF i <= Len(u) THEN u[i] ELSE tail[i - Len(u)]
      BY <2>1, <3>3, ConcatProperties
    <3>5. Len(u \o tail) = Len(text)
      BY <3>2, <3>3, <3>4
    <3>6. ASSUME NEW i \in 1..Len(text)
          PROVE  (u \o tail)[i] = text[i]
      <4>1. i \in 1..Len(u) + Len(tail)
        BY <3>2, <3>3
      <4>2. CASE i <= to
        <5>1. i \in 1..to
          BY <2>0, <4>2
        <5> QED  BY <3>3, <3>4, <4>1, <5>1
      <4>3. CASE i > to
        <5>1. i - to \in 1..Len(text) - to /\ to + (i - to) = i
          BY <4>3
        <5>2. (u \o tail)[i] = tail[i - to]
          BY <3>3, <3>4, <4>1, <4>3
        <5>3. tail[i - to] = text[to + (i - to)]
          BY <3>2, <5>1
        <5> QED  BY <5>1, <5>2, <5>3
      <4>4. i <= to \/ i > to
        BY <2>0
      <4> QED  BY <4>2, <4>3, <4>4
    <3>7. u \o tail = text
      BY <3>4, <3>5, <3>6, SeqEqual
    <3> QED  BY <3>7 DEF u
  <2>3. W(text) = (W(head) \o W(span)) \o W(tail)
    <3> DEFINE u == head \o span
    <3>1. u \in Seq(S)
      BY <2>1, ConcatProperties
    <3>2. W(u) = W(head) \o W(span)
      <4> HIDE DEF head, span
      <4> QED  BY <2>1, WithoutConcat
    <3>3. W(u \o tail) = W(u) \o W(tail)
      <4> HIDE DEF u, tail
      <4> QED  BY <2>1, <3>1, WithoutConcat
    <3> HIDE DEF W, head, span, tail
    <3> QED  BY <2>2, <3>2, <3>3
  <2>4. W(head) \in Seq(S) /\ W(span) \in Seq(S) /\ W(tail) \in Seq(S)
    BY <1>0, <2>1
  <2> HIDE DEF W, head, span, tail
  <2>5. /\ Len(W(head)) \in Nat /\ Len(W(span)) \in Nat /\ Len(W(tail)) \in Nat
    BY <2>4
  <2>6. Len(W(head)) + Len(W(span)) <= Len(W(text))
    BY <2>3, <2>4, <2>5, ConcatProperties
  <2>7. ASSUME NEW n \in 1..Len(W(span))
        PROVE  W(text)[Len(W(head)) + n] = W(span)[n]
    <3> DEFINE a == W(head)
               b == W(span)
               c == W(tail)
               u == a \o b
               i == Len(a) + n
    <3>1. a \in Seq(S) /\ b \in Seq(S) /\ c \in Seq(S) /\ W(text) = u \o c /\ n \in 1..Len(b)
          /\ Len(a) \in Nat /\ Len(b) \in Nat /\ Len(c) \in Nat
      BY <2>3, <2>4, <2>5
    <3> HIDE DEF a, b, c
    <3>2. /\ u \in Seq(S) /\ Len(u) = Len(a) + Len(b)
          /\ \A j \in 1..Len(a) + Len(b) : u[j] = IF j <= Len(a) THEN a[j] ELSE b[j - Len(a)]
      BY <3>1, ConcatProperties
    <3> HIDE DEF u
    <3>3. \A j \in 1..Len(u) + Len(c) : (u \o c)[j] = IF j <= Len(u) THEN u[j] ELSE c[j - Len(u)]
      BY <3>1, <3>2, ConcatProperties
    <3>4. i \in 1..Len(a) + Len(b) /\ ~(i <= Len(a)) /\ i - Len(a) = n /\ i <= Len(u)
          /\ i \in 1..Len(u) + Len(c)
      BY <3>1, <3>2
    <3> HIDE DEF i
    <3>5. (u \o c)[i] = b[n]
      BY <3>2, <3>3, <3>4
    <3> QED  BY <3>1, <3>5 DEF i, a, b
  <2> QED  BY <2>5, <2>6, <2>7
<1>3. to < from \/ from <= to
  BY <1>0
<1> HIDE DEF W, span
<1> QED  BY <1>1, <1>2, <1>3

----------------------------------------------------------------------------
(* The blocks two lists of words have in common.                           *)

Triples == Nat \X Nat \X Nat

\* A block is one of the longest, and of those the first.
LEMMA LongestIs ==
  ASSUME NEW B, B \subseteq Triples, B # {}, NEW most \in Nat, \A x \in B : x[3] <= most
  PROVE  Words!Longest(B) \in B /\ \A y \in B : y[3] <= Words!Longest(B)[3]
<1>0. \A x \in B : x[1] \in Nat /\ x[2] \in Nat /\ x[3] \in Nat
  BY DEF Triples
<1> DEFINE K == {most - x[3] : x \in B}
<1>1. PICK u \in B : \A x \in B : u[3] >= x[3]
  <2>1. K \in SUBSET Nat /\ K # {}
    BY <1>0
  <2>2. LeastIn(K) \in K /\ \A y \in K : LeastIn(K) <= y
    BY <2>1, LeastOf
  <2>3. PICK u \in B : LeastIn(K) = most - u[3]
    BY <2>2
  <2>4. \A x \in B : most - u[3] <= most - x[3]
    BY <2>2, <2>3
  <2> QED  BY <1>0, <2>4
<1> DEFINE I == {x[1] : x \in {y \in B : y[3] = u[3]}}
<1>2. PICK v \in B : /\ v[3] = u[3]
                     /\ \A x \in B : x[3] = u[3] => v[1] <= x[1]
  <2>1. I \in SUBSET Nat /\ I # {}
    BY <1>0
  <2>2. LeastIn(I) \in I /\ \A y \in I : LeastIn(I) <= y
    BY <2>1, LeastOf
  <2> QED  BY <2>2
<1> DEFINE J == {x[2] : x \in {y \in B : y[3] = u[3] /\ y[1] = v[1]}}
<1>3. PICK w \in B : /\ w[3] = u[3] /\ w[1] = v[1]
                     /\ \A x \in B : x[3] = u[3] /\ x[1] = v[1] => w[2] <= x[2]
  <2>1. J \in SUBSET Nat /\ J # {}
    BY <1>0, <1>2
  <2>2. LeastIn(J) \in J /\ \A y \in J : LeastIn(J) <= y
    BY <2>1, LeastOf
  <2> QED  BY <2>2
<1>4. \A y \in B : \/ w[3] > y[3]
                   \/ w[3] = y[3] /\ w[1] < y[1]
                   \/ w[3] = y[3] /\ w[1] = y[1] /\ w[2] <= y[2]
  <2> SUFFICES ASSUME NEW y \in B
               PROVE  \/ w[3] > y[3]
                      \/ w[3] = y[3] /\ w[1] < y[1]
                      \/ w[3] = y[3] /\ w[1] = y[1] /\ w[2] <= y[2]
    OBVIOUS
  <2>1. /\ y[1] \in Nat /\ y[3] \in Nat /\ w[1] \in Nat /\ w[3] \in Nat /\ w[3] >= y[3]
        /\ y[3] = u[3] => w[1] <= y[1]
        /\ y[3] = u[3] /\ y[1] = v[1] => w[2] <= y[2]
    BY <1>0, <1>1, <1>2, <1>3
  <2> QED  BY <1>3, <2>1
<1> DEFINE z == Words!Longest(B)
<1>5. /\ z \in B
      /\ \A y \in B : \/ z[3] > y[3]
                      \/ z[3] = y[3] /\ z[1] < y[1]
                      \/ z[3] = y[3] /\ z[1] = y[1] /\ z[2] <= y[2]
  BY <1>4 DEF Words!Longest
<1> HIDE DEF z
<1>6. ASSUME NEW y \in B
      PROVE  y[3] <= z[3]
  <2>1. y[3] \in Nat /\ z[3] \in Nat
    BY <1>0, <1>5
  <2>2. z[3] > y[3] \/ z[3] = y[3]
    BY <1>5
  <2> QED  BY <2>1, <2>2
<1> QED  BY <1>5, <1>6 DEF z

Shared(a, b, r) == Words!CommonStretches(a, b, r[1], r[2], r[3], r[4])

\* A stretch, within the bounds.
LEMMA SharedIs ==
  ASSUME NEW a, NEW b, Len(a) \in Nat, Len(b) \in Nat, NEW r \in Words!Regions(a, b)
  PROVE  /\ r[1] \in 0..Len(a) /\ r[2] \in 0..Len(a) /\ r[3] \in 0..Len(b) /\ r[4] \in 0..Len(b)
         /\ \A x \in Shared(a, b, r) :
              /\ x \in Triples /\ x[1] \in Nat /\ x[2] \in Nat /\ x[3] \in Nat
              /\ x[3] >= 1 /\ x[3] <= Len(a)
              /\ r[1] <= x[1] /\ x[1] + x[3] <= r[2]
              /\ r[3] <= x[2] /\ x[2] + x[3] <= r[4]
              /\ \A n \in 1..x[3] : a[x[1] + n] = b[x[2] + n]
<1>1. r[1] \in 0..Len(a) /\ r[2] \in 0..Len(a) /\ r[3] \in 0..Len(b) /\ r[4] \in 0..Len(b)
  BY DEF Words!Regions
<1>2. ASSUME NEW x \in Shared(a, b, r)
      PROVE  /\ x[1] \in r[1]..r[2] /\ x[2] \in r[3]..r[4] /\ x[3] \in 1..r[2] - r[1]
             /\ x = <<x[1], x[2], x[3]>>
             /\ x[1] + x[3] <= r[2] /\ x[2] + x[3] <= r[4]
             /\ \A n \in 1..x[3] : a[x[1] + n] = b[x[2] + n]
  BY <1>2 DEF Shared, Words!CommonStretches
<1>3. ASSUME NEW x \in Shared(a, b, r)
      PROVE  /\ x \in Triples /\ x[1] \in Nat /\ x[2] \in Nat /\ x[3] \in Nat
             /\ x[3] >= 1 /\ x[3] <= Len(a) /\ r[1] <= x[1] /\ r[3] <= x[2]
  BY <1>1, <1>2 DEF Triples
<1> QED  BY <1>1, <1>2, <1>3

BlocksStep(a, b, f, r) ==
    LET x == Words!Longest(Shared(a, b, r))
    IN  IF Shared(a, b, r) = {} THEN {}
        ELSE f[<<r[1], x[1], r[3], x[2]>>] \cup {x}
             \cup f[<<x[1] + x[3], r[2], x[2] + x[3], r[4]>>]

\* The regions on both sides of a stretch are narrower.
LEMMA Sides ==
  ASSUME NEW a, NEW b, Len(a) \in Nat, Len(b) \in Nat, NEW r \in Words!Regions(a, b),
         NEW x \in Shared(a, b, r)
  PROVE  /\ <<r[1], x[1], r[3], x[2]>> \in Words!Regions(a, b)
         /\ <<x[1] + x[3], r[2], x[2] + x[3], r[4]>> \in Words!Regions(a, b)
         /\ x[1] - r[1] < r[2] - r[1] /\ r[2] - (x[1] + x[3]) < r[2] - r[1]
<1>1. /\ r[1] \in 0..Len(a) /\ r[2] \in 0..Len(a) /\ r[3] \in 0..Len(b) /\ r[4] \in 0..Len(b)
      /\ x[1] \in Nat /\ x[2] \in Nat /\ x[3] \in Nat
      /\ x[3] >= 1 /\ r[1] <= x[1] /\ x[1] + x[3] <= r[2]
      /\ r[3] <= x[2] /\ x[2] + x[3] <= r[4]
  BY SharedIs
<1> DEFINE la == Len(a)  lb == Len(b)
           i == x[1]  j == x[2]  k == x[3]  al == r[1]  ah == r[2]  bl == r[3]  bh == r[4]
<1>4. /\ la \in Nat /\ lb \in Nat /\ i \in Nat /\ j \in Nat /\ k \in Nat
      /\ al \in 0..la /\ ah \in 0..la /\ bl \in 0..lb /\ bh \in 0..lb
      /\ k >= 1 /\ al <= i /\ i + k <= ah /\ bl <= j /\ j + k <= bh
  BY <1>1
<1> HIDE DEF la, lb, i, j, k, al, ah, bl, bh
<1>2. i \in 0..la /\ j \in 0..lb /\ i + k \in 0..la /\ j + k \in 0..lb
  BY <1>4
<1>3. i - al < ah - al /\ ah - (i + k) < ah - al
  BY <1>4
<1> USE DEF la, lb, i, j, k, al, ah, bl, bh
<1> QED  BY <1>1, <1>2, <1>3 DEF Words!Regions

\* No stretch in a region without words; one of them otherwise.
LEMMA LongestShared ==
  ASSUME NEW a, NEW b, Len(a) \in Nat, Len(b) \in Nat, NEW r \in Words!Regions(a, b)
  PROVE  /\ Shared(a, b, r) # {} => Words!Longest(Shared(a, b, r)) \in Shared(a, b, r)
         /\ r[2] <= r[1] => Shared(a, b, r) = {}
<1>1. Shared(a, b, r) \subseteq Triples /\ \A x \in Shared(a, b, r) : x[3] <= Len(a)
  BY SharedIs
<1>2. ASSUME NEW x \in Shared(a, b, r), r[2] <= r[1]
      PROVE  FALSE
  <2>1. /\ x[1] \in Nat /\ x[3] \in Nat /\ x[3] >= 1 /\ r[1] <= x[1] /\ x[1] + x[3] <= r[2]
        /\ r[1] \in Nat /\ r[2] \in Nat
    BY SharedIs
  <2> QED  BY <1>2, <2>1
<1> QED  BY <1>1, <1>2, LongestIs

BlocksOf(a, b) ==
    CHOOSE blocks : blocks = [r \in Words!Regions(a, b) |-> BlocksStep(a, b, blocks, r)]

\* A step asks for narrower regions only.
LEMMA StepAsks ==
  ASSUME NEW a, NEW b, Len(a) \in Nat, Len(b) \in Nat, NEW r \in Words!Regions(a, b),
         NEW f, NEW g,
         \A s \in Words!Regions(a, b) : s[2] - s[1] < r[2] - r[1] => f[s] = g[s]
  PROVE  BlocksStep(a, b, f, r) = BlocksStep(a, b, g, r)
<1>1. CASE Shared(a, b, r) = {}
  BY <1>1 DEF BlocksStep
<1>2. CASE Shared(a, b, r) # {}
  <2> DEFINE x == Words!Longest(Shared(a, b, r))
             left == <<r[1], x[1], r[3], x[2]>>
             right == <<x[1] + x[3], r[2], x[2] + x[3], r[4]>>
  <2>1. x \in Shared(a, b, r)
    BY <1>2, LongestShared
  <2> HIDE DEF x
  <2>2. left \in Words!Regions(a, b) /\ right \in Words!Regions(a, b)
        /\ x[1] - r[1] < r[2] - r[1] /\ r[2] - (x[1] + x[3]) < r[2] - r[1]
    BY <2>1, Sides
  <2>3. left[1] = r[1] /\ left[2] = x[1] /\ right[1] = x[1] + x[3] /\ right[2] = r[2]
    OBVIOUS
  <2> HIDE DEF left, right
  <2>4. f[left] = g[left] /\ f[right] = g[right]
    BY <2>2, <2>3
  <2> QED  BY <1>2, <2>4 DEF BlocksStep, x, left, right
<1> QED  BY <1>1, <1>2

LEMMA BlocksAre ==
  ASSUME NEW a, NEW b, Len(a) \in Nat, Len(b) \in Nat
  PROVE  /\ \A r \in Words!Regions(a, b) :
              BlocksOf(a, b)[r] = BlocksStep(a, b, BlocksOf(a, b), r)
         /\ Words!MatchingBlocks(a, b) = BlocksOf(a, b)[<<0, Len(a), 0, Len(b)>>]
<1> DEFINE R == Words!Regions(a, b)
           F(f, r) == BlocksStep(a, b, f, r)
           T == {n \in Nat : \E f : \A r \in R : r[2] - r[1] <= n => f[r] = F(f, r)}
<1>0. \A r \in R : r[1] \in 0..Len(a) /\ r[2] \in 0..Len(a)
  BY DEF Words!Regions
<1>1. 0 \in T
  <2> DEFINE f == [r \in R |-> {}]
  <2>1. ASSUME NEW r \in R, r[2] - r[1] <= 0
        PROVE  f[r] = F(f, r)
    <3>1. r[2] <= r[1]
      BY <1>0, <2>1
    <3>2. Shared(a, b, r) = {}
      BY <3>1, LongestShared
    <3>3. f[r] = {}
      OBVIOUS
    <3> HIDE DEF f, R
    <3> QED  BY <3>2, <3>3 DEF BlocksStep
  <2> HIDE DEF f, R, F
  <2> QED  BY <2>1
<1>2. ASSUME NEW n \in Nat, n \in T
      PROVE  n + 1 \in T
  <2>1. PICK f : \A r \in R : r[2] - r[1] <= n => f[r] = F(f, r)
    BY <1>2
  <2> DEFINE g == [r \in R |-> IF r[2] - r[1] <= n THEN f[r] ELSE F(f, r)]
  <2>2. ASSUME NEW r \in R
        PROVE  g[r] = F(f, r)
    <3> HIDE DEF R, F
    <3> QED  BY <2>1
  <2>3. ASSUME NEW r \in R, r[2] - r[1] <= n + 1
        PROVE  F(g, r) = F(f, r)
    <3>1. ASSUME NEW s \in R, s[2] - s[1] < r[2] - r[1]
          PROVE  g[s] = f[s]
      <4>1. s[2] - s[1] <= n
        <5>1. s[1] \in Int /\ s[2] \in Int /\ r[1] \in Int /\ r[2] \in Int
          BY <1>0
        <5> QED  BY <2>3, <3>1, <5>1
      <4> HIDE DEF R, F
      <4> QED  BY <4>1
    <3> HIDE DEF g
    <3> QED  BY <3>1, StepAsks
  <2> HIDE DEF g, F, R
  <2>4. \A r \in R : r[2] - r[1] <= n + 1 => g[r] = F(g, r)
    BY <2>2, <2>3
  <2> QED  BY <2>4
<1>3. Len(a) \in T
  <2> HIDE DEF T
  <2> QED  BY <1>1, <1>2, AllNumbers
<1>4. PICK f : \A r \in R : f[r] = F(f, r)
  <2>1. PICK f : \A r \in R : r[2] - r[1] <= Len(a) => f[r] = F(f, r)
    BY <1>3
  <2>2. \A r \in R : r[2] - r[1] <= Len(a)
    BY <1>0
  <2> QED  BY <2>1, <2>2
<1> DEFINE g == [r \in R |-> f[r]]
<1>5. ASSUME NEW r \in R
      PROVE  F(g, r) = f[r]
  <2>1. \A s \in R : g[s] = f[s]
    OBVIOUS
  <2> HIDE DEF g
  <2>2. F(g, r) = F(f, r)
    BY <2>1, StepAsks
  <2> QED  BY <1>4, <2>2
<1>6. g = [r \in R |-> F(g, r)]
  <2> HIDE DEF F, R
  <2> QED  BY <1>5
<1> HIDE DEF g
<1>7. BlocksOf(a, b) = [r \in R |-> F(BlocksOf(a, b), r)]
  <2> HIDE DEF BlocksStep
  <2> QED  BY <1>6 DEF BlocksOf
<1>8. Words!MatchingBlocks(a, b) = BlocksOf(a, b)[<<0, Len(a), 0, Len(b)>>]
  BY DEF Words!MatchingBlocks, BlocksOf, BlocksStep, Shared
<1>9. \A r \in R : BlocksOf(a, b)[r] = F(BlocksOf(a, b), r)
  <2> HIDE DEF F, R, BlocksOf
  <2> QED  BY <1>7
<1> QED  BY <1>8, <1>9

\* A block of a region: words they share, within its bounds.
Block(a, b, r, x) ==
    /\ x \in Triples /\ x[1] \in Nat /\ x[2] \in Nat /\ x[3] \in Nat /\ x[3] >= 1
    /\ r[1] <= x[1] /\ x[1] + x[3] <= r[2]
    /\ r[3] <= x[2] /\ x[2] + x[3] <= r[4]
    /\ \A n \in 1..x[3] : a[x[1] + n] = b[x[2] + n]

\* One after the other in both lists.
InOrder(B) == \A x, y \in B : x = y \/ Words!Precedes(x, y) \/ Words!Precedes(y, x)

Tidy(a, b, r, B) == (\A x \in B : Block(a, b, r, x)) /\ InOrder(B)

\* Blocks on both sides of a block are tidy with it.
LEMMA TidySides ==
  ASSUME NEW a, NEW b, NEW r, NEW x, NEW L, NEW R, Block(a, b, r, x),
         r[1] \in Nat, r[2] \in Nat, r[3] \in Nat, r[4] \in Nat,
         Tidy(a, b, <<r[1], x[1], r[3], x[2]>>, L),
         Tidy(a, b, <<x[1] + x[3], r[2], x[2] + x[3], r[4]>>, R)
  PROVE  Tidy(a, b, r, L \cup {x} \cup R)
<1> DEFINE left == <<r[1], x[1], r[3], x[2]>>
           right == <<x[1] + x[3], r[2], x[2] + x[3], r[4]>>
<1>1. /\ left[1] = r[1] /\ left[2] = x[1] /\ left[3] = r[3] /\ left[4] = x[2]
      /\ right[1] = x[1] + x[3] /\ right[2] = r[2]
      /\ right[3] = x[2] + x[3] /\ right[4] = r[4]
  OBVIOUS
<1>2. /\ \A y \in L : Block(a, b, left, y)
      /\ \A y \in R : Block(a, b, right, y)
      /\ InOrder(L) /\ InOrder(R)
  BY DEF Tidy
<1> HIDE DEF left, right
<1>3. /\ x[1] \in Nat /\ x[2] \in Nat /\ x[3] \in Nat /\ x[3] >= 1
      /\ r[1] <= x[1] /\ x[1] + x[3] <= r[2] /\ r[3] <= x[2] /\ x[2] + x[3] <= r[4]
  BY DEF Block
<1>4. ASSUME NEW y \in L
      PROVE  /\ Block(a, b, r, y) /\ y[1] \in Nat /\ y[2] \in Nat /\ y[3] \in Nat /\ y[3] >= 1
             /\ y[1] + y[3] <= x[1] /\ y[2] + y[3] <= x[2]
  <2>1. Block(a, b, left, y)
    BY <1>2
  <2>2. /\ y \in Triples /\ y[1] \in Nat /\ y[2] \in Nat /\ y[3] \in Nat /\ y[3] >= 1
        /\ r[1] <= y[1] /\ y[1] + y[3] <= x[1] /\ r[3] <= y[2] /\ y[2] + y[3] <= x[2]
        /\ \A n \in 1..y[3] : a[y[1] + n] = b[y[2] + n]
    BY <1>1, <2>1 DEF Block
  <2>3. y[1] + y[3] <= r[2] /\ y[2] + y[3] <= r[4]
    BY <1>3, <2>2
  <2> QED  BY <2>2, <2>3 DEF Block
<1>5. ASSUME NEW y \in R
      PROVE  /\ Block(a, b, r, y) /\ y[1] \in Nat /\ y[2] \in Nat /\ y[3] \in Nat /\ y[3] >= 1
             /\ x[1] + x[3] <= y[1] /\ x[2] + x[3] <= y[2]
  <2>1. Block(a, b, right, y)
    BY <1>2
  <2>2. /\ y \in Triples /\ y[1] \in Nat /\ y[2] \in Nat /\ y[3] \in Nat /\ y[3] >= 1
        /\ x[1] + x[3] <= y[1] /\ y[1] + y[3] <= r[2]
        /\ x[2] + x[3] <= y[2] /\ y[2] + y[3] <= r[4]
        /\ \A n \in 1..y[3] : a[y[1] + n] = b[y[2] + n]
    BY <1>1, <2>1 DEF Block
  <2>3. r[1] <= y[1] /\ r[3] <= y[2]
    BY <1>3, <2>2
  <2> QED  BY <2>2, <2>3 DEF Block
<1>6. ASSUME NEW y \in L
      PROVE  Words!Precedes(y, x)
  BY <1>3, <1>4 DEF Words!Precedes
<1>7. ASSUME NEW y \in R
      PROVE  Words!Precedes(x, y)
  BY <1>3, <1>5 DEF Words!Precedes
<1>8. ASSUME NEW y \in L, NEW z \in R
      PROVE  Words!Precedes(y, z)
  BY <1>3, <1>4, <1>5 DEF Words!Precedes
<1>9. ASSUME NEW y \in L \cup {x} \cup R, NEW z \in L \cup {x} \cup R
      PROVE  y = z \/ Words!Precedes(y, z) \/ Words!Precedes(z, y)
  <2>1. CASE y \in L /\ z \in L
    BY <1>2, <2>1 DEF InOrder
  <2>2. CASE y \in R /\ z \in R
    BY <1>2, <2>2 DEF InOrder
  <2> QED  BY <1>6, <1>7, <1>8, <2>1, <2>2
<1>10. \A y \in L \cup {x} \cup R : Block(a, b, r, y)
  BY <1>4, <1>5
<1> QED  BY <1>9, <1>10 DEF Tidy, InOrder

\* The blocks found in a region are tidy.
LEMMA BlocksTidy ==
  ASSUME NEW a, NEW b, Len(a) \in Nat, Len(b) \in Nat
  PROVE  Tidy(a, b, <<0, Len(a), 0, Len(b)>>, Words!MatchingBlocks(a, b))
<1> DEFINE Rs == Words!Regions(a, b)
           f == BlocksOf(a, b)
           T == {n \in Nat : \A r \in Rs : r[2] - r[1] <= n => Tidy(a, b, r, f[r])}
<1>0. \A r \in Rs : r[1] \in Nat /\ r[2] \in Nat /\ r[3] \in Nat /\ r[4] \in Nat
                    /\ r[1] <= Len(a) /\ r[2] <= Len(a)
  BY DEF Words!Regions
<1>1. \A r \in Rs : f[r] = BlocksStep(a, b, f, r)
  BY BlocksAre
<1> HIDE DEF f
<1>2. Tidy(a, b, 0, {}) /\ \A r : Tidy(a, b, r, {})
  BY DEF Tidy, InOrder
<1>3. 0 \in T
  <2>1. ASSUME NEW r \in Rs, r[2] - r[1] <= 0
        PROVE  Tidy(a, b, r, f[r])
    <3>1. r[2] <= r[1]
      BY <1>0, <2>1
    <3>2. Shared(a, b, r) = {}
      BY <3>1, LongestShared
    <3>3. f[r] = {}
      BY <1>1, <3>2 DEF BlocksStep
    <3> QED  BY <1>2, <3>3
  <2> HIDE DEF Rs
  <2> QED  BY <2>1
<1>4. ASSUME NEW n \in Nat, n \in T
      PROVE  n + 1 \in T
  <2>1. ASSUME NEW r \in Rs, r[2] - r[1] <= n + 1
        PROVE  Tidy(a, b, r, f[r])
    <3>1. CASE Shared(a, b, r) = {}
      <4>1. f[r] = {}
        BY <1>1, <3>1 DEF BlocksStep
      <4> QED  BY <1>2, <4>1
    <3>2. CASE Shared(a, b, r) # {}
      <4> DEFINE x == Words!Longest(Shared(a, b, r))
                 left == <<r[1], x[1], r[3], x[2]>>
                 right == <<x[1] + x[3], r[2], x[2] + x[3], r[4]>>
      <4>1. x \in Shared(a, b, r)
        BY <3>2, LongestShared
      <4>2. f[r] = f[left] \cup {x} \cup f[right]
        BY <1>1, <3>2 DEF BlocksStep
      <4> HIDE DEF x
      <4>3. left \in Rs /\ right \in Rs
            /\ x[1] - r[1] < r[2] - r[1] /\ r[2] - (x[1] + x[3]) < r[2] - r[1]
        BY <4>1, Sides
      <4>4. Block(a, b, r, x)
        BY <4>1, SharedIs DEF Block
      <4>5. left[2] - left[1] <= n /\ right[2] - right[1] <= n
        <5>1. left[1] = r[1] /\ left[2] = x[1] /\ right[1] = x[1] + x[3] /\ right[2] = r[2]
          OBVIOUS
        <5>2. x[1] \in Nat /\ x[3] \in Nat /\ r[1] \in Nat /\ r[2] \in Nat
          BY <1>0, <4>4 DEF Block
        <5> HIDE DEF left, right
        <5>3. x[1] - r[1] <= n /\ r[2] - (x[1] + x[3]) <= n
          BY <2>1, <4>3, <5>2
        <5> QED  BY <5>1, <5>3
      <4> HIDE DEF left, right, Rs
      <4>6. Tidy(a, b, left, f[left]) /\ Tidy(a, b, right, f[right])
        BY <1>4, <4>3, <4>5
      <4> USE DEF left, right
      <4>7. Tidy(a, b, r, f[left] \cup {x} \cup f[right])
        BY <1>0, <4>4, <4>6, TidySides
      <4> QED  BY <4>2, <4>7
    <3> QED  BY <3>1, <3>2
  <2> HIDE DEF Rs
  <2> QED  BY <2>1
<1>5. Len(a) \in T
  <2> HIDE DEF T
  <2> QED  BY <1>3, <1>4, AllNumbers
<1>6. \A r \in Rs : r[2] - r[1] <= Len(a)
  BY <1>0
<1>7. <<0, Len(a), 0, Len(b)>> \in Rs
  BY DEF Words!Regions
<1> HIDE DEF Rs
<1>8. Tidy(a, b, <<0, Len(a), 0, Len(b)>>, f[<<0, Len(a), 0, Len(b)>>])
  BY <1>5, <1>6, <1>7
<1> QED  BY <1>8, BlocksAre DEF f

----------------------------------------------------------------------------
(* Where nothing of the quote is missing between the blocks, they place     *)
(* every word of it.                                                        *)

Marks(a, b) == Words!MatchingBlocks(a, b) \cup {<<0, 0, 0>>, <<Len(a), Len(b), 0>>}

Weight(x) == x[1] + x[2] + x[3]

\* The blocks and both ends stand one after the other, within the lists.
LEMMA MarksInOrder ==
  ASSUME NEW a, NEW b, Len(a) \in Nat, Len(b) \in Nat
  PROVE  /\ InOrder(Marks(a, b))
         /\ \A x \in Marks(a, b) :
              /\ x[1] \in Nat /\ x[2] \in Nat /\ x[3] \in Nat /\ x \in Triples
              /\ x[1] + x[3] <= Len(a) /\ x[2] + x[3] <= Len(b)
              /\ x[3] >= 1 => x \in Words!MatchingBlocks(a, b)
              /\ x \notin Words!MatchingBlocks(a, b) =>
                   x = <<0, 0, 0>> \/ x = <<Len(a), Len(b), 0>>
<1> DEFINE M == Words!MatchingBlocks(a, b)
           la == Len(a)
           lb == Len(b)
           first == <<0, 0, 0>>
           last == <<la, lb, 0>>
           all == <<0, la, 0, lb>>
<1>1. (\A x \in M : Block(a, b, all, x)) /\ InOrder(M)
  BY BlocksTidy DEF Tidy
<1>2. all[1] = 0 /\ all[2] = la /\ all[3] = 0 /\ all[4] = lb
  OBVIOUS
<1> HIDE DEF all, M
<1>3. ASSUME NEW x \in M
      PROVE  /\ x[1] \in Nat /\ x[2] \in Nat /\ x[3] \in Nat /\ x \in Triples
             /\ x[1] + x[3] <= la /\ x[2] + x[3] <= lb /\ x[3] >= 1
  BY <1>1, <1>2 DEF Block
<1>4. /\ first[1] = 0 /\ first[2] = 0 /\ first[3] = 0 /\ first \in Triples
      /\ last[1] = la /\ last[2] = lb /\ last[3] = 0 /\ last \in Triples
      /\ la \in Nat /\ lb \in Nat
  BY DEF Triples
<1>5. Marks(a, b) = M \cup {first, last}
  BY DEF Marks, M
<1> HIDE DEF first, last, la, lb
<1>6. ASSUME NEW x \in M
      PROVE  Words!Precedes(first, x) /\ Words!Precedes(x, last)
  BY <1>3, <1>4 DEF Words!Precedes
<1>7. first = last \/ Words!Precedes(first, last)
  BY <1>4 DEF Words!Precedes
<1>8. InOrder(M \cup {first, last})
  BY <1>1, <1>6, <1>7 DEF InOrder
<1>9. ASSUME NEW x \in M \cup {first, last}
      PROVE  /\ x[1] \in Nat /\ x[2] \in Nat /\ x[3] \in Nat /\ x \in Triples
             /\ x[1] + x[3] <= la /\ x[2] + x[3] <= lb
             /\ x[3] >= 1 => x \in M
             /\ x \notin M => x = first \/ x = last
  BY <1>3, <1>4
<1> QED  BY <1>5, <1>8, <1>9 DEF M, la, lb, first, last

\* What comes later weighs more.
LEMMA PrecedesLighter ==
  ASSUME NEW x \in Triples, NEW y \in Triples, Words!Precedes(x, y)
  PROVE  Weight(x) \in Nat /\ Weight(y) \in Nat /\ Weight(x) < Weight(y)
<1>1. /\ x[1] \in Nat /\ x[2] \in Nat /\ x[3] \in Nat /\ x = <<x[1], x[2], x[3]>>
      /\ y[1] \in Nat /\ y[2] \in Nat /\ y[3] \in Nat /\ y = <<y[1], y[2], y[3]>>
  BY DEF Triples
<1>2. x[1] # y[1] \/ x[2] # y[2] \/ x[3] # y[3]
  BY <1>1 DEF Words!Precedes
<1>3. x[1] + x[3] <= y[1] /\ x[2] + x[3] <= y[2]
  BY DEF Words!Precedes
<1> DEFINE x1 == x[1]  x2 == x[2]  x3 == x[3]  y1 == y[1]  y2 == y[2]  y3 == y[3]
<1>4. /\ x1 \in Nat /\ x2 \in Nat /\ x3 \in Nat /\ y1 \in Nat /\ y2 \in Nat /\ y3 \in Nat
      /\ x1 # y1 \/ x2 # y2 \/ x3 # y3
      /\ x1 + x3 <= y1 /\ x2 + x3 <= y2
  BY <1>1, <1>2, <1>3
<1>5. Weight(x) = x1 + x2 + x3 /\ Weight(y) = y1 + y2 + y3
  BY DEF Weight
<1> HIDE DEF x1, x2, x3, y1, y2, y3
<1>6. x1 + x2 + x3 \in Nat /\ y1 + y2 + y3 \in Nat /\ x1 + x2 + x3 < y1 + y2 + y3
  BY <1>4
<1> QED  BY <1>5, <1>6

Neighbours(B, x, y) ==
    /\ Words!Precedes(x, y)
    /\ \A z \in B : ~(Words!Precedes(x, z) /\ Words!Precedes(z, y))

\* What precedes anything precedes a neighbour.
LEMMA NeighbourOf ==
  ASSUME NEW B, B \subseteq Triples, NEW x \in B, NEW z \in B, Words!Precedes(x, z)
  PROVE  \E y \in B : Neighbours(B, x, y)
<1> DEFINE later == {y \in B : Words!Precedes(x, y)}
           W == {Weight(y) : y \in later}
<1>1. \A y \in later : Weight(y) \in Nat
  BY PrecedesLighter
<1>2. W \in SUBSET Nat /\ W # {}
  BY <1>1
<1>3. LeastIn(W) \in W /\ \A w \in W : LeastIn(W) <= w
  BY <1>2, LeastOf
<1>4. PICK y \in later : \A u \in later : Weight(y) <= Weight(u)
  BY <1>3
<1>5. ASSUME NEW u \in B, Words!Precedes(x, u), Words!Precedes(u, y)
      PROVE  FALSE
  <2>1. Weight(u) \in Nat /\ Weight(y) \in Nat /\ Weight(u) < Weight(y)
    BY <1>5, PrecedesLighter
  <2>2. Weight(y) <= Weight(u)
    BY <1>4, <1>5
  <2> QED  BY <2>1, <2>2
<1> QED  BY <1>4, <1>5 DEF Neighbours

Between(x, y) == [i1 |-> x[1] + x[3], i2 |-> y[1], j1 |-> x[2] + x[3], j2 |-> y[2]]

\* What lies between neighbours, if anything does, is an opcode.
LEMMA OpcodeBetween ==
  ASSUME NEW a, NEW b, NEW x \in Marks(a, b), NEW y \in Marks(a, b),
         Neighbours(Marks(a, b), x, y),
         x[1] + x[3] < y[1] \/ x[2] + x[3] < y[2]
  PROVE  Between(x, y) \in Words!Opcodes(a, b)
<1> DEFINE B == Marks(a, b)
           near == {xy \in B \X B : /\ Words!Precedes(xy[1], xy[2])
                                    /\ \A z \in B : ~(Words!Precedes(xy[1], z) /\ Words!Precedes(z, xy[2]))}
           between == {[i1 |-> xy[1][1] + xy[1][3], i2 |-> xy[2][1],
                        j1 |-> xy[1][2] + xy[1][3], j2 |-> xy[2][2]] : xy \in near}
<1>1. Words!Opcodes(a, b) = {op \in between : op.i1 < op.i2 \/ op.j1 < op.j2}
  BY DEF Words!Opcodes, Marks
<1> HIDE DEF B
<1>2. <<x, y>> \in near
  <2>1. <<x, y>>[1] = x /\ <<x, y>>[2] = y /\ <<x, y>> \in B \X B
    BY DEF B
  <2>2. Words!Precedes(x, y) /\ \A z \in B : ~(Words!Precedes(x, z) /\ Words!Precedes(z, y))
    BY DEF Neighbours, B
  <2> QED  BY <2>1, <2>2
<1> HIDE DEF near
<1>3. Between(x, y) \in between
  <2>1. Between(x, y) = [i1 |-> <<x, y>>[1][1] + <<x, y>>[1][3], i2 |-> <<x, y>>[2][1],
                         j1 |-> <<x, y>>[1][2] + <<x, y>>[1][3], j2 |-> <<x, y>>[2][2]]
    BY DEF Between
  <2> QED  BY <1>2, <2>1
<1> HIDE DEF between
<1>4. Between(x, y).i1 < Between(x, y).i2 \/ Between(x, y).j1 < Between(x, y).j2
  BY DEF Between
<1> QED  BY <1>1, <1>3, <1>4

\* Every word is in a block.
LEMMA EveryWordPlaced ==
  ASSUME NEW a, NEW b, Len(a) \in Nat, Len(b) \in Nat,
         \A op \in Words!Opcodes(a, b) : op.i1 = op.i2,
         NEW i \in 1..Len(a)
  PROVE  \E x \in Words!MatchingBlocks(a, b) : x[1] < i /\ i <= x[1] + x[3]
<1> DEFINE B == Marks(a, b)
           la == Len(a)
           lb == Len(b)
           ended == {x \in B : x[1] + x[3] < i}
           W == {la + lb - Weight(x) : x \in ended}
<1>0. la \in Nat /\ lb \in Nat /\ i \in 1..la
  OBVIOUS
<1>1. \A x \in B : /\ x[1] \in Nat /\ x[2] \in Nat /\ x[3] \in Nat /\ x \in Triples
                   /\ x[1] + x[3] <= la /\ x[2] + x[3] <= lb
                   /\ x[3] >= 1 => x \in Words!MatchingBlocks(a, b)
  BY MarksInOrder
<1>2. <<0, 0, 0>> \in B /\ <<la, lb, 0>> \in B
  BY DEF Marks
<1>3. InOrder(B)
  BY MarksInOrder
<1> HIDE DEF B, la, lb
<1>4. <<0, 0, 0>> \in ended
  <2>1. <<0, 0, 0>>[1] + <<0, 0, 0>>[3] = 0
    OBVIOUS
  <2> QED  BY <1>0, <1>2, <2>1
<1>5. ASSUME NEW x \in B
      PROVE  Weight(x) \in Nat /\ la + lb - Weight(x) \in Nat
  <2> DEFINE x1 == x[1]  x2 == x[2]  x3 == x[3]
  <2>1. x1 \in Nat /\ x2 \in Nat /\ x3 \in Nat /\ x1 + x3 <= la /\ x2 + x3 <= lb
    BY <1>1
  <2>2. Weight(x) = x1 + x2 + x3
    BY DEF Weight
  <2> HIDE DEF x1, x2, x3
  <2> QED  BY <1>0, <2>1, <2>2
<1>6. W \in SUBSET Nat /\ W # {}
  <2> HIDE DEF Weight
  <2> QED  BY <1>4, <1>5
<1>7. LeastIn(W) \in W /\ \A w \in W : LeastIn(W) <= w
  BY <1>6, LeastOf
<1>8. PICK x \in ended : \A u \in ended : la + lb - Weight(x) <= la + lb - Weight(u)
  BY <1>7
<1>9. \A u \in ended : Weight(u) <= Weight(x)
  BY <1>0, <1>5, <1>8
<1>10. Words!Precedes(x, <<la, lb, 0>>)
  <2>1. <<la, lb, 0>>[1] = la /\ <<la, lb, 0>>[2] = lb /\ <<la, lb, 0>>[3] = 0
    OBVIOUS
  <2> DEFINE last == <<la, lb, 0>>
  <2> HIDE DEF last
  <2>2. last[1] = la /\ last[2] = lb /\ last[3] = 0
    BY <2>1 DEF last
  <2>3. x[1] + x[3] < la /\ x[2] + x[3] <= lb
    BY <1>0, <1>1
  <2>4. x # last
    BY <1>0, <1>1, <2>2, <2>3
  <2>5. x[1] + x[3] <= last[1] /\ x[2] + x[3] <= last[2]
    BY <1>0, <1>1, <2>2, <2>3
  <2> QED  BY <2>4, <2>5 DEF Words!Precedes, last
<1>11. PICK y \in B : Neighbours(B, x, y)
  <2>1. B \subseteq Triples
    BY <1>1
  <2> QED  BY <1>2, <1>10, <2>1, NeighbourOf
<1>12. Words!Precedes(x, y)
  BY <1>11 DEF Neighbours
<1>13. x[1] + x[3] <= y[1] /\ x[2] + x[3] <= y[2] /\ Weight(x) < Weight(y)
  BY <1>1, <1>12, PrecedesLighter DEF Words!Precedes
<1>14. i <= y[1] + y[3]
  <2>1. y \notin ended
    <3> HIDE DEF ended
    <3> QED  BY <1>5, <1>9, <1>13 DEF ended
  <2> QED  BY <1>0, <1>1, <2>1
<1>15. ~(x[1] + x[3] < y[1])
  <2> SUFFICES ASSUME x[1] + x[3] < y[1] PROVE FALSE
    OBVIOUS
  <2>1. Between(x, y) \in Words!Opcodes(a, b)
    BY <1>11, OpcodeBetween DEF B
  <2>2. Between(x, y).i1 = x[1] + x[3] /\ Between(x, y).i2 = y[1]
    BY DEF Between
  <2>3. x[1] + x[3] = y[1]
    BY <2>1, <2>2
  <2> QED  BY <1>1, <2>3
<1>16. y[1] < i /\ y[3] >= 1
  <2> DEFINE x1 == x[1]  x3 == x[3]  y1 == y[1]  y3 == y[3]
  <2>1. /\ x1 \in Nat /\ x3 \in Nat /\ y1 \in Nat /\ y3 \in Nat /\ i \in Nat
        /\ x1 + x3 < i /\ x1 + x3 <= y1 /\ ~(x1 + x3 < y1) /\ i <= y1 + y3
    BY <1>0, <1>1, <1>13, <1>14, <1>15
  <2> HIDE DEF x1, x3, y1, y3
  <2>2. y1 < i /\ y3 >= 1
    BY <2>1
  <2> QED  BY <2>2 DEF y1, y3
<1> QED  BY <1>1, <1>14, <1>16

BlockAt(a, b, i) ==
    CHOOSE x \in Words!MatchingBlocks(a, b) : x[1] < i /\ i <= x[1] + x[3]

PlaceOf(a, b, i) == BlockAt(a, b, i)[2] + (i - BlockAt(a, b, i)[1])

LEMMA BlockAtIs ==
  ASSUME NEW a, NEW b, Len(a) \in Nat, Len(b) \in Nat,
         \A op \in Words!Opcodes(a, b) : op.i1 = op.i2,
         NEW i \in 1..Len(a)
  PROVE  /\ BlockAt(a, b, i) \in Words!MatchingBlocks(a, b)
         /\ BlockAt(a, b, i)[1] < i /\ i <= BlockAt(a, b, i)[1] + BlockAt(a, b, i)[3]
         /\ PlaceOf(a, b, i) \in 1..Len(b)
         /\ b[PlaceOf(a, b, i)] = a[i]
<1> DEFINE x == BlockAt(a, b, i)
           lb == Len(b)
           all == <<0, Len(a), 0, lb>>
<1>1. x \in Words!MatchingBlocks(a, b) /\ x[1] < i /\ i <= x[1] + x[3]
  BY EveryWordPlaced DEF BlockAt
<1>2. PlaceOf(a, b, i) = x[2] + (i - x[1])
  BY DEF PlaceOf
<1> HIDE DEF x
<1>3. Block(a, b, all, x)
  BY <1>1, BlocksTidy DEF Tidy
<1>4. all[4] = lb
  OBVIOUS
<1> HIDE DEF all
<1>5. /\ x[1] \in Nat /\ x[2] \in Nat /\ x[3] \in Nat /\ x[2] + x[3] <= lb
      /\ \A n \in 1..x[3] : a[x[1] + n] = b[x[2] + n]
  BY <1>3, <1>4 DEF Block
<1>6. i - x[1] \in 1..x[3] /\ x[1] + (i - x[1]) = i /\ i \in Nat
  BY <1>1, <1>5
<1>7. b[x[2] + (i - x[1])] = a[i]
  BY <1>5, <1>6
<1>8. x[2] + (i - x[1]) \in 1..lb
  <2> DEFINE m == i - x[1]
  <2>1. m \in 1..x[3]
    BY <1>6
  <2> HIDE DEF m, lb
  <2>2. x[2] + m \in 1..lb
    <3>1. lb \in Nat
      BY DEF lb
    <3> QED  BY <1>5, <2>1, <3>1
  <2> QED  BY <2>2 DEF m
<1> USE DEF x
<1> QED  BY <1>1, <1>2, <1>7, <1>8

\* From a word to the next: nothing between, or an opcode.
LEMMA NextWord ==
  ASSUME NEW a, NEW b, Len(a) \in Nat, Len(b) \in Nat,
         \A op \in Words!Opcodes(a, b) : op.i1 = op.i2,
         NEW i \in 1..Len(a), NEW n \in 1..Len(a), n = i + 1
  PROVE  \/ PlaceOf(a, b, n) = PlaceOf(a, b, i) + 1
         \/ /\ PlaceOf(a, b, i) < PlaceOf(a, b, n)
            /\ [i1 |-> i, i2 |-> i, j1 |-> PlaceOf(a, b, i), j2 |-> PlaceOf(a, b, n) - 1]
                 \in Words!Opcodes(a, b)
<1> DEFINE x == BlockAt(a, b, i)
           y == BlockAt(a, b, n)
           B == Marks(a, b)
           la == Len(a)
           lb == Len(b)
<1>0. la \in Nat /\ lb \in Nat /\ i \in Nat /\ n \in Nat /\ n = i + 1 /\ 1 <= i /\ i < la
  OBVIOUS
<1>2. /\ x \in Words!MatchingBlocks(a, b) /\ x[1] < i /\ i <= x[1] + x[3]
      /\ y \in Words!MatchingBlocks(a, b) /\ y[1] < n /\ n <= y[1] + y[3]
  <2>1. x \in Words!MatchingBlocks(a, b) /\ x[1] < i /\ i <= x[1] + x[3]
    BY BlockAtIs
  <2>2. y \in Words!MatchingBlocks(a, b) /\ y[1] < n /\ n <= y[1] + y[3]
    BY BlockAtIs
  <2> QED  BY <2>1, <2>2
<1>3. PlaceOf(a, b, i) = x[2] + (i - x[1]) /\ PlaceOf(a, b, n) = y[2] + (n - y[1])
  BY DEF PlaceOf
<1> HIDE DEF x, y
<1>4. x \in B /\ y \in B
  BY <1>2 DEF Marks
<1>5. /\ InOrder(B)
      /\ \A z \in B : z[1] \in Nat /\ z[2] \in Nat /\ z[3] \in Nat /\ z \in Triples
  BY MarksInOrder
<1>6. /\ x[1] \in Nat /\ x[2] \in Nat /\ x[3] \in Nat
      /\ y[1] \in Nat /\ y[2] \in Nat /\ y[3] \in Nat
  BY <1>4, <1>5
<1>7. CASE x = y
  BY <1>0, <1>3, <1>6, <1>7
<1>8. CASE x # y
  <2>1. ~Words!Precedes(y, x)
    <3> SUFFICES ASSUME y[1] + y[3] <= x[1] PROVE FALSE
      BY DEF Words!Precedes
    <3> QED  BY <1>0, <1>2, <1>6
  <2>2. Words!Precedes(x, y)
    BY <1>4, <1>5, <1>8, <2>1 DEF InOrder
  <2>3. x[1] + x[3] <= y[1] /\ x[2] + x[3] <= y[2]
    BY <2>2 DEF Words!Precedes
  <2>4. x[1] + x[3] = i /\ y[1] = i
    BY <1>0, <1>2, <1>6, <2>3
  <2>5. ASSUME NEW z \in B, Words!Precedes(x, z), Words!Precedes(z, y)
        PROVE  FALSE
    <3>1. x[1] + x[3] <= z[1] /\ z[1] + z[3] <= y[1]
      BY <2>5 DEF Words!Precedes
    <3>2. z[1] \in Nat /\ z[3] \in Nat
      BY <1>5
    <3>3. z[1] = i /\ z[3] = 0
      BY <1>0, <1>6, <2>4, <3>1, <3>2
    <3>4. z # <<0, 0, 0>> /\ z # <<Len(a), Len(b), 0>>
      <4>1. <<0, 0, 0>>[1] = 0 /\ <<Len(a), Len(b), 0>>[1] = la
        OBVIOUS
      <4> QED  BY <1>0, <3>3, <4>1
    <3>5. z \in Words!MatchingBlocks(a, b)
      BY <3>4, MarksInOrder
    <3>6. Block(a, b, <<0, Len(a), 0, Len(b)>>, z)
      BY <3>5, BlocksTidy DEF Tidy
    <3>7. z[3] >= 1
      BY <3>6 DEF Block
    <3> QED  BY <3>3, <3>7
  <2>6. Neighbours(B, x, y)
    BY <2>2, <2>5 DEF Neighbours
  <2>7. PlaceOf(a, b, i) = x[2] + x[3] /\ PlaceOf(a, b, n) = y[2] + 1
    BY <1>0, <1>3, <1>6, <2>4
  <2>8. CASE x[2] + x[3] = y[2]
    BY <2>7, <2>8
  <2>9. CASE x[2] + x[3] < y[2]
    <3>1. Between(x, y) \in Words!Opcodes(a, b)
      BY <1>4, <2>6, <2>9, OpcodeBetween
    <3>2. y[2] = PlaceOf(a, b, n) - 1
      BY <1>6, <2>7
    <3>3. Between(x, y) = [i1 |-> i, i2 |-> i, j1 |-> PlaceOf(a, b, i), j2 |-> PlaceOf(a, b, n) - 1]
      BY <2>4, <2>7, <3>2 DEF Between
    <3>4. PlaceOf(a, b, i) < PlaceOf(a, b, n)
      BY <1>6, <2>7, <2>9
    <3> QED  BY <3>1, <3>3, <3>4
  <2>10. x[2] + x[3] = y[2] \/ x[2] + x[3] < y[2]
    BY <1>6, <2>3
  <2> QED  BY <2>8, <2>9, <2>10
<1> QED  BY <1>7, <1>8

----------------------------------------------------------------------------
(* A verbatim quote can be read.                                           *)

IsText(t) == \E S : t \in Seq(S)

LEMMA WordsType ==
  ASSUME NEW t, IsText(t)
  PROVE  Len(Words!Words(t)) \in Nat
<1>1. PICK S : t \in Seq(S)
  BY DEF IsText
<1>2. Words!Words(t) \in Seq(S)
  BY <1>1, WithoutType DEF Words!Words
<1> QED  BY <1>2

\* The words q of a quote are read in w at the places p, and what is left out
\* between them is disclosed.
Path(quote, q, w, p) ==
    /\ \A i \in 1..Len(q) : p[i] \in 1..Len(w) /\ Words!ReadAs(q, i, w[p[i]])
    /\ \A i \in 1..Len(q) - 1 :
          /\ p[i] < p[i + 1]
          /\ \/ p[i + 1] = p[i] + 1
             \/ Words!Covered(Words!GapsOf(quote), i, p[i + 1] - 1 - p[i])
             \/ p[i + 1] = p[i] + 2 /\ Words!FootnoteMarker(w, p[i + 1] - 1)

\* As it stands in a stretch of the opinion, it is read there.
LEMMA ReadInStretch ==
  ASSUME NEW quote, NEW opinion, IsText(quote), IsText(opinion),
         NEW from \in 1..Len(opinion), NEW to \in 1..Len(opinion), NEW p,
         Path(quote, Words!Words(quote), Words!Words(SubSeq(opinion, from, to)), p)
  PROVE  \E e \in Words!Readings(quote, opinion) :
            \A i \in 1..Len(Words!Words(quote)) - 1 : Words!Discloses(quote, opinion, e, i)
<1> DEFINE o == Words!Words(opinion)
           q == Words!Words(quote)
           w == Words!Words(SubSeq(opinion, from, to))
<1>0. /\ \A i \in 1..Len(q) : p[i] \in 1..Len(w) /\ Words!ReadAs(q, i, w[p[i]])
      /\ \A i \in 1..Len(q) - 1 :
            /\ p[i] < p[i + 1]
            /\ \/ p[i + 1] = p[i] + 1
               \/ Words!Covered(Words!GapsOf(quote), i, p[i + 1] - 1 - p[i])
               \/ p[i + 1] = p[i] + 2 /\ Words!FootnoteMarker(w, p[i + 1] - 1)
  BY DEF Path
<1>1. Len(q) \in Nat /\ Len(w) \in Nat /\ Len(o) \in Nat
  <2>1. PICK S : opinion \in Seq(S)
    BY DEF IsText
  <2>2. SubSeq(opinion, from, to) \in Seq(S)
    BY <2>1
  <2>3. IsText(SubSeq(opinion, from, to))
    BY <2>2 DEF IsText
  <2> QED  BY <2>3, WordsType
<1>2. PICK shift \in Nat : /\ shift + Len(w) <= Len(o)
                           /\ \A n \in 1..Len(w) : o[shift + n] = w[n]
  <2>1. PICK S : opinion \in Seq(S)
    BY DEF IsText
  <2>2. \E shift \in Nat :
          /\ shift + Len(Words!Words(SubSeq(opinion, from, to))) <= Len(Words!Words(opinion))
          /\ \A n \in 1..Len(Words!Words(SubSeq(opinion, from, to))) :
               Words!Words(opinion)[shift + n] = Words!Words(SubSeq(opinion, from, to))[n]
    BY <2>1, WordsOfStretch
  <2> QED  BY <2>2
<1> HIDE DEF o, q, w
<1> DEFINE e == [i \in 1..Len(q) |-> shift + p[i]]
<1>3. ASSUME NEW i \in 1..Len(q)
      PROVE  e[i] = shift + p[i] /\ e[i] \in 1..Len(o) /\ Words!ReadAs(q, i, o[e[i]])
  <2>1. p[i] \in 1..Len(w) /\ Words!ReadAs(q, i, w[p[i]])
    BY <1>0
  <2>2. shift + p[i] \in 1..Len(o)
    BY <1>1, <1>2, <2>1
  <2>3. o[shift + p[i]] = w[p[i]]
    BY <1>2, <2>1
  <2> QED  BY <2>1, <2>2, <2>3
<1>4. e \in [1..Len(q) -> 1..Len(o)]
  BY <1>3
<1> HIDE DEF e
<1>5. ASSUME NEW i \in 1..Len(q) - 1
      PROVE  /\ e[i] = shift + p[i] /\ e[i + 1] = shift + p[i + 1]
             /\ p[i] \in 1..Len(w) /\ p[i + 1] \in 1..Len(w) /\ p[i] < p[i + 1]
             /\ i \in Nat
  <2>1. i \in 1..Len(q) /\ i + 1 \in 1..Len(q) /\ i \in Nat
    BY <1>1
  <2> QED  BY <1>0, <1>3, <2>1
<1>6. e \in Words!Readings(quote, opinion)
  <2>1. \A i \in 1..Len(q) - 1 : e[i] < e[i + 1]
    <3> SUFFICES ASSUME NEW i \in 1..Len(q) - 1
                 PROVE  e[i] < e[i + 1]
      OBVIOUS
    <3> DEFINE u == p[i]
               v == p[i + 1]
    <3>1. /\ e[i] = shift + u /\ e[i + 1] = shift + v
          /\ u \in 1..Len(w) /\ v \in 1..Len(w) /\ u < v
      BY <1>5
    <3> HIDE DEF u, v
    <3>2. u \in Nat /\ v \in Nat
      BY <1>1, <3>1
    <3>3. shift + u < shift + v
      BY <1>2, <3>1, <3>2
    <3> QED  BY <3>1, <3>3
  <2> QED  BY <1>3, <1>4, <2>1 DEF Words!Readings, o, q
<1>7. ASSUME NEW i \in 1..Len(q) - 1
      PROVE  Words!Discloses(quote, opinion, e, i)
  <2> DEFINE run == e[i + 1] - e[i] - 1
             u == p[i]
             v == p[i + 1]
  <2>1. e[i] = shift + u /\ e[i + 1] = shift + v /\ u \in 1..Len(w) /\ v \in 1..Len(w) /\ i \in Nat
    BY <1>5
  <2>2. \/ v = u + 1
        \/ Words!Covered(Words!GapsOf(quote), i, v - 1 - u)
        \/ v = u + 2 /\ Words!FootnoteMarker(w, v - 1)
    BY <1>0
  <2> HIDE DEF u, v
  <2>3. run = v - 1 - u /\ u \in Nat /\ v \in Nat /\ 1 <= u
    BY <1>1, <1>2, <2>1
  <2>4. CASE v = u + 1
    <3>1. run = 0
      <4> HIDE DEF run
      <4> QED  BY <2>3, <2>4
    <3> QED  BY <3>1 DEF Words!Discloses
  <2>5. CASE Words!Covered(Words!GapsOf(quote), i, v - 1 - u)
    <3>1. PICK g \in Words!GapsOf(quote) : g.at - i \in {-1, 0, 1} /\ v - 1 - u <= Words!Limit(g.kind)
      BY <2>5 DEF Words!Covered
    <3>2. g.at \in Nat
      <4>1. PICK j \in DOMAIN quote : g.at = Len(Words!Words(SubSeq(quote, 1, j)))
        BY <3>1 DEF Words!GapsOf
      <4>2. PICK S : quote \in Seq(S)
        BY DEF IsText
      <4>3. SubSeq(quote, 1, j) \in Seq(S)
        BY <4>1, <4>2
      <4>4. IsText(SubSeq(quote, 1, j))
        BY <4>3 DEF IsText
      <4> QED  BY <4>1, <4>4, WordsType
    <3>3. g.at \in i-1..i+1
      <4> DEFINE at == g.at
      <4>1. at \in Nat /\ (at - i = -1 \/ at - i = 0 \/ at - i = 1)
        BY <3>1, <3>2
      <4> HIDE DEF at
      <4>2. at \in i-1..i+1
        BY <2>1, <4>1
      <4> QED  BY <4>2 DEF at
    <3>4. run <= Words!Limit(g.kind)
      BY <2>3, <3>1
    <3> QED  BY <3>3, <3>4 DEF Words!Discloses
  <2>6. CASE v = u + 2 /\ Words!FootnoteMarker(w, v - 1)
    <3>1. run = 1
      <4> HIDE DEF run
      <4> QED  BY <2>3, <2>6
    <3>2. v - 1 = u + 1 /\ v - 1 # 1 /\ v - 1 - 1 = u /\ v - 1 \in 1..Len(w)
      BY <1>1, <2>1, <2>3, <2>6
    <3>3. w[v - 1] \in SmallNumber /\ w[u] \notin QuantityLead
      BY <2>6, <3>2 DEF Words!FootnoteMarker
    <3>4. o[shift + (v - 1)] = w[v - 1] /\ o[shift + u] = w[u]
      BY <1>2, <2>1, <3>2
    <3>5. PICK c : c = e[i] + 1
      OBVIOUS
    <3>6. Words!FootnoteMarker(o, c)
      <4>1. c = shift + (v - 1) /\ c - 1 = shift + u
        BY <1>2, <2>1, <2>3, <2>6, <3>5
      <4>2. o[c] \in SmallNumber /\ o[c - 1] \notin QuantityLead
        BY <3>3, <3>4, <4>1
      <4> QED  BY <4>2 DEF Words!FootnoteMarker
    <3>7. Words!FootnoteMarker(o, e[i] + 1)
      BY <3>5, <3>6
    <3> QED  BY <3>1, <3>7 DEF Words!Discloses, o
  <2> QED  BY <2>2, <2>4, <2>5, <2>6
<1> QED  BY <1>6, <1>7 DEF q

\* Every stretch of an opinion without edits is without edits.
LEMMA NoGapsInStretch ==
  ASSUME NEW opinion, IsText(opinion), \A i \in DOMAIN opinion : opinion[i] \notin Words!Gaps,
         NEW from \in 1..Len(opinion), NEW to \in 1..Len(opinion)
  PROVE  Words!GapsOf(SubSeq(opinion, from, to)) = {}
<1> DEFINE span == SubSeq(opinion, from, to)
<1>1. PICK S : opinion \in Seq(S)
  BY DEF IsText
<1>2. \A i \in DOMAIN span : span[i] \notin Words!Gaps
  <2>1. \A i \in DOMAIN span : from - 1 + i \in DOMAIN opinion /\ span[i] = opinion[from - 1 + i]
    BY <1>1
  <2> QED  BY <2>1
<1> HIDE DEF span
<1> QED  BY <1>2 DEF Words!GapsOf, span

LEMMA NoneUnlicensed ==
  ASSUME NEW quote, NEW opinion, IsText(quote), IsText(opinion),
         \A i \in DOMAIN opinion : opinion[i] \notin Words!Gaps,
         NEW from \in 1..Len(opinion), NEW to \in 1..Len(opinion),
         Words!Words(quote) # <<>>,
         Words!Altered(quote, SubSeq(opinion, from, to)) = {}
  PROVE  \E e \in Words!Readings(quote, opinion) :
            \A i \in 1..Len(Words!Words(quote)) - 1 : Words!Discloses(quote, opinion, e, i)
<1> DEFINE q == Words!Words(quote)
           span == SubSeq(opinion, from, to)
           w == Words!Words(span)
           p == [i \in 1..Len(q) |-> PlaceOf(q, w, i)]
<1>1. Len(q) \in Nat /\ Len(w) \in Nat
  <2>1. PICK S : opinion \in Seq(S)
    BY DEF IsText
  <2>2. span \in Seq(S)
    BY <2>1
  <2>3. IsText(span)
    BY <2>2 DEF IsText
  <2> HIDE DEF span
  <2> QED  BY <2>3, WordsType
<1>2. \A op \in Words!Opcodes(q, w) : Words!Licensed(op, quote, span)
  BY DEF Words!Altered
<1>3. Words!GapsOf(span) = {}
  BY NoGapsInStretch
<1>4. ASSUME NEW op \in Words!Opcodes(q, w)
      PROVE  /\ op.i1 = op.i2
             /\ \/ op.i1 = 0 \/ op.i1 >= Len(q)
                \/ Words!Covered(Words!GapsOf(quote), op.i1, op.j2 - op.j1)
                \/ op.j2 = op.j1 + 1 /\ Words!FootnoteMarker(w, op.j2)
  <2>1. ~Words!Covered(Words!GapsOf(span), op.j1, op.i2 - op.i1)
    BY <1>3 DEF Words!Covered
  <2> QED  BY <1>2, <2>1 DEF Words!Licensed
<1> HIDE DEF q, w
<1>5. \A op \in Words!Opcodes(q, w) : op.i1 = op.i2
  BY <1>4
<1>6. ASSUME NEW i \in 1..Len(q)
      PROVE  p[i] = PlaceOf(q, w, i) /\ p[i] \in 1..Len(w) /\ w[p[i]] = q[i]
  BY <1>1, <1>5, BlockAtIs
<1> HIDE DEF p
<1>7. ASSUME NEW i \in 1..Len(q) - 1
      PROVE  /\ p[i] < p[i + 1]
             /\ \/ p[i + 1] = p[i] + 1
                \/ Words!Covered(Words!GapsOf(quote), i, p[i + 1] - 1 - p[i])
                \/ p[i + 1] = p[i] + 2 /\ Words!FootnoteMarker(w, p[i + 1] - 1)
  <2> DEFINE u == p[i]
             v == p[i + 1]
             op == [i1 |-> i, i2 |-> i, j1 |-> u, j2 |-> v - 1]
  <2>0. PICK n : n = i + 1
    OBVIOUS
  <2>1. i \in 1..Len(q) /\ n \in 1..Len(q) /\ i + 1 \in 1..Len(q)
    BY <1>1, <2>0
  <2>2. u = PlaceOf(q, w, i) /\ v = PlaceOf(q, w, n) /\ u \in 1..Len(w) /\ v \in 1..Len(w)
    BY <1>6, <2>0, <2>1
  <2>3. v = u + 1 \/ (u < v /\ op \in Words!Opcodes(q, w))
    BY <1>1, <1>5, <2>0, <2>1, <2>2, NextWord
  <2>4. op.i1 = i /\ op.j1 = u /\ op.j2 = v - 1
    OBVIOUS
  <2> HIDE DEF u, v, op
  <2>5. u \in Nat /\ v \in Nat /\ i \in Nat /\ i # 0 /\ ~(i >= Len(q))
    BY <1>1, <2>1, <2>2
  <2>6. CASE v = u + 1
    BY <2>5, <2>6 DEF u, v
  <2>7. CASE u < v /\ op \in Words!Opcodes(q, w)
    <3>1. \/ Words!Covered(Words!GapsOf(quote), i, v - 1 - u)
          \/ v - 1 = u + 1 /\ Words!FootnoteMarker(w, v - 1)
      BY <1>4, <2>4, <2>5, <2>7
    <3>2. v - 1 = u + 1 => v = u + 2
      BY <2>5
    <3> QED  BY <2>7, <3>1, <3>2 DEF u, v
  <2> QED  BY <2>3, <2>6, <2>7
<1>8. Path(quote, q, w, p)
  <2>1. \A i \in 1..Len(q) : Words!ReadAs(q, i, w[p[i]])
    BY <1>6 DEF Words!ReadAs
  <2> QED  BY <1>6, <1>7, <2>1 DEF Path
<1> QED  BY <1>8, ReadInStretch DEF q, w, span

\* What a word at the end adds, by its kind.
LEMMA WithoutDropped ==
  ASSUME NEW kind, NEW S, NEW s \in Seq(S), NEW x \in S, x \in kind
  PROVE  Words!Without(kind, Append(s, x)) = Words!Without(kind, s)
  BY WithoutAppend

LEMMA WithoutKeeps ==
  ASSUME NEW kind, NEW S, NEW s \in Seq(S), NEW x \in S, x \notin kind
  PROVE  Words!Without(kind, Append(s, x)) = Append(Words!Without(kind, s), x)
  BY WithoutAppend

\* The words of one token, and of a text between two.
LEMMA WithoutToken ==
  ASSUME NEW kind, NEW x
  PROVE  Words!Without(kind, <<x>>) = IF x \in kind THEN << >> ELSE <<x>>
<1>1. PICK e, t, S : e = << >> /\ t = Append(e, x) /\ S = {x}
  OBVIOUS
<1>2. e \in Seq(S) /\ x \in S
  BY <1>1
<1>3. t = <<x>>
  BY <1>1
<1>7. t = Append(e, x)
  BY <1>1
<1>4. Words!Without(kind, e) = e
  BY <1>1, WithoutEmpty
<1>5. CASE x \in kind
  <2>1. Words!Without(kind, Append(e, x)) = Words!Without(kind, e)
    BY <1>2, <1>5, WithoutDropped, Zenon
  <2>2. Words!Without(kind, t) = e
    BY <1>1, <1>4, <2>1, Zenon
  <2> QED  BY <1>1, <1>3, <1>5, <2>2
<1>6. CASE x \notin kind
  <2>3. PICK w : w = Append(Words!Without(kind, e), x)
    OBVIOUS
  <2>4. Words!Without(kind, Append(e, x)) = w
    BY <1>2, <1>6, <2>3, WithoutKeeps
  <2>1. Words!Without(kind, Append(e, x)) = Append(Words!Without(kind, e), x)
    BY <2>3, <2>4, Zenon
  <2>2. Words!Without(kind, t) = t
    BY <1>4, <1>7, <2>1, Zenon
  <2> QED  BY <1>3, <1>6, <2>2
<1> QED  BY <1>5, <1>6

LEMMA WithoutFramed ==
  ASSUME NEW kind, NEW S, NEW x \in S, NEW y \in S, NEW m \in Seq(S)
  PROVE  Words!Without(kind, (<<x>> \o m) \o <<y>>)
           = (Words!Without(kind, <<x>>) \o Words!Without(kind, m)) \o Words!Without(kind, <<y>>)
<1> DEFINE f == <<x>>
           l == <<y>>
           u == f \o m
<1>1. f \in Seq(S) /\ l \in Seq(S)
  OBVIOUS
<1> HIDE DEF f, l
<1>2. u \in Seq(S)
  BY <1>1, ConcatProperties
<1>3. Words!Without(kind, u) = Words!Without(kind, f) \o Words!Without(kind, m)
  BY <1>1, WithoutConcat
<1> HIDE DEF u
<1>4. Words!Without(kind, u \o l) = Words!Without(kind, u) \o Words!Without(kind, l)
  BY <1>1, <1>2, WithoutConcat
<1> QED  BY <1>3, <1>4 DEF u, f, l

LEMMA FramedIs ==
  ASSUME NEW S, NEW a \in Seq(S), NEW n \in Seq(S), NEW c \in Seq(S)
  PROVE  LET q == (a \o n) \o c
         IN  /\ q \in Seq(S) /\ Len(q) = Len(a) + Len(n) + Len(c)
             /\ \A i \in 1..Len(a) + Len(n) + Len(c) :
                   q[i] = IF i <= Len(a) THEN a[i]
                          ELSE IF i <= Len(a) + Len(n) THEN n[i - Len(a)]
                          ELSE c[i - (Len(a) + Len(n))]
<1> DEFINE u == a \o n
<1>1. Len(a) \in Nat /\ Len(n) \in Nat /\ Len(c) \in Nat
  OBVIOUS
<1>2. /\ u \in Seq(S) /\ Len(u) = Len(a) + Len(n)
      /\ \A j \in 1..Len(a) + Len(n) : u[j] = IF j <= Len(a) THEN a[j] ELSE n[j - Len(a)]
  BY ConcatProperties
<1> HIDE DEF u
<1>5. u \in Seq(S)
  BY <1>2
<1>3. /\ u \o c \in Seq(S) /\ Len(u \o c) = Len(u) + Len(c)
      /\ \A j \in 1..Len(u) + Len(c) : (u \o c)[j] = IF j <= Len(u) THEN u[j] ELSE c[j - Len(u)]
  BY <1>5, ConcatProperties
<1>4. ASSUME NEW i \in 1..Len(a) + Len(n) + Len(c)
      PROVE  (u \o c)[i] = IF i <= Len(a) THEN a[i]
                           ELSE IF i <= Len(a) + Len(n) THEN n[i - Len(a)]
                           ELSE c[i - (Len(a) + Len(n))]
  <2>1. i \in 1..Len(u) + Len(c)
    BY <1>1, <1>2
  <2>2. CASE i <= Len(a) + Len(n)
    <3>1. i \in 1..Len(a) + Len(n)
      BY <1>1, <2>2
    <3>2. (u \o c)[i] = u[i]
      BY <1>2, <1>3, <2>1, <2>2
    <3>3. u[i] = IF i <= Len(a) THEN a[i] ELSE n[i - Len(a)]
      BY <1>2, <3>1
    <3> QED  BY <2>2, <3>2, <3>3
  <2>3. CASE ~(i <= Len(a) + Len(n))
    <3>1. (u \o c)[i] = c[i - Len(u)]
      BY <1>2, <1>3, <2>1, <2>3
    <3>2. ~(i <= Len(a))
      BY <1>1, <2>3
    <3> QED  BY <1>2, <2>3, <3>1, <3>2
  <2> QED  BY <2>2, <2>3
<1> QED  BY <1>1, <1>2, <1>3, <1>4 DEF u

\* The place after one and n more.
LEMMA LastOfFramed ==
  ASSUME NEW c, NEW i \in Nat, NEW n \in Nat, n + 2 = i, c = 1
  PROVE  i - (c + n) = 1 /\ ~(i <= c) /\ ~(i <= c + n)
  OBVIOUS

\* A text of two tokens or more is its first, what is between, and its last.
LEMMA FramedText ==
  ASSUME NEW S, NEW t \in Seq(S), Len(t) >= 2
  PROVE  /\ SubSeq(t, 2, Len(t) - 1) \in Seq(S)
         /\ t = (<<t[1]>> \o SubSeq(t, 2, Len(t) - 1)) \o <<t[Len(t)]>>
<1> DEFINE k == Len(t)
           f == <<t[1]>>
           m == SubSeq(t, 2, k - 1)
           l == <<t[k]>>
           u == (f \o m) \o l
<1>1. k \in Nat /\ k >= 2 /\ t[1] \in S /\ t[k] \in S
  OBVIOUS
<1>0. \A x \in S : <<x>> \in Seq(S) /\ Len(<<x>>) = 1 /\ <<x>>[1] = x
  OBVIOUS
<1>2. /\ f \in Seq(S) /\ Len(f) = 1 /\ f[1] = t[1]
      /\ l \in Seq(S) /\ Len(l) = 1 /\ l[1] = t[k]
  BY <1>0, <1>1
<1>3. m \in Seq(S) /\ Len(m) = k - 2 /\ \A i \in 1..k - 2 : m[i] = t[i + 1]
  <2>1. k - 1 \in 1..Len(t) /\ 2 \in 1..Len(t) /\ k \in Nat
    BY <1>1
  <2>4. PICK a, b : a = 2 /\ b = k - 1
    OBVIOUS
  <2>5. a \in Int /\ b \in Int /\ (b - a + 1 = k - 2) /\ (~(a <= b) => k - 2 = 0)
    BY <1>1, <2>4
  <2>6. \A i \in a..b : t[i] \in S
    BY <1>1, <2>4
  <2>7. SubSeq(t, a, b) \in Seq(S) /\ Len(SubSeq(t, a, b)) = IF a <= b THEN b - a + 1 ELSE 0
    BY <2>5, <2>6, SubSeqProperties
  <2>8. m = SubSeq(t, a, b)
    BY <2>4
  <2> HIDE DEF m, k
  <2>2. m \in Seq(S) /\ Len(m) = k - 2
    BY <2>5, <2>7, <2>8
  <2> USE DEF m, k
  <2>3. ASSUME NEW i \in 1..k - 2
        PROVE  m[i] = t[i + 1]
    <3>1. m[i] = t[2 + i - 1] /\ 2 + i - 1 = i + 1
      BY <2>1
    <3> QED  BY <3>1
  <2> HIDE DEF m, k
  <2> QED  BY <2>1, <2>2, <2>3
<1> HIDE DEF f, m, l
<1>4. /\ u \in Seq(S) /\ Len(u) = Len(f) + Len(m) + Len(l)
      /\ \A i \in 1..Len(f) + Len(m) + Len(l) :
            u[i] = IF i <= Len(f) THEN f[i]
                   ELSE IF i <= Len(f) + Len(m) THEN m[i - Len(f)] ELSE l[i - (Len(f) + Len(m))]
  <2>1. f \in Seq(S) /\ m \in Seq(S) /\ l \in Seq(S)
    BY <1>2, <1>3
  <2> QED  BY <2>1, FramedIs
<1> HIDE DEF u, k
<1>5. Len(u) = k
  BY <1>1, <1>2, <1>3, <1>4
<1>6. ASSUME NEW i \in 1..k
      PROVE  u[i] = t[i]
  <2>1. i \in 1..Len(f) + Len(m) + Len(l) /\ i \in Nat
    BY <1>1, <1>2, <1>3
  <2>2. CASE i = 1
    BY <1>2, <1>4, <2>1, <2>2
  <2>3. CASE i # 1 /\ i < k
    <3>1. PICK j : j = i - 1
      OBVIOUS
    <3>2. j \in 1..k - 2 /\ j + 1 = i
      BY <1>1, <2>1, <2>3, <3>1
    <3>3. u[i] = m[j]
      BY <1>1, <1>2, <1>3, <1>4, <2>1, <2>3, <3>1
    <3> QED  BY <1>3, <3>2, <3>3
  <2>4. CASE i = k
    <3>0. Len(f) = 1 /\ Len(m) = i - 2 /\ i \in Nat /\ i >= 2
      BY <1>1, <1>2, <1>3, <2>4
    <3>3. PICK c, n : c = Len(f) /\ n = Len(m)
      OBVIOUS
    <3>4. c = 1 /\ i \in Nat /\ n \in Nat /\ n + 2 = i
      BY <3>0, <3>3
    <3>5. i - (c + n) = 1 /\ ~(i <= c) /\ ~(i <= c + n)
      BY <3>4, LastOfFramed, Zenon
    <3>1. i - (Len(f) + Len(m)) = 1 /\ ~(i <= Len(f)) /\ ~(i <= Len(f) + Len(m))
      BY <3>3, <3>5, Zenon
    <3>2. u[i] = l[1]
      BY <1>4, <2>1, <3>1
    <3> QED  BY <1>2, <2>4, <3>2
  <2> QED  BY <1>1, <2>1, <2>2, <2>3, <2>4
<1>7. u = t
  <2>1. Len(t) = k
    BY DEF k
  <2> QED  BY <1>4, <1>5, <1>6, <2>1, SeqEqual
<1> QED  BY <1>3, <1>7 DEF u, f, m, l, k

LEMMA NothingToRead ==
  ASSUME NEW quote, NEW opinion, IsText(opinion), Words!Words(quote) = <<>>
  PROVE  \E e \in Words!Readings(quote, opinion) :
            \A i \in 1..Len(Words!Words(quote)) - 1 : Words!Discloses(quote, opinion, e, i)
<1>1. Len(Words!Words(quote)) = 0
  OBVIOUS
<1> DEFINE e == [i \in 1..0 |-> 1]
<1>2. e \in Words!Readings(quote, opinion)
  BY <1>1 DEF Words!Readings
<1> HIDE DEF e
<1> QED  BY <1>1, <1>2

\* Words inside words: the parts are words, and so is what they are part of.
PartsAreWords ==
    \A x \in EndOf \cup StartOf \cup PartOf :
        x[1] \notin Words!Gaps \cup {StarPage} /\ x[2] \notin Words!Gaps \cup {StarPage}

\* A string of one token.
LEMMA FoundInToken ==
  ASSUME PartsAreWords, NEW S, NEW x \in S, NEW y \in S, Words!Is(x, y, PartOf)
  PROVE  LET q == Words!Words(<<x>>)  w == Words!Words(<<y>>)
         IN  Len(w) = Len(q) /\ \A i \in 1..Len(q) : Words!ReadAs(q, i, w[i])
<1> DEFINE kind == Words!Gaps \cup {StarPage}
           q == Words!Words(<<x>>)
           w == Words!Words(<<y>>)
<1> SUFFICES Len(w) = Len(q) /\ \A i \in 1..Len(q) : Words!ReadAs(q, i, w[i])
  OBVIOUS
<1>1. q = IF x \in kind THEN << >> ELSE <<x>>
  BY WithoutToken DEF Words!Words
<1>2. w = IF y \in kind THEN << >> ELSE <<y>>
  BY WithoutToken DEF Words!Words
<1>3. CASE x = y
  <2>1. q = w
    BY <1>3
  <2> HIDE DEF q, w
  <2> QED  BY <2>1 DEF Words!ReadAs
<1>4. CASE <<x, y>> \in PartOf
  <2>1. x \notin kind /\ y \notin kind
    <3>1. <<x, y>>[1] = x /\ <<x, y>>[2] = y
      OBVIOUS
    <3> QED  BY <1>4, <3>1 DEF PartsAreWords
  <2>2. q = <<x>> /\ w = <<y>>
    BY <1>1, <1>2, <2>1
  <2> HIDE DEF q, w
  <2>3. Len(q) = 1 /\ q[1] = x /\ w[1] = y /\ Len(w) = 1
    BY <2>2
  <2> QED  BY <1>4, <2>3 DEF Words!ReadAs
<1>5. x = y \/ <<x, y>> \in PartOf
  BY DEF Words!Is
<1> HIDE DEF q, w
<1> QED  BY <1>3, <1>4, <1>5

\* A string of two tokens or more: between its ends it is the stretch.
LEMMA FoundInStretch ==
  ASSUME PartsAreWords, NEW S, NEW x \in S, NEW y \in S, NEW v \in S, NEW z \in S,
         NEW m \in Seq(S), Words!Is(x, y, EndOf), Words!Is(v, z, StartOf)
  PROVE  LET q == Words!Words((<<x>> \o m) \o <<v>>)  w == Words!Words((<<y>> \o m) \o <<z>>)
         IN  Len(w) = Len(q) /\ \A i \in 1..Len(q) : Words!ReadAs(q, i, w[i])
<1> DEFINE kind == Words!Gaps \cup {StarPage}
           W(s) == Words!Without(kind, s)
           a == W(<<x>>)  b == W(<<y>>)  c == W(<<v>>)  d == W(<<z>>)
           n == W(m)
           q == (a \o n) \o c
           w == (b \o n) \o d
<1>1. Words!Words((<<x>> \o m) \o <<v>>) = q /\ Words!Words((<<y>> \o m) \o <<z>>) = w
  <2>0. \A g, h \in S : Words!Without(kind, (<<g>> \o m) \o <<h>>)
           = (Words!Without(kind, <<g>>) \o Words!Without(kind, m)) \o Words!Without(kind, <<h>>)
    <3> HIDE DEF kind
    <3> QED  BY WithoutFramed
  <2>1. W((<<x>> \o m) \o <<v>>) = q
    BY <2>0
  <2>2. W((<<y>> \o m) \o <<z>>) = w
    BY <2>0
  <2> HIDE DEF q, w
  <2> QED  BY <2>1, <2>2 DEF Words!Words
<1> SUFFICES Len(w) = Len(q) /\ \A i \in 1..Len(q) : Words!ReadAs(q, i, w[i])
  BY <1>1
<1>2. /\ a = IF x \in kind THEN << >> ELSE <<x>>
      /\ b = IF y \in kind THEN << >> ELSE <<y>>
      /\ c = IF v \in kind THEN << >> ELSE <<v>>
      /\ d = IF z \in kind THEN << >> ELSE <<z>>
  BY WithoutToken
<1>3. a \in Seq(S) /\ b \in Seq(S) /\ c \in Seq(S) /\ d \in Seq(S) /\ n \in Seq(S)
  <2>1. <<x>> \in Seq(S) /\ <<y>> \in Seq(S) /\ <<v>> \in Seq(S) /\ <<z>> \in Seq(S)
    OBVIOUS
  <2> QED  BY <2>1, WithoutType
<1>4. a = b \/ (Len(a) = 1 /\ Len(b) = 1 /\ <<a[1], b[1]>> \in EndOf)
  <2>1. CASE x = y
    BY <2>1
  <2>2. CASE <<x, y>> \in EndOf
    <3>1. <<x, y>>[1] = x /\ <<x, y>>[2] = y
      OBVIOUS
    <3>2. x \notin kind /\ y \notin kind
      BY <2>2, <3>1 DEF PartsAreWords
    <3>3. a = <<x>> /\ b = <<y>>
      BY <1>2, <3>2
    <3> HIDE DEF a, b
    <3> QED  BY <2>2, <3>3
  <2> HIDE DEF a, b
  <2> QED  BY <2>1, <2>2 DEF Words!Is
<1>5. c = d \/ (Len(c) = 1 /\ Len(d) = 1 /\ <<c[1], d[1]>> \in StartOf)
  <2>1. CASE v = z
    BY <2>1
  <2>2. CASE <<v, z>> \in StartOf
    <3>1. <<v, z>>[1] = v /\ <<v, z>>[2] = z
      OBVIOUS
    <3>2. v \notin kind /\ z \notin kind
      BY <2>2, <3>1 DEF PartsAreWords
    <3>3. c = <<v>> /\ d = <<z>>
      BY <1>2, <3>2
    <3> HIDE DEF c, d
    <3> QED  BY <2>2, <3>3
  <2> HIDE DEF c, d
  <2> QED  BY <2>1, <2>2 DEF Words!Is
<1> HIDE DEF a, b, c, d, n
<1>6. /\ Len(a) \in Nat /\ Len(b) = Len(a) /\ Len(n) \in Nat /\ Len(c) \in Nat /\ Len(d) = Len(c)
  BY <1>3, <1>4, <1>5
<1>7. /\ q \in Seq(S) /\ Len(q) = Len(a) + Len(n) + Len(c)
      /\ \A i \in 1..Len(a) + Len(n) + Len(c) :
            q[i] = IF i <= Len(a) THEN a[i]
                   ELSE IF i <= Len(a) + Len(n) THEN n[i - Len(a)] ELSE c[i - (Len(a) + Len(n))]
  BY <1>3, FramedIs
<1>8. /\ w \in Seq(S) /\ Len(w) = Len(b) + Len(n) + Len(d)
      /\ \A i \in 1..Len(b) + Len(n) + Len(d) :
            w[i] = IF i <= Len(b) THEN b[i]
                   ELSE IF i <= Len(b) + Len(n) THEN n[i - Len(b)] ELSE d[i - (Len(b) + Len(n))]
  BY <1>3, FramedIs
<1> HIDE DEF q, w
<1>9. ASSUME NEW i \in 1..Len(q)
      PROVE  Words!ReadAs(q, i, w[i])
  <2>1. i \in 1..Len(a) + Len(n) + Len(c) /\ i \in 1..Len(b) + Len(n) + Len(d) /\ i \in Nat
    BY <1>6, <1>7
  <2>2. CASE i <= Len(a)
    <3>1. q[i] = a[i] /\ w[i] = b[i]
      BY <1>6, <1>7, <1>8, <2>1, <2>2
    <3>2. CASE a = b
      BY <3>1, <3>2 DEF Words!ReadAs
    <3>3. CASE Len(a) = 1 /\ <<a[1], b[1]>> \in EndOf
      <4>1. i = 1
        BY <2>1, <2>2, <3>3
      <4> QED  BY <3>1, <3>3, <4>1 DEF Words!ReadAs
    <3> QED  BY <1>4, <3>2, <3>3
  <2>3. CASE ~(i <= Len(a)) /\ i <= Len(a) + Len(n)
    <3>1. q[i] = w[i]
      BY <1>6, <1>7, <1>8, <2>1, <2>3
    <3> QED  BY <3>1 DEF Words!ReadAs
  <2>4. CASE ~(i <= Len(a)) /\ ~(i <= Len(a) + Len(n))
    <3>1. PICK j : j = i - (Len(a) + Len(n))
      OBVIOUS
    <3>2. q[i] = c[j] /\ w[i] = d[j]
      BY <1>6, <1>7, <1>8, <2>1, <2>4, <3>1
    <3>3. CASE c = d
      BY <3>2, <3>3 DEF Words!ReadAs
    <3>4. CASE Len(c) = 1 /\ <<c[1], d[1]>> \in StartOf
      <4>1. PICK r : r = Len(a) + Len(n)
        OBVIOUS
      <4>2. r \in Nat /\ Len(q) = r + 1 /\ i <= r + 1 /\ ~(i <= r) /\ j = i - r
        BY <1>6, <1>7, <2>1, <2>4, <3>1, <3>4, <4>1
      <4>3. j = 1 /\ i = Len(q)
        BY <2>1, <4>2
      <4> QED  BY <3>2, <3>4, <4>3 DEF Words!ReadAs
    <3> QED  BY <1>5, <3>3, <3>4
  <2> QED  BY <2>2, <2>3, <2>4
<1>10. Len(w) = Len(q)
  BY <1>6, <1>7, <1>8
<1> QED  BY <1>9, <1>10

\* What a string is found as has as many words, which it is read as.
LEMMA StringIsRead ==
  ASSUME PartsAreWords, NEW needle, NEW span, IsText(needle), IsText(span), needle # << >>,
         Words!StringIn(needle, span)
  PROVE  LET q == Words!Words(needle)  w == Words!Words(span)
         IN  Len(w) = Len(q) /\ \A i \in 1..Len(q) : Words!ReadAs(q, i, w[i])
<1>1. PICK R : needle \in Seq(R)
  BY DEF IsText
<1>2. PICK T : span \in Seq(T)
  BY DEF IsText
<1> DEFINE S == R \cup T
           n == Len(needle)
<1>3. needle \in Seq(S) /\ span \in Seq(S)
  BY <1>1, <1>2
<1> HIDE DEF S
<1>4. n \in Nat /\ n # 0
  BY <1>3, EmptySeq
<1>5. /\ Len(span) = n
      /\ \A i \in 2..n - 1 : span[i] = needle[i]
      /\ n = 1 => Words!Is(needle[1], span[1], PartOf)
      /\ n # 1 => Words!Is(needle[1], span[1], EndOf) /\ Words!Is(needle[n], span[n], StartOf)
  BY DEF Words!StringIn
<1>6. CASE n = 1
  <2>1. PICK x, y : x = needle[1] /\ y = span[1]
    OBVIOUS
  <2>2. x \in S /\ y \in S /\ Words!Is(x, y, PartOf)
    BY <1>3, <1>5, <1>6, <2>1
  <2>3. needle = <<x>> /\ span = <<y>>
    <3>1. \A t \in Seq(S) : Len(t) = 1 => t = <<t[1]>>
      OBVIOUS
    <3> QED  BY <1>3, <1>5, <1>6, <2>1, <3>1
  <2>4. /\ Len(Words!Words(<<y>>)) = Len(Words!Words(<<x>>))
        /\ \A i \in 1..Len(Words!Words(<<x>>)) :
              Words!ReadAs(Words!Words(<<x>>), i, Words!Words(<<y>>)[i])
    BY <2>2, FoundInToken
  <2> QED  BY <2>3, <2>4
<1>7. CASE n # 1
  <2>1. PICK x, y, v, z : x = needle[1] /\ y = span[1] /\ v = needle[n] /\ z = span[n]
    OBVIOUS
  <2>2. PICK m : m = SubSeq(needle, 2, n - 1)
    OBVIOUS
  <2>3. n >= 2 /\ x \in S /\ y \in S /\ v \in S /\ z \in S
    BY <1>3, <1>4, <1>5, <1>7, <2>1
  <2>4. m \in Seq(S) /\ needle = (<<x>> \o m) \o <<v>>
    BY <1>3, <2>1, <2>2, <2>3, FramedText
  <2>5. m = SubSeq(span, 2, n - 1)
    <3> DEFINE k == SubSeq(span, 2, n - 1)
    <3>1. /\ m \in Seq(S) /\ Len(m) = n - 2 /\ k \in Seq(S) /\ Len(k) = n - 2
          /\ \A i \in 1..n - 2 : m[i] = needle[i + 1] /\ k[i] = span[i + 1] /\ i + 1 \in 2..n - 1
      BY <1>3, <1>4, <1>5, <2>2, <2>3
    <3> HIDE DEF k
    <3>2. \A i \in 1..n - 2 : m[i] = k[i]
      BY <1>5, <3>1
    <3> QED  BY <3>1, <3>2, SeqEqual DEF k
  <2>6. span = (<<y>> \o m) \o <<z>>
    <3>1. span = (<<span[1]>> \o SubSeq(span, 2, Len(span) - 1)) \o <<span[Len(span)]>>
      BY <1>3, <1>5, <2>3, FramedText
    <3> QED  BY <1>5, <2>1, <2>5, <3>1
  <2>7. Words!Is(x, y, EndOf) /\ Words!Is(v, z, StartOf)
    BY <1>5, <1>7, <2>1
  <2>8. LET q == Words!Words((<<x>> \o m) \o <<v>>)  w == Words!Words((<<y>> \o m) \o <<z>>)
        IN  Len(w) = Len(q) /\ \A i \in 1..Len(q) : Words!ReadAs(q, i, w[i])
    BY <2>3, <2>4, <2>7, FoundInStretch
  <2> QED  BY <2>4, <2>6, <2>8
<1> QED  BY <1>6, <1>7

\* A quote that is found as it stands is read where it is found.
LEMMA FoundIsRead ==
  ASSUME PartsAreWords, NEW quote, NEW opinion, IsText(quote), IsText(opinion),
         Words!FoundExactly(quote, opinion)
  PROVE  \E e \in Words!Readings(quote, opinion) :
            \A i \in 1..Len(Words!Words(quote)) - 1 : Words!Discloses(quote, opinion, e, i)
<1>1. PICK from \in 1..Len(opinion), to \in 1..Len(opinion) :
         Words!StringIn(Words!Needle(quote), SubSeq(opinion, from, to))
  BY DEF Words!FoundExactly
<1> DEFINE q == Words!Words(quote)
           span == SubSeq(opinion, from, to)
           needle == Words!Needle(quote)
           w == Words!Words(span)
           p == [i \in 1..Len(q) |-> i]
<1>2. q = Words!Words(needle)
  <2>1. PICK S : quote \in Seq(S)
    BY DEF IsText
  <2> QED  BY <2>1, WordsOfNeedle
<1>3. Len(q) \in Nat
  BY WordsType
<1>4. IsText(needle) /\ IsText(span)
  <2>1. PICK S : quote \in Seq(S)
    BY DEF IsText
  <2>2. PICK R : opinion \in Seq(R)
    BY DEF IsText
  <2>3. needle \in Seq(S)
    BY <2>1, WithoutType DEF Words!Needle
  <2>4. span \in Seq(R)
    BY <2>2
  <2> QED  BY <2>3, <2>4 DEF IsText
<1> HIDE DEF span, needle
<1>5. CASE needle = << >>
  <2>1. q = << >>
    BY <1>2, <1>5, WithoutEmpty DEF Words!Words
  <2> QED  BY <2>1, NothingToRead
<1>6. CASE needle # << >>
  <2>1. Len(w) = Len(q) /\ \A i \in 1..Len(q) : Words!ReadAs(q, i, w[i])
    BY <1>1, <1>2, <1>4, <1>6, StringIsRead DEF span, needle
  <2> HIDE DEF q, w
  <2>2. \A i \in 1..Len(q) : p[i] \in 1..Len(w) /\ p[i] = i
    BY <2>1
  <2>3. \A i \in 1..Len(q) : Words!ReadAs(q, i, w[p[i]])
    BY <2>1, <2>2
  <2>4. \A i \in 1..Len(q) - 1 : p[i] < p[i + 1] /\ p[i + 1] = p[i] + 1
    BY <1>3
  <2> HIDE DEF p
  <2>5. Path(quote, q, w, p)
    BY <2>2, <2>3, <2>4 DEF Path
  <2> QED  BY <2>5, ReadInStretch DEF q, w, span
<1> QED  BY <1>5, <1>6

LEMMA VerbatimIsRead ==
  ASSUME PartsAreWords, NEW quote, NEW opinion, IsText(quote), IsText(opinion), NEW poor \in BOOLEAN,
         NEW from \in 1..Len(opinion), NEW to \in 1..Len(opinion)
  PROVE  Words!VerbatimReading(quote, opinion, from, to, poor)
<1> DEFINE span == SubSeq(opinion, from, to)
<1> SUFFICES ASSUME Words!VerifyQuote(quote, opinion, from, to, poor) = "VERBATIM",
                    Words!Range(opinion) \cap Words!Gaps = {}
             PROVE  \E e \in Words!Readings(quote, opinion) :
                       \A i \in 1..Len(Words!Words(quote)) - 1 : Words!Discloses(quote, opinion, e, i)
  BY DEF Words!VerbatimReading
<1>1. \A i \in DOMAIN opinion : opinion[i] \notin Words!Gaps
  BY DEF Words!Range
<1>2. Words!FoundExactly(quote, opinion) \/ Words!Altered(quote, span) = {}
  BY DEF Words!VerifyQuote
<1> HIDE DEF span
<1>3. CASE Words!FoundExactly(quote, opinion)
  BY <1>3, FoundIsRead
<1>4. CASE Words!Words(quote) = <<>>
  BY <1>4, NothingToRead
<1>5. CASE Words!Words(quote) # <<>> /\ Words!Altered(quote, span) = {}
  BY <1>1, <1>5, NoneUnlicensed DEF span
<1> QED  BY <1>2, <1>3, <1>4, <1>5

TextsAreLists == \A t \in Quotes \cup Opinions : IsList(t)

\* A verbatim quote can be read in the opinion: every word of it, in order, if
\* perhaps the first and last inside a word, and nothing left out between them
\* that the quote does not disclose, for any quote, any opinion without edits
\* of its own and whatever stretch of it the search found (quote_matcher.py,
\* verify_quote).
THEOREM VerbatimAlwaysReads ==
  ASSUME TextsAreLists, PartsAreWords
  PROVE  Spec => []VerbatimReads
<1>1. Question => VerbatimReads
  <2> SUFFICES ASSUME Question, asked.about = "quote"
               PROVE  Words!VerbatimReading(asked.quote, asked.opinion, asked.from, asked.to,
                                            asked.poor)
    BY DEF VerbatimReads
  <2>1. PICK quote \in Quotes, opinion \in Opinions, poor \in BOOLEAN :
          \E from \in 1..Len(opinion) : \E to \in from..Len(opinion) :
              asked = [about |-> "quote", quote |-> quote, opinion |-> opinion,
                       from |-> from, to |-> to, poor |-> poor]
    BY DEF Question, Nothing
  <2>2. PICK from \in 1..Len(opinion) : \E to \in from..Len(opinion) :
          asked = [about |-> "quote", quote |-> quote, opinion |-> opinion,
                   from |-> from, to |-> to, poor |-> poor]
    BY <2>1
  <2>3. PICK to \in from..Len(opinion) :
          asked = [about |-> "quote", quote |-> quote, opinion |-> opinion,
                   from |-> from, to |-> to, poor |-> poor]
    BY <2>2
  <2>4. /\ asked.quote = quote /\ asked.opinion = opinion
        /\ asked.from = from /\ asked.to = to /\ asked.poor = poor
    BY <2>3
  <2>5. IsText(quote) /\ IsText(opinion)
    BY DEF TextsAreLists, IsList, IsText
  <2>6. to \in 1..Len(opinion)
    OBVIOUS
  <2>7. Words!VerbatimReading(quote, opinion, from, to, poor)
    BY <2>5, <2>6, VerbatimIsRead
  <2> QED  BY <2>4, <2>7
<1> QED  BY <1>1, QuestionsAsAsked, PTL

----------------------------------------------------------------------------
(* The opinion's own words.                                                *)

\* The longest stretch of a list and itself is the whole.
LEMMA OneBlock ==
  ASSUME NEW a, Len(a) \in Nat, Len(a) # 0
  PROVE  Words!MatchingBlocks(a, a) = {<<0, 0, Len(a)>>}
<1> DEFINE n == Len(a)
           all == <<0, n, 0, n>>
           whole == <<0, 0, n>>
           x == Words!Longest(Shared(a, a, all))
<1>0. n \in Nat /\ n >= 1
  OBVIOUS
<1>1. all \in Words!Regions(a, a)
  BY DEF Words!Regions
<1>2. /\ all[1] = 0 /\ all[2] = n /\ all[3] = 0 /\ all[4] = n
      /\ whole[1] = 0 /\ whole[2] = 0 /\ whole[3] = n
  OBVIOUS
<1>3. whole \in Shared(a, a, all)
  <2>1. whole \in (0..n) \X (0..n) \X (1..n - 0)
    BY <1>0
  <2>2. whole[1] + whole[3] <= n /\ whole[2] + whole[3] <= n
        /\ \A m \in 1..whole[3] : a[whole[1] + m] = a[whole[2] + m]
    BY <1>0, <1>2
  <2> HIDE DEF whole
  <2> QED  BY <1>2, <2>1, <2>2 DEF Shared, Words!CommonStretches
<1>4. /\ Shared(a, a, all) \subseteq Triples
      /\ \A y \in Shared(a, a, all) : y[3] <= n
  BY <1>1, SharedIs
<1> HIDE DEF all
<1>5. x \in Shared(a, a, all) /\ whole[3] <= x[3]
  <2>1. /\ Words!Longest(Shared(a, a, all)) \in Shared(a, a, all)
        /\ \A y \in Shared(a, a, all) : y[3] <= Words!Longest(Shared(a, a, all))[3]
    BY <1>0, <1>3, <1>4, LongestIs
  <2> QED  BY <1>3, <2>1
<1>6. x = whole
  <2> HIDE DEF x
  <2>1. /\ x \in Triples /\ x[1] \in Nat /\ x[2] \in Nat /\ x[3] \in Nat
        /\ x[1] + x[3] <= all[2] /\ x[2] + x[3] <= all[4]
    BY <1>1, <1>5, SharedIs
  <2>2. x[1] = 0 /\ x[2] = 0 /\ x[3] = n
    BY <1>0, <1>2, <1>5, <2>1
  <2>3. x = <<x[1], x[2], x[3]>>
    BY <2>1 DEF Triples
  <2> QED  BY <2>2, <2>3
<1> DEFINE left == <<all[1], whole[1], all[3], whole[2]>>
           right == <<whole[1] + whole[3], all[2], whole[2] + whole[3], all[4]>>
           f == BlocksOf(a, a)
<1>7. f[all] = f[left] \cup {whole} \cup f[right]
  <2>1. f[all] = BlocksStep(a, a, f, all)
    BY <1>1, BlocksAre
  <2> HIDE DEF f, whole
  <2> QED  BY <1>3, <1>6, <2>1 DEF BlocksStep
<1>8. ASSUME NEW r \in Words!Regions(a, a), r[2] <= r[1]
      PROVE  f[r] = {}
  <2>1. f[r] = BlocksStep(a, a, f, r)
    BY BlocksAre
  <2>2. Shared(a, a, r) = {}
    BY <1>8, LongestShared
  <2> HIDE DEF f
  <2> QED  BY <2>1, <2>2 DEF BlocksStep
<1>9. left = <<0, 0, 0, 0>> /\ right = <<n, n, n, n>>
  BY <1>0, <1>2
<1>10. f[left] = {} /\ f[right] = {}
  <2>1. <<0, 0, 0, 0>> \in Words!Regions(a, a) /\ <<n, n, n, n>> \in Words!Regions(a, a)
    BY DEF Words!Regions
  <2>2. /\ <<0, 0, 0, 0>>[1] = 0 /\ <<0, 0, 0, 0>>[2] = 0
        /\ <<n, n, n, n>>[1] = n /\ <<n, n, n, n>>[2] = n /\ 0 <= 0 /\ n <= n
    BY <1>0
  <2> HIDE DEF f, left, right
  <2> QED  BY <1>8, <1>9, <2>1, <2>2
<1>11. Words!MatchingBlocks(a, a) = f[all]
  BY BlocksAre DEF all
<1> HIDE DEF f, left, right
<1> QED  BY <1>7, <1>10, <1>11

LEMMA NoOpcodes ==
  ASSUME NEW a, Len(a) \in Nat, Len(a) # 0
  PROVE  Words!Opcodes(a, a) = {}
<1> DEFINE n == Len(a)
           first == <<0, 0, 0>>
           whole == <<0, 0, n>>
           last == <<n, n, 0>>
           B == Marks(a, a)
<1>0. n \in Nat /\ n >= 1
  OBVIOUS
<1>1. B = {first, whole, last}
  BY OneBlock DEF Marks
<1>2. /\ first[1] = 0 /\ first[2] = 0 /\ first[3] = 0
      /\ whole[1] = 0 /\ whole[2] = 0 /\ whole[3] = n
      /\ last[1] = n /\ last[2] = n /\ last[3] = 0
  OBVIOUS
<1> HIDE DEF n, first, whole, last
<1>3. first # whole /\ whole # last
  BY <1>0, <1>2
<1>4. Words!Precedes(first, whole) /\ Words!Precedes(whole, last)
  BY <1>0, <1>2, <1>3 DEF Words!Precedes
<1>5. ~Words!Precedes(whole, first) /\ ~Words!Precedes(last, whole) /\ ~Words!Precedes(last, first)
  BY <1>0, <1>2 DEF Words!Precedes
<1>6. ASSUME NEW x \in B, NEW y \in B, Neighbours(B, x, y)
      PROVE  ~(x[1] + x[3] < y[1]) /\ ~(x[2] + x[3] < y[2])
  <2>0. Words!Precedes(x, y) /\ x # y
    BY <1>6 DEF Neighbours, Words!Precedes
  <2>1. (x = first /\ y = whole) \/ (x = whole /\ y = last)
    <3>1. ~(x = first /\ y = last)
      BY <1>1, <1>4, <1>6 DEF Neighbours
    <3>2. (x = first \/ x = whole \/ x = last) /\ (y = first \/ y = whole \/ y = last)
      BY <1>1
    <3>3. ~(x = whole /\ y = first) /\ ~(x = last /\ y = whole) /\ ~(x = last /\ y = first)
      BY <1>5, <2>0
    <3>4. x # y
      BY <2>0
    <3> QED  BY <3>1, <3>2, <3>3, <3>4
  <2>2. CASE x = first /\ y = whole
    BY <1>0, <1>2, <2>2
  <2>3. CASE x = whole /\ y = last
    BY <1>0, <1>2, <2>3
  <2> QED  BY <2>1, <2>2, <2>3
<1>7. \A op \in Words!Opcodes(a, a) :
        \E x, y \in B : Neighbours(B, x, y) /\ (x[1] + x[3] < y[1] \/ x[2] + x[3] < y[2])
  <2> SUFFICES ASSUME NEW op \in Words!Opcodes(a, a)
               PROVE  \E x, y \in B :
                        Neighbours(B, x, y) /\ (x[1] + x[3] < y[1] \/ x[2] + x[3] < y[2])
    OBVIOUS
  <2> DEFINE near == {xy \in B \X B :
                        /\ Words!Precedes(xy[1], xy[2])
                        /\ \A z \in B : ~(Words!Precedes(xy[1], z) /\ Words!Precedes(z, xy[2]))}
             between == {[i1 |-> xy[1][1] + xy[1][3], i2 |-> xy[2][1],
                          j1 |-> xy[1][2] + xy[1][3], j2 |-> xy[2][2]] : xy \in near}
  <2>1. Words!Opcodes(a, a) = {o \in between : o.i1 < o.i2 \/ o.j1 < o.j2}
    BY DEF Words!Opcodes, Marks
  <2> HIDE DEF B
  <2>2. PICK xy \in near :
          op = [i1 |-> xy[1][1] + xy[1][3], i2 |-> xy[2][1],
                j1 |-> xy[1][2] + xy[1][3], j2 |-> xy[2][2]]
    <3> HIDE DEF near
    <3> QED  BY <2>1
  <2>3. op.i1 < op.i2 \/ op.j1 < op.j2
    <3> HIDE DEF between
    <3> QED  BY <2>1
  <2>4. xy[1] \in B /\ xy[2] \in B /\ Neighbours(B, xy[1], xy[2])
    BY <2>2 DEF Neighbours
  <2>5. xy[1][1] + xy[1][3] < xy[2][1] \/ xy[1][2] + xy[1][3] < xy[2][2]
    BY <2>2, <2>3
  <2> QED  BY <2>4, <2>5
<1> HIDE DEF B
<1> QED  BY <1>6, <1>7

\* A quote whose words are those of the place found is verbatim, whatever edits
\* it marks and whatever pages turn there ("VERBATIM ... if only typographic
\* junk differs", quote_matcher.py, verify_quote).
THEOREM OwnWordsAreVerbatim ==
  ASSUME NEW quote, NEW opinion, IsText(quote), opinion # <<>>, Words!Needle(quote) # <<>>,
         NEW from, NEW to,
         Words!Words(quote) = Words!Words(SubSeq(opinion, from, to))
  PROVE  Words!VerifyQuote(quote, opinion, from, to, FALSE) = "VERBATIM"
<1> DEFINE q == Words!Words(quote)
           span == SubSeq(opinion, from, to)
<1>1. Words!Altered(quote, span) = {}
  <2>1. CASE q = <<>>
    BY <2>1 DEF Words!Altered
  <2>2. CASE q # <<>>
    <3>1. PICK S : quote \in Seq(S)
      BY DEF IsText
    <3>2. q \in Seq(S)
      BY <3>1, WithoutType DEF Words!Words
    <3> HIDE DEF q
    <3>3. Len(q) \in Nat /\ Len(q) # 0
      BY <2>2, <3>2, EmptySeq
    <3>4. Words!Opcodes(q, q) = {}
      BY <3>3, NoOpcodes
    <3> QED  BY <3>4 DEF Words!Altered, q
  <2> QED  BY <2>1, <2>2
<1> QED  BY <1>1 DEF Words!VerifyQuote
=============================================================================
