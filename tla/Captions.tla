------------------------------ MODULE Captions ------------------------------
(***************************************************************************)
(* verifier.py on names: whether the caption of a record speaks of the     *)
(* case that a brief names.  `LookupNamesMatch` is asked of a cluster that *)
(* citation_lookup found, `PartyOverlapOk` of every caption that the       *)
(* caption investigation can get at and of every search result.            *)
(*                                                                         *)
(* A caption is a sequence of lower-case words for each side of its "v.".  *)
(***************************************************************************)
EXTENDS Naturals, Sequences, SequencesExt

CONSTANTS
    Stop,           \* stopwords: "the", "ex", "rel"
    Short,          \* words of fewer than three letters
    Generic,        \* _GENERIC_NAME_TOKENS: "county", "national", "inc"
    Placeholder,    \* _PLACEHOLDER_PARTY_TOKENS: "doe"
    Government,     \* words of a government that may be sued: "state", "usa"
    LookupPrefix,   \* first words that the name check takes for a government's case
    OverlapPrefix,  \* first words that the party check takes for one, or for "in re"
    Acronym,        \* [word -> its letters, <<>> if the brief does not write it in capitals]
    Initial,        \* [word -> its first letter, "" for "the", "of", "and"]
    Within,         \* pairs of words: the first is part of the second
    Base            \* [word -> its short form: "incorporated" -> "inc"]

WordsOf(party) == Range(party)

\* A brief's case name, with the parties the parser found, and a record's.
NoParty == <<>>
CaptionOf(k) == k.left \o k.right

Toks(party) == WordsOf(party) \ (Stop \cup Short)

\* Containment of strings: a word may be found inside another.
Occurs(w, k) == \E x \in WordsOf(CaptionOf(k)) : x = w \/ <<w, x>> \in Within

Initials(party) ==
    SelectSeq([i \in 1..Len(party) |-> Initial[party[i]]], LAMBDA l : l # "")

\* "FDIC" and a side whose initials go on from it, or break off before its end.
AcronymBridge(party, k) ==
    \E w \in WordsOf(party) \ Generic : \E side \in {k.left, k.right} :
        /\ Acronym[w] # <<>> /\ Len(Initials(side)) >= 3
        /\ IsPrefix(Acronym[w], Initials(side)) \/ IsPrefix(Initials(side), Acronym[w])

----------------------------------------------------------------------------
(* _party_overlap_ok *)

Distinctive(party) == Toks(party) \ Generic
CitedPlaintiff(c) == Distinctive(c.plaintiff)
CitedDefendant(c) == Distinctive(c.defendant) \ Placeholder

\* Some word of the whole name is in the whole caption.
NamesShareWord(c, k) == Distinctive(c.name) \cap Toks(CaptionOf(k)) # {}

\* A side without distinctive words says nothing; one that is missed may be
\* an acronym.
SideFound(party, words, k) ==
    words = {} \/ words \cap Toks(CaptionOf(k)) # {} \/ AcronymBridge(party, k)

BothSidesFound(c, k) ==
    /\ SideFound(c.plaintiff, CitedPlaintiff(c), k)
    /\ SideFound(c.defendant, CitedDefendant(c), k)

OverlapOfGovernment(c, k) == c.name # <<>> /\ Head(c.name) \in OverlapPrefix

\* Mutant: two sides without distinctive words match anything.
PartyOverlapVacuous(c, k) ==
    \/ c.name = <<>>
    \/ IF OverlapOfGovernment(c, k) THEN NamesShareWord(c, k) ELSE BothSidesFound(c, k)

PartyOverlapOk(c, k) ==
    \/ c.name = <<>>
    \/ IF \/ OverlapOfGovernment(c, k)
          \/ CitedPlaintiff(c) \cup CitedDefendant(c) = {}
          \/ Toks(CaptionOf(k)) = {}
       THEN NamesShareWord(c, k)
       ELSE BothSidesFound(c, k)

----------------------------------------------------------------------------
(* _names_match_citation_lookup *)

Surname(party) == IF party = NoParty THEN {} ELSE {Head(party)}

\* "In re X": any distinctive word, nothing to compare if there is none.
InReMatches(c, k) ==
    LET words == WordsOf(c.name) \ (Short \cup Stop \cup Generic)
    IN  words = {} \/ \E w \in words : Occurs(w, k)

\* "X v. United States": the record must be against a government too.
AgainstGovernment(c) == Len(c.defendant) = 1 /\ WordsOf(c.defendant) \subseteq Government
AgainstSameMatches(c, k) ==
    /\ k.right # NoParty /\ Head(k.right) \in Government
    /\ \E w \in WordsOf(c.plaintiff) \ (Short \cup Generic) : Occurs(w, k)

\* Only generic surnames: left to the caption investigation.
SurnamesMatch(c, k) ==
    \E w \in (Surname(c.plaintiff) \cup Surname(c.defendant)) \ (Short \cup Generic) :
        Occurs(w, k)

LookupNamesMatch(c, k) ==
    CASE c.name = <<>> -> TRUE
      [] c.name # <<>> /\ c.plaintiff = NoParty -> InReMatches(c, k)
      [] c.plaintiff # NoParty /\ c.defendant # NoParty /\ Head(c.name) \in LookupPrefix ->
             Occurs(Head(c.defendant), k)
      [] OTHER -> IF AgainstGovernment(c) THEN AgainstSameMatches(c, k)
                  ELSE SurnamesMatch(c, k)

----------------------------------------------------------------------------
(* _investigate_caption_async: four captions, each may be missing.  The    *)
(* docket is known from the cluster alone; a call that fails is passed by. *)

Captions(w, failing) ==
    {w.cluster}
    \cup (IF "cluster" \in failing THEN {} ELSE {w.full})
    \cup (IF {"cluster", "docket"} \cap failing # {} THEN {} ELSE {w.docket})
    \cup (IF "text" \in failing THEN {} ELSE {w.head})

SameInForm(a, b) ==
    LET short(s) == [i \in 1..Len(s) |-> Base[s[i]]] IN a # <<>> /\ short(a) = short(b)

Investigated(c, w, failing) ==
    IF \E k \in Captions(w, failing) : CaptionOf(k) # <<>> /\ PartyOverlapOk(c, k)
    THEN IF SameInForm(c.name, CaptionOf(w.cluster))
         THEN "name_formatting_noise" ELSE "cl_display_name_data_bug"
    ELSE "WRONG_CASE"

\* A cluster of citation_lookup, by the name check or else the investigation.
HitVerdict(c, w, failing) ==
    IF LookupNamesMatch(c, w.cluster) THEN "matched" ELSE Investigated(c, w, failing)

----------------------------------------------------------------------------
\* Words of a party or a name that are neither generic nor a fragment.
Telling(party) == WordsOf(party) \ (Generic \cup Short)

\* A case name whose words say nothing is trusted.
NothingToCompare(c) ==
    c.plaintiff = NoParty /\ WordsOf(c.name) \subseteq Short \cup Stop \cup Generic

\* The first word of a government's opponent is compared whatever word it is.
GovernmentsCase(c) ==
    /\ c.name # <<>> /\ c.plaintiff # NoParty /\ c.defendant # NoParty
    /\ Head(c.name) \in LookupPrefix

\* Some caption of the record holds a telling word of the name, or spells out
\* an acronym of a party.
NameInCaptions(c, w) ==
    \E k \in {w.cluster, w.full, w.docket, w.head} :
        \/ \E x \in Telling(c.name) : Occurs(x, k)
        \/ AcronymBridge(c.plaintiff, k) \/ AcronymBridge(c.defendant, k)

\* Whatever calls fail, a citation resolves to a record for one of three
\* reasons: a name that says nothing, the first word of a government's
\* opponent in the cluster's own caption, be that a generic word or a fragment
\* inside another word, or a telling word of the name or an acronym.
AcceptedOnEvidence(c, w, failing) ==
    HitVerdict(c, w, failing) # "WRONG_CASE" =>
        \/ NothingToCompare(c)
        \/ GovernmentsCase(c) /\ Occurs(Head(c.defendant), w.cluster)
        \/ NameInCaptions(c, w)
=============================================================================
