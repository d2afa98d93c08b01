------------------------ MODULE PropositionPipelineMC ------------------------
(***************************************************************************)
(* Small instances of PropositionPipeline.  Cases with captions that       *)
(* share a token or not, claims that quote them, and the outcomes of two   *)
(* waves of lookups.                                                       *)
(***************************************************************************)
EXTENDS PropositionPipeline

FirstOnly == [c \in Claim |-> 1]
SecondOnly == [c \in Claim |-> 2]
OneEach == [c \in Claim |-> c]
KeyIsCite == [c \in Cite |-> c]

NoPrepared == {}
PreparedFirst == {FirstOnly}
PreparedEach == {OneEach}

NoList == {}
OneList == {{2}}

(* Two cases: "Smith v. Jones" and "Doe v. Roe", or two "State v." ones. *)
FarCaption == [k \in Case |-> CASE k = "k1" -> {"smith", "jones"}
                                [] k = "k2" -> {"doe", "roe"}
                                [] OTHER -> {"poe"}]
NearCaption == [k \in Case |-> CASE k = "k1" -> {"state", "smith"}
                                 [] k = "k2" -> {"state", "doe"}
                                 [] OTHER -> {"poe"}]
FarName == [c \in Cite |-> IF c = 1 THEN {"smith", "jones"} ELSE {"doe", "roe"}]
NearName == [c \in Cite |-> IF c = 1 THEN {"state", "smith"} ELSE {"state", "doe"}]

NoSibling == [k \in Case |-> {}]
OtherSibling == [k \in Case |-> Case \ {k}]

Found(status, k) == [status |-> status, match |-> k]
Missed == Found("NOT_FOUND", NoCase)

CaseOf(c) == IF c = 1 THEN "k1" ELSE "k2"

QuickSome == [c \in Cite |-> IF c = 1 THEN {Found("VERIFIED", "k1"), Missed} ELSE {Missed}]
QuickEither == [c \in Cite |-> {Found("VERIFIED", k) : k \in Case} \cup {Missed}]
QuickHit == [c \in Cite |-> {Found("VERIFIED", CaseOf(c))}]
FullSome == [c \in Cite |-> IF c = 1 THEN {Found("CITE_UNCONFIRMED", "k1"), Found("WRONG_CASE", "k2")}
                           ELSE {Found("VERIFIED_PARTIAL", "k2"), Found("VERIFIED_DOCKET_ONLY", "k3"),
                                 Missed}]
FullHit == [c \in Cite |-> {Found("VERIFIED_PARTIAL", CaseOf(c))}]

NoExtraction == {}
OneExtraction == {[claims |-> FirstOnly, toa |-> {}, body |-> {}]}
(* An agent may answer twice, and differently. *)
WithLists == {[claims |-> FirstOnly, toa |-> {1}, body |-> {1, 2}],
              [claims |-> SecondOnly, toa |-> {1}, body |-> {}]}

AllQuote == [c \in Claim |-> TRUE]
NoneQuotes == [c \in Claim |-> FALSE]
(* A claim's quotation is verbatim in one case and altered in the other. *)
Altered == [c \in Claim |-> [k \in Case |-> IF k = "k1" THEN {"VERBATIM", "SLIP"} ELSE {"CLOSE"}]]

NoFlags == {}
FirstFlagged == {<<1, "k1">>}
SecondFlagged == {<<2, "k2">>}
NothingUnreadable == {}
ThirdUnreadable == {"k3"}

Judgement == {"supported", "unverifiable"}
JudgementOrNot == {"supported", "partial", Invalid}
OwnColor == {"Green", "Red"}
=============================================================================
