------------------------------- MODULE Scoring -------------------------------
(***************************************************************************)
(* src/citation_verifier/scoring.py, and the quote floor of                *)
(* proposition_pipeline.py: the colour of a claim as a function of what    *)
(* the verifier, the quote check and the agent said of it, and the lane of *)
(* the report it is shown in.                                              *)
(***************************************************************************)
EXTENDS Naturals

Unlocatable == {"NOT_FOUND", "INSUFFICIENT_DATA", "VERIFICATION_INCOMPLETE"}

CleanVerified == {"VERIFIED", "VERIFIED_PARTIAL", "VERIFIED_VIA_RECAP",
                  "VERIFIED_DOCKET_ONLY"}

Located == CleanVerified \cup {"CITE_UNCONFIRMED"}

CitationStatus == Unlocatable \cup Located \cup {"WRONG_CASE"}

Support == {"supported", "partial", "unsupported", "unverifiable"}

Color == {"Green", "Yellow", "Red", "Gray", "CheckCite"}

(* The colours an agent may give itself under assess-v1. *)
ValidColor == {"Green", "Yellow", "Red"}

(* What verify_quote says of one quotation.  A CLOSE one that alters a     *)
(* single word, neither a negation nor a modal nor a number, is a slip.    *)
QuoteResult == {"VERBATIM", "SLIP", "CLOSE", "FABRICATED"}

(* The worst of a set of results; a slip is reported as CLOSE. *)
QuoteWorst(results) ==
  IF "FABRICATED" \in results THEN "FABRICATED"
  ELSE IF results \cap {"CLOSE", "SLIP"} # {} THEN "CLOSE" ELSE "VERBATIM"

(* _quote_floor: the empty string is no floor. *)
QuoteFloor(results) ==
  IF results \cap {"FABRICATED", "CLOSE"} # {} THEN "Yellow" ELSE ""

DeriveColor(existence, support, quoteWorst) ==
  CASE existence \in Unlocatable -> "Gray"
    [] existence = "WRONG_CASE" -> "Red"
    [] existence = "CITE_UNCONFIRMED" -> "CheckCite"
    [] OTHER ->
         CASE support = "unsupported" -> "Red"
           [] support = "partial" -> "Yellow"
           [] support = "supported" ->
                IF quoteWorst \in {"CLOSE", "FABRICATED"} THEN "Yellow" ELSE "Green"
           [] OTHER -> "Gray"

SeverityRank == [Green |-> 0, Yellow |-> 1, Red |-> 2]

(* Seeded fault: no floor. *)
FlooredNever(color, floor) == color

(* A floor makes a colour more severe, never less. *)
Floored(color, floor) ==
  IF /\ {color, floor} \subseteq DOMAIN SeverityRank
     /\ SeverityRank[color] < SeverityRank[floor]
  THEN floor
  ELSE color

ReportLane(status, assessment, hasOpinion) ==
  CASE status = "WRONG_CASE" -> "Red"
    [] status = "CITE_UNCONFIRMED" -> "CheckCite"
    [] status \in Unlocatable /\ ~hasOpinion -> "Gray"
    [] OTHER -> IF assessment \in {"Green", "Red"} THEN assessment ELSE "Yellow"
=============================================================================
