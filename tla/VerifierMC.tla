----------------------------- MODULE VerifierMC -----------------------------
(* Small instances of Verifier for TLC. *)
EXTENDS Verifier

(* Every combination the parser can produce: a court id comes from a court or *)
(* is inferred from a state reporter, which takes a cite.                     *)
Inputs ==
  {p \in ParsedCitation : /\ p.courtId => p.court \/ (p.state /\ p.cite)
                          /\ p.state => p.court \/ p.cite}

Op(score, sameCourt, check) ==
  [score |-> score, sameCourt |-> sameCourt, check |-> check]

Dk(score, undated, sameCourt, corroborated, doc, docs) ==
  [score |-> score, undated |-> undated, sameCourt |-> sameCourt,
   corroborated |-> corroborated, doc |-> doc, docs |-> docs]

(* Below the threshold, between it and a credible score, above both; in the   *)
(* cited court or another; each outcome of the check of the citation.         *)
Opinions == {NoMatch, Op(30, TRUE, "not_on_record"), Op(45, FALSE, "corroborated"),
             Op(45, TRUE, "not_on_record"), Op(80, TRUE, "contradicted")}

(* A document only the docket entries bring, without which the docket falls   *)
(* under the threshold; one whose details must be fetched; one of another     *)
(* court, behind others; a bare docket that holds by itself.                  *)
Dockets(corroborated) ==
  {NoMatch, Dk(70, 60, TRUE, corroborated, "opinion", "absent"),
   Dk(45, 35, TRUE, corroborated, "refinable", "listed"),
   Dk(70, 60, FALSE, corroborated, "opinion", "others"),
   Dk(90, 70, TRUE, corroborated, "none", "absent")}

At(lookup, captions, opinion, recapDoc, recapDocket) ==
  [lookup |-> lookup, captions |-> captions, opinion |-> opinion,
   recapDoc |-> recapDoc, recapDocket |-> recapDocket]

HitWorlds ==
  {At(kind, {}, NoMatch, NoMatch, NoMatch) : kind \in {"match", "nameless", "no_primary"}}
    \cup {At("mismatch", heard, NoMatch, NoMatch, NoMatch) : heard \in SUBSET Source}

MissWorlds ==
  {At("miss", {}, o, d, e) : o \in Opinions, d \in Dockets(TRUE), e \in Dockets(FALSE)}

Worlds == HitWorlds \cup MissWorlds
=============================================================================
