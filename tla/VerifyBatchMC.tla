---------------------------- MODULE VerifyBatchMC ----------------------------
(* Small instances of VerifyBatch for TLC. *)
EXTENDS VerifyBatch

Plain == [name |-> TRUE, court |-> TRUE, year |-> TRUE, docketNo |-> TRUE,
          cite |-> TRUE, courtId |-> TRUE, state |-> FALSE]

(* A federal cite with everything, and one without court and year. *)
Inputs == {Plain, [Plain EXCEPT !.court = FALSE, !.year = FALSE, !.courtId = FALSE]}

At(lookup, captions, opinion, recapDoc) ==
  [lookup |-> lookup, captions |-> captions, opinion |-> opinion,
   recapDoc |-> recapDoc, recapDocket |-> NoMatch]

(* A hit, a hit under another name, a miss that only RECAP can find, one in   *)
(* another court that hides it, and a citation nothing is known of.           *)
Worlds ==
  LET filed == [score |-> 70, undated |-> 60, sameCourt |-> TRUE, corroborated |-> TRUE,
                doc |-> "refinable", docs |-> "absent"]
      elsewhere == [score |-> 45, sameCourt |-> FALSE, check |-> "contradicted"]
  IN {At("match", {}, NoMatch, NoMatch), At("mismatch", {"text"}, NoMatch, NoMatch),
      At("miss", {}, elsewhere, filed), At("miss", {}, NoMatch, NoMatch)}

OneEach == [c \in Cite |-> 1]
(* Of three citations one has court and year: the others' fallbacks are short. *)
FewPlainInit ==
  /\ BatchInit
  /\ Cardinality({c \in Cite : parsed[c] = Plain}) <= 1

FewPlainSpec == FewPlainInit /\ [][BatchNext]_batchVars /\ WF_batchVars(BatchNext)
=============================================================================
