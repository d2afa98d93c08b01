---------------------------- MODULE AsyncClientMC ----------------------------
(* Small instances of AsyncClient for TLC. *)
EXTENDS AsyncClient

(* The depth at which the bucket is never overdrawn: every task may have a *)
(* pass of the limiter in hand, and one more interval may have gone by.    *)
BacklogDepth == Cardinality(Task) + 1
=============================================================================
