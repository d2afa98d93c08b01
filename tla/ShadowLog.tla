----------------------------- MODULE ShadowLog -----------------------------
(***************************************************************************)
(* jev_shadow.py: the shadow step of `full`, which asks a second model     *)
(* about every claim with a text and appends what it says to a file that   *)
(* nothing else reads.  A rerun goes on with the claims that have no row   *)
(* yet.  A process killed inside an append leaves the head of a line, and  *)
(* the next row is written behind it, on the same line.                    *)
(***************************************************************************)
EXTENDS Integers, Sequences, FiniteSets, FiniteSetsExt

CONSTANTS
    ShadowText  \* [claim -> "text", "blank" or "none": what its opinion file holds]

ShadowClaim == DOMAIN ShadowText

ASSUME ShadowAssumption ==
    /\ ShadowClaim \subseteq Nat /\ IsFiniteSet(ShadowClaim)
    /\ ShadowText \in [ShadowClaim -> {"text", "blank", "none"}]

VARIABLES
    rows,   \* [claim -> the readable rows that answer for it], up to 2
    tail,   \* the file ends in the head of a line
    todo    \* claims the step has still to ask about

shadowVars == <<rows, tail, todo>>

ShadowInit ==
    /\ rows = [c \in ShadowClaim |-> 0]
    /\ tail = FALSE
    /\ todo = {}

\* Rows that cannot be parsed, and rows that report an error, do not count.
AlreadyLogged == {c \in ShadowClaim : rows[c] > 0}

\* The claims of claims.csv with an opinion file that is no PDF.
ShadowTodo == {c \in ShadowClaim \ AlreadyLogged : ShadowText[c] # "none"}

\* A row is lost if it is glued to the head of another.
Row(c) ==
    /\ rows' = IF tail THEN rows ELSE [rows EXCEPT ![c] = Min({@ + 1, 2})]
    /\ tail' = FALSE

\* The model answers on the next claim.
ShadowAnswers ==
    /\ todo # {}
    /\ LET c == Min(todo)
       IN  ShadowText[c] = "text" /\ Row(c) /\ todo' = todo \ {c}

\* Asking fails and a row says so; or the text is blank and no row is written.
ShadowFails ==
    /\ todo # {}
    /\ todo' = todo \ {Min(todo)}
    /\ IF ShadowText[Min(todo)] = "text" THEN tail' = FALSE ELSE UNCHANGED tail
    /\ UNCHANGED rows

ShadowOne == ShadowAnswers \/ ShadowFails

\* What a killed process leaves of the row it was writing.
ShadowKilled ==
    /\ todo' = {}
    /\ tail' \in {tail, todo # {}}
    /\ UNCHANGED rows
=============================================================================
