----------------------------- MODULE QcTableMC -----------------------------
(* Three rows, two of them with one citation text; the text of the citation  *)
(* c1 occurs in that of c2.                                                  *)
EXTENDS QcTable

CONSTANTS c1, c2, b1, b2

RowTexts == <<c1, c2, c1>>
Nested == [c \in {c1, c2} |-> IF c = c2 THEN {c1, c2} ELSE {c1}]
AllRows == {{1, 2, 3}}
OwnName == [b \in {b1, b2} |-> b]
=============================================================================
