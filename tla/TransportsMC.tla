---------------------------- MODULE TransportsMC ----------------------------
(* Three opinion files, the first with two claims; the third cannot be read. *)
(* The names of the last two jobs are cut to one.  An answer on the first    *)
(* may have two entries, for its claims or twice for one of them; the others *)
(* are answered as a whole or with no entry.                                 *)
EXTENDS Transports

FirstTwo == [o \in Opinion |-> IF o = 1 THEN {1, 2} ELSE {o + 1}]
LaterShare == [o \in Opinion |-> IF o = 1 THEN 1 ELSE 2]
FirstRepeats == [o \in Opinion |-> IF o = 1 THEN 2 ELSE 0]
SomeText == [c \in {1, 2} |-> IF c = 1 THEN "text" ELSE "blank"]
=============================================================================
