--------------------------- MODULE MCRoutesPublisher ---------------------------
(***************************************************************************)
(* Two editors and a file with two segments, for TLC.                       *)
(***************************************************************************)
EXTENDS RoutesPublisher, TLC

CONSTANTS first, second, here, there

TwoEditors == {first, second}
TwoPoses == {here, there}
Alike == Permutations(TwoEditors) \cup Permutations(TwoPoses)
===============================================================================
