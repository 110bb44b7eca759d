--------------------------- MODULE MCWindowCache ---------------------------
(* Three lines of two words compete for one set of two ways.  The cache is *)
(* off, copyback, or copyback with half of it locked and pushes that keep  *)
(* the line; an ACR makes line 0 write-through.                            *)
EXTENDS WindowCache

Ctl(d, p, l, m) == [dec |-> d, ddpi |-> p, dhlck |-> l, mode |-> m]

MCControls == {Ctl(TRUE, FALSE, FALSE, 1), Ctl(TRUE, TRUE, TRUE, 1)}
MCMatches  == {[on |-> TRUE, covers |-> {0}, mode |-> 0]}
=============================================================================
