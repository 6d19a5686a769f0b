--------------------------- MODULE MCServerTools ---------------------------
(***************************************************************************)
(* Instance of ServerTools for TLC: two calls on a table of at most two    *)
(* rows, more than one of which is a bulk write, dumped in pages of one.   *)
(***************************************************************************)
EXTENDS ServerTools, TLC

CONSTANTS c1, c2

MCCalls == {c1, c2}
Symmetry == Permutations(MCCalls)
=============================================================================
