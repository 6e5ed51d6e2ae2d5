------------------------- MODULE MCTitanUpstream -------------------------
(***************************************************************************)
(* TitanUpstream for TLC.  One tick is 2.5 s: the real delays 5 s and 30 s *)
(* and the 5 s threshold are 2, 12 and 2 ticks, so the last doubling meets *)
(* the cap between two powers of two, as in the program.                   *)
(***************************************************************************)
EXTENDS TitanUpstream
=============================================================================
