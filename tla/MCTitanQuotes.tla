-------------------------- MODULE MCTitanQuotes --------------------------
(***************************************************************************)
(* TitanQuotes for TLC: a ladder of two sizes, two stream identifiers that *)
(* a reconnect can hand out the other way round, and two quotes: of one    *)
(* size or of two, in one session or on either side of a reconnect or a    *)
(* restart.                                                                *)
(***************************************************************************)
EXTENDS TitanQuotes, TLC

TwoRungs == <<1, 2>>
StreamSymmetry == Permutations(StreamIds)
=============================================================================
