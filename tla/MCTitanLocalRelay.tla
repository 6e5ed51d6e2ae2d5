------------------------ MODULE MCTitanLocalRelay ------------------------
(***************************************************************************)
(* TitanLocalRelay for TLC: two clients and a channel of two events, so    *)
(* that a third event makes a receiver lag and a status event can be among *)
(* the lost ones.                                                          *)
(***************************************************************************)
EXTENDS TitanLocalRelay
=============================================================================
