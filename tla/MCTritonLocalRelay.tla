----------------------- MODULE MCTritonLocalRelay -----------------------
(***************************************************************************)
(* TritonLocalRelay for TLC: two clients and a channel of two events, so   *)
(* that a third event makes a receiver lag and a "down" can be overwritten *)
(* by the "up" and the updates of the next session.                        *)
(***************************************************************************)
EXTENDS TritonLocalRelay
=============================================================================
