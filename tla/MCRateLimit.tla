--------------------------- MODULE MCRateLimit ---------------------------
(***************************************************************************)
(* RateLimit for TLC: the default ladder of five rungs over a bucket of    *)
(* eight, which a few quick reconnects drain.                              *)
(***************************************************************************)
EXTENDS RateLimit
=============================================================================
