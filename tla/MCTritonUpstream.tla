------------------------ MODULE MCTritonUpstream ------------------------
(***************************************************************************)
(* TritonUpstream for TLC, with the delays 5 s and 30 s.                   *)
(***************************************************************************)
EXTENDS TritonUpstream
=============================================================================
