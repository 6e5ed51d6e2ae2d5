---------------------------- MODULE MCFeedMux ----------------------------
(***************************************************************************)
(* FeedMux for TLC: all the tasks of the process and one handler of        *)
(* POST /publish.                                                          *)
(***************************************************************************)
EXTENDS FeedMux
=============================================================================
