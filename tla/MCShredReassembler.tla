----------------------- MODULE MCShredReassembler -----------------------
(***************************************************************************)
(* ShredReassembler for TLC: four FEC sets of three shreds and room for two  *)
(* sets.  The sets 1 to 3 end with a flagged shred, the set 4 has none (a  *)
(* batch that spans sets), so it stays until newer ones push it out - or,  *)
(* being the newest here, for ever.                                        *)
(***************************************************************************)
EXTENDS ShredReassembler

MCKeys == 1..4
MCEnds == {<<k, 2>> : k \in 1..3}
=============================================================================
