------------------------ MODULE MCShredListener ------------------------
(***************************************************************************)
(* ShredListener for TLC: a data shred, one that the receive buffer cuts   *)
(* below its declared size, a coding shred, and a datagram too short to    *)
(* hold the headers once the prefix is gone.                               *)
(***************************************************************************)
EXTENDS ShredListener

MCSent == {[len |-> 1000, kind |-> "data", declared |-> 900],
           [len |-> 1300, kind |-> "data", declared |-> 1232],
           [len |-> 1000, kind |-> "coding", declared |-> 900],
           [len |-> 90, kind |-> "data", declared |-> 89]}
MCEstimates == {1, 2}
=============================================================================
