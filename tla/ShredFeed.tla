---------------------------- MODULE ShredFeed ----------------------------
(***************************************************************************)
(* The shred listener (ShredListener) together with the buffer it owns     *)
(* (ShredReassembler), as run_udp_loop of                                  *)
(* src/src/upstream/triton_shred.rs joins them: every data shred is pushed,*)
(* and a batch is counted exactly when the push returns one.  The set and  *)
(* the index of a shred are read from its bytes, so any datagram may name  *)
(* any of them, and the same one again.                                    *)
(***************************************************************************)
EXTENDS ShredListener, ShredReassembler

VARIABLE handed    \* history: shreds handed on in batches by this process

reassembler == <<bufferVars, handed>>
feedVars == <<vars, reassembler>>

-----------------------------------------------------------------------------
\* The steps in which the listener does not touch the buffer.
ListenerAlone ==
    /\ \/ Boot \/ Expire \/ BindFails \/ BindSucceeds \/ ResetKeys \/ RaiseUp
       \/ Receive \/ RecordFrame \/ RecordDeshred \/ CountHit \/ PublishHit \/ BatchDone
    /\ UNCHANGED reassembler

\* parse_data_shred returns None.
Ignores == NoBatch /\ ~IsDataShred(packet) /\ UNCHANGED reassembler

\* reassembler.push, and what its result decides.
Pushes(k, i) ==
    /\ IsDataShred(packet)
    /\ Push(k, i)
    /\ IF returned' = None
       THEN NoBatch /\ UNCHANGED handed
       ELSE CutBatch /\ handed' = handed + Cardinality(returned'.shreds)

\* The buffer is the task's own: it dies with the process.
Restarts ==
    /\ Crash
    /\ held' = [k \in Keys |-> {}] /\ returned' = None
    /\ arrived' = [k \in Keys |-> {}] /\ dropped' = {}
    /\ handed' = 0

FeedInit == Init /\ BufferInit /\ handed = 0

FeedNext ==
    \/ ListenerAlone \/ Ignores \/ Restarts
    \/ \E k \in Keys, i \in Indices : Pushes(k, i)

FeedSpec == FeedInit /\ [][FeedNext]_feedVars

-----------------------------------------------------------------------------
HeldShreds == {shred \in Keys \X Indices : shred[2] \in held[shred[1]]}
InHand == IF pc \in {"frame", "parse"} THEN 1 ELSE 0

\* Every shred held, handed on in a batch or in hand came in a datagram of its
\* own: in whatever order they come and whatever is dropped, no datagram is
\* deshredded twice, and the buffer never holds more than GET /health says was
\* received.  (A shred sent again after its set was cut is deshredded again.)
ShredsAreReceived ==
    handed + Cardinality(HeldShreds) + InHand <= stats["shreds"]

=============================================================================
