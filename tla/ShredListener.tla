-------------------------- MODULE ShredListener --------------------------
(***************************************************************************)
(* The UDP shred listener: run_udp_loop of                                 *)
(* src/src/upstream/triton_shred.rs with the counters it keeps twice - in  *)
(* ShredStats, which GET /health reads, and in Redis, which other          *)
(* processes read - over lost and torn Redis writes, a socket that cannot  *)
(* be bound, restarts, and restarts with the listener switched off.        *)
(*                                                                         *)
(* What the parser makes of a datagram is ShredParse; what the buffer      *)
(* makes of a shred is ShredReassembler, here a choice: no batch, or one   *)
(* with an estimate of its transactions and some watched vaults in it.     *)
(***************************************************************************)
EXTENDS ShredParse

CONSTANTS
    Sent,         \* datagrams, as records of Packets whose len may exceed the buffer
    PrefixSkip,   \* SHRED_UDP_PREFIX_SKIP
    Estimates,    \* what count_transactions_estimate may return
    MaxHits,      \* watched vaults, and so the hits of one batch
    CountCap      \* bound on every counter, the ones in Redis included

ASSUME SentAssumption ==
    Sent \subseteq [len : Nat, kind : {"data", "coding", "unknown"}, declared : 0..MaxU16]
ASSUME PrefixAssumption == PrefixSkip \in Nat
ASSUME EstimatesAssumption == Estimates \subseteq Nat \ {0}
ASSUME BoundsAssumption == MaxHits \in Nat /\ CountCap \in Nat

Counters == {"shreds", "txs", "hits"}

VARIABLES
    pc,         \* where the task is
    bound,      \* ShredStats.bound
    stats,      \* ShredStats: the counters of GET /health
    redisConn,  \* RedisFanout.conn is Some: decided once, at boot
    keys,       \* mux:shred:shreds, txs_deshredded and vault_hits
    shredUp,    \* mux:meta:shred_up = "1"
    hitRow,     \* mux:shred:hit: "none", or who wrote it
    packet,     \* the datagram in hand
    estimate,   \* tx_count of the batch in hand
    hitsLeft,   \* hits of the batch yet to be published
    \* history:
    missed      \* what writes of this process did not reach Redis

redis == <<keys, shredUp, hitRow, missed>>
batch == <<estimate, hitsLeft>>
vars == <<pc, bound, stats, redisConn, redis, packet, batch>>

Listening == {"raise", "recv", "frame", "parse", "deshred", "hits", "publish"}
Stopped == {"off", "failed"}
PCs == {"boot", "bind", "reset"} \union Listening \union Stopped
NoPacket == [len |-> 0, kind |-> "unknown", declared |-> 0]

-----------------------------------------------------------------------------
(* Writes to Redis.  A pipe is not a transaction: any prefix of it may be   *)
(* all that is executed.                                                    *)

Miss(what) == missed' = missed \union {what}
Applied == UNCHANGED missed

\* set_shred_upstream_up
SetUp(value) ==
    IF redisConn
    THEN /\ \/ shredUp' = value /\ Applied
            \/ UNCHANGED shredUp /\ Miss("up")
         /\ UNCHANGED <<keys, hitRow>>
    ELSE UNCHANGED redis

Place(counter) == CASE counter = "shreds" -> 2 [] counter = "txs" -> 3 [] counter = "hits" -> 4

\* reset_shred_state_at_boot: the flag, the three counters, the hit row.
ResetPipe ==
    IF redisConn
    THEN \E done \in 0..5 :
           /\ shredUp' = (shredUp /\ done < 1)
           /\ keys' = [c \in Counters |-> IF done < Place(c) THEN keys[c] ELSE 0]
           /\ hitRow' = IF done < 5 THEN hitRow ELSE "none"
           /\ IF done < 5 THEN Miss("reset") ELSE Applied
    ELSE UNCHANGED redis

Incr(counter, n) == keys' = [keys EXCEPT ![counter] = @ + n]

\* record_shred_frame
FramePipe ==
    IF redisConn
    THEN /\ \/ Miss("shreds") /\ UNCHANGED <<keys, shredUp>>
            \/ Incr("shreds", 1) /\ shredUp' \in {shredUp, TRUE} /\ Applied
         /\ UNCHANGED hitRow
    ELSE UNCHANGED redis

\* record_shred_deshred
DeshredPipe ==
    IF redisConn
    THEN /\ \/ Miss("txs") /\ UNCHANGED keys
            \/ Incr("txs", estimate) /\ Applied
         /\ UNCHANGED <<shredUp, hitRow>>
    ELSE UNCHANGED redis

\* Mutant: the row is written, the counter forgotten.
HitPipe_RowOnly ==
    IF redisConn
    THEN /\ \/ hitRow' \in {hitRow, "this"} /\ Miss("hits")
            \/ hitRow' = "this" /\ Applied
         /\ UNCHANGED <<keys, shredUp>>
    ELSE UNCHANGED redis

\* publish_shred_hit: the row, then the counter.
HitPipe ==
    IF redisConn
    THEN /\ \/ hitRow' \in {hitRow, "this"} /\ Miss("hits") /\ UNCHANGED keys
            \/ hitRow' = "this" /\ Incr("hits", 1) /\ Applied
         /\ UNCHANGED shredUp
    ELSE UNCHANGED redis

-----------------------------------------------------------------------------
(* The process *)

\* TritonShredUpstream::new and spawn_live: without the switch, the vaults or a
\* usable address the listener is not spawned, and nothing is written.
Boot ==
    /\ pc = "boot" /\ pc' \in {"bind", "off"}
    /\ redisConn' \in BOOLEAN
    /\ UNCHANGED <<bound, stats, redis, packet, batch>>

\* The keys stay; a row written so far is of an earlier process from now on.
Crash ==
    /\ pc # "boot" /\ pc' = "boot"
    /\ bound' = FALSE
    /\ stats' = [c \in Counters |-> 0]
    /\ redisConn' = FALSE
    /\ hitRow' = IF hitRow = "this" THEN "old" ELSE hitRow
    /\ packet' = NoPacket /\ estimate' = 0 /\ hitsLeft' = 0
    /\ missed' = {}
    /\ UNCHANGED <<keys, shredUp>>

\* SHRED_HIT_TTL_SECS have passed.
Expire ==
    /\ hitRow # "none" /\ hitRow' = "none"
    /\ UNCHANGED <<pc, bound, stats, redisConn, keys, shredUp, missed, packet, batch>>

-----------------------------------------------------------------------------
(* run_udp_loop *)

\* Mutant: the failure is only logged.
BindFails_Silent ==
    /\ pc = "bind" /\ pc' = "failed"
    /\ bound' = FALSE
    /\ UNCHANGED <<stats, redisConn, redis, packet, batch>>

BindFails ==
    /\ pc = "bind" /\ pc' = "failed"
    /\ SetUp(FALSE)
    /\ bound' = FALSE
    /\ UNCHANGED <<stats, redisConn, packet, batch>>

BindSucceeds ==
    /\ pc = "bind" /\ pc' = "reset"
    /\ bound' = TRUE
    /\ UNCHANGED <<stats, redisConn, redis, packet, batch>>

ResetKeys ==
    /\ pc = "reset" /\ pc' = "raise"
    /\ ResetPipe
    /\ UNCHANGED <<bound, stats, redisConn, packet, batch>>

RaiseUp ==
    /\ pc = "raise" /\ pc' = "recv"
    /\ SetUp(TRUE)
    /\ UNCHANGED <<bound, stats, redisConn, packet, batch>>

Room(counter, n) == stats[counter] + n <= CountCap /\ keys[counter] + n <= CountCap

\* Every datagram is counted, whatever it is.  (A receive error changes nothing.)
Receive ==
    /\ pc = "recv" /\ pc' = "frame"
    /\ Room("shreds", 1)
    /\ \E datagram \in Sent :
          packet' = [datagram EXCEPT !.len = Stripped(Received(@), PrefixSkip)]
    /\ stats' = [stats EXCEPT !.shreds = @ + 1]
    /\ UNCHANGED <<bound, redisConn, redis, batch>>

RecordFrame ==
    /\ pc = "frame" /\ pc' = "parse"
    /\ FramePipe
    /\ UNCHANGED <<bound, stats, redisConn, packet, batch>>

\* `continue': the packet is no data shred, or its FEC set is not cut yet.
NoBatch ==
    /\ pc = "parse" /\ pc' = "recv"
    /\ packet' = NoPacket
    /\ UNCHANGED <<bound, stats, redisConn, redis, batch>>

\* A data shred cuts a batch: its estimate is counted, its hits are found.
CutBatch ==
    /\ pc = "parse" /\ pc' = "deshred"
    /\ IsDataShred(packet)
    /\ estimate' \in Estimates /\ hitsLeft' \in 0..MaxHits
    /\ Room("txs", estimate') /\ Room("hits", hitsLeft')
    /\ stats' = [stats EXCEPT !.txs = @ + estimate']
    /\ UNCHANGED <<bound, redisConn, redis, packet>>

RecordDeshred ==
    /\ pc = "deshred" /\ pc' = "hits"
    /\ DeshredPipe
    /\ UNCHANGED <<bound, stats, redisConn, packet, batch>>

CountHit ==
    /\ pc = "hits" /\ hitsLeft > 0 /\ pc' = "publish"
    /\ hitsLeft' = hitsLeft - 1
    /\ stats' = [stats EXCEPT !.hits = @ + 1]
    /\ UNCHANGED <<bound, redisConn, redis, packet, estimate>>

\* The pub/sub wake that follows touches no key.
PublishHit ==
    /\ pc = "publish" /\ pc' = "hits"
    /\ HitPipe
    /\ UNCHANGED <<bound, stats, redisConn, packet, batch>>

BatchDone ==
    /\ pc = "hits" /\ hitsLeft = 0 /\ pc' = "recv"
    /\ packet' = NoPacket /\ estimate' = 0
    /\ UNCHANGED <<bound, stats, redisConn, redis, hitsLeft>>

-----------------------------------------------------------------------------
Init ==
    /\ pc = "boot" /\ bound = FALSE
    /\ stats = [c \in Counters |-> 0]
    /\ redisConn = FALSE
    /\ keys = [c \in Counters |-> 0] /\ shredUp = FALSE /\ hitRow = "none"
    /\ packet = NoPacket /\ estimate = 0 /\ hitsLeft = 0
    /\ missed = {}

Next ==
    \/ Boot \/ Crash \/ Expire
    \/ BindFails \/ BindSucceeds \/ ResetKeys \/ RaiseUp
    \/ Receive \/ RecordFrame \/ NoBatch \/ CutBatch \/ RecordDeshred
    \/ CountHit \/ PublishHit \/ BatchDone

Spec == Init /\ [][Next]_vars

-----------------------------------------------------------------------------
PlaceType ==
    /\ pc \in PCs /\ bound \in BOOLEAN /\ redisConn \in BOOLEAN
    /\ shredUp \in BOOLEAN /\ hitRow \in {"none", "this", "old"}
    /\ missed \subseteq {"up", "reset"} \union Counters

CounterType ==
    /\ stats \in [Counters -> Nat] /\ keys \in [Counters -> Nat]
    /\ estimate \in Estimates \union {0} /\ hitsLeft \in 0..MaxHits

TypeOK == PlaceType /\ CounterType /\ packet \in Packets

\* What ShredStats is ahead of Redis by, while a write is on its way.
OnItsWay(counter) ==
    CASE counter = "shreds" /\ pc = "frame" -> 1
      [] counter = "txs" /\ pc = "deshred" -> estimate
      [] counter = "hits" /\ pc = "publish" -> 1
      [] OTHER -> 0

Agree(counter) ==
    /\ keys[counter] + OnItsWay(counter) <= stats[counter]
    /\ counter \notin missed => keys[counter] + OnItsWay(counter) = stats[counter]

\* While the listener runs, a counter in Redis never runs ahead of the one GET
\* /health shows, and falls behind it only by writes that were lost - unless the
\* reset after the bind was.
CountersFollowHealth ==
    (pc \in Listening /\ redisConn /\ "reset" \notin missed) => \A c \in Counters : Agree(c)

\* What an earlier process left - its hit row, its "up" - is gone once this one
\* has bound its socket and reset the keys; and its "up" is gone once the socket
\* could not be bound.  Only a lost write leaves any of it.
GhostsNeedLostWrites ==
    redisConn =>
        /\ (pc \in Listening /\ hitRow = "old") => "reset" \in missed
        /\ (pc = "raise" /\ shredUp) => "reset" \in missed
        /\ (pc = "failed" /\ shredUp) => "up" \in missed

-----------------------------------------------------------------------------
(* The strengthening that makes the two inductive (Shred_proofs).   *)
NothingCounted ==
    pc \notin Listening \ {"raise"} => \A c \in Counters : stats[c] = 0

IInv == TypeOK /\ NothingCounted /\ CountersFollowHealth /\ GhostsNeedLostWrites

=============================================================================
