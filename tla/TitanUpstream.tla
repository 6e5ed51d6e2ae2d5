-------------------------- MODULE TitanUpstream --------------------------
(***************************************************************************)
(* The Titan WebSocket live loop: run_live_loop, run_session and           *)
(* mark_titan_disconnected of src/src/upstream/titan.rs, the backoff it    *)
(* waits on, and the two Redis keys it keeps for other processes           *)
(* (mux:meta:titan_up and mux:titan:pairs_live).                           *)
(*                                                                         *)
(* Connectivity is stored in three places that are written one after the   *)
(* other with awaits between them: `connected' (read by GET /health), the  *)
(* Redis keys (read by other processes), and the relay's flag and its      *)
(* status event (read by local WebSocket clients).  Every such write is a  *)
(* step of its own.  A Redis write may be lost, a pipe may be cut short,   *)
(* the connection may never have been made, and the process may die at     *)
(* any step: what it wrote to Redis stays.                                 *)
(***************************************************************************)
EXTENDS Backoff

CONSTANTS
    LostCap,     \* lost clears are counted up to this bound
    StreakCap    \* waits without a reset are counted up to this bound, where the
                 \* delay no longer grows

ASSUME LostCapAssumption == LostCap \in Nat /\ LostCap >= 3
ASSUME StreakCapAssumption == StreakCap \in Nat \ {0} /\ Delay(StreakCap) = Cap

VARIABLES
    pc,          \* where the loop is
    after,       \* where mark_titan_disconnected returns to
    connected,   \* TitanUpstream.connected
    relayUp,     \* TitanLocalRelay.upstream_connected
    signal,      \* the last status event sent to the relay's channel
    beat,        \* flips with every frame published to the relay
    redisConn,   \* RedisFanout.conn is Some: decided once, at boot
    titanUp,     \* mux:meta:titan_up = "1"
    pairsLive,   \* mux:titan:pairs_live = "1"
    current,     \* ReconnectBackoff.current
    received,    \* run_session's received_data
    elapsed,     \* session_start.elapsed(), up to HealthyAfter
    \* history, never read by the loop:
    quoted,      \* a quote was recorded in this session
    lostUp,      \* consecutive clears of titan_up that were lost
    lostPairs,   \* consecutive clears of pairs_live that were lost
    streak       \* waits since a healthy session ended without an error

relay == <<relayUp, signal, beat>>
redis == <<titanUp, pairsLive, lostUp, lostPairs>>
session == <<received, elapsed, quoted>>
delays == <<current, streak>>
vars == <<pc, after, connected, relay, redisConn, redis, delays, session>>

ReturnPCs == {"session", "okArm", "errArm", "wait"}
MarkPCs == {"markUp", "markPairs", "markRelay", "markSend"}
OpenPCs == {"riseUp", "riseRelay", "riseSend", "setup", "read", "handle", "close"}
PCs == {"boot", "reset", "connect"} \union ReturnPCs \union MarkPCs \union OpenPCs

\* The session's clock runs from session_start to the end of run_session.
SessionRunning == pc \in OpenPCs \union {"connect"} \/ (pc \in MarkPCs /\ after = "okArm")

UpTo(bound, n) == IF n < bound THEN n + 1 ELSE bound

-----------------------------------------------------------------------------
(* Writes to Redis.  A clear that is not applied is counted: an eye that    *)
(* reads a stale "1" is explained by the clears that were lost.             *)

ApplyUp(value) == titanUp' = value /\ lostUp' = 0
ApplyPairs(value) == pairsLive' = value /\ lostPairs' = 0
LoseUpClear == lostUp' = UpTo(LostCap, lostUp) /\ UNCHANGED titanUp
LosePairsClear == lostPairs' = UpTo(LostCap, lostPairs) /\ UNCHANGED pairsLive

\* Mutant: the handshake counts as a quote.
RaiseTitanUp_WithPairs ==
    IF redisConn THEN ApplyUp(TRUE) /\ ApplyPairs(TRUE) ELSE UNCHANGED redis

\* set_titan_upstream_up(true): one SET.
RaiseTitanUp ==
    IF redisConn THEN (ApplyUp(TRUE) \/ UNCHANGED <<titanUp, lostUp>>) /\ UNCHANGED <<pairsLive, lostPairs>>
    ELSE UNCHANGED redis

\* set_titan_upstream_up(false): two SETs, one after the other; the second
\* is tried whatever became of the first.
ClearTitanUp ==
    IF redisConn THEN (ApplyUp(FALSE) \/ LoseUpClear) /\ UNCHANGED <<pairsLive, lostPairs>>
    ELSE UNCHANGED redis

ClearPairsLive ==
    IF redisConn THEN (ApplyPairs(FALSE) \/ LosePairsClear) /\ UNCHANGED <<titanUp, lostUp>>
    ELSE UNCHANGED redis

\* reset_titan_state_at_boot: a pipe that is not a transaction.  It reaches
\* pairs_live before titan_up and may be cut short before either.
ResetPipe ==
    IF redisConn
    THEN \/ ApplyPairs(FALSE) /\ ApplyUp(FALSE)
         \/ ApplyPairs(FALSE) /\ LoseUpClear
         \/ LosePairsClear /\ LoseUpClear
    ELSE UNCHANGED redis

\* record_titan_quote_success: a pipe that ends with pairs_live and titan_up.
QuotePipe ==
    IF redisConn
    THEN \/ ApplyPairs(TRUE) /\ ApplyUp(TRUE)
         \/ ApplyPairs(TRUE) /\ UNCHANGED <<titanUp, lostUp>>
         \/ UNCHANGED redis
    ELSE UNCHANGED redis

-----------------------------------------------------------------------------
(* mark_titan_disconnected: called at the top of the loop, in both arms of  *)
(* the match on run_session, and inside run_session.                        *)

CallMark(ret) == connected' = FALSE /\ pc' = "markUp" /\ after' = ret

MarkUp ==
    /\ pc = "markUp" /\ pc' = "markPairs"
    /\ ClearTitanUp
    /\ UNCHANGED <<after, connected, relay, redisConn, delays, session>>

MarkPairs ==
    /\ pc = "markPairs" /\ pc' = "markRelay"
    /\ ClearPairsLive
    /\ UNCHANGED <<after, connected, relay, redisConn, delays, session>>

\* Mutant: only the event is sent, the flag keeps its value.
MarkRelay_NoStore ==
    /\ pc = "markRelay" /\ pc' = "markSend"
    /\ UNCHANGED <<after, connected, relay, redisConn, redis, delays, session>>

\* set_upstream_connected(false) stores the flag, then sends the event.
MarkRelay ==
    /\ pc = "markRelay" /\ pc' = "markSend"
    /\ relayUp' = FALSE
    /\ UNCHANGED <<after, connected, signal, beat, redisConn, redis, delays, session>>

\* Mutant: only the flag is stored, no event is sent.
MarkSend_NoEvent ==
    /\ pc = "markSend" /\ pc' = after
    /\ UNCHANGED <<after, connected, relay, redisConn, redis, delays, session>>

MarkSend ==
    /\ pc = "markSend" /\ pc' = after
    /\ signal' = "down"
    /\ UNCHANGED <<after, connected, relayUp, beat, redisConn, redis, delays, session>>

-----------------------------------------------------------------------------
(* The process: boot, the reset before the loop is spawned, and its death.  *)

Boot ==
    /\ pc = "boot" /\ pc' = "reset"
    /\ redisConn' \in BOOLEAN
    /\ UNCHANGED <<after, connected, relay, redis, delays, session>>

\* The loop begins with its first mark.
ResetAtBoot ==
    /\ pc = "reset"
    /\ ResetPipe
    /\ CallMark("session")
    /\ UNCHANGED <<relay, redisConn, delays, session>>

Crash ==
    /\ pc # "boot" /\ pc' = "boot"
    /\ after' = "session"
    /\ connected' = FALSE
    /\ relayUp' = FALSE /\ signal' = "down" /\ beat' = 0
    /\ redisConn' = FALSE
    /\ current' = Initial /\ streak' = 0
    /\ received' = FALSE /\ elapsed' = 0 /\ quoted' = FALSE
    /\ UNCHANGED redis

-----------------------------------------------------------------------------
(* run_session *)

\* session_start is taken before connect_async.
StartSession ==
    /\ pc = "session" /\ pc' = "connect"
    /\ received' = FALSE /\ elapsed' = 0 /\ quoted' = FALSE
    /\ UNCHANGED <<after, connected, relay, redisConn, redis, delays>>

ConnectFails ==
    /\ pc = "connect" /\ pc' = "errArm"
    /\ UNCHANGED <<after, connected, relay, redisConn, redis, delays, session>>

ConnectSucceeds ==
    /\ pc = "connect" /\ pc' = "riseUp"
    /\ connected' = TRUE
    /\ UNCHANGED <<after, relay, redisConn, redis, delays, session>>

RiseUp ==
    /\ pc = "riseUp" /\ pc' = "riseRelay"
    /\ RaiseTitanUp
    /\ UNCHANGED <<after, connected, relay, redisConn, delays, session>>

\* Mutant: the flag is raised without an event.
RiseRelay_NoEvent ==
    /\ pc = "riseRelay" /\ pc' = "setup"
    /\ relayUp' = TRUE
    /\ UNCHANGED <<after, connected, signal, beat, redisConn, redis, delays, session>>

RiseRelay ==
    /\ pc = "riseRelay" /\ pc' = "riseSend"
    /\ relayUp' = TRUE
    /\ UNCHANGED <<after, connected, signal, beat, redisConn, redis, delays, session>>

RiseSend ==
    /\ pc = "riseSend" /\ pc' = "setup"
    /\ signal' = "up"
    /\ UNCHANGED <<after, connected, relayUp, beat, redisConn, redis, delays, session>>

\* GetInfo and the hunt subscriptions; a failed send leaves run_session
\* through `?', past the mark at its end.
SetupSucceeds ==
    /\ pc = "setup" /\ pc' = "read"
    /\ UNCHANGED <<after, connected, relay, redisConn, redis, delays, session>>

SetupFails ==
    /\ pc = "setup" /\ pc' = "errArm"
    /\ UNCHANGED <<after, connected, relay, redisConn, redis, delays, session>>

ReadFrame ==
    /\ pc = "read" /\ pc' = "handle"
    /\ received' = TRUE
    /\ beat' = 1 - beat
    /\ UNCHANGED <<after, connected, relayUp, signal, redisConn, redis, delays, elapsed, quoted>>

HandleQuote ==
    /\ pc = "handle" /\ pc' = "read"
    /\ QuotePipe
    /\ quoted' = TRUE
    /\ UNCHANGED <<after, connected, relay, redisConn, delays, received, elapsed>>

\* Anything but a quote moves neither key.
HandleOther ==
    /\ pc = "handle" /\ pc' = "read"
    /\ UNCHANGED <<after, connected, relay, redisConn, redis, delays, session>>

\* A Close frame, the end of the stream, or an error that classifies as a
\* clean or abrupt close (of the read, or of the Pong to a Ping).
ReadCloses ==
    /\ pc = "read" /\ pc' = "close"
    /\ UNCHANGED <<after, connected, relay, redisConn, redis, delays, session>>

\* An error that classifies as TransportError: mark, then Err.
ReadErrors ==
    /\ pc = "read"
    /\ CallMark("errArm")
    /\ UNCHANGED <<relay, redisConn, redis, delays, session>>

\* close_ws_write, then the mark at the end of run_session.
CloseWrite ==
    /\ pc = "close"
    /\ CallMark("okArm")
    /\ UNCHANGED <<relay, redisConn, redis, delays, session>>

-----------------------------------------------------------------------------
(* The arms of run_live_loop *)

OkArm ==
    /\ pc = "okArm"
    /\ current' = IF ShouldReset(received, elapsed) THEN Initial ELSE current
    /\ streak' = IF received \/ elapsed >= HealthyAfter THEN 0 ELSE streak
    /\ CallMark("wait")
    /\ UNCHANGED <<relay, redisConn, redis, session>>

\* Mutant: an error ends the loop.
ErrArm_Breaks ==
    /\ pc = "errArm"
    /\ UNCHANGED vars

\* Mutant: an error after data resets the delay too.
ErrArm_Resets ==
    /\ pc = "errArm"
    /\ current' = IF received THEN Initial ELSE current
    /\ CallMark("wait")
    /\ UNCHANGED <<relay, redisConn, redis, streak, session>>

ErrArm ==
    /\ pc = "errArm"
    /\ CallMark("wait")
    /\ UNCHANGED <<relay, redisConn, redis, delays, session>>

\* Mutant: no mark at the top of the loop.
Wait_NoMark ==
    /\ pc = "wait" /\ pc' = "session"
    /\ current' = AfterWait(current)
    /\ streak' = UpTo(StreakCap, streak)
    /\ UNCHANGED <<after, connected, relay, redisConn, redis, session>>

\* backoff.wait(), and the mark at the top of the next turn.
Wait ==
    /\ pc = "wait"
    /\ current' = AfterWait(current)
    /\ streak' = UpTo(StreakCap, streak)
    /\ CallMark("session")
    /\ UNCHANGED <<relay, redisConn, redis, session>>

Tick ==
    /\ SessionRunning
    /\ elapsed < HealthyAfter
    /\ elapsed' = elapsed + 1
    /\ UNCHANGED <<pc, after, connected, relay, redisConn, redis, delays, received, quoted>>

-----------------------------------------------------------------------------
Mark == MarkUp \/ MarkPairs \/ MarkRelay \/ MarkSend

\* Steps the peer has no part in; the loop or the service manager owes them.
LoopStep ==
    \/ Boot \/ ResetAtBoot \/ Mark
    \/ StartSession \/ RiseUp \/ RiseRelay \/ RiseSend
    \/ HandleQuote \/ HandleOther \/ CloseWrite
    \/ OkArm \/ ErrArm \/ Wait

\* Steps that wait for the peer; no timeout bounds any of them.
PeerStep ==
    \/ ConnectFails \/ ConnectSucceeds \/ SetupSucceeds \/ SetupFails
    \/ ReadFrame \/ ReadCloses \/ ReadErrors

\* Redis keeps what any earlier process left in it.
Init ==
    /\ pc = "boot" /\ after = "session"
    /\ connected = FALSE
    /\ relayUp = FALSE /\ signal = "down" /\ beat = 0
    /\ redisConn = FALSE
    /\ titanUp \in BOOLEAN /\ pairsLive \in BOOLEAN /\ lostUp = 0 /\ lostPairs = 0
    /\ current = Initial /\ streak = 0
    /\ received = FALSE /\ elapsed = 0 /\ quoted = FALSE

Next == LoopStep \/ PeerStep \/ Crash \/ Tick
Spec == Init /\ [][Next]_vars
FairSpec == Spec /\ WF_vars(LoopStep)

-----------------------------------------------------------------------------
ControlType ==
    /\ pc \in PCs /\ after \in ReturnPCs
    /\ connected \in BOOLEAN /\ redisConn \in BOOLEAN
    /\ relayUp \in BOOLEAN /\ signal \in {"up", "down"}
    /\ titanUp \in BOOLEAN /\ pairsLive \in BOOLEAN
    /\ received \in BOOLEAN /\ quoted \in BOOLEAN

CounterType ==
    /\ beat \in {0, 1}
    /\ lostUp \in 0..LostCap /\ lostPairs \in 0..LostCap
    /\ current \in Initial..Cap /\ streak \in 0..StreakCap
    /\ elapsed \in 0..HealthyAfter

TypeOK == ControlType /\ CounterType

\* While no session is open the loop has told everyone so: nothing in the
\* process still says "up" when it dials or sleeps, and a Redis key that does
\* has outlived every clear since the session ended - one while the loop
\* sleeps, two by the time it dials again (mark_titan_disconnected is called
\* in each arm and again at the top of the loop).
StaleNeedsLostClears ==
    LET Stale(n) == /\ ~connected /\ ~relayUp /\ signal = "down"
                    /\ redisConn /\ titanUp => lostUp >= n
                    /\ redisConn /\ pairsLive => lostPairs >= n
    IN  /\ pc = "wait" => Stale(1)
        /\ pc = "connect" => Stale(2)

\* pairs_live is set only after a real quote, never on the handshake: in an
\* open session that has recorded none, a "1" is left over from before it and
\* two clears were lost.
PairsNeedQuote ==
    (pc \in OpenPCs /\ redisConn /\ pairsLive /\ ~quoted) => lostPairs >= 2

\* The flag GET /health reads and the flag local clients read disagree only
\* while the loop is between the two stores of one rise or one mark.
HealthMatchesRelay ==
    connected # relayUp =>
        pc \in {"riseUp", "riseRelay"} \union {"markUp", "markPairs", "markRelay"}

\* The delay of an attempt is the initial one doubled once per wait since the last
\* session that brought data or stayed up long enough and that ended without an
\* error, up to the largest delay: an error never resets it, whatever came before.
BackoffTracksStreak == current = Delay(streak)

\* What a client of the relay can rely on (FeedSignal): a stored flag is always
\* announced before the next store, and frames flow only under an announced "up".
Feed == INSTANCE FeedSignal WITH flag <- relayUp, last <- signal, beat <- beat
ImplementsFeedSignal == Feed!FSpec

\* Whatever fails, the loop gets back to waiting for the peer (or the process
\* is down): it never gets stuck in its own bookkeeping, and it never stops.
NeverGivesUp == []<>(pc \in {"boot", "connect", "setup", "read"})

\* A session that has ended, however it ended, is announced to local clients
\* and to GET /health.
EndIsAnnounced == (pc \in {"close", "errArm"}) ~> (signal = "down" /\ ~relayUp /\ ~connected)

-----------------------------------------------------------------------------
(* The strengthening that makes the safety properties inductive             *)
(* (TitanUpstream_proofs): where each copy of the connectivity may say      *)
(* "up", and how many clears have been tried so far at each place.          *)

ConnectedHere == OpenPCs \union {"errArm"}
RelayUpHere == (OpenPCs \ {"riseUp", "riseRelay"}) \union {"errArm", "markUp", "markPairs", "markRelay"}

CopiesFollowLoop ==
    /\ connected => pc \in ConnectedHere
    /\ pc \in OpenPCs => connected
    /\ relayUp => pc \in RelayUpHere
    /\ pc \in OpenPCs \ {"riseUp", "riseRelay"} => relayUp
    /\ pc = "errArm" => connected = relayUp
    /\ pc \notin {"riseSend", "markSend"} => (signal = "up") = relayUp
    /\ pc = "riseSend" => signal = "down"

\* Clears of titan_up (of pairs_live) that every path to this place has tried
\* since a session could last have set it.
PriorMarks == IF after = "session" THEN 1 ELSE 0
UpClears ==
    CASE pc \in {"session", "connect"} -> 2
      [] pc = "markUp" -> PriorMarks
      [] pc \in {"markPairs", "markRelay", "markSend"} -> PriorMarks + 1
      [] pc = "wait" -> 1
      [] OTHER -> 0
PairsClears ==
    CASE pc \in {"session", "connect"} -> 2
      [] pc \in OpenPCs /\ ~quoted -> 2
      [] pc \in {"markUp", "markPairs"} -> PriorMarks
      [] pc \in {"markRelay", "markSend"} -> PriorMarks + 1
      [] pc = "wait" -> 1
      [] OTHER -> 0

ClearsCounted ==
    /\ redisConn /\ titanUp => lostUp >= UpClears
    /\ redisConn /\ pairsLive => lostPairs >= PairsClears

IInv == TypeOK /\ CopiesFollowLoop /\ ClearsCounted

-----------------------------------------------------------------------------
(* The safety half of NeverGivesUp (TitanUpstream_proofs): a measure of the *)
(* loop's own steps.                                                        *)

\* Own steps still to make at a place mark_titan_disconnected returns to.
FromReturn(ret) == CASE ret = "session" -> 1 [] ret = "wait" -> 6 [] OTHER -> 11

\* Own steps, at most, before the loop waits for the peer again.
StepsLeft ==
    CASE pc \in {"connect", "setup", "read"} -> 0
      [] pc \in {"riseSend", "handle"} -> 1
      [] pc = "riseRelay" -> 2
      [] pc = "riseUp" -> 3
      [] pc \in ReturnPCs -> FromReturn(pc)
      [] pc = "markSend" -> FromReturn(after) + 1
      [] pc = "markRelay" -> FromReturn(after) + 2
      [] pc = "markPairs" -> FromReturn(after) + 3
      [] pc = "markUp" -> FromReturn(after) + 4
      [] pc = "close" -> 16
      [] pc = "reset" -> 6
      [] pc = "boot" -> 7

\* Every own step of the loop brings it nearer to the peer, and time alone does
\* not take it back: after any loss the bookkeeping is over within 16 steps.
OwnStepsRunOut ==
    [][/\ StepsLeft \in 0..16
       /\ LoopStep => StepsLeft' < StepsLeft
       /\ Tick => StepsLeft' = StepsLeft]_vars

=============================================================================
