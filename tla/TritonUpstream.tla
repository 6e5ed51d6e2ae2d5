------------------------- MODULE TritonUpstream -------------------------
(***************************************************************************)
(* The Triton gRPC live loop: run_live_loop, run_session and               *)
(* mark_triton_disconnected of src/src/upstream/triton.rs.  It has the     *)
(* skeleton of the Titan loop - three copies of the connectivity, written  *)
(* one after the other - and an end the other has not: an error whose text *)
(* reads like an authentication failure halts it until the process         *)
(* restarts.                                                               *)
(*                                                                         *)
(* An error is known by what its text makes of it.  A denied one matches   *)
(* classify_grpc_stream_error.  A torn one is longer than 200 bytes, with  *)
(* a character across the cut that grpc_error_summary makes, and holds no  *)
(* 401 or 403 for which that function has a text of its own.  A text can   *)
(* be both: "permissiondenied", "unauthenticated" and "access denied"      *)
(* match the first and have no text in the second.                         *)
(***************************************************************************)
EXTENDS Backoff

CONSTANTS
    LostCap      \* lost clears are counted up to this bound

ASSUME LostCapAssumption == LostCap \in Nat /\ LostCap >= 2

VARIABLES
    pc,          \* where the loop is
    after,       \* where mark_triton_disconnected returns to
    connected,   \* TritonGrpcUpstream.connected
    authBlocked, \* TritonGrpcUpstream.auth_blocked
    relayUp,     \* TritonLocalRelay.upstream_connected
    signal,      \* the last status event sent to the relay's channel
    beat,        \* flips with every update published to the relay
    redisConn,   \* RedisFanout.conn is Some: decided once, at boot
    tritonUp,    \* mux:meta:triton_up = "1"
    current,     \* ReconnectBackoff.current
    received,    \* run_session's received_data
    failure,     \* what the text of the session's error is
    \* history, never read by the loop:
    lostUp       \* consecutive clears of triton_up that were lost

relay == <<relayUp, signal, beat>>
redis == <<tritonUp, lostUp>>
session == <<received, failure>>
vars == <<pc, after, connected, authBlocked, relay, redisConn, redis, current, session>>

Failures == {"plain", "torn", "denied", "deniedTorn"}
Denied == {"denied", "deniedTorn"}
Torn == {"torn", "deniedTorn"}
ReturnPCs == {"session", "okArm", "classify", "wait"}
MarkPCs == {"markUp", "markRelay", "markSend"}
OpenPCs == {"riseUp", "riseRelay", "riseSend", "read", "handle", "pong"}
Ended == {"halted", "panicked"}
PCs == {"boot", "reset", "connect", "errArm"} \union ReturnPCs \union MarkPCs \union OpenPCs \union Ended

UpTo(bound, n) == IF n < bound THEN n + 1 ELSE bound

-----------------------------------------------------------------------------
(* Writes to Redis                                                          *)

ApplyUp(value) == tritonUp' = value /\ lostUp' = 0
LoseClear == lostUp' = UpTo(LostCap, lostUp) /\ UNCHANGED tritonUp

\* set_triton_upstream_up(true), and the end of record_triton_frame's pipe.
RaiseTritonUp == (redisConn /\ ApplyUp(TRUE)) \/ UNCHANGED redis

\* set_triton_upstream_up(false), and the head of the pipe of the boot reset.
ClearTritonUp ==
    IF redisConn THEN ApplyUp(FALSE) \/ LoseClear ELSE UNCHANGED redis

-----------------------------------------------------------------------------
(* mark_triton_disconnected *)

CallMark(ret) == connected' = FALSE /\ pc' = "markUp" /\ after' = ret

MarkUp ==
    /\ pc = "markUp" /\ pc' = "markRelay"
    /\ ClearTritonUp
    /\ UNCHANGED <<after, connected, authBlocked, relay, redisConn, current, session>>

MarkRelay ==
    /\ pc = "markRelay" /\ pc' = "markSend"
    /\ relayUp' = FALSE
    /\ UNCHANGED <<after, connected, authBlocked, signal, beat, redisConn, redis, current, session>>

\* Mutant: only the flag is stored, no event is sent.
MarkSend_NoEvent ==
    /\ pc = "markSend" /\ pc' = after
    /\ UNCHANGED <<after, connected, authBlocked, relay, redisConn, redis, current, session>>

MarkSend ==
    /\ pc = "markSend" /\ pc' = after
    /\ signal' = "down"
    /\ UNCHANGED <<after, connected, authBlocked, relayUp, beat, redisConn, redis, current, session>>

-----------------------------------------------------------------------------
(* The process *)

Boot ==
    /\ pc = "boot" /\ pc' = "reset"
    /\ redisConn' \in BOOLEAN
    /\ UNCHANGED <<after, connected, authBlocked, relay, redis, current, session>>

\* reset_titan_state_at_boot also clears triton_up; the loop begins with a mark.
ResetAtBoot ==
    /\ pc = "reset"
    /\ ClearTritonUp
    /\ CallMark("session")
    /\ UNCHANGED <<authBlocked, relay, redisConn, current, session>>

Crash ==
    /\ pc # "boot" /\ pc' = "boot"
    /\ after' = "session"
    /\ connected' = FALSE /\ authBlocked' = FALSE
    /\ relayUp' = FALSE /\ signal' = "down" /\ beat' = 0
    /\ redisConn' = FALSE
    /\ current' = Initial
    /\ received' = FALSE /\ failure' = "none"
    /\ UNCHANGED redis

-----------------------------------------------------------------------------
(* run_session *)

StartSession ==
    /\ pc = "session" /\ pc' = "connect"
    /\ received' = FALSE /\ failure' = "none"
    /\ UNCHANGED <<after, connected, authBlocked, relay, redisConn, redis, current>>

\* No token, a bad endpoint, a failed connect or a failed subscribe.
ConnectFails ==
    /\ pc = "connect" /\ pc' = "errArm"
    /\ failure' \in Failures
    /\ UNCHANGED <<after, connected, authBlocked, relay, redisConn, redis, current, received>>

ConnectSucceeds ==
    /\ pc = "connect" /\ pc' = "riseUp"
    /\ connected' = TRUE
    /\ UNCHANGED <<after, authBlocked, relay, redisConn, redis, current, session>>

RiseUp ==
    /\ pc = "riseUp" /\ pc' = "riseRelay"
    /\ RaiseTritonUp
    /\ UNCHANGED <<after, connected, authBlocked, relay, redisConn, current, session>>

\* Mutant: the flag is raised without an event.
RiseRelay_NoEvent ==
    /\ pc = "riseRelay" /\ pc' = "read"
    /\ relayUp' = TRUE
    /\ UNCHANGED <<after, connected, authBlocked, signal, beat, redisConn, redis, current, session>>

RiseRelay ==
    /\ pc = "riseRelay" /\ pc' = "riseSend"
    /\ relayUp' = TRUE
    /\ UNCHANGED <<after, connected, authBlocked, signal, beat, redisConn, redis, current, session>>

RiseSend ==
    /\ pc = "riseSend" /\ pc' = "read"
    /\ signal' = "up"
    /\ UNCHANGED <<after, connected, authBlocked, relayUp, beat, redisConn, redis, current, session>>

\* publish_update
ReadUpdate ==
    /\ pc = "read" /\ pc' = "handle"
    /\ received' = TRUE
    /\ beat' = 1 - beat
    /\ UNCHANGED <<after, connected, authBlocked, relayUp, signal, redisConn, redis, current, failure>>

\* handle_triton_update: the pipe of record_triton_frame, then a publish that
\* touches no key.  A Ping is answered if there is a token.
HandleUpdate ==
    /\ pc = "handle" /\ pc' \in {"read", "pong"}
    /\ RaiseTritonUp
    /\ UNCHANGED <<after, connected, authBlocked, relay, redisConn, current, session>>

PingSent ==
    /\ pc = "pong" /\ pc' = "read"
    /\ UNCHANGED <<after, connected, authBlocked, relay, redisConn, redis, current, session>>

\* The Ping or the stream fails: `return Err', past the mark at the end.
StreamErrors ==
    /\ pc \in {"read", "pong"} /\ pc' = "errArm"
    /\ failure' \in Failures
    /\ UNCHANGED <<after, connected, authBlocked, relay, redisConn, redis, current, received>>

\* The stream ends: the mark at the end of run_session.
StreamEnds ==
    /\ pc = "read"
    /\ CallMark("okArm")
    /\ UNCHANGED <<authBlocked, relay, redisConn, redis, current, session>>

-----------------------------------------------------------------------------
(* The arms of run_live_loop *)

OkArm ==
    /\ pc = "okArm"
    /\ current' = IF received THEN Initial ELSE current
    /\ CallMark("wait")
    /\ UNCHANGED <<authBlocked, relay, redisConn, redis, session>>

\* Mutant: the error is classified before anyone is told.
ErrArm_NoMark ==
    /\ pc = "errArm" /\ pc' = "classify"
    /\ UNCHANGED <<after, connected, authBlocked, relay, redisConn, redis, current, session>>

ErrArm ==
    /\ pc = "errArm"
    /\ CallMark("classify")
    /\ UNCHANGED <<authBlocked, relay, redisConn, redis, current, session>>

\* AuthDenied: the flag is stored, a line is logged, `break'.  A torn text gets
\* this far only where RUST_LOG drops errors: the line is then not written.
Halt ==
    /\ pc = "classify" /\ failure \in Denied /\ pc' = "halted"
    /\ authBlocked' = TRUE
    /\ UNCHANGED <<after, connected, relay, redisConn, redis, current, session>>

Retry ==
    /\ pc = "classify" /\ failure = "plain" /\ pc' = "wait"
    /\ UNCHANGED <<after, connected, authBlocked, relay, redisConn, redis, current, session>>

\* Mutant: the log line comes before the flag is stored.
SummaryPanics_BeforeStore ==
    /\ pc = "classify" /\ failure \in Torn /\ pc' = "panicked"
    /\ UNCHANGED <<after, connected, authBlocked, relay, redisConn, redis, current, session>>

\* &err[..200] across a character: the task panics while it writes its log
\* line, in the arm of a denial after the flag is stored.
SummaryPanics ==
    /\ pc = "classify" /\ failure \in Torn /\ pc' = "panicked"
    /\ authBlocked' = (authBlocked \/ failure \in Denied)
    /\ UNCHANGED <<after, connected, relay, redisConn, redis, current, session>>

\* backoff.wait(), and the mark at the top of the next turn.
Wait ==
    /\ pc = "wait"
    /\ current' = AfterWait(current)
    /\ CallMark("session")
    /\ UNCHANGED <<authBlocked, relay, redisConn, redis, session>>

-----------------------------------------------------------------------------
Mark == MarkUp \/ MarkRelay \/ MarkSend

\* Steps the peer has no part in; the loop or the service manager owes them.
LoopStep ==
    \/ Boot \/ ResetAtBoot \/ Mark
    \/ StartSession \/ RiseUp \/ RiseRelay \/ RiseSend \/ HandleUpdate
    \/ OkArm \/ ErrArm \/ Halt \/ Retry \/ SummaryPanics \/ Wait

\* Steps that wait for the peer; no timeout bounds any of them.
PeerStep ==
    \/ ConnectFails \/ ConnectSucceeds
    \/ ReadUpdate \/ PingSent \/ StreamErrors \/ StreamEnds

Init ==
    /\ pc = "boot" /\ after = "session"
    /\ connected = FALSE /\ authBlocked = FALSE
    /\ relayUp = FALSE /\ signal = "down" /\ beat = 0
    /\ redisConn = FALSE
    /\ tritonUp \in BOOLEAN /\ lostUp = 0
    /\ current = Initial
    /\ received = FALSE /\ failure = "none"

Next == LoopStep \/ PeerStep \/ Crash
Spec == Init /\ [][Next]_vars
FairSpec == Spec /\ WF_vars(LoopStep)

-----------------------------------------------------------------------------
ControlType ==
    /\ pc \in PCs /\ after \in ReturnPCs
    /\ connected \in BOOLEAN /\ authBlocked \in BOOLEAN /\ redisConn \in BOOLEAN
    /\ relayUp \in BOOLEAN /\ signal \in {"up", "down"}
    /\ tritonUp \in BOOLEAN /\ received \in BOOLEAN
    /\ failure \in Failures \union {"none"}

CounterType ==
    /\ beat \in {0, 1}
    /\ lostUp \in 0..LostCap
    /\ current \in Initial..Cap

TypeOK == ControlType /\ CounterType

\* TritonGrpcUpstream::status, in live mode: what GET /health shows.
Health ==
    IF authBlocked THEN "error/auth-denied"
    ELSE IF connected THEN "live/grpc" ELSE "live/connecting"

\* When the loop sleeps, dials or has ended, nothing in the process says "up"
\* any more, and a Redis key that does has outlived every clear since the
\* session: one, and two by the time the loop dials again.
StaleNeedsLostClears ==
    LET Stale(n) == /\ ~connected /\ ~relayUp /\ signal = "down"
                    /\ redisConn /\ tritonUp => lostUp >= n
    IN  /\ pc \in {"wait"} \union Ended => Stale(1)
        /\ pc = "connect" => Stale(2)

\* "do not reconnect until process restart" (src/src/ws_reconnect.rs:146): from a
\* denied error on, through the mark of the Err arm, nothing is dialled until the
\* process dies; and GET /health reports a denial exactly when one has ended the
\* loop, by its `break' or by the panic of the log line before it.
DenialIsFinal ==
    [][pc' # "boot" =>
         /\ failure \in Denied => failure' = failure /\ pc' # "connect"
         /\ Health' = "error/auth-denied" <=> pc' \in Ended /\ failure' \in Denied]_vars

\* The promise to the relay.
Feed == INSTANCE FeedSignal WITH flag <- relayUp, last <- signal, beat <- beat
ImplementsFeedSignal == Feed!FSpec

\* A session that has ended - its stream over, which goes to the mark by itself,
\* or with an error, past it - is announced to local clients and to GET
\* /health, also when its error ends the loop.
EndIsAnnounced == (pc \in {"errArm", "markUp"}) ~> (signal = "down" /\ ~relayUp /\ ~connected)

-----------------------------------------------------------------------------
(* The strengthening that makes the safety properties inductive             *)
(* (TritonUpstream_proofs).                                                 *)

ConnectedHere == OpenPCs \union {"errArm"}
RelayUpHere == (OpenPCs \ {"riseUp", "riseRelay"}) \union {"errArm", "markUp", "markRelay"}

CopiesFollowLoop ==
    /\ connected => pc \in ConnectedHere
    /\ pc \in OpenPCs => connected
    /\ relayUp => pc \in RelayUpHere
    /\ pc \in OpenPCs \ {"riseUp", "riseRelay"} => relayUp
    /\ pc = "errArm" => connected = relayUp
    /\ pc \notin {"riseSend", "markSend"} => (signal = "up") = relayUp
    /\ pc = "riseSend" => signal = "down"

\* A denied error is on its way to the end of the loop, and noted there.
DenialStands ==
    /\ failure \in Denied => \/ pc \in {"errArm", "classify"} \union Ended
                             \/ pc \in MarkPCs /\ after = "classify"
    /\ authBlocked <=> pc \in Ended /\ failure \in Denied

\* Clears of triton_up that every path to the place p has tried since a session
\* could last have set it; ret is where the mark returns to.
PriorMarks(ret) == IF ret = "session" THEN 1 ELSE 0
UpClears(p, ret) ==
    CASE p \in {"session", "connect"} -> 2
      [] p = "markUp" -> PriorMarks(ret)
      [] p \in {"markRelay", "markSend"} -> PriorMarks(ret) + 1
      [] p \in {"okArm", "classify", "wait"} \union Ended -> 1
      [] OTHER -> 0

ClearsCounted == redisConn /\ tritonUp => lostUp >= UpClears(pc, after)

IInv == TypeOK /\ CopiesFollowLoop /\ DenialStands /\ ClearsCounted

-----------------------------------------------------------------------------
(* A measure of the loop's own steps (TritonUpstream_proofs).               *)

\* Own steps still to make at a place mark_triton_disconnected returns to.
FromReturn(ret) ==
    CASE ret = "session" -> 1 [] ret = "wait" -> 5 [] ret = "classify" -> 6 [] ret = "okArm" -> 9

\* Own steps, at most, before the loop waits for the peer again, or has ended.
StepsLeft ==
    CASE pc \in {"connect", "read", "pong"} \union Ended -> 0
      [] pc \in {"riseSend", "handle"} -> 1
      [] pc = "riseRelay" -> 2
      [] pc = "riseUp" -> 3
      [] pc \in ReturnPCs -> FromReturn(pc)
      [] pc = "markSend" -> FromReturn(after) + 1
      [] pc = "markRelay" -> FromReturn(after) + 2
      [] pc = "markUp" -> FromReturn(after) + 3
      [] pc = "errArm" -> 10
      [] pc = "reset" -> 5
      [] pc = "boot" -> 6

\* Every own step of the loop brings it nearer to the peer or to its end: after
\* any loss the bookkeeping is over within 12 steps.
OwnStepsRunOut ==
    [][/\ StepsLeft \in 0..12
       /\ LoopStep => StepsLeft' < StepsLeft]_vars

-----------------------------------------------------------------------------
\* "Transient network/protocol issue - backoff and retry"
\* (src/src/ws_reconnect.rs:144): only a denial ends the loop.
RetryableIsRetried == pc \in Ended => authBlocked
=============================================================================
