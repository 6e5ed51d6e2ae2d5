--------------------------- MODULE TritonFeed ---------------------------
(***************************************************************************)
(* The Triton live loop (TritonUpstream) together with the local relay it  *)
(* feeds and the relay's streams (TritonLocalRelay), as run() of           *)
(* src/src/lib.rs wires them.  The counterpart of TitanFeed.               *)
(***************************************************************************)
EXTENDS TritonUpstream

CONSTANTS Clients, Capacity    \* of the relay

VARIABLES
    phase, pending, behind,    \* of the relay's streams
    upstreamSession, seen, late, lost    \* the relay's history

Relay == INSTANCE TritonLocalRelay WITH flag <- relayUp, last <- signal, session <- upstreamSession

clients == <<phase, pending, behind, seen, late, lost>>
loopOnly == <<pc, after, connected, authBlocked, redisConn, redis, current, session>>
feedVars == <<vars, upstreamSession, clients>>

\* tx.send in set_upstream_connected and in publish_update.
SendsStatus == (RiseSend \/ MarkSend) /\ Relay!Broadcast(signal')
SendsUpdate == ReadUpdate /\ Relay!Broadcast("update")

\* The store of a "down" ends the upstream session, if there was one.
EndsSession ==
    /\ MarkRelay
    /\ upstreamSession' = IF relayUp THEN (upstreamSession + 1) % 3 ELSE upstreamSession
    /\ UNCHANGED clients

\* Whatever else the loop does, the store of an "up" included, no stream is told.
SendsNothing ==
    /\ LoopStep \/ PeerStep
    /\ pc \notin {"riseSend", "markRelay", "markSend"} /\ ~ReadUpdate
    /\ UNCHANGED <<upstreamSession, clients>>

Dies == Crash /\ Relay!Die

ClientStep(c) ==
    /\ Relay!CheckFlag(c) \/ Relay!Serve(c) \/ Relay!Leave(c)
    /\ UNCHANGED loopOnly

TritonInit == Init /\ Relay!Init

TritonNext ==
    \/ SendsStatus \/ SendsUpdate \/ EndsSession \/ SendsNothing \/ Dies
    \/ \E c \in Clients : ClientStep(c)

TritonSpec == TritonInit /\ [][TritonNext]_feedVars

-----------------------------------------------------------------------------
\* From the store of `connected' to the event of the relay.
Changing == {"riseUp", "riseRelay", "riseSend"} \union MarkPCs

\* GET /health and the local streams agree: while /health says that the upstream
\* is not connected - it is dialled, or a denial or a panic has ended the loop
\* for good - and the mark is over, a stream that is open with nothing to come
\* has missed the "down" that should have ended it.
StreamsMatchHealth ==
    (pc \notin Changing /\ Health # "live/grpc") =>
        \A c \in Clients : (Relay!Streaming(c) /\ pending[c] = <<>>) => late[c] \/ lost[c]
=============================================================================
