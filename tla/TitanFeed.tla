---------------------------- MODULE TitanFeed ----------------------------
(***************************************************************************)
(* The Titan live loop (TitanUpstream) together with the local relay it    *)
(* feeds and the relay's clients (TitanLocalRelay), as run() of            *)
(* src/src/lib.rs wires them: one TitanLocalRelay, cloned into the server  *)
(* and into the loop.  The loop's stores and sends are the relay's: a send *)
(* reaches every receiver in the same step, a client moves at any time, and*)
(* neither waits for the other.                                            *)
(***************************************************************************)
EXTENDS TitanUpstream

CONSTANTS Clients, Capacity    \* of the relay

VARIABLES phase, pending, behind, writing, told, trust    \* of the relay's clients

Relay == INSTANCE TitanLocalRelay WITH flag <- relayUp, last <- signal

clients == <<phase, pending, behind, writing, told, trust>>
loopOnly == <<pc, after, connected, redisConn, redis, delays, session>>
feedVars == <<vars, clients>>

\* tx.send in set_upstream_connected and in publish_frame.
SendsStatus == (RiseSend \/ MarkSend) /\ Relay!Broadcast(signal')
SendsFrame == ReadFrame /\ Relay!Broadcast("frame")

\* Whatever else the loop does, the stores of the flag included, no client is told.
SendsNothing ==
    /\ \/ Tick
       \/ (LoopStep \/ PeerStep) /\ pc \notin {"riseSend", "markSend"} /\ ~ReadFrame
    /\ UNCHANGED clients

Dies == Crash /\ Relay!Die

\* spawn_server comes after the connection to Redis and before the boot reset.
ClientStep(c) ==
    /\ \/ pc # "boot" /\ Relay!Subscribe(c)
       \/ Relay!Serve(c) \/ Relay!Leave(c)
    /\ UNCHANGED loopOnly

TitanInit == Init /\ Relay!Init

TitanNext ==
    \/ SendsStatus \/ SendsFrame \/ SendsNothing \/ Dies
    \/ \E c \in Clients : ClientStep(c)

TitanSpec == TitanInit /\ [][TitanNext]_feedVars

-----------------------------------------------------------------------------
\* set_upstream_connected and its surroundings: from the store of `connected'
\* to the event of the relay.
Changing == {"riseUp", "riseRelay", "riseSend"} \union MarkPCs

\* GET /health and the local clients agree: but for the few steps of one rise or
\* mark, a client with nothing left to read was last told what GET /health says
\* (one that lagged, when that is "down").
HealthMatchesClients ==
    pc \notin Changing =>
        \A c \in Clients :
            (Relay!Drained(c) /\ (connected => trust[c] # "lost"))
                => told[c] = Relay!StatusOf(connected)
=============================================================================
