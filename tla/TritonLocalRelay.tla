------------------------ MODULE TritonLocalRelay ------------------------
(***************************************************************************)
(* The local gRPC relay of src/src/triton_local.rs: a broadcast channel    *)
(* fed by the Triton live loop (FeedSignal says what that loop promises)   *)
(* and one stream per call of subscribe.                                   *)
(*                                                                         *)
(* It differs from the Titan relay in its order and in its end.  subscribe *)
(* looks at the flag first and joins the channel afterwards, so what       *)
(* happens in between is lost on it; a status event is not forwarded: a    *)
(* "down" ends the stream; and events lost to lag are skipped without a    *)
(* word, the one that should have ended the stream included.               *)
(***************************************************************************)
EXTENDS FeedSignal, Sequences

CONSTANTS
    Clients,    \* callers of subscribe
    Capacity    \* BROADCAST_CAPACITY

ASSUME CapacityAssumption == Capacity \in Nat \ {0}

VARIABLES
    phase,      \* where the call of a client is
    pending,    \* events the channel holds for this stream's receiver
    behind,     \* an event was overwritten and Lagged is yet to be returned
    \* history:
    session,    \* the upstream session, modulo 3
    seen,       \* the sessions whose updates the stream was given
    late,       \* a "down" was sent between the look at the flag and the joining
    lost        \* a "down" for this stream was overwritten in the channel

clientVars == <<phase, pending, behind, seen, late, lost>>
vars == <<fvars, session, clientVars>>

Sessions == 0..2
Statuses == {"up", "down"}
Events == [kind : Statuses \union {"update"}, of : Sessions]
Phases == {"off", "checked", "streaming"}

Streaming(c) == phase[c] = "streaming"
Full(c) == Len(pending[c]) = Capacity

-----------------------------------------------------------------------------
(* The broadcast channel *)

\* Mutants: the channel is unbounded; a full one refuses the new event.
Push_Unbounded(q, e) == Append(q, e)
Push_DropNew(q, e) == IF Len(q) < Capacity THEN Append(q, e) ELSE q

\* A full ring overwrites the receiver's oldest event.
Push(q, e) == IF Len(q) < Capacity THEN Append(q, e) ELSE Append(Tail(q), e)

\* tx.send: a call that has looked at the flag and is not yet subscribed is not
\* among the receivers.
Broadcast(kind) ==
    /\ pending' = [c \in Clients |->
                     IF Streaming(c) THEN Push(pending[c], [kind |-> kind, of |-> session]) ELSE pending[c]]
    /\ behind' = [c \in Clients |-> behind[c] \/ (Streaming(c) /\ Full(c))]
    /\ late' = [c \in Clients |-> late[c] \/ (phase[c] = "checked" /\ kind = "down")]
    /\ lost' = [c \in Clients |->
                  lost[c] \/ (Streaming(c) /\ Full(c) /\ Head(pending[c]).kind = "down")]
    /\ UNCHANGED <<phase, seen, session>>

\* set_upstream_connected and publish_update, as the live loop calls them.
StoreUp == Raise /\ UNCHANGED <<session, clientVars>>
StoreDown ==
    /\ Lower
    /\ session' = IF flag THEN (session + 1) % 3 ELSE session
    /\ UNCHANGED clientVars

\* Mutant: only the "up" is sent.
PublishStatus_OnlyUp ==
    SendStatus /\ IF last' = "up" THEN Broadcast(last') ELSE UNCHANGED <<session, clientVars>>
PublishStatus == SendStatus /\ Broadcast(last')
PublishUpdate == SendFrame /\ Broadcast("update")

-----------------------------------------------------------------------------
(* subscribe, and the stream it returns *)

Closed(c) ==
    /\ phase' = [phase EXCEPT ![c] = "off"]
    /\ pending' = [pending EXCEPT ![c] = <<>>]
    /\ behind' = [behind EXCEPT ![c] = FALSE]
    /\ seen' = [seen EXCEPT ![c] = {}]
    /\ late' = [late EXCEPT ![c] = FALSE]
    /\ lost' = [lost EXCEPT ![c] = FALSE]

\* relay.upstream_connected(); with the flag down the call is refused.
CheckFlag(c) ==
    /\ phase[c] = "off" /\ flag
    /\ phase' = [phase EXCEPT ![c] = "checked"]
    /\ UNCHANGED <<pending, behind, seen, late, lost, session, fvars>>

\* relay.tx.subscribe()
Join(c) ==
    /\ phase[c] = "checked"
    /\ phase' = [phase EXCEPT ![c] = "streaming"]
    /\ UNCHANGED <<pending, behind, seen, late, lost, session, fvars>>

\* Mutant: a "down" is skipped like an "up".
Receive_Skips(c) ==
    /\ Streaming(c) /\ ~behind[c] /\ pending[c] # <<>>
    /\ pending' = [pending EXCEPT ![c] = Tail(@)]
    /\ seen' = IF Head(pending[c]).kind = "update"
               THEN [seen EXCEPT ![c] = @ \union {Head(pending[c]).of}] ELSE seen
    /\ UNCHANGED <<phase, behind, late, lost, session, fvars>>

\* The stream yields its next event: an update goes to the client, an "up" is
\* filtered out, a "down" becomes the error that ends the stream.
Receive(c) ==
    /\ Streaming(c) /\ ~behind[c] /\ pending[c] # <<>>
    /\ LET event == Head(pending[c])
       IN  IF event.kind = "down" THEN Closed(c)
           ELSE /\ pending' = [pending EXCEPT ![c] = Tail(@)]
                /\ seen' = IF event.kind = "update" THEN [seen EXCEPT ![c] = @ \union {event.of}] ELSE seen
                /\ UNCHANGED <<phase, behind, late, lost>>
    /\ UNCHANGED <<session, fvars>>

\* Lagged is filtered out.
ReceiveLagged(c) ==
    /\ Streaming(c) /\ behind[c]
    /\ behind' = [behind EXCEPT ![c] = FALSE]
    /\ UNCHANGED <<phase, pending, seen, late, lost, session, fvars>>

\* The client cancels the call or its connection is gone.
Leave(c) == phase[c] # "off" /\ Closed(c) /\ UNCHANGED <<session, fvars>>

Die ==
    /\ Restart
    /\ phase' = [c \in Clients |-> "off"]
    /\ pending' = [c \in Clients |-> <<>>]
    /\ behind' = [c \in Clients |-> FALSE]
    /\ seen' = [c \in Clients |-> {}]
    /\ late' = [c \in Clients |-> FALSE]
    /\ lost' = [c \in Clients |-> FALSE]
    /\ UNCHANGED session

-----------------------------------------------------------------------------
Init ==
    /\ FInit
    /\ phase = [c \in Clients |-> "off"]
    /\ pending = [c \in Clients |-> <<>>]
    /\ behind = [c \in Clients |-> FALSE]
    /\ session = 0
    /\ seen = [c \in Clients |-> {}]
    /\ late = [c \in Clients |-> FALSE]
    /\ lost = [c \in Clients |-> FALSE]

\* What the runtime does for a call, once the client asks for more.
Serve(c) == Join(c) \/ Receive(c) \/ ReceiveLagged(c)

Next ==
    \/ StoreUp \/ StoreDown \/ PublishStatus \/ PublishUpdate \/ Die
    \/ \E c \in Clients : CheckFlag(c) \/ Serve(c) \/ Leave(c)

Spec == Init /\ [][Next]_vars

\* The send follows the store; a client that stays reads its stream.
FairSpec == Spec /\ WF_vars(PublishStatus) /\ \A c \in Clients : WF_vars(Serve(c))

-----------------------------------------------------------------------------
TypeOK ==
    /\ flag \in BOOLEAN /\ last \in Statuses /\ beat \in {0, 1}
    /\ phase \in [Clients -> Phases]
    /\ pending \in [Clients -> Seq(Events)]
    /\ \A c \in Clients : Len(pending[c]) <= Capacity
    /\ behind \in [Clients -> BOOLEAN]
    /\ session \in Sessions
    /\ seen \in [Clients -> SUBSET Sessions]
    /\ late \in [Clients -> BOOLEAN] /\ lost \in [Clients -> BOOLEAN]

\* A stream still open and with nothing to come while the upstream is down is
\* one of two: it joined after the "down" it should have seen, or the "down"
\* was overwritten before it was read.  All others have been ended.
OpenNeedsMissedDown ==
    (~flag /\ Settled) =>
        \A c \in Clients : (Streaming(c) /\ pending[c] = <<>>) => late[c] \/ lost[c]

\* A client resubscribes when its stream ends; one stream therefore carries the
\* updates of one upstream session, with no silent gap between two, unless the
\* "down" between them was overwritten.  (A stream that joined late carries
\* only the session that came next.)
StreamIsOneSession ==
    \A c \in Clients : ~lost[c] => \A s, t \in seen[c] : s = t

\* A stream that is open when its upstream goes down is ended, also when the
\* upstream is back by the time it is read, unless it missed that event.
DownEndsStream ==
    \A c \in Clients : (Streaming(c) /\ ~flag) ~> (~Streaming(c) \/ late[c] \/ lost[c])

-----------------------------------------------------------------------------
(* The strengthening of OpenNeedsMissedDown (TritonLocalRelay_proofs).      *)
DownPending(c) == \E i \in 1..Len(pending[c]) : pending[c][i].kind = "down"

EndOnItsWay ==
    (~flag /\ last = "down") =>
        \A c \in Clients : /\ phase[c] = "checked" => late[c]
                           /\ Streaming(c) => late[c] \/ lost[c] \/ DownPending(c)

(* The strengthening of StreamIsOneSession: what a stream has been given    *)
(* and will be given before it ends is of one session, and while its end is *)
(* not on the way that is the current one - or, when the end is stored but  *)
(* not yet sent, the one before.                                            *)
Early(q) ==
    {q[i].of : i \in {k \in 1..Len(q) : q[k].kind = "update" /\ \A j \in 1..k : q[j].kind # "down"}}
Carries(c) == seen[c] \union Early(pending[c])
OfThisSession(s) == IF ~flag /\ last = "up" THEN session = (s + 1) % 3 ELSE s = session

OneSession(c) ==
    /\ ~Streaming(c) => pending[c] = <<>> /\ seen[c] = {}
    /\ ~lost[c] => /\ \A s, t \in Carries(c) : s = t
                   /\ ~DownPending(c) => \A s \in Carries(c) : OfThisSession(s)
=============================================================================
