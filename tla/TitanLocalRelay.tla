------------------------- MODULE TitanLocalRelay -------------------------
(***************************************************************************)
(* The local WebSocket relay of src/src/titan_local.rs: a broadcast        *)
(* channel fed by an upstream live loop (FeedSignal says what that loop    *)
(* promises) and one serve_client task per client.                         *)
(*                                                                         *)
(* A client subscribes to the channel first and loads the flag afterwards, *)
(* so its greeting can be ahead of the events it has yet to receive.  A    *)
(* receiver that falls Capacity events behind loses the oldest ones, status*)
(* events included, and serve_client carries on with what is left.  A      *)
(* write to the client's socket takes as long as the client likes: events  *)
(* pile up behind the one being written.                                   *)
(***************************************************************************)
EXTENDS FeedSignal, Sequences

CONSTANTS
    Clients,    \* connections to the relay's port
    Capacity    \* BROADCAST_CAPACITY

ASSUME CapacityAssumption == Capacity \in Nat \ {0}

VARIABLES
    phase,      \* where serve_client is
    pending,    \* events the channel holds for this receiver
    behind,     \* an event was overwritten and Lagged is yet to be returned
    writing,    \* the event (or greeting) being written to the socket
    told,       \* the last status the client was sent
    trust       \* history: is the client in step with the status events

clientVars == <<phase, pending, behind, writing, told, trust>>
vars == <<fvars, clientVars>>

Statuses == {"up", "down"}
Events == Statuses \union {"frame"}
Phases == {"off", "subscribed", "writing", "serving"}
Trusts == {"greeted", "synced", "lost"}

Listening(c) == phase[c] # "off"

-----------------------------------------------------------------------------
(* The broadcast channel *)

\* Mutant: a full channel refuses the new event and keeps the old ones.
Push_DropNew(q, e) == IF Len(q) < Capacity THEN Append(q, e) ELSE q

\* Mutant: the channel is unbounded.
Push_Unbounded(q, e) == Append(q, e)

\* A full ring overwrites the receiver's oldest event.
Push(q, e) == IF Len(q) < Capacity THEN Append(q, e) ELSE Append(Tail(q), e)

\* tx.send: every receiver gets the event; with none it is dropped.
Broadcast(e) ==
    /\ pending' = [c \in Clients |-> IF Listening(c) THEN Push(pending[c], e) ELSE pending[c]]
    /\ behind' = [c \in Clients |-> behind[c] \/ (Listening(c) /\ Len(pending[c]) = Capacity)]
    /\ UNCHANGED <<phase, writing, told, trust>>

\* set_upstream_connected and publish_frame, as the live loop calls them.
StoreUp == Raise /\ UNCHANGED clientVars
StoreDown == Lower /\ UNCHANGED clientVars

\* Mutants: only one of the two events is sent.
PublishStatus_OnlyDown == SendStatus /\ IF last' = "down" THEN Broadcast(last') ELSE UNCHANGED clientVars
PublishStatus_OnlyUp == SendStatus /\ IF last' = "up" THEN Broadcast(last') ELSE UNCHANGED clientVars

PublishStatus == SendStatus /\ Broadcast(last')
PublishFrame == SendFrame /\ Broadcast("frame")

-----------------------------------------------------------------------------
(* serve_client *)

Gone(c) ==
    /\ phase' = [phase EXCEPT ![c] = "off"]
    /\ pending' = [pending EXCEPT ![c] = <<>>]
    /\ behind' = [behind EXCEPT ![c] = FALSE]
    /\ writing' = [writing EXCEPT ![c] = "none"]
    /\ told' = [told EXCEPT ![c] = "none"]
    /\ trust' = [trust EXCEPT ![c] = "greeted"]

\* The handshake is done; relay.subscribe().
Subscribe(c) ==
    /\ phase[c] = "off"
    /\ phase' = [phase EXCEPT ![c] = "subscribed"]
    /\ UNCHANGED <<pending, behind, writing, told, trust, fvars>>

\* upstream_connected.load(): the greeting.
LoadFlag(c) ==
    /\ phase[c] = "subscribed"
    /\ phase' = [phase EXCEPT ![c] = "writing"]
    /\ writing' = [writing EXCEPT ![c] = StatusOf(flag)]
    /\ UNCHANGED <<pending, behind, told, trust, fvars>>

\* events.recv() returns an event; its write begins.
Receive(c) ==
    /\ phase[c] = "serving" /\ ~behind[c] /\ pending[c] # <<>>
    /\ phase' = [phase EXCEPT ![c] = "writing"]
    /\ writing' = [writing EXCEPT ![c] = Head(pending[c])]
    /\ pending' = [pending EXCEPT ![c] = Tail(pending[c])]
    /\ UNCHANGED <<behind, told, trust, fvars>>

\* events.recv() returns Lagged: logged, nothing is written.
ReceiveLagged(c) ==
    /\ phase[c] = "serving" /\ behind[c]
    /\ behind' = [behind EXCEPT ![c] = FALSE]
    /\ trust' = [trust EXCEPT ![c] = "lost"]
    /\ UNCHANGED <<phase, pending, writing, told, fvars>>

\* write.send() is done.  A status after the greeting puts the client in step.
WriteDone(c) ==
    /\ phase[c] = "writing"
    /\ phase' = [phase EXCEPT ![c] = "serving"]
    /\ IF writing[c] \in Statuses
       THEN /\ told' = [told EXCEPT ![c] = writing[c]]
            /\ trust' = [trust EXCEPT ![c] = IF told[c] = "none" THEN @ ELSE "synced"]
       ELSE UNCHANGED <<told, trust>>
    /\ writing' = [writing EXCEPT ![c] = "none"]
    /\ UNCHANGED <<pending, behind, fvars>>

\* The client closed, or a read or a write failed.  It may connect again.
Leave(c) == Listening(c) /\ Gone(c) /\ UNCHANGED fvars

\* The process dies and every connection with it.
Die ==
    /\ Restart
    /\ phase' = [c \in Clients |-> "off"]
    /\ pending' = [c \in Clients |-> <<>>]
    /\ behind' = [c \in Clients |-> FALSE]
    /\ writing' = [c \in Clients |-> "none"]
    /\ told' = [c \in Clients |-> "none"]
    /\ trust' = [c \in Clients |-> "greeted"]

-----------------------------------------------------------------------------
Init ==
    /\ FInit
    /\ phase = [c \in Clients |-> "off"]
    /\ pending = [c \in Clients |-> <<>>]
    /\ behind = [c \in Clients |-> FALSE]
    /\ writing = [c \in Clients |-> "none"]
    /\ told = [c \in Clients |-> "none"]
    /\ trust = [c \in Clients |-> "greeted"]

\* What the task of a client does once it is connected.
Serve(c) == LoadFlag(c) \/ Receive(c) \/ ReceiveLagged(c) \/ WriteDone(c)

Next ==
    \/ StoreUp \/ StoreDown \/ PublishStatus \/ PublishFrame \/ Die
    \/ \E c \in Clients : Subscribe(c) \/ Serve(c) \/ Leave(c)

Spec == Init /\ [][Next]_vars

\* The send follows the store; a task that can run does, and its client reads.
\* Strong fairness of Receive: between two turns of the live loop at most three
\* status events are sent in at least the initial delay, far fewer than
\* BROADCAST_CAPACITY, so a receiver is not overrun by them forever.
FairSpec ==
    /\ Spec
    /\ WF_vars(PublishStatus)
    /\ \A c \in Clients : WF_vars(Serve(c)) /\ SF_vars(Receive(c))

-----------------------------------------------------------------------------
TypeOK ==
    /\ flag \in BOOLEAN /\ last \in Statuses /\ beat \in {0, 1}
    /\ phase \in [Clients -> Phases]
    /\ pending \in [Clients -> Seq(Events)]
    /\ \A c \in Clients : Len(pending[c]) <= Capacity
    /\ behind \in [Clients -> BOOLEAN]
    /\ writing \in [Clients -> Events \union {"none"}]
    /\ told \in [Clients -> Statuses \union {"none"}]
    /\ trust \in [Clients -> Trusts]

\* Nothing is on its way to the client.
Drained(c) == phase[c] = "serving" /\ pending[c] = <<>>

\* When the channel has nothing left for a client, the client knows whether the
\* upstream is up - also one that joined in the middle of
\* set_upstream_connected, and, while the upstream is down, one that lagged.
\* (One that lagged may have lost the "up": serve_client does not tell it the
\* state again.)
DrainedKnowsStatus ==
    Settled => \A c \in Clients :
        (Drained(c) /\ (flag => trust[c] # "lost")) => told[c] = StatusOf(flag)

\* A client in step with the status events is sent frames only after an "up"
\* and before the next "down".
FramesUnderUp ==
    \A c \in Clients : (writing[c] = "frame" /\ trust[c] = "synced") => told[c] = "up"

\* A client that stays is told of an upstream that stays down.
DownReachesClients ==
    \A c \in Clients : (Listening(c) /\ ~flag) ~> (told[c] = "down" \/ flag \/ ~Listening(c))

-----------------------------------------------------------------------------
(* The strengthening of the safety properties (TitanLocalRelay_proofs).     *)

\* While the upstream is down and announced, the newest thing on its way to a
\* client is that announcement, or the client has it.
NewestIsDown(c) ==
    IF pending[c] # <<>> THEN pending[c][Len(pending[c])] = "down"
    ELSE CASE phase[c] = "writing" -> writing[c] = "down"
           [] phase[c] = "serving" -> told[c] = "down"
           [] OTHER -> TRUE

DownOnItsWay ==
    /\ \A c \in Clients : ~Listening(c) => pending[c] = <<>>
    /\ (~flag /\ last = "down") => \A c \in Clients : NewestIsDown(c)

NoStatus(q) == \A i \in 1..Len(q) : q[i] \notin Statuses
NewestStatusIs(q, s) ==
    \A i \in 1..Len(q) : q[i] \in Statuses => q[i] = s \/ \E j \in 1..Len(q) : j > i /\ q[j] = s

\* A receiver loses the oldest events only.  So when the flag is announced, the
\* newest status event it still holds is that announcement; and when it holds
\* none, its client has the announcement, unless it was lost to lag.
InStep(c) ==
    /\ behind[c] => pending[c] # <<>>
    /\ Settled => NewestStatusIs(pending[c], last)
    /\ (Settled /\ ~behind[c] /\ NoStatus(pending[c])) =>
         /\ phase[c] = "writing" /\ writing[c] \in Statuses => writing[c] = last
         /\ phase[c] = "writing" /\ writing[c] = "frame" /\ trust[c] # "lost" => told[c] = last
         /\ phase[c] = "serving" /\ trust[c] # "lost" => told[c] = last

NoFrameAfterDown(q) == \A i \in 2..Len(q) : q[i] = "frame" => q[i - 1] # "down"

\* No frame follows a "down" in the channel, nor where a client's queue joins
\* what the client has been sent.
InOrder(c) ==
    /\ NoFrameAfterDown(pending[c])
    /\ (writing[c] = "none") = (phase[c] # "writing")
    /\ phase[c] \in {"off", "subscribed"} => told[c] = "none"
    /\ phase[c] = "serving" => told[c] # "none"
    /\ writing[c] = "frame" => told[c] # "none"
    /\ writing[c] = "frame" /\ trust[c] = "synced" => told[c] = "up"
    /\ told[c] = "none" => trust[c] = "greeted"
    /\ (~behind[c] /\ pending[c] # <<>> /\ pending[c][1] = "frame") =>
         /\ writing[c] \in Statuses /\ told[c] # "none" => writing[c] = "up"
         /\ writing[c] = "none" /\ trust[c] = "synced" => told[c] = "up"
=============================================================================
