--------------------------- MODULE FeedSignal ---------------------------
(***************************************************************************)
(* What an upstream live loop promises to the local relay it feeds.  The   *)
(* relay keeps a connectivity flag, read once by every client that joins,  *)
(* and a broadcast channel of status events and frames.  One call of       *)
(* set_upstream_connected first stores the flag and then sends the event,  *)
(* and a client can look between the two.                                  *)
(*                                                                         *)
(* The promise: the flag is raised at most once per session and only after *)
(* the previous "down" was sent; a store is always followed by its event   *)
(* before the next store; frames are sent only while the flag is up and    *)
(* the last event said so.  Restart is the end of the process.             *)
(***************************************************************************)
EXTENDS Naturals

VARIABLES
    flag,   \* the relay's upstream_connected
    last,   \* the last status event sent to the channel ("down" before any)
    beat    \* flips with every frame sent: makes a frame a visible step

fvars == <<flag, last, beat>>

StatusOf(up) == IF up THEN "up" ELSE "down"
Settled == last = StatusOf(flag)

FInit == flag = FALSE /\ last = "down" /\ beat = 0

Raise == Settled /\ ~flag /\ flag' = TRUE /\ UNCHANGED <<last, beat>>
Lower == Settled /\ flag' = FALSE /\ UNCHANGED <<last, beat>>
SendStatus == last' = StatusOf(flag) /\ UNCHANGED <<flag, beat>>
SendFrame == flag /\ Settled /\ beat' = 1 - beat /\ UNCHANGED <<flag, last>>
Restart == flag' = FALSE /\ last' = "down" /\ beat' = 0

FNext == Raise \/ Lower \/ SendStatus \/ SendFrame \/ Restart

\* A stored flag is announced sooner or later: the send follows the store in
\* the same synchronous call.
FSafe == FInit /\ [][FNext]_fvars
FSpec == FSafe /\ WF_fvars(SendStatus)
=========================================================================
