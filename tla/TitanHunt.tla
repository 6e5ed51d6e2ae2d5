---------------------------- MODULE TitanHunt ----------------------------
(***************************************************************************)
(* The Titan live loop (TitanUpstream) together with the quotes of its     *)
(* sessions (TitanQuotes): one task, run_live_loop of                      *)
(* src/src/upstream/titan.rs, so a step of the quotes happens only where   *)
(* the loop is at it.  It is what a hunter reads in Redis: pairs_live,     *)
(* which the loop raises and clears, and the size board, which a session   *)
(* publishes and nothing clears when it ends.                              *)
(*                                                                         *)
(* The pipes of the boot reset and of record_titan_quote_success write     *)
(* keys of both modules; each module says by itself how far such a pipe    *)
(* got, so more outcomes are possible here than in the code, never fewer.  *)
(***************************************************************************)
EXTENDS TitanUpstream, Sequences

CONSTANTS HuntSizes, StreamIds, MaxQuotes, None    \* of the quotes

VARIABLES
    place,       \* TitanQuotes' own pc
    rung, requestToSize, streamToSize, pins, ladder, unsubscribed, quote,
    rows, board, frames, decoded, served,
    asked, opened, responses,
    quotes, sessionFrom, lostBoard, torn

Quotes == INSTANCE TitanQuotes WITH pc <- place

quotesVars ==
    <<place, rung, requestToSize, streamToSize, pins, ladder, unsubscribed, quote,
      rows, board, frames, decoded, served, asked, opened, responses,
      quotes, sessionFrom, lostBoard, torn>>
huntVars == <<vars, quotesVars>>

\* What TitanQuotes assumes of its constants.
QuotesConstants ==
    /\ HuntSizes \in Seq(Nat \ {0}) /\ HuntSizes # <<>>
    /\ \A i, j \in 1..Len(HuntSizes) : i < j => HuntSizes[i] < HuntSizes[j]
    /\ MaxQuotes \in Nat \ {0}
    /\ None \notin Nat /\ None \notin Quotes!Quotes

\* Every RedisFanout call returns early when no connection was made at boot.
WritesNeedRedis == redisConn \/ UNCHANGED <<rows, board, frames, decoded, served>>

-----------------------------------------------------------------------------
\* The loop where no quote is at stake: its bookkeeping, and dialling.
LoopAlone ==
    /\ \/ Boot \/ Mark \/ StartSession \/ ConnectFails \/ ConnectSucceeds
       \/ RiseUp \/ RiseRelay \/ CloseWrite \/ OkArm \/ ErrArm \/ Wait \/ Tick
    /\ UNCHANGED quotesVars

\* reset_titan_state_at_boot
Resets == ResetAtBoot /\ Quotes!Boot /\ WritesNeedRedis

\* A process that dies before the reset has nothing of the quotes to lose.
ProcessDies ==
    /\ Crash
    /\ IF place = "boot" THEN UNCHANGED quotesVars ELSE Quotes!Crash

\* The registry and the board are cleared right after the event "up" is sent,
\* with no await in between.
Opens == RiseSend /\ Quotes!OpenSession

\* subscribe_hunt_streams
Subscribes ==
    /\ pc = "setup"
    /\ Quotes!SkipRung \/ Quotes!SubscribeRung
    /\ UNCHANGED vars

SubscribesAll == SetupSucceeds /\ Quotes!Snapshot /\ WritesNeedRedis
SubscribeFails == SetupFails /\ Quotes!SetupFails

\* A frame is received and parsed: up to the first await of its handler.
Receives ==
    /\ ReadFrame
    /\ \/ \E r \in Quotes!RequestIds, id \in StreamIds : Quotes!ReadResponse(r, id)
       \/ \E r \in Quotes!RequestIds : Quotes!ReadError(r)
       \/ \E id \in StreamIds : \E amount \in {opened[id], 0} : Quotes!ReadQuote(id, amount)
       \/ UNCHANGED quotesVars

\* publish_titan_hop1 and publish_titan_size_board, inside the handler.
Publishes ==
    /\ pc = "handle"
    /\ Quotes!WriteRow \/ Quotes!PublishBoard
    /\ WritesNeedRedis
    /\ UNCHANGED vars

\* record_titan_message, the handler's last call.
RecordsQuote == HandleQuote /\ Quotes!Record /\ WritesNeedRedis
RecordsOther == HandleOther /\ place = "read" /\ UNCHANGED quotesVars

\* The read loop ends; the board stays as it is.
Closes == (ReadCloses \/ ReadErrors) /\ Quotes!CloseSession

\* The server opens streams, and Redis expires rows, at any time.
ElsewhereMoves ==
    /\ \/ \E s \in Quotes!Sizes : Quotes!Expire(s)
       \/ \E r \in Quotes!RequestIds, id \in StreamIds : Quotes!ServerOpens(r, id)
    /\ UNCHANGED vars

HuntInit == Init /\ Quotes!Init

HuntNext ==
    \/ LoopAlone \/ Resets \/ ProcessDies \/ Opens
    \/ Subscribes \/ SubscribesAll \/ SubscribeFails
    \/ Receives \/ Publishes \/ RecordsQuote \/ RecordsOther \/ Closes
    \/ ElsewhereMoves

HuntSpec == HuntInit /\ [][HuntNext]_huntVars

-----------------------------------------------------------------------------
\* The board holds a quote, and only quotes of the last session opened.
BoardIsFresh ==
    /\ \E s \in Quotes!Sizes : board[s].stamp # 0
    /\ \A s \in Quotes!Sizes : board[s].stamp # 0 => board[s].stamp > sessionFrom

\* A hunter that finds pairs_live = 1 finds quotes on the board, all of the
\* session that is open or has just ended: what a disconnect leaves on the board
\* is disowned by pairs_live, unless a clear of it or a write of the board is lost.
LivePairsOnBoard ==
    (redisConn /\ pairsLive /\ lostPairs = 0 /\ ~lostBoard /\ pc \notin {"boot", "reset"})
        => BoardIsFresh

-----------------------------------------------------------------------------
(* The strengthening that makes it inductive (TitanUpstream_proofs).        *)

\* Which places of the two go together.
PlacesMatch ==
    /\ place = "boot" <=> pc \in {"boot", "reset"}
    /\ place = "subscribe" <=> pc = "setup"
    /\ place \in Quotes!ReadingPCs <=> pc \in {"read", "handle"}
    /\ pc = "read" => place = "read"

NoQuoteYet == {"boot", "reset", "connect", "riseUp", "riseRelay", "riseSend", "setup"}

\* `quoted' is raised inside a session only, after the board that shows the
\* quote was published; pairs_live is raised with it, and cleared twice before
\* the next session forgets it.
QuotedInSession == pc \in NoQuoteYet => ~quoted
QuotedIsOnBoard == (quoted /\ ~lostBoard) => BoardIsFresh
LiveIsQuoted == (redisConn /\ pairsLive /\ lostPairs = 0 /\ pc \notin {"boot", "reset"}) => quoted

HuntInv == PlacesMatch /\ QuotedInSession /\ QuotedIsOnBoard /\ LiveIsQuoted

=============================================================================
