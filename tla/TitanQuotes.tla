--------------------------- MODULE TitanQuotes ---------------------------
(***************************************************************************)
(* What an open Titan session does with the hunt ladder: the subscriptions *)
(* (subscribe_hunt_streams of src/src/upstream/titan.rs), the stream       *)
(* registry, the size board and the quote handler of                       *)
(* src/src/titan_quote.rs, and the Redis rows, board and counters that     *)
(* other processes hunt on.  When a session opens and closes is            *)
(* TitanUpstream's business; here it may at any time the code allows.      *)
(*                                                                         *)
(* One quote is published by three Redis calls in a row; each may be lost, *)
(* a pipe may be cut short, a row may expire, and the process may die      *)
(* between any two.  A quote is known by its number, counted over the      *)
(* whole run, so "newer" and "of this session" can be told.                *)
(*                                                                         *)
(* The Titan server is outside the repository: it answers any request once,*)
(* in any order, with a stream identifier it has not used on this          *)
(* connection or with an error; quotes of a stream may even overtake the   *)
(* response that names it.                                                 *)
(***************************************************************************)
EXTENDS Naturals, Sequences

CONSTANTS
    HuntSizes,  \* the ladder, as parse_hunt_sizes returns it
    StreamIds,  \* identifiers the server may give a stream
    MaxQuotes,  \* bound: quotes received in one run
    None

ASSUME LadderAssumption ==
    /\ HuntSizes \in Seq(Nat \ {0}) /\ HuntSizes # <<>>
    /\ \A i, j \in 1..Len(HuntSizes) : i < j => HuntSizes[i] < HuntSizes[j]
ASSUME QuotesAssumption == MaxQuotes \in Nat \ {0}

Ladder == {HuntSizes[i] : i \in 1..Len(HuntSizes)}
Sizes == Ladder \union {0}     \* 0: a quote that names no amount
RequestIds == {i + 1 : i \in 1..Len(HuntSizes)}   \* 1 is GetInfo
Quotes == [size : Sizes, stamp : 1..MaxQuotes, origin : Ladder]

ASSUME NoneAssumption == None \notin Nat /\ None \notin Quotes

VARIABLES
    pc,             \* where the session is
    rung,           \* index of the subscription loop
    \* TitanStreamRegistry
    requestToSize, streamToSize,
    \* TitanSizeBoard
    pins, ladder, unsubscribed,
    quote,          \* the quote being published
    \* Redis
    rows, board, frames, decoded, served,
    \* the server, for this connection
    asked, opened, responses,
    \* history
    quotes,         \* quotes received so far
    sessionFrom,    \* quotes received before this session
    lostBoard,      \* the last write of the board was lost
    torn            \* a counter was lost since the last complete reset

registry == <<requestToSize, streamToSize>>
sizeBoard == <<pins, ladder, unsubscribed>>
counters == <<frames, decoded, served>>
server == <<asked, opened, responses>>
history == <<quotes, sessionFrom, lostBoard, torn>>
vars == <<pc, rung, registry, sizeBoard, quote, rows, board, counters, server, history>>


NoRow == [stamp |-> 0, origin |-> None]
\* One entry of the published document; the board of the boot reset has none.
Absent == [stamp |-> 0, status |-> "absent"]

-----------------------------------------------------------------------------
(* build_size_board_doc_with_pair: the pins, then every rung of the ladder  *)
(* that has none, flagged if it was never subscribed.                       *)
Entry(s) ==
    IF pins[s] # 0 THEN [stamp |-> pins[s], status |-> "live"]
    ELSE IF s \notin ladder THEN Absent
    ELSE [stamp |-> 0, status |-> IF s \in unsubscribed THEN "unsubscribed" ELSE "live"]

\* publish_titan_size_board: one SET of the document built just before it.
WriteBoard ==
    \/ board' = [s \in Sizes |-> Entry(s)] /\ lostBoard' = FALSE
    \/ lostBoard' = TRUE /\ UNCHANGED board

-----------------------------------------------------------------------------
(* The process *)

\* reset_titan_state_at_boot: a pipe that sets frames, decoded, hop1_served
\* and the board in this order and may be cut short before any of them.
Boot ==
    /\ pc = "boot" /\ pc' = "down"
    /\ \E applied \in 0..4 :
         /\ frames' = IF applied >= 1 THEN 0 ELSE frames
         /\ decoded' = IF applied >= 2 THEN 0 ELSE decoded
         /\ served' = IF applied >= 3 THEN 0 ELSE served
         /\ IF applied = 4
            THEN board' = [s \in Sizes |-> Absent] /\ lostBoard' = FALSE
            ELSE lostBoard' = TRUE /\ UNCHANGED board
         /\ torn' = (applied < 3)
    /\ UNCHANGED <<rung, registry, sizeBoard, quote, rows, server, quotes, sessionFrom>>

\* The process dies: its memory goes, Redis stays.  A quote whose three calls
\* were not all made leaves the counters apart.
Crash ==
    /\ pc # "boot" /\ pc' = "boot"
    /\ rung' = 1
    /\ requestToSize' = [r \in RequestIds |-> None]
    /\ streamToSize' = [id \in StreamIds |-> None]
    /\ pins' = [s \in Sizes |-> 0] /\ ladder' = {} /\ unsubscribed' = {}
    /\ quote' = None
    /\ torn' = (torn \/ quote # None)
    /\ UNCHANGED <<rows, board, counters, server, quotes, sessionFrom, lostBoard>>

\* SET EX: a row lives for hop1_ttl_secs.
Expire(s) ==
    /\ rows[s] # NoRow
    /\ rows' = [rows EXCEPT ![s] = NoRow]
    /\ UNCHANGED <<pc, rung, registry, sizeBoard, quote, board, counters, server, history>>

-----------------------------------------------------------------------------
(* The head of run_session, once the WebSocket is open *)

\* Mutants: the registry, the pins of the session before are kept.
OpenSession_KeepStreams ==
    /\ pc = "down" /\ pc' = "subscribe"
    /\ rung' = 1
    /\ requestToSize' = [r \in RequestIds |-> None]
    /\ pins' = [s \in Sizes |-> 0] /\ unsubscribed' = {} /\ ladder' = Ladder
    /\ asked' = {} /\ opened' = [id \in StreamIds |-> None] /\ responses' = {}
    /\ sessionFrom' = quotes
    /\ UNCHANGED <<streamToSize, quote, rows, board, counters, quotes, lostBoard, torn>>
OpenSession_KeepPins ==
    /\ pc = "down" /\ pc' = "subscribe"
    /\ rung' = 1
    /\ requestToSize' = [r \in RequestIds |-> None]
    /\ streamToSize' = [id \in StreamIds |-> None]
    /\ unsubscribed' = {} /\ ladder' = Ladder
    /\ asked' = {} /\ opened' = [id \in StreamIds |-> None] /\ responses' = {}
    /\ sessionFrom' = quotes
    /\ UNCHANGED <<pins, quote, rows, board, counters, quotes, lostBoard, torn>>

\* The registry and the board are cleared and the ladder is put on the board;
\* the server knows nothing of this connection.
OpenSession ==
    /\ pc = "down" /\ pc' = "subscribe"
    /\ rung' = 1
    /\ requestToSize' = [r \in RequestIds |-> None]
    /\ streamToSize' = [id \in StreamIds |-> None]
    /\ pins' = [s \in Sizes |-> 0] /\ unsubscribed' = {} /\ ladder' = Ladder
    /\ asked' = {} /\ opened' = [id \in StreamIds |-> None] /\ responses' = {}
    /\ sessionFrom' = quotes
    /\ UNCHANGED <<quote, rows, board, counters, quotes, lostBoard, torn>>

\* No token: the rung is flagged and never tried again in this session.
SkipRung ==
    /\ pc = "subscribe" /\ rung <= Len(HuntSizes)
    /\ unsubscribed' = unsubscribed \union {HuntSizes[rung]}
    /\ rung' = rung + 1
    /\ UNCHANGED <<pc, registry, pins, ladder, quote, rows, board, counters, server, history>>

\* Mutant: the rung is flagged although its request is sent.
SubscribeRung_Flagged ==
    /\ pc = "subscribe" /\ rung <= Len(HuntSizes)
    /\ requestToSize' = [requestToSize EXCEPT ![rung + 1] = HuntSizes[rung]]
    /\ unsubscribed' = unsubscribed \union {HuntSizes[rung]}
    /\ asked' = asked \union {rung + 1} /\ rung' = rung + 1
    /\ UNCHANGED <<pc, streamToSize, pins, ladder, quote, rows, board, counters, opened, responses, history>>

\* A token: the request is registered before it is sent.
SubscribeRung ==
    /\ pc = "subscribe" /\ rung <= Len(HuntSizes)
    /\ requestToSize' = [requestToSize EXCEPT ![rung + 1] = HuntSizes[rung]]
    /\ asked' = asked \union {rung + 1}
    /\ rung' = rung + 1
    /\ UNCHANGED <<pc, streamToSize, sizeBoard, quote, rows, board, counters, opened, responses, history>>

\* The send of GetInfo or of a subscription fails: `?' ends the session.
SetupFails ==
    /\ pc = "subscribe" /\ pc' = "down"
    /\ \/ UNCHANGED requestToSize
       \/ /\ rung <= Len(HuntSizes)
          /\ requestToSize' = [requestToSize EXCEPT ![rung + 1] = HuntSizes[rung]]
    /\ UNCHANGED <<rung, streamToSize, sizeBoard, quote, rows, board, counters, server, history>>

\* publish_size_board_snapshot
Snapshot ==
    /\ pc = "subscribe" /\ rung > Len(HuntSizes) /\ pc' = "read"
    /\ WriteBoard
    /\ UNCHANGED <<rung, registry, sizeBoard, quote, rows, counters, server, quotes, sessionFrom, torn>>

-----------------------------------------------------------------------------
(* The server *)

\* A stream is opened for a request; the response is on its way.
ServerOpens(r, id) ==
    /\ pc \in {"subscribe", "read"}
    /\ r \in asked /\ opened[id] = None
    /\ asked' = asked \ {r}
    /\ opened' = [opened EXCEPT ![id] = HuntSizes[r - 1]]
    /\ responses' = responses \union {<<r, id>>}
    /\ UNCHANGED <<pc, rung, registry, sizeBoard, quote, rows, board, counters, history>>

-----------------------------------------------------------------------------
(* handle_titan_server_message.  Frames that do not decode, that no arm     *)
(* knows or that hold no usable route change nothing modelled here.         *)

\* register_stream_from_response
ReadResponse(r, id) ==
    /\ pc = "read" /\ <<r, id>> \in responses
    /\ responses' = responses \ {<<r, id>>}
    /\ streamToSize' = IF requestToSize[r] # None
                       THEN [streamToSize EXCEPT ![id] = requestToSize[r]]
                       ELSE streamToSize
    /\ UNCHANGED <<pc, rung, requestToSize, sizeBoard, quote, rows, board, counters, asked, opened, history>>

\* An Error answers a request: it is counted and logged, nothing more.
ReadError(r) ==
    /\ pc = "read" /\ r \in asked
    /\ asked' = asked \ {r}
    /\ UNCHANGED <<pc, rung, registry, sizeBoard, quote, rows, board, counters, opened, responses, history>>

\* StreamData with a route: parse_stream_data_hop1, and publish_hop1_quote up
\* to its first await.  `amount' is the size the stream was opened for, or 0
\* when the message names none; it counts only for an unconfirmed stream.
ReadQuote(id, amount) ==
    /\ pc = "read" /\ pc' = "row"
    /\ opened[id] # None /\ quotes < MaxQuotes
    /\ quotes' = quotes + 1
    /\ LET size == IF streamToSize[id] # None THEN streamToSize[id] ELSE amount
       IN  /\ unsubscribed' = unsubscribed \ {size}
           /\ pins' = [pins EXCEPT ![size] = quotes + 1]
           /\ quote' = [size |-> size, stamp |-> quotes + 1, origin |-> opened[id]]
    /\ UNCHANGED <<rung, registry, ladder, rows, board, counters, server, sessionFrom, lostBoard, torn>>

\* Mutant: a pipe that reported an error is sent again.
WriteRow_Retry ==
    /\ pc = "row" /\ pc' \in {"row", "board"}
    /\ rows' = [rows EXCEPT ![quote.size] = [stamp |-> quote.stamp, origin |-> quote.origin]]
    /\ served' = served + 1
    /\ UNCHANGED <<rung, registry, sizeBoard, quote, board, frames, decoded, server, history>>

\* publish_titan_hop1: a pipe of SET EX and INCR hop1_served.
WriteRow ==
    /\ pc = "row" /\ pc' = "board"
    /\ LET row == [rows EXCEPT ![quote.size] = [stamp |-> quote.stamp, origin |-> quote.origin]]
       IN  \/ rows' = row /\ served' = served + 1 /\ UNCHANGED torn
           \/ rows' = row /\ torn' = TRUE /\ UNCHANGED served
           \/ torn' = TRUE /\ UNCHANGED <<rows, served>>
    /\ UNCHANGED <<rung, registry, sizeBoard, quote, board, frames, decoded, server, quotes, sessionFrom, lostBoard>>

\* Mutant: the board is published only for sizes of the ladder it lacks.
PublishBoard_Once ==
    /\ pc = "board" /\ pc' = "record"
    /\ IF board[quote.size].stamp = 0 THEN WriteBoard ELSE UNCHANGED <<board, lostBoard>>
    /\ UNCHANGED <<rung, registry, sizeBoard, quote, rows, counters, server, quotes, sessionFrom, torn>>

PublishBoard ==
    /\ pc = "board" /\ pc' = "record"
    /\ WriteBoard
    /\ UNCHANGED <<rung, registry, sizeBoard, quote, rows, counters, server, quotes, sessionFrom, torn>>

\* Mutant: decoded is not counted.
Record_FramesOnly ==
    /\ pc = "record" /\ pc' = "read"
    /\ frames' = frames + 1
    /\ quote' = None
    /\ UNCHANGED <<rung, registry, sizeBoard, rows, board, decoded, served, server, history>>

\* record_titan_quote_success: a pipe that begins with INCR frames, INCR
\* decoded (what it does to pairs_live and titan_up is in TitanUpstream).
Record ==
    /\ pc = "record" /\ pc' = "read"
    /\ \/ frames' = frames + 1 /\ decoded' = decoded + 1 /\ UNCHANGED torn
       \/ frames' = frames + 1 /\ torn' = TRUE /\ UNCHANGED decoded
       \/ torn' = TRUE /\ UNCHANGED <<frames, decoded>>
    /\ quote' = None
    /\ UNCHANGED <<rung, registry, sizeBoard, rows, board, served, server, quotes, sessionFrom, lostBoard>>

\* The read loop ends, whatever ended it.  The board is left as it is.
CloseSession ==
    /\ pc = "read" /\ pc' = "down"
    /\ UNCHANGED <<rung, registry, sizeBoard, quote, rows, board, counters, server, history>>

-----------------------------------------------------------------------------
\* Redis holds what an earlier process left: rows expire, counters and the
\* board do not.
Init ==
    /\ pc = "boot" /\ rung = 1
    /\ requestToSize = [r \in RequestIds |-> None]
    /\ streamToSize = [id \in StreamIds |-> None]
    /\ pins = [s \in Sizes |-> 0] /\ ladder = {} /\ unsubscribed = {}
    /\ quote = None
    /\ rows = [s \in Sizes |-> NoRow]
    /\ board = [s \in Sizes |-> Absent]
    /\ frames \in {0, 1} /\ decoded = frames /\ served = frames
    /\ asked = {} /\ opened = [id \in StreamIds |-> None] /\ responses = {}
    /\ quotes = 0 /\ sessionFrom = 0 /\ lostBoard = FALSE /\ torn = FALSE

Next ==
    \/ Boot \/ Crash
    \/ \E s \in Sizes : Expire(s)
    \/ OpenSession \/ SkipRung \/ SubscribeRung \/ SetupFails \/ Snapshot
    \/ \E r \in RequestIds, id \in StreamIds : ServerOpens(r, id) \/ ReadResponse(r, id)
    \/ \E r \in RequestIds : ReadError(r)
    \/ \E id \in StreamIds : \E amount \in {opened[id], 0} : ReadQuote(id, amount)
    \/ WriteRow \/ PublishBoard \/ Record \/ CloseSession

Spec == Init /\ [][Next]_vars

-----------------------------------------------------------------------------
PCs == {"boot", "down", "subscribe", "read", "row", "board", "record"}

PlaceType ==
    /\ pc \in PCs /\ rung \in 1..(Len(HuntSizes) + 1)
    /\ (pc \in {"row", "board", "record"}) = (quote # None)
    /\ quote # None => quote \in Quotes

MemoryType ==
    /\ requestToSize \in [RequestIds -> Ladder \union {None}]
    /\ streamToSize \in [StreamIds -> Ladder \union {None}]
    /\ pins \in [Sizes -> 0..MaxQuotes]
    /\ ladder \in {{}, Ladder} /\ unsubscribed \subseteq Ladder

RedisType ==
    /\ rows \in [Sizes -> [stamp : 0..MaxQuotes, origin : Ladder \union {None}]]
    /\ board \in [Sizes -> [stamp : 0..MaxQuotes, status : {"absent", "live", "unsubscribed"}]]
    /\ frames \in 0..(MaxQuotes + 1) /\ decoded \in 0..(MaxQuotes + 1) /\ served \in 0..(MaxQuotes + 1)

ServerType ==
    /\ asked \subseteq RequestIds
    /\ opened \in [StreamIds -> Ladder \union {None}]
    /\ responses \subseteq RequestIds \X StreamIds

HistoryType ==
    /\ quotes \in 0..MaxQuotes /\ sessionFrom \in 0..quotes
    /\ lostBoard \in BOOLEAN /\ torn \in BOOLEAN

TypeOK == PlaceType /\ MemoryType /\ RedisType /\ ServerType /\ HistoryType

\* A hunter reads the row of a size and trades that size: the row holds a quote
\* of the stream opened for exactly that size, in whatever order responses,
\* quotes and reconnects came.
RowUnderItsSize ==
    \A s \in Ladder : rows[s] # NoRow => rows[s].origin = s

\* Once a session reads, the board shows quotes of this session only: what the
\* session before it left is gone, unless the last write of the board was lost.
BoardIsOfThisSession ==
    (pc = "read" /\ ~lostBoard) =>
        \A s \in Sizes : board[s].stamp # 0 => board[s].stamp > sessionFrom

\* A quote's row is written before the board, with an await between the two: a
\* hunter that reads in between finds that row ahead of the board.  It is the
\* only one: at no moment of a session is another row of the session newer than
\* the board, nor this one once the board is written, unless that write is lost.
SessionPCs == PCs \ {"boot", "down"}
AheadOfBoard == {s \in Sizes : rows[s].stamp > sessionFrom /\ rows[s].stamp > board[s].stamp}
OnlyRowInHandIsAhead ==
    (pc \in SessionPCs /\ ~lostBoard) =>
        \A s \in AheadOfBoard : pc = "board" /\ s = quote.size /\ rows[s].stamp = quote.stamp

\* A rung is flagged on the board exactly when no subscription for it was sent
\* in this session, and every rung of the ladder is on the board.
SentThisSession == {HuntSizes[r - 1] : r \in {q \in RequestIds : requestToSize[q] # None}}
FlagsAreHonest ==
    (pc = "read" /\ ~lostBoard) =>
        \A s \in Ladder : /\ board[s].status # "absent"
                          /\ board[s].status = "unsubscribed" <=> s \notin SentThisSession

\* If no call was lost and the process did not die in the middle of one, every
\* row written (hop1_served) was decoded and counted as a frame exactly once.
CountersAgree ==
    (~torn /\ quote = None) => frames = decoded /\ decoded = served

-----------------------------------------------------------------------------
(* The strengthening that makes them inductive (TitanQuotes_proofs).        *)

ReadingPCs == {"read", "row", "board", "record"}

\* The identifiers the registry and the server know name the same rungs.
RegistryAgrees ==
    /\ \A r \in RequestIds : requestToSize[r] # None => requestToSize[r] = HuntSizes[r - 1]
    /\ \A id \in StreamIds : streamToSize[id] # None => streamToSize[id] = opened[id]
    /\ \A r \in RequestIds, id \in StreamIds : <<r, id>> \in responses => opened[id] = HuntSizes[r - 1]

\* Within a session everything is about requests that were sent in it, and the
\* flagged rungs are those passed over.
SessionAgrees ==
    pc \in SessionPCs =>
        /\ \A r \in asked : requestToSize[r] # None
        /\ \A id \in StreamIds : opened[id] # None => opened[id] \in SentThisSession
        /\ \A s \in Sizes : pins[s] # 0 => s = 0 \/ s \in SentThisSession
        /\ ladder = Ladder
        /\ \A i \in 1..Len(HuntSizes) :
             /\ HuntSizes[i] \in unsubscribed <=> i < rung /\ requestToSize[i + 1] = None
             /\ i >= rung => requestToSize[i + 1] = None
        /\ pc \in ReadingPCs => rung = Len(HuntSizes) + 1

\* Pins are of this session; the quote in hand is pinned; rows are not newer
\* than the pins of the session.
StampsAgree ==
    /\ \A s \in Sizes : pins[s] # 0 => pins[s] > sessionFrom /\ pins[s] <= quotes
    /\ \A s \in Sizes : rows[s].stamp <= quotes
    /\ quote # None => quote.stamp = pins[quote.size] /\ quote.size \in {quote.origin, 0}
    /\ pc \in SessionPCs => \A s \in Sizes : rows[s].stamp > sessionFrom => pins[s] >= rows[s].stamp

BoardIsCurrent ==
    (pc \in {"read", "record"} /\ ~lostBoard) => board = [s \in Sizes |-> Entry(s)]

One(condition) == IF condition THEN 1 ELSE 0
CountersBound ==
    /\ frames + One(quote # None) <= quotes + 1
    /\ decoded + One(quote # None) <= quotes + 1
    /\ served + One(pc = "row") <= quotes + 1
    /\ ~torn => frames = decoded /\ served = decoded + One(pc \in {"board", "record"})

IInv ==
    /\ TypeOK /\ RegistryAgrees /\ SessionAgrees /\ StampsAgree /\ BoardIsCurrent /\ CountersBound
    /\ RowUnderItsSize
=============================================================================
