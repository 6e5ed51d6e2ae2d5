# feed-mux in TLA+

feed-mux is one Rust process that keeps a few upstream feeds open (a Titan
quote WebSocket, a Triton gRPC stream, Solana shreds over UDP), republishes two
of them to any number of local clients, and writes what it learned to Redis,
where other processes ("eyes", "hunters") read it. This directory models it in
TLA+: modules that TLC checks on small instances, and theorems about them that
TLAPS proves for every value of the constants.

Code paths below are relative to `../src/src`.

Contents: [1 the system](#1-the-system-inventory) ·
[2 the plan](#2-the-plan) · [3 the modules](#3-the-modules-and-the-code) ·
[4 the runs](#4-the-runs) · [5 fairness](#5-fairness) ·
[6 the proofs](#6-the-proofs) · [7 where code and docs differ](#7-where-the-code-and-its-documentation-differ) ·
[8 what is not modelled](#8-what-is-not-modelled)

## 1. The system: inventory

| component | source | state | operations | talks to |
|---|---|---|---|---|
| Titan live loop | `upstream/titan.rs` | `connected`, backoff, session clock, `received_data` | dial, set up, read, close, mark disconnected, wait | Titan relay, Redis, rate limiter, quotes |
| Reconnect backoff | `ws_reconnect.rs` | `current` delay | `wait`, `reset`, `should_reset_backoff`, error classes | carried by both live loops |
| Titan local relay | `titan_local.rs` | flag, broadcast channel (256), one task per client | store flag + send event, publish frame; greet, forward, lag, leave | fed by the Titan loop |
| Titan quotes | `titan_quote.rs`, `upstream/titan.rs` | stream registry, size board | subscribe a rung, register a stream, decode a quote, publish (3 Redis calls) | Redis, rate limiter |
| Redis fan-out | `redis_fanout.rs` | one connection behind a lock; keys in Redis | boot resets, flags, rows, board, counters, heartbeat, pub/sub | everyone |
| Triton live loop | `upstream/triton.rs` | `connected`, `auth_blocked`, backoff | dial, stream, classify the end, wait or halt for good | Triton relay, Redis |
| Triton local relay | `triton_local.rs` | flag, broadcast channel (256), one stream per call | look at the flag, join, forward until "down" | fed by the Triton loop |
| Shred listener | `upstream/triton_shred.rs` | UDP socket, `ShredStats`, the shred keys in Redis | bind, reset, receive, parse, push, publish | Redis, reassembler |
| Shred parsing and reassembly | `shred/*.rs` | buffer of FEC sets | parse header, push a shred, cut a batch, trim the oldest sets | listener |
| Rate limiter | `rate_limit.rs` | one token bucket per provider, one token a second | try to take a token | connects, Titan rungs, Triton pings, `poll_stub` |
| Process | `main.rs`, `lib.rs`, `deploy/feed-mux.service` | boot order; restarted by systemd | connect Redis once, reset, spawn, serve | all |
| Upstream hub | `upstream/mod.rs` | the upstreams that are configured | construct, spawn or poll each | all |
| HTTP | `http.rs` | none of its own | `/health`, publish endpoint | reads the flags and counters |
| Configuration, mock, Helius and Chainstack stubs | `config.rs`, `mock.rs`, `upstream/*.rs` | none | | |

Every task runs on one tokio runtime: a task can be interrupted by any other at
each `await`, and on a multi-threaded runtime between any two stores.

What is hard here, and what makes each part correct:

* **Connectivity is kept three times** - in the loop (`/health`), in Redis keys,
  and in the relay (flag and event) - by separate writes with awaits between
  them, any Redis write of which may be lost. *Correct:* after a session no copy
  says "up" for longer than the clears that were lost explain; the in-process
  copies disagree only inside one rise or one mark.
* **A client can join a relay in the middle of a change**, and a slow client
  loses events, status events included. *Correct:* a Titan client with nothing
  left to read knows that a down upstream is down; a Triton stream ends with
  the upstream session it belongs to, or a named event was lost.
* **Streams are identified by numbers the server chooses**, new on every
  connection, and a quote may overtake the response that names its stream.
  *Correct:* a Redis row of a size holds a quote asked for that size.
* **A quote is published by three Redis calls**, pipes but not transactions.
  *Correct:* between two quotes board, rows and counters agree unless a write was
  lost. The row is written before the board, so a hunter that reads between the
  two finds that one row ahead; no other row of the session ever is.
* **Loops must come back** from every error they may retry, at the configured
  pace, and the pace must return to normal after a healthy session; from a
  denial of the Triton stream they must not, and `/health` must say so.
* **Restarts** find the Redis keys of the predecessor. *Correct:* what it left
  is visible only until the next reset, unless a write was lost.
* **One lock** around one Redis connection serves every task: the boot reset, the
  feeds, the heartbeat, `POST /publish` handlers that can be dropped while they
  wait. *Correct:* a heartbeat vouches for flags of its own process; a settled flag
  is what its feed last said; everyone is served.
* **One token a second** is all a provider's bucket gains, whatever its limit, and
  the reconnects, the ladder, the Pongs and a poll nobody needs take from it.
  *Correct:* no second grants more than the limit and one; a sweep gets what the
  bucket owes it after its pause.
* **Shreds** arrive in any order, duplicated and incomplete, in a bounded
  buffer. *Correct:* a batch holds what arrived of its set; only sets older than
  enough others are given up.

The list with one line of code each is `hazards` in `PROJECT.json`.

## 2. The plan

The order follows what a reader of the system relies on most: first whether the
mux tells the truth about its connections, then what it publishes, then shreds.

| # | modules | state |
|---|---|---|
| 1 | `Backoff`, `FeedSignal`, `TitanUpstream` | modelled, checked, proved |
| 2 | `TitanLocalRelay` over `FeedSignal` | modelled, checked, safety proved |
| 3 | `TitanQuotes` | modelled, checked, proved |
| 4 | `TritonUpstream`, `TritonLocalRelay` | modelled, checked, safety proved |
| 5 | `ShredReassembler`, `ShredParse`, `ShredListener` | modelled, checked, proved |
| 6 | `RateLimit`: the bucket of `rate_limit.rs` under its takers | modelled, checked, proved |
| 7 | `FeedMux`: the boot order of `lib.rs` and the one lock around the Redis connection | modelled, checked, safety proved |
| 8 | `TitanFeed`, `TritonFeed`: each live loop with its relay and the relay's clients | modelled, proved |
| 9 | `TitanHunt`: the Titan loop with the quotes of its sessions, as a hunter reads them in Redis | modelled, proved |
| 10 | `ShredFeed`: the shred listener with the buffer it owns | modelled, proved |

**Composition.** A live loop and its relay are checked against one interface,
`FeedSignal`: what a publisher may do to the relay's flag and channel. Each loop
implements it (refinement mapping `flag <- relayUp, last <- signal, beat <- beat`,
property `ImplementsFeedSignal`), and each relay is driven by *any* publisher that
keeps it (the relays' next-state relations are built from `Raise`, `Lower`,
`SendStatus`, `SendFrame` and `Restart`). So what is shown of a relay holds behind
either loop, without multiplying their state spaces. `ShredListener` EXTENDS
`ShredParse`; the reassembler is there a choice between the results that
`ShredReassembler` can have. `FeedMux` composes what the other modules take one at a
time: the boot, the three feeds, the heartbeat and the HTTP handlers behind the one
lock. It keeps of each feed its flag and the shape of its operations, which is
what the lock interleaves.

`TitanFeed` and `TritonFeed` put loop and relay together after all: `LoopDrivesRelay`
proves that the relay behind the loop does nothing it does not do behind the free publisher, and
with that a property that neither side can state alone, that `GET /health` and the
local clients agree. `TitanHunt` does the same for the loop and the quotes: `LoopDrivesQuotes`,
and then that `pairs_live` and the size board agree. `ShredFeed` puts the real buffer where
`ShredListener` has a choice: `FeedIsListener`, and then that no datagram is deshredded twice.

**Theorems.** Every safety property the runs check, invariant or action property, is a theorem,
and so are the safety halves of the refinements, the four compositions with the property each was
made for, and the order of the lock. Of the liveness properties, the part that needs no
fairness is proved for the loops (`OwnStepsAreFew`). What is left is fairness itself, which
stays with TLC.

## 3. The modules and the code

The map from every definition to its lines is `map` in `PROJECT.json`. In every
module a step is what runs between two points at which something else can
intervene: an `await`, or a store another thread can see. Operators named
`X_Something` next to `X` are mutants, the form `X` would have with a plausible
bug; nothing uses them in the specifications.

### `Backoff`

The operators of `ReconnectBackoff` and `should_reset_backoff`: the clamping of
`new`, the doubling with its cap, and `Delay(n)`, the closed form the doubling is
compared with. A live loop keeps `current` as its variable.

### `FeedSignal`

The abstract specification between a live loop and its relay: a raised or
lowered flag is announced by its event before the next store, frames flow only
under an announced "up", and a store is announced eventually.

### `TitanUpstream`

`run_live_loop`, `run_session` and `mark_titan_disconnected`, one action per stretch
between awaits. `pc` follows the code: `boot`, `connect`, `riseUp`/`riseRelay`/`riseSend`
(the three rises after the handshake), `setup`, `read`, `close`, the four steps of
the mark (`markUp`, `markPairs`, `markRelay`, `markSend`; `after` says
where it returns), `okArm`/`errArm`, `wait`. Redis keys
(`titanUp`, `pairsLive`) can fail to be written (`LoseClear` and the else-branches), the boot
reset can be cut short, and `Crash` leaves Redis as it is. History variables count
lost clears and waits; no guard reads them but to stop counting at the bound.

`StepsLeft`, at the end of `TitanUpstream` and of `TritonUpstream`, counts for every place the
steps the loop still makes on its own before it waits for the peer again, or has ended;
`OwnStepsRunOut` says that each of them lowers the count and that time alone leaves it.

### `TitanLocalRelay`

The flag, `broadcast::channel` and `serve_client`. `pending[c]` is what the channel
holds for the receiver of `c`; `Push` is the ring buffer (the oldest event is
overwritten and the receiver learns `Lagged` at its next receive). `Subscribe`
joins the channel *before* the flag is loaded; a write to the client's socket is a phase
of its own, in which events pile up.

### `TitanQuotes`

An open session: subscribing the rungs of the ladder (each with or without a
token), responses and errors in any order, quotes that may overtake the response
of their stream, `resolve` by stream or by amount, and `publish`: row and served
counter, board, frame counters, three calls that can each be lost or cut. Rows
expire; sessions reopen with the stream identifiers dealt anew; the process
restarts over what Redis holds.

### `TritonUpstream` and `TritonLocalRelay`

The same skeletons with the differences that matter: an error's text decides
between retry and a permanent halt, and the text itself is cut by
`grpc_error_summary`, which can panic (`SummaryPanics`). The two are independent, so there are
four classes of errors: a denial whose text has no 401 or 403 is cut for its log line too, after
`auth_blocked` is stored and before the `break`, and ends the loop by the panic (or by
the `break`, where `RUST_LOG` drops errors and the line is never written). `subscribe` looks at the flag
*before* it joins the channel, forwards no status event, and ends the stream at a
"down".

### `TitanFeed` and `TritonFeed`

Each EXTENDS the live loop and takes the relay as `Relay == INSTANCE ... WITH flag <-
relayUp, last <- signal`. A step of the whole is a step of the loop, and if that step is a
`tx.send` it is at once the relay's `Broadcast`; or it is a step of one client, which leaves the
loop alone. The loop's order (the copy of `/health` first, the relay's flag and event last)
and the relay's (join, lag, forward) meet here. `HealthMatchesClients`: outside
one rise or mark, a Titan client with nothing left to read was last told what `/health` says (one that
lagged, when that is "down"). `StreamsMatchHealth`: while `/health` says that Triton is not
connected, a stream still open with nothing to come missed its "down".

### `TitanHunt`

EXTENDS the live loop and takes `Quotes == INSTANCE TitanQuotes WITH pc <- place`: one task, so a
step of the quotes happens only where the loop is at it (the registry is cleared with the event
"up", the rungs are subscribed at `setup`, a frame's handler runs at `handle`). This is
what a hunter meets in Redis: `pairs_live`, which the loop raises and clears, and the size board,
which sessions publish and nothing clears when one ends. `LivePairsOnBoard`: a hunter that
reads `pairs_live = 1` finds quotes on the board, all of the session opened last, unless a clear of
`pairs_live` or the last write of the board was lost. Two pipes (`reset_titan_state_at_boot`,
`record_titan_quote_success`) write keys of both modules; each module chooses for itself how far
such a pipe got, so there are more outcomes here than in the code, never fewer.

### `ShredFeed`

EXTENDS `ShredListener` and `ShredReassembler`: the listener's choice between "no batch" and "a
batch" becomes what `push` returned, and the buffer dies with the process. `ShredsAreReceived`:
the shreds handed on in batches, those held and the one in hand are never more than `/health` counts as
received, so no datagram is deshredded twice, in whatever order they come.

The four composed modules are for the proofs and belong to no run: their state spaces are
products. Their properties and strengthenings were explored with TLC on smaller instances (one rung, one
client, few datagrams) while they were written.

### `ShredReassembler`, `ShredParse`, `ShredListener`

`ShredReassembler` is `push` as one step (it holds no await): insert, cut when the
flagged shred is in, trim. `ShredParse` holds the bounds arithmetic of the parser
over packets `[len, kind, declared]`. The names of the reassembler's specification begin with
`Buffer`, so that the proofs can take it and the listener together. `ShredListener` is `run_udp_loop`: the boot decision
(spawned or not), the bind, the reset of the shred keys, then receive, parse,
push and publish, with the counters kept in `ShredStats` and, by pipes that can be
cut after any command (`Place`), in Redis.

### `RateLimit`

The bucket of one provider, Titan's or Triton's, and everyone who takes from it:
`GetInfo` and one request per rung when a Titan session opens, one token before
each Triton connect and one per Pong, and `poll_stub` every ten seconds. A
tick is one second, governor's continuous refill taken a token at a time. `try_acquire`
never waits, so a taker without a token skips (ladder, Pong, poll) or fails
(Triton's connect, which the loop then retries after its backoff). The history
variable `goal` is what a sweep may count on when it begins.

### `FeedMux`

`run()` stage by stage (`down`, `reset`, `spawned`, `serving`) and the tasks it spawns.
`todo[t]` holds the operations a task has begun or is about to make, each a sequence of Redis
calls made under one hold of the lock; `queue` is tokio's FIFO lock, its head the
holder. `Answer` applies a call, applies a part of it or loses it, and goes on
either way, as the code does. `store` keeps the three flags and the heartbeat, with "old" for
what an earlier process wrote. `Cancel` drops a POST handler wherever it is, in the
queue or holding the lock; `Exit` ends the process at any step, also when the HTTP
address cannot be bound. In a dry run nothing takes the lock. Two action properties say what the lock
is: `NoOvertaking`, a task that waits is never passed by one that asks later, and `LockIsKept`, the
calls of one operation are made under one hold. A third, `FlagsHaveOwners`, says who may write: a flag
changes by the boot reset before the feeds run, and by its own feed afterwards, never to an
"up" the feed has taken back. They are proved, and `EveryoneIsServed` is what the first two come to in a run.

## 4. The runs

| run | bounds | shows |
|---|---|---|
| `titan_loop` | 1 tick = 2.5 s: delays 2 and 12, threshold 2; `LostCap` 3, `StreakCap` 4 | `StaleNeedsLostClears`, `PairsNeedQuote`: a Redis key that says "up" without a session has outlived lost clears, how many depends on where the loop is. `HealthMatchesRelay`: the two in-process flags differ only inside a rise or a mark. `BackoffTracksStreak`: the delay is the initial one doubled per wait since the last healthy session that ended without an error; an error never resets it. `ImplementsFeedSignal`. `EndIsAnnounced`, `NeverGivesUp`: every end reaches clients and leads back to dialling. |
| `titan_relay` | 2 clients, capacity 2 | `DrainedKnowsStatus`, `FramesUnderUp`: a client with nothing left to read has the right picture, and frames reach it only under an "up"; `DownReachesClients` under fairness, lag included |
| `titan_quotes` | 2 sizes, 2 stream identifiers (symmetric), 2 quotes | `RowUnderItsSize`, `BoardIsOfThisSession`, `FlagsAreHonest`, `CountersAgree`; `OnlyRowInHandIsAhead`: at no moment of a session does a hunter find a row of it ahead of the board, but that of the quote being published, between its first two calls |
| `triton_loop` | 1 tick = 1 s: delays 5 and 30, threshold 5; `LostCap` 3 | `StaleNeedsLostClears`, `ImplementsFeedSignal`, `EndIsAnnounced` as `titan_loop`, and `DenialIsFinal`: from a denied error on nothing is dialled until the process dies, and `/health` reports a denial exactly when one has ended the loop, by its `break` or by a panic |
| `triton_summary_panics` | the same | a violation, see section 7 |
| `triton_relay` | 2 clients, capacity 2 | `OpenNeedsMissedDown`, `StreamIsOneSession`; `DownEndsStream` under fairness |
| `shred_reassembly` | 4 sets of 3 shreds, one set never flagged, room for 2 | `BatchIsWhatArrived`, `OnlyOldestDropped`; the buffer bound is part of `TypeOK` |
| `shred_holes` | the same | a violation, see section 7 |
| `shred_listener` | 4 datagrams, prefix 8, estimates 1 and 2, 2 hits, counters up to 2 | `CountersFollowHealth`: a Redis counter never runs ahead of `/health` and is behind only by lost writes. `GhostsNeedLostWrites`: what a predecessor left outlives the next bind, or its failure, only by a lost write |
| `rate_limit` | burst 8, ladder of 5 rungs | `NeverOverRate`: no second, wherever it begins, grants more than the limit and one. `SweepGetsItsShare`: however fast the upstream drops the loop, a sweep gets the tokens owed to it |
| `rate_limit_rps` | the same | a violation, see section 7 |
| `feed_mux` | 1 handler of `POST /publish`, at most 2 of the 3 feeds configured, a lost write outstanding for one task at a time (`MaxLost` 1) | `BeatVouchesForFlags`, `SettledFlagsAreTrue`; `EveryoneIsServed` under fairness |

Why the bounds suffice:

* *Loops.* A lost clear matters up to three in a row, where the properties stop
  counting (two for Triton, which has one key); four waits take the delay from the
  initial one past the cap, and the cap lies between two powers of two, as in
  the program.
* *Relays.* With capacity 2 a third event makes a receiver lag, and the overwritten
  event can be a "down", an "up" or a frame, alone or with its successor. Two
  clients share the channel without sharing state, so two show what a second
  receiver could disturb. The code's capacity is 256; the proved properties hold
  for any.
* *Quotes.* Two sizes and two identifiers are the least with which an identifier
  can name the wrong size after a reconnect; two quotes can be of one size or two,
  of one session or two.
* *Reassembly.* One set more than fits twice: an old set can be evicted by two newer ones,
  come back late and be evicted at once. The code's floor is 16.
* *Listener.* One datagram of each class: accepted, cut below its declared size by
  the buffer, a coding shred, too short once the prefix is gone.

* *Rate limit.* Six requests a sweep from a bucket of eight: two quick reconnects drain
  it, so both full and partial grants occur, and a sweep of six can still be owed in
  full. The defaults (`config.rs:63,68`: 25 and 15) are only slower to drain; the
  properties are proved for every limit and ladder.
* *Process.* Two feeds, the heartbeat, the main task and a handler are enough for
  every kind of task to wait behind every other. The feeds write different keys, so a
  third only lengthens the queue. One lost write at a time suffices to break a flag,
  and to explain it.

No run switches deadlock checking off.

## 5. Fairness

* Both loops: `WF(LoopStep)`, the steps the task takes on its own. The runtime
  schedules a ready task, and a Redis call returns, with a result or an error.
  What the peer decides (connecting, frames, errors, the close) is unfair: no
  timeout guards it. So `NeverGivesUp` counts waiting for the peer as back.
* `WF(PublishStatus)` in the relays: the send follows the store in the same
  synchronous call. This is also the liveness half of `FeedSignal`, which the loops
  are checked to give.
* `TitanLocalRelay`: `WF(Serve(c))` for a scheduled task, and `SF(Receive(c))`. Strong, because each lag
  makes the receiver find `Lagged` instead of an event: the property needs that a
  client is not lagged *for ever*. The events that count, after the "down", are
  the few status events of a reconnect each 5 s or more, against a capacity of 256.
* `TritonLocalRelay`: `WF(Serve(c))` alone; a stream that lagged is excepted in the property.
* A process may die at any step, and is never obliged to come back.
* `FeedMux`: `WF(Lock(t))` for every task: a task that can run does, tokio's Mutex hands
  the lock over in order (part of the model, not of the fairness), and Redis answers
  every call or the call fails. This last is an assumption about the connection: nothing
  in `redis_fanout.rs` bounds how long a call may take. What tasks decide to write, and
  whether clients come or go, is unfair.
* `TitanQuotes`, `RateLimit` and both shred modules check safety only.

## 6. The proofs

Each `*_proofs` module EXTENDS the module it is about (those of the loops by way of
`TitanFeed`, `TitanHunt`, `TritonFeed` and `ShredFeed`). The assumptions are the named
ASSUMEs of that module: that delays and bounds are numbers, that a capacity is at
least one, that lost clears are counted far enough to tell them apart,
that a streak of waits is counted until the delay is at its cap (`StreakCapAssumption`), that handlers of
`POST /publish` are tasks distinct from the others (`PostsAssumption`). TLC
evaluates them in every run. What a composed module instantiates brings its assumptions as
hypotheses: `ClientsAgreeWithHealth` and `StreamsAgreeWithHealth` take the relay's (a capacity of at
least one; the code has 256), `LivePairsAreOnBoard` takes those of `TitanQuotes` (`QuotesConstants`: a
ladder of different sizes in increasing order, as `titan_quote.rs:166` sorts and dedups it).

| module | theorems | argument |
|---|---|---|
| `TitanUpstream_proofs` | `TypeCorrect`, `StaleKeysAreExplained`, `PairsAreQuoted`, `HealthAgrees`, `RefinesFeedSignal`, `BackoffTracks`, `OwnStepsAreFew`, `LoopDrivesRelay`, `ClientsAgreeWithHealth`, `LoopDrivesQuotes`, `LivePairsAreOnBoard` | `IInv == TypeOK /\ CopiesFollowLoop /\ ClearsCounted`. The properties speak of a few places of the loop; to get there the invariant has to say, for *every* place, which copy may say "up" (`CopiesFollowLoop`) and how many clears have been tried since the key was last set (`ClearsCounted`, over every path into the mark). `HealthAgrees` and the refinement need the first, the keys need both. `BackoffTracks` is an invariant of its own: each wait takes `Delay(n)` to `Delay(n + 1)`, since 2^(n+1) is twice 2^n (`PowerDoubles`, counted on the subsets of 1..n). `LoopDrivesRelay`: under `IInv` each kind of step of `TitanFeed` is an action of the relay or leaves it alone. `ClientsAgreeWithHealth` takes `StatusIsKnown` of the relay and the equality of the copies from `CopiesFollowLoop`. `LivePairsAreOnBoard` needs `HuntInv`: which places of the loop and of the quotes go together (`PlacesMatch`), that the loop counts a quote only after the board that shows it (`QuotedIsOnBoard`), and that `pairs_live` is raised with it and cleared before the next session forgets it (`LiveIsQuoted`). That the board has only quotes of this session is `BoardIsBuilt`, from the invariant of `TitanQuotes`. |
| `TritonUpstream_proofs` | `TypeCorrect`, `StaleKeysAreExplained`, `DeniedLoopsEnd`, `RefinesFeedSignal`, `OwnStepsAreFew`, `LoopDrivesRelay`, `StreamsAgreeWithHealth` | the same invariant, with the halt and the panic as places where the loop has ended, and that a session that fails has either raised both in-process copies or none. `DenialStands` follows a denied error from the Err arm through the mark to the end of the loop, so that no step in between dials or forgets it. The composition as in `TitanUpstream_proofs`, with `OpenMissedItsEnd` of the relay |
| `TitanLocalRelay_proofs` | `TypeCorrect`, `StatusIsKnown`, `FramesAreUnderUp` | `DownOnItsWay`: while the upstream is down and announced, the *newest* thing on its way to a client is that announcement, or the client has it. Overwriting removes the oldest, so lag cannot take it. For each client, `InStep` says that the newest status event its queue holds is the announced one (or it has been told, or lost it to lag), and `InOrder` that no frame directly follows a "down", in the queue or where the queue joins what was sent. |
| `TritonLocalRelay_proofs` | `TypeCorrect`, `OpenMissedItsEnd`, `StreamsAreOneSession` | `EndOnItsWay`: a stream still holds its "down", or joined after it, or has lost it. `EachIsOneSession`: what a stream has sent, and what its queue holds before the next "down", is of one session |
| `Shred_proofs`, the reassembler | `BufferTypeCorrect`, `BatchesAreWhatArrived`, `DropsOnlyOldest` | `HeldArrived`: the buffer holds of a set exactly what arrived since its last cut, or a part of it if the set was dropped. The bound and the order of eviction are counted: the sets that have at least `MaxSets` newer ones are exactly those outside the `MaxSets` newest. |
| `Shred_proofs`, the listener | `PayloadInBounds`, `PacketInBuffer`, `TypeCorrect`, `CountersAgree`, `GhostsAreExplained` | `NothingCounted` (before the reset the process has counted nothing) makes the agreement of the counters inductive; each pipe is taken at each place it can be cut |
| `Shred_proofs`, the two together | `FeedIsListener`, `FeedKeepsBuffer`, `NoDatagramTwice` | Every step is a step of the listener, and one of the buffer, none, or its loss in a restart, so both invariants carry over. `PushCount`: a push leaves at most one shred more than there was, what it cut out included; it is counted on the union of what is held and what was cut. |
| `TitanQuotes_proofs` | `TypeCorrect`, `RowsAreUnderTheirSize`, `BoardIsOfItsSession`, `RowsAheadAreInHand`, `FlagsAreAlwaysHonest`, `CountersAlwaysAgree` | `RegistryAgrees`: a stream identifier means the same rung to the registry, to the responses on their way and to the server. `SessionAgrees`: the flagged rungs are exactly those passed over so far, and only sent rungs have quotes. `StampsAgree`: pins are of this session, the quote in hand is pinned, and no row of this session is newer than its pin. `BoardIsCurrent`: between quotes the board is what memory would build, unless its write was lost. `CountersBound`: while nothing was torn, each counter is level but for the quote in hand. `RowsAheadAreInHand` is inductive beside it: where the board was just built no row is ahead of it (`BuiltIsLevel`), and the only step that writes a row writes that of the quote in hand. |
| `RateLimit_proofs` | `TypeCorrect`, `RateIsKept`, `ShareIsGranted` | `GrantsAreSpent` (what was granted lately is no longer in the bucket) gives the rate. For the share: `WaitIsQuiet` (every wait is at least the shortest backoff of quiet), `Accrued` (quiet ticks have become tokens, less one per poll) and `ShareIsKept` (while a sweep runs the bucket still covers what it is owed, and the poll that may fall in between). |
| `FeedMux_proofs` | `TypeCorrect`, `BeatVouches`, `SettledFlags`, `FlagsAreOwned`, `LockInOrder`, `LockUntilDone` | `EachItsOwn`: every task has only calls of its own to make, the boot's are over before any other begins. `ResetIsMade`: each flag the reset was to overwrite is overwritten, lost, or still to do. `SaidIsWritten`: what remains of a feed's operations ends with the flag it last said, or that flag is in Redis or lost. One call of one task at a time, the head of the queue, so what a task has left to do is untouched by the others. `FlagsAreOwned` follows from the same invariant: a call for a flag is its own feed's (`EachItsOwn`), and the value is one the feed stands by. The two theorems about the lock need only that no task is queued twice (in `TypeOK`): every step appends to the queue, drops its head, or takes one task out (`QueueSteps`). |

Refinement is proved for its safety half, `Spec => Feed!FSafe`; the fairness half
stays with TLC.

Only model-checked: `EndIsAnnounced`, `NeverGivesUp`, `DownReachesClients`, `DownEndsStream`
and `EveryoneIsServed`, and the fairness half of the two refinements: fairness and ENABLED are beyond
the prover. Of `NeverGivesUp` the safety half is proved: the loops' own steps run out
(`OwnStepsAreFew`). That the loop takes them (fairness), and that one is enabled wherever the count is not
zero, TLC shows. Induction over data is beyond it too. Where a proof counts (the buffer's sets,
the powers of two) it does so with the facts about finite sets in `FiniteSetTheorems`.

## 7. Where the code and its documentation differ

Each of these is a run that expects its property to be violated.

* `triton_summary_panics` - `grpc_error_summary` (`ws_reconnect.rs:185`) slices the error text
  at byte 200. If a character lies across it, the Triton task panics: it never
  reconnects, and `/health` says "live/connecting" from then on. The class is documented
  as "backoff and retry". (In the arm of a denial the same panic comes after `auth_blocked` is stored:
  the loop was about to end, and `/health` shows the denial. `DenialIsFinal` covers it.)
* `shred_holes` - a set is cut when the flagged shred is in, complete or not; the doc comment
  says "when the FEC set completes".
* `rate_limit_rps` - the bucket gains one token a second whatever the limit; the limit is only
  its burst (`rate_limit.rs:17`). `README.md:141` calls it a "rate limit" in requests a
  second: once the burst is spent, requests are refused although far fewer were granted
  in the last second.

More things a reader should know, which the passing runs allow for:

* An `Err` end of a session never resets the backoff, however long the session had streamed
  (`titan.rs:285`; `BackoffTracksStreak` counts that session's wait in the streak).
* The session clock starts before the handshake (`titan.rs:310`), so a slow handshake that is
  closed at once can reset the backoff, which the docs reserve for a session that stayed up.
* A rung the server refused is shown on the board without a status, as a live one
  (`titan_quote.rs:227`); `FlagsAreHonest` says what a flag does mean.
* `shred_up` is written only by a listener that was spawned: after a restart with the
  listener off the key stays as it was (`triton_shred.rs:223`). `BeatVouchesForFlags` excepts it.
* A boot reset that fails is only logged, so old counters stay (`torn` in `TitanQuotes`,
  `"main" \in lost` in `FeedMux`).
* A listener that cannot bind leaves the counters of its predecessor in Redis while
  `/health` shows zeros.
* Shreds are not deduplicated over a cut: a flagged shred that comes again after its set was cut makes a
  batch of its own (`reassembly.rs:24`), and its transactions and hits count again. `ShredsAreReceived`
  says that this takes a second datagram.
* After a disconnect the board stays in Redis (`titan.rs:423`); `pairs_live` is what disowns it
  (`LivePairsAreOnBoard`).
* No call in `redis_fanout.rs` has a timeout, so a Redis that stays silent holds the lock,
  and with it every feed, the heartbeat and the boot.
* The limits default to 25 and 15 (`config.rs:63,68`); `README.md:137,141` says 50 and 30.

## 8. What is not modelled

* Payloads: msgpack and protobuf decoding, route selection, Solana entries, the scan
  for vault keys. What the control needs of them (a quote or not, of which stream, how
  many hits) is a choice.
* The layout of the shred header: the parser's bounds are there, the fields are not.
* Counters no property speaks of (errors, `fell_through`, the Triton frame counters),
  timestamps, and the contents of pub/sub messages (`FeedMux` has them as calls that hold the lock).
* The bucket and the lock outside their own modules: elsewhere a token is there or not, and a Redis
  call is a step that succeeds or fails; `RateLimit` and `FeedMux` say when.
* The absence of a relay (it is optional in the code): the loops are modelled with one.
* The mock publisher (dry run only; its publish returns before the lock), the Helius and
  Chainstack stubs (they hold no connection and take no token) and configuration, which is the
  constants of the models. Of a dry run `FeedMux` has that it spawns no feed and writes nothing.
* `GET /health` and the `status` calls: reads of flags and counters that the modules keep.
