----------------------------- MODULE FeedMux -----------------------------
(***************************************************************************)
(* The process as a whole: run() of src/src/lib.rs with the tasks it       *)
(* spawns, and the one lock around the one Redis connection through which  *)
(* all of them write (RedisFanout.conn of src/src/redis_fanout.rs).        *)
(*                                                                         *)
(* An operation of RedisFanout takes the lock, makes its calls one after   *)
(* the other and lets the lock go; it holds the lock while it waits for    *)
(* Redis.  `todo' is the operations a task has begun or will make next,    *)
(* each a sequence of calls.  Inside a feed only the flag it keeps in      *)
(* Redis is looked at: what else the feeds write, and when they connect,   *)
(* is the business of TitanUpstream, TitanQuotes, TritonUpstream and       *)
(* ShredListener.                                                          *)
(*                                                                         *)
(* A call is applied or lost (or, a pipe, applied in part); the process    *)
(* may exit at any step, and Redis keeps what it wrote.  A new process is  *)
(* started five seconds later at the earliest, so no call of the old one   *)
(* is still on its way.                                                    *)
(***************************************************************************)
EXTENDS Naturals, Sequences, FiniteSets
LOCAL INSTANCE SequencesExt

CONSTANTS
    Posts,      \* concurrent POST /publish handlers
    MaxLost,    \* bound: as many tasks have a lost write at a time
    MaxFeeds    \* bound: as many feeds of the three are configured

Feeds == {"titan", "triton", "shred"}

ASSUME PostsAssumption == Posts \cap (Feeds \union {"main", "heart"}) = {}

Tasks == Feeds \union {"main", "heart"} \union Posts
Keys == Feeds \union {"beat"}    \* the three up flags and the heartbeat

VARIABLES
    stage,      \* how far run() has come
    dryRun, feeds,   \* configuration, read once by each process: the feeds it spawns
    redisConn,  \* RedisFanout.conn is Some
    todo,       \* the operations of each task
    queue,      \* who holds the lock, and who waits for it
    store,      \* the keys in Redis; "old": written by an earlier process
    said,       \* the value each feed has last decided to write
    \* history:
    lost        \* feeds and the main task, if calls of their last write were lost

config == <<dryRun, feeds, redisConn>>
vars == <<stage, config, todo, queue, store, said, lost>>

-----------------------------------------------------------------------------
(* The operations.  A call is the key it sets and the value; a call that    *)
(* touches none of the keys above has no key.                               *)

Other == [key |-> "none", value |-> "none"]
SetFlag(f, value) == [key |-> f, value |-> value]

\* set_titan_upstream_up clears pairs_live with a second call.
Flag(f, value) ==
    IF f = "titan" /\ value = "down" THEN <<SetFlag(f, value), Other>> ELSE <<SetFlag(f, value)>>

\* reset_titan_state_at_boot: the Titan pipe and the Triton pipe.
BootReset == <<SetFlag("titan", "down"), SetFlag("triton", "down")>>

\* heartbeat, and publish
Heartbeat == <<[key |-> "beat", value |-> "new"]>>
Publish == <<Other>>

\* One quote (row, board, counters), one Triton update (counters, the pub/sub
\* message), one datagram: the counters' pipe raises the flag.
Item(f) ==
    CASE f = "titan" -> <<<<Other>>, <<Other>>, Flag(f, "up")>>
      [] f = "triton" -> <<Flag(f, "up"), Publish>>
      [] f = "shred" -> <<Flag(f, "up")>>

-----------------------------------------------------------------------------
(* The lock: tokio's Mutex serves its waiters in order.                     *)

Waits(t) == todo[t] # <<>> /\ \A i \in 1..Len(queue) : queue[i] # t
Holds(t) == queue # <<>> /\ Head(queue) = t

\* Mutant: the last to come is served next.
Join_Barges(t) ==
    /\ Waits(t)
    /\ queue' = IF queue = <<>> THEN <<t>> ELSE <<Head(queue), t>> \o Tail(queue)
    /\ UNCHANGED <<stage, config, todo, store, said, lost>>

\* conn.lock().await
Join(t) ==
    /\ Waits(t)
    /\ queue' = Append(queue, t)
    /\ UNCHANGED <<stage, config, todo, store, said, lost>>

\* The rest of an operation; the last call lets the lock go.
Advance(t) ==
    LET calls == Tail(Head(todo[t]))
    IN  IF calls = <<>>
        THEN todo' = [todo EXCEPT ![t] = Tail(@)] /\ queue' = Tail(queue)
        ELSE todo' = [todo EXCEPT ![t][1] = calls] /\ UNCHANGED queue

\* Redis answers the call of the task that holds the lock, or the call fails:
\* the operation goes on either way.
Answer(t) ==
    /\ Holds(t) /\ redisConn
    /\ LET call == Head(Head(todo[t]))
           write == IF call.key = "none" THEN store ELSE [store EXCEPT ![call.key] = call.value]
       IN  \/ /\ store' = write
              /\ lost' = IF call.key = t THEN lost \ {t} ELSE lost
           \/ /\ store' \in {store, write}
              /\ lost' = IF call.key \in Feeds THEN lost \union {t} ELSE lost
              /\ Cardinality(lost') <= MaxLost
    /\ Advance(t)
    /\ UNCHANGED <<stage, config, said>>

\* There is no connection: every operation returns at once.
NotConfigured(t) ==
    /\ Holds(t) /\ ~redisConn
    /\ todo' = [todo EXCEPT ![t] = Tail(@)] /\ queue' = Tail(queue)
    /\ UNCHANGED <<stage, config, store, said, lost>>

-----------------------------------------------------------------------------
(* run() *)

\* Redis is tried once; a dry run neither connects nor resets nor writes.
Start ==
    /\ stage = "down"
    /\ dryRun' \in BOOLEAN
    /\ feeds' \in {on \in SUBSET Feeds : Cardinality(on) <= MaxFeeds}
    /\ redisConn' \in (IF dryRun' THEN {FALSE} ELSE BOOLEAN)
    /\ stage' = IF dryRun' THEN "spawned" ELSE "reset"
    /\ todo' = IF dryRun' THEN todo ELSE [todo EXCEPT !["main"] = <<BootReset>>]
    /\ UNCHANGED <<queue, store, said, lost>>

\* What a feed's task does first: the mark at the top of the live loops; the
\* reset and the raise of a listener whose socket is bound, or the clear of
\* one whose is not.
First(f) ==
    {<<Flag(f, "down")>>} \union (IF f = "shred" THEN {<<Flag(f, "down"), Flag(f, "up")>>} ELSE {})

\* spawn_live: the feeds that are enabled and complete.
SpawnFeeds ==
    \E first \in [Feeds -> UNION {First(f) : f \in Feeds}] :
        /\ \A f \in Feeds : first[f] \in First(f)
        /\ todo' = [t \in Tasks |-> IF t \in feeds THEN first[t] ELSE todo[t]]
        /\ said' = [f \in Feeds |-> IF f \in feeds /\ Len(first[f]) = 2 THEN "up" ELSE "down"]

\* Mutant: the reset is not awaited.
Spawn_NoAwait ==
    /\ stage = "reset" /\ stage' = "spawned"
    /\ SpawnFeeds
    /\ UNCHANGED <<config, queue, store, lost>>

\* The reset is over, complete or not; the feeds and the heartbeat are spawned.
Spawn ==
    /\ stage = "reset" /\ todo["main"] = <<>>
    /\ stage' = "spawned"
    /\ SpawnFeeds
    /\ UNCHANGED <<config, queue, store, lost>>

\* The HTTP listener is bound last.
Bind ==
    /\ stage = "spawned" /\ stage' = "serving"
    /\ UNCHANGED <<config, todo, queue, store, said, lost>>

\* The process dies, or returns because the HTTP address cannot be bound.
Exit ==
    /\ stage # "down" /\ stage' = "down"
    /\ dryRun' = FALSE /\ feeds' = {} /\ redisConn' = FALSE
    /\ todo' = [t \in Tasks |-> <<>>] /\ queue' = <<>>
    /\ store' = [k \in Keys |-> "old"]
    /\ said' = [f \in Feeds |-> "down"] /\ lost' = {}

-----------------------------------------------------------------------------
(* The tasks *)

Running == stage \in {"spawned", "serving"} /\ ~dryRun

Begin(t, operations) ==
    /\ Running /\ todo[t] = <<>>
    /\ todo' = [todo EXCEPT ![t] = operations]
    /\ UNCHANGED <<stage, config, queue, store, lost>>

\* The heartbeat task, once a second.
Beat == Begin("heart", <<Heartbeat>>) /\ UNCHANGED said

\* A session of a live loop opens, and ends.
Rise(f) ==
    /\ f \in feeds \ {"shred"} /\ said[f] = "down"
    /\ Begin(f, <<Flag(f, "up")>>)
    /\ said' = [said EXCEPT ![f] = "up"]

\* Mutant: the end of a session is not marked.
Fall_NoMark(f) ==
    /\ f \in feeds \ {"shred"}
    /\ Begin(f, <<>>)
    /\ said' = [said EXCEPT ![f] = "down"]

\* The mark when a session ends, and again at the top of every turn.
Fall(f) ==
    /\ f \in feeds \ {"shred"}
    /\ Begin(f, <<Flag(f, "down")>>)
    /\ said' = [said EXCEPT ![f] = "down"]

\* Something arrives in an open session, or at the listener's socket.
Receive(f) == said[f] = "up" /\ Begin(f, Item(f)) /\ UNCHANGED said

\* POST /publish; its handler is dropped when the client goes, wherever it is.
Post(p) == stage = "serving" /\ Begin(p, <<Publish>>) /\ UNCHANGED said

\* Mutant: a dropped handler keeps its place in the queue.
Cancel_KeepsPlace(p) ==
    /\ todo[p] # <<>>
    /\ todo' = [todo EXCEPT ![p] = <<>>]
    /\ UNCHANGED <<stage, config, queue, store, said, lost>>

Cancel(p) ==
    /\ todo[p] # <<>>
    /\ todo' = [todo EXCEPT ![p] = <<>>]
    /\ \/ Waits(p) /\ UNCHANGED queue
       \/ \E i \in 1..Len(queue) : queue[i] = p /\ queue' = RemoveAt(queue, i)
    /\ UNCHANGED <<stage, config, store, said, lost>>

-----------------------------------------------------------------------------
Init ==
    /\ stage = "down"
    /\ dryRun = FALSE /\ feeds = {} /\ redisConn = FALSE
    /\ todo = [t \in Tasks |-> <<>>] /\ queue = <<>>
    /\ store = [k \in Keys |-> "old"]
    /\ said = [f \in Feeds |-> "down"] /\ lost = {}

Lock(t) == Join(t) \/ Answer(t) \/ NotConfigured(t)

Next ==
    \/ Start \/ Spawn \/ Bind \/ Exit \/ Beat
    \/ \E t \in Tasks : Lock(t)
    \/ \E f \in Feeds : Rise(f) \/ Fall(f) \/ Receive(f)
    \/ \E p \in Posts : Post(p) \/ Cancel(p)

Spec == Init /\ [][Next]_vars

\* A task that can run does, and Redis answers every call or the call fails.
\* Nothing in redis_fanout.rs bounds how long that takes.
FairSpec == Spec /\ \A t \in Tasks : WF_vars(Lock(t))

-----------------------------------------------------------------------------
Calls == {Other} \union [key : Keys, value : {"down", "up", "new"}]

TypeOK ==
    /\ stage \in {"down", "reset", "spawned", "serving"}
    /\ dryRun \in BOOLEAN /\ feeds \subseteq Feeds /\ redisConn \in BOOLEAN
    /\ todo \in [Tasks -> Seq(Seq(Calls) \ {<<>>})]
    /\ queue \in Seq(Tasks)
    /\ \A i \in 1..Len(queue) : todo[queue[i]] # <<>>
    /\ \A i, j \in 1..Len(queue) : i # j => queue[i] # queue[j]
    /\ store \in [Keys -> {"old", "down", "up", "new"}]
    /\ said \in [Feeds -> {"down", "up"}]
    /\ lost \subseteq Feeds \union {"main"}

\* An eye that sees the heartbeat of a process may believe its flags: what an
\* earlier process wrote is gone by then, unless the boot reset was lost - or,
\* for the shreds, while no listener has reset them, which one that is switched
\* off never does.
BeatVouchesForFlags ==
    store["beat"] = "new" =>
        /\ \A f \in {"titan", "triton"} : store[f] = "old" => "main" \in lost
        /\ store["shred"] = "old" => "shred" \notin feeds \/ todo["shred"] # <<>> \/ "shred" \in lost

\* Whoever else writes in between: when a feed has made its calls and none of
\* its last write was lost, its flag in Redis is what the feed last said.
SettledFlagsAreTrue ==
    \A f \in feeds :
        (Running /\ redisConn /\ todo[f] = <<>> /\ f \notin lost)
            => store[f] = said[f]

\* Nobody who needs Redis waits for ever behind the others: not the heartbeat
\* behind a feed that has always more to write, nor the boot behind its reset.
EveryoneIsServed == \A t \in Tasks : (todo[t] # <<>>) ~> (todo[t] = <<>>)

\* Task s is before task t in the queue q.
Before(s, t, q) == \E i, j \in 1..Len(q) : i < j /\ q[i] = s /\ q[j] = t

\* Nobody gets before a task that is waiting already, neither by beginning
\* another operation nor when a handler is dropped from the middle.
NoOvertaking ==
    [][\A s, t \in Tasks :
        Before(s, t, queue') => Before(s, t, queue) \/ \A i \in 1..Len(queue) : queue[i] # t]_vars

\* The task that holds the lock keeps it until its operation is over: no other
\* call comes between the calls of one operation.  A handler that is dropped,
\* and the exit, end what there is to do.
LockIsKept ==
    [][\A t \in Tasks : Holds(t) /\ ~Holds(t)' => todo'[t] \in {<<>>, Tail(todo[t])}]_vars

\* A flag in Redis is changed by the boot reset while the feeds are not yet
\* spawned, and by its own feed afterwards: whatever waits in the queue, no "up"
\* appears there but from its feed, while the feed still says so.  (The exit
\* only makes what is there the word of an earlier process.)
FlagsHaveOwners ==
    [][\A f \in Feeds : store'[f] # store[f] =>
          \/ stage' = "down"
          \/ Holds("main") /\ stage = "reset" /\ store'[f] = "down"
          \/ Holds(f) /\ Running /\ f \in feeds /\ store'[f] \in {said[f], "down"}]_vars

-----------------------------------------------------------------------------
(* The strengthening of these (FeedMux_proofs).                           *)

\* Each task has only calls of its own to make, and none before it is spawned;
\* the boot's are over by then.
Own(t) ==
    \/ todo[t] = <<>>
    \/ t = "main" /\ stage = "reset" /\ todo[t] \in {<<BootReset>>, <<Tail(BootReset)>>}
    \/ t = "heart" /\ Running /\ todo[t] = <<Heartbeat>>
    \/ t \in Posts /\ Running /\ todo[t] = <<Publish>>
    \/ t \in feeds /\ Running

EachItsOwn ==
    /\ \A t \in Tasks : Own(t)
    /\ \A f \in Feeds : said[f] = "up" => Running /\ f \in feeds
    /\ redisConn \/ stage = "reset" => ~dryRun /\ stage # "down"

\* What the boot reset was to overwrite is overwritten, or it was lost.
ResetIsMade ==
    /\ store["beat"] = "new" => Running /\ redisConn
    /\ redisConn =>
         /\ store["titan"] = "old" => "main" \in lost \/ todo["main"] = <<BootReset>>
         /\ store["triton"] = "old" => "main" \in lost \/ todo["main"] # <<>>

\* Nothing of the flag that f last said is still to be written.
Written(f) == redisConn => f \in lost \/ store[f] = said[f]

\* What a feed last said is in Redis, or is lost, or is the last it has to write.
Saying(f) ==
    \/ todo[f] \in {<<>>, <<<<Other>>>>} /\ Written(f)
    \/ todo[f] = <<Flag(f, said[f])>>
    \/ said[f] = "up" /\ todo[f] = Item(f)
    \/ said[f] = "up" /\ f = "titan" /\ todo[f] = Tail(Item(f))
    \/ said[f] = "up" /\ f = "shred" /\ todo[f] = <<Flag(f, "down"), Flag(f, "up")>>

SaidIsWritten == Running => \A f \in feeds : Saying(f)

IInv == TypeOK /\ EachItsOwn /\ ResetIsMade /\ SaidIsWritten
=============================================================================
