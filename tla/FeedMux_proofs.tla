------------------------- MODULE FeedMux_proofs -------------------------
(***************************************************************************)
(* Proofs about the process, for any POST handlers and bounds: what a      *)
(* heartbeat vouches for, and what a settled flag says.                    *)
(***************************************************************************)
EXTENDS FeedMux, SequenceTheorems, TLAPS
LOCAL INSTANCE SequencesExt

Operations == Seq(Calls) \ {<<>>}

-----------------------------------------------------------------------------
(* The operations *)

LEMMA ShortSeq ==
  /\ \A a \in Operations : <<a>> \in Seq(Operations) /\ <<a>> # <<>>
  /\ \A a, b \in Operations : <<a, b>> \in Seq(Operations) /\ <<a, b>> # <<>>
  /\ \A a, b, c \in Operations : <<a, b, c>> \in Seq(Operations) /\ <<a, b, c>> # <<>>
  OBVIOUS

LEMMA FlagIs ==
  /\ \A f \in Feeds : Flag(f, "up") = <<SetFlag(f, "up")>>
  /\ Flag("titan", "down") = <<SetFlag("titan", "down"), Other>>
  /\ \A f \in {"triton", "shred"} : Flag(f, "down") = <<SetFlag(f, "down")>>
  BY DEF Flag, Feeds

LEMMA CallsTyped ==
  /\ Other \in Calls
  /\ \A f \in Feeds, v \in {"down", "up"} : SetFlag(f, v) \in Calls
  /\ [key |-> "beat", value |-> "new"] \in Calls
  BY DEF Calls, SetFlag, Keys

LEMMA OperationsTyped ==
  /\ \A f \in Feeds, v \in {"down", "up"} : Flag(f, v) \in Operations
  /\ BootReset \in Operations /\ Tail(BootReset) = <<SetFlag("triton", "down")>>
  /\ Heartbeat \in Operations /\ Publish \in Operations
<1>1. \A f \in Feeds, v \in {"down", "up"} : Flag(f, v) \in Operations
  BY CallsTyped DEF Flag, Operations
<1>2. BootReset \in Operations /\ Tail(BootReset) = <<SetFlag("triton", "down")>>
  BY CallsTyped DEF BootReset, Operations, Feeds
<1>3. Heartbeat \in Operations /\ Publish \in Operations
  BY CallsTyped DEF Heartbeat, Publish, Operations
<1> QED
  BY <1>1, <1>2, <1>3

LEMMA ItemIs ==
  /\ Item("titan") = <<<<Other>>, <<Other>>, Flag("titan", "up")>>
  /\ Item("triton") = <<Flag("triton", "up"), Publish>>
  /\ Item("shred") = <<Flag("shred", "up")>>
  /\ Tail(Item("titan")) = <<<<Other>>, Flag("titan", "up")>>
<1>1. \A a, b, c : Tail(<<a, b, c>>) = <<b, c>>
  OBVIOUS
<1>2. /\ Item("titan") = <<<<Other>>, <<Other>>, Flag("titan", "up")>>
      /\ Item("triton") = <<Flag("triton", "up"), Publish>>
      /\ Item("shred") = <<Flag("shred", "up")>>
  BY DEF Item
<1>3. Tail(Item("titan")) = <<<<Other>>, Flag("titan", "up")>>
  BY <1>1, <1>2, Zenon
<1> QED
  BY <1>2, <1>3

LEMMA ItemTyped == \A f \in Feeds : Item(f) \in Seq(Operations) /\ Item(f) # <<>>
<1>1. <<Other>> \in Operations /\ Publish \in Operations
  BY OperationsTyped DEF Publish
<1>2. Flag("titan", "up") \in Operations /\ Flag("triton", "up") \in Operations
      /\ Flag("shred", "up") \in Operations
  BY OperationsTyped DEF Feeds
<1>3. Item("titan") \in Seq(Operations) /\ Item("titan") # <<>>
  BY <1>1, <1>2, ItemIs, ShortSeq, Zenon
<1>4. Item("triton") \in Seq(Operations) /\ Item("triton") # <<>>
  BY <1>1, <1>2, ItemIs, ShortSeq, Zenon
<1>5. Item("shred") \in Seq(Operations) /\ Item("shred") # <<>>
  BY <1>1, <1>2, ItemIs, ShortSeq, Zenon
<1> QED
  BY <1>3, <1>4, <1>5 DEF Feeds

LEMMA FirstTyped == \A f \in Feeds : \A o \in First(f) : o \in Seq(Operations) /\ o # <<>>
<1> SUFFICES ASSUME NEW f \in Feeds, NEW o \in First(f) PROVE o \in Seq(Operations) /\ o # <<>>
  OBVIOUS
<1>1. Flag(f, "down") \in Operations /\ Flag(f, "up") \in Operations
  BY OperationsTyped
<1>2. o = <<Flag(f, "down")>> \/ o = <<Flag(f, "down"), Flag(f, "up")>>
  BY DEF First
<1> QED
  BY <1>1, <1>2, ShortSeq, Zenon

\* A task leaves the queue: the others keep their order.
LEMMA RemoveAtIs ==
  ASSUME NEW S, NEW q \in Seq(S), NEW i \in 1..Len(q)
  PROVE  /\ RemoveAt(q, i) \in Seq(S)
         /\ Len(RemoveAt(q, i)) = Len(q) - 1
         /\ \A j \in 1..(Len(q) - 1) : RemoveAt(q, i)[j] = IF j < i THEN q[j] ELSE q[j + 1]
<1> DEFINE before == SubSeq(q, 1, i - 1)
           after == SubSeq(q, i + 1, Len(q))
<1>1. /\ before \in Seq(S) /\ Len(before) = i - 1
      /\ \A j \in 1..(i - 1) : before[j] = q[j]
  OBVIOUS
<1>2. /\ after \in Seq(S) /\ Len(after) = Len(q) - i
      /\ \A j \in 1..(Len(q) - i) : after[j] = q[i + j]
  OBVIOUS
<1>3. RemoveAt(q, i) = before \o after
  BY DEF RemoveAt
<1> HIDE DEF before, after
<1>4. /\ before \o after \in Seq(S)
      /\ Len(before \o after) = Len(q) - 1
      /\ \A j \in 1..(Len(q) - 1) :
            (before \o after)[j] = IF j < i THEN before[j] ELSE after[j - (i - 1)]
  <2>1. /\ before \o after \in Seq(S)
        /\ Len(before \o after) = Len(before) + Len(after)
        /\ \A j \in 1..(Len(before) + Len(after)) :
              (before \o after)[j] = IF j <= Len(before) THEN before[j] ELSE after[j - Len(before)]
    BY <1>1, <1>2, ConcatProperties
  <2> QED
    BY <1>1, <1>2, <2>1
<1>5. \A j \in 1..(Len(q) - 1) :
        (before \o after)[j] = IF j < i THEN q[j] ELSE q[j + 1]
  <2> SUFFICES ASSUME NEW j \in 1..(Len(q) - 1)
               PROVE  (before \o after)[j] = IF j < i THEN q[j] ELSE q[j + 1]
    OBVIOUS
  <2>1. (before \o after)[j] = IF j < i THEN before[j] ELSE after[j - (i - 1)]
    BY <1>4
  <2>2. CASE j < i
    <3>1. j \in 1..(i - 1)
      BY <2>2
    <3> QED
      BY <1>1, <2>1, <2>2, <3>1
  <2>3. CASE ~(j < i)
    <3>1. j - (i - 1) \in 1..(Len(q) - i) /\ i + (j - (i - 1)) = j + 1
      BY <2>3
    <3> QED
      BY <1>2, <2>1, <2>3, <3>1
  <2> QED
    BY <2>2, <2>3
<1> QED
  BY <1>3, <1>4, <1>5

-----------------------------------------------------------------------------
(* Types *)

TodoType == todo \in [Tasks -> Seq(Operations)]
QueueType ==
  /\ queue \in Seq(Tasks)
  /\ \A i \in 1..Len(queue) : todo[queue[i]] # <<>>
  /\ \A i, j \in 1..Len(queue) : i # j => queue[i] # queue[j]

LEMMA TypeParts == TypeOK => TodoType /\ QueueType
  BY DEF TypeOK, TodoType, QueueType, Operations

LEMMA FeedsAreTasks ==
  /\ Feeds \subseteq Tasks /\ "main" \in Tasks /\ "heart" \in Tasks /\ Posts \subseteq Tasks
  /\ \A f \in Feeds : f \notin Posts /\ f # "main" /\ f # "heart" /\ f \in Keys
  /\ "main" \notin Posts /\ "heart" \notin Posts
  BY PostsAssumption DEF Tasks, Feeds, Keys

LEMMA OnlyTasks ==
  ASSUME NEW t \in Tasks
  PROVE  t = "main" \/ t = "heart" \/ t \in Posts \/ t \in Feeds
  BY DEF Tasks

\* The task at the head of the queue has an operation with a call to make.
LEMMA HolderHas ==
  ASSUME TodoType, QueueType, NEW t \in Tasks, Holds(t)
  PROVE  /\ todo[t] \in Seq(Operations) /\ todo[t] # <<>>
         /\ queue # <<>> /\ queue[1] = t
         /\ Head(todo[t]) \in Operations
         /\ Head(Head(todo[t])) \in Calls
<1>1. queue # <<>> /\ queue[1] = t
  BY DEF Holds, QueueType
<1>2. todo[t] \in Seq(Operations) /\ todo[t] # <<>>
  BY <1>1 DEF TodoType, QueueType
<1>3. Head(todo[t]) \in Operations
  BY <1>2
<1> QED
  BY <1>1, <1>2, <1>3 DEF Operations

\* The holder lets the lock go with its operation.
LEMMA ReleaseTypes ==
  ASSUME TodoType, QueueType, NEW t \in Tasks, Holds(t),
         todo' = [todo EXCEPT ![t] = Tail(@)], queue' = Tail(queue)
  PROVE  TodoType' /\ QueueType'
<1>1. /\ todo[t] \in Seq(Operations) /\ todo[t] # <<>>
      /\ queue # <<>> /\ queue[1] = t
  BY HolderHas
<1>2. TodoType'
  <2>1. Tail(todo[t]) \in Seq(Operations)
    BY <1>1
  <2> QED
    BY <2>1 DEF TodoType
<1>3. /\ queue' \in Seq(Tasks) /\ Len(queue') = Len(queue) - 1
      /\ \A i \in 1..Len(queue') : queue'[i] = queue[i + 1]
  BY <1>1 DEF QueueType
<1>4. \A i \in 1..Len(queue') : queue[i + 1] # t
  BY <1>1, <1>3 DEF QueueType
<1>5. \A i \in 1..Len(queue') : todo'[queue'[i]] # <<>>
  BY <1>3, <1>4 DEF QueueType, TodoType
<1>6. \A i, j \in 1..Len(queue') : i # j => queue'[i] # queue'[j]
  <2> SUFFICES ASSUME NEW i \in 1..Len(queue'), NEW j \in 1..Len(queue'), i # j PROVE queue'[i] # queue'[j]
    OBVIOUS
  <2>1. i + 1 \in 1..Len(queue) /\ j + 1 \in 1..Len(queue) /\ i + 1 # j + 1
    BY <1>3 DEF QueueType
  <2>2. queue[i + 1] # queue[j + 1]
    BY <2>1 DEF QueueType
  <2> QED
    BY <1>3, <2>2
<1> QED
  BY <1>2, <1>3, <1>5, <1>6 DEF QueueType

LEMMA AdvanceTypes ==
  ASSUME TodoType, QueueType, NEW t \in Tasks, Holds(t), Advance(t)
  PROVE  TodoType' /\ QueueType'
<1> DEFINE calls == Tail(Head(todo[t]))
<1>1. CASE calls = <<>>
  BY <1>1, ReleaseTypes DEF Advance
<1>2. CASE calls # <<>>
  <2>1. todo' = [todo EXCEPT ![t][1] = calls] /\ UNCHANGED queue
    BY <1>2 DEF Advance
  <2>2. /\ todo[t] \in Seq(Operations) /\ todo[t] # <<>>
        /\ Head(todo[t]) \in Operations
    BY HolderHas
  <2>3. calls \in Operations
    BY <1>2, <2>2 DEF Operations
  <2> HIDE DEF calls
  <2>4. [todo[t] EXCEPT ![1] = calls] \in Seq(Operations) /\ [todo[t] EXCEPT ![1] = calls] # <<>>
    BY <2>2, <2>3
  <2>5. todo' = [todo EXCEPT ![t] = [todo[t] EXCEPT ![1] = calls]]
    BY <2>1
  <2> QED
    BY <2>1, <2>4, <2>5 DEF TodoType, QueueType
<1> QED
  BY <1>1, <1>2

\* Work is handed to a task that has none, or has more of it.
LEMMA WorkTypes ==
  ASSUME TodoType, QueueType, UNCHANGED queue, TodoType',
         \A t \in Tasks : todo[t] # <<>> => todo'[t] # <<>>
  PROVE  QueueType'
  BY DEF QueueType

LEMMA SpawnTypes ==
  ASSUME TodoType, QueueType, SpawnFeeds, UNCHANGED queue, feeds \subseteq Feeds
  PROVE  TodoType' /\ QueueType' /\ said' \in [Feeds -> {"down", "up"}]
<1>1. PICK first \in [Feeds -> UNION {First(f) : f \in Feeds}] :
        /\ \A f \in Feeds : first[f] \in First(f)
        /\ todo' = [t \in Tasks |-> IF t \in feeds THEN first[t] ELSE todo[t]]
        /\ said' = [f \in Feeds |-> IF f \in feeds /\ Len(first[f]) = 2 THEN "up" ELSE "down"]
  BY DEF SpawnFeeds
<1>2. \A f \in Feeds : first[f] \in Seq(Operations) /\ first[f] # <<>>
  BY <1>1, FirstTyped
<1>3. TodoType'
  BY <1>1, <1>2 DEF TodoType
<1>4. \A t \in Tasks : todo[t] # <<>> => todo'[t] # <<>>
  BY <1>1, <1>2
<1> QED
  BY <1>1, <1>3, <1>4, WorkTypes

LEMMA BeginTypes ==
  ASSUME TodoType, QueueType, NEW t \in Tasks, NEW operations \in Seq(Operations), Begin(t, operations)
  PROVE  TodoType' /\ QueueType'
<1>1. TodoType'
  BY DEF Begin, TodoType
<1>2. \A u \in Tasks : todo[u] # <<>> => todo'[u] # <<>>
  BY DEF Begin, TodoType
<1> QED
  BY <1>1, <1>2, WorkTypes DEF Begin

LEMMA CancelTypes ==
  ASSUME TodoType, QueueType, NEW p \in Tasks, Cancel(p)
  PROVE  TodoType' /\ QueueType'
<1>1. TodoType' /\ todo' = [todo EXCEPT ![p] = <<>>]
  BY DEF Cancel, TodoType
<1>2. CASE Waits(p) /\ UNCHANGED queue
  BY <1>1, <1>2 DEF QueueType, TodoType, Waits
<1>3. ASSUME NEW i \in 1..Len(queue), queue[i] = p, queue' = RemoveAt(queue, i)
      PROVE  QueueType'
  <2> DEFINE old(j) == IF j < i THEN j ELSE j + 1
  <2>1. /\ queue' \in Seq(Tasks) /\ Len(queue') = Len(queue) - 1
        /\ \A j \in 1..(Len(queue) - 1) : queue'[j] = IF j < i THEN queue[j] ELSE queue[j + 1]
    BY <1>3, RemoveAtIs DEF QueueType
  <2>2. \A j \in 1..Len(queue') : old(j) \in 1..Len(queue) /\ old(j) # i /\ queue'[j] = queue[old(j)]
    BY <2>1 DEF QueueType
  <2>3. \A j, k \in 1..Len(queue') : j # k => old(j) # old(k)
    BY <2>1 DEF QueueType
  <2> HIDE DEF old
  <2>4. \A j \in 1..Len(queue') : queue'[j] # p
    BY <1>3, <2>2 DEF QueueType
  <2>5. \A j \in 1..Len(queue') : todo'[queue'[j]] # <<>>
    <3> SUFFICES ASSUME NEW j \in 1..Len(queue') PROVE todo'[queue'[j]] # <<>>
      OBVIOUS
    <3>1. todo[queue'[j]] # <<>>
      BY <2>2 DEF QueueType
    <3>2. queue'[j] \in Tasks /\ queue'[j] # p
      BY <2>1, <2>4
    <3> QED
      BY <1>1, <3>1, <3>2 DEF TodoType
  <2>6. \A j, k \in 1..Len(queue') : j # k => queue'[j] # queue'[k]
    BY <2>2, <2>3 DEF QueueType
  <2> QED
    BY <2>1, <2>5, <2>6 DEF QueueType
<1> QED
  BY <1>1, <1>2, <1>3 DEF Cancel

LEMMA JoinTypes ==
  ASSUME TodoType, QueueType, NEW t \in Tasks, Join(t)
  PROVE  TodoType' /\ QueueType'
<1>1. /\ queue' \in Seq(Tasks) /\ Len(queue') = Len(queue) + 1
      /\ \A i \in 1..Len(queue) : queue'[i] = queue[i]
      /\ queue'[Len(queue) + 1] = t
  BY DEF Join, QueueType
<1>2. todo[t] # <<>> /\ \A i \in 1..Len(queue) : queue[i] # t
  BY DEF Join, Waits
<1>3. UNCHANGED todo
  BY DEF Join
<1>4. \A i \in 1..Len(queue') : i \in 1..Len(queue) \/ i = Len(queue) + 1
  BY <1>1 DEF QueueType
<1>5. \A i \in 1..Len(queue') : todo'[queue'[i]] # <<>>
  BY <1>1, <1>2, <1>3, <1>4 DEF QueueType
<1>6. \A i, j \in 1..Len(queue') : i # j => queue'[i] # queue'[j]
  <2> SUFFICES ASSUME NEW i \in 1..Len(queue'), NEW j \in 1..Len(queue'), i # j PROVE queue'[i] # queue'[j]
    OBVIOUS
  <2> QED
    BY <1>1, <1>2, <1>4 DEF QueueType
<1> QED
  BY <1>1, <1>3, <1>5, <1>6 DEF TodoType, QueueType

-----------------------------------------------------------------------------
(* What a task does next *)

MyCall(t) == Head(Head(todo[t]))

LEMMA AdvanceIs ==
  ASSUME TodoType, NEW t \in Tasks, Advance(t)
  PROVE  /\ \A u \in Tasks : u # t => todo'[u] = todo[u]
         /\ Tail(Head(todo[t])) = <<>> => todo'[t] = Tail(todo[t])
         /\ Tail(Head(todo[t])) # <<>> => todo'[t] = [todo[t] EXCEPT ![1] = Tail(Head(todo[t]))]
<1>1. CASE Tail(Head(todo[t])) = <<>>
  BY <1>1 DEF Advance, TodoType
<1>2. CASE Tail(Head(todo[t])) # <<>>
  BY <1>2 DEF Advance, TodoType
<1> QED
  BY <1>1, <1>2

\* An operation of one call, and of two, as the task's only one; two operations.
LEMMA OneCall ==
  ASSUME TodoType, NEW t \in Tasks, Advance(t), NEW c, todo[t] = <<<<c>>>>
  PROVE  MyCall(t) = c /\ todo'[t] = <<>>
<1>1. Head(todo[t]) = <<c>> /\ Tail(todo[t]) = <<>>
  OBVIOUS
<1>2. Head(<<c>>) = c /\ Tail(<<c>>) = <<>>
  OBVIOUS
<1> QED
  BY <1>1, <1>2, AdvanceIs DEF MyCall

LEMMA TwoCalls ==
  ASSUME TodoType, NEW t \in Tasks, Advance(t), NEW c, NEW d, todo[t] = <<<<c, d>>>>
  PROVE  MyCall(t) = c /\ todo'[t] = <<<<d>>>>
<1>1. Head(todo[t]) = <<c, d>>
  OBVIOUS
<1>2. Head(<<c, d>>) = c /\ Tail(<<c, d>>) = <<d>> /\ <<d>> # <<>>
  OBVIOUS
<1>3. todo'[t] = [<<<<c, d>>>> EXCEPT ![1] = <<d>>]
  BY <1>1, <1>2, AdvanceIs
<1>4. \A o, n : [<<o>> EXCEPT ![1] = n] = <<n>>
  OBVIOUS
<1> QED
  BY <1>1, <1>2, <1>3, <1>4 DEF MyCall

LEMMA TwoOperations ==
  ASSUME TodoType, NEW t \in Tasks, Advance(t), NEW c, NEW o, todo[t] = <<<<c>>, o>>
  PROVE  MyCall(t) = c /\ todo'[t] = <<o>>
<1>1. Head(todo[t]) = <<c>> /\ Tail(todo[t]) = <<o>>
  OBVIOUS
<1>2. Head(<<c>>) = c /\ Tail(<<c>>) = <<>>
  OBVIOUS
<1> QED
  BY <1>1, <1>2, AdvanceIs DEF MyCall

LEMMA ThreeOperations ==
  ASSUME TodoType, NEW t \in Tasks, Advance(t), NEW c, NEW o, NEW p, todo[t] = <<<<c>>, o, p>>
  PROVE  MyCall(t) = c /\ todo'[t] = <<o, p>>
<1>1. Head(todo[t]) = <<c>> /\ Tail(todo[t]) = <<o, p>>
  OBVIOUS
<1>2. Head(<<c>>) = c /\ Tail(<<c>>) = <<>>
  OBVIOUS
<1> QED
  BY <1>1, <1>2, AdvanceIs DEF MyCall

\* Whose turn it is, and what it has to do.
LEMMA MainHas ==
  ASSUME TypeOK, EachItsOwn, Holds("main")
  PROVE  stage = "reset" /\ (todo["main"] = <<BootReset>> \/ todo["main"] = <<Tail(BootReset)>>)
<1>1. todo["main"] # <<>> /\ Own("main")
  BY TypeParts, FeedsAreTasks, HolderHas DEF EachItsOwn
<1>2. "main" \notin feeds
  BY FeedsAreTasks DEF TypeOK
<1> QED
  BY <1>1, <1>2, FeedsAreTasks DEF Own

LEMMA HeartHas ==
  ASSUME TypeOK, EachItsOwn, Holds("heart")
  PROVE  Running /\ todo["heart"] = <<Heartbeat>>
<1>1. todo["heart"] # <<>> /\ Own("heart")
  BY TypeParts, FeedsAreTasks, HolderHas DEF EachItsOwn
<1>2. "heart" \notin feeds
  BY FeedsAreTasks DEF TypeOK
<1> QED
  BY <1>1, <1>2, FeedsAreTasks DEF Own

LEMMA PostHas ==
  ASSUME TypeOK, EachItsOwn, NEW p \in Posts, Holds(p)
  PROVE  Running /\ todo[p] = <<Publish>>
<1>1. todo[p] # <<>> /\ Own(p)
  BY TypeParts, FeedsAreTasks, HolderHas DEF EachItsOwn
<1>2. p \notin feeds /\ p # "main" /\ p # "heart"
  BY FeedsAreTasks DEF TypeOK
<1> QED
  BY <1>1, <1>2, FeedsAreTasks DEF Own

LEMMA FeedHas ==
  ASSUME TypeOK, EachItsOwn, NEW f \in Feeds, Holds(f)
  PROVE  Running /\ f \in feeds /\ todo[f] # <<>>
<1>1. todo[f] # <<>> /\ Own(f)
  BY TypeParts, FeedsAreTasks, HolderHas DEF EachItsOwn
<1> QED
  BY <1>1, FeedsAreTasks DEF Own

LEMMA MainAnswers ==
  ASSUME TypeOK, EachItsOwn, Holds("main"), Advance("main")
  PROVE  \/ /\ todo["main"] = <<BootReset>> /\ MyCall("main") = SetFlag("titan", "down")
            /\ todo'["main"] = <<Tail(BootReset)>>
         \/ /\ todo["main"] = <<Tail(BootReset)>> /\ MyCall("main") = SetFlag("triton", "down")
            /\ todo'["main"] = <<>>
<1>1. CASE todo["main"] = <<BootReset>>
  BY <1>1, TwoCalls, OperationsTyped, FeedsAreTasks, TypeParts DEF BootReset
<1>2. CASE todo["main"] = <<Tail(BootReset)>>
  BY <1>2, OneCall, OperationsTyped, FeedsAreTasks, TypeParts
<1> QED
  BY <1>1, <1>2, MainHas

LEMMA HeartAnswers ==
  ASSUME TypeOK, EachItsOwn, Holds("heart"), Advance("heart")
  PROVE  MyCall("heart") = [key |-> "beat", value |-> "new"] /\ todo'["heart"] = <<>>
  BY HeartHas, OneCall, FeedsAreTasks, TypeParts DEF Heartbeat

LEMMA PostAnswers ==
  ASSUME TypeOK, EachItsOwn, NEW p \in Posts, Holds(p), Advance(p)
  PROVE  MyCall(p) = Other /\ todo'[p] = <<>>
  BY PostHas, OneCall, FeedsAreTasks, TypeParts DEF Publish

\* The flag a feed writes is the one it has said, but for the reset of a
\* listener that is about to raise it.
LEMMA FeedAnswers ==
  ASSUME TypeOK, EachItsOwn, SaidIsWritten, NEW f \in Feeds, Holds(f), Advance(f)
  PROVE  /\ f \in feeds /\ Running
         /\ \/ MyCall(f) = Other /\ todo'[f] = <<>> /\ Written(f)
            \/ MyCall(f) = SetFlag(f, said[f]) /\ todo'[f] \in {<<>>, <<<<Other>>>>}
            \/ MyCall(f) = Other /\ said[f] = "up" /\ f = "titan" /\ todo'[f] = Tail(Item(f))
            \/ MyCall(f) = Other /\ todo'[f] = <<Flag(f, said[f])>>
            \/ MyCall(f) = SetFlag(f, "down") /\ todo'[f] = <<Flag(f, said[f])>>
<1>1. TodoType /\ f \in Tasks /\ todo[f] # <<>> /\ said[f] \in {"down", "up"}
  BY FeedHas, TypeParts, FeedsAreTasks DEF TypeOK
<1>2. f \in feeds /\ Running
  BY FeedHas
<1>3. CASE todo[f] = <<<<Other>>>> /\ Written(f)
  BY <1>1, <1>2, <1>3, OneCall
<1>4. CASE todo[f] = <<Flag(f, said[f])>>
  <2>1. CASE f = "titan" /\ said[f] = "down"
    BY <1>1, <1>2, <1>4, <2>1, FlagIs, TwoCalls
  <2>2. CASE ~(f = "titan" /\ said[f] = "down")
    <3>1. Flag(f, said[f]) = <<SetFlag(f, said[f])>>
      BY <2>2 DEF Flag
    <3> QED
      BY <1>1, <1>2, <1>4, <3>1, OneCall
  <2> QED
    BY <2>1, <2>2
<1>5. CASE said[f] = "up" /\ todo[f] = Item(f)
  <2>1. CASE f = "titan"
    <3>1. Tail(Item(f)) = <<<<Other>>, Flag(f, "up")>>
      BY <2>1, ItemIs, Zenon
    <3>2. todo[f] = <<<<Other>>, <<Other>>, Flag(f, "up")>>
      BY <1>5, <2>1, ItemIs, Zenon
    <3>3. MyCall(f) = Other /\ todo'[f] = <<<<Other>>, Flag(f, "up")>>
      <4>1. ASSUME NEW o, NEW p, todo[f] = <<<<Other>>, o, p>>
            PROVE  MyCall(f) = Other /\ todo'[f] = <<o, p>>
        BY <1>1, <4>1, ThreeOperations
      <4> QED
        BY <3>2, <4>1, Zenon
    <3> QED
      BY <1>2, <1>5, <2>1, <3>1, <3>3, Zenon
  <2>2. CASE f = "triton"
    BY <1>1, <1>2, <1>5, <2>2, ItemIs, FlagIs, TwoOperations DEF Publish
  <2>3. CASE f = "shred"
    BY <1>1, <1>2, <1>5, <2>3, ItemIs, FlagIs, OneCall
  <2> QED
    BY <2>1, <2>2, <2>3 DEF Feeds
<1>6. CASE said[f] = "up" /\ f = "titan" /\ todo[f] = Tail(Item(f))
  <2>1. Tail(Item(f)) = <<<<Other>>, Flag(f, "up")>>
    BY <1>6, ItemIs, Zenon
  <2> QED
    BY <1>1, <1>2, <1>6, <2>1, TwoOperations
<1>7. CASE said[f] = "up" /\ f = "shred" /\ todo[f] = <<Flag(f, "down"), Flag(f, "up")>>
  BY <1>1, <1>2, <1>7, FlagIs, TwoOperations
<1> QED
  BY <1>1, <1>2, <1>3, <1>4, <1>5, <1>6, <1>7 DEF SaidIsWritten, Saying

-----------------------------------------------------------------------------
(* Redis answers *)

\* What an answered call leaves in Redis, and who has lost a write.
LEMMA Stored ==
  ASSUME TypeOK, NEW t \in Tasks, Answer(t)
  PROVE  /\ MyCall(t) \in Calls
         /\ store' \in [Keys -> {"old", "down", "up", "new"}]
         /\ \A k \in Keys : store'[k] # store[k] => MyCall(t).key = k /\ store'[k] = MyCall(t).value
         /\ \A k \in Keys : store'[k] = "old" => store[k] = "old"
         /\ \A k \in Feeds : MyCall(t).key = k => t \in lost' \/ store'[k] = MyCall(t).value
         /\ \A u \in lost : u \in lost' \/ (u = t /\ MyCall(t).key = t)
         /\ \A u \in lost' : u \in lost \/ (u = t /\ MyCall(t).key \in Feeds)
<1> DEFINE call == MyCall(t)
           write == IF call.key = "none" THEN store ELSE [store EXCEPT ![call.key] = call.value]
<1>1. call \in Calls
  BY TypeParts, HolderHas DEF Answer, MyCall
<1>2. \/ store' = write /\ lost' = IF call.key = t THEN lost \ {t} ELSE lost
      \/ store' \in {store, write} /\ lost' = IF call.key \in Feeds THEN lost \union {t} ELSE lost
  BY DEF Answer, MyCall
<1> HIDE DEF call
<1>3. \/ call.key = "none"
      \/ call.key \in Keys /\ call.value \in {"down", "up", "new"}
  BY <1>1 DEF Calls, Other
<1>4. store \in [Keys -> {"old", "down", "up", "new"}] /\ "none" \notin Keys
  BY DEF TypeOK, Keys, Feeds
<1>5. /\ write \in [Keys -> {"old", "down", "up", "new"}]
      /\ \A k \in Keys : write[k] = IF call.key = k THEN call.value ELSE store[k]
      /\ \A k \in Keys : write[k] = "old" => store[k] = "old"
  BY <1>3, <1>4
<1>6. Feeds \subseteq Keys
  BY DEF Keys
<1> HIDE DEF write
<1>7. /\ store' \in [Keys -> {"old", "down", "up", "new"}]
      /\ \A k \in Keys : store'[k] # store[k] => call.key = k /\ store'[k] = call.value
      /\ \A k \in Keys : store'[k] = "old" => store[k] = "old"
  BY <1>2, <1>4, <1>5
<1>8. \A k \in Feeds : call.key = k => t \in lost' \/ store'[k] = call.value
  BY <1>2, <1>5, <1>6
<1>9. /\ \A u \in lost : u \in lost' \/ (u = t /\ call.key = t)
      /\ \A u \in lost' : u \in lost \/ (u = t /\ call.key \in Feeds)
  BY <1>2
<1> QED
  BY <1>1, <1>7, <1>8, <1>9 DEF call

\* A feed's flag and its last word stand while the others make their calls.
LEMMA SayingStands ==
  ASSUME NEW f \in Feeds, Saying(f), todo'[f] = todo[f], said'[f] = said[f],
         redisConn' => redisConn, store'[f] = store[f], f \in lost => f \in lost'
  PROVE  Saying(f)'
<1>1. Written(f) => Written(f)'
  BY DEF Written
<1> QED
  BY <1>1 DEF Saying

\* One task has gone on with what it has to do.
LEMMA OwnStands ==
  ASSUME TypeOK, EachItsOwn, NEW t \in Tasks, Own(t)',
         UNCHANGED <<stage, dryRun, feeds, redisConn>>,
         \A u \in Tasks : u # t => todo'[u] = todo[u],
         \A f \in Feeds : said'[f] = "up" => said[f] = "up" \/ (Running /\ f \in feeds)
  PROVE  EachItsOwn'
<1>1. Running' = Running
  BY DEF Running
<1>2. ASSUME NEW u \in Tasks, u # t PROVE Own(u)'
  BY <1>1, <1>2 DEF EachItsOwn, Own
<1> QED
  BY <1>1, <1>2 DEF EachItsOwn

LEMMA AnswerTypes ==
  ASSUME TypeOK, NEW t \in Tasks, Answer(t), MyCall(t).key \in Feeds => t \in Feeds \union {"main"}
  PROVE  TypeOK'
<1>1. TodoType' /\ QueueType'
  BY TypeParts, AdvanceTypes DEF Answer
<1>2. store' \in [Keys -> {"old", "down", "up", "new"}]
  BY Stored
<1>3. lost' \subseteq Feeds \union {"main"}
  BY Stored DEF TypeOK
<1>4. UNCHANGED <<stage, dryRun, feeds, redisConn, said>>
  BY DEF Answer, config
<1> QED
  BY <1>1, <1>2, <1>3, <1>4 DEF TypeOK, TodoType, QueueType, Operations

LEMMA AnswerFrame ==
  ASSUME TypeOK, NEW t \in Tasks, Answer(t)
  PROVE  /\ Holds(t) /\ redisConn /\ Advance(t)
         /\ UNCHANGED <<stage, dryRun, feeds, redisConn, said>>
         /\ \A u \in Tasks : u # t => todo'[u] = todo[u]
         /\ Running' = Running
  BY TypeParts, AdvanceIs DEF Answer, config, Running

\* Who does not write an old flag leaves the boot reset as it was.
LEMMA ResetStands ==
  ASSUME TypeOK, EachItsOwn, ResetIsMade, NEW t \in Tasks, t # "main", Answer(t),
         MyCall(t).key = "beat" => Running, MyCall(t).key # "main"
  PROVE  ResetIsMade'
<1>1. /\ \A k \in Keys : store'[k] = "old" => store[k] = "old"
      /\ store'["beat"] # store["beat"] => MyCall(t).key = "beat"
      /\ "main" \in lost => "main" \in lost'
  BY Stored DEF Keys
<1>2. redisConn /\ UNCHANGED redisConn /\ todo'["main"] = todo["main"] /\ Running' = Running
  BY AnswerFrame, FeedsAreTasks
<1>3. "titan" \in Keys /\ "triton" \in Keys
  BY DEF Keys, Feeds
<1> QED
  BY <1>1, <1>2, <1>3 DEF ResetIsMade

LEMMA MainNext ==
  ASSUME IInv, Answer("main")
  PROVE  IInv'
<1> USE DEF IInv
<1>1. /\ Holds("main") /\ redisConn /\ Advance("main")
      /\ UNCHANGED <<stage, dryRun, feeds, redisConn, said>>
      /\ \A u \in Tasks : u # "main" => todo'[u] = todo[u]
      /\ Running' = Running
  BY AnswerFrame, FeedsAreTasks
<1>2. \/ /\ todo["main"] = <<BootReset>> /\ MyCall("main") = SetFlag("titan", "down")
         /\ todo'["main"] = <<Tail(BootReset)>>
      \/ /\ todo["main"] = <<Tail(BootReset)>> /\ MyCall("main") = SetFlag("triton", "down")
         /\ todo'["main"] = <<>>
  BY <1>1, MainAnswers
<1>3. stage = "reset" /\ ~Running
  BY <1>1, MainHas DEF Running
<1>4. TypeOK'
  BY AnswerTypes, FeedsAreTasks
<1>5. EachItsOwn'
  <2>1. Own("main")'
    BY <1>1, <1>2, <1>3 DEF Own
  <2> QED
    BY <1>1, <2>1, OwnStands, FeedsAreTasks
<1>6. ResetIsMade'
  <2>1. <<BootReset>> # <<Tail(BootReset)>> /\ <<Tail(BootReset)>> # <<>>
    <3>1. \A a, b : a # b => <<a>> # <<b>> /\ <<b>> # <<>>
      OBVIOUS
    <3>2. BootReset # Tail(BootReset)
      BY OperationsTyped DEF BootReset
    <3> QED
      BY <3>1, <3>2
  <2>2. /\ MyCall("main").key # "beat"
        /\ "titan" \in Keys /\ "triton" \in Keys /\ "beat" \in Keys
    BY <1>2 DEF SetFlag, Keys, Feeds
  <2>3. store'["beat"] = store["beat"]
    BY <2>2, Stored, FeedsAreTasks
  <2>4. /\ MyCall("main").key \in Feeds /\ MyCall("main").value = "down"
        /\ todo["main"] = <<BootReset>> => MyCall("main").key = "titan"
        /\ todo["main"] # <<BootReset>> => MyCall("main").key = "triton" /\ todo["main"] = <<Tail(BootReset)>>
    BY <1>2, <2>1 DEF SetFlag, Feeds
  <2>5. /\ \A k \in {"titan", "triton"} : store'[k] = "old" => store[k] = "old"
        /\ "main" \in lost => "main" \in lost'
        /\ \A k \in {"titan", "triton"} : MyCall("main").key = k => "main" \in lost' \/ store'[k] = "down"
    BY <2>2, <2>4, Stored, FeedsAreTasks DEF Feeds
  <2> QED
    BY <1>1, <1>2, <1>3, <2>1, <2>3, <2>4, <2>5 DEF ResetIsMade
<1>7. SaidIsWritten'
  BY <1>1, <1>3 DEF SaidIsWritten
<1> QED
  BY <1>4, <1>5, <1>6, <1>7

\* The heartbeat and the handlers write no flag.
LEMMA BystanderNext ==
  ASSUME IInv, NEW t \in Tasks \ Feeds, t # "main", Answer(t)
  PROVE  IInv'
<1> USE DEF IInv
<1>1. /\ Holds(t) /\ redisConn /\ Advance(t)
      /\ UNCHANGED <<stage, dryRun, feeds, redisConn, said>>
      /\ \A u \in Tasks : u # t => todo'[u] = todo[u]
      /\ Running' = Running
  BY AnswerFrame
<1>2. todo'[t] = <<>> /\ Running /\ (MyCall(t).key = "none" \/ MyCall(t).key = "beat")
  <2>1. CASE t = "heart"
    BY <1>1, <2>1, HeartHas, HeartAnswers
  <2>2. CASE t \in Posts
    BY <1>1, <2>2, PostHas, PostAnswers DEF Other
  <2> QED
    BY <2>1, <2>2, OnlyTasks
<1>3. \A f \in Feeds : f \in Keys /\ f # "none" /\ f # "beat"
  BY DEF Feeds, Keys
<1>4. TypeOK'
  BY <1>2, <1>3, AnswerTypes
<1>5. EachItsOwn'
  <2>1. Own(t)'
    BY <1>2 DEF Own
  <2> QED
    BY <1>1, <2>1, OwnStands
<1>6. ResetIsMade'
  BY <1>2, ResetStands
<1>7. SaidIsWritten'
  <2> SUFFICES ASSUME Running', NEW f \in feeds' PROVE Saying(f)'
    BY DEF SaidIsWritten
  <2>1. f \in feeds /\ f \in Feeds /\ Saying(f)
    BY <1>1, <1>2 DEF TypeOK, SaidIsWritten
  <2>2. store'[f] = store[f] /\ (f \in lost => f \in lost')
    BY <1>2, <1>3, <2>1, Stored
  <2>3. todo'[f] = todo[f] /\ said'[f] = said[f] /\ (redisConn' => redisConn)
    BY <1>1, <2>1, FeedsAreTasks
  <2> QED
    BY <2>1, <2>2, <2>3, SayingStands
<1> QED
  BY <1>4, <1>5, <1>6, <1>7

LEMMA FeedNext ==
  ASSUME IInv, NEW f \in Feeds, Answer(f)
  PROVE  IInv'
<1> USE DEF IInv
<1>0. f \in Tasks /\ f # "main" /\ f \in Keys
  BY FeedsAreTasks
<1>1. /\ Holds(f) /\ redisConn /\ Advance(f)
      /\ UNCHANGED <<stage, dryRun, feeds, redisConn, said>>
      /\ \A u \in Tasks : u # f => todo'[u] = todo[u]
      /\ Running' = Running
  BY <1>0, AnswerFrame
<1>2. f \in feeds /\ Running
  BY <1>1, FeedHas
<1>3. MyCall(f).key \in {"none", f}
  BY <1>1, FeedAnswers DEF SetFlag, Other
<1>4. TypeOK'
  BY <1>0, AnswerTypes
<1>5. EachItsOwn'
  <2>1. Own(f)'
    BY <1>1, <1>2 DEF Own
  <2> QED
    BY <1>0, <1>1, <2>1, OwnStands
<1>6. ResetIsMade'
  <2>1. MyCall(f).key # "main"
    BY <1>3, FeedsAreTasks
  <2> QED
    BY <1>0, <1>2, <2>1, ResetStands
<1>7. Saying(f)'
  <2>1. CASE MyCall(f) = Other /\ todo'[f] = <<>> /\ Written(f)
    <3>1. MyCall(f).key = "none" /\ f # "none"
      BY <2>1 DEF Other, Feeds
    <3>2. store'[f] = store[f] /\ (f \in lost => f \in lost')
      BY <1>0, <3>1, Stored
    <3>3. Written(f)'
      BY <1>1, <2>1, <3>2 DEF Written
    <3> QED
      BY <2>1, <3>3 DEF Saying
  <2>2. CASE MyCall(f) = SetFlag(f, said[f]) /\ todo'[f] \in {<<>>, <<<<Other>>>>}
    <3>1. f \in lost' \/ store'[f] = said[f]
      BY <1>0, <2>2, Stored DEF SetFlag
    <3>2. Written(f)'
      BY <1>1, <3>1 DEF Written
    <3> QED
      BY <2>2, <3>2 DEF Saying
  <2>3. CASE said[f] = "up" /\ f = "titan" /\ todo'[f] = Tail(Item(f))
    BY <1>1, <2>3 DEF Saying
  <2>4. CASE todo'[f] = <<Flag(f, said[f])>>
    BY <1>1, <2>4 DEF Saying
  <2> QED
    BY <1>1, <2>1, <2>2, <2>3, <2>4, FeedAnswers
<1>8. SaidIsWritten'
  <2> SUFFICES ASSUME NEW g \in feeds', g # f PROVE Saying(g)'
    BY <1>7 DEF SaidIsWritten
  <2>1. g \in feeds /\ g \in Feeds /\ Saying(g)
    BY <1>1, <1>2 DEF TypeOK, SaidIsWritten
  <2>2. MyCall(f).key # g
    BY <1>3, <2>1 DEF Feeds
  <2>3. store'[g] = store[g] /\ (g \in lost => g \in lost')
    BY <1>0, <2>1, <2>2, Stored, FeedsAreTasks
  <2>4. todo'[g] = todo[g] /\ said'[g] = said[g] /\ (redisConn' => redisConn)
    BY <1>1, <2>1, FeedsAreTasks
  <2> QED
    BY <2>1, <2>3, <2>4, SayingStands
<1> QED
  BY <1>4, <1>5, <1>6, <1>8

LEMMA AnswerNext ==
  ASSUME IInv, NEW t \in Tasks, Answer(t)
  PROVE  IInv'
  BY MainNext, BystanderNext, FeedNext

-----------------------------------------------------------------------------
(* There is no Redis *)

\* An operation is given up whole: nothing need be written.
LEMMA FeedGivesUp ==
  ASSUME IInv, NEW f \in Feeds, NotConfigured(f)
  PROVE  Saying(f)'
<1> USE DEF IInv
<1>1. /\ todo'[f] = Tail(todo[f])
      /\ ~redisConn /\ UNCHANGED <<redisConn, said>>
  BY TypeParts, FeedsAreTasks DEF NotConfigured, TodoType, config
<1>2. Written(f)'
  BY <1>1 DEF Written
<1>3. Saying(f)
  BY FeedHas DEF SaidIsWritten, NotConfigured
<1>4. todo[f] # <<>>
  BY FeedHas DEF NotConfigured
<1>5. /\ \A a : Tail(<<a>>) = <<>>
      /\ \A a, b : Tail(<<a, b>>) = <<b>>
  OBVIOUS
<1>6. CASE todo[f] = <<<<Other>>>> \/ todo[f] = <<Flag(f, said[f])>>
  <2>1. todo'[f] = <<>>
    BY <1>1, <1>5, <1>6, Zenon
  <2> QED
    BY <1>2, <2>1 DEF Saying
<1>7. CASE said[f] = "up" /\ todo[f] = Item(f)
  <2>1. CASE f = "titan"
    BY <1>1, <1>7, <2>1 DEF Saying
  <2>2. CASE f = "triton"
    <3>1. todo'[f] = <<Publish>>
      BY <1>1, <1>5, <1>7, <2>2, ItemIs, Zenon
    <3> QED
      BY <1>2, <3>1 DEF Saying, Publish
  <2>3. CASE f = "shred"
    <3>1. todo'[f] = <<>>
      BY <1>1, <1>5, <1>7, <2>3, ItemIs, Zenon
    <3> QED
      BY <1>2, <3>1 DEF Saying
  <2> QED
    BY <2>1, <2>2, <2>3 DEF Feeds
<1>8. CASE said[f] = "up" /\ f = "titan" /\ todo[f] = Tail(Item(f))
  <2>1. todo'[f] = <<Flag(f, said'[f])>>
    BY <1>1, <1>5, <1>8, ItemIs, Zenon
  <2> QED
    BY <2>1 DEF Saying
<1>9. CASE said[f] = "up" /\ f = "shred" /\ todo[f] = <<Flag(f, "down"), Flag(f, "up")>>
  <2>1. todo'[f] = <<Flag(f, said'[f])>>
    BY <1>1, <1>5, <1>9, Zenon
  <2> QED
    BY <2>1 DEF Saying
<1> QED
  BY <1>3, <1>4, <1>6, <1>7, <1>8, <1>9 DEF Saying

LEMMA NotConfiguredNext ==
  ASSUME IInv, NEW t \in Tasks, NotConfigured(t)
  PROVE  IInv'
<1> USE DEF IInv
<1>1. /\ todo'[t] = Tail(todo[t]) /\ \A u \in Tasks : u # t => todo'[u] = todo[u]
      /\ Holds(t) /\ ~redisConn
      /\ UNCHANGED <<stage, dryRun, feeds, redisConn, store, said, lost>>
      /\ Running' = Running
  BY TypeParts DEF NotConfigured, TodoType, config, Running
<1>2. TypeOK'
  <2>1. TodoType' /\ QueueType'
    BY TypeParts, ReleaseTypes DEF NotConfigured
  <2> QED
    BY <1>1, <2>1 DEF TypeOK, TodoType, QueueType, Operations
<1>3. EachItsOwn'
  <2>1. \A a : Tail(<<a>>) = <<>>
    OBVIOUS
  <2>2. Own(t)'
    <3>1. CASE t \in Feeds
      BY <1>1, <3>1, FeedHas DEF Own
    <3>2. CASE t = "main"
      <4>1. todo'[t] = <<>>
        BY <1>1, <2>1, <3>2, MainHas, Zenon
      <4> QED
        BY <4>1 DEF Own
    <3>3. CASE t = "heart"
      <4>1. todo'[t] = <<>>
        BY <1>1, <2>1, <3>3, HeartHas, Zenon
      <4> QED
        BY <4>1 DEF Own
    <3>4. CASE t \in Posts
      <4>1. todo'[t] = <<>>
        BY <1>1, <2>1, <3>4, PostHas, Zenon
      <4> QED
        BY <4>1 DEF Own
    <3> QED
      BY <3>1, <3>2, <3>3, <3>4, OnlyTasks
  <2> QED
    BY <1>1, <2>2, OwnStands
<1>4. ResetIsMade'
  BY <1>1 DEF ResetIsMade
<1>5. SaidIsWritten'
  <2> SUFFICES ASSUME Running', NEW f \in feeds' PROVE Saying(f)'
    BY DEF SaidIsWritten
  <2>1. f \in feeds /\ f \in Feeds /\ Saying(f)
    BY <1>1 DEF TypeOK, SaidIsWritten
  <2>2. CASE f = t
    BY <2>1, <2>2, FeedGivesUp
  <2>3. CASE f # t
    <3>1. todo'[f] = todo[f]
      BY <1>1, <2>1, <2>3, FeedsAreTasks
    <3> QED
      BY <1>1, <2>1, <3>1, SayingStands
  <2> QED
    BY <2>2, <2>3
<1> QED
  BY <1>2, <1>3, <1>4, <1>5

-----------------------------------------------------------------------------
(* The other steps *)

LEMMA JoinNext ==
  ASSUME IInv, NEW t \in Tasks, Join(t)
  PROVE  IInv'
<1>1. TodoType' /\ QueueType'
  BY TypeParts, JoinTypes DEF IInv
<1>2. UNCHANGED <<stage, dryRun, feeds, redisConn, todo, store, said, lost>>
  BY DEF Join, config
<1>3. TypeOK'
  BY <1>1, <1>2 DEF IInv, TypeOK, TodoType, QueueType, Operations
<1>4. EachItsOwn' /\ ResetIsMade' /\ SaidIsWritten'
  BY <1>2 DEF IInv, EachItsOwn, Own, ResetIsMade, SaidIsWritten, Saying, Written, Running
<1> QED
  BY <1>3, <1>4 DEF IInv

LEMMA BindNext ==
  ASSUME IInv, Bind
  PROVE  IInv'
<1>1. /\ stage = "spawned" /\ stage' = "serving"
      /\ UNCHANGED <<dryRun, feeds, redisConn, todo, queue, store, said, lost>>
  BY DEF Bind, config
<1>2. Running' = Running
  BY <1>1 DEF Running
<1>3. TypeOK'
  BY <1>1 DEF IInv, TypeOK
<1>4. EachItsOwn' /\ ResetIsMade' /\ SaidIsWritten'
  BY <1>1, <1>2 DEF IInv, EachItsOwn, Own, ResetIsMade, SaidIsWritten, Saying, Written
<1> QED
  BY <1>3, <1>4 DEF IInv

LEMMA ExitNext ==
  ASSUME Exit
  PROVE  IInv'
<1>1. /\ stage' = "down" /\ dryRun' = FALSE /\ feeds' = {} /\ redisConn' = FALSE
      /\ todo' = [t \in Tasks |-> <<>>] /\ queue' = <<>>
      /\ store' = [k \in Keys |-> "old"] /\ said' = [f \in Feeds |-> "down"] /\ lost' = {}
  BY DEF Exit
<1>2. TypeOK'
  <2>1. /\ todo' \in [Tasks -> Seq(Seq(Calls) \ {<<>>})]
        /\ queue' \in Seq(Tasks) /\ Len(queue') = 0
    BY <1>1
  <2>2. 1..Len(queue') = {}
    BY <2>1
  <2>3. /\ store' \in [Keys -> {"old", "down", "up", "new"}] /\ said' \in [Feeds -> {"down", "up"}]
        /\ lost' \subseteq Feeds \union {"main"} /\ feeds' \subseteq Feeds
    BY <1>1
  <2>4. stage' \in {"down", "reset", "spawned", "serving"} /\ dryRun' \in BOOLEAN /\ redisConn' \in BOOLEAN
    BY <1>1
  <2> QED
    BY <2>1, <2>2, <2>3, <2>4 DEF TypeOK
<1>3. EachItsOwn'
  BY <1>1 DEF EachItsOwn, Own
<1>4. ResetIsMade' /\ SaidIsWritten'
  <2>1. store'["beat"] = "old"
    BY <1>1 DEF Keys
  <2> QED
    BY <1>1, <2>1 DEF ResetIsMade, SaidIsWritten, Running
<1> QED
  BY <1>2, <1>3, <1>4 DEF IInv

LEMMA InductiveInit == Init => IInv
<1> SUFFICES ASSUME Init PROVE IInv
  OBVIOUS
<1>1. TypeOK
  <2>1. /\ todo \in [Tasks -> Seq(Seq(Calls) \ {<<>>})]
        /\ queue \in Seq(Tasks) /\ Len(queue) = 0
    BY DEF Init
  <2>2. 1..Len(queue) = {}
    BY <2>1
  <2>3. /\ store \in [Keys -> {"old", "down", "up", "new"}] /\ said \in [Feeds -> {"down", "up"}]
        /\ lost \subseteq Feeds \union {"main"} /\ feeds \subseteq Feeds
    BY DEF Init
  <2>4. stage \in {"down", "reset", "spawned", "serving"} /\ dryRun \in BOOLEAN /\ redisConn \in BOOLEAN
    BY DEF Init
  <2> QED
    BY <2>1, <2>2, <2>3, <2>4 DEF TypeOK
<1>2. EachItsOwn
  BY DEF Init, EachItsOwn, Own
<1>3. ResetIsMade /\ SaidIsWritten
  <2>1. store["beat"] = "old"
    BY DEF Init, Keys
  <2> QED
    BY <2>1 DEF Init, ResetIsMade, SaidIsWritten, Running
<1> QED
  BY <1>1, <1>2, <1>3 DEF IInv

LEMMA StartNext ==
  ASSUME IInv, Start
  PROVE  IInv'
<1> USE DEF IInv
<1>1. /\ stage = "down" /\ dryRun' \in BOOLEAN /\ feeds' \subseteq Feeds
      /\ redisConn' \in BOOLEAN /\ (dryRun' => ~redisConn')
      /\ stage' = IF dryRun' THEN "spawned" ELSE "reset"
      /\ todo' = IF dryRun' THEN todo ELSE [todo EXCEPT !["main"] = <<BootReset>>]
      /\ UNCHANGED <<queue, store, said, lost>>
  BY DEF Start
<1>2. ~Running /\ ~Running'
  BY <1>1 DEF Running
<1>3. \A t \in Tasks : todo[t] = <<>>
  BY <1>1, <1>2 DEF EachItsOwn, Own
<1>4. /\ \A t \in Tasks : t # "main" => todo'[t] = <<>>
      /\ todo'["main"] = IF dryRun' THEN <<>> ELSE <<BootReset>>
      /\ <<BootReset>> # <<>> /\ <<BootReset>> \in Seq(Operations)
  BY <1>1, <1>3, TypeParts, FeedsAreTasks, ShortSeq, OperationsTyped DEF TodoType
<1>5. TypeOK'
  <2>1. TodoType'
    BY <1>1, <1>4, TypeParts DEF TodoType
  <2>2. QueueType'
    BY <1>1, <1>3, <2>1, TypeParts, WorkTypes
  <2> QED
    BY <1>1, <2>1, <2>2 DEF TypeOK, TodoType, QueueType, Operations
<1>6. EachItsOwn'
  <2>1. \A t \in Tasks : Own(t)'
    BY <1>1, <1>4 DEF Own
  <2>2. \A f \in Feeds : said'[f] # "up"
    BY <1>1, <1>2 DEF EachItsOwn
  <2> QED
    BY <1>1, <2>1, <2>2 DEF EachItsOwn
<1>7. ResetIsMade' /\ SaidIsWritten'
  BY <1>1, <1>2, <1>4 DEF ResetIsMade, SaidIsWritten
<1> QED
  BY <1>5, <1>6, <1>7

LEMMA SpawnNext ==
  ASSUME IInv, Spawn
  PROVE  IInv'
<1> USE DEF IInv
<1>1. /\ stage = "reset" /\ todo["main"] = <<>> /\ stage' = "spawned" /\ SpawnFeeds
      /\ UNCHANGED <<dryRun, feeds, redisConn, queue, store, lost>>
      /\ ~dryRun
  BY DEF Spawn, config, EachItsOwn
<1>2. ~Running /\ Running'
  BY <1>1 DEF Running
<1>3. feeds \subseteq Feeds
  BY DEF TypeOK
<1>4. TypeOK'
  <2>1. TodoType' /\ QueueType' /\ said' \in [Feeds -> {"down", "up"}]
    BY <1>1, <1>3, SpawnTypes, TypeParts
  <2> QED
    BY <1>1, <2>1 DEF TypeOK, TodoType, QueueType, Operations
<1>5. PICK first \in [Feeds -> UNION {First(f) : f \in Feeds}] :
        /\ \A f \in Feeds : first[f] \in First(f)
        /\ todo' = [t \in Tasks |-> IF t \in feeds THEN first[t] ELSE todo[t]]
        /\ said' = [f \in Feeds |-> IF f \in feeds /\ Len(first[f]) = 2 THEN "up" ELSE "down"]
  BY <1>1 DEF SpawnFeeds
<1>6. \A f \in feeds : f \in Feeds /\ f \in Tasks /\ todo'[f] = first[f]
  BY <1>3, <1>5, FeedsAreTasks
<1>7. \A t \in Tasks : t \notin feeds => todo'[t] = todo[t]
  BY <1>5
<1>8. EachItsOwn'
  <2>1. ASSUME NEW t \in Tasks PROVE Own(t)'
    <3>1. CASE t \in feeds
      BY <1>1, <1>2, <3>1 DEF Own
    <3>2. CASE t \notin feeds
      <4>1. Own(t) /\ todo'[t] = todo[t]
        BY <1>7, <3>2 DEF EachItsOwn
      <4>2. todo[t] = <<>>
        BY <1>1, <1>2, <4>1 DEF Own
      <4> QED
        BY <4>1, <4>2 DEF Own
    <3> QED
      BY <3>1, <3>2
  <2>2. \A f \in Feeds : said'[f] = "up" => f \in feeds
    BY <1>5
  <2> QED
    BY <1>1, <1>2, <2>1, <2>2 DEF EachItsOwn
<1>9. ResetIsMade'
  <2>1. "main" \notin feeds /\ "main" \in Tasks
    BY <1>3, FeedsAreTasks
  <2>2. todo'["main"] = todo["main"]
    BY <1>7, <2>1
  <2> QED
    BY <1>1, <1>2, <2>2 DEF ResetIsMade
<1>10. SaidIsWritten'
  <2> SUFFICES ASSUME NEW f \in feeds' PROVE Saying(f)'
    BY DEF SaidIsWritten
  <2>1. f \in feeds /\ f \in Feeds /\ todo'[f] = first[f]
    BY <1>1, <1>6
  <2>2. \/ first[f] = <<Flag(f, "down")>>
        \/ f = "shred" /\ first[f] = <<Flag(f, "down"), Flag(f, "up")>>
    BY <1>5, <2>1 DEF First
  <2>3. \A a, b : Len(<<a>>) = 1 /\ Len(<<a, b>>) = 2
    OBVIOUS
  <2>4. CASE first[f] = <<Flag(f, "down")>>
    <3>1. Len(first[f]) # 2
      BY <2>3, <2>4
    <3>2. said'[f] = "down"
      BY <1>5, <2>1, <3>1, Zenon
    <3> QED
      BY <2>1, <2>4, <3>2 DEF Saying
  <2>5. CASE f = "shred" /\ first[f] = <<Flag(f, "down"), Flag(f, "up")>>
    <3>1. Len(first[f]) = 2
      BY <2>3, <2>5, Zenon
    <3>2. said'[f] = "up"
      BY <1>5, <2>1, <3>1
    <3> QED
      BY <2>1, <2>5, <3>2, Zenon DEF Saying
  <2> QED
    BY <2>2, <2>4, <2>5
<1> QED
  BY <1>4, <1>8, <1>9, <1>10

\* A task takes up work of its own.
LEMMA BeginNext ==
  ASSUME IInv, NEW t \in Tasks, t # "main", NEW operations \in Seq(Operations), Begin(t, operations),
         Own(t)', t \in feeds => Saying(t)',
         said' \in [Feeds -> {"down", "up"}], \A f \in Feeds : said'[f] # said[f] => f = t /\ t \in feeds
  PROVE  IInv'
<1> USE DEF IInv
<1>1. /\ Running /\ todo[t] = <<>> /\ \A u \in Tasks : u # t => todo'[u] = todo[u]
      /\ UNCHANGED <<stage, dryRun, feeds, redisConn, queue, store, lost>>
      /\ Running' = Running
  BY TypeParts DEF Begin, config, Running, TodoType
<1>2. feeds \subseteq Feeds
  BY DEF TypeOK
<1>3. TypeOK'
  <2>1. TodoType' /\ QueueType'
    BY TypeParts, BeginTypes
  <2> QED
    BY <1>1, <2>1 DEF TypeOK, TodoType, QueueType, Operations
<1>4. EachItsOwn'
  BY <1>1, OwnStands DEF EachItsOwn
<1>5. ResetIsMade'
  BY <1>1, FeedsAreTasks DEF ResetIsMade
<1>6. SaidIsWritten'
  <2> SUFFICES ASSUME NEW f \in feeds', f # t PROVE Saying(f)'
    BY <1>1 DEF SaidIsWritten
  <2>1. f \in feeds /\ f \in Feeds /\ Saying(f)
    BY <1>1, <1>2 DEF SaidIsWritten
  <2>2. todo'[f] = todo[f] /\ said'[f] = said[f]
    BY <1>1, <2>1, FeedsAreTasks
  <2> QED
    BY <1>1, <2>1, <2>2, SayingStands
<1> QED
  BY <1>3, <1>4, <1>5, <1>6

LEMMA BeatNext ==
  ASSUME IInv, Beat
  PROVE  IInv'
<1>1. "heart" \in Tasks /\ "heart" # "main" /\ "heart" \notin feeds
  BY FeedsAreTasks DEF IInv, TypeOK
<1>2. <<Heartbeat>> \in Seq(Operations)
  BY OperationsTyped, ShortSeq
<1>3. Begin("heart", <<Heartbeat>>) /\ UNCHANGED said
  BY DEF Beat
<1>4. Own("heart")'
  <2>1. todo'["heart"] = <<Heartbeat>> /\ Running'
    BY <1>1, <1>3, TypeParts DEF Begin, TodoType, Running, config, IInv
  <2> QED
    BY <2>1 DEF Own
<1>5. said' \in [Feeds -> {"down", "up"}]
  BY <1>3 DEF IInv, TypeOK
<1> QED
  BY <1>1, <1>2, <1>3, <1>4, <1>5, BeginNext

LEMMA PostNext ==
  ASSUME IInv, NEW p \in Posts, Post(p)
  PROVE  IInv'
<1>1. p \in Tasks /\ p # "main" /\ p \notin feeds
  BY FeedsAreTasks DEF IInv, TypeOK
<1>2. <<Publish>> \in Seq(Operations)
  BY OperationsTyped, ShortSeq
<1>3. Begin(p, <<Publish>>) /\ UNCHANGED said
  BY DEF Post
<1>4. Own(p)'
  <2>1. todo'[p] = <<Publish>> /\ Running'
    BY <1>1, <1>3, TypeParts DEF Begin, TodoType, Running, config, IInv
  <2> QED
    BY <2>1 DEF Own
<1>5. said' \in [Feeds -> {"down", "up"}]
  BY <1>3 DEF IInv, TypeOK
<1> QED
  BY <1>1, <1>2, <1>3, <1>4, <1>5, BeginNext

\* A feed says a thing, or an item raises the flag again: it is what it writes.
LEMMA FeedBegins ==
  ASSUME IInv, NEW f \in feeds, NEW value \in {"down", "up"}, NEW operations, Begin(f, operations),
         said' = [said EXCEPT ![f] = value],
         operations = <<Flag(f, value)>> \/ (value = "up" /\ operations = Item(f))
  PROVE  IInv'
<1>1. f \in Feeds /\ f \in Tasks /\ f # "main"
  BY FeedsAreTasks DEF IInv, TypeOK
<1>2. operations \in Seq(Operations)
  BY <1>1, OperationsTyped, ShortSeq, ItemTyped
<1>3. todo'[f] = operations /\ Running' /\ f \in feeds'
  BY <1>1, TypeParts DEF Begin, TodoType, Running, config, IInv
<1>4. /\ said' \in [Feeds -> {"down", "up"}] /\ said'[f] = value
      /\ \A g \in Feeds : said'[g] # said[g] => g = f
  BY <1>1 DEF IInv, TypeOK
<1>5. Own(f)'
  BY <1>3 DEF Own
<1>6. Saying(f)'
  BY <1>3, <1>4 DEF Saying
<1> QED
  BY <1>1, <1>2, <1>4, <1>5, <1>6, BeginNext

LEMMA SessionNext ==
  ASSUME IInv, NEW f \in Feeds, Rise(f) \/ Fall(f) \/ Receive(f)
  PROVE  IInv'
<1>1. CASE Rise(f)
  BY <1>1, FeedBegins DEF Rise
<1>2. CASE Fall(f)
  BY <1>2, FeedBegins DEF Fall
<1>3. CASE Receive(f)
  <2>1. said[f] = "up" /\ Begin(f, Item(f)) /\ UNCHANGED said
    BY <1>3 DEF Receive
  <2>2. f \in feeds /\ said' = [said EXCEPT ![f] = "up"]
    BY <2>1 DEF IInv, TypeOK, EachItsOwn
  <2> QED
    BY <2>1, <2>2, FeedBegins
<1> QED
  BY <1>1, <1>2, <1>3

LEMMA CancelNext ==
  ASSUME IInv, NEW p \in Posts, Cancel(p)
  PROVE  IInv'
<1> USE DEF IInv
<1>1. p \in Tasks /\ p \notin Feeds /\ p # "main"
  BY FeedsAreTasks
<1>2. /\ todo'[p] = <<>> /\ \A u \in Tasks : u # p => todo'[u] = todo[u]
      /\ UNCHANGED <<stage, dryRun, feeds, redisConn, store, said, lost>>
      /\ Running' = Running
  BY <1>1, TypeParts DEF Cancel, config, Running, TodoType
<1>3. TypeOK'
  <2>1. TodoType' /\ QueueType'
    BY <1>1, TypeParts, CancelTypes
  <2> QED
    BY <1>2, <2>1 DEF TypeOK, TodoType, QueueType, Operations
<1>4. EachItsOwn'
  <2>1. Own(p)'
    BY <1>2 DEF Own
  <2> QED
    BY <1>1, <1>2, <2>1, OwnStands
<1>5. ResetIsMade'
  BY <1>1, <1>2, FeedsAreTasks DEF ResetIsMade
<1>6. SaidIsWritten'
  <2> SUFFICES ASSUME Running', NEW f \in feeds' PROVE Saying(f)'
    BY DEF SaidIsWritten
  <2>1. f \in feeds /\ f \in Feeds /\ Saying(f)
    BY <1>2 DEF TypeOK, SaidIsWritten
  <2>2. todo'[f] = todo[f]
    BY <1>1, <1>2, <2>1, FeedsAreTasks
  <2> QED
    BY <1>2, <2>1, <2>2, SayingStands
<1> QED
  BY <1>3, <1>4, <1>5, <1>6

-----------------------------------------------------------------------------
(* The theorems *)

\* The strengthening is inductive: every step of run(), of the tasks and of Redis
\* keeps it.
LEMMA Inductive == IInv /\ [Next]_vars => IInv'
<1> SUFFICES ASSUME IInv, [Next]_vars PROVE IInv'
  OBVIOUS
<1>1. CASE Start \/ Spawn \/ Bind \/ Exit \/ Beat
  BY <1>1, StartNext, SpawnNext, BindNext, ExitNext, BeatNext
<1>2. ASSUME NEW t \in Tasks, Lock(t) PROVE IInv'
  BY <1>2, JoinNext, AnswerNext, NotConfiguredNext DEF Lock
<1>3. ASSUME NEW f \in Feeds, Rise(f) \/ Fall(f) \/ Receive(f) PROVE IInv'
  BY <1>3, SessionNext
<1>4. ASSUME NEW p \in Posts, Post(p) \/ Cancel(p) PROVE IInv'
  BY <1>4, PostNext, CancelNext
<1>5. CASE UNCHANGED vars
  BY <1>5 DEF vars, config, IInv, TypeOK, EachItsOwn, Own, ResetIsMade, SaidIsWritten, Saying, Written, Running
<1> QED
  BY <1>1, <1>2, <1>3, <1>4, <1>5 DEF Next

THEOREM Invariance == Spec => []IInv
  BY InductiveInit, Inductive, PTL DEF Spec

\* However the tasks of run() interleave, each has well-formed operations to make,
\* and a task is in the lock's queue only once and only with work to do: a dropped
\* POST handler takes its place along (redis_fanout.rs, conn.lock().await).
THEOREM TypeCorrect == Spec => []TypeOK
  BY Invariance, PTL DEF IInv

\* A feed with nothing to write has written what it said.
LEMMA NothingLeft ==
  ASSUME NEW f \in Feeds, Saying(f), todo[f] = <<>>
  PROVE  Written(f)
<1>1. \A a, b : <<a>> # <<>> /\ <<a, b>> # <<>>
  OBVIOUS
<1>2. Item(f) # <<>> /\ (f = "titan" => Tail(Item(f)) # <<>>)
  BY <1>1, ItemTyped, ItemIs, Zenon
<1> QED
  BY <1>1, <1>2, Zenon DEF Saying

LEMMA BeatFollows == IInv => BeatVouchesForFlags
<1> SUFFICES ASSUME IInv, store["beat"] = "new" PROVE BeatVouchesForFlags
  BY DEF BeatVouchesForFlags
<1>1. Running /\ redisConn /\ stage # "reset"
  BY DEF IInv, ResetIsMade, Running
<1>2. todo["main"] = <<>>
  <2>1. Own("main") /\ "main" \notin feeds
    BY FeedsAreTasks DEF IInv, EachItsOwn, TypeOK
  <2> QED
    BY <1>1, <2>1, FeedsAreTasks DEF Own
<1>3. \A f \in {"titan", "triton"} : store[f] = "old" => "main" \in lost
  BY <1>1, <1>2 DEF IInv, ResetIsMade
<1>4. store["shred"] = "old" => "shred" \notin feeds \/ todo["shred"] # <<>> \/ "shred" \in lost
  <2> SUFFICES ASSUME store["shred"] = "old", "shred" \in feeds, todo["shred"] = <<>> PROVE "shred" \in lost
    OBVIOUS
  <2>1. Saying("shred") /\ said["shred"] \in {"down", "up"}
    BY <1>1 DEF IInv, SaidIsWritten, TypeOK, Feeds
  <2>2. Written("shred")
    BY <2>1, NothingLeft DEF Feeds
  <2> QED
    BY <1>1, <2>1, <2>2 DEF Written
<1> QED
  BY <1>3, <1>4 DEF BeatVouchesForFlags

\* An eye that sees the heartbeat of this process never reads a flag that an
\* earlier process left and this one's boot reset was to clear: the reset is
\* awaited before the feeds and the heartbeat are spawned (run() of lib.rs).
THEOREM BeatVouches == Spec => []BeatVouchesForFlags
  BY Invariance, BeatFollows, PTL

LEMMA SettledFollows == IInv => SettledFlagsAreTrue
<1> SUFFICES ASSUME IInv, NEW f \in feeds, Running, redisConn, todo[f] = <<>>, f \notin lost
             PROVE  store[f] = said[f]
  BY DEF SettledFlagsAreTrue
<1>1. f \in Feeds /\ Saying(f) /\ said[f] \in {"down", "up"}
  BY DEF IInv, SaidIsWritten, TypeOK
<1>2. Written(f)
  BY <1>1, NothingLeft
<1> QED
  BY <1>2 DEF Written

\* Whoever else holds the lock in between, a feed with nothing more to write has
\* the flag it last said in Redis, unless a call of its last write was lost.
THEOREM SettledFlags == Spec => []SettledFlagsAreTrue
  BY Invariance, SettledFollows, PTL

-----------------------------------------------------------------------------
(* The lock: what a step does to the queue and to its head.                 *)

LEMMA BeforeAppend ==
  ASSUME NEW q \in Seq(Tasks), NEW u \in Tasks, NEW s \in Tasks, NEW t \in Tasks,
         Before(s, t, Append(q, u)), u # t
  PROVE  Before(s, t, q)
<1>1. PICK i, j \in 1..Len(Append(q, u)) : i < j /\ Append(q, u)[i] = s /\ Append(q, u)[j] = t
  BY DEF Before
<1>2. /\ Len(Append(q, u)) = Len(q) + 1 /\ Len(q) \in Nat
      /\ Append(q, u)[Len(q) + 1] = u
      /\ \A k \in 1..Len(q) : Append(q, u)[k] = q[k]
  OBVIOUS
<1>3. j # Len(q) + 1
  BY <1>1, <1>2
<1>4. i \in 1..Len(q) /\ j \in 1..Len(q)
  BY <1>1, <1>2, <1>3
<1> QED
  BY <1>1, <1>2, <1>4 DEF Before

LEMMA BeforeTail ==
  ASSUME NEW q \in Seq(Tasks), q # <<>>, NEW s \in Tasks, NEW t \in Tasks, Before(s, t, Tail(q))
  PROVE  Before(s, t, q)
<1>1. PICK i, j \in 1..Len(Tail(q)) : i < j /\ Tail(q)[i] = s /\ Tail(q)[j] = t
  BY DEF Before
<1>2. /\ Len(Tail(q)) = Len(q) - 1 /\ Len(q) \in Nat
      /\ \A k \in 1..Len(Tail(q)) : Tail(q)[k] = q[k + 1]
  OBVIOUS
<1>3. i + 1 \in 1..Len(q) /\ j + 1 \in 1..Len(q) /\ i + 1 < j + 1
  BY <1>1, <1>2
<1> QED
  BY <1>1, <1>2, <1>3 DEF Before

LEMMA BeforeRemove ==
  ASSUME NEW q \in Seq(Tasks), NEW n \in 1..Len(q), NEW s \in Tasks, NEW t \in Tasks,
         Before(s, t, RemoveAt(q, n))
  PROVE  Before(s, t, q)
<1> DEFINE r == RemoveAt(q, n)
<1>1. PICK i, j \in 1..Len(r) : i < j /\ r[i] = s /\ r[j] = t
  BY DEF Before
<1>2. /\ Len(r) = Len(q) - 1 /\ Len(q) \in Nat
      /\ \A k \in 1..(Len(q) - 1) : r[k] = IF k < n THEN q[k] ELSE q[k + 1]
  BY RemoveAtIs
<1> HIDE DEF r
<1> DEFINE at(k) == IF k < n THEN k ELSE k + 1
<1>3. at(i) \in 1..Len(q) /\ at(j) \in 1..Len(q) /\ at(i) < at(j) /\ q[at(i)] = s /\ q[at(j)] = t
  BY <1>1, <1>2
<1> HIDE DEF at
<1> QED
  BY <1>3 DEF Before

LEMMA QueueSteps ==
  ASSUME IInv, [Next]_vars
  PROVE  \/ UNCHANGED queue
         \/ \E t \in Tasks : Waits(t) /\ queue' = Append(queue, t)
         \/ \E t \in Tasks : Holds(t) /\ queue' = Tail(queue) /\ todo'[t] = Tail(todo[t])
         \/ \E p \in Posts, i \in 1..Len(queue) :
              queue[i] = p /\ queue' = RemoveAt(queue, i) /\ todo'[p] = <<>>
         \/ queue' = <<>> /\ \A t \in Tasks : todo'[t] = <<>>
<1>1. TodoType /\ QueueType
  BY TypeParts DEF IInv
<1>2. ASSUME NEW t \in Tasks, Join(t) PROVE queue' = Append(queue, t) /\ Waits(t)
  BY <1>2 DEF Join
<1>3. ASSUME NEW t \in Tasks, Answer(t) \/ NotConfigured(t)
      PROVE  \/ UNCHANGED queue
             \/ Holds(t) /\ queue' = Tail(queue) /\ todo'[t] = Tail(todo[t])
  BY <1>1, <1>3 DEF Answer, NotConfigured, Advance, TodoType
<1>4. ASSUME NEW p \in Posts, Cancel(p)
      PROVE  \/ UNCHANGED queue
             \/ \E i \in 1..Len(queue) : queue[i] = p /\ queue' = RemoveAt(queue, i) /\ todo'[p] = <<>>
  BY <1>1, <1>4, FeedsAreTasks DEF Cancel, TodoType
<1>5. ASSUME Exit PROVE queue' = <<>> /\ \A t \in Tasks : todo'[t] = <<>>
  BY <1>5 DEF Exit
<1>6. ASSUME NEW f \in Feeds, Rise(f) \/ Fall(f) \/ Receive(f) PROVE UNCHANGED queue
  BY <1>6 DEF Rise, Fall, Receive, Begin
<1>7. ASSUME NEW p \in Posts, Post(p) PROVE UNCHANGED queue
  BY <1>7 DEF Post, Begin
<1>8. ASSUME Start \/ Spawn \/ Bind \/ Beat \/ UNCHANGED vars PROVE UNCHANGED queue
  BY <1>8 DEF Start, Spawn, Bind, Beat, Begin, vars
<1> QED
  BY <1>2, <1>3, <1>4, <1>5, <1>6, <1>7, <1>8 DEF Next, Lock

\* For any handlers and interleaving: the lock serves its waiters in the order in
\* which they called conn.lock().await (redis_fanout.rs), whoever is dropped.
THEOREM LockInOrder == Spec => NoOvertaking
<1>1. ASSUME IInv, [Next]_vars, NEW s \in Tasks, NEW t \in Tasks, Before(s, t, queue'),
             ~ \A i \in 1..Len(queue) : queue[i] # t
      PROVE  Before(s, t, queue)
  <2>1. queue \in Seq(Tasks)
    BY <1>1 DEF IInv, TypeOK
  <2>2. CASE UNCHANGED queue
    BY <1>1, <2>2 DEF Before
  <2>3. ASSUME NEW u \in Tasks, Waits(u), queue' = Append(queue, u) PROVE Before(s, t, queue)
    <3>1. u # t
      BY <1>1, <2>3 DEF Waits
    <3> QED
      BY <1>1, <2>1, <2>3, <3>1, BeforeAppend
  <2>4. ASSUME NEW u \in Tasks, Holds(u), queue' = Tail(queue) PROVE Before(s, t, queue)
    BY <1>1, <2>1, <2>4, BeforeTail DEF Holds
  <2>5. ASSUME NEW i \in 1..Len(queue), queue' = RemoveAt(queue, i) PROVE Before(s, t, queue)
    BY <1>1, <2>1, <2>5, BeforeRemove
  <2>6. queue' # <<>>
    BY <1>1 DEF Before
  <2> QED
    BY <1>1, <2>2, <2>3, <2>4, <2>5, <2>6, QueueSteps
<1>2. IInv /\ [Next]_vars
        => [\A s, t \in Tasks :
             Before(s, t, queue') => Before(s, t, queue) \/ \A i \in 1..Len(queue) : queue[i] # t]_vars
  BY <1>1
<1> QED
  BY <1>2, Invariance, PTL DEF Spec, NoOvertaking

LEMMA HeadStays ==
  ASSUME QueueType, NEW t \in Tasks, Holds(t)
  PROVE  /\ \A u \in Tasks : Head(Append(queue, u)) = t /\ Append(queue, u) # <<>>
         /\ \A i \in 1..Len(queue) : queue[i] # t
              => Head(RemoveAt(queue, i)) = t /\ RemoveAt(queue, i) # <<>>
<1>1. queue \in Seq(Tasks) /\ queue # <<>> /\ queue[1] = t /\ Len(queue) \in Nat \ {0}
  BY DEF QueueType, Holds
<1>2. ASSUME NEW u \in Tasks PROVE Head(Append(queue, u)) = t /\ Append(queue, u) # <<>>
  BY <1>1
<1>3. ASSUME NEW i \in 1..Len(queue), queue[i] # t
      PROVE  Head(RemoveAt(queue, i)) = t /\ RemoveAt(queue, i) # <<>>
  <2> DEFINE r == RemoveAt(queue, i)
  <2>1. /\ r \in Seq(Tasks) /\ Len(r) = Len(queue) - 1
        /\ \A j \in 1..(Len(queue) - 1) : r[j] = IF j < i THEN queue[j] ELSE queue[j + 1]
    BY <1>1, RemoveAtIs
  <2> HIDE DEF r
  <2>2. 1 < i /\ 1 \in 1..(Len(queue) - 1)
    BY <1>1, <1>3
  <2>3. r[1] = t /\ Len(r) # 0
    BY <1>1, <2>1, <2>2
  <2>4. r # <<>> /\ Head(r) = t
    BY <2>1, <2>3
  <2> QED
    BY <2>4 DEF r
<1> QED
  BY <1>2, <1>3

\* For any handlers and interleaving: the calls of one operation (the pipe and the
\* publish of a Triton update, the two clears of set_titan_upstream_up) are made
\* under one hold of the lock.
THEOREM LockUntilDone == Spec => LockIsKept
<1>1. ASSUME IInv, [Next]_vars, NEW t \in Tasks, Holds(t), ~Holds(t)'
      PROVE  todo'[t] \in {<<>>, Tail(todo[t])}
  <2>1. QueueType
    BY <1>1, TypeParts DEF IInv
  <2>2. queue' # queue
    BY <1>1 DEF Holds
  <2>3. ASSUME NEW u \in Tasks, queue' = Append(queue, u) PROVE FALSE
    BY <1>1, <2>1, <2>3, HeadStays DEF Holds
  <2>4. ASSUME NEW u \in Tasks, Holds(u), todo'[u] = Tail(todo[u]) PROVE todo'[t] = Tail(todo[t])
    BY <1>1, <2>4 DEF Holds
  <2>5. ASSUME NEW p \in Posts, NEW i \in 1..Len(queue), queue[i] = p, queue' = RemoveAt(queue, i),
               todo'[p] = <<>>
        PROVE  todo'[t] = <<>>
    BY <1>1, <2>1, <2>5, HeadStays DEF Holds
  <2> QED
    BY <1>1, <2>2, <2>3, <2>4, <2>5, QueueSteps
<1>2. IInv /\ [Next]_vars
        => [\A t \in Tasks : Holds(t) /\ ~Holds(t)' => todo'[t] \in {<<>>, Tail(todo[t])}]_vars
  BY <1>1
<1> QED
  BY <1>2, Invariance, PTL DEF Spec, LockIsKept

-----------------------------------------------------------------------------
(* Who writes a flag *)

LEMMA AnswerOwns ==
  ASSUME IInv, NEW t \in Tasks, Answer(t), NEW f \in Feeds, store'[f] # store[f]
  PROVE  \/ Holds("main") /\ stage = "reset" /\ store'[f] = "down"
         \/ Holds(f) /\ Running /\ f \in feeds /\ store'[f] \in {said[f], "down"}
<1>1. TypeOK /\ EachItsOwn /\ SaidIsWritten /\ f \in Keys
  BY DEF IInv, Keys
<1>2. Holds(t) /\ Advance(t)
  BY DEF Answer
<1>3. MyCall(t).key = f /\ store'[f] = MyCall(t).value
  BY <1>1, Stored
<1>4. CASE t = "main"
  <2>1. stage = "reset" /\ MyCall(t).value = "down"
    BY <1>1, <1>2, <1>4, MainHas, MainAnswers DEF SetFlag
  <2> QED
    BY <1>2, <1>3, <1>4, <2>1
<1>5. CASE t = "heart"
  BY <1>1, <1>2, <1>3, <1>5, HeartAnswers DEF Feeds
<1>6. CASE t \in Posts
  BY <1>1, <1>2, <1>3, <1>6, PostAnswers DEF Feeds, Other
<1>7. CASE t \in Feeds
  <2>1. /\ t \in feeds /\ Running
        /\ MyCall(t) \in {Other, SetFlag(t, said[t]), SetFlag(t, "down")}
    BY <1>1, <1>2, <1>7, FeedAnswers
  <2>2. t = f /\ MyCall(t).value \in {said[t], "down"}
    BY <1>3, <2>1 DEF Feeds, Other, SetFlag
  <2> QED
    BY <1>2, <1>3, <2>1, <2>2
<1> QED
  BY <1>4, <1>5, <1>6, <1>7 DEF Tasks

\* Between all the tasks of run() a flag has one writer at a time: the boot reset
\* until it is over, then the feed it is about, with what the feed says.
THEOREM FlagsAreOwned == Spec => FlagsHaveOwners
<1>1. ASSUME IInv, [Next]_vars, NEW f \in Feeds, store'[f] # store[f]
      PROVE  \/ stage' = "down"
             \/ Holds("main") /\ stage = "reset" /\ store'[f] = "down"
             \/ Holds(f) /\ Running /\ f \in feeds /\ store'[f] \in {said[f], "down"}
  <2>1. CASE Exit
    BY <2>1 DEF Exit
  <2>2. ASSUME NEW t \in Tasks, Answer(t)
        PROVE  \/ Holds("main") /\ stage = "reset" /\ store'[f] = "down"
               \/ Holds(f) /\ Running /\ f \in feeds /\ store'[f] \in {said[f], "down"}
    BY <1>1, <2>2, AnswerOwns
  <2>3. ASSUME NEW t \in Tasks, Join(t) \/ NotConfigured(t) PROVE FALSE
    BY <1>1, <2>3 DEF Join, NotConfigured
  <2>4. CASE Start \/ Spawn \/ Bind \/ Beat \/ UNCHANGED vars
    BY <1>1, <2>4 DEF Start, Spawn, Bind, Beat, Begin, vars
  <2>5. ASSUME NEW g \in Feeds, Rise(g) \/ Fall(g) \/ Receive(g) PROVE FALSE
    BY <1>1, <2>5 DEF Rise, Fall, Receive, Begin
  <2>6. ASSUME NEW p \in Posts, Post(p) \/ Cancel(p) PROVE FALSE
    BY <1>1, <2>6 DEF Post, Cancel, Begin
  <2> QED
    BY <1>1, <2>1, <2>2, <2>3, <2>4, <2>5, <2>6 DEF Next, Lock
<1>2. IInv /\ [Next]_vars =>
        [\A f \in Feeds : store'[f] # store[f] =>
           \/ stage' = "down"
           \/ Holds("main") /\ stage = "reset" /\ store'[f] = "down"
           \/ Holds(f) /\ Running /\ f \in feeds /\ store'[f] \in {said[f], "down"}]_vars
  BY <1>1
<1> QED
  BY <1>2, Invariance, PTL DEF Spec, FlagsHaveOwners
=============================================================================
