--------------------- MODULE TitanLocalRelay_proofs ---------------------
(***************************************************************************)
(* Proofs about the local relay, for every set of clients and every        *)
(* capacity of the channel: whatever was lost to lag, a client for which   *)
(* nothing is left in the channel knows that the upstream is down.         *)
(***************************************************************************)
EXTENDS TitanLocalRelay, TLAPS

\* A push keeps the queue within the channel's capacity and puts the new event
\* last, whether or not an old one made room for it.
LEMMA PushLast ==
  ASSUME NEW q \in Seq(Events), Len(q) <= Capacity, NEW e \in Events
  PROVE  /\ Push(q, e) \in Seq(Events)
         /\ Len(Push(q, e)) <= Capacity
         /\ Push(q, e) # <<>>
         /\ Push(q, e)[Len(Push(q, e))] = e
<1>1. CASE Len(q) < Capacity
  BY <1>1, CapacityAssumption DEF Push
<1>2. CASE Len(q) = Capacity
  <2>1. q # <<>> /\ Tail(q) \in Seq(Events) /\ Len(Tail(q)) = Len(q) - 1
    BY <1>2, CapacityAssumption
  <2> QED
    BY <1>2, <2>1, CapacityAssumption DEF Push
<1> QED
  BY <1>1, <1>2, CapacityAssumption

\* Taking the head of a queue leaves its last event last.
LEMMA TailLast ==
  ASSUME NEW q \in Seq(Events), q # <<>>
  PROVE  /\ Tail(q) \in Seq(Events)
         /\ Len(Tail(q)) = Len(q) - 1
         /\ Head(q) \in Events
         /\ Tail(q) = <<>> => Head(q) = q[Len(q)]
         /\ Tail(q) # <<>> => Tail(q)[Len(Tail(q))] = q[Len(q)]
<1>1. Len(q) \in Nat \ {0} /\ q[1] \in Events /\ Head(q) = q[1]
  OBVIOUS
<1>2. \E t \in Seq(Events) : t = Tail(q) /\ Len(t) = Len(q) - 1 /\ \A i \in 1..Len(t) : t[i] = q[i + 1]
  <2>1. /\ Tail(q) \in Seq(Events) /\ Len(Tail(q)) = Len(q) - 1
        /\ \A i \in 1..Len(Tail(q)) : Tail(q)[i] = q[i + 1]
    OBVIOUS
  <2> QED
    BY <2>1, Zenon
<1>3. PICK t \in Seq(Events) : t = Tail(q) /\ Len(t) = Len(q) - 1 /\ \A i \in 1..Len(t) : t[i] = q[i + 1]
  BY <1>2, Zenon
<1>4. t = <<>> => Len(t) = 0
  OBVIOUS
<1>5. t # <<>> => Len(t) # 0
  OBVIOUS
<1>6. t = <<>> => q[1] = q[Len(q)]
  BY <1>1, <1>3, <1>4
<1>7. t # <<>> => t[Len(t)] = q[Len(q)]
  <2>1. t # <<>> => Len(t) \in 1..Len(t) /\ Len(t) + 1 = Len(q)
    BY <1>1, <1>3, <1>5
  <2> QED
    BY <1>3, <2>1
<1> QED
  BY <1>1, <1>3, <1>6, <1>7, Zenon

-----------------------------------------------------------------------------
\* No client is connected: the state at the start, and after the process died.
LEMMA NobodyConnected ==
  /\ [c \in Clients |-> <<>>] \in [Clients -> Seq(Events)]
  /\ \A c \in Clients : Len([d \in Clients |-> <<>>][c]) <= Capacity
<1>1. <<>> \in Seq(Events) /\ Len(<<>>) = 0
  OBVIOUS
<1> QED
  BY <1>1, CapacityAssumption

LEMMA TypeInit == Init => TypeOK
<1> SUFFICES ASSUME Init PROVE TypeOK
  OBVIOUS
<1>1. pending \in [Clients -> Seq(Events)] /\ \A c \in Clients : Len(pending[c]) <= Capacity
  BY NobodyConnected DEF Init
<1>2. flag \in BOOLEAN /\ last \in Statuses /\ beat \in {0, 1}
  BY DEF Init, FInit, Statuses
<1>3. /\ phase \in [Clients -> Phases]
      /\ behind \in [Clients -> BOOLEAN]
      /\ writing \in [Clients -> Events \union {"none"}]
      /\ told \in [Clients -> Statuses \union {"none"}]
      /\ trust \in [Clients -> Trusts]
  BY DEF Init, Phases, Trusts
<1> QED
  BY <1>1, <1>2, <1>3 DEF TypeOK

LEMMA TypeNext == TypeOK /\ [Next]_vars => TypeOK'
<1> SUFFICES ASSUME TypeOK, [Next]_vars PROVE TypeOK'
  OBVIOUS
<1> USE CapacityAssumption
<1> USE DEF TypeOK, Statuses, Events, Phases, Trusts, fvars, clientVars
<1>1. CASE UNCHANGED vars
  BY <1>1 DEF vars
<1>2. CASE StoreUp \/ StoreDown
  BY <1>2 DEF StoreUp, StoreDown, Raise, Lower
<1>3. ASSUME NEW e \in Events, Broadcast(e), flag' = flag, last' \in Statuses, beat' \in {0, 1}
      PROVE  TypeOK'
  <2>1. \A c \in Clients : Push(pending[c], e) \in Seq(Events) /\ Len(Push(pending[c], e)) <= Capacity
    BY PushLast
  <2>2. pending' \in [Clients -> Seq(Events)] /\ \A c \in Clients : Len(pending'[c]) <= Capacity
    BY <1>3, <2>1 DEF Broadcast
  <2>3. behind' \in [Clients -> BOOLEAN]
    BY <1>3 DEF Broadcast
  <2> QED
    BY <1>3, <2>2, <2>3 DEF Broadcast
<1>4. CASE PublishStatus
  BY <1>3, <1>4 DEF PublishStatus, SendStatus, StatusOf
<1>5. CASE PublishFrame
  BY <1>3, <1>5 DEF PublishFrame, SendFrame
<1>6. CASE Die
  <2>1. pending' \in [Clients -> Seq(Events)] /\ \A c \in Clients : Len(pending'[c]) <= Capacity
    BY <1>6, NobodyConnected DEF Die
  <2>2. /\ phase' \in [Clients -> Phases]
        /\ behind' \in [Clients -> BOOLEAN]
        /\ writing' \in [Clients -> Events \union {"none"}]
        /\ told' \in [Clients -> Statuses \union {"none"}]
        /\ trust' \in [Clients -> Trusts]
    BY <1>6 DEF Die
  <2>3. flag' \in BOOLEAN /\ last' \in Statuses /\ beat' \in {0, 1}
    BY <1>6 DEF Die, Restart
  <2> QED
    BY <2>1, <2>2, <2>3
<1>7. ASSUME NEW c \in Clients, Subscribe(c) \/ LoadFlag(c) PROVE TypeOK'
  BY <1>7 DEF Subscribe, LoadFlag, StatusOf
<1>8. ASSUME NEW c \in Clients, Receive(c) PROVE TypeOK'
  <2>1. Tail(pending[c]) \in Seq(Events) /\ Len(Tail(pending[c])) <= Capacity /\ Head(pending[c]) \in Events
    BY <1>8, TailLast DEF Receive
  <2> QED
    BY <1>8, <2>1 DEF Receive
<1>9. ASSUME NEW c \in Clients, ReceiveLagged(c) \/ WriteDone(c) PROVE TypeOK'
  <2>1. CASE ReceiveLagged(c)
    BY <2>1 DEF ReceiveLagged
  <2>2. CASE WriteDone(c)
    BY <2>2 DEF WriteDone
  <2> QED
    BY <1>9, <2>1, <2>2
<1>10. ASSUME NEW c \in Clients, Leave(c) PROVE TypeOK'
  BY <1>10 DEF Leave, Gone
<1> QED
  BY <1>1, <1>2, <1>4, <1>5, <1>6, <1>7, <1>8, <1>9, <1>10 DEF Next, Serve

\* Every reachable state is well typed; no queue outgrows the channel.
THEOREM TypeCorrect == Spec => []TypeOK
  BY TypeInit, TypeNext, PTL DEF Spec

-----------------------------------------------------------------------------
LEMMA DownInit == Init => DownOnItsWay
  BY DEF Init, DownOnItsWay, NewestIsDown

LEMMA DownNext == TypeOK /\ DownOnItsWay /\ [Next]_vars => DownOnItsWay'
<1> SUFFICES ASSUME TypeOK, DownOnItsWay, [Next]_vars, NEW d \in Clients
             PROVE  /\ ~Listening(d)' => pending'[d] = <<>>
                    /\ ~flag' /\ last' = "down" => NewestIsDown(d)'
  BY DEF DownOnItsWay
<1> DEFINE Goal == /\ ~Listening(d)' => pending'[d] = <<>>
                   /\ ~flag' /\ last' = "down" => NewestIsDown(d)'
<1> USE DEF DownOnItsWay, NewestIsDown, Listening
<1>1. CASE UNCHANGED vars
  BY <1>1 DEF vars, fvars, clientVars
<1>2. CASE StoreUp \/ StoreDown
  BY <1>2 DEF StoreUp, StoreDown, Raise, Lower, Settled, StatusOf, TypeOK, fvars, clientVars
<1>3. CASE PublishStatus
  <2>1. Push(pending[d], "down") # <<>> /\ Push(pending[d], "down")[Len(Push(pending[d], "down"))] = "down"
    BY PushLast DEF TypeOK, Events, Statuses
  <2>2. CASE Listening(d)
    <3>1. last' = "down" => pending'[d] = Push(pending[d], "down")
      BY <1>3, <2>2 DEF PublishStatus, Broadcast
    <3>2. Listening(d)'
      BY <1>3, <2>2 DEF PublishStatus, Broadcast
    <3> QED
      BY <2>1, <3>1, <3>2
  <2>3. CASE ~Listening(d)
    BY <1>3, <2>3 DEF PublishStatus, Broadcast, Listening, TypeOK
  <2> QED
    BY <2>2, <2>3
<1>4. CASE PublishFrame
  BY <1>4 DEF PublishFrame, SendFrame, Broadcast, TypeOK
<1>5. CASE Die
  BY <1>5 DEF Die
<1>6. ASSUME NEW c \in Clients, Subscribe(c) PROVE Goal
  BY <1>6 DEF Subscribe, TypeOK, fvars
<1>7. ASSUME NEW c \in Clients, LoadFlag(c) PROVE Goal
  BY <1>7 DEF LoadFlag, StatusOf, TypeOK, fvars
<1>8. ASSUME NEW c \in Clients, Receive(c) PROVE Goal
  <2>1. UNCHANGED <<flag, last>> /\ phase[c] = "serving" /\ pending[c] # <<>>
    BY <1>8 DEF Receive, fvars
  <2>2. CASE d = c
    <3>1. pending'[d] = Tail(pending[d]) /\ writing'[d] = Head(pending[d]) /\ phase'[d] = "writing"
      BY <1>8, <2>2 DEF Receive, TypeOK
    <3>2. ~flag /\ last = "down" => pending[d][Len(pending[d])] = "down"
      BY <2>1, <2>2
    <3>3. pending[d] \in Seq(Events) /\ pending[d] # <<>>
      BY <2>1, <2>2 DEF TypeOK
    <3>4. Tail(pending[d]) = <<>> => Head(pending[d]) = pending[d][Len(pending[d])]
      BY <3>3, TailLast, Zenon
    <3>5. Tail(pending[d]) # <<>> => Tail(pending[d])[Len(Tail(pending[d]))] = pending[d][Len(pending[d])]
      BY <3>3, TailLast, Zenon
    <3>6. Listening(d)'
      BY <3>1
    <3>7. ~flag' /\ last' = "down" => NewestIsDown(d)'
      <4>1. CASE Tail(pending[d]) = <<>>
        BY <2>1, <3>1, <3>2, <3>4, <4>1
      <4>2. CASE Tail(pending[d]) # <<>>
        BY <2>1, <3>1, <3>2, <3>5, <4>2
      <4> QED
        BY <4>1, <4>2
    <3> QED
      BY <3>6, <3>7
  <2>3. CASE d # c
    BY <1>8, <2>1, <2>3 DEF Receive, TypeOK
  <2> QED
    BY <2>2, <2>3
<1>9. ASSUME NEW c \in Clients, ReceiveLagged(c) PROVE Goal
  BY <1>9 DEF ReceiveLagged, TypeOK, fvars
<1>10. ASSUME NEW c \in Clients, WriteDone(c) PROVE Goal
  BY <1>10 DEF WriteDone, TypeOK, Statuses, fvars
<1>11. ASSUME NEW c \in Clients, Leave(c) PROVE Goal
  BY <1>11 DEF Leave, Gone, TypeOK, fvars
<1> QED
  BY <1>1, <1>2, <1>3, <1>4, <1>5, <1>6, <1>7, <1>8, <1>9, <1>10, <1>11 DEF Next, Serve

-----------------------------------------------------------------------------
(* What a push leaves of a queue. *)

\* The new event is last; the old ones are all there, or all but the first.
LEMMA PushItems ==
  ASSUME NEW q \in Seq(Events), Len(q) <= Capacity, NEW e \in Events
  PROVE  /\ Push(q, e)[Len(Push(q, e))] = e
         /\ Len(q) < Capacity =>
              /\ Len(Push(q, e)) = Len(q) + 1
              /\ \A i \in 1..Len(q) : Push(q, e)[i] = q[i]
         /\ Len(q) = Capacity =>
              /\ Len(Push(q, e)) = Len(q)
              /\ \A i \in 1..(Len(q) - 1) : Push(q, e)[i] = q[i + 1]
<1>1. CASE Len(q) < Capacity
  BY <1>1, CapacityAssumption DEF Push
<1>2. CASE Len(q) = Capacity
  <2>1. /\ Tail(q) \in Seq(Events) /\ Len(Tail(q)) = Len(q) - 1
        /\ \A i \in 1..(Len(q) - 1) : Tail(q)[i] = q[i + 1]
    BY <1>2, CapacityAssumption
  <2>2. Push(q, e) = Append(Tail(q), e)
    BY <1>2 DEF Push
  <2> QED
    BY <1>2, <2>1, <2>2, CapacityAssumption
<1> QED
  BY <1>1, <1>2, CapacityAssumption

\* The rest of a queue: its events are the old ones from the second on.
LEMMA TailItems ==
  ASSUME NEW q \in Seq(Events), q # <<>>
  PROVE  /\ Len(Tail(q)) = Len(q) - 1 /\ Len(q) >= 1 /\ Head(q) = q[1]
         /\ \A i \in 1..(Len(q) - 1) : Tail(q)[i] = q[i + 1]
  OBVIOUS

LEMMA PushStatusIsNewest ==
  ASSUME NEW q \in Seq(Events), Len(q) <= Capacity, NEW s \in Statuses
  PROVE  NewestStatusIs(Push(q, s), s) /\ ~NoStatus(Push(q, s))
<1>1. Push(q, s) \in Seq(Events) /\ Push(q, s) # <<>> /\ Push(q, s)[Len(Push(q, s))] = s
  BY PushLast DEF Events
<1>2. Len(Push(q, s)) \in Nat \ {0}
  BY <1>1
<1> QED
  BY <1>1, <1>2 DEF NewestStatusIs, NoStatus

LEMMA PushFrameKeepsNewest ==
  ASSUME NEW q \in Seq(Events), Len(q) <= Capacity, NEW s \in Statuses, NewestStatusIs(q, s)
  PROVE  /\ NewestStatusIs(Push(q, "frame"), s)
         /\ Len(q) < Capacity /\ NoStatus(Push(q, "frame")) => NoStatus(q)
<1> DEFINE p == Push(q, "frame")
<1>1. "frame" \in Events /\ "frame" \notin Statuses /\ Len(q) \in Nat
  BY DEF Events, Statuses
<1>2. CASE Len(q) < Capacity
  <2>1. Len(p) = Len(q) + 1 /\ p[Len(q) + 1] = "frame" /\ \A i \in 1..Len(q) : p[i] = q[i]
    BY <1>1, <1>2, PushItems
  <2> HIDE DEF p
  <2> QED
    BY <1>1, <2>1 DEF NewestStatusIs, NoStatus, p
<1>3. CASE Len(q) = Capacity
  <2>1. Len(p) = Len(q) /\ p[Len(q)] = "frame" /\ \A i \in 1..(Len(q) - 1) : p[i] = q[i + 1]
    BY <1>1, <1>3, PushItems
  <2>2. ASSUME NEW i \in 1..Len(q), p[i] \in Statuses, p[i] # s
        PROVE  \E j \in 1..Len(q) : j > i /\ p[j] = s
    <3>1. i \in 1..(Len(q) - 1) /\ q[i + 1] \in Statuses /\ q[i + 1] # s
      BY <1>1, <2>1, <2>2
    <3>2. PICK j \in 1..Len(q) : j > i + 1 /\ q[j] = s
      BY <1>1, <3>1 DEF NewestStatusIs
    <3>3. j - 1 \in 1..(Len(q) - 1) /\ p[j - 1] = q[(j - 1) + 1] /\ (j - 1) + 1 = j /\ j - 1 > i
      BY <1>1, <2>1, <3>1, <3>2
    <3> QED
      BY <1>1, <3>2, <3>3
  <2> HIDE DEF p
  <2> QED
    BY <1>1, <1>3, <2>1, <2>2 DEF NewestStatusIs, p
<1> QED
  BY <1>1, <1>2, <1>3, CapacityAssumption

LEMMA TailKeepsNewest ==
  ASSUME NEW q \in Seq(Events), q # <<>>, NEW s \in Statuses, NewestStatusIs(q, s)
  PROVE  /\ NewestStatusIs(Tail(q), s)
         /\ NoStatus(Tail(q)) /\ Head(q) \in Statuses => Head(q) = s
         /\ NoStatus(Tail(q)) /\ Head(q) \notin Statuses => NoStatus(q)
<1> DEFINE t == Tail(q)
<1>1. Len(t) = Len(q) - 1 /\ Len(q) \in Nat \ {0} /\ Head(q) = q[1] /\ \A i \in 1..(Len(q) - 1) : t[i] = q[i + 1]
  BY TailItems
<1> HIDE DEF t
<1>2. NewestStatusIs(t, s)
  <2>1. ASSUME NEW i \in 1..Len(t), t[i] \in Statuses, t[i] # s
        PROVE  \E j \in 1..Len(t) : j > i /\ t[j] = s
    <3>1. i + 1 \in 1..Len(q) /\ q[i + 1] \in Statuses /\ q[i + 1] # s
      BY <1>1, <2>1
    <3>2. PICK j \in 1..Len(q) : j > i + 1 /\ q[j] = s
      BY <1>1, <3>1 DEF NewestStatusIs
    <3>3. j - 1 \in 1..(Len(q) - 1) /\ t[j - 1] = q[(j - 1) + 1] /\ (j - 1) + 1 = j /\ j - 1 > i
      BY <1>1, <3>2
    <3> QED
      BY <1>1, <3>2, <3>3
  <2> QED
    BY <1>1, <2>1 DEF NewestStatusIs
<1>3. ASSUME NoStatus(t), NEW j \in 1..Len(q), j # 1 PROVE q[j] \notin Statuses
  <2>1. j - 1 \in 1..Len(t) /\ t[j - 1] = q[(j - 1) + 1] /\ (j - 1) + 1 = j
    BY <1>1, <1>3
  <2> QED
    BY <1>3, <2>1 DEF NoStatus
<1>4. NoStatus(t) /\ Head(q) \in Statuses => Head(q) = s
  BY <1>1, <1>3 DEF NewestStatusIs
<1>5. NoStatus(t) /\ Head(q) \notin Statuses => NoStatus(q)
  BY <1>1, <1>3 DEF NoStatus
<1> QED
  BY <1>2, <1>4, <1>5 DEF t

\* With the flag up and announced, the newest event is not a "down".
LEMMA NewestIsNotDown ==
  ASSUME NEW q \in Seq(Events), q # <<>>, NewestStatusIs(q, "up")
  PROVE  q[Len(q)] # "down"
<1>1. Len(q) \in 1..Len(q)
  OBVIOUS
<1> QED
  BY <1>1 DEF NewestStatusIs, Statuses

LEMMA PushKeepsOrder ==
  ASSUME NEW q \in Seq(Events), Len(q) <= Capacity, NEW e \in Events, NoFrameAfterDown(q),
         e = "frame" /\ q # <<>> => q[Len(q)] # "down"
  PROVE  NoFrameAfterDown(Push(q, e))
<1> DEFINE p == Push(q, e)
<1>1. CASE Len(q) < Capacity
  <2>1. Len(q) \in Nat /\ Len(p) = Len(q) + 1 /\ p[Len(q) + 1] = e /\ \A i \in 1..Len(q) : p[i] = q[i]
    BY <1>1, PushItems
  <2>2. q # <<>> \/ Len(q) = 0
    OBVIOUS
  <2> HIDE DEF p
  <2>3. ASSUME NEW i \in 2..Len(p), p[i] = "frame" PROVE p[i - 1] # "down"
    <3>1. CASE i \in 2..Len(q)
      BY <2>1, <2>3, <3>1 DEF NoFrameAfterDown
    <3>2. CASE i = Len(q) + 1
      BY <2>1, <2>2, <2>3, <3>2
    <3> QED
      BY <2>1, <3>1, <3>2
  <2> QED
    BY <2>3 DEF NoFrameAfterDown, p
<1>2. CASE Len(q) = Capacity
  <2>1. Len(q) \in Nat \ {0} /\ Len(p) = Len(q) /\ p[Len(q)] = e /\ \A i \in 1..(Len(q) - 1) : p[i] = q[i + 1]
    BY <1>2, PushItems, CapacityAssumption
  <2>2. q # <<>>
    BY <2>1
  <2> HIDE DEF p
  <2>3. ASSUME NEW i \in 2..Len(p), p[i] = "frame" PROVE p[i - 1] # "down"
    <3>1. p[i - 1] = q[(i - 1) + 1] /\ (i - 1) + 1 = i
      BY <2>1
    <3>2. CASE i < Len(q)
      <4>1. p[i] = q[i + 1] /\ i + 1 \in 2..Len(q) /\ (i + 1) - 1 = i
        BY <2>1, <3>2
      <4> QED
        BY <2>3, <3>1, <4>1 DEF NoFrameAfterDown
    <3>3. CASE i = Len(q)
      BY <2>1, <2>2, <2>3, <3>1, <3>3
    <3> QED
      BY <2>1, <3>2, <3>3
  <2> QED
    BY <2>3 DEF NoFrameAfterDown, p
<1> QED
  BY <1>1, <1>2, CapacityAssumption

LEMMA TailKeepsOrder ==
  ASSUME NEW q \in Seq(Events), q # <<>>, NoFrameAfterDown(q)
  PROVE  /\ NoFrameAfterDown(Tail(q))
         /\ Tail(q) # <<>> /\ Tail(q)[1] = "frame" => Head(q) # "down"
<1> DEFINE t == Tail(q)
<1>1. /\ Len(t) = Len(q) - 1 /\ Len(q) \in Nat \ {0} /\ Head(q) = q[1]
      /\ \A i \in 1..(Len(q) - 1) : t[i] = q[i + 1]
      /\ t # <<>> => Len(q) >= 2
  <2>1. t \in Seq(Events)
    OBVIOUS
  <2> QED
    BY <2>1, TailItems
<1> HIDE DEF t
<1>2. ASSUME NEW i \in 2..Len(t), t[i] = "frame" PROVE t[i - 1] # "down"
  <2>1. /\ t[i] = q[i + 1] /\ i + 1 \in 2..Len(q) /\ (i + 1) - 1 = i
        /\ t[i - 1] = q[(i - 1) + 1] /\ (i - 1) + 1 = i
    BY <1>1, <1>2
  <2> QED
    BY <1>2, <2>1 DEF NoFrameAfterDown
<1>3. t # <<>> /\ t[1] = "frame" => Head(q) # "down"
  <2>1. t # <<>> => t[1] = q[2] /\ 2 \in 2..Len(q) /\ 2 - 1 = 1
    BY <1>1
  <2> QED
    BY <1>1, <2>1 DEF NoFrameAfterDown
<1> QED
  BY <1>2, <1>3 DEF t, NoFrameAfterDown

-----------------------------------------------------------------------------
Clientwise == \A c \in Clients : InStep(c) /\ InOrder(c)

LEMMA ClientwiseInit == Init => Clientwise
  BY DEF Init, Clientwise, InStep, InOrder, NoFrameAfterDown, NewestStatusIs

\* A step that leaves a client's side and the announced status alone.
LEMMA Undisturbed ==
  ASSUME NEW d \in Clients, InStep(d) /\ InOrder(d), UNCHANGED <<flag, last>>,
         pending'[d] = pending[d], behind'[d] = behind[d], phase'[d] = phase[d],
         writing'[d] = writing[d], told'[d] = told[d], trust'[d] = trust[d]
  PROVE  InStep(d)' /\ InOrder(d)'
<1>1. Settled' = Settled
  BY DEF Settled
<1>2. InStep(d)'
  BY <1>1 DEF InStep
<1>3. InOrder(d)'
  BY DEF InOrder
<1> QED
  BY <1>2, <1>3

\* Every action on a client is about that client only.
LEMMA OthersUndisturbed ==
  ASSUME TypeOK, Clientwise, NEW c \in Clients, NEW d \in Clients, d # c, Subscribe(c) \/ Serve(c) \/ Leave(c)
  PROVE  InStep(d)' /\ InOrder(d)'
<1>1. UNCHANGED <<flag, last>>
  BY DEF Subscribe, Serve, LoadFlag, Receive, ReceiveLagged, WriteDone, Leave, fvars
<1>2. /\ pending'[d] = pending[d] /\ behind'[d] = behind[d] /\ phase'[d] = phase[d]
      /\ writing'[d] = writing[d] /\ told'[d] = told[d] /\ trust'[d] = trust[d]
  BY DEF TypeOK, Subscribe, Serve, LoadFlag, Receive, ReceiveLagged, WriteDone, Leave, Gone
<1> QED
  BY <1>1, <1>2, Undisturbed DEF Clientwise

LEMMA ClientwiseNext == TypeOK /\ DownOnItsWay /\ Clientwise /\ [Next]_vars => Clientwise'
<1> SUFFICES ASSUME TypeOK, DownOnItsWay, Clientwise, [Next]_vars, NEW d \in Clients
             PROVE  InStep(d)' /\ InOrder(d)'
  BY DEF Clientwise
<1> DEFINE Goal == InStep(d)' /\ InOrder(d)'
<1>0. /\ InStep(d) /\ InOrder(d)
      /\ pending[d] \in Seq(Events) /\ Len(pending[d]) <= Capacity /\ Len(pending[d]) \in Nat
      /\ phase[d] \in Phases /\ behind[d] \in BOOLEAN /\ writing[d] \in Events \union {"none"}
      /\ told[d] \in Statuses \union {"none"} /\ trust[d] \in Trusts
      /\ flag \in BOOLEAN /\ last \in Statuses
  BY DEF Clientwise, TypeOK
<1>1. CASE UNCHANGED vars
  BY <1>0, <1>1, Undisturbed DEF vars, fvars, clientVars
<1>2. CASE StoreUp \/ StoreDown
  <2>1. UNCHANGED clientVars /\ last' = last /\ Settled
    BY <1>2 DEF StoreUp, StoreDown, Raise, Lower
  <2>2. InOrder(d)'
    BY <1>0, <2>1 DEF InOrder, clientVars
  <2>3. InStep(d)'
    BY <1>0, <2>1 DEF InStep, clientVars
  <2> QED
    BY <2>2, <2>3
<1>3. CASE PublishStatus
  <2>1. last' = StatusOf(flag) /\ last' \in Statuses /\ flag' = flag /\ Settled'
    BY <1>0, <1>3 DEF PublishStatus, SendStatus, StatusOf, Settled, Statuses
  <2>2. UNCHANGED <<phase, writing, told, trust>>
    BY <1>3 DEF PublishStatus, Broadcast
  <2>3. CASE Listening(d)
    <3>1. pending'[d] = Push(pending[d], last') /\ behind'[d] = (behind[d] \/ Len(pending[d]) = Capacity)
      BY <1>3, <2>3 DEF PublishStatus, Broadcast
    <3>2. NewestStatusIs(pending'[d], last') /\ ~NoStatus(pending'[d]) /\ pending'[d] # <<>>
      BY <1>0, <2>1, <3>1, PushStatusIsNewest, PushLast DEF Events
    <3>3. InStep(d)'
      BY <3>2 DEF InStep
    <3>4. NoFrameAfterDown(pending'[d])
      BY <1>0, <2>1, <3>1, PushKeepsOrder DEF InOrder, Events, Statuses
    <3>5. ~behind'[d] /\ pending'[d][1] = "frame" => ~behind[d] /\ pending[d] # <<>> /\ pending[d][1] = "frame"
      <4>1. CASE Len(pending[d]) < Capacity
        <5>1. /\ Len(pending'[d]) = Len(pending[d]) + 1 /\ pending'[d][Len(pending'[d])] = last'
              /\ \A i \in 1..Len(pending[d]) : pending'[d][i] = pending[d][i]
          <6> DEFINE q == pending[d]
          <6>1. q \in Seq(Events) /\ Len(q) <= Capacity /\ last' \in Events /\ Len(q) < Capacity
            BY <1>0, <2>1, <4>1 DEF Events
          <6> HIDE DEF q
          <6>2. /\ Len(Push(q, last')) = Len(q) + 1 /\ Push(q, last')[Len(Push(q, last'))] = last'
                /\ \A i \in 1..Len(q) : Push(q, last')[i] = q[i]
            BY <6>1, PushItems
          <6> QED
            BY <3>1, <6>2, Zenon DEF q
        <5>2. pending[d] = <<>> => Len(pending[d]) = 0
          OBVIOUS
        <5>3. pending[d] # <<>> => 1 \in 1..Len(pending[d])
          BY <1>0
        <5> QED
          BY <1>0, <2>1, <3>1, <5>1, <5>2, <5>3 DEF Statuses
      <4>2. CASE Len(pending[d]) = Capacity
        BY <3>1, <4>2
      <4> QED
        BY <1>0, <4>1, <4>2, CapacityAssumption
    <3>6. InOrder(d)'
      BY <1>0, <2>2, <3>4, <3>5 DEF InOrder
    <3> QED
      BY <3>3, <3>6
  <2>4. CASE ~Listening(d)
    <3>1. pending'[d] = pending[d] /\ pending[d] = <<>> /\ phase[d] = "off" /\ behind'[d] = behind[d]
      BY <1>3, <2>4 DEF PublishStatus, Broadcast, Listening, DownOnItsWay, TypeOK
    <3>2. InStep(d)'
      BY <1>0, <2>2, <3>1 DEF InStep, NewestStatusIs
    <3>3. InOrder(d)'
      BY <1>0, <2>2, <3>1 DEF InOrder
    <3> QED
      BY <3>2, <3>3
  <2> QED
    BY <2>3, <2>4
<1>4. CASE PublishFrame
  <2>1. flag /\ Settled /\ last = "up" /\ UNCHANGED <<flag, last>> /\ Settled'
    BY <1>4 DEF PublishFrame, SendFrame, Settled, StatusOf
  <2>2. UNCHANGED <<phase, writing, told, trust>>
    BY <1>4 DEF PublishFrame, Broadcast
  <2>3. CASE Listening(d)
    <3>1. pending'[d] = Push(pending[d], "frame") /\ behind'[d] = (behind[d] \/ Len(pending[d]) = Capacity)
      BY <1>4, <2>3 DEF PublishFrame, Broadcast
    <3>2. NewestStatusIs(pending[d], "up")
      BY <1>0, <2>1 DEF InStep
    <3>3. /\ NewestStatusIs(pending'[d], last') /\ pending'[d] # <<>>
          /\ Len(pending[d]) < Capacity /\ NoStatus(pending'[d]) => NoStatus(pending[d])
      BY <1>0, <2>1, <3>1, <3>2, PushFrameKeepsNewest, PushLast DEF Events, Statuses
    <3>4. ~behind'[d] => ~behind[d] /\ Len(pending[d]) < Capacity
      <4>1. Len(pending[d]) # Capacity => Len(pending[d]) < Capacity
        BY <1>0, CapacityAssumption
      <4> QED
        BY <3>1, <4>1, Zenon
    <3>5. InStep(d)'
      BY <1>0, <2>1, <2>2, <3>3, <3>4 DEF InStep
    <3>6. NoFrameAfterDown(pending'[d])
      BY <1>0, <3>1, <3>2, PushKeepsOrder, NewestIsNotDown DEF InOrder, Events
    <3>7. ~behind'[d] =>
            /\ ~behind[d]
            /\ pending[d] = <<>> \/ (pending[d] # <<>> /\ pending'[d][1] = pending[d][1])
      <4>1. Len(pending[d]) < Capacity => \A i \in 1..Len(pending[d]) : pending'[d][i] = pending[d][i]
        <5> DEFINE q == pending[d]
        <5>1. q \in Seq(Events) /\ Len(q) <= Capacity /\ "frame" \in Events
          BY <1>0 DEF Events
        <5> HIDE DEF q
        <5>2. Len(q) < Capacity => \A i \in 1..Len(q) : Push(q, "frame")[i] = q[i]
          BY <5>1, PushItems
        <5> QED
          BY <3>1, <5>2, Zenon DEF q
      <4>2. pending[d] # <<>> => 1 \in 1..Len(pending[d])
        BY <1>0
      <4> QED
        BY <3>4, <4>1, <4>2
    <3>8. ~behind[d] /\ pending[d] = <<>> =>
            /\ writing[d] \in Statuses => writing[d] = "up"
            /\ writing[d] = "none" /\ trust[d] = "synced" => told[d] = "up"
      <4>1. pending[d] = <<>> => NoStatus(pending[d])
        BY DEF NoStatus
      <4> QED
        BY <1>0, <2>1, <4>1 DEF InStep, InOrder, Phases, Statuses
    <3>9. InOrder(d)'
      BY <1>0, <2>2, <3>6, <3>7, <3>8 DEF InOrder
    <3> QED
      BY <3>5, <3>9
  <2>4. CASE ~Listening(d)
    <3>1. pending'[d] = pending[d] /\ behind'[d] = behind[d]
      BY <1>0, <1>4, <2>4 DEF PublishFrame, Broadcast, TypeOK
    <3> QED
      BY <1>0, <2>1, <2>2, <3>1, Undisturbed
  <2> QED
    BY <2>3, <2>4
<1>5. CASE Die
  BY <1>5 DEF Die, InStep, InOrder, NoFrameAfterDown, NewestStatusIs
<1>6. ASSUME NEW c \in Clients, Subscribe(c) \/ Serve(c) \/ Leave(c), d # c PROVE Goal
  BY <1>6, OthersUndisturbed
<1>7. CASE Subscribe(d)
  <2>1. /\ UNCHANGED <<flag, last, pending, behind, writing, told, trust>>
        /\ phase'[d] = "subscribed" /\ phase[d] = "off"
    BY <1>7 DEF Subscribe, fvars, TypeOK
  <2>2. Settled' = Settled
    BY <2>1 DEF Settled
  <2> QED
    BY <1>0, <2>1, <2>2 DEF InStep, InOrder
<1>8. CASE LoadFlag(d)
  <2>1. /\ UNCHANGED <<flag, last, pending, behind, told, trust>>
        /\ phase'[d] = "writing" /\ phase[d] = "subscribed" /\ writing'[d] = StatusOf(flag)
    BY <1>8 DEF LoadFlag, fvars, TypeOK
  <2>2. Settled' = Settled /\ StatusOf(flag) \in Statuses
    BY <2>1 DEF Settled, StatusOf, Statuses
  <2>3. InStep(d)'
    BY <1>0, <2>1, <2>2 DEF InStep, Settled, Statuses
  <2>4. InOrder(d)'
    BY <1>0, <2>1, <2>2 DEF InOrder, Statuses
  <2> QED
    BY <2>3, <2>4
<1>9. CASE Receive(d)
  <2>1. /\ UNCHANGED <<flag, last, behind, told, trust>> /\ phase[d] = "serving" /\ ~behind[d]
        /\ pending[d] # <<>> /\ phase'[d] = "writing"
        /\ writing'[d] = Head(pending[d]) /\ pending'[d] = Tail(pending[d])
    BY <1>9 DEF Receive, fvars, TypeOK
  <2>2. Head(pending[d]) \in Events /\ Head(pending[d]) = pending[d][1]
    BY <1>0, <2>1, TailLast, TailItems
  <2>3. Settled' = Settled
    BY <2>1 DEF Settled
  <2>4. Settled => /\ NewestStatusIs(pending'[d], last)
                   /\ NoStatus(pending'[d]) /\ Head(pending[d]) \in Statuses => Head(pending[d]) = last
                   /\ NoStatus(pending'[d]) /\ Head(pending[d]) \notin Statuses => NoStatus(pending[d])
    BY <1>0, <2>1, TailKeepsNewest DEF InStep
  <2>5. InStep(d)'
    <3>1. "frame" \notin Statuses
      BY DEF Statuses
    <3> QED
      BY <1>0, <2>1, <2>3, <2>4, <3>1 DEF InStep
  <2>6. /\ NoFrameAfterDown(pending'[d])
        /\ pending'[d] # <<>> /\ pending'[d][1] = "frame" => Head(pending[d]) # "down"
    BY <1>0, <2>1, TailKeepsOrder DEF InOrder
  <2>7. InOrder(d)'
    BY <1>0, <2>1, <2>2, <2>6 DEF InOrder, Events, Statuses
  <2> QED
    BY <2>5, <2>7
<1>10. CASE ReceiveLagged(d)
  <2>1. /\ UNCHANGED <<flag, last, pending, phase, writing, told>> /\ phase[d] = "serving"
        /\ behind[d] /\ behind'[d] = FALSE /\ trust'[d] = "lost"
    BY <1>10 DEF ReceiveLagged, fvars, TypeOK
  <2>2. Settled' = Settled
    BY <2>1 DEF Settled
  <2>3. InStep(d)'
    BY <1>0, <2>1, <2>2 DEF InStep
  <2>4. InOrder(d)'
    BY <1>0, <2>1 DEF InOrder, Statuses
  <2> QED
    BY <2>3, <2>4
<1>11. CASE WriteDone(d)
  <2>1. /\ UNCHANGED <<flag, last, pending, behind>> /\ phase[d] = "writing" /\ phase'[d] = "serving"
        /\ writing'[d] = "none"
        /\ IF writing[d] \in Statuses
           THEN told'[d] = writing[d] /\ trust'[d] = (IF told[d] = "none" THEN trust[d] ELSE "synced")
           ELSE told'[d] = told[d] /\ trust'[d] = trust[d]
    BY <1>11 DEF WriteDone, fvars, TypeOK
  <2>2. Settled' = Settled
    BY <2>1 DEF Settled
  <2>3. InStep(d)'
    BY <1>0, <2>1, <2>2 DEF InStep, InOrder, Events, Statuses
  <2>4. InOrder(d)'
    BY <1>0, <2>1 DEF InOrder, Events, Statuses
  <2> QED
    BY <2>3, <2>4
<1>12. CASE Leave(d)
  <2>1. /\ UNCHANGED <<flag, last>> /\ pending'[d] = <<>> /\ behind'[d] = FALSE /\ phase'[d] = "off"
        /\ writing'[d] = "none" /\ told'[d] = "none" /\ trust'[d] = "greeted"
    BY <1>12 DEF Leave, Gone, fvars, TypeOK
  <2> QED
    BY <2>1 DEF InStep, InOrder, NoFrameAfterDown, NewestStatusIs
<1> QED
  BY <1>1, <1>2, <1>3, <1>4, <1>5, <1>6, <1>7, <1>8, <1>9, <1>10, <1>11, <1>12 DEF Next, Serve

\* A client for which the channel holds nothing has been told whether the
\* upstream is up: no slow write or late joiner escapes it, and no lag while the
\* upstream is down.
THEOREM StatusIsKnown == Spec => []DrainedKnowsStatus
<1>1. TypeOK /\ DownOnItsWay /\ Clientwise => DrainedKnowsStatus
  <2> SUFFICES ASSUME TypeOK, DownOnItsWay, Clientwise, Settled, NEW c \in Clients, Drained(c),
                      flag => trust[c] # "lost"
               PROVE  told[c] = StatusOf(flag)
    BY DEF DrainedKnowsStatus
  <2>1. CASE ~flag
    BY <2>1 DEF DownOnItsWay, NewestIsDown, Drained, Settled, StatusOf
  <2>2. CASE flag
    <3>1. NoStatus(pending[c])
      BY DEF Drained, NoStatus
    <3>2. told[c] = last
      BY <2>2, <3>1 DEF Clientwise, InStep, Drained
    <3> QED
      BY <3>2 DEF Settled
  <2> QED
    BY <2>1, <2>2 DEF TypeOK
<1> QED
  BY <1>1, TypeInit, TypeNext, DownInit, DownNext, ClientwiseInit, ClientwiseNext, PTL DEF Spec

\* A client in step is sent frames only after an "up" and before the next "down".
THEOREM FramesAreUnderUp == Spec => []FramesUnderUp
<1>1. Clientwise => FramesUnderUp
  BY DEF Clientwise, InOrder, FramesUnderUp
<1> QED
  BY <1>1, TypeInit, TypeNext, DownInit, DownNext, ClientwiseInit, ClientwiseNext, PTL DEF Spec
=============================================================================
