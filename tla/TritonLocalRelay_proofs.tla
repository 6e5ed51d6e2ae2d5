-------------------- MODULE TritonLocalRelay_proofs --------------------
(***************************************************************************)
(* Proofs about the local gRPC relay, for every set of clients and every   *)
(* capacity of the channel: a stream that is open and idle while the       *)
(* upstream is down joined late or lost its end to lag.                    *)
(***************************************************************************)
EXTENDS TritonLocalRelay, TLAPS

\* "kind" somewhere in a queue: what DownPending says of a client's queue.
HasDown(q) == \E i \in 1..Len(q) : q[i].kind = "down"

\* A push keeps the queue within the channel's capacity; the new event is in
\* it, and a "down" that was in it still is, unless it was the head of a full
\* queue.
LEMMA PushKeeps ==
  ASSUME NEW q \in Seq(Events), Len(q) <= Capacity, NEW e \in Events
  PROVE  /\ Push(q, e) \in Seq(Events)
         /\ Len(Push(q, e)) <= Capacity
         /\ e.kind = "down" => HasDown(Push(q, e))
         /\ HasDown(q) => HasDown(Push(q, e)) \/ (Len(q) = Capacity /\ Head(q).kind = "down")
<1>1. CASE Len(q) < Capacity
  <2>1. Push(q, e) = Append(q, e)
    BY <1>1 DEF Push
  <2>2. /\ Append(q, e) \in Seq(Events) /\ Len(Append(q, e)) = Len(q) + 1
        /\ Append(q, e)[Len(q) + 1] = e
        /\ \A i \in 1..Len(q) : Append(q, e)[i] = q[i]
    OBVIOUS
  <2>3. e.kind = "down" => HasDown(Append(q, e))
    BY <2>2 DEF HasDown
  <2>4. HasDown(q) => HasDown(Append(q, e))
    BY <2>2 DEF HasDown
  <2>5. Len(Append(q, e)) <= Capacity
    BY <1>1, <2>2, CapacityAssumption
  <2> QED
    BY <2>1, <2>2, <2>3, <2>4, <2>5
<1>2. CASE Len(q) = Capacity
  <2>1. q # <<>> /\ Head(q) = q[1]
    BY <1>2, CapacityAssumption
  <2>2. /\ Tail(q) \in Seq(Events) /\ Len(Tail(q)) = Len(q) - 1
        /\ \A i \in 1..Len(Tail(q)) : Tail(q)[i] = q[i + 1]
    BY <2>1
  <2>3. PICK t \in Seq(Events) : t = Tail(q) /\ Len(t) = Len(q) - 1 /\ \A i \in 1..Len(t) : t[i] = q[i + 1]
    BY <2>2, Zenon
  <2>4. Push(q, e) = Append(t, e)
    BY <1>2, <2>3 DEF Push
  <2>5. /\ Append(t, e) \in Seq(Events) /\ Len(Append(t, e)) = Len(t) + 1
        /\ Append(t, e)[Len(t) + 1] = e
        /\ \A i \in 1..Len(t) : Append(t, e)[i] = t[i]
    OBVIOUS
  <2>6. e.kind = "down" => HasDown(Append(t, e))
    BY <2>5 DEF HasDown
  <2>7. ASSUME NEW i \in 1..Len(q), q[i].kind = "down", i # 1 PROVE HasDown(Append(t, e))
    <3>1. i - 1 \in 1..Len(t) /\ (i - 1) + 1 = i
      BY <2>3, <2>7
    <3>2. t[i - 1] = q[i]
      BY <2>3, <3>1
    <3>3. Append(t, e)[i - 1].kind = "down" /\ i - 1 \in 1..Len(Append(t, e))
      BY <2>5, <2>7, <3>1, <3>2
    <3> QED
      BY <3>3 DEF HasDown
  <2>8. HasDown(q) => HasDown(Append(t, e)) \/ Head(q).kind = "down"
    BY <2>1, <2>7 DEF HasDown
  <2>9. Len(Append(t, e)) <= Capacity
    BY <1>2, <2>3, <2>5
  <2> QED
    BY <1>2, <2>4, <2>5, <2>6, <2>8, <2>9
<1> QED
  BY <1>1, <1>2, CapacityAssumption

\* Reading an event that is no "down" leaves every "down" in the queue.
LEMMA TailKeeps ==
  ASSUME NEW q \in Seq(Events), q # <<>>
  PROVE  /\ Tail(q) \in Seq(Events)
         /\ Len(Tail(q)) = Len(q) - 1
         /\ Head(q) \in Events
         /\ HasDown(q) => HasDown(Tail(q)) \/ Head(q).kind = "down"
<1>1. Len(q) \in Nat \ {0} /\ q[1] \in Events /\ Head(q) = q[1]
  OBVIOUS
<1>2. Tail(q) \in Seq(Events) /\ Len(Tail(q)) = Len(q) - 1
  BY <1>1
<1>3. \A i \in 1..Len(Tail(q)) : Tail(q)[i] = q[i + 1]
  BY <1>1, <1>2
<1>4. PICK t \in Seq(Events) : t = Tail(q) /\ Len(t) = Len(q) - 1 /\ \A i \in 1..Len(t) : t[i] = q[i + 1]
  BY <1>2, <1>3, Zenon
<1>5. ASSUME NEW i \in 1..Len(q), q[i].kind = "down", i # 1 PROVE HasDown(t)
  <2>1. i - 1 \in 1..Len(t) /\ (i - 1) + 1 = i
    BY <1>4, <1>5
  <2>2. t[i - 1].kind = "down"
    BY <1>4, <1>5, <2>1
  <2> QED
    BY <2>1, <2>2 DEF HasDown
<1>6. HasDown(q) => HasDown(t) \/ Head(q).kind = "down"
  BY <1>1, <1>5 DEF HasDown
<1> QED
  BY <1>1, <1>2, <1>4, <1>6, Zenon

-----------------------------------------------------------------------------
\* Nobody streams: the state at the start, and after the process died.
LEMMA NobodyStreams ==
  /\ [c \in Clients |-> <<>>] \in [Clients -> Seq(Events)]
  /\ \A c \in Clients : Len([d \in Clients |-> <<>>][c]) <= Capacity
<1>1. <<>> \in Seq(Events) /\ Len(<<>>) = 0
  OBVIOUS
<1> QED
  BY <1>1, CapacityAssumption

LEMMA TypeInit == Init => TypeOK
<1> SUFFICES ASSUME Init PROVE TypeOK
  OBVIOUS
<1>1. pending \in [Clients -> Seq(Events)] /\ \A c \in Clients : Len(pending[c]) <= Capacity
  BY NobodyStreams DEF Init
<1>2. flag \in BOOLEAN /\ last \in Statuses /\ beat \in {0, 1}
  BY DEF Init, FInit, Statuses
<1>3. /\ phase \in [Clients -> Phases]
      /\ behind \in [Clients -> BOOLEAN]
      /\ seen \in [Clients -> SUBSET Sessions]
      /\ late \in [Clients -> BOOLEAN] /\ lost \in [Clients -> BOOLEAN]
  BY DEF Init, Phases
<1>4. session \in Sessions
  BY DEF Init, Sessions
<1> QED
  BY <1>1, <1>2, <1>3, <1>4 DEF TypeOK

\* Ending one call keeps everything well typed.
LEMMA TypeClosed ==
  ASSUME TypeOK, NEW c \in Clients, Closed(c), UNCHANGED <<session, fvars>>
  PROVE  TypeOK'
<1>1. <<>> \in Seq(Events) /\ Len(<<>>) = 0
  OBVIOUS
<1>2. pending' \in [Clients -> Seq(Events)] /\ \A d \in Clients : Len(pending'[d]) <= Capacity
  BY <1>1, CapacityAssumption DEF TypeOK, Closed
<1>3. seen' \in [Clients -> SUBSET Sessions]
  BY DEF TypeOK, Closed
<1>4. /\ phase' \in [Clients -> Phases]
      /\ behind' \in [Clients -> BOOLEAN]
      /\ late' \in [Clients -> BOOLEAN] /\ lost' \in [Clients -> BOOLEAN]
  BY DEF TypeOK, Closed, Phases
<1> QED
  BY <1>2, <1>3, <1>4 DEF TypeOK, fvars

LEMMA TypeNext == TypeOK /\ [Next]_vars => TypeOK'
<1> SUFFICES ASSUME TypeOK, [Next]_vars PROVE TypeOK'
  OBVIOUS
<1>1. CASE UNCHANGED vars
  BY <1>1 DEF TypeOK, vars, fvars, clientVars
<1>2. CASE StoreUp
  BY <1>2 DEF TypeOK, StoreUp, Raise, clientVars
<1>3. CASE StoreDown
  <2>1. session' \in Sessions
    BY <1>3 DEF TypeOK, StoreDown, Sessions
  <2> QED
    BY <1>3, <2>1 DEF TypeOK, StoreDown, Lower, clientVars
<1>4. ASSUME NEW k \in Statuses \union {"update"}, Broadcast(k),
             flag' \in BOOLEAN, last' \in Statuses, beat' \in {0, 1}
      PROVE  TypeOK'
  <2>1. [kind |-> k, of |-> session] \in Events
    BY DEF TypeOK, Events
  <2>2. \A c \in Clients : /\ Push(pending[c], [kind |-> k, of |-> session]) \in Seq(Events)
                           /\ Len(Push(pending[c], [kind |-> k, of |-> session])) <= Capacity
    BY <2>1, PushKeeps DEF TypeOK
  <2>3. pending' \in [Clients -> Seq(Events)] /\ \A c \in Clients : Len(pending'[c]) <= Capacity
    BY <1>4, <2>2 DEF TypeOK, Broadcast
  <2>4. behind' \in [Clients -> BOOLEAN] /\ late' \in [Clients -> BOOLEAN] /\ lost' \in [Clients -> BOOLEAN]
    BY <1>4 DEF TypeOK, Broadcast
  <2> QED
    BY <1>4, <2>3, <2>4 DEF TypeOK, Broadcast
<1>5. CASE PublishStatus
  BY <1>4, <1>5 DEF TypeOK, PublishStatus, SendStatus, StatusOf, Statuses
<1>6. CASE PublishUpdate
  BY <1>4, <1>6 DEF TypeOK, PublishUpdate, SendFrame
<1>7. CASE Die
  <2>1. pending' \in [Clients -> Seq(Events)] /\ \A c \in Clients : Len(pending'[c]) <= Capacity
    BY <1>7, NobodyStreams DEF Die
  <2>2. /\ phase' \in [Clients -> Phases]
        /\ behind' \in [Clients -> BOOLEAN]
        /\ seen' \in [Clients -> SUBSET Sessions]
        /\ late' \in [Clients -> BOOLEAN] /\ lost' \in [Clients -> BOOLEAN]
    BY <1>7 DEF Die, Phases
  <2>3. flag' \in BOOLEAN /\ last' \in Statuses /\ beat' \in {0, 1} /\ session' \in Sessions
    BY <1>7 DEF TypeOK, Die, Restart, Statuses
  <2> QED
    BY <2>1, <2>2, <2>3 DEF TypeOK
<1>8. ASSUME NEW c \in Clients, CheckFlag(c) \/ Join(c) PROVE TypeOK'
  BY <1>8 DEF TypeOK, CheckFlag, Join, Phases, fvars
<1>9. ASSUME NEW c \in Clients, Receive(c) PROVE TypeOK'
  <2>1. pending[c] \in Seq(Events) /\ pending[c] # <<>>
    BY <1>9 DEF TypeOK, Receive
  <2>2. Tail(pending[c]) \in Seq(Events) /\ Len(Tail(pending[c])) <= Capacity /\ Head(pending[c]).of \in Sessions
    <3>1. Tail(pending[c]) \in Seq(Events) /\ Len(Tail(pending[c])) = Len(pending[c]) - 1 /\ Head(pending[c]) \in Events
      BY <2>1, TailKeeps
    <3>2. Head(pending[c]).of \in Sessions
      BY <3>1 DEF Events
    <3>3. Len(Tail(pending[c])) <= Capacity
      BY <2>1, <3>1, CapacityAssumption DEF TypeOK
    <3> QED
      BY <3>1, <3>2, <3>3
  <2>3. CASE Head(pending[c]).kind = "down"
    BY <1>9, <2>3, TypeClosed DEF Receive
  <2>4. CASE Head(pending[c]).kind # "down"
    <3>1. pending' \in [Clients -> Seq(Events)] /\ \A d \in Clients : Len(pending'[d]) <= Capacity
      BY <1>9, <2>2, <2>4 DEF TypeOK, Receive
    <3>2. seen' \in [Clients -> SUBSET Sessions]
      <4> DEFINE s == Head(pending[c]).of
      <4>1. seen \in [Clients -> SUBSET Sessions] /\ s \in Sessions
        BY <2>2 DEF TypeOK
      <4>2. seen' = [seen EXCEPT ![c] = @ \union {s}] \/ seen' = seen
        BY <1>9, <2>4 DEF Receive
      <4> HIDE DEF s
      <4> QED
        BY <4>1, <4>2
    <3> QED
      BY <1>9, <2>4, <3>1, <3>2 DEF TypeOK, Receive, fvars
  <2> QED
    BY <2>3, <2>4
<1>10. ASSUME NEW c \in Clients, ReceiveLagged(c) PROVE TypeOK'
  BY <1>10 DEF TypeOK, ReceiveLagged, fvars
<1>11. ASSUME NEW c \in Clients, Leave(c) PROVE TypeOK'
  BY <1>11, TypeClosed DEF Leave
<1> QED
  BY <1>1, <1>2, <1>3, <1>5, <1>6, <1>7, <1>8, <1>9, <1>10, <1>11 DEF Next, Serve

\* Every reachable state is well typed; no queue outgrows the channel.
THEOREM TypeCorrect == Spec => []TypeOK
  BY TypeInit, TypeNext, PTL DEF Spec

-----------------------------------------------------------------------------
LEMMA EndInit == Init => EndOnItsWay
  BY DEF Init, EndOnItsWay, Streaming

\* While the upstream is down and announced, the end of every stream is in its
\* queue, or one of the two ways to miss it has happened.
LEMMA EndNext == TypeOK /\ EndOnItsWay /\ [Next]_vars => EndOnItsWay'
<1> SUFFICES ASSUME TypeOK, EndOnItsWay, [Next]_vars, NEW d \in Clients, ~flag', last' = "down"
             PROVE  /\ phase'[d] = "checked" => late'[d]
                    /\ phase'[d] = "streaming" => late'[d] \/ lost'[d] \/ HasDown(pending'[d])
  BY DEF EndOnItsWay, DownPending, HasDown, Streaming
<1> DEFINE Goal == /\ phase'[d] = "checked" => late'[d]
                   /\ phase'[d] = "streaming" => late'[d] \/ lost'[d] \/ HasDown(pending'[d])
           Here == /\ phase[d] = "checked" => late[d]
                   /\ phase[d] = "streaming" => late[d] \/ lost[d] \/ HasDown(pending[d])
<1>a. ~flag /\ last = "down" => Here
  BY DEF EndOnItsWay, DownPending, HasDown, Streaming
<1>b. ASSUME ~flag, last = "down",
             phase'[d] = phase[d], late'[d] = late[d], lost'[d] = lost[d], pending'[d] = pending[d]
      PROVE  Goal
  BY <1>a, <1>b
<1>1. CASE UNCHANGED vars
  BY <1>1, <1>b DEF vars, fvars, clientVars
<1>2. CASE StoreUp \/ StoreDown
  <2>1. ~flag /\ last = "down"
    BY <1>2 DEF StoreUp, StoreDown, Raise, Lower, Settled, StatusOf, TypeOK
  <2> QED
    BY <1>2, <1>b, <2>1 DEF StoreUp, StoreDown, clientVars
<1>3. CASE PublishStatus
  <2> DEFINE e == [kind |-> "down", of |-> session]
  <2>1. e \in Events /\ e.kind = "down"
    BY DEF TypeOK, Events, Statuses
  <2>2. HasDown(Push(pending[d], e))
    BY <2>1, PushKeeps DEF TypeOK
  <2>3. CASE phase[d] = "streaming"
    <3>1. pending'[d] = Push(pending[d], e)
      BY <1>3, <2>3 DEF PublishStatus, Broadcast, Streaming
    <3>2. phase'[d] # "checked"
      BY <1>3, <2>3 DEF PublishStatus, Broadcast
    <3> QED
      BY <2>2, <3>1, <3>2
  <2>4. CASE phase[d] = "checked"
    BY <1>3, <2>4 DEF PublishStatus, Broadcast
  <2>5. CASE phase[d] \notin {"streaming", "checked"}
    BY <1>3, <2>5 DEF PublishStatus, Broadcast
  <2> QED
    BY <2>3, <2>4, <2>5
<1>4. CASE PublishUpdate
  BY <1>4 DEF PublishUpdate, SendFrame
<1>5. CASE Die
  BY <1>5 DEF Die
<1>6. ASSUME NEW c \in Clients, CheckFlag(c) PROVE Goal
  BY <1>6 DEF CheckFlag, fvars
<1>7. ASSUME NEW c \in Clients, Join(c) PROVE Goal
  <2>1. ~flag /\ last = "down"
    BY <1>7 DEF Join, fvars
  <2> QED
    BY <1>7, <1>a, <2>1 DEF Join, TypeOK
<1>8. ASSUME NEW c \in Clients, Receive(c) PROVE Goal
  <2>1. ~flag /\ last = "down"
    BY <1>8 DEF Receive, fvars
  <2>2. CASE d # c
    BY <1>8, <1>b, <2>1, <2>2 DEF Receive, Closed, TypeOK
  <2>3. CASE d = c /\ Head(pending[d]).kind = "down"
    BY <1>8, <2>3 DEF Receive, Closed, TypeOK
  <2>4. CASE d = c /\ Head(pending[d]).kind # "down"
    <3>1. pending[d] \in Seq(Events) /\ pending[d] # <<>> /\ phase[d] = "streaming"
      BY <1>8, <2>4 DEF Receive, Streaming, TypeOK
    <3>2. HasDown(pending[d]) => HasDown(Tail(pending[d]))
      BY <2>4, <3>1, TailKeeps
    <3>3. pending'[d] = Tail(pending[d]) /\ phase'[d] = phase[d] /\ late'[d] = late[d] /\ lost'[d] = lost[d]
      BY <1>8, <2>4 DEF Receive, TypeOK
    <3> QED
      BY <1>a, <2>1, <3>1, <3>2, <3>3
  <2> QED
    BY <2>2, <2>3, <2>4
<1>9. ASSUME NEW c \in Clients, ReceiveLagged(c) PROVE Goal
  BY <1>9, <1>b DEF ReceiveLagged, fvars
<1>10. ASSUME NEW c \in Clients, Leave(c) PROVE Goal
  BY <1>10, <1>b DEF Leave, Closed, TypeOK, fvars
<1> QED
  BY <1>1, <1>2, <1>3, <1>4, <1>5, <1>6, <1>7, <1>8, <1>9, <1>10 DEF Next, Serve

\* A stream still open and idle while the upstream is down joined late or lost
\* its end to lag; every other one has been ended.
THEOREM OpenMissedItsEnd == Spec => []OpenNeedsMissedDown
<1>1. TypeOK /\ EndOnItsWay => OpenNeedsMissedDown
  <2> SUFFICES ASSUME TypeOK, EndOnItsWay, ~flag, Settled, NEW c \in Clients, Streaming(c), pending[c] = <<>>
               PROVE  late[c] \/ lost[c]
    BY DEF OpenNeedsMissedDown
  <2>1. Len(pending[c]) = 0
    OBVIOUS
  <2>2. ~DownPending(c)
    BY <2>1 DEF DownPending
  <2>3. last = "down"
    BY DEF Settled, StatusOf
  <2> QED
    BY <2>2, <2>3 DEF EndOnItsWay
<1> QED
  BY <1>1, TypeInit, TypeNext, EndInit, EndNext, PTL DEF Spec

-----------------------------------------------------------------------------
(* What a stream carries. *)

\* A new event adds at most its own session to what a queue holds before the
\* first "down", and that only when there is no "down" in it.
LEMMA PushEarly ==
  ASSUME NEW q \in Seq(Events), Len(q) <= Capacity, NEW e \in Events,
         ~(Len(q) = Capacity /\ Head(q).kind = "down"), NEW s \in Early(Push(q, e)), s \notin Early(q)
  PROVE  s = e.of /\ e.kind = "update" /\ ~HasDown(q)
<1> DEFINE p == Push(q, e)
<1>1. PICK k \in 1..Len(p) : p[k].kind = "update" /\ s = p[k].of /\ \A j \in 1..k : p[j].kind # "down"
  BY DEF Early
<1>2. CASE Len(q) < Capacity
  <2>1. Len(q) \in Nat /\ Len(p) = Len(q) + 1 /\ p[Len(q) + 1] = e /\ \A i \in 1..Len(q) : p[i] = q[i]
    BY <1>2 DEF Push
  <2> HIDE DEF p
  <2>2. k \notin 1..Len(q)
    <3> SUFFICES ASSUME k \in 1..Len(q) PROVE FALSE
      OBVIOUS
    <3>1. q[k].kind = "update" /\ s = q[k].of /\ \A j \in 1..k : q[j].kind # "down"
      BY <1>1, <2>1
    <3> QED
      BY <3>1 DEF Early
  <2>3. k = Len(q) + 1
    BY <2>1, <2>2
  <2>4. \A j \in 1..Len(q) : q[j].kind # "down"
    BY <1>1, <2>1, <2>3
  <2> QED
    BY <1>1, <2>1, <2>3, <2>4 DEF HasDown
<1>3. CASE Len(q) = Capacity
  <2>1. /\ Len(q) \in Nat \ {0} /\ Len(p) = Len(q) /\ p[Len(q)] = e /\ Head(q) = q[1]
        /\ \A i \in 1..(Len(q) - 1) : p[i] = q[i + 1]
    <3>1. Tail(q) \in Seq(Events) /\ Len(Tail(q)) = Len(q) - 1 /\ Head(q) = q[1]
      BY <1>3, CapacityAssumption
    <3>2. \A i \in 1..(Len(q) - 1) : Tail(q)[i] = q[i + 1]
      BY <1>3, CapacityAssumption
    <3>3. p = Append(Tail(q), e)
      BY <1>3 DEF Push
    <3>4. /\ Len(p) = Len(Tail(q)) + 1 /\ p[Len(Tail(q)) + 1] = e
          /\ \A i \in 1..Len(Tail(q)) : p[i] = Tail(q)[i]
      BY <3>1, <3>3
    <3> HIDE DEF p
    <3> QED
      BY <1>3, <3>1, <3>2, <3>4, CapacityAssumption
  <2> HIDE DEF p
  <2>2. q[1].kind # "down"
    BY <1>3, <2>1
  <2>3. ASSUME NEW j \in 1..Len(q), j <= k PROVE q[j].kind # "down"
    <3>1. CASE j = 1
      BY <2>2, <3>1
    <3>2. CASE j # 1
      <4>1. j - 1 \in 1..(Len(q) - 1) /\ j - 1 \in 1..k /\ (j - 1) + 1 = j
        BY <1>1, <2>1, <2>3, <3>2
      <4>2. p[j - 1] = q[j]
        BY <2>1, <4>1
      <4> QED
        BY <1>1, <4>1, <4>2
    <3> QED
      BY <3>1, <3>2
  <2>4. k = Len(q)
    <3> SUFFICES ASSUME k # Len(q) PROVE FALSE
      OBVIOUS
    <3>1. k \in 1..(Len(q) - 1) /\ k + 1 \in 1..Len(q)
      BY <1>1, <2>1
    <3>2. p[k] = q[k + 1]
      BY <2>1, <3>1
    <3>3. \A j \in 1..(k + 1) : q[j].kind # "down"
      <4>1. q[k + 1].kind = "update"
        BY <1>1, <3>2
      <4> QED
        BY <2>1, <2>3, <3>1, <4>1
    <3> QED
      BY <1>1, <3>1, <3>2, <3>3 DEF Early
  <2> QED
    BY <1>1, <2>1, <2>3, <2>4 DEF HasDown
<1> QED
  BY <1>2, <1>3, CapacityAssumption

\* Reading an event that is no "down": the rest holds nothing new, and an
\* update that is read was among what the queue held.
LEMMA TailEarly ==
  ASSUME NEW q \in Seq(Events), q # <<>>, Head(q).kind # "down"
  PROVE  /\ Early(Tail(q)) \subseteq Early(q)
         /\ Head(q).kind = "update" => Head(q).of \in Early(q)
<1> DEFINE t == Tail(q)
<1>1. Len(t) = Len(q) - 1 /\ Len(q) \in Nat \ {0} /\ Head(q) = q[1] /\ \A i \in 1..(Len(q) - 1) : t[i] = q[i + 1]
  OBVIOUS
<1> HIDE DEF t
<1>2. ASSUME NEW s \in Early(t) PROVE s \in Early(q)
  <2>1. PICK k \in 1..Len(t) : t[k].kind = "update" /\ s = t[k].of /\ \A j \in 1..k : t[j].kind # "down"
    BY DEF Early
  <2>2. k + 1 \in 1..Len(q) /\ t[k] = q[k + 1]
    BY <1>1
  <2>3. ASSUME NEW j \in 1..(k + 1) PROVE q[j].kind # "down"
    <3>1. CASE j = 1
      BY <1>1, <3>1
    <3>2. CASE j # 1
      <4>1. j - 1 \in 1..k /\ j - 1 \in 1..(Len(q) - 1) /\ (j - 1) + 1 = j
        BY <1>1, <2>2, <3>2
      <4>2. t[j - 1] = q[j]
        BY <1>1, <4>1
      <4> QED
        BY <2>1, <4>1, <4>2
    <3> QED
      BY <3>1, <3>2
  <2> QED
    BY <2>1, <2>2, <2>3 DEF Early
<1>3. Head(q).kind = "update" => Head(q).of \in Early(q)
  BY <1>1 DEF Early
<1> QED
  BY <1>2, <1>3 DEF t

LEMMA NothingEarly == Early(<<>>) = {}
  BY DEF Early

EachIsOneSession == \A c \in Clients : OneSession(c)

LEMMA OneInit == Init => EachIsOneSession
  BY NothingEarly DEF Init, OneSession, Carries, EachIsOneSession

\* A stream that gets fewer events, in the same session, is as good as before.
LEMMA FewerIsFine ==
  ASSUME NEW d \in Clients, OneSession(d), Carries(d)' \subseteq Carries(d),
         DownPending(d) => DownPending(d)', lost'[d] = lost[d],
         \A s \in Carries(d)' : OfThisSession(s) => OfThisSession(s)',
         ~Streaming(d)' => pending'[d] = <<>> /\ seen'[d] = {}
  PROVE  OneSession(d)'
  BY DEF OneSession

LEMMA OneNext == TypeOK /\ EachIsOneSession /\ [Next]_vars => EachIsOneSession'
<1> SUFFICES ASSUME TypeOK, EachIsOneSession, [Next]_vars, NEW d \in Clients
             PROVE  OneSession(d)'
  BY DEF EachIsOneSession
<1>0. /\ OneSession(d)
      /\ pending[d] \in Seq(Events) /\ Len(pending[d]) <= Capacity /\ session \in Sessions
      /\ flag \in BOOLEAN /\ last \in Statuses /\ lost[d] \in BOOLEAN /\ seen[d] \in SUBSET Sessions
  BY DEF TypeOK, EachIsOneSession
<1>1. CASE UNCHANGED vars
  BY <1>0, <1>1 DEF vars, fvars, clientVars, OneSession, Streaming, Carries, DownPending, OfThisSession
<1>2. CASE StoreUp \/ StoreDown
  <2>1. UNCHANGED clientVars
    BY <1>2 DEF StoreUp, StoreDown
  <2>2. Carries(d)' = Carries(d) /\ DownPending(d)' = DownPending(d) /\ Streaming(d)' = Streaming(d)
    BY <2>1 DEF clientVars, Carries, DownPending, Streaming
  <2>3. \A s \in Carries(d)' : OfThisSession(s) => OfThisSession(s)'
    <3>1. CASE StoreUp
      BY <1>0, <3>1 DEF StoreUp, Raise, Settled, StatusOf, OfThisSession
    <3>2. CASE StoreDown
      BY <1>0, <3>2 DEF StoreDown, Lower, Settled, StatusOf, OfThisSession
    <3> QED
      BY <1>2, <3>1, <3>2
  <2> QED
    BY <1>0, <2>1, <2>2, <2>3, FewerIsFine DEF clientVars, OneSession
<1>3. ASSUME NEW kind \in Statuses \union {"update"}, Broadcast(kind), UNCHANGED flag,
             kind = "up" => flag /\ last' = "up",
             kind = "down" => last' = "down" /\ ~flag,
             kind = "update" => flag /\ last = "up" /\ last' = "up"
      PROVE  OneSession(d)'
  <2> DEFINE e == [kind |-> kind, of |-> session]
             q == pending[d]
  <2>1. e \in Events /\ e.kind = kind /\ e.of = session
    BY <1>0 DEF Events
  <2>2. UNCHANGED <<phase, seen, session>>
    BY <1>3 DEF Broadcast
  <2>3. CASE ~Streaming(d)
    <3>1. q = <<>> /\ seen[d] = {} /\ pending'[d] = q /\ Streaming(d)' = Streaming(d)
      BY <1>0, <1>3, <2>2, <2>3 DEF Broadcast, OneSession, Streaming
    <3>2. Carries(d)' = {}
      BY <2>2, <3>1, NothingEarly DEF Carries
    <3> QED
      BY <2>2, <3>1, <3>2 DEF OneSession
  <2>4. CASE Streaming(d) /\ lost'[d]
    BY <2>2, <2>4 DEF OneSession, Streaming
  <2>5. CASE Streaming(d) /\ ~lost'[d]
    <3>1. /\ pending'[d] = Push(q, e) /\ Streaming(d)'
          /\ lost'[d] = (lost[d] \/ (Streaming(d) /\ Full(d) /\ Head(q).kind = "down"))
      BY <1>3, <2>2, <2>5 DEF Broadcast, Streaming
    <3>2. ~lost[d] /\ ~(Len(q) = Capacity /\ Head(q).kind = "down")
      BY <2>5, <3>1 DEF Full
    <3> HIDE DEF e
    <3>3. \A s \in Early(Push(q, e)) : s \in Early(q) \/ (s = e.of /\ e.kind = "update" /\ ~HasDown(q))
      BY <1>0, <2>1, <3>2, PushEarly
    <3>4. \A s \in Carries(d)' : s \in Carries(d) \/ (s = session /\ kind = "update" /\ ~DownPending(d))
      BY <2>1, <2>2, <3>1, <3>3 DEF Carries, HasDown, DownPending
    <3>5. ~DownPending(d)' => ~DownPending(d) /\ kind # "down"
      <4>1. HasDown(q) \/ kind = "down" => HasDown(Push(q, e))
        BY <1>0, <2>1, <3>2, PushKeeps
      <4>2. DownPending(d)' = HasDown(Push(q, e)) /\ DownPending(d) = HasDown(q)
        BY <3>1 DEF HasDown, DownPending
      <4> QED
        BY <4>1, <4>2
    <3>6. kind # "down" => flag
      BY <1>3 DEF Statuses
    <3>7. kind = "update" => \A s : OfThisSession(s) <=> s = session
      BY <1>3 DEF OfThisSession
    <3>8. \A s, t \in Carries(d)' : s = t
      BY <1>0, <3>2, <3>4, <3>7 DEF OneSession
    <3>9. ~DownPending(d)' => \A s \in Carries(d)' : OfThisSession(s)'
      <4> SUFFICES ASSUME ~DownPending(d)', NEW s \in Carries(d)' PROVE OfThisSession(s)'
        OBVIOUS
      <4>1. CASE s \in Carries(d)
        <5>1. OfThisSession(s)
          BY <1>0, <3>2, <3>5, <4>1 DEF OneSession
        <5> QED
          BY <1>3, <2>2, <3>5, <3>6, <5>1 DEF OfThisSession
      <4>2. CASE s \notin Carries(d)
        BY <1>3, <2>2, <3>4, <4>2 DEF OfThisSession
      <4> QED
        BY <4>1, <4>2
    <3> QED
      BY <3>1, <3>8, <3>9 DEF OneSession
  <2> QED
    BY <2>3, <2>4, <2>5
<1>4. CASE PublishStatus
  <2>1. last' \in Statuses /\ UNCHANGED flag /\ (last' = "up") = flag /\ Broadcast(last')
    BY <1>0, <1>4 DEF PublishStatus, SendStatus, StatusOf, Statuses
  <2> QED
    BY <1>3, <2>1 DEF Statuses
<1>5. CASE PublishUpdate
  BY <1>3, <1>5 DEF PublishUpdate, SendFrame, Settled, StatusOf, Statuses
<1>6. CASE Die
  BY <1>6, NothingEarly DEF Die, OneSession, Carries
<1>7. ASSUME NEW c \in Clients, d # c, CheckFlag(c) \/ Serve(c) \/ Leave(c) PROVE OneSession(d)'
  <2>1. /\ UNCHANGED <<flag, last, session>> /\ pending'[d] = pending[d] /\ seen'[d] = seen[d]
        /\ phase'[d] = phase[d] /\ lost'[d] = lost[d]
    BY <1>7 DEF CheckFlag, Serve, Join, Receive, ReceiveLagged, Leave, Closed, TypeOK, fvars
  <2> QED
    BY <1>0, <2>1 DEF OneSession, Streaming, Carries, DownPending, OfThisSession
<1>8. ASSUME Closed(d), UNCHANGED fvars PROVE OneSession(d)'
  <2>1. pending'[d] = <<>> /\ seen'[d] = {}
    BY <1>8 DEF Closed, TypeOK
  <2> QED
    BY <2>1, NothingEarly DEF OneSession, Carries
<1>9. CASE CheckFlag(d) \/ Join(d) \/ ReceiveLagged(d)
  <2>1. /\ UNCHANGED <<flag, last, session>> /\ pending'[d] = pending[d] /\ seen'[d] = seen[d]
        /\ lost'[d] = lost[d]
        /\ Streaming(d) => Streaming(d)'
    BY <1>9 DEF CheckFlag, Join, ReceiveLagged, Streaming, TypeOK, fvars
  <2>2. Carries(d)' = Carries(d) /\ DownPending(d)' = DownPending(d)
    BY <2>1 DEF Carries, DownPending
  <2>3. \A s \in Carries(d)' : OfThisSession(s) => OfThisSession(s)'
    BY <2>1 DEF OfThisSession
  <2>4. ~Streaming(d)' => pending'[d] = <<>> /\ seen'[d] = {}
    BY <1>0, <2>1 DEF OneSession
  <2> QED
    BY <1>0, <2>1, <2>2, <2>3, <2>4, FewerIsFine
<1>10. CASE Receive(d)
  <2>1. pending[d] # <<>> /\ Streaming(d) /\ UNCHANGED <<flag, last, session>>
    BY <1>10 DEF Receive, fvars
  <2>2. CASE Head(pending[d]).kind = "down"
    BY <1>8, <1>10, <2>2 DEF Receive
  <2>3. CASE Head(pending[d]).kind # "down"
    <3>1. /\ pending'[d] = Tail(pending[d]) /\ lost'[d] = lost[d] /\ Streaming(d)'
          /\ seen'[d] = (IF Head(pending[d]).kind = "update"
                         THEN seen[d] \union {Head(pending[d]).of} ELSE seen[d])
      <4>1. /\ pending' = [pending EXCEPT ![d] = Tail(@)] /\ UNCHANGED <<phase, lost>>
            /\ seen' = IF Head(pending[d]).kind = "update"
                       THEN [seen EXCEPT ![d] = @ \union {Head(pending[d]).of}] ELSE seen
        BY <1>10, <2>3 DEF Receive
      <4>2. pending'[d] = Tail(pending[d])
        BY <4>1 DEF TypeOK
      <4>3. seen'[d] = (IF Head(pending[d]).kind = "update"
                        THEN seen[d] \union {Head(pending[d]).of} ELSE seen[d])
        BY <4>1 DEF TypeOK
      <4> QED
        BY <2>1, <4>1, <4>2, <4>3 DEF Streaming
    <3>2. /\ Early(Tail(pending[d])) \subseteq Early(pending[d])
          /\ Head(pending[d]).kind = "update" => Head(pending[d]).of \in Early(pending[d])
      BY <1>0, <2>1, <2>3, TailEarly
    <3>3. Carries(d)' \subseteq Carries(d)
      BY <3>1, <3>2 DEF Carries
    <3>4. DownPending(d) => DownPending(d)'
      BY <1>0, <2>1, <2>3, <3>1, TailKeeps DEF HasDown, DownPending
    <3>5. \A s \in Carries(d)' : OfThisSession(s) => OfThisSession(s)'
      BY <2>1 DEF OfThisSession
    <3> QED
      BY <1>0, <3>1, <3>3, <3>4, <3>5, FewerIsFine
  <2> QED
    BY <2>2, <2>3
<1>11. CASE Leave(d)
  BY <1>8, <1>11 DEF Leave
<1> QED
  BY <1>1, <1>2, <1>4, <1>5, <1>6, <1>7, <1>8, <1>9, <1>10, <1>11 DEF Next, Serve

\* One stream carries the updates of one upstream session, unless the "down"
\* between two was overwritten.
THEOREM StreamsAreOneSession == Spec => []StreamIsOneSession
<1>1. EachIsOneSession => StreamIsOneSession
  BY DEF EachIsOneSession, OneSession, StreamIsOneSession, Carries
<1> QED
  BY <1>1, TypeInit, TypeNext, OneInit, OneNext, PTL DEF Spec
=============================================================================
