---------------------- MODULE TitanUpstream_proofs ----------------------
(***************************************************************************)
(* Proofs about the Titan live loop, for every delay, threshold and bound: *)
(* the safety invariants of TitanUpstream hold, every step of the loop is  *)
(* a step of FeedSignal or none, and together with its relay (TitanFeed)   *)
(* it keeps the clients and GET /health in agreement.                      *)
(***************************************************************************)
EXTENDS TitanFeed, TitanHunt, FiniteSetTheorems, TLAPS

\* ReconnectBackoff::new leaves a first delay of at least one unit and a cap
\* that is not below it.
LEMMA DelaysClamped == Initial \in Nat /\ Cap \in Nat /\ 1 <= Initial /\ Initial <= Cap
  BY DelaysAssumption DEF Initial, Cap

\* wait() keeps the delay between the clamped bounds and never shortens it.
LEMMA AfterWaitGrows ==
  ASSUME NEW d \in Initial..Cap
  PROVE  AfterWait(d) \in Initial..Cap /\ AfterWait(d) >= d
  BY DelaysClamped DEF AfterWait

\* A saturating counter stays within its bound.
LEMMA UpToBounded ==
  ASSUME NEW bound \in Nat, NEW n \in 0..bound
  PROVE  /\ UpTo(bound, n) \in 0..bound
         /\ UpTo(bound, n) >= n
         /\ n < bound => UpTo(bound, n) = n + 1
         /\ n = bound => UpTo(bound, n) = bound
  BY DEF UpTo

-----------------------------------------------------------------------------
\* The type invariant, in two halves: places and flags, then numbers.
LEMMA TypeInit == Init => TypeOK
<1>1. Init => ControlType
  BY DEF Init, ControlType, PCs, ReturnPCs
<1>2. Init => CounterType
  BY DelaysClamped, LostCapAssumption, StreakCapAssumption, HealthyAfterAssumption
  DEF Init, CounterType
<1> QED
  BY <1>1, <1>2 DEF TypeOK

FlagType ==
  /\ connected \in BOOLEAN /\ redisConn \in BOOLEAN
  /\ relayUp \in BOOLEAN /\ signal \in {"up", "down"}
  /\ titanUp \in BOOLEAN /\ pairsLive \in BOOLEAN
  /\ received \in BOOLEAN /\ quoted \in BOOLEAN

LEMMA PlacesNext == pc \in PCs /\ after \in ReturnPCs /\ [Next]_vars => pc' \in PCs /\ after' \in ReturnPCs
<1> SUFFICES ASSUME pc \in PCs, after \in ReturnPCs, [Next]_vars
             PROVE  pc' \in PCs /\ after' \in ReturnPCs
  OBVIOUS
<1> USE DEF PCs, ReturnPCs, MarkPCs, OpenPCs
<1>1. CASE UNCHANGED vars \/ Boot \/ ResetAtBoot \/ Crash \/ Tick
  BY <1>1 DEF vars, Boot, ResetAtBoot, CallMark, Crash, Tick
<1>2. CASE Mark
  BY <1>2 DEF Mark, MarkUp, MarkPairs, MarkRelay, MarkSend
<1>3. CASE StartSession \/ ConnectFails \/ ConnectSucceeds \/ RiseUp \/ RiseRelay \/ RiseSend
  BY <1>3 DEF StartSession, ConnectFails, ConnectSucceeds, RiseUp, RiseRelay, RiseSend
<1>4. CASE SetupSucceeds \/ SetupFails \/ ReadFrame \/ HandleQuote \/ HandleOther
  BY <1>4 DEF SetupSucceeds, SetupFails, ReadFrame, HandleQuote, HandleOther
<1>5. CASE ReadCloses \/ ReadErrors \/ CloseWrite \/ OkArm \/ ErrArm \/ Wait
  BY <1>5 DEF ReadCloses, ReadErrors, CloseWrite, OkArm, ErrArm, Wait, CallMark
<1> QED
  BY <1>1, <1>2, <1>3, <1>4, <1>5 DEF Next, LoopStep, PeerStep

LEMMA FlagsNext == FlagType /\ [Next]_vars => FlagType'
<1> SUFFICES ASSUME FlagType, [Next]_vars PROVE FlagType'
  OBVIOUS
<1> USE DEF FlagType, relay, redis, session, delays
<1>1. CASE UNCHANGED vars \/ Crash \/ Tick
  BY <1>1 DEF vars, Crash, Tick
<1>2. CASE Boot \/ ResetAtBoot
  BY <1>2 DEF Boot, ResetAtBoot, ResetPipe, CallMark, ApplyUp, ApplyPairs, LoseUpClear, LosePairsClear
<1>3. CASE MarkUp \/ MarkPairs
  BY <1>3 DEF MarkUp, MarkPairs, ClearTitanUp, ClearPairsLive, ApplyUp, ApplyPairs, LoseUpClear, LosePairsClear
<1>4. CASE MarkRelay \/ MarkSend
  BY <1>4 DEF MarkRelay, MarkSend
<1>5. CASE StartSession \/ ConnectFails \/ ConnectSucceeds
  BY <1>5 DEF StartSession, ConnectFails, ConnectSucceeds
<1>6. CASE RiseUp \/ RiseRelay \/ RiseSend
  BY <1>6 DEF RiseUp, RiseRelay, RiseSend, RaiseTitanUp, ApplyUp
<1>7. CASE SetupSucceeds \/ SetupFails \/ ReadFrame
  BY <1>7 DEF SetupSucceeds, SetupFails, ReadFrame
<1>8. CASE HandleQuote \/ HandleOther
  BY <1>8 DEF HandleQuote, HandleOther, QuotePipe, ApplyUp, ApplyPairs
<1>9. CASE ReadCloses \/ ReadErrors \/ CloseWrite
  BY <1>9 DEF ReadCloses, ReadErrors, CloseWrite, CallMark
<1>10. CASE OkArm \/ ErrArm \/ Wait
  BY <1>10 DEF OkArm, ErrArm, Wait, CallMark
<1> QED
  BY <1>1, <1>2, <1>3, <1>4, <1>5, <1>6, <1>7, <1>8, <1>9, <1>10 DEF Next, LoopStep, PeerStep, Mark

LEMMA ControlNext == ControlType /\ [Next]_vars => ControlType'
<1>1. ControlType <=> FlagType /\ pc \in PCs /\ after \in ReturnPCs
  BY DEF ControlType, FlagType
<1>2. ControlType' <=> FlagType' /\ pc' \in PCs /\ after' \in ReturnPCs
  BY DEF ControlType, FlagType
<1> QED
  BY <1>1, <1>2, PlacesNext, FlagsNext

LEMMA CounterNext == CounterType /\ [Next]_vars => CounterType'
<1> SUFFICES ASSUME CounterType, [Next]_vars PROVE CounterType'
  OBVIOUS
<1> USE LostCapAssumption, StreakCapAssumption, HealthyAfterAssumption, DelaysClamped
<1> USE DEF CounterType, relay, redis, session, delays
<1>1. CASE UNCHANGED vars
  BY <1>1 DEF vars
<1>2. CASE Boot \/ ResetAtBoot
  <2>1. UpTo(LostCap, lostUp) \in 0..LostCap /\ UpTo(LostCap, lostPairs) \in 0..LostCap
    BY UpToBounded
  <2> QED
    BY <1>2, <2>1 DEF Boot, ResetAtBoot, ResetPipe, ApplyUp, ApplyPairs, LoseUpClear, LosePairsClear
<1>3. CASE Mark
  <2>1. CASE MarkUp
    BY <2>1, UpToBounded DEF MarkUp, ClearTitanUp, ApplyUp, LoseUpClear
  <2>2. CASE MarkPairs
    BY <2>2, UpToBounded DEF MarkPairs, ClearPairsLive, ApplyPairs, LosePairsClear
  <2>3. CASE MarkRelay \/ MarkSend
    BY <2>3 DEF MarkRelay, MarkSend
  <2> QED
    BY <1>3, <2>1, <2>2, <2>3 DEF Mark
<1>4. CASE StartSession \/ ConnectFails \/ ConnectSucceeds
  BY <1>4 DEF StartSession, ConnectFails, ConnectSucceeds
<1>5. CASE RiseUp \/ RiseRelay \/ RiseSend
  BY <1>5 DEF RiseUp, RiseRelay, RiseSend, RaiseTitanUp, ApplyUp
<1>6. CASE SetupSucceeds \/ SetupFails
  BY <1>6 DEF SetupSucceeds, SetupFails
<1>7. CASE ReadFrame \/ HandleQuote \/ HandleOther
  BY <1>7 DEF ReadFrame, HandleQuote, HandleOther, QuotePipe, ApplyUp, ApplyPairs
<1>8. CASE ReadCloses \/ ReadErrors \/ CloseWrite
  BY <1>8 DEF ReadCloses, ReadErrors, CloseWrite
<1>9. CASE OkArm \/ ErrArm
  BY <1>9 DEF OkArm, ErrArm
<1>10. CASE Wait
  BY <1>10, AfterWaitGrows, UpToBounded DEF Wait
<1>11. CASE Crash
  BY <1>11 DEF Crash
<1>12. CASE Tick
  BY <1>12, UpToBounded DEF Tick
<1> QED
  BY <1>1, <1>2, <1>3, <1>4, <1>5, <1>6, <1>7, <1>8, <1>9, <1>10, <1>11, <1>12
  DEF Next, LoopStep, PeerStep

-----------------------------------------------------------------------------
\* Every copy of the connectivity says "up" only at the places it may.
LEMMA CopiesNext ==
  ControlType /\ CopiesFollowLoop /\ [Next]_vars => CopiesFollowLoop'
<1> SUFFICES ASSUME ControlType, CopiesFollowLoop, [Next]_vars PROVE CopiesFollowLoop'
  OBVIOUS
<1> USE DEF ControlType, CopiesFollowLoop, ConnectedHere, RelayUpHere, PCs, ReturnPCs, MarkPCs, OpenPCs, relay
<1>1. CASE UNCHANGED vars
  BY <1>1 DEF vars
<1>2. CASE Boot \/ ResetAtBoot
  BY <1>2 DEF Boot, ResetAtBoot, CallMark
<1>3. CASE Mark
  <2>1. CASE MarkUp \/ MarkPairs
    BY <2>1 DEF MarkUp, MarkPairs
  <2>2. CASE MarkRelay
    BY <2>2 DEF MarkRelay
  <2>3. CASE MarkSend
    BY <2>3 DEF MarkSend
  <2> QED
    BY <1>3, <2>1, <2>2, <2>3 DEF Mark
<1>4. CASE StartSession \/ ConnectFails \/ ConnectSucceeds
  BY <1>4 DEF StartSession, ConnectFails, ConnectSucceeds
<1>5. CASE RiseUp \/ RiseRelay \/ RiseSend
  BY <1>5 DEF RiseUp, RiseRelay, RiseSend
<1>6. CASE SetupSucceeds \/ SetupFails
  BY <1>6 DEF SetupSucceeds, SetupFails
<1>7. CASE ReadFrame \/ HandleQuote \/ HandleOther
  BY <1>7 DEF ReadFrame, HandleQuote, HandleOther
<1>8. CASE ReadCloses \/ ReadErrors \/ CloseWrite
  BY <1>8 DEF ReadCloses, ReadErrors, CloseWrite, CallMark
<1>9. CASE OkArm \/ ErrArm \/ Wait
  BY <1>9 DEF OkArm, ErrArm, Wait, CallMark
<1>10. CASE Crash
  BY <1>10 DEF Crash
<1>11. CASE Tick
  BY <1>11 DEF Tick
<1> QED
  BY <1>1, <1>2, <1>3, <1>4, <1>5, <1>6, <1>7, <1>8, <1>9, <1>10, <1>11
  DEF Next, LoopStep, PeerStep

\* A stale key has outlived every clear its place in the loop accounts for.
LEMMA ClearsNext ==
  TypeOK /\ ClearsCounted /\ [Next]_vars => ClearsCounted'
<1> SUFFICES ASSUME TypeOK, ClearsCounted, [Next]_vars PROVE ClearsCounted'
  OBVIOUS
<1> USE LostCapAssumption
<1> USE DEF TypeOK, ControlType, CounterType, ClearsCounted, UpClears, PairsClears, PriorMarks,
        PCs, ReturnPCs, MarkPCs, OpenPCs, redis
<1>0. /\ UpTo(LostCap, lostUp) \in 0..LostCap
      /\ lostUp < LostCap => UpTo(LostCap, lostUp) = lostUp + 1
      /\ lostUp = LostCap => UpTo(LostCap, lostUp) = LostCap
      /\ UpTo(LostCap, lostPairs) \in 0..LostCap
      /\ lostPairs < LostCap => UpTo(LostCap, lostPairs) = lostPairs + 1
      /\ lostPairs = LostCap => UpTo(LostCap, lostPairs) = LostCap
  BY UpToBounded
<1>1. CASE UNCHANGED vars
  BY <1>1 DEF vars, session
<1>2. CASE Boot
  BY <1>2 DEF Boot, session
<1>3. CASE ResetAtBoot
  BY <1>0, <1>3 DEF ResetAtBoot, ResetPipe, ApplyUp, ApplyPairs, LoseUpClear, LosePairsClear, CallMark
<1>4. CASE MarkUp
  BY <1>0, <1>4 DEF MarkUp, ClearTitanUp, ApplyUp, LoseUpClear
<1>5. CASE MarkPairs
  BY <1>0, <1>5 DEF MarkPairs, ClearPairsLive, ApplyPairs, LosePairsClear
<1>6. CASE MarkRelay \/ MarkSend
  BY <1>6 DEF MarkRelay, MarkSend
<1>7. CASE StartSession \/ ConnectFails \/ ConnectSucceeds
  BY <1>7 DEF StartSession, ConnectFails, ConnectSucceeds, session
<1>8. CASE RiseUp
  BY <1>8 DEF RiseUp, RaiseTitanUp, ApplyUp, session
<1>9. CASE RiseRelay \/ RiseSend \/ SetupSucceeds \/ SetupFails
  BY <1>9 DEF RiseRelay, RiseSend, SetupSucceeds, SetupFails, session
<1>10. CASE ReadFrame \/ HandleOther \/ ReadCloses
  BY <1>10 DEF ReadFrame, HandleOther, ReadCloses, session
<1>11. CASE HandleQuote
  BY <1>11 DEF HandleQuote, QuotePipe, ApplyUp, ApplyPairs
<1>12. CASE ReadErrors \/ CloseWrite
  BY <1>12 DEF ReadErrors, CloseWrite, CallMark
<1>13. CASE OkArm \/ ErrArm \/ Wait
  BY <1>13 DEF OkArm, ErrArm, Wait, CallMark
<1>14. CASE Crash
  BY <1>14 DEF Crash
<1>15. CASE Tick
  BY <1>15 DEF Tick
<1> QED
  BY <1>1, <1>2, <1>3, <1>4, <1>5, <1>6, <1>7, <1>8, <1>9, <1>10, <1>11, <1>12, <1>13, <1>14, <1>15
  DEF Next, LoopStep, PeerStep, Mark

LEMMA InductiveInit == Init => IInv
<1>1. Init => CopiesFollowLoop
  BY DEF Init, CopiesFollowLoop, ConnectedHere, RelayUpHere, OpenPCs
<1>2. Init => ClearsCounted
  BY DEF Init, ClearsCounted, UpClears, PairsClears, OpenPCs
<1> QED
  BY <1>1, <1>2, TypeInit DEF IInv

LEMMA InductiveNext == IInv /\ [Next]_vars => IInv'
  BY ControlNext, CounterNext, CopiesNext, ClearsNext DEF IInv, TypeOK

THEOREM Inductive == Spec => []IInv
  BY InductiveInit, InductiveNext, PTL DEF Spec

-----------------------------------------------------------------------------
\* Every reachable state is well typed: the delay stays between the clamped
\* bounds, and the bounded histories within their bounds.
THEOREM TypeCorrect == Spec => []TypeOK
<1>1. IInv => TypeOK
  BY DEF IInv
<1> QED
  BY <1>1, Inductive, PTL

\* Between sessions nothing in the process says "up", and a Redis key that does
\* has outlived one clear while the loop sleeps and two by the time it dials.
THEOREM StaleKeysAreExplained == Spec => []StaleNeedsLostClears
<1>1. IInv => StaleNeedsLostClears
  <2> SUFFICES ASSUME IInv PROVE StaleNeedsLostClears
    OBVIOUS
  <2>1. CASE pc = "wait"
    BY <2>1 DEF IInv, TypeOK, ControlType, CopiesFollowLoop, ConnectedHere, RelayUpHere, OpenPCs,
       ClearsCounted, UpClears, PairsClears, StaleNeedsLostClears
  <2>2. CASE pc = "connect"
    BY <2>2 DEF IInv, TypeOK, ControlType, CopiesFollowLoop, ConnectedHere, RelayUpHere, OpenPCs,
       ClearsCounted, UpClears, PairsClears, StaleNeedsLostClears
  <2> QED
    BY <2>1, <2>2 DEF StaleNeedsLostClears
<1> QED
  BY <1>1, Inductive, PTL

\* An open session that has recorded no quote shows pairs_live only if two
\* clears before it were lost.
THEOREM PairsAreQuoted == Spec => []PairsNeedQuote
<1>1. IInv => PairsNeedQuote
  BY DEF IInv, ClearsCounted, PairsClears, PairsNeedQuote, OpenPCs
<1> QED
  BY <1>1, Inductive, PTL

\* The flag of GET /health and the flag of the relay agree outside a rise or a mark.
THEOREM HealthAgrees == Spec => []HealthMatchesRelay
<1>1. IInv => HealthMatchesRelay
  BY DEF IInv, TypeOK, ControlType, CopiesFollowLoop, ConnectedHere, RelayUpHere, OpenPCs, HealthMatchesRelay
<1> QED
  BY <1>1, Inductive, PTL

-----------------------------------------------------------------------------
\* Every step of the live loop is one of the relay's publisher, or none: the
\* safety half of ImplementsFeedSignal.
LEMMA FeedInit == Init => Feed!FInit
  BY DEF Init, Feed!FInit

LEMMA FeedStep == IInv /\ [Next]_vars => [Feed!FNext]_(Feed!fvars)
<1> SUFFICES ASSUME IInv, [Next]_vars PROVE [Feed!FNext]_(Feed!fvars)
  OBVIOUS
<1> USE DEF relay, Feed!fvars, Feed!FNext
<1>t. ControlType /\ CopiesFollowLoop
  BY DEF IInv, TypeOK
<1>1. CASE UNCHANGED vars
  BY <1>1 DEF vars
<1>2. CASE MarkRelay
  <2>1. signal = (IF relayUp THEN "up" ELSE "down")
    BY <1>t, <1>2 DEF MarkRelay, ControlType, CopiesFollowLoop
  <2>2. Feed!Lower
    BY <1>2, <2>1 DEF MarkRelay, Feed!Lower, Feed!Settled, Feed!StatusOf
  <2> QED
    BY <2>2
<1>3. CASE MarkSend
  <2>1. ~relayUp
    BY <1>t, <1>3 DEF MarkSend, ControlType, CopiesFollowLoop, RelayUpHere, OpenPCs
  <2>2. Feed!SendStatus
    BY <1>3, <2>1 DEF MarkSend, Feed!SendStatus, Feed!StatusOf
  <2> QED
    BY <2>2
<1>4. CASE RiseRelay
  <2>1. ~relayUp /\ signal = "down"
    BY <1>t, <1>4 DEF RiseRelay, ControlType, CopiesFollowLoop, RelayUpHere, OpenPCs
  <2>2. Feed!Raise
    BY <1>4, <2>1 DEF RiseRelay, Feed!Raise, Feed!Settled, Feed!StatusOf
  <2> QED
    BY <2>2
<1>5. CASE RiseSend
  <2>1. relayUp = TRUE
    BY <1>t, <1>5 DEF RiseSend, ControlType, CopiesFollowLoop, OpenPCs
  <2>2. Feed!SendStatus
    BY <1>5, <2>1 DEF RiseSend, Feed!SendStatus, Feed!StatusOf
  <2> QED
    BY <2>2
<1>6. CASE ReadFrame
  <2>1. relayUp /\ signal = "up"
    BY <1>t, <1>6 DEF ReadFrame, ControlType, CopiesFollowLoop, OpenPCs
  <2>2. Feed!SendFrame
    BY <1>6, <2>1 DEF ReadFrame, Feed!SendFrame, Feed!Settled, Feed!StatusOf
  <2> QED
    BY <2>2
<1>7. CASE Crash
  <2>1. Feed!Restart
    BY <1>7 DEF Crash, Feed!Restart
  <2> QED
    BY <2>1
<1>8. CASE Boot \/ ResetAtBoot \/ MarkUp \/ MarkPairs
  BY <1>8 DEF Boot, ResetAtBoot, MarkUp, MarkPairs
<1>9. CASE StartSession \/ ConnectFails \/ ConnectSucceeds \/ RiseUp \/ SetupSucceeds \/ SetupFails
  BY <1>9 DEF StartSession, ConnectFails, ConnectSucceeds, RiseUp, SetupSucceeds, SetupFails
<1>10. CASE HandleQuote \/ HandleOther \/ ReadCloses \/ ReadErrors \/ CloseWrite
  BY <1>10 DEF HandleQuote, HandleOther, ReadCloses, ReadErrors, CloseWrite
<1>11. CASE OkArm \/ ErrArm \/ Wait \/ Tick
  BY <1>11 DEF OkArm, ErrArm, Wait, Tick
<1> QED
  BY <1>1, <1>2, <1>3, <1>4, <1>5, <1>6, <1>7, <1>8, <1>9, <1>10, <1>11
  DEF Next, LoopStep, PeerStep, Mark

THEOREM RefinesFeedSignal == Spec => Feed!FSafe
<1>1. Spec => Feed!FInit
  BY FeedInit DEF Spec
<1> QED
  BY <1>1, Inductive, FeedStep, PTL DEF Spec, Feed!FSafe

-----------------------------------------------------------------------------
(* The delays.  That 2^(n+1) is twice 2^n is no arithmetic the provers have: *)
(* it is counted on the subsets of 1..n and of 1..n+1.                       *)

LEMMA PowerDoubles ==
  ASSUME NEW n \in Nat
  PROVE  2^n \in Nat /\ 2^(n + 1) = 2 * 2^n
<1> DEFINE A == SUBSET (1..n)
           B == {T \union {n + 1} : T \in A}
<1>1. /\ IsFiniteSet(1..n) /\ Cardinality(1..n) = n
      /\ IsFiniteSet(1..(n + 1)) /\ Cardinality(1..(n + 1)) = n + 1
  BY FS_Interval
<1>2. IsFiniteSet(A) /\ Cardinality(A) = 2^n /\ Cardinality(SUBSET (1..(n + 1))) = 2^(n + 1)
  BY <1>1, FS_SUBSET
<1>3. ExistsBijection(A, B)
  <2> DEFINE f == [T \in A |-> T \union {n + 1}]
  <2>1. f \in [A -> B]
    OBVIOUS
  <2>2. \A S, T \in A : f[S] = f[T] => S = T
    <3> SUFFICES ASSUME NEW S \in A, NEW T \in A, S \union {n + 1} = T \union {n + 1} PROVE S = T
      OBVIOUS
    <3>1. n + 1 \notin S /\ n + 1 \notin T
      OBVIOUS
    <3> QED
      BY <3>1
  <2>3. \A T \in B : \E S \in A : f[S] = T
    OBVIOUS
  <2> HIDE DEF f, A, B
  <2>4. f \in Bijection(A, B)
    BY <2>1, <2>2, <2>3 DEF Bijection, Injection, IsInjective, Surjection
  <2> QED
    BY <2>4 DEF ExistsBijection
<1>4. IsFiniteSet(B) /\ Cardinality(B) = 2^n
  <2> HIDE DEF A, B
  <2> QED
    BY <1>2, <1>3, FS_Bijection
<1>5. A \cap B = {}
  <2>1. \A T \in A : n + 1 \notin T
    OBVIOUS
  <2>2. \A T \in B : n + 1 \in T
    OBVIOUS
  <2> QED
    BY <2>1, <2>2
<1>6. SUBSET (1..(n + 1)) = A \union B
  <2>1. \A T \in A \union B : T \subseteq 1..(n + 1)
    OBVIOUS
  <2>2. ASSUME NEW T \in SUBSET (1..(n + 1)) PROVE T \in A \union B
    <3>1. T \ {n + 1} \in A
      OBVIOUS
    <3>2. CASE n + 1 \in T
      <4>1. T = (T \ {n + 1}) \union {n + 1}
        BY <3>2
      <4> QED
        BY <3>1, <4>1
    <3>3. CASE n + 1 \notin T
      BY <3>1, <3>3
    <3> QED
      BY <3>2, <3>3
  <2> QED
    BY <2>1, <2>2
<1> HIDE DEF A, B
<1>7. Cardinality(A \union B) = Cardinality(A) + Cardinality(B) - Cardinality(A \cap B)
  BY <1>2, <1>4, FS_Union
<1>8. 2^n \in Nat
  BY <1>2, FS_CardinalityType
<1>9. Cardinality(A \cap B) = 0
  BY <1>5, FS_EmptySet
<1>10. 2^(n + 1) = Cardinality(A \union B)
  BY <1>2, <1>6
<1>11. 2^(n + 1) = 2^n + 2^n
  <2> DEFINE x == 2^n
             y == 2^(n + 1)
  <2>1. y = x + x - 0 /\ x \in Nat
    BY <1>2, <1>4, <1>7, <1>8, <1>9, <1>10
  <2> HIDE DEF x, y
  <2>2. y = x + x
    BY <2>1
  <2> QED
    BY <2>2 DEF x, y
<1> QED
  BY <1>8, <1>11

\* wait() in closed form: it takes the n-th delay to the next.
LEMMA WaitDoubles ==
  ASSUME NEW n \in Nat
  PROVE  AfterWait(Delay(n)) = Delay(n + 1)
<1> DEFINE d == Initial * 2^n
           e == Initial * 2^(n + 1)
<1>1. d \in Nat /\ e = 2 * d
  <2> DEFINE x == 2^n
             y == 2^(n + 1)
  <2>1. x \in Nat /\ y = 2 * x
    BY PowerDoubles
  <2> HIDE DEF x, y
  <2>2. Initial * x \in Nat /\ Initial * y = 2 * (Initial * x)
    BY <2>1, DelaysClamped
  <2> QED
    BY <2>2 DEF x, y
<1>2. Delay(n) = (IF d <= Cap THEN d ELSE Cap) /\ Delay(n + 1) = (IF e <= Cap THEN e ELSE Cap)
  BY DEF Delay
<1> HIDE DEF d, e
<1> QED
  BY <1>1, <1>2, DelaysClamped DEF AfterWait

LEMMA FirstDelay == Delay(0) = Initial
<1>1. 2^0 = 1
  OBVIOUS
<1> QED
  BY <1>1, DelaysClamped DEF Delay

LEMMA WaitTracks ==
  ASSUME CounterType, BackoffTracksStreak, Wait
  PROVE  BackoffTracksStreak'
<1>1. current' = AfterWait(Delay(streak)) /\ streak' = UpTo(StreakCap, streak) /\ streak \in 0..StreakCap
  BY DEF Wait, BackoffTracksStreak, CounterType
<1>2. CASE streak < StreakCap
  <2>1. streak' = streak + 1 /\ streak \in Nat
    BY <1>1, <1>2, UpToBounded, StreakCapAssumption
  <2> QED
    BY <1>1, <2>1, WaitDoubles DEF BackoffTracksStreak
<1>3. CASE streak = StreakCap
  <2>1. streak' = StreakCap /\ Delay(StreakCap) = Cap
    BY <1>1, <1>3, UpToBounded, StreakCapAssumption
  <2>2. AfterWait(Cap) = Cap
    BY DelaysClamped DEF AfterWait
  <2> QED
    BY <1>1, <1>3, <2>1, <2>2 DEF BackoffTracksStreak
<1> QED
  BY <1>1, <1>2, <1>3, StreakCapAssumption

\* For every initial delay and cap: the loop sleeps for the initial delay doubled
\* once per wait since the last healthy session that ended without an error, up
\* to the cap, however sessions and failures follow one another.
THEOREM BackoffTracks == Spec => []BackoffTracksStreak
<1>1. Init => BackoffTracksStreak
  BY FirstDelay DEF Init, BackoffTracksStreak
<1>2. CounterType /\ BackoffTracksStreak /\ [Next]_vars => BackoffTracksStreak'
  <2> SUFFICES ASSUME CounterType, BackoffTracksStreak, [Next]_vars PROVE BackoffTracksStreak'
    OBVIOUS
  <2>1. CASE Wait
    BY <2>1, WaitTracks
  <2>2. CASE UNCHANGED delays
    BY <2>2 DEF delays, BackoffTracksStreak
  <2>3. CASE OkArm \/ Crash
    BY <2>2, <2>3, FirstDelay DEF OkArm, ShouldReset, Crash, delays, BackoffTracksStreak
  <2> QED
    BY <2>1, <2>2, <2>3
    DEF Next, LoopStep, PeerStep, Mark, vars, Boot, ResetAtBoot, StartSession, RiseUp, RiseRelay, RiseSend,
        HandleQuote, HandleOther, CloseWrite, ErrArm, ConnectFails, ConnectSucceeds, SetupSucceeds, SetupFails,
        ReadFrame, ReadCloses, ReadErrors, Tick, MarkUp, MarkPairs, MarkRelay, MarkSend
<1>3. IInv => CounterType
  BY DEF IInv, TypeOK
<1> QED
  BY <1>1, <1>2, <1>3, Inductive, PTL DEF Spec

-----------------------------------------------------------------------------
(* The loop's own steps run out.                                            *)

LEMMA StepsLeftBounded == pc \in PCs /\ after \in ReturnPCs => StepsLeft \in 0..16
  BY DEF StepsLeft, FromReturn, PCs, ReturnPCs, MarkPCs, OpenPCs

\* Whatever a session ends with and whatever Redis loses: within 16 steps that
\* need nobody else the loop waits for the peer again, unless the process dies.
THEOREM OwnStepsAreFew == Spec => OwnStepsRunOut
<1>1. pc \in PCs /\ after \in ReturnPCs /\ LoopStep => StepsLeft' < StepsLeft
  <2> SUFFICES ASSUME pc \in PCs, after \in ReturnPCs, LoopStep PROVE StepsLeft' < StepsLeft
    OBVIOUS
  <2> USE DEF StepsLeft, FromReturn, ReturnPCs
  <2>1. CASE Boot \/ ResetAtBoot
    BY <2>1 DEF Boot, ResetAtBoot, CallMark
  <2>2. CASE MarkUp \/ MarkPairs \/ MarkRelay
    BY <2>2 DEF MarkUp, MarkPairs, MarkRelay
  <2>3. CASE MarkSend
    BY <2>3 DEF MarkSend
  <2>4. CASE StartSession \/ RiseUp \/ RiseRelay \/ RiseSend \/ HandleQuote \/ HandleOther
    BY <2>4 DEF StartSession, RiseUp, RiseRelay, RiseSend, HandleQuote, HandleOther
  <2>5. CASE CloseWrite \/ OkArm \/ ErrArm \/ Wait
    BY <2>5 DEF CloseWrite, OkArm, ErrArm, Wait, CallMark
  <2> QED
    BY <2>1, <2>2, <2>3, <2>4, <2>5 DEF LoopStep, Mark
<1>2. Tick => StepsLeft' = StepsLeft
  BY DEF Tick, StepsLeft, FromReturn, ReturnPCs
<1>3. TypeOK /\ [Next]_vars =>
        [/\ StepsLeft \in 0..16
         /\ LoopStep => StepsLeft' < StepsLeft
         /\ Tick => StepsLeft' = StepsLeft]_vars
  BY <1>1, <1>2, StepsLeftBounded DEF TypeOK, ControlType
<1> QED
  BY <1>3, TypeCorrect, PTL DEF Spec, OwnStepsRunOut

-----------------------------------------------------------------------------
(* The loop and its relay together (TitanFeed): every step of the whole is  *)
(* a step of the loop or none, and a step of the relay or none.  So what is *)
(* proved of either holds of the whole, and says more when put together.    *)

RelayProofs == INSTANCE TitanLocalRelay_proofs WITH flag <- relayUp, last <- signal

LEMMA WholeIsLoop == TitanSpec => Spec
<1>1. TitanInit => Init
  BY DEF TitanInit
<1>2. [TitanNext]_feedVars => [Next]_vars
  <2>1. ASSUME NEW c \in Clients, ClientStep(c) PROVE UNCHANGED vars
    <3>1. UNCHANGED relay
      BY <2>1 DEF ClientStep, relay, Relay!Subscribe, Relay!Serve, Relay!Leave, Relay!LoadFlag, Relay!Receive,
                  Relay!ReceiveLagged, Relay!WriteDone, Relay!fvars
    <3> QED
      BY <2>1, <3>1 DEF ClientStep, loopOnly, vars
  <2>2. SendsStatus \/ SendsFrame \/ SendsNothing \/ Dies => Next
    BY DEF SendsStatus, SendsFrame, SendsNothing, Dies, Next, LoopStep, PeerStep, Mark
  <2>3. UNCHANGED feedVars => UNCHANGED vars
    BY DEF feedVars
  <2> QED
    BY <2>1, <2>2, <2>3 DEF TitanNext
<1> QED
  BY <1>1, <1>2, PTL DEF TitanSpec, Spec

LEMMA SendIsRelays ==
  ASSUME IInv, SendsStatus \/ SendsFrame
  PROVE  Relay!PublishStatus \/ Relay!PublishFrame
<1>1. ControlType /\ CopiesFollowLoop
  BY DEF IInv, TypeOK
<1>2. CASE SendsFrame
  <2>1. ReadFrame /\ Relay!Broadcast("frame")
    BY <1>2 DEF SendsFrame
  <2>2. relayUp /\ signal = "up"
    BY <1>1, <2>1 DEF ReadFrame, ControlType, CopiesFollowLoop, OpenPCs
  <2>3. Relay!SendFrame
    BY <2>1, <2>2 DEF ReadFrame, Relay!SendFrame, Relay!Settled, Relay!StatusOf
  <2> QED
    BY <2>1, <2>3 DEF Relay!PublishFrame
<1>3. CASE SendsStatus
  <2>1. (RiseSend \/ MarkSend) /\ Relay!Broadcast(signal')
    BY <1>3 DEF SendsStatus
  <2>2. CASE RiseSend
    <3>1. relayUp = TRUE
      BY <1>1, <2>2 DEF RiseSend, ControlType, CopiesFollowLoop, OpenPCs
    <3> QED
      BY <2>1, <2>2, <3>1 DEF RiseSend, Relay!PublishStatus, Relay!SendStatus, Relay!StatusOf
  <2>3. CASE MarkSend
    <3>1. ~relayUp
      BY <1>1, <2>3 DEF MarkSend, ControlType, CopiesFollowLoop, RelayUpHere, OpenPCs
    <3> QED
      BY <2>1, <2>3, <3>1 DEF MarkSend, Relay!PublishStatus, Relay!SendStatus, Relay!StatusOf
  <2> QED
    BY <2>1, <2>2, <2>3
<1> QED
  BY <1>2, <1>3

\* A step with which the loop sends nothing stores the flag or leaves the relay alone.
LEMMA SilenceIsRelays ==
  ASSUME IInv, SendsNothing
  PROVE  Relay!StoreUp \/ Relay!StoreDown \/ UNCHANGED <<relay, clients>>
<1>1. ControlType /\ CopiesFollowLoop
  BY DEF IInv, TypeOK
<1>2. CASE MarkRelay
  <2>1. signal = (IF relayUp THEN "up" ELSE "down")
    BY <1>1, <1>2 DEF MarkRelay, ControlType, CopiesFollowLoop
  <2>2. Relay!Lower
    BY <1>2, <2>1 DEF MarkRelay, Relay!Lower, Relay!Settled, Relay!StatusOf
  <2> QED
    BY <2>2 DEF SendsNothing, clients, Relay!StoreDown, Relay!clientVars
<1>3. CASE RiseRelay
  <2>1. ~relayUp /\ signal = "down"
    BY <1>1, <1>3 DEF RiseRelay, ControlType, CopiesFollowLoop, RelayUpHere, OpenPCs
  <2>2. Relay!Raise
    BY <1>3, <2>1 DEF RiseRelay, Relay!Raise, Relay!Settled, Relay!StatusOf
  <2> QED
    BY <2>2 DEF SendsNothing, clients, Relay!StoreUp, Relay!clientVars
<1>4. CASE ~MarkRelay /\ ~RiseRelay
  <2>1. UNCHANGED relay
    <3>1. CASE Boot \/ ResetAtBoot \/ MarkUp \/ MarkPairs
      BY <3>1 DEF relay, Boot, ResetAtBoot, MarkUp, MarkPairs
    <3>2. CASE StartSession \/ ConnectFails \/ ConnectSucceeds \/ RiseUp \/ SetupSucceeds \/ SetupFails
      BY <3>2 DEF relay, StartSession, ConnectFails, ConnectSucceeds, RiseUp, SetupSucceeds, SetupFails
    <3>3. CASE HandleQuote \/ HandleOther \/ ReadCloses \/ ReadErrors \/ CloseWrite
      BY <3>3 DEF relay, HandleQuote, HandleOther, ReadCloses, ReadErrors, CloseWrite
    <3>4. CASE OkArm \/ ErrArm \/ Wait \/ Tick
      BY <3>4 DEF relay, OkArm, ErrArm, Wait, Tick
    <3>5. (~RiseSend /\ ~MarkSend /\ ~ReadFrame) \/ Tick
      BY DEF SendsNothing, RiseSend, MarkSend
    <3> QED
      BY <1>4, <3>1, <3>2, <3>3, <3>4, <3>5 DEF SendsNothing, LoopStep, PeerStep, Mark
  <2> QED
    BY <2>1 DEF SendsNothing
<1> QED
  BY <1>2, <1>3, <1>4

LEMMA StepIsRelays == IInv /\ [TitanNext]_feedVars => [Relay!Next]_(Relay!vars)
<1> SUFFICES ASSUME IInv, [TitanNext]_feedVars PROVE [Relay!Next]_(Relay!vars)
  OBVIOUS
<1>1. UNCHANGED <<relay, clients>> => UNCHANGED Relay!vars
  BY DEF relay, clients, Relay!vars, Relay!fvars, Relay!clientVars
<1>2. CASE SendsStatus \/ SendsFrame
  BY <1>2, SendIsRelays DEF Relay!Next
<1>3. CASE SendsNothing
  BY <1>1, <1>3, SilenceIsRelays DEF Relay!Next
<1>4. CASE Dies
  BY <1>4 DEF Dies, Relay!Next
<1>5. ASSUME NEW c \in Clients, ClientStep(c) PROVE Relay!Next
  BY <1>5 DEF ClientStep, Relay!Next
<1>6. CASE UNCHANGED feedVars
  BY <1>1, <1>6 DEF feedVars, vars
<1> QED
  BY <1>2, <1>3, <1>4, <1>5, <1>6 DEF TitanNext

\* Behind the Titan loop the relay does only what TitanLocalRelay lets it do: the
\* publisher it is checked against is at least as free as run_live_loop.
THEOREM LoopDrivesRelay == TitanSpec => Relay!Spec
<1>1. TitanInit => Relay!Init
  BY DEF TitanInit
<1> QED
  BY <1>1, WholeIsLoop, Inductive, StepIsRelays, PTL DEF TitanSpec, Relay!Spec

LEMMA RelayKnows ==
  ASSUME Capacity \in Nat \ {0}
  PROVE  TitanSpec => []RelayProofs!DrainedKnowsStatus
<1>1. Relay!Init => RelayProofs!Init
  BY DEF Relay!Init, RelayProofs!Init, Relay!FInit, RelayProofs!FInit
<1>2. UNCHANGED Relay!vars => UNCHANGED RelayProofs!vars
  BY DEF Relay!vars, RelayProofs!vars, Relay!fvars, Relay!clientVars, RelayProofs!fvars, RelayProofs!clientVars
<1>3. Relay!Next => RelayProofs!Next
  BY DEF Relay!Next, RelayProofs!Next,
     Relay!StoreUp, RelayProofs!StoreUp,
     Relay!StoreDown, RelayProofs!StoreDown,
     Relay!PublishStatus, RelayProofs!PublishStatus,
     Relay!PublishFrame, RelayProofs!PublishFrame,
     Relay!Die, RelayProofs!Die,
     Relay!Subscribe, RelayProofs!Subscribe,
     Relay!Serve, RelayProofs!Serve,
     Relay!Leave, RelayProofs!Leave,
     Relay!LoadFlag, RelayProofs!LoadFlag,
     Relay!Receive, RelayProofs!Receive,
     Relay!ReceiveLagged, RelayProofs!ReceiveLagged,
     Relay!WriteDone, RelayProofs!WriteDone,
     Relay!Gone, RelayProofs!Gone,
     Relay!Listening, RelayProofs!Listening,
     Relay!Broadcast, RelayProofs!Broadcast,
     Relay!Push, RelayProofs!Push,
     Relay!Raise, RelayProofs!Raise,
     Relay!Lower, RelayProofs!Lower,
     Relay!SendStatus, RelayProofs!SendStatus,
     Relay!SendFrame, RelayProofs!SendFrame,
     Relay!Restart, RelayProofs!Restart,
     Relay!Settled, RelayProofs!Settled,
     Relay!StatusOf, RelayProofs!StatusOf,
     Relay!Statuses, RelayProofs!Statuses,
     Relay!fvars, RelayProofs!fvars,
     Relay!clientVars, RelayProofs!clientVars
<1>4. [Relay!Next]_(Relay!vars) => [RelayProofs!Next]_(RelayProofs!vars)
  BY <1>2, <1>3
<1>5. RelayProofs!Spec => []RelayProofs!DrainedKnowsStatus
  BY RelayProofs!StatusIsKnown
<1> QED
  BY <1>1, <1>4, <1>5, LoopDrivesRelay, PTL DEF Relay!Spec, RelayProofs!Spec

\* The copy GET /health reads and the one clients are told agree.
LEMMA HealthFollows ==
  ASSUME IInv, RelayProofs!DrainedKnowsStatus
  PROVE  HealthMatchesClients
<1> SUFFICES ASSUME pc \notin Changing, NEW c \in Clients, Relay!Drained(c), connected => trust[c] # "lost"
             PROVE  told[c] = Relay!StatusOf(connected)
  BY DEF HealthMatchesClients
<1>1. ControlType /\ CopiesFollowLoop
  BY DEF IInv, TypeOK
<1>2. connected = relayUp
  BY <1>1 DEF ControlType, CopiesFollowLoop, Changing, ConnectedHere, RelayUpHere, MarkPCs, OpenPCs
<1>3. RelayProofs!Settled
  BY <1>1 DEF ControlType, CopiesFollowLoop, Changing, MarkPCs, RelayProofs!Settled, RelayProofs!StatusOf
<1>4. RelayProofs!Drained(c)
  BY DEF Relay!Drained, RelayProofs!Drained
<1>5. told[c] = RelayProofs!StatusOf(relayUp)
  BY <1>2, <1>3, <1>4 DEF RelayProofs!DrainedKnowsStatus
<1> QED
  BY <1>2, <1>5 DEF Relay!StatusOf, RelayProofs!StatusOf

\* For any clients and capacity, whatever is lost to lag and however slowly a
\* client reads: outside a rise or a mark of run_session and
\* mark_titan_disconnected, a client with nothing left to read was last told what
\* GET /health says.
THEOREM ClientsAgreeWithHealth ==
  ASSUME Capacity \in Nat \ {0}
  PROVE  TitanSpec => []HealthMatchesClients
  BY WholeIsLoop, Inductive, RelayKnows, HealthFollows, PTL

-----------------------------------------------------------------------------
(* The loop and its quotes together (TitanHunt): every step of the whole is *)
(* a step of the loop or none, and a step of the quotes or none.            *)

QuotesProofs == INSTANCE TitanQuotes_proofs WITH pc <- place

\* The quotes move only with the loop, or while it stands still.
LEMMA HuntIsLoop == HuntSpec => Spec
<1>1. HuntInit => Init
  BY DEF HuntInit
<1>2. [HuntNext]_huntVars => [Next]_vars
  <2>1. LoopAlone \/ Resets \/ ProcessDies \/ Opens \/ SubscribesAll \/ SubscribeFails => Next
    BY DEF LoopAlone, Resets, ProcessDies, Opens, SubscribesAll, SubscribeFails, Next, LoopStep, PeerStep, Mark
  <2>2. Receives \/ RecordsQuote \/ RecordsOther \/ Closes => Next
    BY DEF Receives, RecordsQuote, RecordsOther, Closes, Next, LoopStep, PeerStep
  <2>3. Subscribes \/ Publishes \/ ElsewhereMoves \/ UNCHANGED huntVars => UNCHANGED vars
    BY DEF Subscribes, Publishes, ElsewhereMoves, huntVars
  <2> QED
    BY <2>1, <2>2, <2>3 DEF HuntNext
<1> QED
  BY <1>1, <1>2, PTL DEF HuntSpec, Spec

\* Under the loop the session does only what TitanQuotes lets it do: what is
\* proved of the rows, the board and the counters holds of the whole.
THEOREM LoopDrivesQuotes == HuntSpec => Quotes!Spec
<1>1. HuntInit => Quotes!Init
  BY DEF HuntInit
<1>2. [HuntNext]_huntVars => [Quotes!Next]_(Quotes!vars)
  <2>1. UNCHANGED quotesVars => UNCHANGED Quotes!vars
    BY DEF quotesVars, Quotes!vars, Quotes!registry, Quotes!sizeBoard, Quotes!counters, Quotes!server, Quotes!history
  <2>2. CASE LoopAlone \/ RecordsOther \/ UNCHANGED huntVars
    BY <2>1, <2>2 DEF LoopAlone, RecordsOther, huntVars
  <2>3. CASE Resets \/ ProcessDies \/ Opens
    BY <2>1, <2>3 DEF Resets, ProcessDies, Opens, Quotes!Next
  <2>4. CASE Subscribes \/ SubscribesAll \/ SubscribeFails
    BY <2>4 DEF Subscribes, SubscribesAll, SubscribeFails, Quotes!Next
  <2>5. CASE Receives
    BY <2>1, <2>5 DEF Receives, Quotes!Next
  <2>6. CASE Publishes \/ RecordsQuote \/ Closes
    BY <2>6 DEF Publishes, RecordsQuote, Closes, Quotes!Next
  <2>7. CASE ElsewhereMoves
    BY <2>7 DEF ElsewhereMoves, Quotes!Next
  <2> QED
    BY <2>2, <2>3, <2>4, <2>5, <2>6, <2>7 DEF HuntNext
<1> QED
  BY <1>1, <1>2, PTL DEF HuntSpec, Quotes!Spec

\* The instance whose theorems are cited and the one of TitanHunt are the same.
LEMMA SameQuotes ==
  /\ Quotes!Init => QuotesProofs!Init
  /\ Quotes!Next => QuotesProofs!Next
  /\ UNCHANGED Quotes!vars => UNCHANGED QuotesProofs!vars
<1> USE DEF Quotes!Sizes, QuotesProofs!Sizes, Quotes!Ladder, QuotesProofs!Ladder,
            Quotes!RequestIds, QuotesProofs!RequestIds, Quotes!NoRow, QuotesProofs!NoRow,
            Quotes!Absent, QuotesProofs!Absent, Quotes!registry, QuotesProofs!registry,
            Quotes!sizeBoard, QuotesProofs!sizeBoard, Quotes!counters, QuotesProofs!counters,
            Quotes!server, QuotesProofs!server, Quotes!history, QuotesProofs!history
<1>1. Quotes!Init => QuotesProofs!Init
  BY DEF Quotes!Init, QuotesProofs!Init
<1>2. UNCHANGED Quotes!vars => UNCHANGED QuotesProofs!vars
  BY DEF Quotes!vars, QuotesProofs!vars
<1>3. Quotes!Next => QuotesProofs!Next
  BY DEF Quotes!Next, QuotesProofs!Next,
     Quotes!Boot, QuotesProofs!Boot, Quotes!Crash, QuotesProofs!Crash,
     Quotes!Expire, QuotesProofs!Expire, Quotes!OpenSession, QuotesProofs!OpenSession,
     Quotes!SkipRung, QuotesProofs!SkipRung, Quotes!SubscribeRung, QuotesProofs!SubscribeRung,
     Quotes!SetupFails, QuotesProofs!SetupFails, Quotes!Snapshot, QuotesProofs!Snapshot,
     Quotes!ServerOpens, QuotesProofs!ServerOpens, Quotes!ReadResponse, QuotesProofs!ReadResponse,
     Quotes!ReadError, QuotesProofs!ReadError, Quotes!ReadQuote, QuotesProofs!ReadQuote,
     Quotes!WriteRow, QuotesProofs!WriteRow, Quotes!PublishBoard, QuotesProofs!PublishBoard,
     Quotes!Record, QuotesProofs!Record, Quotes!CloseSession, QuotesProofs!CloseSession,
     Quotes!WriteBoard, QuotesProofs!WriteBoard, Quotes!Entry, QuotesProofs!Entry
<1> QED
  BY <1>1, <1>2, <1>3

LEMMA QuotesHold ==
  ASSUME QuotesConstants
  PROVE  HuntSpec => []QuotesProofs!IInv
<1>1. QuotesProofs!Spec => []QuotesProofs!IInv
  BY QuotesProofs!InvHolds DEF QuotesConstants, Quotes!Quotes, Quotes!Sizes, Quotes!Ladder,
     QuotesProofs!Quotes, QuotesProofs!Sizes, QuotesProofs!Ladder
<1>2. [Quotes!Next]_(Quotes!vars) => [QuotesProofs!Next]_(QuotesProofs!vars)
  BY SameQuotes
<1> QED
  BY <1>1, <1>2, SameQuotes, LoopDrivesQuotes, PTL DEF Quotes!Spec, QuotesProofs!Spec

LEMMA PlacesInit == HuntInit => PlacesMatch
  BY DEF HuntInit, Init, Quotes!Init, PlacesMatch, Quotes!ReadingPCs

LEMMA PlacesMatchNext == ControlType /\ PlacesMatch /\ [HuntNext]_huntVars => PlacesMatch'
<1> SUFFICES ASSUME ControlType, PlacesMatch, [HuntNext]_huntVars PROVE PlacesMatch'
  OBVIOUS
<1> USE DEF PlacesMatch, Quotes!ReadingPCs
<1>1. CASE LoopAlone
  <2>1. CASE Boot \/ Mark
    BY <1>1, <2>1 DEF LoopAlone, quotesVars, ControlType, ReturnPCs, Boot, Mark, MarkUp, MarkPairs, MarkRelay, MarkSend
  <2>2. CASE StartSession \/ ConnectFails \/ ConnectSucceeds \/ RiseUp \/ RiseRelay
    BY <1>1, <2>2 DEF LoopAlone, quotesVars, StartSession, ConnectFails, ConnectSucceeds, RiseUp, RiseRelay
  <2>3. CASE CloseWrite \/ OkArm \/ ErrArm \/ Wait \/ Tick
    BY <1>1, <2>3 DEF LoopAlone, quotesVars, CloseWrite, OkArm, ErrArm, Wait, CallMark, Tick
  <2> QED
    BY <1>1, <2>1, <2>2, <2>3 DEF LoopAlone
<1>2. CASE Resets \/ Opens
  BY <1>2 DEF Resets, ResetAtBoot, CallMark, Quotes!Boot, Opens, RiseSend, Quotes!OpenSession
<1>3. CASE ProcessDies
  BY <1>3 DEF ProcessDies, Crash, quotesVars, Quotes!Crash
<1>4. CASE Subscribes
  BY <1>4 DEF Subscribes, vars, Quotes!SkipRung, Quotes!SubscribeRung
<1>5. CASE SubscribesAll \/ SubscribeFails
  BY <1>5 DEF SubscribesAll, SetupSucceeds, Quotes!Snapshot, SubscribeFails, SetupFails, Quotes!SetupFails
<1>6. CASE Receives
  BY <1>6 DEF Receives, ReadFrame, quotesVars, Quotes!ReadResponse, Quotes!ReadError, Quotes!ReadQuote
<1>7. CASE Publishes
  BY <1>7 DEF Publishes, vars, Quotes!WriteRow, Quotes!PublishBoard
<1>8. CASE RecordsQuote \/ RecordsOther
  BY <1>8 DEF RecordsQuote, RecordsOther, HandleQuote, HandleOther, Quotes!Record, quotesVars
<1>9. CASE Closes
  BY <1>9 DEF Closes, ReadCloses, ReadErrors, CallMark, Quotes!CloseSession
<1>10. CASE ElsewhereMoves
  BY <1>10 DEF ElsewhereMoves, vars, Quotes!Expire, Quotes!ServerOpens
<1>11. CASE UNCHANGED huntVars
  BY <1>11 DEF huntVars, vars, quotesVars
<1> QED
  BY <1>1, <1>2, <1>3, <1>4, <1>5, <1>6, <1>7, <1>8, <1>9, <1>10, <1>11 DEF HuntNext

\* `quoted' is raised inside a session only, and falls where the next one starts.
LEMMA QuotedNext ==
  ASSUME ControlType, QuotedInSession, [Next]_vars
  PROVE  QuotedInSession'
<1> USE DEF QuotedInSession, NoQuoteYet
<1>1. CASE Boot \/ ResetAtBoot \/ Crash
  BY <1>1 DEF Boot, ResetAtBoot, CallMark, Crash, session
<1>2. CASE StartSession \/ ConnectFails \/ ConnectSucceeds \/ RiseUp \/ RiseRelay \/ RiseSend
  BY <1>2 DEF StartSession, ConnectFails, ConnectSucceeds, RiseUp, RiseRelay, RiseSend, session
<1>3. CASE SetupSucceeds \/ SetupFails \/ ReadFrame \/ HandleQuote \/ HandleOther
  BY <1>3 DEF SetupSucceeds, SetupFails, ReadFrame, HandleQuote, HandleOther
<1>4. CASE ReadCloses \/ ReadErrors \/ CloseWrite \/ OkArm \/ ErrArm \/ Wait
  BY <1>4 DEF ReadCloses, ReadErrors, CloseWrite, OkArm, ErrArm, Wait, CallMark
<1>5. CASE Tick \/ UNCHANGED vars
  BY <1>5 DEF Tick, vars, session
<1>6. CASE MarkUp \/ MarkPairs \/ MarkRelay
  BY <1>6 DEF MarkUp, MarkPairs, MarkRelay
<1>7. CASE MarkSend
  BY <1>7 DEF MarkSend, ControlType, ReturnPCs
<1> QED
  BY <1>1, <1>2, <1>3, <1>4, <1>5, <1>6, <1>7 DEF Next, LoopStep, PeerStep, Mark

\* pairs_live that is "1" with no clear lost was set by the session at hand.
LEMMA LiveNext ==
  ASSUME IInv, LiveIsQuoted, [Next]_vars
  PROVE  LiveIsQuoted'
<1>1. ControlType /\ ClearsCounted /\ LostCap \in Nat /\ LostCap >= 3 /\ lostPairs \in 0..LostCap
  BY LostCapAssumption DEF IInv, TypeOK, CounterType
<1>2. lostPairs \in Nat /\ UpTo(LostCap, lostPairs) # 0
  BY <1>1 DEF UpTo
<1> USE DEF LiveIsQuoted
<1>3. CASE Boot \/ ResetAtBoot \/ Crash
  BY <1>2, <1>3 DEF Boot, ResetAtBoot, ResetPipe, ApplyPairs, LosePairsClear, redis, CallMark, Crash
<1>4. CASE MarkUp
  BY <1>4 DEF MarkUp, ClearTitanUp, redis, session
<1>5. CASE MarkPairs
  BY <1>2, <1>5 DEF MarkPairs, ClearPairsLive, ApplyPairs, LosePairsClear, redis, session
<1>6. CASE StartSession
  BY <1>1, <1>6 DEF StartSession, ClearsCounted, PairsClears, redis
<1>7. CASE HandleQuote
  BY <1>7 DEF HandleQuote
<1>8. CASE RiseUp
  BY <1>8 DEF RiseUp, RaiseTitanUp, redis, session
<1>9. CASE MarkRelay \/ MarkSend \/ ConnectFails \/ ConnectSucceeds \/ RiseRelay \/ RiseSend
  BY <1>9 DEF MarkRelay, MarkSend, ConnectFails, ConnectSucceeds, RiseRelay, RiseSend, redis, session
<1>10. CASE SetupSucceeds \/ SetupFails \/ ReadFrame \/ HandleOther \/ ReadCloses \/ ReadErrors
  BY <1>10 DEF SetupSucceeds, SetupFails, ReadFrame, HandleOther, ReadCloses, ReadErrors, CallMark, redis, session
<1>11. CASE CloseWrite \/ OkArm \/ ErrArm \/ Wait \/ Tick \/ UNCHANGED vars
  BY <1>11 DEF CloseWrite, OkArm, ErrArm, Wait, CallMark, Tick, vars, redis, session
<1> QED
  BY <1>3, <1>4, <1>5, <1>6, <1>7, <1>8, <1>9, <1>10, <1>11 DEF Next, LoopStep, PeerStep, Mark

\* While the loop publishes a quote the document it builds holds that quote, and
\* only quotes of its session.
LEMMA EntriesAreFresh ==
  ASSUME QuotesProofs!IInv, place \in {"board", "record"}
  PROVE  /\ \E s \in Quotes!Sizes : Quotes!Entry(s).stamp # 0
         /\ \A s \in Quotes!Sizes : Quotes!Entry(s).stamp # 0 => Quotes!Entry(s).stamp > sessionFrom
<1>1. quote # None /\ quote \in QuotesProofs!Quotes
  BY DEF QuotesProofs!IInv, QuotesProofs!TypeOK, QuotesProofs!PlaceType
<1>2. quote.size \in QuotesProofs!Sizes /\ quote.stamp \in 1..MaxQuotes /\ quote.stamp = pins[quote.size]
  BY <1>1 DEF QuotesProofs!Quotes, QuotesProofs!IInv, QuotesProofs!StampsAgree
<1>3. quote.size \in Quotes!Sizes /\ pins[quote.size] # 0
  BY <1>2 DEF Quotes!Sizes, Quotes!Ladder, QuotesProofs!Sizes, QuotesProofs!Ladder
<1>4. \A s \in Quotes!Sizes : pins[s] # 0 => pins[s] > sessionFrom
  BY DEF QuotesProofs!IInv, QuotesProofs!StampsAgree,
         Quotes!Sizes, Quotes!Ladder, QuotesProofs!Sizes, QuotesProofs!Ladder
<1>5. \A s \in Quotes!Sizes : Quotes!Entry(s).stamp = pins[s]
  BY DEF Quotes!Entry, Quotes!Absent
<1> QED
  BY <1>3, <1>4, <1>5

LEMMA BoardIsBuilt ==
  ASSUME QuotesProofs!IInv, place = "record", ~lostBoard
  PROVE  board = [s \in Quotes!Sizes |-> Quotes!Entry(s)]
  BY DEF QuotesProofs!IInv, QuotesProofs!BoardIsCurrent, QuotesProofs!Entry, Quotes!Entry, Quotes!Absent,
     QuotesProofs!Absent, Quotes!Sizes, Quotes!Ladder, QuotesProofs!Sizes, QuotesProofs!Ladder

\* The board the session at hand has published holds its quotes; it changes only
\* where the next document of the session is published, or with no quote recorded.
LEMMA OnBoardNext ==
  ASSUME IInv, QuotesProofs!IInv, HuntInv, [HuntNext]_huntVars
  PROVE  QuotedIsOnBoard'
<1>1. /\ PlacesMatch /\ QuotedInSession /\ QuotedIsOnBoard
      /\ UNCHANGED <<quoted, lostBoard, board, sessionFrom>> => QuotedIsOnBoard'
  BY DEF HuntInv, QuotedIsOnBoard, BoardIsFresh
<1>2. quoted' = FALSE => QuotedIsOnBoard'
  BY DEF QuotedIsOnBoard
<1>3. CASE LoopAlone
  <2>1. UNCHANGED <<lostBoard, board, sessionFrom>>
    BY <1>3 DEF LoopAlone, quotesVars
  <2>2. quoted' = FALSE \/ quoted' = quoted
    BY <1>3 DEF LoopAlone, Boot, Mark, MarkUp, MarkPairs, MarkRelay, MarkSend, StartSession, ConnectFails,
                ConnectSucceeds, RiseUp, RiseRelay, CloseWrite, OkArm, ErrArm, Wait, CallMark, Tick, session
  <2> QED
    BY <1>1, <1>2, <2>1, <2>2
<1>4. CASE Resets \/ ProcessDies \/ Opens \/ SubscribesAll
  <2>1. quoted' = FALSE
    BY <1>1, <1>4 DEF Resets, ResetAtBoot, CallMark, ProcessDies, Crash, Opens, RiseSend, SubscribesAll, SetupSucceeds,
                      session, QuotedInSession, NoQuoteYet
  <2> QED
    BY <1>2, <2>1
<1>5. CASE Subscribes \/ SubscribeFails \/ Receives \/ RecordsOther \/ Closes \/ ElsewhereMoves \/ UNCHANGED huntVars
  <2>1. UNCHANGED quoted
    BY <1>5 DEF Subscribes, SubscribeFails, SetupFails, Receives, ReadFrame, RecordsOther, HandleOther, Closes,
                ReadCloses, ReadErrors, CallMark, ElsewhereMoves, huntVars, vars, session
  <2>2. UNCHANGED <<lostBoard, board, sessionFrom>>
    BY <1>5 DEF Subscribes, SubscribeFails, Receives, RecordsOther, Closes, ElsewhereMoves, huntVars, quotesVars,
                Quotes!SkipRung, Quotes!SubscribeRung, Quotes!SetupFails, Quotes!ReadResponse, Quotes!ReadError,
                Quotes!ReadQuote, Quotes!CloseSession, Quotes!Expire, Quotes!ServerOpens, Quotes!history
  <2> QED
    BY <1>1, <2>1, <2>2
<1>6. CASE Publishes
  <2>1. UNCHANGED <<quoted, sessionFrom>>
    BY <1>6 DEF Publishes, vars, session, Quotes!WriteRow, Quotes!PublishBoard
  <2>2. CASE Quotes!WriteRow
    BY <1>1, <2>1, <2>2 DEF Quotes!WriteRow
  <2>3. CASE Quotes!PublishBoard /\ ~lostBoard'
    <3>1. board' = [s \in Quotes!Sizes |-> Quotes!Entry(s)]
      BY <2>3 DEF Quotes!PublishBoard, Quotes!WriteBoard
    <3>2. place = "board"
      BY <2>3 DEF Quotes!PublishBoard
    <3> QED
      BY <2>1, <3>1, <3>2, EntriesAreFresh DEF QuotedIsOnBoard, BoardIsFresh
  <2> QED
    BY <1>6, <2>2, <2>3 DEF Publishes, QuotedIsOnBoard
<1>7. CASE RecordsQuote
  <2>1. place = "record" /\ UNCHANGED <<board, lostBoard, sessionFrom>>
    BY <1>7 DEF RecordsQuote, Quotes!Record
  <2>2. CASE ~lostBoard
    BY <2>1, <2>2, BoardIsBuilt, EntriesAreFresh DEF QuotedIsOnBoard, BoardIsFresh
  <2> QED
    BY <2>1, <2>2 DEF QuotedIsOnBoard
<1> QED
  BY <1>3, <1>4, <1>5, <1>6, <1>7 DEF HuntNext

LEMMA HuntInvInit == HuntInit => HuntInv
  BY PlacesInit DEF HuntInit, Init, HuntInv, QuotedInSession, QuotedIsOnBoard, LiveIsQuoted

LEMMA HuntInvNext ==
  IInv /\ QuotesProofs!IInv /\ HuntInv /\ [HuntNext]_huntVars /\ [Next]_vars => HuntInv'
<1> SUFFICES ASSUME IInv, QuotesProofs!IInv, HuntInv, [HuntNext]_huntVars, [Next]_vars PROVE HuntInv'
  OBVIOUS
<1>1. ControlType /\ PlacesMatch /\ QuotedInSession /\ LiveIsQuoted
  BY DEF IInv, TypeOK, HuntInv
<1> QED
  BY <1>1, PlacesMatchNext, QuotedNext, LiveNext, OnBoardNext DEF HuntInv

\* For any ladder, stream identifiers, delays and number of quotes: a hunter that
\* reads pairs_live = 1 finds quotes on the board, all of the session opened last,
\* unless a clear of pairs_live or the last write of the board was lost.
THEOREM LivePairsAreOnBoard ==
  ASSUME QuotesConstants
  PROVE  HuntSpec => []LivePairsOnBoard
<1>1. HuntInv => LivePairsOnBoard
  BY DEF HuntInv, QuotedIsOnBoard, LiveIsQuoted, LivePairsOnBoard
<1>2. HuntSpec => [][HuntNext]_huntVars /\ HuntInit
  BY DEF HuntSpec
<1>3. HuntSpec => [][Next]_vars
  BY HuntIsLoop, PTL DEF Spec
<1>4. HuntSpec => []IInv
  BY HuntIsLoop, Inductive, PTL
<1> QED
  BY <1>1, <1>2, <1>3, <1>4, QuotesHold, HuntInvInit, HuntInvNext, PTL
=========================================================================
