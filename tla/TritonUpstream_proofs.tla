---------------------- MODULE TritonUpstream_proofs ----------------------
(***************************************************************************)
(* Proofs about the Triton live loop, for every delay and bound: its       *)
(* safety invariants hold, every step of it is a step of FeedSignal or     *)
(* none, and together with its relay (TritonFeed) it keeps the streams and *)
(* GET /health in agreement.                                               *)
(***************************************************************************)
EXTENDS TritonFeed, TLAPS

\* ReconnectBackoff::new leaves a first delay of at least one unit and a cap
\* that is not below it.
LEMMA DelaysClamped == Initial \in Nat /\ Cap \in Nat /\ 1 <= Initial /\ Initial <= Cap
  BY DelaysAssumption DEF Initial, Cap

\* wait() keeps the delay between the clamped bounds.
LEMMA AfterWaitBounded == ASSUME NEW d \in Initial..Cap PROVE AfterWait(d) \in Initial..Cap
  BY DelaysClamped DEF AfterWait

\* A saturating counter stays within its bound, and grows below it.
LEMMA UpToBounded ==
  ASSUME NEW bound \in Nat, NEW n \in 0..bound
  PROVE  /\ UpTo(bound, n) \in 0..bound
         /\ n < bound => UpTo(bound, n) = n + 1
         /\ n = bound => UpTo(bound, n) = bound
  BY DEF UpTo

-----------------------------------------------------------------------------
\* The type invariant, in two halves: places and flags, then numbers.
LEMMA TypeInit == Init => TypeOK
<1>1. Init => ControlType
  BY DEF Init, ControlType, PCs, ReturnPCs
<1>2. Init => CounterType
  BY DelaysClamped, LostCapAssumption DEF Init, CounterType
<1> QED
  BY <1>1, <1>2 DEF TypeOK

FlagType ==
  /\ connected \in BOOLEAN /\ authBlocked \in BOOLEAN /\ redisConn \in BOOLEAN
  /\ relayUp \in BOOLEAN /\ signal \in {"up", "down"}
  /\ tritonUp \in BOOLEAN /\ received \in BOOLEAN
  /\ failure \in Failures \union {"none"}

LEMMA PlacesNext == pc \in PCs /\ after \in ReturnPCs /\ [Next]_vars => pc' \in PCs /\ after' \in ReturnPCs
<1> SUFFICES ASSUME pc \in PCs, after \in ReturnPCs, [Next]_vars
             PROVE  pc' \in PCs /\ after' \in ReturnPCs
  OBVIOUS
<1> USE DEF PCs, ReturnPCs, MarkPCs, OpenPCs, Ended
<1>1. CASE UNCHANGED vars \/ Boot \/ ResetAtBoot \/ Crash
  BY <1>1 DEF vars, Boot, ResetAtBoot, CallMark, Crash
<1>2. CASE Mark
  BY <1>2 DEF Mark, MarkUp, MarkRelay, MarkSend
<1>3. CASE StartSession \/ ConnectFails \/ ConnectSucceeds \/ RiseUp \/ RiseRelay \/ RiseSend
  BY <1>3 DEF StartSession, ConnectFails, ConnectSucceeds, RiseUp, RiseRelay, RiseSend
<1>4. CASE ReadUpdate \/ HandleUpdate \/ PingSent \/ StreamErrors \/ StreamEnds
  BY <1>4 DEF ReadUpdate, HandleUpdate, PingSent, StreamErrors, StreamEnds, CallMark
<1>5. CASE OkArm \/ ErrArm \/ Wait \/ Halt \/ Retry \/ SummaryPanics
  BY <1>5 DEF OkArm, ErrArm, Wait, CallMark, Halt, Retry, SummaryPanics
<1> QED
  BY <1>1, <1>2, <1>3, <1>4, <1>5 DEF Next, LoopStep, PeerStep

LEMMA FlagsNext == FlagType /\ [Next]_vars => FlagType'
<1> SUFFICES ASSUME FlagType, [Next]_vars PROVE FlagType'
  OBVIOUS
<1> USE DEF FlagType, relay, redis, session
<1>1. CASE UNCHANGED vars \/ Crash
  BY <1>1 DEF vars, Crash
<1>2. CASE Boot \/ ResetAtBoot
  BY <1>2 DEF Boot, ResetAtBoot, CallMark, ClearTritonUp, ApplyUp, LoseClear
<1>3. CASE Mark
  BY <1>3 DEF Mark, MarkUp, MarkRelay, MarkSend, ClearTritonUp, ApplyUp, LoseClear
<1>4. CASE StartSession \/ ConnectFails \/ ConnectSucceeds
  BY <1>4 DEF StartSession, ConnectFails, ConnectSucceeds
<1>5. CASE RiseUp \/ RiseRelay \/ RiseSend
  BY <1>5 DEF RiseUp, RiseRelay, RiseSend, RaiseTritonUp, ApplyUp
<1>6. CASE ReadUpdate \/ HandleUpdate \/ PingSent
  BY <1>6 DEF ReadUpdate, PingSent, HandleUpdate, RaiseTritonUp, ApplyUp
<1>7. CASE StreamErrors \/ StreamEnds
  BY <1>7 DEF StreamErrors, StreamEnds, CallMark
<1>8. CASE OkArm \/ ErrArm \/ Wait
  BY <1>8 DEF OkArm, ErrArm, Wait, CallMark
<1>9. CASE Halt \/ Retry \/ SummaryPanics
  BY <1>9 DEF Halt, Retry, SummaryPanics
<1> QED
  BY <1>1, <1>2, <1>3, <1>4, <1>5, <1>6, <1>7, <1>8, <1>9 DEF Next, LoopStep, PeerStep

LEMMA ControlNext == ControlType /\ [Next]_vars => ControlType'
<1>1. ControlType <=> FlagType /\ pc \in PCs /\ after \in ReturnPCs
  BY DEF ControlType, FlagType
<1>2. ControlType' <=> FlagType' /\ pc' \in PCs /\ after' \in ReturnPCs
  BY DEF ControlType, FlagType
<1> QED
  BY <1>1, <1>2, PlacesNext, FlagsNext

LEMMA CounterNext == CounterType /\ [Next]_vars => CounterType'
<1> SUFFICES ASSUME CounterType, [Next]_vars PROVE CounterType'
  OBVIOUS
<1> USE LostCapAssumption, DelaysClamped
<1> USE DEF CounterType, relay, redis, session
<1>0. UpTo(LostCap, lostUp) \in 0..LostCap
  BY UpToBounded
<1>1. CASE UNCHANGED vars
  BY <1>1 DEF vars
<1>2. CASE Boot \/ ResetAtBoot
  BY <1>0, <1>2 DEF Boot, ResetAtBoot, ClearTritonUp, ApplyUp, LoseClear
<1>3. CASE Mark
  BY <1>0, <1>3 DEF Mark, MarkUp, MarkRelay, MarkSend, ClearTritonUp, ApplyUp, LoseClear
<1>4. CASE StartSession \/ ConnectFails \/ ConnectSucceeds
  BY <1>4 DEF StartSession, ConnectFails, ConnectSucceeds
<1>5. CASE RiseUp \/ RiseRelay \/ RiseSend
  BY <1>5 DEF RiseUp, RiseRelay, RiseSend, RaiseTritonUp, ApplyUp
<1>6. CASE ReadUpdate \/ HandleUpdate \/ PingSent
  BY <1>6 DEF ReadUpdate, HandleUpdate, PingSent, RaiseTritonUp, ApplyUp
<1>7. CASE StreamErrors \/ StreamEnds
  BY <1>7 DEF StreamErrors, StreamEnds
<1>8. CASE OkArm \/ ErrArm
  BY <1>8 DEF OkArm, ErrArm
<1>9. CASE Wait
  BY <1>9, AfterWaitBounded, UpToBounded DEF Wait
<1>10. CASE Halt \/ Retry \/ SummaryPanics
  BY <1>10 DEF Halt, Retry, SummaryPanics
<1>11. CASE Crash
  BY <1>11 DEF Crash
<1> QED
  BY <1>1, <1>2, <1>3, <1>4, <1>5, <1>6, <1>7, <1>8, <1>9, <1>10, <1>11 DEF Next, LoopStep, PeerStep

-----------------------------------------------------------------------------
\* Every copy of the connectivity says "up" only at the places it may.
LEMMA CopiesNext == ControlType /\ CopiesFollowLoop /\ [Next]_vars => CopiesFollowLoop'
<1> SUFFICES ASSUME ControlType, CopiesFollowLoop, [Next]_vars PROVE CopiesFollowLoop'
  OBVIOUS
<1> USE DEF ControlType, CopiesFollowLoop, ConnectedHere, RelayUpHere, PCs, ReturnPCs, MarkPCs, OpenPCs, Ended, relay
<1>1. CASE UNCHANGED vars
  BY <1>1 DEF vars
<1>2. CASE Boot \/ ResetAtBoot
  BY <1>2 DEF Boot, ResetAtBoot, CallMark
<1>3. CASE MarkUp
  BY <1>3 DEF MarkUp
<1>4. CASE MarkRelay
  BY <1>4 DEF MarkRelay
<1>5. CASE MarkSend
  BY <1>5 DEF MarkSend
<1>6. CASE StartSession \/ ConnectFails \/ ConnectSucceeds
  BY <1>6 DEF StartSession, ConnectFails, ConnectSucceeds
<1>7. CASE RiseUp \/ RiseRelay \/ RiseSend
  BY <1>7 DEF RiseUp, RiseRelay, RiseSend
<1>8. CASE ReadUpdate \/ HandleUpdate \/ PingSent
  BY <1>8 DEF ReadUpdate, HandleUpdate, PingSent
<1>9. CASE StreamErrors \/ StreamEnds
  BY <1>9 DEF StreamErrors, StreamEnds, CallMark
<1>10. CASE OkArm \/ ErrArm \/ Wait
  BY <1>10 DEF OkArm, ErrArm, Wait, CallMark
<1>11. CASE Halt \/ Retry \/ SummaryPanics
  BY <1>11 DEF Halt, Retry, SummaryPanics
<1>12. CASE Crash
  BY <1>12 DEF Crash
<1> QED
  BY <1>1, <1>2, <1>3, <1>4, <1>5, <1>6, <1>7, <1>8, <1>9, <1>10, <1>11, <1>12
  DEF Next, LoopStep, PeerStep, Mark

\* A denied error goes through the mark to the end of the loop and is noted
\* there, whichever way the arm of a denial ends it.
LEMMA DenialNext == ControlType /\ DenialStands /\ [Next]_vars => DenialStands'
<1> SUFFICES ASSUME ControlType, DenialStands, [Next]_vars PROVE DenialStands'
  OBVIOUS
<1> USE DEF ControlType, DenialStands, ReturnPCs, MarkPCs, OpenPCs, Ended, Denied, session
<1>1. CASE UNCHANGED vars
  BY <1>1 DEF vars
<1>2. CASE Boot \/ ResetAtBoot \/ Crash
  BY <1>2 DEF Boot, ResetAtBoot, CallMark, Crash
<1>3. CASE Mark
  BY <1>3 DEF Mark, MarkUp, MarkRelay, MarkSend
<1>4. CASE StartSession \/ ConnectFails \/ ConnectSucceeds \/ RiseUp \/ RiseRelay \/ RiseSend
  BY <1>4 DEF StartSession, ConnectFails, ConnectSucceeds, RiseUp, RiseRelay, RiseSend
<1>5. CASE ReadUpdate \/ HandleUpdate \/ PingSent \/ StreamErrors \/ StreamEnds
  BY <1>5 DEF ReadUpdate, HandleUpdate, PingSent, StreamErrors, StreamEnds, CallMark
<1>6. CASE OkArm \/ ErrArm \/ Wait \/ Retry
  BY <1>6 DEF OkArm, ErrArm, Wait, CallMark, Retry
<1>7. CASE Halt \/ SummaryPanics
  BY <1>7 DEF Halt, SummaryPanics
<1> QED
  BY <1>1, <1>2, <1>3, <1>4, <1>5, <1>6, <1>7 DEF Next, LoopStep, PeerStep

\* How many clears were tried, place by place.
LEMMA UpClearsAt ==
  ASSUME NEW p \in PCs, NEW ret \in ReturnPCs
  PROVE  /\ UpClears(p, ret) \in 0..2
         /\ p \in {"session", "connect"} => UpClears(p, ret) = 2
         /\ p = "markUp" => UpClears(p, ret) = IF ret = "session" THEN 1 ELSE 0
         /\ p \in {"markRelay", "markSend"} => UpClears(p, ret) = IF ret = "session" THEN 2 ELSE 1
         /\ p \in {"okArm", "classify", "wait"} \union Ended => UpClears(p, ret) = 1
         /\ p \in {"boot", "reset", "errArm"} \union OpenPCs => UpClears(p, ret) = 0
  BY DEF UpClears, PriorMarks, PCs, ReturnPCs, MarkPCs, OpenPCs, Ended

\* A stale triton_up has outlived every clear its place in the loop accounts
\* for: a step keeps the key and tries no clear, or tries one, or starts anew.
LEMMA ClearsNext == TypeOK /\ TypeOK' /\ ClearsCounted /\ [Next]_vars => ClearsCounted'
<1> SUFFICES ASSUME TypeOK, TypeOK', ClearsCounted, [Next]_vars PROVE ClearsCounted'
  OBVIOUS
<1> DEFINE Before == UpClears(pc, after)
           After == UpClears(pc', after')
<1>0. pc \in PCs /\ after \in ReturnPCs /\ pc' \in PCs /\ after' \in ReturnPCs
      /\ lostUp \in 0..LostCap /\ lostUp' \in 0..LostCap
  BY DEF TypeOK, ControlType, CounterType
<1>a. Before \in 0..2 /\ After \in 0..2
  BY <1>0, UpClearsAt
<1> HIDE DEF Before, After
<1>b. ClearsCounted' <=> (redisConn' /\ tritonUp' => lostUp' >= After)
  BY DEF ClearsCounted, After
<1>c. redisConn /\ tritonUp => lostUp >= Before
  BY DEF ClearsCounted, Before
<1>k. ASSUME redisConn' = redisConn, tritonUp' = tritonUp, lostUp' = lostUp, After <= Before
      PROVE  ClearsCounted'
  BY <1>0, <1>a, <1>b, <1>c, <1>k
<1>z. ASSUME After = 0 PROVE ClearsCounted'
  BY <1>0, <1>b, <1>z
<1>l. ASSUME redisConn' = redisConn, ClearTritonUp, After <= Before + 1 PROVE ClearsCounted'
  <2>1. CASE ~redisConn
    BY <1>b, <1>l, <2>1
  <2>2. CASE tritonUp' = FALSE
    BY <1>b, <2>2
  <2>3. CASE redisConn /\ LoseClear
    <3>1. lostUp >= Before => UpTo(LostCap, lostUp) >= After
      BY <1>0, <1>a, <1>l, LostCapAssumption DEF UpTo
    <3>2. lostUp' = UpTo(LostCap, lostUp) /\ tritonUp' = tritonUp
      BY <2>3 DEF LoseClear
    <3> QED
      BY <1>b, <1>c, <2>3, <3>1, <3>2
  <2> QED
    BY <1>l, <2>1, <2>2, <2>3 DEF ClearTritonUp, ApplyUp
<1>1. CASE UNCHANGED vars
  <2>1. After = Before
    BY <1>1 DEF vars, Before, After
  <2> QED
    BY <1>1, <1>a, <1>k, <2>1 DEF vars, redis
<1>2. CASE Boot \/ Crash
  <2>1. After = 0
    BY <1>0, <1>2, UpClearsAt DEF Boot, Crash, After
  <2> QED
    BY <1>z, <2>1
<1>3. CASE RiseUp \/ RiseRelay \/ RiseSend \/ ConnectSucceeds \/ ConnectFails
  <2>1. After = 0
    BY <1>0, <1>3, UpClearsAt
    DEF RiseUp, RiseRelay, RiseSend, ConnectSucceeds, ConnectFails, OpenPCs, After
  <2> QED
    BY <1>z, <2>1
<1>4. CASE ReadUpdate \/ HandleUpdate \/ PingSent \/ StreamErrors
  <2>1. After = 0
    BY <1>0, <1>4, UpClearsAt DEF ReadUpdate, HandleUpdate, PingSent, StreamErrors, OpenPCs, After
  <2> QED
    BY <1>z, <2>1
<1>5. CASE StreamEnds \/ ErrArm \/ OkArm
  <2>1. After = 0
    BY <1>0, <1>5, UpClearsAt DEF StreamEnds, ErrArm, OkArm, CallMark, After
  <2> QED
    BY <1>z, <2>1
<1>6. CASE StartSession
  <2>1. Before = 2
    BY <1>0, <1>6, UpClearsAt DEF StartSession, Before
  <2> QED
    BY <1>6, <1>a, <1>k, <2>1 DEF StartSession, redis
<1>7. CASE Halt \/ Retry \/ SummaryPanics
  <2>1. Before = 1 /\ After = 1
    BY <1>0, <1>7, UpClearsAt DEF Halt, Retry, SummaryPanics, Ended, Before, After
  <2> QED
    BY <1>7, <1>a, <1>k, <2>1 DEF Halt, Retry, SummaryPanics, redis
<1>8. CASE Wait
  <2>1. Before = 1 /\ After = 1
    BY <1>0, <1>8, UpClearsAt DEF Wait, CallMark, Before, After
  <2> QED
    BY <1>8, <1>a, <1>k, <2>1 DEF Wait, redis
<1>9. CASE ResetAtBoot
  <2>1. Before = 0 /\ After = 1
    BY <1>0, <1>9, UpClearsAt DEF ResetAtBoot, CallMark, Before, After
  <2> QED
    BY <1>9, <1>l, <2>1 DEF ResetAtBoot
<1>10. CASE MarkUp
  <2>1. After = Before + 1
    BY <1>0, <1>10, UpClearsAt DEF MarkUp, Before, After
  <2> QED
    BY <1>10, <1>a, <1>l, <2>1 DEF MarkUp
<1>11. CASE MarkRelay
  <2>1. After = Before
    BY <1>0, <1>11, UpClearsAt DEF MarkRelay, Before, After
  <2> QED
    BY <1>11, <1>a, <1>k, <2>1 DEF MarkRelay, redis
<1>12. CASE MarkSend
  <2>1. After = Before
    BY <1>0, <1>12, UpClearsAt DEF MarkSend, ReturnPCs, Before, After
  <2> QED
    BY <1>12, <1>a, <1>k, <2>1 DEF MarkSend, redis
<1> QED
  BY <1>1, <1>2, <1>3, <1>4, <1>5, <1>6, <1>7, <1>8, <1>9, <1>10, <1>11, <1>12
  DEF Next, LoopStep, PeerStep, Mark

LEMMA InductiveInit == Init => IInv
<1>1. Init => CopiesFollowLoop
  BY DEF Init, CopiesFollowLoop, ConnectedHere, RelayUpHere, OpenPCs
<1>2. Init => ClearsCounted
  BY UpClearsAt, TypeInit DEF Init, ClearsCounted, UpClears, PriorMarks, Ended
<1>3. Init => DenialStands
  BY DEF Init, DenialStands, Denied, Ended
<1> QED
  BY <1>1, <1>2, <1>3, TypeInit DEF IInv

LEMMA InductiveNext == IInv /\ [Next]_vars => IInv'
  BY ControlNext, CounterNext, CopiesNext, DenialNext, ClearsNext DEF IInv, TypeOK

THEOREM Inductive == Spec => []IInv
  BY InductiveInit, InductiveNext, PTL DEF Spec

-----------------------------------------------------------------------------
\* Every state of the live loop is well typed: the delay stays between its
\* clamped bounds and the counters within theirs.
THEOREM TypeCorrect == Spec => []TypeOK
<1>1. IInv => TypeOK
  BY DEF IInv
<1> QED
  BY <1>1, Inductive, PTL

-----------------------------------------------------------------------------
\* When the loop sleeps, dials or has ended - by a denial or by the panic of
\* its log line - nothing in the process says "up", and a Redis key that does
\* has outlived one lost clear, two when it dials.
THEOREM StaleKeysAreExplained == Spec => []StaleNeedsLostClears
<1>1. IInv => StaleNeedsLostClears
  <2> SUFFICES ASSUME IInv PROVE StaleNeedsLostClears
    OBVIOUS
  <2> USE DEF IInv, TypeOK, ControlType, CopiesFollowLoop, ConnectedHere, RelayUpHere, OpenPCs, Ended,
          ClearsCounted, UpClears, PriorMarks, StaleNeedsLostClears
  <2>1. CASE pc = "wait"
    BY <2>1
  <2>2. CASE pc \in Ended
    BY <2>2
  <2>3. CASE pc = "connect"
    BY <2>3
  <2> QED
    BY <2>1, <2>2, <2>3
<1> QED
  BY <1>1, Inductive, PTL

\* From a denied error on, nothing is dialled until the process dies, and GET
\* /health reports a denial exactly when one has ended the loop, also where the
\* log line of the denial panics.
THEOREM DeniedLoopsEnd == Spec => DenialIsFinal
<1> DEFINE Final == /\ failure \in Denied => failure' = failure /\ pc' # "connect"
                    /\ Health' = "error/auth-denied" <=> pc' \in Ended /\ failure' \in Denied
<1>1. IInv /\ [Next]_vars => [pc' # "boot" => Final]_vars
  <2> SUFFICES ASSUME IInv, Next, pc' # "boot" PROVE Final
    OBVIOUS
  <2>1. ControlType /\ DenialStands /\ DenialStands'
    BY InductiveNext DEF IInv, TypeOK
  <2>2. ASSUME failure \in Denied PROVE failure' = failure /\ pc' # "connect"
    <3>1. pc \in {"errArm", "classify"} \union Ended \union MarkPCs
      BY <2>1, <2>2 DEF DenialStands
    <3>2. pc \in MarkPCs => after = "classify"
      BY <2>1, <2>2 DEF DenialStands, MarkPCs, Ended
    <3>3. MarkUp \/ MarkRelay \/ MarkSend \/ ErrArm \/ Halt \/ Retry \/ SummaryPanics
      BY <3>1 DEF MarkPCs, Ended, Next, LoopStep, PeerStep, Mark, Crash, Boot, ResetAtBoot, StartSession,
         RiseUp, RiseRelay, RiseSend, HandleUpdate, OkArm, Wait, ConnectFails, ConnectSucceeds,
         ReadUpdate, PingSent, StreamErrors, StreamEnds
    <3> QED
      BY <3>2, <3>3 DEF MarkUp, MarkRelay, MarkSend, MarkPCs, ErrArm, CallMark, Halt, Retry, SummaryPanics, session
  <2>3. Health' = "error/auth-denied" <=> pc' \in Ended /\ failure' \in Denied
    BY <2>1 DEF DenialStands, Health
  <2> QED
    BY <2>2, <2>3
<1> QED
  BY <1>1, Inductive, PTL DEF Spec, DenialIsFinal

-----------------------------------------------------------------------------
\* Every step of the live loop is one of the relay's publisher, or none: the
\* safety half of ImplementsFeedSignal.
LEMMA FeedStep == IInv /\ [Next]_vars => [Feed!FNext]_(Feed!fvars)
<1> SUFFICES ASSUME IInv, [Next]_vars PROVE [Feed!FNext]_(Feed!fvars)
  OBVIOUS
<1> USE DEF relay, Feed!fvars, Feed!FNext
<1>t. ControlType /\ CopiesFollowLoop
  BY DEF IInv, TypeOK
<1>1. CASE UNCHANGED vars
  BY <1>1 DEF vars
<1>2. CASE MarkRelay
  <2>1. signal = (IF relayUp THEN "up" ELSE "down")
    BY <1>t, <1>2 DEF MarkRelay, ControlType, CopiesFollowLoop
  <2> QED
    BY <1>2, <2>1 DEF MarkRelay, Feed!Lower, Feed!Settled, Feed!StatusOf
<1>3. CASE MarkSend
  <2>1. ~relayUp
    BY <1>t, <1>3 DEF MarkSend, ControlType, CopiesFollowLoop, RelayUpHere, OpenPCs
  <2> QED
    BY <1>3, <2>1 DEF MarkSend, Feed!SendStatus, Feed!StatusOf
<1>4. CASE RiseRelay
  <2>1. ~relayUp /\ signal = "down"
    BY <1>t, <1>4 DEF RiseRelay, ControlType, CopiesFollowLoop, RelayUpHere, OpenPCs
  <2> QED
    BY <1>4, <2>1 DEF RiseRelay, Feed!Raise, Feed!Settled, Feed!StatusOf
<1>5. CASE RiseSend
  <2>1. relayUp = TRUE
    BY <1>t, <1>5 DEF RiseSend, ControlType, CopiesFollowLoop, OpenPCs
  <2> QED
    BY <1>5, <2>1 DEF RiseSend, Feed!SendStatus, Feed!StatusOf
<1>6. CASE ReadUpdate
  <2>1. relayUp /\ signal = "up"
    BY <1>t, <1>6 DEF ReadUpdate, ControlType, CopiesFollowLoop, OpenPCs
  <2> QED
    BY <1>6, <2>1 DEF ReadUpdate, Feed!SendFrame, Feed!Settled, Feed!StatusOf
<1>7. CASE Crash
  BY <1>7 DEF Crash, Feed!Restart
<1>8. CASE Boot \/ ResetAtBoot \/ MarkUp
  BY <1>8 DEF Boot, ResetAtBoot, MarkUp
<1>9. CASE StartSession \/ ConnectFails \/ ConnectSucceeds \/ RiseUp
  BY <1>9 DEF StartSession, ConnectFails, ConnectSucceeds, RiseUp
<1>10. CASE HandleUpdate \/ PingSent \/ StreamErrors \/ StreamEnds
  BY <1>10 DEF HandleUpdate, PingSent, StreamErrors, StreamEnds
<1>11. CASE OkArm \/ ErrArm \/ Halt \/ Retry \/ SummaryPanics \/ Wait
  BY <1>11 DEF OkArm, ErrArm, Halt, Retry, SummaryPanics, Wait
<1> QED
  BY <1>1, <1>2, <1>3, <1>4, <1>5, <1>6, <1>7, <1>8, <1>9, <1>10, <1>11
  DEF Next, LoopStep, PeerStep, Mark

THEOREM RefinesFeedSignal == Spec => Feed!FSafe
<1>1. Spec => Feed!FInit
  BY DEF Spec, Init, Feed!FInit
<1> QED
  BY <1>1, Inductive, FeedStep, PTL DEF Spec, Feed!FSafe
-----------------------------------------------------------------------------
(* The loop's own steps run out.                                            *)

LEMMA StepsLeftBounded == pc \in PCs /\ after \in ReturnPCs => StepsLeft \in 0..12
  BY DEF StepsLeft, FromReturn, PCs, ReturnPCs, MarkPCs, OpenPCs, Ended

\* Whatever a session ends with and whatever Redis loses: within 12 steps that
\* need nobody else the loop waits for the peer again or has ended, unless the
\* process dies.
THEOREM OwnStepsAreFew == Spec => OwnStepsRunOut
<1>1. pc \in PCs /\ after \in ReturnPCs /\ LoopStep => StepsLeft' < StepsLeft
  <2> SUFFICES ASSUME pc \in PCs, after \in ReturnPCs, LoopStep PROVE StepsLeft' < StepsLeft
    OBVIOUS
  <2> USE DEF StepsLeft, FromReturn, ReturnPCs, Ended
  <2>1. CASE Boot \/ ResetAtBoot
    BY <2>1 DEF Boot, ResetAtBoot, CallMark
  <2>2. CASE MarkUp \/ MarkRelay
    BY <2>2 DEF MarkUp, MarkRelay
  <2>3. CASE MarkSend
    BY <2>3 DEF MarkSend
  <2>4. CASE StartSession \/ RiseUp \/ RiseRelay \/ RiseSend \/ HandleUpdate
    BY <2>4 DEF StartSession, RiseUp, RiseRelay, RiseSend, HandleUpdate
  <2>5. CASE OkArm \/ ErrArm \/ Halt \/ Retry \/ SummaryPanics \/ Wait
    BY <2>5 DEF OkArm, ErrArm, Halt, Retry, SummaryPanics, Wait, CallMark
  <2> QED
    BY <2>1, <2>2, <2>3, <2>4, <2>5 DEF LoopStep, Mark
<1>2. TypeOK /\ [Next]_vars =>
        [/\ StepsLeft \in 0..12
         /\ LoopStep => StepsLeft' < StepsLeft]_vars
  BY <1>1, StepsLeftBounded DEF TypeOK, ControlType
<1> QED
  BY <1>2, TypeCorrect, PTL DEF Spec, OwnStepsRunOut

-----------------------------------------------------------------------------
(* The loop and its relay together (TritonFeed): every step of the whole is *)
(* a step of the loop or none, and a step of the relay or none.  So what is *)
(* proved of either holds of the whole, and says more when put together.    *)

RelayProofs == INSTANCE TritonLocalRelay_proofs WITH flag <- relayUp, last <- signal, session <- upstreamSession

LEMMA WholeIsLoop == TritonSpec => Spec
<1>1. TritonInit => Init
  BY DEF TritonInit
<1>2. [TritonNext]_feedVars => [Next]_vars
  <2>1. ASSUME NEW c \in Clients, ClientStep(c) PROVE UNCHANGED vars
    <3>1. UNCHANGED relay
      BY <2>1 DEF ClientStep, relay, Relay!CheckFlag, Relay!Serve, Relay!Leave, Relay!Join, Relay!Receive,
                  Relay!ReceiveLagged, Relay!fvars
    <3> QED
      BY <2>1, <3>1 DEF ClientStep, loopOnly, vars
  <2>2. SendsStatus \/ SendsUpdate \/ EndsSession \/ SendsNothing \/ Dies => Next
    BY DEF SendsStatus, SendsUpdate, EndsSession, SendsNothing, Dies, Next, LoopStep, PeerStep, Mark
  <2>3. UNCHANGED feedVars => UNCHANGED vars
    BY DEF feedVars
  <2> QED
    BY <2>1, <2>2, <2>3 DEF TritonNext
<1> QED
  BY <1>1, <1>2, PTL DEF TritonSpec, Spec

LEMMA SendIsRelays ==
  ASSUME IInv, SendsStatus \/ SendsUpdate
  PROVE  Relay!PublishStatus \/ Relay!PublishUpdate
<1>1. ControlType /\ CopiesFollowLoop
  BY DEF IInv, TypeOK
<1>2. CASE SendsUpdate
  <2>1. ReadUpdate /\ Relay!Broadcast("update")
    BY <1>2 DEF SendsUpdate
  <2>2. relayUp /\ signal = "up"
    BY <1>1, <2>1 DEF ReadUpdate, ControlType, CopiesFollowLoop, OpenPCs
  <2>3. Relay!SendFrame
    BY <2>1, <2>2 DEF ReadUpdate, Relay!SendFrame, Relay!Settled, Relay!StatusOf
  <2> QED
    BY <2>1, <2>3 DEF Relay!PublishUpdate
<1>3. CASE SendsStatus
  <2>1. (RiseSend \/ MarkSend) /\ Relay!Broadcast(signal')
    BY <1>3 DEF SendsStatus
  <2>2. CASE RiseSend
    <3>1. relayUp = TRUE
      BY <1>1, <2>2 DEF RiseSend, ControlType, CopiesFollowLoop, OpenPCs
    <3> QED
      BY <2>1, <2>2, <3>1 DEF RiseSend, Relay!PublishStatus, Relay!SendStatus, Relay!StatusOf
  <2>3. CASE MarkSend
    <3>1. ~relayUp
      BY <1>1, <2>3 DEF MarkSend, ControlType, CopiesFollowLoop, RelayUpHere, OpenPCs
    <3> QED
      BY <2>1, <2>3, <3>1 DEF MarkSend, Relay!PublishStatus, Relay!SendStatus, Relay!StatusOf
  <2> QED
    BY <2>1, <2>2, <2>3
<1> QED
  BY <1>2, <1>3

\* The store of a "down" is the relay's, and counts the session it ends.
LEMMA EndIsRelays == ASSUME IInv, EndsSession PROVE Relay!StoreDown
<1>1. ControlType /\ CopiesFollowLoop /\ MarkRelay
  BY DEF IInv, TypeOK, EndsSession
<1>2. signal = (IF relayUp THEN "up" ELSE "down")
  BY <1>1 DEF MarkRelay, ControlType, CopiesFollowLoop
<1>3. Relay!Lower
  BY <1>1, <1>2 DEF MarkRelay, Relay!Lower, Relay!Settled, Relay!StatusOf
<1> QED
  BY <1>3 DEF EndsSession, clients, Relay!StoreDown, Relay!clientVars

\* A step with which the loop sends nothing stores an "up" or leaves the relay alone.
LEMMA SilenceIsRelays ==
  ASSUME IInv, SendsNothing
  PROVE  Relay!StoreUp \/ UNCHANGED <<relay, upstreamSession, clients>>
<1>1. ControlType /\ CopiesFollowLoop
  BY DEF IInv, TypeOK
<1>2. CASE RiseRelay
  <2>1. ~relayUp /\ signal = "down"
    BY <1>1, <1>2 DEF RiseRelay, ControlType, CopiesFollowLoop, RelayUpHere, OpenPCs
  <2>2. Relay!Raise
    BY <1>2, <2>1 DEF RiseRelay, Relay!Raise, Relay!Settled, Relay!StatusOf
  <2> QED
    BY <2>2 DEF SendsNothing, clients, Relay!StoreUp, Relay!clientVars
<1>3. CASE ~RiseRelay
  <2>1. UNCHANGED relay
    <3>1. CASE Boot \/ ResetAtBoot \/ MarkUp
      BY <3>1 DEF relay, Boot, ResetAtBoot, MarkUp
    <3>2. CASE StartSession \/ ConnectFails \/ ConnectSucceeds \/ RiseUp
      BY <3>2 DEF relay, StartSession, ConnectFails, ConnectSucceeds, RiseUp
    <3>3. CASE HandleUpdate \/ PingSent \/ StreamErrors \/ StreamEnds
      BY <3>3 DEF relay, HandleUpdate, PingSent, StreamErrors, StreamEnds
    <3>4. CASE OkArm \/ ErrArm \/ Halt \/ Retry \/ SummaryPanics \/ Wait
      BY <3>4 DEF relay, OkArm, ErrArm, Halt, Retry, SummaryPanics, Wait
    <3>5. ~RiseSend /\ ~MarkRelay /\ ~MarkSend /\ ~ReadUpdate
      BY DEF SendsNothing, RiseSend, MarkRelay, MarkSend
    <3> QED
      BY <1>3, <3>1, <3>2, <3>3, <3>4, <3>5 DEF SendsNothing, LoopStep, PeerStep, Mark
  <2> QED
    BY <2>1 DEF SendsNothing
<1> QED
  BY <1>2, <1>3

LEMMA StepIsRelays == IInv /\ [TritonNext]_feedVars => [Relay!Next]_(Relay!vars)
<1> SUFFICES ASSUME IInv, [TritonNext]_feedVars PROVE [Relay!Next]_(Relay!vars)
  OBVIOUS
<1>1. UNCHANGED <<relay, upstreamSession, clients>> => UNCHANGED Relay!vars
  BY DEF relay, clients, Relay!vars, Relay!fvars, Relay!clientVars
<1>2. CASE SendsStatus \/ SendsUpdate
  BY <1>2, SendIsRelays DEF Relay!Next
<1>3. CASE EndsSession
  BY <1>3, EndIsRelays DEF Relay!Next
<1>4. CASE SendsNothing
  BY <1>1, <1>4, SilenceIsRelays DEF Relay!Next
<1>5. CASE Dies
  BY <1>5 DEF Dies, Relay!Next
<1>6. ASSUME NEW c \in Clients, ClientStep(c) PROVE Relay!Next
  BY <1>6 DEF ClientStep, Relay!Next
<1>7. CASE UNCHANGED feedVars
  BY <1>1, <1>7 DEF feedVars, vars
<1> QED
  BY <1>2, <1>3, <1>4, <1>5, <1>6, <1>7 DEF TritonNext

\* Behind the Triton loop the relay does only what TritonLocalRelay lets it do:
\* the publisher it is checked against is at least as free as run_live_loop.
THEOREM LoopDrivesRelay == TritonSpec => Relay!Spec
<1>1. TritonInit => Relay!Init
  BY DEF TritonInit
<1> QED
  BY <1>1, WholeIsLoop, Inductive, StepIsRelays, PTL DEF TritonSpec, Relay!Spec

LEMMA RelayEnds ==
  ASSUME Capacity \in Nat \ {0}
  PROVE  TritonSpec => []RelayProofs!OpenNeedsMissedDown
<1>1. Relay!Init => RelayProofs!Init
  BY DEF Relay!Init, RelayProofs!Init, Relay!FInit, RelayProofs!FInit
<1>2. UNCHANGED Relay!vars => UNCHANGED RelayProofs!vars
  BY DEF Relay!vars, RelayProofs!vars, Relay!fvars, Relay!clientVars, RelayProofs!fvars, RelayProofs!clientVars
<1>3. Relay!Next => RelayProofs!Next
  BY DEF Relay!Next, RelayProofs!Next,
     Relay!StoreUp, RelayProofs!StoreUp,
     Relay!StoreDown, RelayProofs!StoreDown,
     Relay!PublishStatus, RelayProofs!PublishStatus,
     Relay!PublishUpdate, RelayProofs!PublishUpdate,
     Relay!Die, RelayProofs!Die,
     Relay!CheckFlag, RelayProofs!CheckFlag,
     Relay!Serve, RelayProofs!Serve,
     Relay!Leave, RelayProofs!Leave,
     Relay!Join, RelayProofs!Join,
     Relay!Receive, RelayProofs!Receive,
     Relay!ReceiveLagged, RelayProofs!ReceiveLagged,
     Relay!Closed, RelayProofs!Closed,
     Relay!Streaming, RelayProofs!Streaming,
     Relay!Full, RelayProofs!Full,
     Relay!Broadcast, RelayProofs!Broadcast,
     Relay!Push, RelayProofs!Push,
     Relay!Raise, RelayProofs!Raise,
     Relay!Lower, RelayProofs!Lower,
     Relay!SendStatus, RelayProofs!SendStatus,
     Relay!SendFrame, RelayProofs!SendFrame,
     Relay!Restart, RelayProofs!Restart,
     Relay!Settled, RelayProofs!Settled,
     Relay!StatusOf, RelayProofs!StatusOf,
     Relay!Statuses, RelayProofs!Statuses,
     Relay!fvars, RelayProofs!fvars,
     Relay!clientVars, RelayProofs!clientVars
<1>4. [Relay!Next]_(Relay!vars) => [RelayProofs!Next]_(RelayProofs!vars)
  BY <1>2, <1>3
<1>5. RelayProofs!Spec => []RelayProofs!OpenNeedsMissedDown
  BY RelayProofs!OpenMissedItsEnd
<1> QED
  BY <1>1, <1>4, <1>5, LoopDrivesRelay, PTL DEF Relay!Spec, RelayProofs!Spec

\* When GET /health does not say "live/grpc", the copy the streams are ended by
\* says the same.
LEMMA HealthFollows ==
  ASSUME IInv, RelayProofs!OpenNeedsMissedDown
  PROVE  StreamsMatchHealth
<1> SUFFICES ASSUME pc \notin Changing, Health # "live/grpc",
                    NEW c \in Clients, Relay!Streaming(c), pending[c] = <<>>
             PROVE  late[c] \/ lost[c]
  BY DEF StreamsMatchHealth
<1>1. ControlType /\ CopiesFollowLoop /\ DenialStands
  BY DEF IInv, TypeOK
<1>2. ~connected
  BY <1>1 DEF Health, ControlType, CopiesFollowLoop, DenialStands, Ended, ConnectedHere, OpenPCs
<1>3. ~relayUp
  BY <1>1, <1>2 DEF ControlType, CopiesFollowLoop, Changing, RelayUpHere, MarkPCs, OpenPCs
<1>4. RelayProofs!Settled
  BY <1>1 DEF ControlType, CopiesFollowLoop, Changing, MarkPCs, RelayProofs!Settled, RelayProofs!StatusOf
<1>5. RelayProofs!Streaming(c)
  BY DEF Relay!Streaming, RelayProofs!Streaming
<1> QED
  BY <1>3, <1>4, <1>5 DEF RelayProofs!OpenNeedsMissedDown

\* For any clients and capacity: while GET /health says that the Triton upstream
\* is not connected - it is dialled again, or a denial or a panic has ended
\* run_live_loop for good - and mark_triton_disconnected is through, a stream
\* still open with nothing to come missed the "down" that ends it.
THEOREM StreamsAgreeWithHealth ==
  ASSUME Capacity \in Nat \ {0}
  PROVE  TritonSpec => []StreamsMatchHealth
  BY WholeIsLoop, Inductive, RelayEnds, HealthFollows, PTL
=============================================================================
