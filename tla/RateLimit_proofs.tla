------------------------- MODULE RateLimit_proofs -------------------------
(***************************************************************************)
(* Proofs about RateLimit, for every configured rate and every ladder: a   *)
(* provider is never asked more than its rate in a second, and a sweep     *)
(* gets the tokens the bucket owes it.                                     *)
(***************************************************************************)
EXTENDS RateLimit, TLAPS

\* The burst is at least one, also for a configured rate of zero.
LEMMA BurstType == Burst \in Nat /\ Burst >= 1
BY RpsAssumption DEF Burst

\* It never changes.
LEMMA BurstStays == Burst' = Burst
BY DEF Burst

\* A sweep has at least one request.
LEMMA SweepType == Sweep \in Nat /\ Sweep >= 1
BY HuntRungsAssumption DEF Sweep

\* The size of a sweep depends on the provider only, which never changes.
LEMMA SweepStays == ASSUME [Next]_vars PROVE Sweep' = Sweep
BY DEF Next, vars, loop, Tick, Poll, WaitOver, Connected, StartSweep, Request, Opened, Pong, Ended, Sweep

\* Taking a token, or failing to, keeps the bucket in its bounds and the
\* grants accounted for.
LEMMA AcquireKeeps ==
    ASSUME TypeOK, GrantsAreSpent, Acquire
    PROVE  /\ tokens' \in 0..Burst /\ tokens' = IF tokens > 0 THEN tokens - 1 ELSE tokens
           /\ thisSecond' \in 0..Burst /\ lastSecond' \in 0..Burst
           /\ GrantsAreSpent'
<1> USE BurstType, BurstStays DEF TypeOK, GrantsAreSpent, bucket
<1>1. CASE tokens > 0 BY <1>1 DEF Acquire, Acquired
<1>2. CASE ~(tokens > 0) BY <1>2 DEF Acquire, Acquired
<1> QED BY <1>1, <1>2

LEMMA InitInv == Init => IInv
<1> SUFFICES ASSUME Init PROVE IInv OBVIOUS
<1> USE BurstType, BurstStays, SweepType DEF Init
<1>1. TypeOK BY DEF TypeOK, QuietCap, PollPeriod
<1>2. GrantsAreSpent BY DEF GrantsAreSpent
<1>3. Accrued BY DEF Accrued, Enough
<1>4. WaitIsQuiet BY DEF WaitIsQuiet
<1>5. ShareIsKept BY DEF ShareIsKept
<1> QED BY <1>1, <1>2, <1>3, <1>4, <1>5 DEF IInv

\* At the start of a sweep the bucket holds what the sweep may count on.
LEMMA StartKeeps ==
    ASSUME IInv, StartSweep, Sweep' = Sweep, quiet >= 5 \/ quiet = QuietCap
    PROVE  IInv'
<1> USE BurstType, BurstStays, SweepType DEF StartSweep, bucket
<1>1. TypeOK' BY DEF IInv, TypeOK, QuietCap, PollPeriod, AtMost
<1>2. GrantsAreSpent' BY DEF IInv, GrantsAreSpent, TypeOK
<1>3. Accrued' BY DEF IInv, Accrued, Enough
<1>4. WaitIsQuiet' BY DEF WaitIsQuiet
<1>5. ShareIsKept'
  <2>1. goal' \in Nat /\ goal' <= Burst - 1 /\ goal' <= Sweep
    BY DEF AtMost
  <2>2. Enough(goal')
    <3>1. CASE Enough(Burst - 1) BY <3>1, <2>1 DEF Enough, IInv, TypeOK
    <3>2. CASE PollPeriod * quiet <= PollPeriod * tokens + quiet + pollIn
      <4>1. CASE quiet >= QuietCap
        <5>1. goal' <= Sweep BY <2>1
        <5>2. quiet = 2 * Sweep BY <4>1 DEF QuietCap, IInv, TypeOK
        <5>3. 10 * quiet <= 10 * tokens + quiet + pollIn BY <3>2 DEF PollPeriod
        <5> QED BY <2>1, <5>1, <5>2, <5>3 DEF Enough, IInv, TypeOK, PollPeriod
      <4>2. CASE ~(quiet >= QuietCap)
        <5>1. goal' <= 4 BY <4>2 DEF AtMost
        <5>2. quiet >= 5 BY <4>2 DEF IInv, TypeOK, QuietCap
        <5>3. 10 * quiet <= 10 * tokens + quiet + pollIn BY <3>2 DEF PollPeriod
        <5> QED BY <2>1, <5>1, <5>2, <5>3 DEF Enough, IInv, TypeOK, PollPeriod
      <4> QED BY <4>1, <4>2
    <3> QED BY <3>1, <3>2 DEF IInv, Accrued
  <2> QED BY <2>1, <2>2 DEF ShareIsKept, Enough
<1> QED BY <1>1, <1>2, <1>3, <1>4, <1>5 DEF IInv

LEMMA TickKeeps == ASSUME IInv, Tick, Sweep' = Sweep PROVE IInv'
<1> USE BurstType, BurstStays, SweepType DEF Tick, sweep, Refill, AtMost
<1>1. TypeOK' BY DEF IInv, TypeOK, GrantsAreSpent, QuietCap, PollPeriod
<1>2. GrantsAreSpent' BY DEF IInv, GrantsAreSpent, TypeOK
<1>3. Accrued'
  <2>1. CASE tokens = Burst BY <2>1 DEF Accrued, Enough, IInv, TypeOK
  <2>2. CASE tokens < Burst BY <2>2 DEF Accrued, Enough, IInv, TypeOK, PollPeriod, QuietCap
  <2> QED BY <2>1, <2>2 DEF IInv, TypeOK
<1>4. WaitIsQuiet' BY DEF WaitIsQuiet, IInv, TypeOK, QuietCap
<1>5. ShareIsKept' BY DEF ShareIsKept, Enough, IInv, TypeOK
<1> QED BY <1>1, <1>2, <1>3, <1>4, <1>5 DEF IInv

LEMMA PollKeeps == ASSUME IInv, Poll, Sweep' = Sweep PROVE IInv'
<1> USE BurstType, BurstStays, SweepType DEF Poll, sweep, loop
<1>a. /\ tokens' \in 0..Burst /\ tokens' = IF tokens > 0 THEN tokens - 1 ELSE tokens
      /\ thisSecond' \in 0..Burst /\ lastSecond' \in 0..Burst
      /\ GrantsAreSpent'
  BY AcquireKeeps DEF IInv
<1>1. TypeOK' BY <1>a DEF IInv, TypeOK, QuietCap, PollPeriod
<1>3. Accrued' BY <1>a DEF Accrued, Enough, IInv, TypeOK, PollPeriod
<1>4. WaitIsQuiet' BY DEF WaitIsQuiet, IInv, TypeOK, QuietCap
<1>5. ShareIsKept' BY <1>a DEF ShareIsKept, Enough, IInv, TypeOK, PollPeriod
<1> QED BY <1>a, <1>1, <1>3, <1>4, <1>5 DEF IInv

LEMMA RequestKeeps == ASSUME IInv, Request, Sweep' = Sweep PROVE IInv'
<1> USE BurstType, BurstStays, SweepType DEF Request, loop
<1>a. /\ tokens' \in 0..Burst /\ tokens' = IF tokens > 0 THEN tokens - 1 ELSE tokens
      /\ thisSecond' \in 0..Burst /\ lastSecond' \in 0..Burst
      /\ GrantsAreSpent'
  BY AcquireKeeps DEF IInv
<1>1. TypeOK' BY <1>a DEF IInv, TypeOK, QuietCap, PollPeriod, Acquired
<1>3. Accrued' BY <1>a DEF Accrued, IInv, TypeOK, PollPeriod
<1>4. WaitIsQuiet' BY DEF WaitIsQuiet
<1>5. ShareIsKept'
  <2>1. CASE tokens > 0 BY <1>a, <2>1 DEF ShareIsKept, Enough, IInv, TypeOK, Acquired
  <2>2. CASE tokens = 0 BY <1>a, <2>2 DEF ShareIsKept, Enough, IInv, TypeOK, Acquired
  <2> QED BY <2>1, <2>2 DEF IInv, TypeOK
<1> QED BY <1>a, <1>1, <1>3, <1>4, <1>5 DEF IInv

LEMMA PongKeeps == ASSUME IInv, Pong, Sweep' = Sweep PROVE IInv'
<1> USE BurstType, BurstStays, SweepType DEF Pong, loop, sweep
<1>a. /\ tokens' \in 0..Burst /\ tokens' = IF tokens > 0 THEN tokens - 1 ELSE tokens
      /\ thisSecond' \in 0..Burst /\ lastSecond' \in 0..Burst
      /\ GrantsAreSpent'
  BY AcquireKeeps DEF IInv
<1>1. TypeOK' BY <1>a DEF IInv, TypeOK, QuietCap, PollPeriod
<1>3. Accrued' BY <1>a DEF Accrued, IInv, TypeOK, PollPeriod
<1>4. WaitIsQuiet' BY DEF WaitIsQuiet
<1>5. ShareIsKept' BY DEF ShareIsKept, IInv, TypeOK
<1> QED BY <1>a, <1>1, <1>3, <1>4, <1>5 DEF IInv

\* The steps of the loop that ask for nothing.
LEMMA LoopKeeps ==
    ASSUME IInv, Sweep' = Sweep,
           Opened \/ Ended \/ (WaitOver /\ upstream = "titan") \/ UNCHANGED vars
    PROVE  IInv'
<1> USE BurstType, BurstStays, SweepType DEF sweep, bucket, loop, vars
<1>a. UNCHANGED <<upstream, asked, granted, goal, tokens, thisSecond, lastSecond, pollIn, quiet>>
  BY DEF Opened, Ended, WaitOver, StartSweep
<1>1. TypeOK'
  BY <1>a DEF IInv, TypeOK, QuietCap, PollPeriod, Opened, Ended, WaitOver, StartSweep, Delays
<1>2. GrantsAreSpent' BY <1>a DEF IInv, GrantsAreSpent
<1>3. Accrued' BY <1>a DEF IInv, Accrued, Enough, PollPeriod
<1>4. WaitIsQuiet'
  BY <1>a DEF WaitIsQuiet, IInv, TypeOK, QuietCap, Opened, Ended, WaitOver, StartSweep, Delays
<1>5. ShareIsKept'
  BY <1>a DEF ShareIsKept, Enough, IInv, TypeOK, Opened, Ended, WaitOver, StartSweep
<1> QED BY <1>1, <1>2, <1>3, <1>4, <1>5 DEF IInv

LEMMA NextInv == IInv /\ [Next]_vars => IInv'
<1> SUFFICES ASSUME IInv, [Next]_vars PROVE IInv' OBVIOUS
<1>0. Sweep' = Sweep BY SweepStays
<1>1. CASE Tick BY <1>0, <1>1, TickKeeps
<1>2. CASE Poll BY <1>0, <1>2, PollKeeps
<1>3. CASE WaitOver
  <2>1. CASE upstream = "titan" BY <1>0, <1>3, <2>1, LoopKeeps
  <2>2. CASE upstream = "triton"
    <3>1. StartSweep BY <1>3, <2>2 DEF WaitOver
    <3>2. quiet >= 5 \/ quiet = QuietCap
      BY <1>3, SweepType DEF WaitOver, IInv, WaitIsQuiet, TypeOK, QuietCap
    <3> QED BY <1>0, <3>1, <3>2, StartKeeps
  <2> QED BY <2>1, <2>2 DEF IInv, TypeOK
<1>4. CASE Connected BY <1>0, <1>4, StartKeeps DEF Connected, IInv, WaitIsQuiet
<1>5. CASE Request BY <1>0, <1>5, RequestKeeps
<1>6. CASE Opened BY <1>0, <1>6, LoopKeeps
<1>7. CASE Pong BY <1>0, <1>7, PongKeeps
<1>8. CASE Ended BY <1>0, <1>8, LoopKeeps
<1>9. CASE UNCHANGED vars BY <1>0, <1>9, LoopKeeps
<1> QED BY <1>1, <1>2, <1>3, <1>4, <1>5, <1>6, <1>7, <1>8, <1>9 DEF Next

\* The invariant holds in every state of the bucket and its takers.
THEOREM InvHolds == Spec => []IInv
BY InitInv, NextInv, PTL DEF Spec

\* The types, and with them the bounds of the bucket of rate_limit.rs.
THEOREM TypeCorrect == Spec => []TypeOK
<1>1. IInv => TypeOK BY DEF IInv
<1> QED BY <1>1, InvHolds, PTL

\* The bucket of rate_limit.rs grants at most rps requests and one more in any
\* second, whatever its takers do.
THEOREM RateIsKept == Spec => []NeverOverRate
<1>1. IInv => NeverOverRate
  BY BurstType DEF IInv, GrantsAreSpent, NeverOverRate, TypeOK
<1> QED BY <1>1, InvHolds, PTL

\* The hunt ladder of titan.rs and the subscribe of triton.rs get their tokens
\* for every rate and every length of the ladder.
THEOREM ShareIsGranted == Spec => []SweepGetsItsShare
<1>1. IInv => SweepGetsItsShare
  BY SweepType, BurstType DEF IInv, ShareIsKept, SweepGetsItsShare, TypeOK
<1> QED BY <1>1, InvHolds, PTL
=============================================================================
