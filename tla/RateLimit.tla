---------------------------- MODULE RateLimit ----------------------------
(***************************************************************************)
(* The token bucket of src/src/rate_limit.rs under everyone who takes      *)
(* tokens from it.  Each provider has a bucket of its own; a behaviour     *)
(* follows one of them.                                                    *)
(*                                                                         *)
(* Titan:  every session sends GetInfo and one subscription per rung of    *)
(*         the hunt ladder, each only with a token (a sweep).              *)
(* Triton: every session takes one token before it connects, and fails     *)
(*         without; while open, every Pong takes one more.                 *)
(* Both:   poll_stub takes one every ten seconds.                          *)
(*                                                                         *)
(* Between two sessions the live loop waits for its backoff.  A tick is    *)
(* one second, the period of the bucket whatever its burst is; timers fire *)
(* on time, sends, connects and sessions take any number of ticks.         *)
(***************************************************************************)
EXTENDS Naturals

CONSTANTS
    Rps,        \* TITAN_RATE_LIMIT_RPS or TRITON_RATE_LIMIT_RPS
    HuntRungs   \* length of the hunt ladder

ASSUME RpsAssumption == Rps \in Nat
ASSUME HuntRungsAssumption == HuntRungs \in Nat \ {0}

VARIABLES
    upstream,    \* whose bucket it is
    phase,       \* of the live loop
    timer,       \* what is left of backoff.wait()
    asked,       \* requests of this sweep, and
    granted,     \* those of them that got a token
    tokens,      \* the bucket
    pollIn,      \* ticks to the next poll_stub
    \* history:
    quiet,       \* ticks since the live loop last asked, up to QuietCap
    goal,        \* tokens this sweep may count on
    thisSecond,  \* tokens granted to anyone since the last tick, and
    lastSecond   \* between the two ticks before

loop == <<upstream, phase, timer>>
sweep == <<asked, granted, goal>>
bucket == <<tokens, thisSecond, lastSecond>>
vars == <<loop, sweep, bucket, pollIn, quiet>>

\* UpstreamRateLimiter::new: a limit of zero is taken as one.
Burst == IF Rps = 0 THEN 1 ELSE Rps

\* Mutant: the hub polls every second, as the heartbeat beats.
PollPeriod_Second == 1
PollPeriod == 10

\* ReconnectBackoff of both loops: 5 s doubled up to 30 s.
Delays == {5, 10, 20, 30}

\* What a session asks for when it starts.
Sweep == IF upstream = "titan" THEN HuntRungs + 1 ELSE 1
QuietCap == 2 * Sweep

AtMost(bound, n) == IF n < bound THEN n ELSE bound

-----------------------------------------------------------------------------
\* Mutants: the bucket is filled at the configured rate; it has no brim.
Refill_AtRate == Burst
Refill_NoBrim == tokens + 1

\* Quota::with_period(1 s).allow_burst(rps)
Refill == AtMost(Burst, tokens + 1)

\* try_acquire: never waits.
Acquired == tokens > 0
Acquire ==
    IF Acquired
    THEN tokens' = tokens - 1 /\ thisSecond' = thisSecond + 1 /\ UNCHANGED lastSecond
    ELSE UNCHANGED bucket

Tick ==
    /\ pollIn > 0 /\ pollIn' = pollIn - 1
    /\ tokens' = Refill
    /\ lastSecond' = thisSecond /\ thisSecond' = 0
    /\ timer' = IF timer > 0 THEN timer - 1 ELSE 0
    /\ quiet' = AtMost(QuietCap, quiet + 1)
    /\ UNCHANGED <<upstream, phase, sweep>>

\* poll_stub of a live upstream: a token, if there is one, for a trace line.
Poll ==
    /\ pollIn = 0 /\ pollIn' = PollPeriod
    /\ Acquire
    /\ UNCHANGED <<loop, sweep, quiet>>

-----------------------------------------------------------------------------
(* The live loop *)

\* The head of run_session.  What the bucket owes the sweep: all of it after
\* a pause of two ticks per request, four tokens after any wait, never the
\* last token of a full bucket.
StartSweep ==
    /\ phase' = "sweep"
    /\ asked' = 0 /\ granted' = 0
    /\ goal' = AtMost(Burst - 1, IF quiet >= QuietCap THEN Sweep ELSE AtMost(4, Sweep))
    /\ UNCHANGED <<upstream, timer, bucket, pollIn, quiet>>

\* Triton asks before it connects.
WaitOver ==
    /\ phase = "wait" /\ timer = 0
    /\ \/ upstream = "titan" /\ phase' = "dial"
          /\ UNCHANGED <<upstream, timer, sweep, bucket, pollIn, quiet>>
       \/ upstream = "triton" /\ StartSweep

\* Titan asks once connect_async is through.
Connected == phase = "dial" /\ StartSweep

\* GetInfo and each rung (Titan), the subscribe (Triton): skipped or refused
\* without a token.
Request ==
    /\ phase = "sweep" /\ asked < Sweep
    /\ asked' = asked + 1
    /\ granted' = IF Acquired THEN granted + 1 ELSE granted
    /\ Acquire
    /\ quiet' = 0
    /\ UNCHANGED <<loop, goal, pollIn>>

Opened ==
    /\ phase = "sweep" /\ asked = Sweep
    /\ upstream = "triton" => granted = 1
    /\ phase' = "open"
    /\ UNCHANGED <<upstream, timer, sweep, bucket, pollIn, quiet>>

\* A Ping of the Triton stream is answered if there is a token.
Pong ==
    /\ phase = "open" /\ upstream = "triton"
    /\ Acquire
    /\ quiet' = 0
    /\ UNCHANGED <<loop, sweep, pollIn>>

\* However the session ends - a failed dial or send, a refused token, an
\* error or a close - the loop waits for its backoff.
Ended ==
    /\ phase \in {"dial", "sweep", "open"} /\ phase' = "wait"
    /\ timer' \in Delays
    /\ UNCHANGED <<upstream, sweep, bucket, pollIn, quiet>>

-----------------------------------------------------------------------------
\* The bucket is full at boot, and the first poll is due at once.
Init ==
    /\ upstream \in {"titan", "triton"}
    /\ phase = "wait" /\ timer = 0
    /\ asked = 0 /\ granted = 0 /\ goal = 0
    /\ tokens = Burst /\ thisSecond = 0 /\ lastSecond = 0
    /\ pollIn = 0
    /\ quiet = QuietCap

Next == Tick \/ Poll \/ WaitOver \/ Connected \/ Request \/ Opened \/ Pong \/ Ended

Spec == Init /\ [][Next]_vars

-----------------------------------------------------------------------------
TypeOK ==
    /\ upstream \in {"titan", "triton"}
    /\ phase \in {"wait", "dial", "sweep", "open"}
    /\ timer \in 0..30
    /\ asked \in 0..Sweep /\ granted \in 0..asked /\ goal \in 0..Sweep
    /\ tokens \in 0..Burst /\ pollIn \in 0..PollPeriod
    /\ quiet \in 0..QuietCap
    /\ thisSecond \in 0..Burst /\ lastSecond \in 0..Burst

\* In no second, wherever it begins, does a provider get more than its rate
\* and one request more: a second holds one tick at most, so all it can see is
\* what was granted before and after that tick.
NeverOverRate == thisSecond + lastSecond <= Burst + 1

\* However fast the upstream drops the loop and however the poll falls in
\* between, a sweep gets the tokens the bucket owes it: the whole ladder after
\* a pause of two seconds a request (and at boot), four requests after any
\* backoff - so a Triton session is never refused its token - as long as the
\* bucket holds one token more than that.
SweepGetsItsShare == asked = Sweep => granted >= goal

-----------------------------------------------------------------------------
(* The strengthening of the two (RateLimit_proofs).                         *)

\* What the bucket has granted lately, it no longer holds.
GrantsAreSpent ==
    /\ thisSecond + tokens <= Burst
    /\ lastSecond + thisSecond + tokens <= Burst + 1

\* The bucket holds n tokens, and one for the poll if that is due.
Enough(n) == tokens >= n /\ (pollIn = 0 => tokens > n)

\* While the loop is quiet each tick adds a token and each poll takes one.
Accrued ==
    \/ PollPeriod * quiet <= PollPeriod * tokens + quiet + pollIn
    \/ Enough(Burst - 1)

\* A wait leaves the loop quiet for as long as the shortest backoff.
WaitIsQuiet ==
    /\ phase = "wait" => quiet + timer >= 5 \/ quiet = QuietCap
    /\ phase = "dial" => quiet >= 5 \/ quiet = QuietCap

\* A request is refused only when the sweep has had what it may count on.
ShareIsKept ==
    /\ goal <= Burst - 1 /\ goal <= Sweep
    /\ granted < goal => granted = asked /\ (phase = "sweep" => Enough(goal - granted))

IInv == TypeOK /\ GrantsAreSpent /\ Accrued /\ WaitIsQuiet /\ ShareIsKept

-----------------------------------------------------------------------------
\* "TITAN_RATE_LIMIT_RPS" (src/README.md:141): a request is refused only
\* when that many requests were granted within the last second.
RefusedOnlyOverRate ==
    [][(asked' = asked + 1 /\ granted' = granted) => thisSecond + lastSecond >= Burst]_vars
=============================================================================
