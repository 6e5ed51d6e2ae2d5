---------------------------- MODULE Backoff ----------------------------
(***************************************************************************)
(* The reconnect backoff every live loop of the mux carries                *)
(* (src/src/ws_reconnect.rs).  It has no state of its own here: a loop     *)
(* keeps `current' as a variable and applies these operators to it.        *)
(***************************************************************************)
EXTENDS Naturals

CONSTANTS
    InitialDelay,  \* first argument of ReconnectBackoff::new
    MaxDelay,      \* second argument of ReconnectBackoff::new
    HealthyAfter   \* HEALTHY_SESSION_THRESHOLD, in the same unit of time

ASSUME DelaysAssumption == InitialDelay \in Nat /\ MaxDelay \in Nat
ASSUME HealthyAfterAssumption == HealthyAfter \in Nat \ {0}

\* ReconnectBackoff::new clamps both arguments: the first delay is never zero
\* (it would spin) and the largest delay is never below the first.
Initial == IF InitialDelay >= 1 THEN InitialDelay ELSE 1
Cap == IF MaxDelay >= Initial THEN MaxDelay ELSE Initial

\* Mutant: the cap is forgotten.
AfterWait_NoCap(d) == 2 * d

\* The delay wait() leaves behind after it has slept for d.
AfterWait(d) == IF 2 * d <= Cap THEN 2 * d ELSE Cap

\* should_reset_backoff
ShouldReset(received, connectedFor) == received \/ connectedFor >= HealthyAfter

\* Reference definition: the delay of the n-th consecutive wait, in closed form.
Delay(n) == IF Initial * 2^n <= Cap THEN Initial * 2^n ELSE Cap
=========================================================================
