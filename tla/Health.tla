------------------------------- MODULE Health -------------------------------
(***************************************************************************)
(* HealthStateMachine of crates/reverse-core/src/health.rs, one instance   *)
(* per probed interface.  The daemon's probe loop records one result per   *)
(* interface every three seconds; is_available() decides whether the       *)
(* policy may route through the interface.                                 *)
(*                                                                         *)
(* Simplifications: the counters are only compared with the thresholds, so *)
(* they stop at MaxCount, above both; link_up, last_check_epoch_secs and   *)
(* failback_cooldown_secs, which no decision reads, are left out.          *)
(***************************************************************************)
EXTENDS Naturals

CONSTANTS
  Iface,              \* probed interfaces
  FailureThreshold,   \* 3 by default
  RecoveryThreshold,  \* 2 by default
  MaxCount            \* bound of the counters

ASSUME ThresholdAssumption ==
  /\ FailureThreshold \in Nat \ {0}
  /\ RecoveryThreshold \in Nat \ {0}
  /\ MaxCount \in Nat
  /\ MaxCount > FailureThreshold /\ MaxCount > RecoveryThreshold

HealthState == {"Unknown", "Healthy", "Degraded", "Down", "Recovering"}

VARIABLES
  state,      \* per interface, its HealthState
  failures,   \* consecutive_failures
  successes   \* consecutive_successes

vars == <<state, failures, successes>>

Count(n) == IF n < MaxCount THEN n + 1 ELSE n

IsAvailable(s) == s \in {"Healthy", "Recovering"}

-----------------------------------------------------------------------------
\* Mutant: one success is enough for a path that is down.
AfterSuccess_Eager(s, n) ==
  IF s = "Down" THEN "Recovering" ELSE "Healthy"

\* The state that follows s when the n-th success in a row is recorded.
AfterSuccess(s, n) ==
  CASE s = "Down"       -> IF n >= RecoveryThreshold THEN "Recovering" ELSE "Down"
    [] s = "Recovering" -> IF n > RecoveryThreshold THEN "Healthy" ELSE "Recovering"
    [] OTHER            -> "Healthy"

\* Mutant: the threshold itself is still tolerated.
AfterFailure_Tolerant(s, n) ==
  IF s = "Healthy" THEN (IF n > FailureThreshold THEN "Degraded" ELSE "Healthy")
  ELSE "Down"

\* The state that follows s when the n-th failure in a row is recorded.
AfterFailure(s, n) ==
  IF s = "Healthy" THEN (IF n >= FailureThreshold THEN "Degraded" ELSE "Healthy")
  ELSE "Down"

\* Mutant: a success leaves the count of failures alone.
RecordSuccess_KeepFailures(i) ==
  /\ successes' = [successes EXCEPT ![i] = Count(@)]
  /\ state' = [state EXCEPT ![i] = AfterSuccess(@, successes'[i])]
  /\ UNCHANGED failures

RecordSuccess(i) ==
  /\ failures' = [failures EXCEPT ![i] = 0]
  /\ successes' = [successes EXCEPT ![i] = Count(@)]
  /\ state' = [state EXCEPT ![i] = AfterSuccess(@, successes'[i])]

RecordFailure(i) ==
  /\ successes' = [successes EXCEPT ![i] = 0]
  /\ failures' = [failures EXCEPT ![i] = Count(@)]
  /\ state' = [state EXCEPT ![i] = AfterFailure(@, failures'[i])]

Init ==
  /\ state = [i \in Iface |-> "Unknown"]
  /\ failures = [i \in Iface |-> 0]
  /\ successes = [i \in Iface |-> 0]

Next == \E i \in Iface : RecordSuccess(i) \/ RecordFailure(i)

Spec == Init /\ [][Next]_vars

-----------------------------------------------------------------------------
\* The types of the state; a path is in a row of successes or of failures.
TypeOK ==
  /\ state \in [Iface -> HealthState]
  /\ failures \in [Iface -> 0 .. MaxCount]
  /\ successes \in [Iface -> 0 .. MaxCount]
  /\ \A i \in Iface : failures[i] = 0 \/ successes[i] = 0

\* Availability follows the probes: a path that has failed FailureThreshold
\* times in a row is never available, whatever it did before, and one that
\* has answered more than RecoveryThreshold times in a row always is
\* (health.rs:44-46 and 62-64).
AvailabilityTracksProbes ==
  \A i \in Iface :
    /\ failures[i] >= FailureThreshold => ~IsAvailable(state[i])
    /\ successes[i] > RecoveryThreshold => IsAvailable(state[i])
=============================================================================
