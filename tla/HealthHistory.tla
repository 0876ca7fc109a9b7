--------------------------- MODULE HealthHistory ---------------------------
(***************************************************************************)
(* Health with two history variables that date the changes of              *)
(* availability, each of which makes the daemon reprogram the kernel       *)
(* (daemon.rs:163-177).                                                    *)
(***************************************************************************)
EXTENDS Health

VARIABLES
  age,   \* per interface, probes since its availability last changed
  gap    \* probes between that change and the one before it

hvars == <<vars, age, gap>>

\* Probes are not counted beyond this.
MaxAge == FailureThreshold + RecoveryThreshold

Changed(i) == IsAvailable(state[i]) # IsAvailable(state'[i])

Older(n) == IF n < MaxAge THEN n + 1 ELSE n

Record(i) ==
  /\ RecordSuccess(i) \/ RecordFailure(i)
  /\ IF Changed(i)
     THEN age' = [age EXCEPT ![i] = 0] /\ gap' = [gap EXCEPT ![i] = Older(age[i])]
     ELSE age' = [age EXCEPT ![i] = Older(@)] /\ UNCHANGED gap

HInit == Init /\ age = [i \in Iface |-> MaxAge] /\ gap = [i \in Iface |-> MaxAge]

HSpec == HInit /\ [][\E i \in Iface : Record(i)]_hvars

MinThreshold == IF FailureThreshold < RecoveryThreshold
                THEN FailureThreshold ELSE RecoveryThreshold

\* Flapping is bounded: three changes of availability of a path span more
\* probes than the smaller threshold, however the probes turn out.
FlappingBounded ==
  [][\A i \in Iface : Changed(i) => Older(age[i]) + gap[i] > MinThreshold]_hvars
=============================================================================
