---------------------------- MODULE FailoverProofs ----------------------------
(***************************************************************************)
(* Proofs about Health, HealthHistory and Failover, for every set of       *)
(* interfaces, rules and configurations and all thresholds: flapping is    *)
(* bounded, since one of two successive changes of availability takes a    *)
(* whole row of probes, whichever states the path goes through; and what   *)
(* is in force follows the health map.                                     *)
(***************************************************************************)
EXTENDS FailoverProperties, HealthHistory, Positions

-----------------------------------------------------------------------------
(* Health *)

\* What the state of a path says about its counters.
CounterInv ==
  \A i \in Iface :
    /\ state[i] = "Unknown" => failures[i] = 0 /\ successes[i] = 0
    /\ state[i] = "Healthy" => failures[i] < FailureThreshold
    /\ state[i] = "Degraded" => successes[i] = 0
    /\ state[i] = "Down" => successes[i] < RecoveryThreshold
    /\ state[i] = "Recovering" => failures[i] = 0

HInv == TypeOK /\ CounterInv

\* A counter stays within its bound and is above 0 once it has counted.
LEMMA CountType ==
  ASSUME NEW n \in 0 .. MaxCount
  PROVE  Count(n) \in 1 .. MaxCount
BY ThresholdAssumption DEF Count

\* The invariant holds at first.
LEMMA InitInv == Init => HInv
BY ThresholdAssumption DEF Init, HInv, TypeOK, CounterInv, HealthState

\* Recording a success preserves the invariant.
LEMMA SuccessInv ==
  ASSUME HInv, NEW i \in Iface, RecordSuccess(i)
  PROVE  HInv'
<1>1. Count(successes[i]) \in 1 .. MaxCount
  BY CountType DEF HInv, TypeOK
<1>2. successes'[i] = Count(successes[i]) /\ failures'[i] = 0
  BY DEF HInv, TypeOK, RecordSuccess
<1>3. state'[i] = AfterSuccess(state[i], successes'[i])
  BY DEF HInv, TypeOK, RecordSuccess
<1>4. state'[i] \in HealthState
  BY <1>3 DEF HInv, TypeOK, AfterSuccess, HealthState
<1>5. \A j \in Iface \ {i} : /\ state'[j] = state[j]
                             /\ failures'[j] = failures[j]
                             /\ successes'[j] = successes[j]
  BY DEF HInv, TypeOK, RecordSuccess
<1>6. TypeOK'
  BY <1>1, <1>2, <1>4, <1>5, ThresholdAssumption DEF HInv, TypeOK, RecordSuccess
<1>7. CounterInv'
  <2>1. /\ state'[i] # "Unknown"
        /\ state'[i] # "Degraded"
        /\ state'[i] = "Down" => successes'[i] < RecoveryThreshold
    BY <1>1, <1>2, <1>3, ThresholdAssumption DEF HInv, TypeOK, AfterSuccess, HealthState
  <2>. QED
    BY <2>1, <1>2, <1>5, ThresholdAssumption DEF HInv, CounterInv
<1>. QED
  BY <1>6, <1>7 DEF HInv

\* Recording a failure preserves the invariant.
LEMMA FailureInv ==
  ASSUME HInv, NEW i \in Iface, RecordFailure(i)
  PROVE  HInv'
<1>1. Count(failures[i]) \in 1 .. MaxCount
  BY CountType DEF HInv, TypeOK
<1>2. failures'[i] = Count(failures[i]) /\ successes'[i] = 0
  BY DEF HInv, TypeOK, RecordFailure
<1>3. state'[i] = AfterFailure(state[i], failures'[i])
  BY DEF HInv, TypeOK, RecordFailure
<1>4. state'[i] \in HealthState
  BY <1>3 DEF HInv, TypeOK, AfterFailure, HealthState
<1>5. \A j \in Iface \ {i} : /\ state'[j] = state[j]
                             /\ failures'[j] = failures[j]
                             /\ successes'[j] = successes[j]
  BY DEF HInv, TypeOK, RecordFailure
<1>6. TypeOK'
  BY <1>1, <1>2, <1>4, <1>5, ThresholdAssumption DEF HInv, TypeOK, RecordFailure
<1>7. CounterInv'
  <2>1. /\ state'[i] # "Unknown"
        /\ state'[i] # "Recovering"
        /\ state'[i] = "Healthy" => failures'[i] < FailureThreshold
    BY <1>1, <1>2, <1>3, ThresholdAssumption DEF HInv, TypeOK, AfterFailure, HealthState
  <2>. QED
    BY <2>1, <1>2, <1>5, ThresholdAssumption DEF HInv, CounterInv
<1>. QED
  BY <1>6, <1>7 DEF HInv

\* The invariant is inductive.
LEMMA Inductive == Spec => []HInv
<1>1. HInv /\ [Next]_vars => HInv'
  <2>1. ASSUME HInv, Next PROVE HInv'
    BY <2>1, SuccessInv, FailureInv DEF Next
  <2>2. ASSUME HInv, UNCHANGED vars PROVE HInv'
    BY <2>2 DEF vars, HInv, TypeOK, CounterInv
  <2>. QED
    BY <2>1, <2>2
<1>. QED
  BY InitInv, <1>1, PTL DEF Spec

\* The state machine keeps its types, and no path is at once in a row of
\* successes and in a row of failures.
THEOREM TypeCorrect == Spec => []TypeOK
<1>1. HInv => TypeOK
  BY DEF HInv
<1>. QED
  BY Inductive, <1>1, PTL

\* Availability follows the probes, for all thresholds: the counters that
\* is_available() never reads agree with the state that it does read.
THEOREM AvailabilityCorrect == Spec => []AvailabilityTracksProbes
<1>1. HInv => AvailabilityTracksProbes
  <2>. SUFFICES ASSUME HInv, NEW i \in Iface
                PROVE  /\ failures[i] >= FailureThreshold => ~IsAvailable(state[i])
                       /\ successes[i] > RecoveryThreshold => IsAvailable(state[i])
    BY DEF AvailabilityTracksProbes
  <2>1. /\ failures[i] \in 0 .. MaxCount /\ successes[i] \in 0 .. MaxCount
        /\ state[i] \in HealthState
    BY DEF HInv, TypeOK
  <2>2. failures[i] >= FailureThreshold => ~IsAvailable(state[i])
    BY <2>1, ThresholdAssumption DEF HInv, CounterInv, IsAvailable
  <2>3. successes[i] > RecoveryThreshold => IsAvailable(state[i])
    BY <2>1, ThresholdAssumption DEF HInv, CounterInv, IsAvailable, HealthState
  <2>. QED
    BY <2>2, <2>3
<1>. QED
  BY Inductive, <1>1, PTL

-----------------------------------------------------------------------------
(* Successive changes of availability *)

HistoryType == age \in [Iface -> 0 .. MaxAge] /\ gap \in [Iface -> 0 .. MaxAge]

\* What the state of a path says about the changes that led to it: the rows
\* that may end it have been counted since the last change, and a state that
\* one probe may end was preceded by such a row.
RowInv ==
  \A i \in Iface :
    /\ state[i] = "Unknown" => gap[i] = MaxAge
    /\ state[i] = "Healthy" => age[i] >= failures[i] /\ gap[i] >= 1
    /\ state[i] = "Degraded" => gap[i] >= FailureThreshold
    /\ state[i] = "Down" => age[i] >= successes[i] /\ gap[i] >= 1
    /\ state[i] = "Recovering" => gap[i] >= RecoveryThreshold

HistoryInv == HInv /\ HistoryType /\ RowInv

\* At first all changes are long ago.
LEMMA InitHistory == HInit => HistoryInv
BY InitInv, ThresholdAssumption DEF HInit, Init, HistoryInv, HistoryType, RowInv, MaxAge

\* What one probe does to a path and its history, and to no other.
LEMMA RecordMoves ==
  ASSUME HistoryInv, NEW i \in Iface, Record(i)
  PROVE  /\ HInv'
         /\ HistoryType'
         /\ \/ /\ failures'[i] = 0 /\ successes'[i] = Count(successes[i])
               /\ state'[i] = AfterSuccess(state[i], Count(successes[i]))
            \/ /\ successes'[i] = 0 /\ failures'[i] = Count(failures[i])
               /\ state'[i] = AfterFailure(state[i], Count(failures[i]))
         /\ \/ Changed(i) /\ age'[i] = 0 /\ gap'[i] = Older(age[i])
            \/ ~Changed(i) /\ age'[i] = Older(age[i]) /\ gap'[i] = gap[i]
         /\ \A j \in Iface \ {i} :
              /\ state'[j] = state[j] /\ ~Changed(j)
              /\ failures'[j] = failures[j] /\ successes'[j] = successes[j]
              /\ age'[j] = age[j] /\ gap'[j] = gap[j]
<1>1. HInv'
  BY SuccessInv, FailureInv DEF HistoryInv, Record
<1>2. \A n \in 0 .. MaxAge : Older(n) \in 0 .. MaxAge
  BY ThresholdAssumption DEF Older, MaxAge
<1>3. HistoryType'
  BY <1>2, ThresholdAssumption DEF HistoryInv, HistoryType, Record, MaxAge
<1>4. \/ /\ failures'[i] = 0 /\ successes'[i] = Count(successes[i])
         /\ state'[i] = AfterSuccess(state[i], Count(successes[i]))
      \/ /\ successes'[i] = 0 /\ failures'[i] = Count(failures[i])
         /\ state'[i] = AfterFailure(state[i], Count(failures[i]))
  BY DEF HistoryInv, HInv, TypeOK, Record, RecordSuccess, RecordFailure
<1>5. \/ Changed(i) /\ age'[i] = 0 /\ gap'[i] = Older(age[i])
      \/ ~Changed(i) /\ age'[i] = Older(age[i]) /\ gap'[i] = gap[i]
  BY DEF HistoryInv, HistoryType, Record
<1>6. \A j \in Iface \ {i} :
        /\ state'[j] = state[j] /\ ~Changed(j)
        /\ failures'[j] = failures[j] /\ successes'[j] = successes[j]
        /\ age'[j] = age[j] /\ gap'[j] = gap[j]
  BY DEF HistoryInv, HInv, TypeOK, HistoryType, Record, RecordSuccess, RecordFailure, Changed
<1>. QED
  BY <1>1, <1>3, <1>4, <1>5, <1>6

\* Every probe preserves the invariant, and a change that it causes is far
\* enough from the change before the last.
LEMMA RecordHistory ==
  ASSUME HistoryInv, NEW i \in Iface, Record(i)
  PROVE  /\ HistoryInv'
         /\ \A j \in Iface : Changed(j) => Older(age[j]) + gap[j] > MinThreshold
<1>1. /\ age[i] \in 0 .. MaxAge /\ gap[i] \in 0 .. MaxAge
      /\ failures[i] \in 0 .. MaxCount /\ successes[i] \in 0 .. MaxCount
      /\ state[i] \in HealthState
  BY DEF HistoryInv, HistoryType, HInv, TypeOK
<1>2. /\ Changed(i) => Older(age[i]) + gap[i] > MinThreshold
      /\ state'[i] = "Unknown" => gap'[i] = MaxAge
      /\ state'[i] = "Healthy" => age'[i] >= failures'[i] /\ gap'[i] >= 1
      /\ state'[i] = "Degraded" => gap'[i] >= FailureThreshold
      /\ state'[i] = "Down" => age'[i] >= successes'[i] /\ gap'[i] >= 1
      /\ state'[i] = "Recovering" => gap'[i] >= RecoveryThreshold
  <2>. USE ThresholdAssumption DEF HistoryInv, HInv, CounterInv, RowInv, HealthState, MaxAge,
         Older, MinThreshold, Changed, IsAvailable, Count
  <2>1. CASE /\ failures'[i] = 0 /\ successes'[i] = Count(successes[i])
             /\ state'[i] = AfterSuccess(state[i], Count(successes[i]))
    BY <1>1, <2>1, RecordMoves DEF AfterSuccess
  <2>2. CASE /\ successes'[i] = 0 /\ failures'[i] = Count(failures[i])
             /\ state'[i] = AfterFailure(state[i], Count(failures[i]))
    BY <1>1, <2>2, RecordMoves DEF AfterFailure
  <2>. QED
    BY <2>1, <2>2, RecordMoves
<1>3. RowInv'
  BY <1>2, RecordMoves DEF HistoryInv, RowInv
<1>. QED
  BY <1>2, <1>3, RecordMoves DEF HistoryInv

\* However probes turn out, three changes of availability span more probes
\* than the smaller threshold (health.rs:57-91).
THEOREM FlappingIsBounded == HSpec => FlappingBounded
<1>1. HistoryInv /\ [\E i \in Iface : Record(i)]_hvars
        => /\ HistoryInv'
           /\ [\A i \in Iface : Changed(i) => Older(age[i]) + gap[i] > MinThreshold]_hvars
  <2> SUFFICES ASSUME HistoryInv, [\E i \in Iface : Record(i)]_hvars
               PROVE  /\ HistoryInv'
                      /\ [\A i \in Iface :
                            Changed(i) => Older(age[i]) + gap[i] > MinThreshold]_hvars
    OBVIOUS
  <2>1. CASE \E i \in Iface : Record(i)
    BY <2>1, RecordHistory
  <2>2. CASE UNCHANGED hvars
    BY <2>2 DEF hvars, vars, HistoryInv, HistoryType, RowInv, HInv, TypeOK, CounterInv
  <2>. QED
    BY <2>1, <2>2
<1>. QED
  BY <1>1, InitHistory, PTL DEF HSpec, FlappingBounded

-----------------------------------------------------------------------------
(* Failover: the history variables above are not spoken of below *)

\* What the loop keeps true in the middle of a round too: as long as no change
\* of availability has been seen, what is in force follows the health map.
FollowsUnlessChanged == (InForce /\ ~changed) => \A r \in Rule : Follows(r)

FInv == FTypeOK /\ CounterInv /\ FollowsUnlessChanged

-----------------------------------------------------------------------------
(* The path of a rule *)

\* The path that is chosen for a rule is its first available candidate.
LEMMA PathFirst ==
  ASSUME NEW c \in Configs, NEW r \in Rule, TypeOK'
  PROVE  LET via == c.via[r]
             p == Path(c, r)
         IN /\ via \in Seq(Iface)
            /\ p \in Iface \cup {NoDev}
            /\ p # NoDev => IsAvailable(state'[p])
            /\ \A j \in DOMAIN via :
                 IsAvailable(state'[via[j]]) =>
                   \E k \in DOMAIN via : via[k] = p /\ k <= j
<1>. DEFINE via == c.via[r]
            up == {k \in DOMAIN via : IsAvailable(state'[via[k]])}
<1>1. via \in Seq(Iface)
  BY FailoverAssumption DEF Config
<1>2. DOMAIN via \subseteq Nat /\ \A k \in DOMAIN via : via[k] \in Iface
  BY <1>1
<1>3. NoDev \notin Iface
  BY FailoverAssumption DEF Dev
<1>4. CASE up = {}
  <2>1. Path(c, r) = NoDev
    BY <1>4 DEF Path
  <2>2. \A j \in DOMAIN via : ~IsAvailable(state'[via[j]])
    BY <1>4
  <2>. QED
    BY <1>1, <2>1, <2>2
<1>5. CASE up # {}
  <2>1. Min(up) \in up /\ \A j \in up : Min(up) <= j
    <3>1. up \in SUBSET Nat
      BY <1>2
    <3>. QED
      BY <1>5, <3>1, LeastNumber
  <2>2. Path(c, r) = via[Min(up)]
    BY <1>5 DEF Path
  <2>. HIDE DEF via
  <2>3. /\ Path(c, r) \in Iface
        /\ IsAvailable(state'[Path(c, r)])
        /\ \A j \in DOMAIN via :
             IsAvailable(state'[via[j]]) =>
               \E k \in DOMAIN via : via[k] = Path(c, r) /\ k <= j
    BY <1>2, <2>1, <2>2
  <2>. QED
    BY <1>1, <2>3 DEF via
<1>. QED
  BY <1>4, <1>5

\* An apply that goes through puts a policy in force that follows the health
\* map; one that does not says so.
LEMMA ApplyFollows ==
  ASSUME NEW c \in Configs, TypeOK', Apply(c), InForce', NEW r \in Rule
  PROVE  Follows(r)'
<1>. DEFINE via == c.via[r]
            p == Path(c, r)
<1>1. inforce' = [config |-> c, paths |-> Paths(c)]
  BY DEF Apply, InForce
<1>2. inforce'.paths[r] = p /\ inforce'.config.via[r] = via
  BY <1>1 DEF Paths
<1>3. /\ via \in Seq(Iface)
      /\ p # NoDev => IsAvailable(state'[p])
      /\ \A j \in DOMAIN via :
           IsAvailable(state'[via[j]]) =>
             \E k \in DOMAIN via : via[k] = p /\ k <= j
  BY PathFirst
<1>4. ASSUME NEW i \in UpTo(r)', i # p PROVE ~IsAvailable(state'[i])
  <2>1. PICK j \in DOMAIN via : /\ i = via[j]
                                /\ \A m \in DOMAIN via : via[m] = p => j <= m
    BY <1>2 DEF UpTo
  <2>2. SUFFICES ASSUME IsAvailable(state'[via[j]]) PROVE FALSE
    BY <2>1
  <2>3. PICK k \in DOMAIN via : via[k] = p /\ k <= j
    BY <1>3, <2>2
  <2>4. j <= k /\ j \in Nat /\ k \in Nat
    BY <1>3, <2>1, <2>3
  <2>5. j = k
    BY <2>3, <2>4
  <2>. QED
    BY <1>4, <2>1, <2>3, <2>5
<1>. QED
  BY <1>2, <1>3, <1>4 DEF Follows, Available

\* Whatever an apply does, types are kept and no default route appears.
LEMMA ApplyTypes ==
  ASSUME NEW c \in Configs, TypeOK', FTypeOK, Apply(c)
  PROVE  /\ inforce' = NoPolicy \/ (/\ inforce'.config \in Configs
                                     /\ inforce'.paths \in [Rule -> Iface \cup {NoDev}])
         /\ missed' \in BOOLEAN
         /\ defaults' \subseteq defaults
<1>1. Paths(c) \in [Rule -> Iface \cup {NoDev}]
  BY PathFirst DEF Paths
<1>2. CASE /\ inforce' = [config |-> c, paths |-> Paths(c)]
           /\ missed' = FALSE
           /\ defaults' \subseteq defaults
  BY <1>1, <1>2
<1>3. CASE missed' = TRUE /\ inforce' = inforce /\ defaults' = defaults
  BY <1>3 DEF FTypeOK
<1>. QED
  BY <1>2, <1>3 DEF Apply

-----------------------------------------------------------------------------
(* The actions *)

\* What is left alone stays in force as it is.
LEMMA SamePolicy ==
  ASSUME FollowsUnlessChanged, UNCHANGED <<inforce, missed, state>>, changed' = FALSE => changed = FALSE,
         changed \in BOOLEAN, changed' \in BOOLEAN
  PROVE  FollowsUnlessChanged'
BY DEF FollowsUnlessChanged, InForce, Follows, UpTo, Available

LEMMA InitFInv == FInit => FInv
<1>. SUFFICES ASSUME FInit PROVE FInv
  OBVIOUS
<1>1. HInv
  BY InitInv DEF FInit
<1>2. FTypeOK
  <2>1. defaults \subseteq Wan /\ config \in Configs /\ default_wan \in Dev
    BY FailoverAssumption DEF FInit, Config
  <2>2. defaults \cap Iface = {}
    BY <2>1, FailoverAssumption
  <2>3. inforce = NoPolicy \/ (/\ inforce.config \in Configs
                               /\ inforce.paths \in [Rule -> Iface \cup {NoDev}])
    BY <2>1 DEF FInit
  <2>. QED
    BY <1>1, <2>1, <2>2, <2>3 DEF FInit, FTypeOK, HInv, Dev
<1>3. FollowsUnlessChanged
  <2>. SUFFICES ASSUME InForce, NEW r \in Rule PROVE Follows(r)
    BY DEF FollowsUnlessChanged
  <2>1. inforce.paths[r] = NoDev /\ inforce.config = config
    BY DEF FInit, InForce
  <2>2. UpTo(r) \subseteq Iface
    <3>1. config.via[r] \in Seq(Iface)
      BY FailoverAssumption DEF FInit, Config
    <3>. QED
      BY <2>1, <3>1 DEF UpTo
  <2>3. \A i \in Iface : ~Available(i)
    BY DEF FInit, Init, Available, IsAvailable
  <2>. QED
    BY <2>1, <2>2, <2>3 DEF Follows
<1>. QED
  BY <1>1, <1>2, <1>3 DEF FInv, HInv

LEMMA BeginRoundInv ==
  ASSUME FInv, BeginRound
  PROVE  FInv'
<1>1. FTypeOK'
  BY DEF FInv, FTypeOK, TypeOK, BeginRound, health, policy, Probed
<1>2. CounterInv'
  BY DEF FInv, CounterInv, BeginRound, health
<1>3. FollowsUnlessChanged'
  BY SamePolicy DEF FInv, FTypeOK, BeginRound, health, policy
<1>. QED
  BY <1>1, <1>2, <1>3 DEF FInv

LEMMA ProbeInv ==
  ASSUME FInv, NEW i \in Iface, Probe(i)
  PROVE  FInv'
<1>1. HInv'
  BY SuccessInv, FailureInv DEF FInv, FTypeOK, HInv, Probe
<1>2. \A j \in Iface \ {i} : state'[j] = state[j]
  BY DEF FInv, FTypeOK, TypeOK, Probe, RecordSuccess, RecordFailure
<1>3. FTypeOK'
  <2>1. changed' \in BOOLEAN
    BY DEF FInv, FTypeOK, Probe
  <2>. QED
    BY <1>1, <2>1 DEF FInv, FTypeOK, HInv, Probe, policy, Probed
<1>4. FollowsUnlessChanged'
  <2>. SUFFICES ASSUME InForce', ~changed', NEW r \in Rule PROVE Follows(r)'
    BY DEF FollowsUnlessChanged
  <2>1. /\ inforce' = inforce /\ missed' = missed /\ ~changed
        /\ IsAvailable(state[i]) = IsAvailable(state'[i])
    BY DEF Probe, policy, FInv, FTypeOK
  <2>2. Follows(r)
    BY <2>1 DEF FInv, FollowsUnlessChanged, InForce
  <2>3. \A j \in Iface : Available(j)' = Available(j)
    BY <1>2, <2>1 DEF Available
  <2>4. UpTo(r) \subseteq Iface /\ inforce.paths[r] \in Iface \cup {NoDev}
    <3>1. inforce.config \in Configs /\ inforce.paths \in [Rule -> Iface \cup {NoDev}]
      BY <2>1 DEF FInv, FTypeOK, InForce
    <3>2. inforce.config.via[r] \in Seq(Iface)
      BY <3>1, FailoverAssumption DEF Config
    <3>. QED
      BY <3>1, <3>2 DEF UpTo
  <2>5. UpTo(r)' = UpTo(r)
    BY <2>1 DEF UpTo
  <2>. QED
    BY <2>1, <2>2, <2>3, <2>4, <2>5 DEF Follows
<1>. QED
  BY <1>1, <1>3, <1>4 DEF FInv, HInv

\* The health map of a step that does not touch it.
LEMMA SameHealth ==
  ASSUME FInv, UNCHANGED health
  PROVE  TypeOK' /\ CounterInv' /\ UNCHANGED state
BY DEF FInv, FTypeOK, TypeOK, CounterInv, health

LEMMA EndRoundInv ==
  ASSUME FInv, EndRound
  PROVE  FInv'
<1>1. TypeOK' /\ CounterInv' /\ UNCHANGED state
  BY SameHealth DEF EndRound
<1>2. CASE changed
  <2>1. Apply(config) /\ config \in Configs
    BY <1>2 DEF EndRound, FInv, FTypeOK
  <2>2. FTypeOK'
    <3>1. /\ inforce' = NoPolicy \/ (/\ inforce'.config \in Configs
                                    /\ inforce'.paths \in [Rule -> Iface \cup {NoDev}])
          /\ missed' \in BOOLEAN
          /\ defaults' \subseteq defaults
      BY <1>1, <2>1, ApplyTypes DEF FInv
    <3>. QED
      BY <1>1, <3>1 DEF FInv, FTypeOK, EndRound, Probed
  <2>3. FollowsUnlessChanged'
    BY <1>1, <2>1, ApplyFollows DEF FollowsUnlessChanged
  <2>. QED
    BY <1>1, <2>2, <2>3 DEF FInv
<1>3. CASE ~changed
  <2>1. defaults' \subseteq defaults /\ inforce' = inforce /\ missed' = missed
    BY <1>3 DEF EndRound, Purge, policy
  <2>2. FTypeOK'
    BY <1>1, <2>1 DEF FInv, FTypeOK, EndRound, Probed
  <2>3. FollowsUnlessChanged'
    BY <1>1, <1>3, <2>1, <2>2, SamePolicy DEF FInv, FTypeOK
  <2>. QED
    BY <1>1, <2>2, <2>3 DEF FInv
<1>. QED
  BY <1>2, <1>3

LEMMA ApplyRequestInv ==
  ASSUME FInv, NEW c \in Configs, ApplyRequest(c)
  PROVE  FInv'
<1>1. TypeOK' /\ CounterInv' /\ UNCHANGED state
  BY SameHealth DEF ApplyRequest
<1>2. /\ inforce' = NoPolicy \/ (/\ inforce'.config \in Configs
                                /\ inforce'.paths \in [Rule -> Iface \cup {NoDev}])
      /\ missed' \in BOOLEAN
      /\ defaults' \subseteq defaults
  BY <1>1, ApplyTypes DEF FInv, ApplyRequest
<1>3. FTypeOK'
  BY <1>1, <1>2 DEF FInv, FTypeOK, ApplyRequest, round
<1>4. FollowsUnlessChanged'
  BY <1>1, ApplyFollows DEF FollowsUnlessChanged, ApplyRequest
<1>. QED
  BY <1>1, <1>3, <1>4 DEF FInv

LEMMA EditInv ==
  ASSUME FInv, NEW c \in Configs, Edit(c)
  PROVE  FInv'
<1>1. TypeOK' /\ CounterInv' /\ UNCHANGED state
  BY SameHealth DEF Edit
<1>2. FTypeOK'
  BY <1>1 DEF FInv, FTypeOK, Edit, policy, round
<1>3. FollowsUnlessChanged'
  BY <1>1, <1>2, SamePolicy DEF FInv, FTypeOK, Edit, policy, round
<1>. QED
  BY <1>1, <1>2, <1>3 DEF FInv

LEMMA ResetInv ==
  ASSUME FInv, Reset
  PROVE  FInv'
<1>1. TypeOK' /\ CounterInv' /\ UNCHANGED state
  BY SameHealth DEF Reset
<1>2. FTypeOK'
  BY <1>1 DEF FInv, FTypeOK, Reset, round, Probed
<1>3. FollowsUnlessChanged'
  BY DEF Reset, FollowsUnlessChanged, InForce
<1>. QED
  BY <1>1, <1>2, <1>3 DEF FInv

\* The host changes links and default routes only.
LEMMA HostInv ==
  ASSUME FInv,
         UNCHANGED <<health, default_wan, config, policy, round>>,
         link' \in [Iface -> BOOLEAN], defaults' \subseteq Dev,
         \A i \in defaults' \cap Iface : link'[i]
  PROVE  FInv'
<1>1. TypeOK' /\ CounterInv' /\ UNCHANGED state
  BY SameHealth
<1>2. FTypeOK'
  BY <1>1 DEF FInv, FTypeOK, policy, round, Probed
<1>3. FollowsUnlessChanged'
  BY <1>1, <1>2, SamePolicy DEF FInv, FTypeOK, policy, round
<1>. QED
  BY <1>1, <1>2, <1>3 DEF FInv

LEMMA StepInv ==
  ASSUME FInv, FNext
  PROVE  FInv'
<1>1. CASE ProbeLoop
  BY <1>1, BeginRoundInv, EndRoundInv, ProbeInv DEF ProbeLoop
<1>2. CASE \E c \in Configs : ApplyRequest(c) \/ Edit(c)
  BY <1>2, ApplyRequestInv, EditInv
<1>3. CASE Reset
  BY <1>3, ResetInv
<1>4. ASSUME NEW i \in Iface, LinkChange(i) PROVE FInv'
  <2>1. /\ link' \in [Iface -> BOOLEAN] /\ defaults' \subseteq Dev
        /\ \A j \in defaults' \cap Iface : link'[j]
    BY <1>4 DEF FInv, FTypeOK, LinkChange
  <2>. QED
    BY <1>4, <2>1, HostInv DEF LinkChange
<1>5. ASSUME NEW d \in Dev, DefaultAppears(d) \/ DefaultLost(d) PROVE FInv'
  <2>1. /\ link' \in [Iface -> BOOLEAN] /\ defaults' \subseteq Dev
        /\ \A j \in defaults' \cap Iface : link'[j]
    BY <1>5 DEF FInv, FTypeOK, DefaultAppears, DefaultLost
  <2>. QED
    BY <1>5, <2>1, HostInv DEF DefaultAppears, DefaultLost
<1>. QED
  BY <1>1, <1>2, <1>3, <1>4, <1>5 DEF FNext

\* The invariant is inductive.
LEMMA FInductive == FSpec => []FInv
<1>1. FInv /\ [FNext]_fvars => FInv'
  <2>1. ASSUME FInv, UNCHANGED fvars PROVE FInv'
    <3>1. /\ link' \in [Iface -> BOOLEAN] /\ defaults' \subseteq Dev
          /\ \A i \in defaults' \cap Iface : link'[i]
      BY <2>1 DEF FInv, FTypeOK, fvars
    <3>. QED
      BY <2>1, <3>1, HostInv DEF fvars
  <2>. QED
    BY <2>1, StepInv
<1>. QED
  BY InitFInv, <1>1, PTL DEF FSpec

-----------------------------------------------------------------------------
\* The probe loop keeps its types: whatever is edited between two rounds, a
\* round probes interfaces of the configuration it started with only.
THEOREM FTypeCorrect == FSpec => []FTypeOK
<1>1. FInv => FTypeOK
  BY DEF FInv
<1>. QED
  BY FInductive, <1>1, PTL

\* Between rounds the policy in force follows the health map, for any number
\* of interfaces in a round, of rules and of candidates.
THEOREM KernelFollowsHealth == FSpec => []KernelTracksHealth
<1>1. FInv => KernelTracksHealth
  BY DEF FInv, FTypeOK, FollowsUnlessChanged, KernelTracksHealth
<1>. QED
  BY FInductive, <1>1, PTL
=============================================================================
