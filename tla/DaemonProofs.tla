---------------------------- MODULE DaemonProofs ----------------------------
(***************************************************************************)
(* What module Daemon promises, for every set of configurations.  The      *)
(* properties of a policy in force follow from the lemmas of PolicyProofs; *)
(* the invariant says that it was accepted, and where configurations come  *)
(* from.                                                                   *)
(***************************************************************************)
EXTENDS Daemon, PolicyProofs

-----------------------------------------------------------------------------
(* What an accepted policy promises *)

\* Every lab address is covered, by a rule, if no network names a suffix.
NoSuffix(c) == \A n \in ToSet(c.networks) : ~n.suffix

LEMMA LabCovered ==
  ASSUME NEW c \in Config, NoSuffix(c), NEW a \in Lab(c)
  PROVE  \E p \in CoverOf(c) : a \in p
<1>1. CASE a \in Authorized(c)
  BY <1>1, AuthorizedCovered
<1>2. CASE a \in NetworkAnswers(c)
  <2>1. PICK n \in ToSet(c.networks) : \E d \in n.names : a \in ToSet(c.local_dns[d])
    BY <1>2 DEF NetworkAnswers
  <2>2. NetworkRule(c, n) \in ToSet(Rules(c))
    BY RulesOfConfig
  <2>3. {a} \in NetworkRule(c, n).nets
    BY <2>1 DEF NetworkRule, Hosts, NoSuffix
  <2>. QED
    BY <2>2, <2>3 DEF CoverOf
<1>. QED
  BY <1>1, <1>2 DEF Lab

LEMMA LabKeptOffWan ==
  ASSUME NEW c \in Config, NEW h, Accepted(c, h), NoSuffix(c), InterfacesListed(c),
         WanApart(c), NEW a \in Lab(c), NEW i \in Egress(c, h, a)
  PROVE  i # Wan
<1>0. StrictPolicy(c) /\ Wan \notin ToSet(c.lan_interfaces)
  BY WanIsNoCandidate DEF Accepted
<1>1. PICK p \in CoverOf(c) : a \in p
  BY LabCovered
<1>2. ~Blacklisted(c, a)
  BY DEF Lab
<1>3. PICK r \in ToSet(Rules(c)) : r.nets # {} /\ i = Chosen(r, h)
  BY <1>0, <1>1, <1>2, EgressOrigin DEF Blacklisted
<1>4. Chosen(r, h) = NoDev \/ Chosen(r, h) \in ToSet(c.lan_interfaces)
  BY <1>0, <1>3, RuleType, ChosenIsCandidate, CandidatesAreLan
<1>5. Wan # NoDev
  BY WanAssumption, NoDevAssumption
<1>. QED
  BY <1>0, <1>3, <1>4, <1>5

\* The firewall lists every target, if all are written as prefixes.
AllPrefixes(c) == \A t \in ToSet(c.targets) : ~t.bare

LEMMA RoutedAllowed ==
  ASSUME NEW c \in Config, NEW h, StrictPolicy(c), AllPrefixes(c),
         NEW a \in Authorized(c) \ NetworkAnswers(c), NEW i \in Egress(c, h, a) \ {Wan, NoDev}
  PROVE  FirewallAllows(c, h, i, a)
<1>1. PICK p \in CoverOf(c) : a \in p
  BY EgressOutside
<1>2. PICK q \in Dst, r \in ToSet(Rules(c)) : a \in q /\ q \in r.nets /\ i = Chosen(r, h)
  BY <1>1, EgressOrigin
<1>3. i \in ToSet(r.via) /\ r.via \in Seq(Dev)
  BY <1>2, RuleType, ChosenIsCandidate DEF PolicyRule
<1>4. i \in Dev
  BY <1>3, Elements
<1>5. <<i, q>> \in AllowRules(c, h)
  <2>1. CASE \E t \in ToSet(c.targets) : r = TargetRule(t)
    <3>1. PICK t \in ToSet(c.targets) : r = TargetRule(t)
      BY <2>1
    <3>2. q = t.net /\ i \in ToSet(t.via) /\ t.via \in Seq(Dev) /\ ~t.bare
      BY <1>2, <1>3, <3>1 DEF TargetRule, AllPrefixes
    <3>3. Contains(t.via, i)
      BY <3>2 DEF Contains, ToSet
    <3>4. <<i, t>> \in ListedTargets(c)
      BY <1>4, <3>3 DEF ListedTargets, TargetEntries
    <3>5. <<i, t>> \in {l \in ListedTargets(c) : ~l[2].bare}
      BY <3>2, <3>4
    <3>6. <<i, t.net>> \in {<<e[1], e[2].net>> : e \in {l \in ListedTargets(c) : ~l[2].bare}}
      BY <3>5
    <3>. QED
      BY <3>2, <3>4, <3>6 DEF AllowRules
  <2>2. CASE \E d \in ToSet(c.lan_domains) : r = DomainRule(c, d)
    <3>1. PICK d \in ToSet(c.lan_domains) : r = DomainRule(c, d)
      BY <2>2
    <3>2. q \in Hosts(c, d) /\ i \in ToSet(c.lan_interfaces)
      BY <1>2, <1>3, <3>1 DEF DomainRule
    <3>3. <<i, q>> \in DomainEntries(c)
      BY <3>2 DEF DomainEntries
    <3>. QED
      BY <3>3 DEF AllowRules
  <2>3. CASE \E n \in ToSet(c.networks) : r = NetworkRule(c, n)
    <3>1. PICK n \in ToSet(c.networks) : r = NetworkRule(c, n)
      BY <2>3
    <3>2. PICK d \in n.names : q \in Hosts(c, d)
      BY <1>2, <3>1 DEF NetworkRule
    <3>3. a \in ToSet(c.local_dns[d])
      BY <1>2, <3>2 DEF Hosts
    <3>. QED
      BY <3>3 DEF NetworkAnswers
  <2>. QED
    BY <2>1, <2>2, <2>3, RulesOfConfig
<1>6. ~Blacklisted(c, a)
  BY AuthorizedNotBlacklisted
<1>. QED
  BY <1>2, <1>5, <1>6 DEF FirewallAllows

\* A rule that covers the queried address is one of those that match, and no
\* matter which of these decide() takes, the kernel takes one like it.
LEMMA ExplainedAsRouted ==
  ASSUME NEW c \in Config, NEW h, StrictPolicy(c), NEW q, Unambiguous(c, q)
  PROVE  Egress(c, h, q.ip) = {Decide(c, h, q)}
<1>. DEFINE K == Matching(c, q)
            a == q.ip
<1>1. /\ K = {k \in DOMAIN Rules(c) : \E p \in Rules(c)[k].nets : a \in p}
      /\ \A j, k \in K : Rules(c)[j].via = Rules(c)[k].via
      /\ Blacklisted(c, a) => K = {}
  BY DEF Unambiguous
<1>2. \A k \in K : Rules(c)[k] \in ToSet(Rules(c)) /\ K \in SUBSET DOMAIN Rules(c)
  BY <1>1 DEF ToSet
<1>3. ASSUME NEW r \in ToSet(Rules(c)), NEW p \in r.nets, a \in p
      PROVE  \E k \in K : r = Rules(c)[k]
  BY <1>1, <1>3 DEF ToSet
<1>4. Blacklisted(c, a) <=> \E p \in c.blacklist : q.ip \in p
  BY DEF Blacklisted
<1>. SUFFICES \A i \in Egress(c, h, a) : i = Decide(c, h, q)
  BY SomeEgress
<1>. HIDE DEF K, a
<1>5. CASE K = {}
  <2>1. Decide(c, h, q) = Wan
    BY <1>5 DEF Decide, K
  <2>2. CASE \E p \in CoverOf(c) : a \in p
    <3>1. PICK p \in CoverOf(c) : a \in p
      BY <2>2
    <3>. QED
      BY <1>3, <1>5, <2>1, <3>1, EgressOrigin
  <2>3. CASE \A p \in CoverOf(c) : a \notin p
    BY <2>1, <2>3, EgressOutside
  <2>. QED
    BY <2>2, <2>3
<1>6. CASE K # {}
  <2>. DEFINE first == FirstOf(c, K)
              rule == Rules(c)[first]
  <2>1. first \in K
    BY <1>2, <1>6, FirstRule
  <2>2. rule \in ToSet(Rules(c)) /\ rule.fallback = "drop"
    BY <1>2, <2>1, RulesDrop
  <2>3. ~Blacklisted(c, a)
    BY <1>1, <1>6
  <2>4. Decide(c, h, q) = Chosen(rule, h)
    BY <1>4, <1>6, <2>2, <2>3 DEF Decide, K
  <2>5. PICK p \in CoverOf(c) : a \in p
    BY <1>1, <1>2, <2>1 DEF CoverOf
  <2>. SUFFICES ASSUME NEW i \in Egress(c, h, a) PROVE i = Chosen(rule, h)
    BY <2>4
  <2>6. PICK r \in ToSet(Rules(c)) : (\E s \in r.nets : a \in s) /\ i = Chosen(r, h)
    BY <2>3, <2>5, EgressOrigin DEF Blacklisted
  <2>7. PICK k \in K : r = Rules(c)[k]
    BY <1>3, <2>6
  <2>8. r.via = rule.via
    BY <1>1, <2>1, <2>7
  <2>9. Chosen(r, h) = Chosen(rule, h)
    BY <2>8 DEF Chosen
  <2>. QED
    BY <2>6, <2>9
<1>. QED
  BY <1>5, <1>6

-----------------------------------------------------------------------------
(* The configurations that the daemon can have *)

\* Only targets are ever edited: the rest of a configuration was loaded or sent.
Descends(c) ==
  \E d \in Configs :
    /\ c.networks = d.networks /\ c.lan_interfaces = d.lan_interfaces
    /\ c.blacklist = d.blacklist
    /\ ToSet(c.targets) \subseteq ToSet(d.targets) \cup NewTargets

\* Putting other targets into a configuration.
LEMMA Edited ==
  ASSUME NEW c \in Config, Descends(c), NEW T \in Seq(Target),
         ToSet(T) \subseteq ToSet(c.targets) \cup NewTargets
  PROVE  /\ [c EXCEPT !.targets = T] \in Config /\ Descends([c EXCEPT !.targets = T])
         /\ [c EXCEPT !.targets = T].targets = T
<1>. DEFINE e == [c EXCEPT !.targets = T]
<1>1. e \in Config /\ e.targets = T
  BY DEF Config
<1>2. /\ e.networks = c.networks /\ e.lan_interfaces = c.lan_interfaces
      /\ e.blacklist = c.blacklist
  BY DEF Config
<1>. HIDE DEF e
<1>3. Descends(e)
  BY <1>1, <1>2 DEF Descends
<1>. QED
  BY <1>1, <1>3 DEF e

LEMMA RemovedFrom ==
  ASSUME NEW c \in Config, Descends(c), NEW K \in SUBSET DOMAIN c.targets
  PROVE  LET e == [c EXCEPT !.targets = Retained(c.targets, K)]
         IN e \in Config /\ Descends(e) /\ e.targets = Retained(c.targets, K)
<1>. DEFINE T == Retained(c.targets, K)
<1>1. c.targets \in Seq(Target)
  BY ConfigFields
<1>2. T \in Seq(Target) /\ ToSet(T) \subseteq ToSet(c.targets)
  BY <1>1, RetainedElements
<1>. HIDE DEF T
<1>. QED
  BY <1>2, Edited DEF T

LEMMA AddedTo ==
  ASSUME NEW c \in Config, Descends(c), NEW K \in SUBSET DOMAIN c.targets, NEW t \in NewTargets
  PROVE  LET T == Append(Retained(c.targets, K), t)
             e == [c EXCEPT !.targets = T]
         IN e \in Config /\ Descends(e) /\ e.targets = T
<1>. DEFINE kept == Retained(c.targets, K)
            T == Append(kept, t)
<1>1. c.targets \in Seq(Target) /\ t \in Target
  BY ConfigFields, ConfigAssumption
<1>2. kept \in Seq(Target) /\ ToSet(kept) \subseteq ToSet(c.targets)
  BY <1>1, RetainedElements
<1>. HIDE DEF kept
<1>3. /\ T \in Seq(Target) /\ DOMAIN T = 1 .. Len(kept) + 1 /\ Len(kept) \in Nat
      /\ DOMAIN kept = 1 .. Len(kept)
      /\ \A n \in 1 .. Len(kept) + 1 : T[n] = IF n <= Len(kept) THEN kept[n] ELSE t
  BY <1>1, <1>2
<1>. HIDE DEF T
<1>4. ToSet(T) \subseteq ToSet(c.targets) \cup NewTargets
  <2>1. ASSUME NEW n \in DOMAIN T PROVE T[n] \in ToSet(c.targets) \cup NewTargets
    <3>1. CASE n <= Len(kept)
      <4>1. n \in DOMAIN kept /\ T[n] = kept[n]
        BY <1>3, <3>1
      <4>. QED
        BY <1>2, <4>1 DEF ToSet
    <3>2. CASE ~(n <= Len(kept))
      BY <1>3, <3>2
    <3>. QED
      BY <3>1, <3>2
  <2>. QED
    BY <2>1 DEF ToSet
<1>. QED
  BY <1>3, <1>4, Edited DEF T, kept

\* The inductive invariant: what is in force was accepted, and every
\* configuration descends from one that was loaded or sent.
PolicyInv ==
  /\ config \in Config /\ Descends(config)
  /\ health \subseteq Dev
  /\ inforce # NoPolicy =>
       /\ inforce.config \in Config /\ Descends(inforce.config)
       /\ inforce.health \subseteq Dev
       /\ Accepted(inforce.config, inforce.health)

LEMMA AppliedPolicy ==
  ASSUME PolicyInv, NEW c \in Config, Descends(c), NEW h \in SUBSET Dev, Apply(c, h)
  PROVE  inforce' # NoPolicy =>
           /\ inforce'.config \in Config /\ Descends(inforce'.config)
           /\ inforce'.health \subseteq Dev
           /\ Accepted(inforce'.config, inforce'.health)
<1>1. CASE Accepted(c, h) /\ inforce' = [config |-> c, health |-> h]
  BY <1>1
<1>2. CASE UNCHANGED inforce
  BY <1>2 DEF PolicyInv
<1>. QED
  BY <1>1, <1>2 DEF Apply

LEMMA SentDescends ==
  ASSUME NEW c \in Configs
  PROVE  c \in Config /\ Descends(c)
BY ConfigAssumption DEF Descends

LEMMA ProbedAreDevices ==
  ASSUME NEW c \in Config
  PROVE  Probed(c) \subseteq Dev
<1>1. \A n \in ToSet(c.networks) : ToSet(n.interfaces) \subseteq Dev
  BY ConfigFields, Elements DEF Network
<1>2. \A t \in ToSet(c.targets) : ToSet(t.via) \subseteq Dev
  BY ConfigFields, Elements DEF Target
<1>. QED
  BY <1>1, <1>2 DEF Probed

LEMMA PolicyInvariant ==
  Spec => []PolicyInv
<1>1. Init => PolicyInv
  <2>. SUFFICES ASSUME Init PROVE PolicyInv
    OBVIOUS
  <2>1. config \in Config /\ Descends(config) /\ health = {}
    BY SentDescends DEF Init
  <2>2. CASE Accepted(config, {})
    BY <2>1, <2>2 DEF Init, PolicyInv
  <2>3. CASE ~Accepted(config, {})
    BY <2>1, <2>3 DEF Init, PolicyInv
  <2>. QED
    BY <2>2, <2>3
<1>2. PolicyInv /\ [Next]_vars => PolicyInv'
  <2>. SUFFICES ASSUME PolicyInv, [Next]_vars PROVE PolicyInv'
    OBVIOUS
  <2>1. CASE ProbeRound
    <3>1. health' \in SUBSET Dev
      BY <2>1, ProbedAreDevices DEF ProbeRound, PolicyInv
    <3>2. config' = config /\ Apply(config, health')
      BY <2>1 DEF ProbeRound
    <3>3. config \in Config /\ Descends(config)
      BY DEF PolicyInv
    <3>. QED
      BY <3>1, <3>2, <3>3, AppliedPolicy DEF PolicyInv
  <2>2. ASSUME NEW c \in Configs \cup {config}, NEW dry_run \in BOOLEAN, ApplyRequest(c, dry_run)
        PROVE  PolicyInv'
    <3>1. c \in Config /\ Descends(c) /\ health \in SUBSET Dev
      BY SentDescends DEF PolicyInv
    <3>2. config' = c /\ health' = health
      BY <2>2 DEF ApplyRequest
    <3>3. CASE inforce' = inforce
      BY <3>1, <3>2, <3>3 DEF PolicyInv
    <3>4. CASE Apply(c, health)
      BY <3>1, <3>2, <3>4, AppliedPolicy DEF PolicyInv
    <3>. QED
      BY <2>2, <3>3, <3>4 DEF ApplyRequest
  <2>3. ASSUME NEW t \in NewTargets, AddTarget(t) \/ RemoveTarget(t) PROVE PolicyInv'
    <3>1. config \in Config /\ Descends(config) /\ Others(t) \in SUBSET DOMAIN config.targets
      BY DEF PolicyInv, Others
    <3>2. config' \in Config /\ Descends(config')
      <4>1. CASE AddTarget(t)
        BY <3>1, <4>1, AddedTo DEF AddTarget
      <4>2. CASE RemoveTarget(t)
        BY <3>1, <4>2, RemovedFrom DEF RemoveTarget
      <4>. QED
        BY <2>3, <4>1, <4>2
    <3>3. health' = health /\ inforce' = inforce
      BY <2>3 DEF AddTarget, RemoveTarget
    <3>. QED
      BY <3>2, <3>3 DEF PolicyInv
  <2>4. CASE Reset
    BY <2>4 DEF Reset, PolicyInv
  <2>5. CASE UNCHANGED vars
    BY <2>5 DEF vars, PolicyInv
  <2>. QED
    BY <2>1, <2>2, <2>3, <2>4, <2>5 DEF Next
<1>. QED
  BY <1>1, <1>2, PTL DEF Spec

-----------------------------------------------------------------------------
(* No two targets of the same text *)

DistinctTargets(c) ==
  \A j, k \in DOMAIN c.targets : SameText(c.targets[j], c.targets[k]) => j = k

LEMMA RetainedDistinct ==
  ASSUME NEW c \in Config, DistinctTargets(c), NEW K \in SUBSET DOMAIN c.targets,
         NEW m \in DOMAIN Retained(c.targets, K), NEW n \in DOMAIN Retained(c.targets, K),
         SameText(Retained(c.targets, K)[m], Retained(c.targets, K)[n])
  PROVE  m = n
<1>1. c.targets \in Seq(Target)
  BY ConfigFields
<1>2. PICK j \in K : Retained(c.targets, K)[m] = c.targets[j] /\ RankIn(K, j) = m
  BY <1>1, RetainedElements
<1>3. PICK k \in K : Retained(c.targets, K)[n] = c.targets[k] /\ RankIn(K, k) = n
  BY <1>1, RetainedElements
<1>4. SameText(c.targets[j], c.targets[k]) /\ j \in DOMAIN c.targets /\ k \in DOMAIN c.targets
  BY <1>2, <1>3
<1>5. j = k
  BY <1>4 DEF DistinctTargets
<1>. QED
  BY <1>2, <1>3, <1>5

\* An added target replaces the one of the same text.
LEMMA AddTargetDistinct ==
  ASSUME config \in Config, DistinctTargets(config), NEW t \in Target
  PROVE  LET T == Append(Retained(config.targets, Others(t)), t)
         IN \A m, n \in DOMAIN T : SameText(T[m], T[n]) => m = n
<1>. DEFINE kept == Retained(config.targets, Others(t))
            T == Append(kept, t)
            N == Len(kept)
<1>1. config.targets \in Seq(Target) /\ Others(t) \in SUBSET DOMAIN config.targets
  BY ConfigFields DEF Others
<1>2. kept \in Seq(Target) /\ \A n \in DOMAIN kept : ~SameText(t, kept[n])
  <2>1. \A n \in DOMAIN kept : \E k \in Others(t) : kept[n] = config.targets[k]
    BY <1>1, RetainedElements
  <2>. QED
    BY <1>1, <2>1, RetainedElements DEF Others
<1>3. \A m, n \in DOMAIN kept : SameText(kept[m], kept[n]) => m = n
  BY <1>1, RetainedDistinct
<1>. HIDE DEF kept
<1>4. /\ DOMAIN T = 1 .. N + 1 /\ N \in Nat /\ DOMAIN kept = 1 .. N
      /\ \A n \in 1 .. N + 1 : T[n] = IF n <= N THEN kept[n] ELSE t
  BY <1>2
<1>. HIDE DEF T, N
<1>5. \A n \in DOMAIN T : (n \in DOMAIN kept /\ T[n] = kept[n]) \/ (n = N + 1 /\ T[n] = t)
  BY <1>4
<1>6. \A n \in DOMAIN kept : ~SameText(kept[n], t)
  BY <1>2 DEF SameText
<1>7. \A m, n \in DOMAIN T : SameText(T[m], T[n]) => m = n
  BY <1>2, <1>3, <1>5, <1>6
<1>. QED
  BY <1>7 DEF T, kept

LEMMA DistinctNext ==
  ASSUME \A c \in Configs : DistinctTargets(c), PolicyInv, DistinctTargets(config), [Next]_vars
  PROVE  DistinctTargets(config')
<1>0. config \in Config
  BY DEF PolicyInv
<1>1. CASE ProbeRound \/ Reset \/ UNCHANGED vars
  <2>1. config' = config
    BY <1>1 DEF ProbeRound, Reset, vars
  <2>. QED
    BY <2>1
<1>2. ASSUME NEW c \in Configs \cup {config}, NEW dry_run \in BOOLEAN, ApplyRequest(c, dry_run)
      PROVE  DistinctTargets(config')
  BY <1>2 DEF ApplyRequest
<1>3. ASSUME NEW t \in NewTargets, AddTarget(t)
      PROVE  DistinctTargets(config')
  <2>1. config'.targets = Append(Retained(config.targets, Others(t)), t)
    BY <1>0, <1>3 DEF AddTarget, Config
  <2>2. t \in Target
    BY ConfigAssumption
  <2>. QED
    BY <1>0, <2>1, <2>2, AddTargetDistinct DEF DistinctTargets
<1>4. ASSUME NEW t \in NewTargets, RemoveTarget(t)
      PROVE  DistinctTargets(config')
  <2>1. config'.targets = Retained(config.targets, Others(t))
    BY <1>0, <1>4 DEF RemoveTarget, Config
  <2>2. Others(t) \in SUBSET DOMAIN config.targets
    BY DEF Others
  <2>. QED
    BY <1>0, <2>1, <2>2, RetainedDistinct DEF DistinctTargets
<1>. QED
  BY <1>1, <1>2, <1>3, <1>4 DEF Next

-----------------------------------------------------------------------------
(* Theorems *)

\* The types of the state, and no two targets of the same text, if none is
\* loaded or sent with two: adding replaces, however often and in whatever
\* order targets are added and removed (daemon.rs:392).
THEOREM TypeCorrect ==
  ASSUME \A c \in Configs : DistinctTargets(c)
  PROVE  Spec => []TypeOK
<1>1. Init => DistinctTargets(config)
  BY DEF Init
<1>2. PolicyInv /\ DistinctTargets(config) /\ [Next]_vars => DistinctTargets(config)'
  <2>. SUFFICES ASSUME PolicyInv, DistinctTargets(config), [Next]_vars
                PROVE  DistinctTargets(config')
    BY DEF DistinctTargets
  <2>. QED
    BY DistinctNext
<1>3. PolicyInv /\ DistinctTargets(config) => TypeOK
  BY DEF PolicyInv, DistinctTargets, TypeOK
<1>. QED
  BY <1>1, <1>2, <1>3, PolicyInvariant, PTL DEF Spec

\* What stands between the configurations and the properties below; nothing in
\* the code checks it (README.md).
LabHypothesis ==
  \A c \in Configs : NoSuffix(c) /\ InterfacesListed(c) /\ WanApart(c)

\* A lab target leaves by a LAN interface or not at all, whatever is down,
\* nested, or answered by several rules.
THEOREM LabNeverOnWanAlways ==
  ASSUME LabHypothesis
  PROVE  Spec => []LabNeverOnWan
<1>1. PolicyInv => LabNeverOnWan
  <2>. SUFFICES ASSUME PolicyInv, inforce # NoPolicy, NEW a \in Lab(inforce.config),
                       NEW i \in Leaves(a)
                PROVE  i # Wan
    BY DEF LabNeverOnWan
  <2>. DEFINE c == inforce.config
  <2>1. c \in Config /\ Descends(c) /\ Accepted(c, inforce.health)
    BY DEF PolicyInv
  <2>2. NoSuffix(c) /\ InterfacesListed(c) /\ WanApart(c)
    BY <2>1 DEF Descends, LabHypothesis, NoSuffix, InterfacesListed, WanApart
  <2>. QED
    BY <2>1, <2>2, LabKeptOffWan DEF Leaves
<1>. QED
  BY <1>1, PolicyInvariant, PTL

\* A blacklisted address never leaves by a LAN interface, whatever targets are
\* added: an apply that would send it there is refused.
THEOREM BlacklistNeverOnLanAlways ==
  ASSUME \A c \in Configs : InterfacesListed(c)
  PROVE  Spec => []BlacklistNeverOnLan
<1>1. PolicyInv => BlacklistNeverOnLan
  <2>. SUFFICES ASSUME PolicyInv, inforce # NoPolicy, NEW a, Blacklisted(inforce.config, a),
                       NEW i \in Leaves(a)
                PROVE  i \in {Wan, NoDev}
    BY DEF BlacklistNeverOnLan
  <2>. DEFINE c == inforce.config
  <2>1. c \in Config /\ Descends(c) /\ Accepted(c, inforce.health)
    BY DEF PolicyInv
  <2>2. InterfacesListed(c)
    BY <2>1 DEF Descends, InterfacesListed
  <2>. QED
    BY <2>1, <2>2, BlacklistKeptOffLan DEF Leaves
<1>. QED
  BY <1>1, PolicyInvariant, PTL

\* What the table sends out of a LAN interface for a target or a LAN domain,
\* the firewall lets through, if all targets are written as prefixes.
THEOREM RoutedIsAllowedAlways ==
  ASSUME \A c \in Configs : AllPrefixes(c), \A t \in NewTargets : ~t.bare
  PROVE  Spec => []RoutedIsAllowed
<1>1. PolicyInv => RoutedIsAllowed
  <2>. SUFFICES ASSUME PolicyInv, inforce # NoPolicy,
                       NEW a \in Authorized(inforce.config) \ NetworkAnswers(inforce.config),
                       NEW i \in Leaves(a) \ {Wan, NoDev}
                PROVE  FirewallAllows(inforce.config, inforce.health, i, a)
    BY DEF RoutedIsAllowed
  <2>. DEFINE c == inforce.config
  <2>1. c \in Config /\ Descends(c) /\ StrictPolicy(c)
    BY DEF PolicyInv, Accepted
  <2>2. AllPrefixes(c)
    BY <2>1 DEF Descends, AllPrefixes
  <2>. QED
    BY <2>1, <2>2, RoutedAllowed DEF Leaves
<1>. QED
  BY <1>1, PolicyInvariant, PTL

\* decide() explains what the kernel does with every unambiguous query.
THEOREM ExplainAgreesAlways ==
  Spec => []ExplainAgrees
<1>1. PolicyInv => ExplainAgrees
  <2>. SUFFICES ASSUME PolicyInv, inforce # NoPolicy, NEW q \in Queries(inforce.config),
                       Unambiguous(inforce.config, q)
                PROVE  Leaves(q.ip) = {Decide(inforce.config, inforce.health, q)}
    BY DEF ExplainAgrees
  <2>1. inforce.config \in Config /\ StrictPolicy(inforce.config)
    BY DEF PolicyInv, Accepted
  <2>. QED
    BY <2>1, ExplainedAsRouted DEF Leaves
<1>. QED
  BY <1>1, PolicyInvariant, PTL

\* A failover moves destinations between interfaces; it adds and drops none.
THEOREM FailoverKeepsCoverAlways ==
  Spec => FailoverKeepsCover
<1>1. PolicyInv /\ inforce # NoPolicy => Destinations(inforce) = CoverOf(inforce.config)
  BY FibCovers DEF PolicyInv, Accepted, Destinations
<1>2. PolicyInv' /\ inforce' # NoPolicy => Destinations(inforce') = CoverOf(inforce'.config)
  BY FibCovers DEF PolicyInv, Accepted, Destinations
<1>3. PolicyInv /\ PolicyInv'
        => ((/\ inforce' # inforce
             /\ inforce # NoPolicy /\ inforce' # NoPolicy
             /\ inforce'.config = inforce.config)
            => Destinations(inforce') = Destinations(inforce))
  BY <1>1, <1>2
<1>. QED
  BY <1>3, PolicyInvariant, PTL DEF FailoverKeepsCover
=============================================================================
