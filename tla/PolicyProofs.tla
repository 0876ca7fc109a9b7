---------------------------- MODULE PolicyProofs ----------------------------
(***************************************************************************)
(* Lemmas about module Policy, for modules Daemon and Setup: where a       *)
(* packet leaves comes from a blacklist entry or from a rule that covers   *)
(* its address, whatever is down, whichever of the routes of one kernel    *)
(* key is in the table and whichever prefix is the longest (EgressOrigin). *)
(***************************************************************************)
EXTENDS Policy, Positions

PolicyRule ==
  [source : 1 .. 4, nets : SUBSET Dst, names : SUBSET Domain, via : Seq(Dev),
   fallback : {"drop", "wan"}]

\* The destinations that a configuration covers.
CoverOf(c) == c.blacklist \cup UNION {r.nets : r \in ToSet(Rules(c))}

-----------------------------------------------------------------------------
(* Rules *)

LEMMA Elements ==
  ASSUME NEW S, NEW s \in Seq(S)
  PROVE  ToSet(s) \subseteq S
BY DEF ToSet

\* The fields of a configuration.
LEMMA ConfigFields ==
  ASSUME NEW c \in Config
  PROVE  /\ c.targets \in Seq(Target) /\ ToSet(c.targets) \subseteq Target
         /\ c.lan_domains \in Seq(Domain) /\ ToSet(c.lan_domains) \subseteq Domain
         /\ c.networks \in Seq(Network) /\ ToSet(c.networks) \subseteq Network
         /\ c.lan_interfaces \in Seq(Dev) /\ ToSet(c.lan_interfaces) \subseteq Dev
         /\ c.blacklist \subseteq Dst
         /\ \A d \in Domain : c.local_dns[d] \in Seq(Addr) /\ ToSet(c.local_dns[d]) \subseteq Addr
<1>1. /\ c.targets \in Seq(Target) /\ c.lan_domains \in Seq(Domain)
      /\ c.networks \in Seq(Network) /\ c.lan_interfaces \in Seq(Dev)
      /\ c.blacklist \subseteq Dst /\ c.local_dns \in [Domain -> Seq(Addr)]
  BY DEF Config
<1>. QED
  BY <1>1, Elements

LEMMA HostsArePrefixes ==
  ASSUME NEW c \in Config, NEW d \in Domain
  PROVE  Hosts(c, d) \subseteq Dst
<1>1. ToSet(c.local_dns[d]) \subseteq Addr
  BY ConfigFields
<1>2. \A a \in Addr : {a} \in Dst
  BY PrefixAssumption
<1>. QED
  BY <1>1, <1>2 DEF Hosts

LEMMA TargetRuleType ==
  ASSUME NEW t \in Target
  PROVE  TargetRule(t) \in PolicyRule
<1>1. t.net \in Dst /\ t.via \in Seq(Dev) /\ t.fallback \in {"drop", "wan"}
  BY DEF Target
<1>. QED
  BY <1>1 DEF TargetRule, PolicyRule, ManualExact, ManualCidr

LEMMA DomainRuleType ==
  ASSUME NEW c \in Config, NEW d \in Domain
  PROVE  DomainRule(c, d) \in PolicyRule
BY ConfigFields, HostsArePrefixes DEF DomainRule, PolicyRule, ManualDomain

LEMMA NetworkRuleType ==
  ASSUME NEW c \in Config, NEW n \in Network
  PROVE  NetworkRule(c, n) \in PolicyRule
<1>1. n.names \subseteq Domain /\ n.interfaces \in Seq(Dev)
  BY DEF Network
<1>2. UNION {Hosts(c, d) : d \in n.names} \subseteq Dst
  BY <1>1, HostsArePrefixes
<1>. DEFINE nets == IF n.suffix THEN {} ELSE UNION {Hosts(c, d) : d \in n.names}
            source == IF n.suffix THEN ManualSuffix ELSE ManualDomain
<1>3. nets \in SUBSET Dst /\ source \in 1 .. 4
  BY <1>2 DEF ManualSuffix, ManualDomain
<1>4. NetworkRule(c, n) =
        [source |-> source, nets |-> nets, names |-> n.names, via |-> n.interfaces,
         fallback |-> "drop"]
  BY DEF NetworkRule
<1>. HIDE DEF nets, source
<1>. QED
  BY <1>1, <1>3, <1>4 DEF PolicyRule

\* from_config() makes one rule of each target, domain and network.
LEMMA RulesOfConfig ==
  ASSUME NEW c \in Config
  PROVE  /\ Rules(c) \in Seq(PolicyRule)
         /\ ToSet(Rules(c)) = {TargetRule(t) : t \in ToSet(c.targets)}
                              \cup {DomainRule(c, d) : d \in ToSet(c.lan_domains)}
                              \cup {NetworkRule(c, n) : n \in ToSet(c.networks)}
<1>. DEFINE ofTargets == [k \in DOMAIN c.targets |-> TargetRule(c.targets[k])]
            ofDomains == [k \in DOMAIN c.lan_domains |-> DomainRule(c, c.lan_domains[k])]
            ofNetworks == [k \in DOMAIN c.networks |-> NetworkRule(c, c.networks[k])]
            T == {TargetRule(t) : t \in ToSet(c.targets)}
            D == {DomainRule(c, d) : d \in ToSet(c.lan_domains)}
            N == {NetworkRule(c, n) : n \in ToSet(c.networks)}
<1>1. /\ ofTargets \in Seq(PolicyRule)
      /\ ToSet(ofTargets) = T
  <2>1. /\ Len(c.targets) \in Nat /\ DOMAIN c.targets = 1 .. Len(c.targets)
        /\ \A k \in DOMAIN c.targets : c.targets[k] \in Target
    BY ConfigFields
  <2>2. ofTargets \in [1 .. Len(c.targets) -> PolicyRule]
    BY <2>1, TargetRuleType
  <2>3. ofTargets \in Seq(PolicyRule)
    BY <2>1, <2>2
  <2>. QED
    BY <2>3 DEF ToSet
<1>2. /\ ofDomains \in Seq(PolicyRule)
      /\ ToSet(ofDomains) = D
  <2>1. /\ Len(c.lan_domains) \in Nat /\ DOMAIN c.lan_domains = 1 .. Len(c.lan_domains)
        /\ \A k \in DOMAIN c.lan_domains : c.lan_domains[k] \in Domain
    BY ConfigFields
  <2>2. ofDomains \in [1 .. Len(c.lan_domains) -> PolicyRule]
    BY <2>1, DomainRuleType
  <2>3. ofDomains \in Seq(PolicyRule)
    BY <2>1, <2>2
  <2>. QED
    BY <2>3 DEF ToSet
<1>3. /\ ofNetworks \in Seq(PolicyRule)
      /\ ToSet(ofNetworks) = N
  <2>1. /\ Len(c.networks) \in Nat /\ DOMAIN c.networks = 1 .. Len(c.networks)
        /\ \A k \in DOMAIN c.networks : c.networks[k] \in Network
    BY ConfigFields
  <2>2. ofNetworks \in [1 .. Len(c.networks) -> PolicyRule]
    BY <2>1, NetworkRuleType
  <2>3. ofNetworks \in Seq(PolicyRule)
    BY <2>1, <2>2
  <2>. QED
    BY <2>3 DEF ToSet
<1>4. Rules(c) = (ofTargets \o ofDomains) \o ofNetworks
  BY DEF Rules
<1>. SUFFICES Rules(c) \in Seq(PolicyRule) /\ ToSet(Rules(c)) = T \cup D \cup N
  OBVIOUS
<1>. HIDE DEF ofTargets, ofDomains, ofNetworks, T, D, N
<1>. DEFINE both == ofTargets \o ofDomains
<1>5. both \in Seq(PolicyRule) /\ ToSet(both) = ToSet(ofTargets) \cup ToSet(ofDomains)
  BY <1>1, <1>2, ElementsOfConcat
<1>. HIDE DEF both
<1>6. /\ both \o ofNetworks \in Seq(PolicyRule)
      /\ ToSet(both \o ofNetworks) = ToSet(both) \cup ToSet(ofNetworks)
  BY <1>3, <1>5, ElementsOfConcat
<1>. QED
  BY <1>1, <1>2, <1>3, <1>4, <1>5, <1>6 DEF both

LEMMA RuleType ==
  ASSUME NEW c \in Config, NEW r \in ToSet(Rules(c))
  PROVE  r \in PolicyRule
BY RulesOfConfig, Elements

\* In an accepted configuration every rule drops.
LEMMA RulesDrop ==
  ASSUME NEW c \in Config, StrictPolicy(c), NEW r \in ToSet(Rules(c))
  PROVE  r.fallback = "drop"
<1>1. CASE \E t \in ToSet(c.targets) : r = TargetRule(t)
  BY <1>1 DEF StrictPolicy, TargetRule
<1>2. CASE \E d \in ToSet(c.lan_domains) : r = DomainRule(c, d)
  BY <1>2 DEF DomainRule
<1>3. CASE \E n \in ToSet(c.networks) : r = NetworkRule(c, n)
  BY <1>3 DEF NetworkRule
<1>. QED
  BY <1>1, <1>2, <1>3, RulesOfConfig

\* The interface chosen for a rule is one of its candidates.
LEMMA ChosenIsCandidate ==
  ASSUME NEW r \in PolicyRule, NEW h
  PROVE  Chosen(r, h) = NoDev \/ Chosen(r, h) \in ToSet(r.via)
<1>. DEFINE up == {k \in DOMAIN r.via : r.via[k] \in h}
<1>1. r.via \in Seq(Dev)
  BY DEF PolicyRule
<1>2. CASE up = {}
  BY <1>2 DEF Chosen
<1>3. CASE up # {}
  <2>1. up \in SUBSET Nat
    BY <1>1
  <2>2. Min(up) \in up
    <3>. HIDE DEF up
    <3>. QED
      BY <1>3, <2>1, LeastNumber
  <2>3. Min(up) \in DOMAIN r.via
    BY <2>2
  <2>4. Chosen(r, h) = r.via[Min(up)]
    BY <1>3 DEF Chosen
  <2>. QED
    BY <2>3, <2>4 DEF ToSet
<1>. QED
  BY <1>2, <1>3

-----------------------------------------------------------------------------
(* Routes *)

\* What the kernel keeps of a route of the policy.
LEMMA InstalledRoute ==
  ASSUME NEW p, NEW dev, NEW gw, NEW m \in Nat
  PROVE  LET e == Installed(RouteTo(p, dev, gw, m))
         IN /\ e.destination = p /\ e.output_interface = dev
            /\ e.table = Isolated /\ e.metric \in Nat
<1>1. CASE dev = NoDev
  BY <1>1 DEF Installed, RouteTo
<1>2. CASE dev # NoDev
  BY <1>2 DEF Installed, RouteTo
<1>. QED
  BY <1>1, <1>2

\* A generated route is pinned to the WAN or comes from a rule.
LEMMA GeneratedRoutes ==
  ASSUME NEW c \in Config, NEW h, StrictPolicy(c)
  PROVE  /\ \A x \in Generated(c, h) :
              \/ \E p \in c.blacklist : x = RouteTo(p, Wan, WanGateway, 1)
              \/ \E r \in ToSet(Rules(c)) : \E p \in r.nets :
                   x = RouteTo(p, Chosen(r, h), NoGateway, IF IsHost(p) THEN 50 ELSE 100)
         /\ \A p \in c.blacklist : RouteTo(p, Wan, WanGateway, 1) \in Generated(c, h)
         /\ \A r \in ToSet(Rules(c)) : \A p \in r.nets :
              RouteTo(p, Chosen(r, h), NoGateway, IF IsHost(p) THEN 50 ELSE 100) \in Generated(c, h)
<1>1. \A r \in ToSet(Rules(c)) :
        RuleRoutes(r, h) =
          {RouteTo(p, Chosen(r, h), NoGateway, IF IsHost(p) THEN 50 ELSE 100) : p \in r.nets}
  BY RulesDrop DEF RuleRoutes
<1>. QED
  BY <1>1 DEF Generated, Pinned

\* An entry of the isolated table is a blacklist entry by way of the WAN, or a
\* destination of a rule by way of the interface chosen for that rule.
EntryOf(c, h, e) ==
  \/ e.destination \in c.blacklist /\ e.output_interface = Wan
  \/ \E r \in ToSet(Rules(c)) : e.destination \in r.nets /\ e.output_interface = Chosen(r, h)

LEMMA InstalledEntry ==
  ASSUME NEW c \in Config, NEW h, StrictPolicy(c), NEW x \in Generated(c, h)
  PROVE  LET e == Installed(x)
         IN /\ EntryOf(c, h, e)
            /\ e.destination \in CoverOf(c) /\ e.table = Isolated /\ e.metric \in Nat
<1>1. CASE \E p \in c.blacklist : x = RouteTo(p, Wan, WanGateway, 1)
  <2>1. PICK p \in c.blacklist : x = RouteTo(p, Wan, WanGateway, 1)
    BY <1>1
  <2>. QED
    BY <2>1, InstalledRoute DEF EntryOf, CoverOf
<1>2. CASE \E r \in ToSet(Rules(c)) : \E p \in r.nets :
             x = RouteTo(p, Chosen(r, h), NoGateway, IF IsHost(p) THEN 50 ELSE 100)
  <2>0. PICK r \in ToSet(Rules(c)) : \E p \in r.nets :
               x = RouteTo(p, Chosen(r, h), NoGateway, IF IsHost(p) THEN 50 ELSE 100)
    BY <1>2
  <2>1. PICK p \in r.nets :
               x = RouteTo(p, Chosen(r, h), NoGateway, IF IsHost(p) THEN 50 ELSE 100)
    BY <2>0
  <2>2. (IF IsHost(p) THEN 50 ELSE 100) \in Nat
    OBVIOUS
  <2>. QED
    BY <2>1, <2>2, InstalledRoute DEF EntryOf, CoverOf
<1>. QED
  BY <1>1, <1>2, GeneratedRoutes

LEMMA CoveredArePrefixes ==
  ASSUME NEW c \in Config
  PROVE  CoverOf(c) \subseteq Dst
BY RuleType, ConfigFields DEF CoverOf, PolicyRule

-----------------------------------------------------------------------------
(* The order of the rules *)

\* Where a rule stands, as a number: by source, then by position.
Place(c, k) == Rules(c)[k].source * (Len(Rules(c)) + 1) + k
Places(c) == 5 * (Len(Rules(c)) + 1)

LEMMA PlaceOfRule ==
  ASSUME NEW c \in Config, NEW k \in DOMAIN Rules(c)
  PROVE  /\ Place(c, k) \in Nat /\ Place(c, k) > 0 /\ Place(c, k) <= Places(c)
         /\ Places(c) \in Nat
<1>. DEFINE N == Len(Rules(c))
            s == Rules(c)[k].source
<1>1. N \in Nat /\ k \in 1 .. N /\ Rules(c)[k] \in PolicyRule
  BY RulesOfConfig
<1>2. s \in 1 .. 4
  BY <1>1 DEF PolicyRule
<1>. HIDE DEF N, s
<1>3. s = 1 \/ s = 2 \/ s = 3 \/ s = 4
  BY <1>2
<1>4. s * (N + 1) + k \in Nat /\ s * (N + 1) + k > 0 /\ s * (N + 1) + k <= 5 * (N + 1)
  BY <1>1, <1>3
<1>. QED
  BY <1>1, <1>4 DEF Place, Places, N, s

LEMMA PlacesInOrder ==
  ASSUME NEW c \in Config, NEW j \in DOMAIN Rules(c), NEW k \in DOMAIN Rules(c)
  PROVE  /\ Before(c, j, k) <=> Place(c, j) < Place(c, k)
         /\ Place(c, j) = Place(c, k) => j = k
<1>. DEFINE N == Len(Rules(c))
            s == Rules(c)[j].source
            t == Rules(c)[k].source
<1>1. N \in Nat /\ j \in 1 .. N /\ k \in 1 .. N
  BY RulesOfConfig
<1>2. Rules(c)[j] \in PolicyRule /\ Rules(c)[k] \in PolicyRule
  BY RulesOfConfig
<1>3. s \in 1 .. 4 /\ t \in 1 .. 4
  BY <1>2 DEF PolicyRule
<1>4. Before(c, j, k) <=> s < t \/ (s = t /\ j < k)
  BY DEF Before
<1>. HIDE DEF N, s, t
<1>5. s = 1 \/ s = 2 \/ s = 3 \/ s = 4
  BY <1>3
<1>6. t = 1 \/ t = 2 \/ t = 3 \/ t = 4
  BY <1>3
<1>7. (s < t \/ (s = t /\ j < k)) <=> s * (N + 1) + j < t * (N + 1) + k
  <2>1. CASE s = 1
    BY <1>1, <1>6, <2>1
  <2>2. CASE s = 2
    BY <1>1, <1>6, <2>2
  <2>3. CASE s = 3
    BY <1>1, <1>6, <2>3
  <2>4. CASE s = 4
    BY <1>1, <1>6, <2>4
  <2>. QED
    BY <1>5, <2>1, <2>2, <2>3, <2>4
<1>8. s * (N + 1) + j = t * (N + 1) + k => j = k
  <2>1. CASE s = 1
    BY <1>1, <1>6, <2>1
  <2>2. CASE s = 2
    BY <1>1, <1>6, <2>2
  <2>3. CASE s = 3
    BY <1>1, <1>6, <2>3
  <2>4. CASE s = 4
    BY <1>1, <1>6, <2>4
  <2>. QED
    BY <1>5, <2>1, <2>2, <2>3, <2>4
<1>. QED
  BY <1>4, <1>7, <1>8 DEF Place, N, s, t

\* Of some rules, one stands first.
LEMMA FirstRule ==
  ASSUME NEW c \in Config, NEW K \in SUBSET DOMAIN Rules(c), K # {}
  PROVE  FirstOf(c, K) \in K
<1>. DEFINE places == {Place(c, k) : k \in K}
<1>1. places \in SUBSET Nat /\ places # {}
  BY PlaceOfRule
<1>2. Min(places) \in places /\ \A n \in places : Min(places) <= n
  <2>. HIDE DEF places
  <2>. QED
    BY <1>1, LeastNumber
<1>3. PICK k \in K : Min(places) = Place(c, k)
  BY <1>2
<1>4. ASSUME NEW j \in K \ {k} PROVE Before(c, k, j)
  <2>1. Place(c, k) <= Place(c, j) /\ Place(c, k) # Place(c, j)
    BY <1>2, <1>3, PlacesInOrder
  <2>2. Place(c, k) \in Nat /\ Place(c, j) \in Nat
    BY PlaceOfRule
  <2>3. Place(c, k) < Place(c, j)
    BY <2>1, <2>2
  <2>. QED
    BY <2>3, PlacesInOrder
<1>. QED
  BY <1>4 DEF FirstOf

-----------------------------------------------------------------------------
(* The entries of the table *)

LEMMA EntriesOfFib ==
  ASSUME NEW c \in Config, NEW h, StrictPolicy(c), NEW e \in Fib(c, h)
  PROVE  /\ EntryOf(c, h, e)
         /\ e.destination \in CoverOf(c) /\ e.table = Isolated /\ e.metric \in Nat
<1>1. PICK x \in Generated(c, h) : e = Installed(x)
  BY DEF Fib
<1>. QED
  BY <1>1, InstalledEntry

\* The table holds the destinations of the configuration, whatever is down.
LEMMA FibCovers ==
  ASSUME NEW c \in Config, NEW h, StrictPolicy(c)
  PROVE  {e.destination : e \in Fib(c, h)} = CoverOf(c)
<1>1. ASSUME NEW p \in CoverOf(c) PROVE \E e \in Fib(c, h) : e.destination = p
  <2>1. \E x \in Generated(c, h) : Installed(x).destination = p
    <3>1. CASE p \in c.blacklist
      BY <3>1, GeneratedRoutes, InstalledRoute
    <3>2. CASE \E r \in ToSet(Rules(c)) : p \in r.nets
      <4>1. PICK r \in ToSet(Rules(c)) : p \in r.nets
        BY <3>2
      <4>2. (IF IsHost(p) THEN 50 ELSE 100) \in Nat
        OBVIOUS
      <4>3. RouteTo(p, Chosen(r, h), NoGateway, IF IsHost(p) THEN 50 ELSE 100)
              \in Generated(c, h)
        BY <4>1, GeneratedRoutes
      <4>. QED
        BY <4>2, <4>3, InstalledRoute
    <3>. QED
      BY <3>1, <3>2 DEF CoverOf
  <2>2. PICK x \in Generated(c, h) : Installed(x).destination = p
    BY <2>1
  <2>. QED
    BY <2>2 DEF Fib
<1>2. \A e \in Fib(c, h) : e.destination \in CoverOf(c)
  BY EntriesOfFib
<1>. QED
  BY <1>1, <1>2

-----------------------------------------------------------------------------
(* Where a packet leaves *)

\* A covered address has a longest prefix of the lowest metric.
LEMMA LookupFinds ==
  ASSUME NEW c \in Config, NEW h, StrictPolicy(c),
         NEW p \in CoverOf(c), NEW a \in p
  PROVE  Lookup(c, h, a) # {}
<1>. DEFINE covering == {e \in Fib(c, h) : a \in e.destination}
            prefixes == {e.destination : e \in covering}
<1>1. \A e \in covering : e.destination \in Dst /\ a \in e.destination /\ e.metric \in Nat
  BY EntriesOfFib, CoveredArePrefixes
<1>2. prefixes # {}
  <2>1. PICK e \in Fib(c, h) : e.destination = p
    BY FibCovers
  <2>. QED
    BY <2>1
<1>3. prefixes \subseteq FiniteSubsetsOf(Addr)
  <2>1. \A d \in Dst : d \in SUBSET Addr /\ IsFiniteSet(d)
    BY PrefixAssumption, FS_Subset
  <2>. QED
    BY <1>1, <2>1 DEF FiniteSubsetsOf
<1>4. PICK d \in prefixes : \A x \in prefixes : ~(<<x, d>> \in StrictSubsetOrdering(Addr))
  <2>1. IsWellFoundedOn(StrictSubsetOrdering(Addr), FiniteSubsetsOf(Addr))
    BY FS_StrictSubsetOrderingWellFounded
  <2>. HIDE DEF prefixes
  <2>. QED
    BY <1>2, <1>3, <2>1, WFMin
<1>5. \A f \in covering : d \subseteq f.destination
  <2>. SUFFICES ASSUME NEW f \in covering PROVE d \subseteq f.destination
    OBVIOUS
  <2>1. d \in Dst /\ f.destination \in Dst /\ a \in d \cap f.destination
    BY <1>1
  <2>2. d \subseteq f.destination \/ f.destination \subseteq d
    BY <2>1, PrefixAssumption
  <2>3. CASE f.destination \subseteq d /\ f.destination # d
    <3>1. d \in SUBSET Addr /\ f.destination \in SUBSET Addr
      BY <2>1, PrefixAssumption
    <3>2. <<f.destination, d>> \in StrictSubsetOrdering(Addr)
      BY <2>3, <3>1 DEF StrictSubsetOrdering
    <3>. QED
      BY <1>4, <3>2
  <2>. QED
    BY <2>2, <2>3
<1>. DEFINE longest == {e \in covering : e.destination = d}
            metrics == {e.metric : e \in longest}
<1>6. Min(metrics) \in metrics /\ \A n \in metrics : Min(metrics) <= n
  <2>1. metrics \in SUBSET Nat /\ metrics # {}
    BY <1>1
  <2>. HIDE DEF metrics
  <2>. QED
    BY <2>1, LeastNumber
<1>7. PICK e \in longest : e.metric = Min(metrics)
  BY <1>6
<1>8. e \in covering /\ e.destination = d
  BY <1>7
<1>9. \A f \in covering : e.destination = f.destination => e.metric <= f.metric
  BY <1>6, <1>7
<1>10. e \in Lookup(c, h, a)
  BY <1>5, <1>8, <1>9 DEF Lookup
<1>. QED
  BY <1>10

\* An address that no prefix covers leaves by the WAN, as table main has it.
LEMMA EgressOutside ==
  ASSUME NEW c \in Config, NEW h, StrictPolicy(c), NEW a,
         \A p \in CoverOf(c) : a \notin p
  PROVE  Egress(c, h, a) = {Wan}
<1>1. Lookup(c, h, a) = {}
  BY EntriesOfFib DEF Lookup
<1>. QED
  BY <1>1 DEF Egress

\* An address that some prefix covers leaves by the WAN because of a blacklist
\* entry, or by the interface chosen for a rule that covers it.
LEMMA EgressOrigin ==
  ASSUME NEW c \in Config, NEW h, StrictPolicy(c),
         NEW p \in CoverOf(c), NEW a \in p, NEW i \in Egress(c, h, a)
  PROVE  \E q : /\ a \in q /\ q \in Dst
                /\ \/ q \in c.blacklist /\ i = Wan
                   \/ \E r \in ToSet(Rules(c)) : q \in r.nets /\ i = Chosen(r, h)
<1>1. Lookup(c, h, a) # {}
  BY LookupFinds
<1>2. PICK e \in Lookup(c, h, a) : i = e.output_interface
  BY <1>1 DEF Egress
<1>3. e \in Fib(c, h) /\ a \in e.destination
  BY <1>2 DEF Lookup
<1>4. EntryOf(c, h, e) /\ e.destination \in Dst
  BY <1>3, EntriesOfFib, CoveredArePrefixes
<1>. QED
  BY <1>2, <1>3, <1>4 DEF EntryOf

\* A packet leaves by some interface, or is refused.
LEMMA SomeEgress ==
  ASSUME NEW c, NEW h, NEW a
  PROVE  Egress(c, h, a) # {}
BY DEF Egress

-----------------------------------------------------------------------------
(* What an accepted policy keeps apart *)

\* Two prefixes with an address in common overlap.
LEMMA CommonAddress ==
  ASSUME NEW p \in Dst, NEW q \in Dst, NEW a, a \in p, a \in q
  PROVE  NetsOverlap(p, q)
BY PrefixAssumption DEF NetsOverlap

\* No target and no LAN domain claims a blacklisted address.
LEMMA AuthorizedNotBlacklisted ==
  ASSUME NEW c \in Config, StrictPolicy(c), NEW a \in Authorized(c)
  PROVE  ~Blacklisted(c, a)
<1>1. CASE \E t \in ToSet(c.targets) : a \in t.net
  <2>1. PICK t \in ToSet(c.targets) : a \in t.net
    BY <1>1
  <2>2. t.net \in Dst /\ \A p \in c.blacklist : p \in Dst /\ ~NetsOverlap(p, t.net)
    BY ConfigFields DEF StrictPolicy, Target
  <2>. QED
    BY <2>1, <2>2, CommonAddress DEF Blacklisted
<1>2. CASE \E d \in ToSet(c.lan_domains) : a \in ToSet(c.local_dns[d])
  BY <1>2 DEF StrictPolicy
<1>. QED
  BY <1>1, <1>2 DEF Authorized

\* Every address that one claims is covered.
LEMMA AuthorizedCovered ==
  ASSUME NEW c \in Config, NEW a \in Authorized(c)
  PROVE  \E p \in CoverOf(c) : a \in p
<1>1. CASE \E t \in ToSet(c.targets) : a \in t.net
  <2>1. PICK t \in ToSet(c.targets) : a \in t.net
    BY <1>1
  <2>2. TargetRule(t) \in ToSet(Rules(c)) /\ t.net \in TargetRule(t).nets
    BY RulesOfConfig DEF TargetRule
  <2>. QED
    BY <2>1, <2>2 DEF CoverOf
<1>2. CASE \E d \in ToSet(c.lan_domains) : a \in ToSet(c.local_dns[d])
  <2>1. PICK d \in ToSet(c.lan_domains) : a \in ToSet(c.local_dns[d])
    BY <1>2
  <2>2. DomainRule(c, d) \in ToSet(Rules(c)) /\ {a} \in DomainRule(c, d).nets
    BY <2>1, RulesOfConfig DEF DomainRule, Hosts
  <2>. QED
    BY <2>2 DEF CoverOf
<1>. QED
  BY <1>1, <1>2 DEF Authorized

\* The candidates of a rule with routes are LAN interfaces, if those of
\* networks are that list names.
InterfacesListed(c) ==
  \A n \in ToSet(c.networks) :
    n.names # {} => ToSet(n.interfaces) \subseteq ToSet(c.lan_interfaces)

LEMMA CandidatesAreLan ==
  ASSUME NEW c \in Config, StrictPolicy(c), InterfacesListed(c),
         NEW r \in ToSet(Rules(c)), r.nets # {}
  PROVE  ToSet(r.via) \subseteq ToSet(c.lan_interfaces)
<1>1. CASE \E t \in ToSet(c.targets) : r = TargetRule(t)
  BY <1>1 DEF StrictPolicy, TargetRule
<1>2. CASE \E d \in ToSet(c.lan_domains) : r = DomainRule(c, d)
  BY <1>2 DEF DomainRule
<1>3. CASE \E n \in ToSet(c.networks) : r = NetworkRule(c, n)
  <2>1. PICK n \in ToSet(c.networks) : r = NetworkRule(c, n)
    BY <1>3
  <2>2. n.names # {} /\ r.via = n.interfaces
    BY <2>1 DEF NetworkRule
  <2>. QED
    BY <2>1, <2>2 DEF InterfacesListed
<1>. QED
  BY <1>1, <1>2, <1>3, RulesOfConfig

\* The WAN is no LAN interface.  With a blacklist that needs no hypothesis: the
\* routes that pin its entries to the WAN would be refused.
WanApart(c) == c.blacklist = {} => Wan \notin ToSet(c.lan_interfaces)

LEMMA WanIsNoCandidate ==
  ASSUME NEW c \in Config, NEW h, Accepted(c, h), WanApart(c)
  PROVE  Wan \notin ToSet(c.lan_interfaces)
<1>1. CASE c.blacklist = {}
  BY <1>1 DEF WanApart
<1>2. ASSUME NEW p \in c.blacklist, Wan \in ToSet(c.lan_interfaces) PROVE FALSE
  <2>. DEFINE x == RouteTo(p, Wan, WanGateway, 1)
  <2>1. x \in Generated(c, h)
    BY <1>2, GeneratedRoutes DEF Accepted
  <2>2. Wan # NoDev
    BY WanAssumption, NoDevAssumption
  <2>3. x.route_type = "Unicast" /\ x.output_interface = Wan /\ x.destination = p
    BY <2>2 DEF RouteTo
  <2>. HIDE DEF x
  <2>4. Contains(c.lan_interfaces, Wan)
    <3>1. DOMAIN c.lan_interfaces = 1 .. Len(c.lan_interfaces)
      BY ConfigFields
    <3>. QED
      BY <1>2, <3>1 DEF Contains, ToSet
  <2>5. ~NetsOverlap(p, p)
    BY <1>2, <2>1, <2>3, <2>4 DEF Accepted, ValidDesired
  <2>. QED
    BY <2>5 DEF NetsOverlap
<1>. QED
  BY <1>1, <1>2

LEMMA BlacklistKeptOffLan ==
  ASSUME NEW c \in Config, NEW h, Accepted(c, h), InterfacesListed(c),
         NEW a, Blacklisted(c, a), NEW i \in Egress(c, h, a)
  PROVE  i \in {Wan, NoDev}
<1>1. PICK p \in c.blacklist : a \in p
  BY DEF Blacklisted
<1>2. StrictPolicy(c) /\ ValidDesired(c, h) /\ p \in CoverOf(c) /\ p \in Dst
  BY ConfigFields DEF Accepted, CoverOf
<1>3. PICK q \in Dst :
        /\ a \in q
        /\ \/ q \in c.blacklist /\ i = Wan
           \/ \E r \in ToSet(Rules(c)) : q \in r.nets /\ i = Chosen(r, h)
  BY <1>1, <1>2, EgressOrigin
<1>4. ASSUME NEW r \in ToSet(Rules(c)), q \in r.nets, Chosen(r, h) # NoDev
      PROVE  FALSE
  <2>. DEFINE x == RouteTo(q, Chosen(r, h), NoGateway, IF IsHost(q) THEN 50 ELSE 100)
  <2>1. x \in Generated(c, h)
    BY <1>2, <1>4, GeneratedRoutes
  <2>2. /\ x.route_type = "Unicast" /\ x.output_interface = Chosen(r, h)
        /\ x.destination = q
    BY <1>4 DEF RouteTo
  <2>. HIDE DEF x
  <2>3. Chosen(r, h) \in ToSet(c.lan_interfaces)
    BY <1>2, <1>4, RuleType, ChosenIsCandidate, CandidatesAreLan
  <2>4. Contains(c.lan_interfaces, x.output_interface)
    <3>1. DOMAIN c.lan_interfaces = 1 .. Len(c.lan_interfaces)
      BY ConfigFields
    <3>. QED
      BY <2>2, <2>3, <3>1 DEF Contains, ToSet
  <2>5. ~NetsOverlap(p, q)
    BY <1>1, <1>2, <2>1, <2>2, <2>4 DEF ValidDesired
  <2>. QED
    BY <1>1, <1>2, <1>3, <2>5, CommonAddress
<1>. QED
  BY <1>3, <1>4

-----------------------------------------------------------------------------
(* The elements of a list that stay *)

\* The rank of a position among those of K.
RankIn(K, k) == Cardinality({j \in K : j <= k})

\* retain() keeps the elements of its positions, each once.
LEMMA RetainedElements ==
  ASSUME NEW S, NEW s \in Seq(S), NEW K \in SUBSET DOMAIN s
  PROVE  /\ Retained(s, K) \in Seq(S) /\ ToSet(Retained(s, K)) \subseteq ToSet(s)
         /\ \A n \in DOMAIN Retained(s, K) : \E k \in K :
              Retained(s, K)[n] = s[k] /\ RankIn(K, k) = n
<1>. DEFINE nth(n) == CHOOSE k \in K : RankIn(K, k) = n
            N == Cardinality(K)
<1>1. Len(s) \in Nat /\ DOMAIN s = 1 .. Len(s)
  OBVIOUS
<1>2. N \in Nat /\ \A n \in 1 .. N : \E k \in K : RankIn(K, k) = n
  BY <1>1, RankedPositions DEF RankIn
<1>3. \A n \in 1 .. N : nth(n) \in K /\ RankIn(K, nth(n)) = n
  BY <1>2
<1>4. Retained(s, K) = [n \in 1 .. N |-> s[nth(n)]]
  BY DEF Retained, RankIn
<1>. HIDE DEF nth, N
<1>5. \A n \in 1 .. N : s[nth(n)] \in S
  <2>1. \A k \in K : s[k] \in S
    BY <1>1
  <2>. QED
    BY <1>3, <2>1
<1>6. [n \in 1 .. N |-> s[nth(n)]] \in Seq(S)
  BY <1>2, <1>5
<1>7. \A n \in 1 .. N : s[nth(n)] \in ToSet(s)
  BY <1>3 DEF ToSet
<1>8. ToSet([n \in 1 .. N |-> s[nth(n)]]) \subseteq ToSet(s)
  BY <1>7 DEF ToSet
<1>. QED
  BY <1>3, <1>4, <1>6, <1>8

\* It keeps each of them, and nothing if there are none.
LEMMA RetainedAll ==
  ASSUME NEW S, NEW s \in Seq(S), NEW K \in SUBSET DOMAIN s, NEW k \in K
  PROVE  s[k] \in ToSet(Retained(s, K))
<1>. DEFINE nth(n) == CHOOSE j \in K : RankIn(K, j) = n
            N == Cardinality(K)
            n == RankIn(K, k)
<1>1. Len(s) \in Nat /\ DOMAIN s = 1 .. Len(s)
  OBVIOUS
<1>2. n \in 1 .. N /\ \A m \in K : RankIn(K, m) = n => m = k
  BY <1>1, RankOfPosition DEF RankIn
<1>3. nth(n) \in K /\ RankIn(K, nth(n)) = n
  OBVIOUS
<1>4. nth(n) = k
  BY <1>2, <1>3
<1>5. Retained(s, K) = [m \in 1 .. N |-> s[nth(m)]]
  BY DEF Retained, RankIn
<1>. HIDE DEF nth, N, n
<1>6. n \in DOMAIN Retained(s, K) /\ Retained(s, K)[n] = s[k]
  BY <1>2, <1>4, <1>5
<1>. QED
  BY <1>6 DEF ToSet

LEMMA RetainedNone ==
  ASSUME NEW s
  PROVE  Retained(s, {}) = <<>>
<1>1. Cardinality({}) = 0
  BY FS_EmptySet
<1>. QED
  BY <1>1 DEF Retained
=============================================================================
