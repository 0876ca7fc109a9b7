------------------------------- MODULE Policy -------------------------------
(***************************************************************************)
(* The policy engine (crates/reverse-core/src/policy.rs) with the checks   *)
(* that stand before the kernel (config.rs, planner.rs): which             *)
(* configurations are accepted, the rules and routes made of one, what the *)
(* kernel then does with a packet, and what decide() explains.  Operators  *)
(* only; module Daemon is the program around them.                         *)
(*                                                                         *)
(* A prefix is the set of its addresses, so that "longer" is "smaller" and *)
(* two prefixes are nested or disjoint.  A host is a prefix of one address.*)
(* `h` is the health map, as the interfaces that is_available() accepts.   *)
(*                                                                         *)
(* Simplifications:                                                        *)
(*  - mode, defaults and [wan] have the values that                        *)
(*    validate_strict_lan_policy() insists on, since it refuses every other*)
(*    one before anything happens; no rule is then auto-discovered and the *)
(*    WAN is known;                                                        *)
(*  - one address family; no query for a network, only for addresses and   *)
(*    names;                                                               *)
(*  - every record of [local_dns] has an address: a name without one has   *)
(*    no record (validation also takes a record with an empty list);       *)
(*  - rules are not sorted, they are compared;                             *)
(*  - routes are sets: which of several routes with one kernel key is in   *)
(*    the table is left open.                                              *)
(***************************************************************************)
EXTENDS Netlink, SequencesExt

CONSTANTS
  Addr,         \* addresses
  Domain,       \* host names with static answers
  NoName,       \* a query for a bare address
  NoAddr,       \* a name without an answer
  Wan,          \* WAN_INTERFACE
  WanGateway,   \* its gateway
  Isolated      \* defaults.table_id

ASSUME PrefixAssumption ==
  /\ IsFiniteSet(Addr)
  /\ Dst \subseteq (SUBSET Addr) \ {{}}
  /\ \A a \in Addr : {a} \in Dst
  /\ \A p, q \in Dst : p \subseteq q \/ q \subseteq p \/ p \cap q = {}
ASSUME WanAssumption ==
  /\ Wan \in Dev /\ Isolated \in Table /\ WanGateway \in Gateway \cup {NoGateway}
  /\ NoName \notin Domain /\ NoAddr \notin Addr

\* TargetConfig: `bare` when its text is an address without a prefix length.
Target == [net : Dst, bare : BOOLEAN, via : Seq(Dev), fallback : {"drop", "wan"}]

\* NetworkConfig: one entry per listed domain, with the names it stands for
\* and whether it is a suffix (*.lab, ~lab).
Network == [names : SUBSET Domain, suffix : BOOLEAN, interfaces : Seq(Dev)]

Config == [targets        : Seq(Target),
           lan_domains    : Seq(Domain),
           networks       : Seq(Network),
           local_dns      : [Domain -> Seq(Addr)],
           blacklist      : SUBSET Dst,
           lan_interfaces : Seq(Dev)]

IsHost(p) == \E a \in Addr : p = {a}

\* Mutant: a wider blacklist entry is not seen to overlap.
NetsOverlap_OneWay(p, q) == p \subseteq q

\* nets_overlap(): a prefix contains the first address of the other.
NetsOverlap(p, q) == p \subseteq q \/ q \subseteq p

Blacklisted(c, a) == \E p \in c.blacklist : a \in p

\* What a policy claims for the LAN: addresses of targets and answers to the
\* names of LAN domains (for properties).
Authorized(c) ==
  (UNION {t.net : t \in ToSet(c.targets)})
  \cup UNION {ToSet(c.local_dns[d]) : d \in ToSet(c.lan_domains)}

\* The host routes of the answers to a name.
Hosts(c, d) == {{a} : a \in ToSet(c.local_dns[d])}

\* Vec::retain(): the elements of the positions K, in their order.
Retained(s, K) ==
  [n \in 1 .. Cardinality(K) |-> s[CHOOSE k \in K : Cardinality({j \in K : j <= k}) = n]]

-----------------------------------------------------------------------------
(* What is accepted *)

\* Mutant: the fallback of a target is not looked at.
StrictPolicy_AnyFallback(c) ==
  /\ (c.targets # <<>> \/ c.lan_domains # <<>>) => c.lan_interfaces # <<>>
  /\ \A t \in ToSet(c.targets) :
       /\ t.via # <<>>
       /\ ToSet(t.via) \subseteq ToSet(c.lan_interfaces)
       /\ \A p \in c.blacklist : ~NetsOverlap(p, t.net)

\* validate_strict_lan_policy()
StrictPolicy(c) ==
  /\ (c.targets # <<>> \/ c.lan_domains # <<>>) => c.lan_interfaces # <<>>
  /\ \A t \in ToSet(c.targets) :
       /\ t.fallback = "drop"
       /\ t.via # <<>>
       /\ ToSet(t.via) \subseteq ToSet(c.lan_interfaces)
       /\ \A p \in c.blacklist : ~NetsOverlap(p, t.net)
  /\ \A d \in ToSet(c.lan_domains) :
       /\ c.local_dns[d] # <<>>
       /\ \A a \in ToSet(c.local_dns[d]) : ~Blacklisted(c, a)

-----------------------------------------------------------------------------
(* Rules and routes *)

ManualExact == 1
ManualDomain == 2
ManualCidr == 3
ManualSuffix == 4

TargetRule(t) ==
  [source |-> IF IsHost(t.net) THEN ManualExact ELSE ManualCidr,
   nets |-> {t.net}, names |-> {}, via |-> t.via, fallback |-> t.fallback]

DomainRule(c, d) ==
  [source |-> ManualDomain, nets |-> Hosts(c, d), names |-> {d},
   via |-> c.lan_interfaces, fallback |-> "drop"]

\* A suffix is kept with its leading dot, to which generate_desired_routes()
\* adds another: it finds no name and has no route.
NetworkRule(c, n) ==
  [source |-> IF n.suffix THEN ManualSuffix ELSE ManualDomain,
   nets |-> IF n.suffix THEN {} ELSE UNION {Hosts(c, d) : d \in n.names},
   names |-> n.names, via |-> n.interfaces, fallback |-> "drop"]

\* from_config(): the rules of targets, domains and networks, as listed.
Rules(c) ==
  [k \in DOMAIN c.targets |-> TargetRule(c.targets[k])]
  \o [k \in DOMAIN c.lan_domains |-> DomainRule(c, c.lan_domains[k])]
  \o [k \in DOMAIN c.networks |-> NetworkRule(c, c.networks[k])]

\* They are then sorted by source; the sort is stable.
Before(c, j, k) ==
  LET rules == Rules(c)
  IN \/ rules[j].source < rules[k].source
     \/ rules[j].source = rules[k].source /\ j < k

\* The first available candidate, or none.
Chosen(r, h) ==
  LET up == {k \in DOMAIN r.via : r.via[k] \in h}
  IN IF up = {} THEN NoDev ELSE r.via[Min(up)]

RouteTo(p, dev, gw, metric) ==
  [destination |-> p, output_interface |-> dev, gateway |-> gw, table |-> Isolated,
   metric |-> metric, route_type |-> IF dev = NoDev THEN "Unreachable" ELSE "Unicast"]

\* Blacklist entries are pinned to the WAN.
Pinned(c) == {RouteTo(p, Wan, WanGateway, 1) : p \in c.blacklist}

\* Mutant: a rule without an available candidate has no route.
RuleRoutes_Vacuum(r, h) ==
  IF Chosen(r, h) = NoDev THEN {}
  ELSE {RouteTo(p, Chosen(r, h), NoGateway, IF IsHost(p) THEN 50 ELSE 100) : p \in r.nets}

\* The routes of a rule: to its chosen interface or, when it has none and
\* drops, unreachable.
RuleRoutes(r, h) ==
  IF Chosen(r, h) = NoDev /\ r.fallback = "wan" THEN {}
  ELSE {RouteTo(p, Chosen(r, h), NoGateway, IF IsHost(p) THEN 50 ELSE 100) : p \in r.nets}

\* generate_desired_routes()
Generated(c, h) == Pinned(c) \cup UNION {RuleRoutes(r, h) : r \in ToSet(Rules(c))}

\* validate_desired_state(): no default route, and no route out of a LAN
\* interface that overlaps the blacklist.
ValidDesired(c, h) ==
  \A r \in Generated(c, h) :
    /\ r.destination # Addr
    /\ (r.route_type = "Unicast" /\ Contains(c.lan_interfaces, r.output_interface)) =>
         \A p \in c.blacklist : ~NetsOverlap(p, r.destination)

Accepted(c, h) == StrictPolicy(c) /\ ValidDesired(c, h)

-----------------------------------------------------------------------------
(* What the kernel does with a packet *)

\* The entries that the isolated table may hold.  Of routes with one kernel
\* key it holds one at a time: the last one added, which depends on the applies
\* before, since an apply adds the routes only that are not recorded yet.
Fib(c, h) == {Installed(r) : r \in Generated(c, h)}

\* Longest prefix, then lowest metric: entries that are left have one key.
Lookup(c, h, a) ==
  LET covering == {e \in Fib(c, h) : a \in e.destination}
  IN {e \in covering :
        \A f \in covering :
          /\ e.destination \subseteq f.destination
          /\ e.destination = f.destination => e.metric <= f.metric}

\* The interfaces a packet may leave by: table main is the WAN; NoDev if refused.
Egress(c, h, a) ==
  IF Lookup(c, h, a) = {} THEN {Wan} ELSE {e.output_interface : e \in Lookup(c, h, a)}

-----------------------------------------------------------------------------
(* The firewall of the LAN interfaces *)

\* firewall_whitelist of execute_apply(), as interfaces and prefixes, with
\* the entries that lan_allow_rule_plan() skips because they are no prefix.
TargetEntries(c) == {<<i, t>> : i \in Dev, t \in ToSet(c.targets)}
ListedTargets(c) == {e \in TargetEntries(c) : Contains(e[2].via, e[1])}

DomainEntries(c) ==
  ToSet(c.lan_interfaces) \X UNION {Hosts(c, d) : d \in ToSet(c.lan_domains)}

\* Mutant: the answers to LAN domains are not listed.
AllowRules_NoDomains(c, h) ==
  {<<e[1], e[2].net>> : e \in {l \in ListedTargets(c) : ~l[2].bare}}

\* apply_firewall(): the whitelist or, when it lists nothing, the routes.
AllowRules(c, h) ==
  IF ListedTargets(c) = {} /\ DomainEntries(c) = {}
  THEN {<<r.output_interface, r.destination>> : r \in Generated(c, h)}
  ELSE {<<e[1], e[2].net>> : e \in {l \in ListedTargets(c) : ~l[2].bare}} \cup DomainEntries(c)

Guarded(c) == ToSet(c.lan_interfaces) \cup {e[1] : e \in ListedTargets(c)}

\* A new connection to `a` may leave by interface `i`.
FirewallAllows(c, h, i, a) ==
  i \in Guarded(c) =>
    /\ ~Blacklisted(c, a)
    /\ \E p \in Dst : a \in p /\ <<i, p>> \in AllowRules(c, h)

-----------------------------------------------------------------------------
(* decide() *)

\* A query: an address, or a name with its first answer.
ForAddr(a) == [name |-> NoName, ip |-> a]
ForName(c, d) ==
  [name |-> d, ip |-> IF c.local_dns[d] = <<>> THEN NoAddr ELSE c.local_dns[d][1]]
Queries(c) == {ForAddr(a) : a \in Addr} \cup {ForName(c, d) : d \in Domain}

\* Rules of targets match by address, rules of domains by name.
Matches(r, q) ==
  IF r.names = {} THEN \E p \in r.nets : q.ip \in p ELSE q.name \in r.names

\* The rules that match, and the first of them.
Matching(c, q) == {k \in DOMAIN Rules(c) : Matches(Rules(c)[k], q)}
FirstOf(c, K) == CHOOSE k \in K : \A j \in K \ {k} : Before(c, k, j)

\* Mutant: a rule none of whose interfaces is available is passed over.
Decide_SkipDown(c, h, q) ==
  LET up == {k \in Matching(c, q) : Chosen(Rules(c)[k], h) # NoDev}
  IN IF up = {} \/ \E p \in c.blacklist : q.ip \in p THEN Wan
     ELSE Chosen(Rules(c)[FirstOf(c, up)], h)

\* The interface decide() selects: the blacklist first, then the first rule
\* that matches, then the WAN; NoDev is DROP.
Decide(c, h, q) ==
  LET rule == Rules(c)[FirstOf(c, Matching(c, q))]
  IN IF Matching(c, q) = {} \/ \E p \in c.blacklist : q.ip \in p THEN Wan
     ELSE IF Chosen(rule, h) = NoDev /\ rule.fallback = "wan" THEN Wan
     ELSE Chosen(rule, h)
=============================================================================
