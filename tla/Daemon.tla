------------------------------- MODULE Daemon -------------------------------
(***************************************************************************)
(* The daemon's own state (crates/reverse-app/src/daemon.rs): the          *)
(* configuration and the health map behind its mutex, the requests that    *)
(* replace or edit the configuration, the probe loop that fails over, and  *)
(* execute_apply(), which accepts or rejects and then installs a policy.   *)
(*                                                                         *)
(* Every action is what one holder of the mutex does.  What is in force is *)
(* remembered as the configuration and the health it was made from; the    *)
(* routes and firewall rules follow from them (module Policy).             *)
(*                                                                         *)
(* Simplifications:                                                        *)
(*  - an accepted policy is installed at once, and no command fails: what  *)
(*    happens in between is module Reconciler;                             *)
(*  - a reset is one step and overlaps no apply;                           *)
(*  - an interface is available or not, and changes at will: which rows of *)
(*    probes bring that about is module Health;                            *)
(*  - targets are told apart by their text, that is `net` and `bare`.      *)
(***************************************************************************)
EXTENDS Policy

CONSTANTS
  Configs,      \* the configurations that are loaded or sent
  NewTargets,   \* the targets that are added
  MaxTargets,   \* bound on the targets of a configuration
  NoPolicy      \* nothing in force

ASSUME ConfigAssumption ==
  /\ Configs \subseteq Config
  /\ NewTargets \subseteq Target
  /\ MaxTargets \in Nat

VARIABLES
  config,    \* s.config
  health,    \* s.health_map, as the interfaces that are available
  inforce    \* the configuration and health last applied, or NoPolicy

vars == <<config, health, inforce>>

-----------------------------------------------------------------------------
\* Interfaces of networks and targets; those of lan_domains are not probed.
Probed(c) ==
  (UNION {ToSet(n.interfaces) : n \in ToSet(c.networks)})
  \cup UNION {ToSet(t.via) : t \in ToSet(c.targets)}

\* A recorded route that is no longer wanted has the kernel key of one that is
\* recorded and stays.  The latter is not added again, so if the table holds
\* the former, its deletion leaves the destination without an entry.
Entangled(c, h) ==
  /\ inforce # NoPolicy
  /\ LET recorded == Generated(inforce.config, inforce.health)
         desired == Generated(c, h)
     IN \E r \in recorded \ desired, s \in recorded \cap desired :
          SameKey(Installed(r), Installed(s))

\* execute_apply(): a rejected configuration leaves the old policy in force,
\* and so does the rollback when the verification misses a destination.
Apply(c, h) ==
  \/ Accepted(c, h) /\ inforce' = [config |-> c, health |-> h]
  \/ (~Accepted(c, h) \/ Entangled(c, h)) /\ UNCHANGED inforce

\* A round of probes that changes the availability of some interface.
ProbeRound ==
  /\ \E flipped \in (SUBSET Probed(config)) \ {{}} :
       health' = (health \ flipped) \cup (flipped \ health)
  /\ Apply(config, health')
  /\ UNCHANGED config

\* Apply, with a configuration or with the daemon's own: what is sent
\* replaces the daemon's before it is checked, and for a dry run too.
ApplyRequest(c, dry_run) ==
  /\ config' = c
  /\ IF dry_run THEN UNCHANGED inforce ELSE Apply(c, health)
  /\ UNCHANGED health

SameText(t, u) == t.net = u.net /\ t.bare = u.bare

\* Mutant: the old target of the same text stays.
AddTarget_Twice(t) ==
  /\ Len(config.targets) < MaxTargets
  /\ config' = [config EXCEPT !.targets = Append(@, t)]
  /\ UNCHANGED <<health, inforce>>

Others(t) == {k \in DOMAIN config.targets : ~SameText(t, config.targets[k])}

\* AddTarget and RemoveTarget edit the configuration; nothing is applied.
AddTarget(t) ==
  /\ Cardinality(Others(t)) < MaxTargets
  /\ config' = [config EXCEPT !.targets = Append(Retained(@, Others(t)), t)]
  /\ UNCHANGED <<health, inforce>>

RemoveTarget(t) ==
  /\ config' = [config EXCEPT !.targets = Retained(@, Others(t))]
  /\ UNCHANGED <<health, inforce>>

\* Reset: configuration and health stay.
Reset ==
  /\ inforce' = NoPolicy
  /\ UNCHANGED <<config, health>>

\* run() applies its configuration before it serves anything; no interface
\* has been probed by then.
Init ==
  /\ config \in Configs
  /\ health = {}
  /\ inforce = IF Accepted(config, {}) THEN [config |-> config, health |-> {}] ELSE NoPolicy

Next ==
  \/ ProbeRound
  \/ \E c \in Configs \cup {config}, dry_run \in BOOLEAN : ApplyRequest(c, dry_run)
  \/ \E t \in NewTargets : AddTarget(t) \/ RemoveTarget(t)
  \/ Reset

Spec == Init /\ [][Next]_vars

-----------------------------------------------------------------------------
(* Properties *)

\* The types of the state; no two targets have the same text, whatever is
\* added (daemon.rs:394).
TypeOK ==
  /\ config \in Config
  /\ health \subseteq Dev
  /\ inforce = NoPolicy \/ (inforce.config \in Config /\ inforce.health \subseteq Dev)
  /\ \A j, k \in DOMAIN config.targets :
       SameText(config.targets[j], config.targets[k]) => j = k

\* Answers to the names of networks; the addresses of targets, LAN domains and
\* networks that the blacklist does not claim.
NetworkAnswers(c) ==
  UNION {UNION {ToSet(c.local_dns[d]) : d \in n.names} : n \in ToSet(c.networks)}
Lab(c) == {a \in Authorized(c) \cup NetworkAnswers(c) : ~Blacklisted(c, a)}

\* The interfaces by which `a` may leave, whichever applies came before.
Leaves(a) == Egress(inforce.config, inforce.health, a)

\* A lab target leaves by a LAN interface or not at all, whatever is down
\* (README.md:37, "Lab traffic is never leaked to the public Internet/WAN").
LabNeverOnWan ==
  inforce # NoPolicy => \A a \in Lab(inforce.config) : Wan \notin Leaves(a)

\* A blacklisted address has no route out of a LAN interface: no shorter,
\* longer or later route beats the one to the WAN (README.md:45).
BlacklistNeverOnLan ==
  inforce # NoPolicy =>
    \A a \in Addr : Blacklisted(inforce.config, a) => Leaves(a) \subseteq {Wan, NoDev}

\* Routes and firewall agree, though they are computed apart and from
\* different parts of the configuration: what the table sends out of a LAN
\* interface for a target or a LAN domain, the interface lets through, unless
\* a network claims the address too: its route may be the one in the table.
RoutedIsAllowed ==
  inforce # NoPolicy =>
    \A a \in Authorized(inforce.config) \ NetworkAnswers(inforce.config) :
      \A i \in Leaves(a) \ {Wan, NoDev} :
        FirewallAllows(inforce.config, inforce.health, i, a)

\* The rules that match a query are the rules that route its address, they
\* agree on the interfaces, and none claims a blacklisted address.
Unambiguous(c, q) ==
  LET match == Matching(c, q)
      route == {k \in DOMAIN Rules(c) : \E p \in Rules(c)[k].nets : q.ip \in p}
  IN /\ match = route
     /\ \A j, k \in match : Rules(c)[j].via = Rules(c)[k].via
     /\ Blacklisted(c, q.ip) => route = {}

\* What explain answers is what the kernel does: decide() walks the rules in
\* order, the kernel looks up prefixes and metrics (policy.rs:132-282,
\* README.md:119).
ExplainAgrees ==
  inforce # NoPolicy =>
    \A q \in Queries(inforce.config) :
      (q.ip # NoAddr /\ Unambiguous(inforce.config, q)) =>
        Leaves(q.ip) = {Decide(inforce.config, inforce.health, q)}

Destinations(policy) == {e.destination : e \in Fib(policy.config, policy.health)}

\* A failover moves destinations between interfaces and adds or drops none
\* (policy.rs:433, "Never leave a FIB vacuum").
FailoverKeepsCover ==
  [][(/\ inforce' # inforce
       /\ inforce # NoPolicy /\ inforce' # NoPolicy
       /\ inforce'.config = inforce.config)
      => Destinations(inforce') = Destinations(inforce)]_vars
=============================================================================
