-------------------------- MODULE FailoverProperties --------------------------
(***************************************************************************)
(* What failover promises.  InForce and InStep are what the loop cannot    *)
(* bring about by itself: that the last apply went through, and that       *)
(* nothing has edited the configuration since.                             *)
(***************************************************************************)
EXTENDS Failover

\* The types of the state; nothing is left to probe between rounds, and only
\* a link with a carrier has a default route.
FTypeOK ==
  /\ TypeOK
  /\ link \in [Iface -> BOOLEAN]
  /\ defaults \subseteq Dev /\ default_wan \in Dev
  /\ config \in Configs
  /\ inforce = NoPolicy \/ (/\ inforce.config \in Configs
                            /\ inforce.paths \in [Rule -> Iface \cup {NoDev}])
  /\ missed \in BOOLEAN /\ changed \in BOOLEAN
  /\ loop \in {"asleep", "probing"}
  /\ todo \subseteq Probed(config)
  /\ loop = "asleep" => todo = {} /\ ~changed
  /\ \A i \in defaults \cap Iface : link[i]

InForce == ~missed /\ inforce # NoPolicy
InStep == InForce /\ inforce.config = config

Available(i) == IsAvailable(state[i])

\* The candidates of a rule up to the one it uses; all of them if it drops.
UpTo(r) ==
  LET via == inforce.config.via[r]
      used == {k \in DOMAIN via : via[k] = inforce.paths[r]}
  IN {via[k] : k \in {j \in DOMAIN via : \A m \in used : j <= m}}

\* No rule uses a path that is not available or passes over one that is.
Follows(r) ==
  /\ inforce.paths[r] # NoDev => Available(inforce.paths[r])
  /\ \A i \in UpTo(r) \ {inforce.paths[r]} : ~Available(i)

\* Between rounds the kernel agrees with the health map, unless the last apply
\* failed (daemon.rs:149-182: each change must reach an apply, whichever
\* interface of the round it is on and whoever edited the configuration).
KernelTracksHealth ==
  (loop = "asleep" /\ InForce) => \A r \in Rule : Follows(r)

\* A probed path that stays dead is eventually not used (README.md:35-37,
\* "Failover with Safety Drop").
AbandonsDeadPath ==
  \A i \in Iface :
    <>[](InStep /\ i \in Probed(config) /\ ~link[i])
      => <>[](InStep => \A r \in Rule : inforce.paths[r] # i)

\* A probed path that stays alive is eventually used again by every rule
\* that prefers it to the path it has (config.rs:23, auto_failback).
FailsBack ==
  \A i \in Iface :
    <>[](InStep /\ i \in Probed(config) /\ link[i])
      => <>[](InStep => \A r \in Rule : i \in UpTo(r) => inforce.paths[r] = i)

\* A default route that appears on a LAN interface of a target does not stay
\* (daemon.rs:184, "Continuous guard against NetworkManager re-adding rogue
\* default routes on LAN"), once the links have settled.
RogueDefaultsPurged ==
  (\A i \in Iface : <>[]link[i] \/ <>[]~link[i]) =>
    \A i \in Iface :
      <>[](i \in Vias(config, config.targets) \ {default_wan}) => []<>(i \notin defaults)

\* The WAN of the policy in force is the configured one (reconcile.rs:125,
\* "Prioritize configured WAN interface").
WanAsConfigured == InStep => default_wan = config.wan
=============================================================================
