------------------------------- MODULE Failover -------------------------------
(***************************************************************************)
(* The background loop of ReversedDaemon::run (daemon.rs:118-201) around   *)
(* the health state machines: every round probes the interfaces of the     *)
(* configuration; a round in which the availability of one of them changed *)
(* applies the policy again, a quiet round purges default routes that      *)
(* NetworkManager has added to LAN interfaces.                             *)
(*                                                                         *)
(* Simplifications:                                                        *)
(*  - the loop holds the mutex for the whole round, so requests that take  *)
(*    it come between rounds; the order of the probes in a round, sorted   *)
(*    in the code, is left open;                                           *)
(*  - an apply is one step that succeeds or fails and is rolled back: what *)
(*    happens in between is module Reconciler;                             *)
(*  - of a configuration remain the candidates of its rules, the rules     *)
(*    that are probed and whether execute_apply() accepts it.              *)
(***************************************************************************)
EXTENDS Health, SequencesExt

CONSTANTS
  Rule,          \* names of policy rules
  Wan,           \* interfaces that are not probed but may be the WAN
  Configs,       \* the configurations that are loaded or sent
  ApplyMayFail,  \* whether a command of an apply may fail
  NoPolicy,      \* nothing in force
  NoDev          \* the path of a rule that drops

Dev == Iface \cup Wan

\* The rules in `targets` come from [[targets]], those in `networks` from
\* [[networks]], the others from LAN_DOMAINS, whose interfaces are not probed.
Config == [via      : [Rule -> Seq(Iface)],
           targets  : SUBSET Rule,
           networks : SUBSET Rule,
           wan      : Dev,
           accepted : BOOLEAN]

ASSUME FailoverAssumption ==
  /\ Configs \subseteq Config
  /\ ApplyMayFail \in BOOLEAN
  /\ NoDev \notin Dev /\ Wan \cap Iface = {}

VARIABLES
  link,         \* per interface, whether it has a carrier
  defaults,     \* interfaces with a default route in table main
  default_wan,  \* s.default_wan
  config,       \* s.config
  inforce,      \* the configuration and paths last applied, or NoPolicy
  missed,       \* the last apply was rejected, refused or rolled back
  loop,         \* the probe task: "asleep" or "probing"
  todo,         \* interfaces the round still has to probe
  changed       \* state_changed

health == <<state, failures, successes>>
policy == <<inforce, missed>>
round == <<loop, todo, changed>>
fvars == <<health, link, defaults, default_wan, config, policy, round>>

-----------------------------------------------------------------------------
Vias(c, rules) == UNION {ToSet(c.via[r]) : r \in rules}

\* ifaces_to_probe
Probed(c) == Vias(c, c.targets \cup c.networks)

\* The first available candidate of a rule (PolicyEngine::select_interface).
Path(c, r) ==
  LET via == c.via[r]
      up == {k \in DOMAIN via : IsAvailable(state'[via[k]])}
  IN IF up = {} THEN NoDev ELSE via[Min(up)]

Paths(c) == [r \in Rule |-> Path(c, r)]

\* reconcile() finds nothing to do.
InSync(c) ==
  /\ inforce # NoPolicy
  /\ inforce.config.via = c.via
  /\ inforce.paths = Paths(c)

\* execute_apply(): validation, the refusal when the WAN has no default
\* route, then the reconciliation, which purges the default routes of the
\* interfaces it routes through.
Apply(c) ==
  \/ /\ c.accepted
     /\ InSync(c) \/ default_wan \in defaults
     /\ inforce' = [config |-> c, paths |-> Paths(c)]
     /\ missed' = FALSE
     /\ defaults' = IF InSync(c) THEN defaults
                    ELSE defaults \ ({Path(c, r) : r \in Rule} \ {default_wan})
  \/ /\ \/ ~c.accepted
        \/ ~InSync(c) /\ (default_wan \notin defaults \/ ApplyMayFail)
     /\ missed' = TRUE
     /\ UNCHANGED <<inforce, defaults>>

-----------------------------------------------------------------------------
(* The probe loop *)

BeginRound ==
  /\ loop = "asleep"
  /\ loop' = "probing" /\ todo' = Probed(config) /\ changed' = FALSE
  /\ UNCHANGED <<health, link, defaults, default_wan, config, policy>>

\* Mutant: the flag is overwritten by the last interface.
Probe_LastOnly(i) ==
  /\ loop = "probing" /\ i \in todo
  /\ IF link[i] THEN RecordSuccess(i) ELSE RecordFailure(i)
  /\ changed' = (IsAvailable(state[i]) # IsAvailable(state'[i]))
  /\ todo' = todo \ {i}
  /\ UNCHANGED <<link, defaults, default_wan, config, policy, loop>>

\* Mutant: only an interface that is lost counts as a change.
Probe_LossOnly(i) ==
  /\ loop = "probing" /\ i \in todo
  /\ IF link[i] THEN RecordSuccess(i) ELSE RecordFailure(i)
  /\ changed' = (changed \/ (IsAvailable(state[i]) /\ ~IsAvailable(state'[i])))
  /\ todo' = todo \ {i}
  /\ UNCHANGED <<link, defaults, default_wan, config, policy, loop>>

\* Mutant: only an interface that is gained counts as a change.
Probe_GainOnly(i) ==
  /\ loop = "probing" /\ i \in todo
  /\ IF link[i] THEN RecordSuccess(i) ELSE RecordFailure(i)
  /\ changed' = (changed \/ (~IsAvailable(state[i]) /\ IsAvailable(state'[i])))
  /\ todo' = todo \ {i}
  /\ UNCHANGED <<link, defaults, default_wan, config, policy, loop>>

\* Mutant: the error of a probe ends the round.
Probe_Abort(i) ==
  /\ loop = "probing" /\ i \in todo
  /\ IF link[i] THEN RecordSuccess(i) ELSE UNCHANGED health
  /\ changed' = (changed \/ IsAvailable(state[i]) # IsAvailable(state'[i]))
  /\ todo' = todo \ {i}
  /\ loop' = IF link[i] THEN loop ELSE "asleep"
  /\ UNCHANGED <<link, defaults, default_wan, config, policy>>

Probe(i) ==
  /\ loop = "probing" /\ i \in todo
  /\ IF link[i] THEN RecordSuccess(i) ELSE RecordFailure(i)
  /\ changed' = (changed \/ IsAvailable(state[i]) # IsAvailable(state'[i]))
  /\ todo' = todo \ {i}
  /\ UNCHANGED <<link, defaults, default_wan, config, policy, loop>>

\* remove_default_routes_on_interface() for the candidates of the targets.
Purge ==
  /\ defaults' = defaults \ (Vias(config, config.targets) \ {default_wan})
  /\ UNCHANGED policy

\* Mutant: default routes are only removed by an apply.
EndRound_NoQuiet ==
  /\ loop = "probing" /\ todo = {}
  /\ loop' = "asleep" /\ changed' = FALSE
  /\ UNCHANGED health
  /\ IF changed THEN Apply(config) ELSE UNCHANGED <<policy, defaults>>
  /\ UNCHANGED <<link, default_wan, config, todo>>

EndRound ==
  /\ loop = "probing" /\ todo = {}
  /\ loop' = "asleep" /\ changed' = FALSE
  /\ UNCHANGED health
  /\ IF changed THEN Apply(config) ELSE Purge
  /\ UNCHANGED <<link, default_wan, config, todo>>

ProbeLoop == BeginRound \/ EndRound \/ \E i \in Iface : Probe(i)

-----------------------------------------------------------------------------
(* Requests *)

\* Apply with a configuration, which replaces the daemon's first.
ApplyRequest(c) ==
  /\ loop = "asleep"
  /\ config' = c
  /\ UNCHANGED health
  /\ Apply(c)
  /\ UNCHANGED <<link, default_wan, round>>

\* AddTarget, RemoveTarget and a dry run leave the kernel alone.
Edit(c) ==
  /\ loop = "asleep"
  /\ config' = c
  /\ UNCHANGED <<health, link, defaults, default_wan, policy, round>>

\* Reset takes no lock.
Reset ==
  /\ inforce' = NoPolicy
  /\ UNCHANGED <<health, link, defaults, default_wan, config, missed, round>>

-----------------------------------------------------------------------------
(* The host *)

\* A cable is unplugged or plugged in; the routes of a dead link are gone.
LinkChange(i) ==
  /\ link' = [link EXCEPT ![i] = ~@]
  /\ defaults' = defaults \ {i}
  /\ UNCHANGED <<health, default_wan, config, policy, round>>

DefaultAppears(d) ==
  /\ d \in Iface => link[d]
  /\ defaults' = defaults \cup {d}
  /\ UNCHANGED <<health, link, default_wan, config, policy, round>>

DefaultLost(d) ==
  /\ d \in Wan
  /\ defaults' = defaults \ {d}
  /\ UNCHANGED <<health, link, default_wan, config, policy, round>>

-----------------------------------------------------------------------------
\* The startup apply finds no interface available; without a default route
\* on the WAN it is refused, and it may fail.
FInit ==
  /\ Init
  /\ link \in [Iface -> BOOLEAN]
  /\ config \in Configs
  /\ default_wan = config.wan
  /\ defaults \in SUBSET Wan
  /\ \/ /\ config.accepted /\ default_wan \in defaults
        /\ inforce = [config |-> config, paths |-> [r \in Rule |-> NoDev]]
        /\ missed = FALSE
     \/ /\ ~config.accepted \/ default_wan \notin defaults \/ ApplyMayFail
        /\ inforce = NoPolicy /\ missed = TRUE
  /\ loop = "asleep" /\ todo = {} /\ changed = FALSE

FNext ==
  \/ ProbeLoop
  \/ \E c \in Configs : ApplyRequest(c) \/ Edit(c)
  \/ Reset
  \/ \E i \in Iface : LinkChange(i)
  \/ \E d \in Dev : DefaultAppears(d) \/ DefaultLost(d)

\* The timer ticks and the mutex is granted in turn, so the loop goes on.
FSpec == FInit /\ [][FNext]_fvars /\ WF_fvars(ProbeLoop)
=============================================================================
