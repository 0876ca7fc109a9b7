# A verification of reverse-tool

TLA+ modules, TLC configurations and TLAPS proofs about `reverse-tool`, the
daemon that routes lab targets through LAN interfaces, pins a blacklist to the
WAN and fences the LAN interfaces with an egress firewall. Paths below are
relative to the repository (`src/`).

## The system

| Part | State it keeps | Operations | What makes it correct |
|---|---|---|---|
| Reconciler (`reverse-app/src/reconcile.rs`) | none of its own; the kernel and the state file | `reconcile`, `rollback`, `reset` | a change of the kernel is all or nothing; the firewall comes first and stays; a reset leaves nothing |
| Netlink controller (`reverse-linux/src/netlink.rs`) | the kernel's routes and rules | add, delete, flush, list routes; ensure, remove rules; prioritise and restore the WAN | a command does to the kernel what its caller means by it |
| Egress firewall (`reverse-linux/src/firewall.rs`) | iptables chains and hooks | `apply_egress_policy`, `cleanup_all` | a packet always meets one whole policy; interfaces are independent |
| State file (`reverse-app/src/state.rs`) | `state.json` | `load`, `save`, `clear` | records what the kernel holds |
| Planner (`reverse-core/src/planner.rs`) | – | `plan_diff`, `validate_desired_state`, `generate_desired_state` | the difference, applied, yields the desired state |
| Health (`reverse-core/src/health.rs`) | per interface, a state and two counters | `record_success`, `record_failure`, `is_available` | availability follows the probes, without flapping |
| Daemon (`reverse-app/src/daemon.rs`) | configuration, health map and WAN behind a mutex; socket; PID file | probe loop, requests, startup, shutdown | applies are serialised; a failover happens; an exit is clean |
| Policy (`reverse-core/src/policy.rs`) | – | `from_config`, `decide`, `generate_desired_routes` | the table it generates decides as `decide` explains; lab targets never use the WAN |
| Configuration (`reverse-core/src/config.rs`) | `config.toml`, `.env` | loading, merging the `.env`, `validate_strict_lan_policy` | accepts no policy that leaks; enforces the `.env` whatever it is merged into |
| Classifier, detector (`classifier.rs`, `detector.rs`) | – | roles of interfaces, detection of networks, hosts and neighbours | finds again what it found |
| Autoconfig (`commands/autoconfig.rs`) | writes `config.toml` | detect, merge, save | keeps what was written by hand; comes to rest |
| Command line and client (`commands/mod.rs`, `client.rs`) | – | `apply`, `reset`, by the daemon or in its own process | does not program the kernel beside a daemon |
| Life cycle commands (`commands/daemon.rs`) | socket, PID file | `start`, `stop`, `restart` | one daemon, reached by its socket; stop stops; nothing is left |
| Prober, DNS backends, capabilities | – | probes, resolver commands | inputs of the above |

How they interact: every three seconds the probe loop locks the daemon's state,
records one probe per interface in the health map and, when the availability of
some interface changed, calls `execute_apply`; the Apply request and startup
call it too. `execute_apply` builds a desired state from configuration and
health and hands it to `reconcile`, which loads the state file, plans, programs
firewall, rules, routes and WAN, verifies, and saves. `reset` is called by the
Reset request, at startup when a state file was left over, and at shutdown;
none of the three takes the lock. The reconciler reaches the kernel by running
`ip` and `iptables`, each of which may fail. The command line sends its
requests through the socket; without a daemon behind it, it reconciles or
resets in its own process. Every load of a configuration merges the `.env` into
the file, and `autoconfig --save` writes the result, with what it has detected,
back to the file.

What is hard here is listed under `hazards` in PROJECT.json: a sequence of
commands whose every prefix is visible to traffic; failures at any of them,
inside the rollback too; a reset that interleaves with an apply; a crash
between two commands, with the record written last; decisions made from the
recorded state when the kernel has moved on; deletions that name too little;
processes that share kernel, record, socket and PID file without a lock; a
failover that depends on the outcome of several probes and of an apply.

## Modules

| Module | Models |
|---|---|
| `Netlink` | kernel routing state and the effect of each netlink command on it (operators, no variables) |
| `Reconciler` | `reconcile`, `rollback`, `reset` one command at a time; state file; host events |
| `ReconcilerProperties` | the type invariant and the properties of the reconciler |
| `PolicyTransaction` | abstract reconciler: one contract in force, replaced in one step or not at all |
| `MCReconciler` | hosts, desired states and failure sets for TLC |
| `ReconcilerProofs` | theorems about the reconciler: types and guards; resets and the record; atomicity and the refinement |
| `EgressGuard` | abstract firewall: per interface one verdict per packet, changed at once |
| `Firewall` | the A/B generations of chains that implement it, one command at a time |
| `MCFirewall` | interfaces, policies and failure sets for TLC |
| `FirewallProofs` | theorems about the firewall, with the refinement |
| `Health` | the health state machine of every probed interface |
| `HealthHistory` | Health with history variables that date the changes of availability |
| `MCHealth` | the default thresholds for TLC |
| `Failover`, `FailoverProperties` | the probe loop around Health, with applies that fail, requests, links and default routes |
| `MCFailover` | configurations for TLC |
| `FailoverProofs` | theorems about health and failover |
| `Policy` | which configurations are accepted, the rules, routes and firewall entries made of one, the kernel's lookup, `decide` (operators, no variables) |
| `Daemon` | configuration, health map and installed policy; requests |
| `MCDaemon` | addresses, configurations and targets for TLC |
| `PolicyProofs`, `DaemonProofs` | lemmas about a policy, from its rules to where a packet leaves; theorems about the policy in force |
| `Setup` | `config.toml`, `.env` and detection, over Policy |
| `MCSetup` | files, `.env`s and networks for TLC |
| `SetupProofs` | theorems about them |
| `Lifecycle`, `LifecycleProperties` | daemon processes and commands on one host |
| `LifecycleProofs` | theorems about them |
| `Positions` | lemmas about positions in sequences, for the proofs |

### Reconciler and Netlink

The kernel is four variables: `fib` (entries of the isolated tables), `rules`
(RPDB rules), `main` (default routes of table main) and `guard` (per interface,
the firewall program OUTPUT applies, or `NoGuard`). `file` is `state.json`:
absent, unreadable (`Corrupt`) or a `RuntimeState`.

Two threads act on them. The *applier* (`apc`, `want`, `old`, `devs`, `idx`) is
whoever holds the mutex and runs `reconcile`; `apc` is its phase:

    idle -> guard -> add -> del -> prio -> lan -> commit -> idle
                       \____________\____\____> undo -> redo -> idle

`ApplyBegin` is everything up to the first command (load, plan, the refusal
when the WAN has no default route); an apply that is already in sync, refused
or rejected changes nothing and has no action. `ApplyGuard` is one interface of
`apply_firewall`, and so on: one action per command or per iteration of a loop,
with one disjunct for its success and one for its failure. The failure disjunct
is enabled by `MayFail` and does what the code does: return (`guard`, `rule`,
and a `show` that cannot be spawned), roll back (`add`, `prio`, `lan`, `show`),
or go on (`del`, `delrule`, and everything in `rollback` and `reset`). The
*resetter* (`rpc`, `rold`, `rdevs`, `ridx`) runs `reset` in the same way.

`Netlink` holds what matters about `ip route`: `replace` keys an entry by
table, destination and metric; `del` as `delete_route` calls it names neither
metric nor gateway and takes the matching entry of the lowest metric; an
unreachable route is sent without metric and so filed under 0. It is on these
details that several of the findings turn.

`Spec` interleaves the two threads, as the code does. `SerialSpec` is the same
next-state relation restricted to steps after which one of the two is idle. It
is the regime in which nobody sends Reset or Shutdown during an apply, and the
one in which the code's promises can hold; what goes wrong outside it is shown
by `find_shutdown_race`. Both specifications assume weak fairness of the two
threads (commands return, so a thread with a next step takes it) and none of
requests, crashes or the host.

### PolicyTransaction

What `reconcile` and `reset` promise together: the host has one `contract` in
force. An apply puts interfaces under guard (`Protect`), which it never takes
back, and then exchanges the routes of the whole contract in one step
(`Commit`), or does not. A reset (`BeginEnd`, `Unprotect`, `End`) ends with
nothing. `ReconcilerProperties` maps the reconciler onto it: `Recorded` is the
contract of the state file (during a reset, of what it has loaded), and
`entries` are the routes that some rule looks up (`InEffect`) whenever no
thread is at work; in between, the kernel is on its way and the contract's
entries stand for it. So the save is the commit, everything up to it stutters,
and what a rollback has to prove is that the kernel is back at the record.
`Transactional` is the refinement.

### Firewall and EgressGuard

`chains` maps each `RT_EGRESS` chain to its policy and the stages of rules it
holds, `hooks` each interface to the jumps in OUTPUT, in order. The applier is
`apply_family`: choose a generation by what is hooked, empty it, append the
four stages in order, hook it in front, unhook the others. The cleaner is
`cleanup_family`; it removes one jump per command, as `iptables -D` does, and
looks again. `Verdict` walks OUTPUT as the kernel does. The refinement
`Atomic` maps `verdict` to the verdict of every packet and `cleaning` to the
cleaner being at work, and says that each step of the program is a step of
`EgressGuard` (install one whole policy, or clear during a cleanup) or changes
no verdict. One address family is modelled; the two share nothing. The runs
take `SerialSpec`, in which a cleanup does not overlap an apply; under `Spec`
the cleanup may remove the chain an apply has just hooked.

### Health

A direct translation, with counters that stop at `MaxCount`, which lies above
both thresholds; nothing compares them with anything larger.

### Failover

`loop`, `todo` and `changed` are the round in progress: `BeginRound` collects
the interfaces to probe, each `Probe` records one outcome in `Health` (success
if the `link` has a carrier) and notes a change of availability, `EndRound`
applies or, after a quiet round, purges `defaults` from the interfaces of
targets. The order of the probes is open, links and default routes change
between any two steps. An apply is one step that succeeds or is `missed`:
rejected by validation, refused because the WAN has no default route, or rolled
back, the one at startup too (that a failed apply leaves the old policy in
force is what `Transactional` says of `Reconciler`). The mutex is held for a
whole round, so requests that take it come between rounds; `Reset` takes none
and comes at any step. `inforce` is the configuration and the path of each rule
last applied.

`KernelTracksHealth` and the liveness properties speak of `InForce` and
`InStep`: the last apply went through and (`InStep`) nobody edited the
configuration since. The loop does not bring these about: a failed failover is
not tried again before the next change.

### Policy and Daemon

A prefix is the set of its addresses: longest-prefix match is the smallest set,
and `nets_overlap` holds of nested prefixes. A configuration is a record with
the parts the policy depends on; `[wan]`, `mode` and `defaults` have the values
without which `validate_strict_lan_policy` refuses it. From it and from the set
of available interfaces follow, as in the code,

    Rules -> RuleRoutes -> Generated -> Fib -> Lookup -> Egress  (what the table does)
    Rules -> Decide                                              (what explain answers)
    targets, lan_domains -> AllowRules -> FirewallAllows         (what the firewall lets out)

`from_config` sorts its rules by source, and stably; the model leaves them as
listed and compares them instead (`Before`, for `decide`). Routes of several
rules may share a kernel key, of which the table holds one at a time. Which one
depends on the applies before: `reconcile` adds the routes only that are not
recorded, so the last one written need not be the one of the last rule. `Fib`
therefore has all that may be there, `Egress` is the set of interfaces by which
a packet may leave, and the properties hold for each of them. `Retained` is
`Vec::retain`. A `[local_dns]` record always has an address; validation also
takes a record with an empty list, for which the code makes no route.

The three paths read different parts of the configuration and nothing in the
code compares them; that they agree is what the properties of `Daemon` say.

`Daemon` is the state behind the mutex (`config`, `health`) and `inforce`, the
configuration and health of the policy that was last installed. Its actions are
what one holder of the mutex does: a round of probes that changes availability
(with the apply it causes), an Apply request (which replaces the daemon's
configuration before checking it, dry runs included), AddTarget, RemoveTarget,
and Reset. An accepted apply installs everything at once, or is rolled back
although no command fails: when an obsolete route has the kernel key of one
that is recorded and stays (`Entangled`), its deletion may leave the
destination without an entry, which the verification notices
(reconcile.rs:94-189). What else can go wrong inside an apply is the subject of
`Reconciler`, and which probes make an interface available that of `Failover`.
One address family is modelled, and queries for single addresses and names.

### Setup

The state is what is loaded: `file`, `env` and the interfaces that are `up`.
`Load` is `load_config_or_default` with `apply_env_str`: a file that is missing
or no TOML counts as the default, interfaces of the `.env` replace those of the
file, its lists are merged. A list grows by the `Fresh` elements of another,
those whose key it does not have yet; which key (the element, prefix and port,
a network's name, a target's text) differs from list to list, and that they
differ is what makes it worth asking whether autoconfig comes to rest. `Detect`
and `MergeDetected` are the detector, `Saved` is what `autoconfig --save`
writes. Everything else is a user who writes, edits or deletes a file, or a
link. What an accepted configuration then does is `Egress` of `Policy`. There
is no daemon: each apply loads anew, and `Daemon` has what becomes of the
result.

### Lifecycle

Any number of daemon processes and commands share `kernel`, `file`, `socket`
and `pidfile`. `kernel` is the set of policies of which anything is left in it.
A daemon runs `boot -> (wipe -> clear -> flush) -> unlink -> bind -> pid ->
program -> save -> serve`, takes requests, re-applies and ends by `wipe ->
clear -> flush -> xsock -> xpid -> off`; a command pings, waits for the answer
or for the end of the connection, asks, or does the same work in its own
process. A connection to a daemon that is still starting is queued by the
kernel and answered later, since the client has no timeout: this waiting is all
that keeps two processes apart. `restart` is a stop that goes on as a start;
its fixed sleeps become steps that may come at any time. Signals are taken when
the accept loop runs; one that comes earlier kills the daemon.

Two constants say what users do. `Impatient` lets them, and `start` after its
two seconds, go on while a daemon is still starting; `TornStop` lets a process
end at a point where the kernel holds a policy that only its next step would
record or remove. The run and the theorems have both `FALSE`; what goes wrong
otherwise is listed below.

## What TLC checks

| Run | Bounds | Shows |
|---|---|---|
| `recon_failures` | 3 interfaces, 3 destinations, 4 desired states; every failure `reconcile` handles; default routes appearing | `Transactional` (the refinement of PolicyTransaction), `KernelMatchesRecord`, `LabTargetsCovered`, `CleanExit`, `ForwardStepsKeepCover`, `NoNeedlessRollback`, `TypeOK` |
| `recon_mishaps` | 5 desired states; the ignored and half-way failures too; crashes | `GuardLive`, `RecordGuarded`, `CommitVerified` |
| `recon_interleaved` | 2 desired states, `Spec`, every failure, links down | `AlwaysSettles` |
| `fw_atomic` | 2 interfaces, 2 policies, 3 destinations; failures up to the hook | `Atomic` (the refinement of EgressGuard), `OthersUntouched` |
| `fw_mishaps` | 1 interface, every failure of applies and cleanups, crashes | `StaysClosed`, `HookedOnce`, `TypeOK` |
| `health_bounds` | 2 interfaces, thresholds 3 and 2 | `AvailabilityTracksProbes`, `FlappingBounded`, `TypeOK` |
| `failover` | a WAN and 2 LAN interfaces, 2 rules, an accepted and a refused configuration, thresholds 3 and 2; applies fail at will | `KernelTracksHealth`, `AbandonsDeadPath`, `FailsBack`, `RogueDefaultsPurged`, `FTypeOK` |
| `daemon_policy` | 4 addresses and their 7 prefixes; a WAN and 2 LAN interfaces; 3 configurations, 4 targets, 2 of them at a time | `LabNeverOnWan`, `BlacklistNeverOnLan`, `RoutedIsAllowed`, `ExplainAgrees`, `FailoverKeepsCover`, `TypeOK` |
| `setup` | the same addresses; a WAN, 2 LAN interfaces, a container bridge; 2 written files and a malformed one, 3 `.env`s | `AutoconfigSettles`, `EnvEnforced`, `ManualKept` |
| `lifecycle` | 2 daemons, 1 command, 2 policies, 1 crash or interrupt | `OneProgrammer`, `SocketReachesDaemon`, `ServedAsRecorded`, `Ephemeral`, `StopEndsDaemon`, `RestartServes`, `LTypeOK` |

Why the bounds are enough. The desired states cover the plans for which the
reconciler keeps its promises: the same destination through another interface,
or unreachable (same and different kernel keys); a destination that disappears;
another firewall policy and another set of guarded interfaces; the same routes
(in sync). Left out of the reconciler's runs, as of its theorems on atomicity,
are desired states in which two routes share a kernel key (their effect on a
policy is in `daemon_policy`) and pairs that differ in the gateway or the table
only, for which `NoNeedlessRollback` fails (`MCGateways` and `MCOther` below).
Two applies in a row already meet every pair of recorded and desired state, and
TLC explores sequences of any length, since nothing is counted. Three
interfaces are the least with a WAN, a preferred and a fallback path. In
`fw_atomic` an append never fails: it would leave an unhooked chain, as a
failing hook does, and `fw_mishaps` has it. For the firewall, two policies that
allow different destinations and a third destination that neither allows tell
every order of rules and hooks apart; the generations are three whatever the
number of policies. `MaxAge` in `HealthHistory` bounds the history counters
above the largest gap the property compares.

In `daemon_policy` four addresses give three lengths of prefix, the least with
a target inside a target and a blacklist entry above, equal to and below one.
The targets are nested and prefer different interfaces; one is an address that
the name answers too (two rules for one kernel key, whose failover may be
rolled back); one falls back to the WAN
and must be refused. One configuration is refused because of its blacklist in
some states and accepted in others, as targets are added. Every subset of the
LAN interfaces becomes available in every order. `wan` is never one of the
`lan_interfaces`; below is what happens otherwise (`MCWanAsLan`).

The two rules of `failover` share both interfaces in opposite order, so that
every loss and every return of a path moves exactly one of them, and a round
may meet two changes at once. The refused configuration is what an added target
can make of the accepted one. In `lifecycle` two daemons are the old and the
new one of a restart; a third could only be started when one of the two is
gone, and process numbers are used again then. One crash may be followed by
anything; the properties that speak of recovery hold after it. In `setup` the
two LAN interfaces share a network, so that detection meets the same subnet
twice, a file has a target that is detected too, and the three `.env`s differ
in what they replace, add and leave out.

Where a run leaves a failure out, the property does not hold with it:

- `recon_failures` leaves out the failures that `rollback` and `reset` ignore,
  and half-way returns. A re-add that fails during rollback (reconcile.rs:264)
  leaves a recorded lab target without an entry, hence to table main.
- `recon_mishaps` has them, and there a recorded lab target may even lead to an
  interface that the kernel does not use (below): `CommitVerified` compares
  what the verification compares, tables, destinations and types, not devices.
- `RecordGuarded` needs the state file to be removable (`clear`).
- `fw_atomic` leaves out a failure or crash between hook and unhook, and failed
  cleanups, since both leave two generations hooked, of which the next apply
  flushes one in place (firewall.rs:108-112). For the same reason `StaysClosed`
  excepts the flush of a hooked chain.

Deadlock is checked in every run.

Fairness. The reconciler's threads, the probe loop, daemon processes and
commands are weakly fair: commands of `ip` and `iptables` return, the timer
ticks, and a process that can run does. In `Lifecycle` three steps are strongly
fair, because a daemon that is busy again and again enables them only from time
to time: the answer to a request and its reply (tokio's mutex is granted in the
order of arrival), and the taking of a signal (the accept loop does not wait
for the mutex). Users, crashes, links, signals and the outcomes of applies are
never assumed fair; `StopEndsDaemon` and `RestartServes` are about behaviours
in which the last crash is over, `AbandonsDeadPath`, `FailsBack` and
`RogueDefaultsPurged` about links that have settled.

### Disagreements with the documentation

Two runs each check one property that the documentation states and the code
does not keep; PROJECT.json quotes the line.

| Run | What happens |
|---|---|
| `find_shutdown_race` | `abort()` does not stop an apply in progress; it interleaves with the final reset, and something is left behind |
| `find_suffix` | a rule for `*.lab` looks for names that end in two dots: it has no route and its lab hosts go out by the WAN, while `explain` names the LAN interface |

The same modules show more departures under other constants, which have no run
of their own:

- `Desireds <- MCGateways`, `MayFail = {}`, `EnvEvents = {}` in
  recon_failures.cfg: only the WAN gateway changes; the new pinned route
  replaces the old one and is then deleted as obsolete, so the apply rolls back
  (`NoNeedlessRollback`; netlink.rs:548, reconcile.rs:97).
- `Desireds <- MCFailover`, `MayFail = {}`, `EnvEvents = {"crash"}`: after a
  crash during the first apply the restarted daemon finds no state file and
  resets nothing (`NoOrphanRoutes` of `ReconcilerProperties`; daemon.rs:68,
  reconcile.rs:290-292).
- `Iface = {eth0}`, `MayFail <- EveryFailure`, `PROPERTY NoFlushInPlace` in
  fw_atomic.cfg: a hooked chain is flushed in place after a failure left both
  generations hooked (firewall.rs:108-112).
- In recon_mishaps: a failover from `Preferred` to `Backup` fails and so does
  the route that its rollback adds; applying `Tightened`, whose routes are the
  recorded ones, then records eth1 while the kernel still routes through eth2.
  The verification compares destinations and types, no interface
  (reconcile.rs:161-174).
- `Desireds <- MCOther` in recon_failures.cfg: verification lists the recorded
  table (reconcile.rs:164), so the first apply with another `table_id` than
  52000 rolls back (`NoNeedlessRollback`), and its RPDB rule is never removed
  (`CleanExit`).
- `EnvEvents = {"linkdown"}`: the kernel drops the routes of a link that goes
  down and the plan, which never looks at the kernel, does not put them back
  (`LabTargetsCovered`; README.md:37).
- `SPECIFICATION Spec`: a Reset request beside an apply leaves a recorded lab
  target without a route (`LabTargetsCovered`).
- `StemOf <- SharedStem` in fw_atomic.cfg: interfaces that differ in `.` and
  `-` share chains (`OthersUntouched`; firewall.rs:246-247).
- Default routes purged from LAN interfaces (reconcile.rs:147) are recorded
  nowhere, so no reset restores them (README.md:178).
- After a rollback the new firewall stays, deliberately (reconcile.rs:83-86),
  but the old one is recorded: applying the old configuration again is "in
  sync" and leaves the new firewall in force.
- A degraded path is available again after one success; the recovery threshold
  counts from Down only (README.md:36).
- `NewTargets <- MCBare` in daemon_policy.cfg: a target written as an address
  without a length is routed (policy.rs takes both forms) and blocked (the
  firewall takes prefixes only) (`RoutedIsAllowed`).
- `Configs <- MCWans`, `Wan = {wan, usb}` in failover.cfg: `default_wan` is
  computed once, so after an Apply with another WAN the old one is pinned, or
  the apply refused (`WanAsConfigured`; daemon.rs:43, reconcile.rs:125).
- `Configs <- MCPartial`: an interface that only LAN domains use is not probed
  and keeps the health it had when a target last used it; the domains stay on a
  dead path, or unreachable (daemon.rs:134-144).
- `Command = {c1, c2}` or `Impatient = TRUE` in lifecycle.cfg: each violates
  `OneProgrammer`, `SocketReachesDaemon`, `ServedAsRecorded` and `Ephemeral`. A
  second start, or `reversed` run by hand beside a daemon, resets what the
  first has programmed and takes its socket (the comment at daemon.rs:66 speaks
  of "prior crashes" only); an apply that loses its daemon to a shutdown is
  done again in the process of the command, beside the cleanup.
- `TornStop = TRUE`: a daemon that dies before its first save leaves routes
  that no start removes (`ServedAsRecorded`).
- `SavedIsAccepted` in setup.cfg: autoconfig writes networks with `auto_subnets
  = true`, which config.rs:363 refuses, so `autoconfig --apply`
  (README.md:113-114) cannot succeed once it found a LAN. The shipped
  `config/example.toml` has the same setting, and the shipped `.env.example`
  names a domain without a record; both are refused.
- `MalformedKept` in setup.cfg: a file that is no TOML counts as the default
  configuration (commands/mod.rs:408), and `autoconfig --save` overwrites it.
- `Configs <- MCOutside`: the interfaces of `[[networks]]` need not be
  `lan_interfaces`, and the checks before the kernel look at the latter only;
  the answer to a name is then routed to the LAN inside a blacklisted network
  (`BlacklistNeverOnLan`).

- `Configs <- MCWanAsLan`: nothing refuses a `LAN_INTERFACE` that is the WAN,
  unless there is a blacklist, whose pinned routes are then refused
  (planner.rs:59): a lab target is sent out by the WAN (`LabNeverOnWan`).
- `Configs <- MCTwoOwners`, with `RoutedIsAllowed` stated for the answers to
  names of networks too: an address that a target and a network both claim is
  routed by whichever route was written last; if that is the network's, its
  interface, which the whitelist does not list for it, drops it, and `explain`
  names the other.

And some that can be read off the definitions:

- `ExplainAgrees` asks for `Unambiguous`. Of two rules for the same address
  `decide` takes the first and the kernel the route that was written last, or,
  if one of them is down, the unreachable one: it has metric 0 (`Installed`)
  and hides the other. A name whose answer lies in a target's network is
  explained by the name's rule only if that rule comes first.
- A failover whose obsolete route shares its kernel key with a route that stays
  (a LAN domain that answers with the address of a target) may be rolled back to
  the dead path (`Entangled`), and like any failed failover is not tried again
  before the next change.
- `BlacklistNeverOnLan` allows `NoDev`: a blacklisted answer to the name of a
  network is unreachable while the network is down, and goes out by the WAN
  otherwise.
- `EnvEnforced` speaks of configurations that are accepted twice, when they are
  loaded (`Valid`) and when they are applied (`ValidDesired`): the overlap of a
  network's route with the blacklist is found by the second check only.
- A dry run replaces the daemon's configuration; the next failover applies it.
- `target add` and `target remove` change the daemon's configuration and no
  file: the next apply sends the one of the file and they are gone.
- After a Reset request the next change of availability brings the policy back.
- systemd/reversed.service:7-8 runs with `Type=simple` a binary that goes to
  the background.
- commands/daemon.rs:80 reports that the daemon has stopped without waiting for
  it.

## What is proved

All proofs are for arbitrary constants under the named assumptions of the
modules (type facts about the constants: `Rule0Assumption`,
`DesiredsAssumption`, `FileAssumption`, `FailoverAssumption`,
`LifecycleAssumption`, ...; for Health, thresholds above 0). Further
assumptions are in the statement of the theorem.

Reconciler, types and guards (`ReconcilerProofs`):

- `TypeCorrect`: `Spec => []TypeOK`. The type invariant is inductive. It
  carries that `idx` and `ridx` are positions of the list that the phase walks,
  so no loop reads past its list even when applies, resets and crashes
  interleave. The proof has one lemma per group of actions, each by
  `ApplierTypes` or `ResetterTypes`, which reduce it to the variables touched.
- `GuardAlwaysLive`: `SerialSpec => []GuardLive`. `GuardLive` is not inductive:
  it is silent about the phase that installs the guards and about the reset
  that removes them. `LiveInv` adds `GuardSoFar` (what the "guard" phase has
  visited is installed) and `Serial` (a step of the resetter meets an idle
  applier).
- `RecordAlwaysGuarded`: `SerialSpec => []RecordGuarded` if the state file can
  be removed. It rests on `LiveInv`, which gives the guard of a state at the
  moment it is saved, and on `RecordGone`: past its removal of the file a reset
  sees none, so it never hands back a record without guards.

Resets and the record, for desired states of the default table and rule
(`DefaultTableOnly`):

- `ExitIsClean`: `SerialSpec => []CleanExit` if the commands of a reset
  succeed. `ExitInv` adds that every entry, rule and guard of the kernel is
  within reach of the coming reset (`Reachable`: the one rule and table that an
  unrecorded run is flushed of, or an interface that it visits), and what each
  of its phases has already removed (`Removed`, `Leaving`).
- `RecordIsVerified`: `SerialSpec => CommitVerified` if the file can be removed
  and links stay up, whatever else fails, in rollbacks and resets too, and
  whatever crashes. `VerifiedInv` adds where the record at work comes from
  (`Source`), that its rule is up from the first route on (`RuleUp`), and that
  what the verification has seen is still there at the save (`Seen`).

Atomicity, under `RegimeOfRollback`: the default table; in
a desired state no two routes share a kernel key; routes of all desired states
that agree in destination, type and device are one route (a deletion names no
more, so without this it takes its replacement: this is the gateway case
above); commands of deletion, rollback, reset and save succeed, and nothing
crashes. The constants of `recon_failures` satisfy it.

- `ApplyIsAtomic` (`[]KernelMatchesRecord`), `VerificationSucceeds`
  (`[]NoNeedlessRollback`), `LabTargetsStayCovered` (`[]LabTargetsCovered`),
  `NoVacuum` (`ForwardStepsKeepCover`) and `ApplyIsTransaction` (`SerialSpec =>
  Transactional`, the refinement). The invariant `AtomicInv` says in
  `Progressed` between what the table lies in every phase: while adding,
  recorded and desired routes, with all additions so far; while deleting, the
  desired routes and obsolete ones still to come; from then to the save, the
  desired ones exactly; while rolling back, the recorded ones and what is still
  to be undone. The lemmas on `AddRoute` and `DeleteRoute` give the effect of
  one command on such a set. `Provenance` ties recorded and desired states to
  `Desireds`. For the refinement `RefineInv` adds `Visits` (which guards the
  transaction has seen).

Health and failover (`FailoverProofs`):

- `TypeCorrect` and `AvailabilityCorrect`, from `CounterInv`, which says what
  each health state implies about the counters.
- `FlappingIsBounded`: `HSpec => FlappingBounded`, from `RowInv`, which relates
  the ages of the last two changes to the rows of outcomes.
- `FTypeCorrect` and `KernelFollowsHealth` (`FSpec => []KernelTracksHealth`),
  for every set of rules, configurations and thresholds. `FollowsUnlessChanged`
  extends it to the middle of a round: as long as no change has been seen, what
  is in force follows the health map, whatever requests, edits and failures
  came before.

Life cycle (`LifecycleProofs`), for any number of daemons, policies and
crashes:

- `LTypeCorrect`, without a further assumption.
- `HostHasOneProgrammer` and `ServingDaemonIsReached`, for one command at a
  time and patient users. The invariant `Apart` says that the socket path leads
  to the one daemon that is past its bind, that no other starts beside it, and
  that a command is connected to it or works alone: the socket path is the
  lock.
- `DaemonServesItsRecord` and `NothingIsLeft`, if also no process ends torn:
  `Recorded` (the kernel holds what the file says, but for the process at
  work), `LeftoversOwned` (with something left there is a daemon that will
  remove it, or a crash or direct apply to blame), `DirectIsLoose`.

Firewall (`FirewallProofs`), for every set of interfaces, policies and
destinations:

- `TypeCorrect` and `HookedOnceAlways` of `Spec`, in which cleanups overlap
  applies and everything may fail: no jump ever leads to a chain that is gone,
  and none is there twice. Both are inductive as they stand (the second with
  the first): the kernel keeps a chain while a jump leads to it, and a jump is
  looked for before it is inserted.
- `StaysClosedAlways` (`SerialSpec => StaysClosed`), whatever fails or crashes
  and even for interfaces that share chain names. `ClosedInv` adds that the new
  generation ends in its drop rule before it is hooked and is hooked before
  another is unhooked (`DropsAtLast`).
- `OthersUntouchedAlways`, of `Spec`, under `DistinctStems` (no two interfaces
  have the same chain names): `OwnChains`, an interface jumps only to chains of
  its own stem.
- `ImplementsEgressGuard` (`SerialSpec => Atomic`, the refinement) and
  `NoFlushInPlaceAlways`, under `DistinctStems` and `FailsSafely` (no failing
  unhook or cleanup, no crash; chain creations, appends and hooks may fail).
  `GuardInv` says that every hooked chain holds one whole policy, that one is
  hooked but for the moment between hook and unhook, and that the generation
  being filled is not among them. Each command is then shown to be the one step
  of `EgressGuard` that installs a policy, or to change no verdict.

Policy (`PolicyProofs`, `DaemonProofs`), for all prefixes, configurations and
sets of available interfaces. The chain of lemmas follows the definitions:
`RulesOfConfig` (one rule per target, domain and network), `GeneratedRoutes`
(in an accepted configuration each prefix of a rule has a route, to a path or
unreachable), `FibCovers` (so the destinations of the table are those of the
configuration, whatever is down), `LookupFinds` (of the nested prefixes of an
address there is a longest, and of that an entry of lowest metric) and
`EgressOrigin`: an address leaves by the WAN because of a blacklist entry, or by
the interface chosen for a rule that covers it, whichever entry of a kernel key
is the one in the table. From
`PolicyInv` (what is in force was accepted, with the health that it is in force
for, and but for its targets was loaded or sent):

- `ExplainAgreesAlways` and `FailoverKeepsCoverAlways`, without a hypothesis.
- `TypeCorrect`, if no configuration that is loaded or sent has two targets of
  the same text (validation does not look for them).
- `LabNeverOnWanAlways`, under `LabHypothesis`: no network is a suffix
  (`find_suffix` shows why), those that list names use LAN interfaces only, and
  without a blacklist the WAN is no LAN interface (`MCWanAsLan`).
- `BlacklistNeverOnLanAlways`, if networks that list names use LAN interfaces
  only (`MCOutside` shows why).
- `RoutedIsAllowedAlways`, if targets are written as prefixes (`MCBare`).

Setup (`SetupProofs`), for every file, `.env`, host and set of links:

- `AutoconfigSettlesAlways` (`Spec => []AutoconfigSettles`), without a
  hypothesis. Every list grows by what it does not have, so what is saved has
  a key for everything that the next merge brings: `FreshCovers` says that each
  element is known or kept, `FreshNone` that nothing is added when all are
  known. Merging the `.env` again therefore changes nothing (`SavedIsRead`),
  detection depends on the WAN and the links only (`DetectSame`), and merging
  what it finds adds nothing (`MergeDetectedNone`).
- `ManualKeptAlways`: a merge extends a list, never reorders it.
- `EnvEnforcedAlways`, if in each file written by hand the networks that list
  names use interfaces of the file's LAN interfaces and of those of every
  `.env` that has any (`NamedInside`; nothing in the code checks the interfaces
  of networks). `AsPolicy` is a loaded configuration as the policy engine reads
  it; its rules and routes are the same (`AsPolicyRules`, `AsPolicyRoutes`), so
  that the lemmas of `PolicyProofs` apply, and the merged lists contain what
  the `.env` asked for (`EnvClaimed`). `NamedInv` carries the hypothesis from
  the files to what autoconfig makes of them.

`FlattenSeq` is recursive; that it yields a list (`Flattened`) is proved from
its recursive function, by the least position at which it would not.

Only model-checked: liveness (`AlwaysSettles`, `AbandonsDeadPath`, `FailsBack`,
`RogueDefaultsPurged`, `StopEndsDaemon`, `RestartServes`), which is beyond the
prover. Every other property that a passing run checks is stated by a theorem.

## Not modelled

- The second address family. The firewall has two that share nothing; for
  routes `get_table_routes` lists IPv4 only, so the verification of a desired
  IPv6 route cannot succeed and a reset leaves it to the final flush.
- DNS backends: each call is one command of the resolver and no state is kept.
  The recursion of `execute_apply` on changed answers needs a LAN domain
  without a record, which validation refuses.
- The prober, beyond its outcome; capability checks, which warn; `doctor`,
  which prints; `capture`, which writes a report and a list that no other part
  reads.
- Parsing and formatting of TOML, `.env` lines, prefixes, requests and the
  output of `ip`.
- The restoration of purged default routes (README.md:178): the code has none.
- `lan.sh` and the building and installing of the project; what `run.sh`,
  `stop.sh` and the unit file do to a host is `Launch`, a stop and a signal of
  `Lifecycle`.
