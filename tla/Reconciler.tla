----------------------------- MODULE Reconciler -----------------------------
(***************************************************************************)
(* The reconciler of crates/reverse-app/src/reconcile.rs: reconcile()      *)
(* brings the kernel to a desired state, rollback() undoes a failed        *)
(* attempt, reset() removes everything.  One action per command sent to    *)
(* the kernel, so that a failed command, a crash or another thread can     *)
(* come between any two of them.                                           *)
(*                                                                         *)
(* Two threads of the daemon run it.  The applier is whoever holds the     *)
(* daemon's mutex (the probe loop, the Apply request, startup); the        *)
(* resetter is the Reset request, the startup cleanup or the shutdown      *)
(* cleanup, none of which takes the mutex.  Spec lets the two interleave,  *)
(* as the code does; SerialSpec never overlaps them, as when no reset is   *)
(* requested while an apply is in progress.                                *)
(*                                                                         *)
(* Simplifications:                                                        *)
(*  - the firewall program of an interface is one value, the policy it     *)
(*    enforces (the generation swap inside it is module Firewall);         *)
(*  - DesiredState carries one RPDB rule, as generate_desired_state()      *)
(*    builds it; invalid desired states and dry runs return before any     *)
(*    change and are not modelled;                                         *)
(*  - at most one reset runs at a time;                                    *)
(*  - the generation counter and the time stamp of the state file are left *)
(*    out: nothing reads them back for a decision.                         *)
(***************************************************************************)
EXTENDS Netlink, Sequences

CONSTANTS
  Desireds,      \* the desired states that applies ask for
  Policy,        \* firewall programs: what whitelist and blacklist amount to
  NoPolicy,      \* the program of an empty whitelist and blacklist
  NoGuard,       \* no RT_EGRESS chain hooked for the interface
  Absent,        \* no state file
  Corrupt,       \* a truncated state file
  NoWant,        \* the applier is idle
  Rule0,         \* priority 12000, table 52000: defaults and reset() literals
  DefaultDevs,   \* interfaces with a default route before the daemon starts
  WlanDevs,      \* wlan0 and wlan1, which reset() always restores
  MayFail,       \* the commands that may fail
  EnvEvents      \* the events of the host that may occur

ASSUME PolicyAssumption ==
  /\ NoPolicy \in Policy
  /\ NoGuard \notin Policy
ASSUME Rule0Assumption == Rule0 \in RpdbRule
ASSUME MainAssumption == DefaultDevs \subseteq Dev /\ WlanDevs \subseteq Dev

\* DesiredState: firewall_interfaces and firewall_whitelist/blacklist are
\* `ifs` and `policy`; wan_interface is explicit under the strict policy.
DesiredState == [routes : Seq(Route),
                 rule   : RpdbRule,
                 wan    : Dev,
                 ifs    : SUBSET Dev,
                 policy : Policy]

ASSUME DesiredsAssumption == Desireds \subseteq DesiredState

\* RuntimeState; allocated_table and rule_priority are `owner`.
RuntimeState == [routes_owned : Seq(Route),
                 rules_owned  : SUBSET RpdbRule,
                 owner        : RpdbRule,
                 ifs          : SUBSET Dev,
                 policy       : Policy]

ASSUME FileAssumption ==
  /\ Absent # Corrupt
  /\ Absent \notin RuntimeState
  /\ Corrupt \notin RuntimeState
  /\ NoWant \notin DesiredState

DefaultState == [routes_owned |-> <<>>, rules_owned |-> {}, owner |-> Rule0,
                 ifs |-> {}, policy |-> NoPolicy]

VARIABLES
  fib,     \* entries of the isolated tables
  rules,   \* RPDB rules
  main,    \* default routes of table main
  guard,   \* per interface, the firewall program hooked into OUTPUT
  file,    \* state.json
  mode,    \* life cycle of the daemon
  apc,     \* applier: the phase of reconcile() or rollback() it is in
  want,    \*          the desired state it applies
  old,     \*          the runtime state it loaded
  devs,    \*          interfaces the phase still has to visit
  idx,     \*          routes the phase still has to visit
  rpc,     \* resetter: the phase of reset() it is in
  rold,    \*           the runtime state it loaded
  rdevs,   \*           interfaces still to clean
  ridx     \*           routes still to delete

kernel == <<fib, rules, main, guard>>
applier == <<apc, want, old, devs, idx>>
resetter == <<rpc, rold, rdevs, ridx>>
vars == <<fib, rules, main, guard, file, mode,
          apc, want, old, devs, idx, rpc, rold, rdevs, ridx>>

-----------------------------------------------------------------------------
(* RoutePlanner::plan_diff: the desired state against the recorded one     *)

Elements(s) == {s[i] : i \in DOMAIN s}

RoutesToAdd(d, s) == {i \in DOMAIN d.routes : d.routes[i] \notin Elements(s.routes_owned)}

RoutesToRemove(d, s) ==
  {i \in DOMAIN s.routes_owned : /\ s.routes_owned[i].table = s.owner.table
                                 /\ s.routes_owned[i] \notin Elements(d.routes)}

RulesToAdd(d, s) == {d.rule} \ s.rules_owned

RulesToRemove(d, s) == (s.rules_owned \cap {s.owner}) \ {d.rule}

FirewallChanged(d, s) == d.policy # s.policy \/ d.ifs # s.ifs

InSync(d, s) ==
  /\ RoutesToAdd(d, s) = {} /\ RoutesToRemove(d, s) = {}
  /\ RulesToAdd(d, s) = {} /\ RulesToRemove(d, s) = {}
  /\ ~FirewallChanged(d, s)

\* StateManager::load: a missing file is the default state; a corrupt one is
\* an error, so the operator is used only when file # Corrupt.
Load(f) == IF f = Absent THEN DefaultState ELSE f

\* The state that a successful reconcile() saves.
Committed(d) == [routes_owned |-> d.routes, rules_owned |-> {d.rule}, owner |-> d.rule,
                 ifs |-> d.ifs, policy |-> d.policy]

\* Interfaces of desired routes on which step 5 purges default routes.
LanDevs(d) == {r.output_interface : r \in Elements(d.routes)} \ {NoDev, d.wan}

First(i, S) == i \in S /\ \A j \in S : i <= j

Fails(command) == command \in MayFail

-----------------------------------------------------------------------------
(* reconcile() *)

Goto(pc, ds, is) ==
  /\ apc' = pc /\ devs' = ds /\ idx' = is
  /\ UNCHANGED <<want, old>>

\* Return from reconcile(), with a report or an error.
Finish ==
  /\ apc' = "idle" /\ devs' = {} /\ idx' = {}
  /\ want' = NoWant /\ old' = DefaultState

Rollback == Goto("undo", {}, RoutesToAdd(want, old))

\* Mutant: the guards are only visited when the recorded firewall differs.
ApplyBegin_GuardIfChanged(d) ==
  /\ apc = "idle"
  /\ mode = "running" \/ (mode = "exiting" /\ rpc # "idle")
  /\ file # Corrupt
  /\ ~InSync(d, Load(file))
  /\ HasDefaultRoute(main, d.wan)
  /\ apc' = "guard" /\ want' = d /\ old' = Load(file) /\ idx' = {}
  /\ devs' = IF FirewallChanged(d, Load(file)) THEN d.ifs ELSE {}
  /\ UNCHANGED <<kernel, file, mode, resetter>>

\* Load, plan, and refuse when the WAN has no default route.  A corrupt
\* file, a desired state already in sync and a refusal change nothing.
ApplyBegin(d) ==
  /\ apc = "idle"
  /\ mode = "running" \/ (mode = "exiting" /\ rpc # "idle")
  /\ file # Corrupt
  /\ ~InSync(d, Load(file))
  /\ HasDefaultRoute(main, d.wan)
  /\ apc' = "guard" /\ want' = d /\ old' = Load(file) /\ devs' = d.ifs /\ idx' = {}
  /\ UNCHANGED <<kernel, file, mode, resetter>>

\* Mutant: the error of an interface is swallowed.
ApplyGuard_IgnoreError(i) ==
  /\ apc = "guard" /\ i \in devs
  /\ \/ guard' = [guard EXCEPT ![i] = want.policy]
     \/ Fails("guard") /\ UNCHANGED guard
  /\ Goto("guard", devs \ {i}, {})
  /\ UNCHANGED <<fib, rules, main, file, mode, resetter>>

\* apply_firewall(): one interface after the other.  When the IPv6 program
\* of an interface fails, its IPv4 program stays.
ApplyGuard(i) ==
  /\ apc = "guard" /\ i \in devs
  /\ \/ /\ guard' = [guard EXCEPT ![i] = want.policy]
        /\ Goto("guard", devs \ {i}, {})
     \/ /\ Fails("guard")
        /\ guard' \in {guard, [guard EXCEPT ![i] = want.policy]}
        /\ Finish
  /\ UNCHANGED <<fib, rules, main, file, mode, resetter>>

\* Step 1, after the last interface: the rule of the isolated table.
ApplyEnsureRule ==
  /\ apc = "guard" /\ devs = {}
  /\ \/ /\ rules' = EnsureRules(rules, RulesToAdd(want, old))
        /\ Goto("add", {}, RoutesToAdd(want, old))
     \/ /\ Fails("rule") /\ RulesToAdd(want, old) # {}
        /\ UNCHANGED rules
        /\ Finish
  /\ UNCHANGED <<fib, main, guard, file, mode, resetter>>

\* Step 2: the new routes, in the order of the desired state.
ApplyAddRoute(i) ==
  /\ apc = "add" /\ First(i, idx)
  /\ \/ /\ fib' = AddRoute(fib, want.routes[i])
        /\ Goto("add", {}, idx \ {i})
     \/ /\ Fails("add")
        /\ UNCHANGED fib
        /\ Rollback
  /\ UNCHANGED <<rules, main, guard, file, mode, resetter>>

ApplyAddDone ==
  /\ apc = "add" /\ idx = {}
  /\ Goto("del", {}, RoutesToRemove(want, old))
  /\ UNCHANGED <<kernel, file, mode, resetter>>

\* Step 3: obsolete routes; a failed deletion is ignored.
ApplyDelRoute(i) ==
  /\ apc = "del" /\ First(i, idx)
  /\ \/ fib' = DeleteRoute(fib, old.routes_owned[i])
     \/ Fails("del") /\ UNCHANGED fib
  /\ Goto("del", {}, idx \ {i})
  /\ UNCHANGED <<rules, main, guard, file, mode, resetter>>

\* Step 4: the obsolete rule; a failed deletion is ignored.
ApplyDelRule ==
  /\ apc = "del" /\ idx = {}
  /\ \/ rules' = RemoveRules(rules, RulesToRemove(want, old))
     \/ Fails("delrule") /\ UNCHANGED rules
  /\ Goto("prio", {}, {})
  /\ UNCHANGED <<fib, main, guard, file, mode, resetter>>

\* Step 5: the metric 50 routes of the WAN.  The commands before the one
\* that fails have taken effect.
ApplyPrioritize ==
  /\ apc = "prio"
  /\ \/ /\ main' = PrioritizeWan(main, want.wan)
        /\ Goto("lan", LanDevs(want), {})
     \/ /\ Fails("prio")
        /\ main' \in {main, PrioritizeWan(main, want.wan)}
        /\ Rollback
  /\ UNCHANGED <<fib, rules, guard, file, mode, resetter>>

\* Step 5, continued: no default route may stay on an interface of a LAN route.
ApplyPurgeLan(i) ==
  /\ apc = "lan" /\ i \in devs
  /\ \/ /\ main' = RemoveDefaultRoutes(main, i)
        /\ Goto("lan", devs \ {i}, {})
     \/ /\ Fails("lan")
        /\ \E gone \in SUBSET {m \in main : m.dev = i} : main' = main \ gone
        /\ Rollback
  /\ UNCHANGED <<fib, rules, guard, file, mode, resetter>>

\* Mutant: only the routes just added are verified.
ApplyVerify_AddedOnly ==
  /\ apc = "lan" /\ devs = {}
  /\ IF \A i \in RoutesToAdd(want, old) : Shows(fib, old.owner.table, want.routes[i])
     THEN Goto("commit", {}, {})
     ELSE Rollback
  /\ UNCHANGED <<kernel, file, mode, resetter>>

\* Step 6: every desired route must show in the table the *loaded* state
\* names.  A command that exits non-zero shows no route; one that cannot be
\* started is returned as an error, with no rollback.
ApplyVerify ==
  /\ apc = "lan" /\ devs = {}
  /\ \/ /\ \A r \in Elements(want.routes) : Shows(fib, old.owner.table, r)
        /\ Goto("commit", {}, {})
     \/ /\ \/ \E r \in Elements(want.routes) : ~Shows(fib, old.owner.table, r)
           \/ Fails("show") /\ want.routes # <<>>
        /\ Rollback
     \/ /\ Fails("spawn")
        /\ Finish
  /\ UNCHANGED <<kernel, file, mode, resetter>>

\* Save the state; fs::write() truncates first, so a failure may leave the
\* file as it was or unreadable.
ApplyCommit ==
  /\ apc = "commit"
  /\ \/ file' = Committed(want)
     \/ Fails("save") /\ file' \in {file, Corrupt}
  /\ Finish
  /\ UNCHANGED <<kernel, mode, resetter>>

-----------------------------------------------------------------------------
(* rollback(): delete every planned route, then re-add every recorded one; *)
(* failures are ignored.  Firewall, rules and table main are left alone.   *)

RollbackDel(i) ==
  /\ apc = "undo" /\ First(i, idx)
  /\ \/ fib' = DeleteRoute(fib, want.routes[i])
     \/ Fails("undo") /\ UNCHANGED fib
  /\ Goto("undo", {}, idx \ {i})
  /\ UNCHANGED <<rules, main, guard, file, mode, resetter>>

\* Mutant: the recorded routes are not re-added.
RollbackDelDone_NoRedo ==
  /\ apc = "undo" /\ idx = {}
  /\ Goto("redo", {}, {})
  /\ UNCHANGED <<kernel, file, mode, resetter>>

\* Mutant: the list of planned routes is walked again.
RollbackDelDone_WrongList ==
  /\ apc = "undo" /\ idx = {}
  /\ Goto("redo", {}, DOMAIN want.routes)
  /\ UNCHANGED <<kernel, file, mode, resetter>>

RollbackDelDone ==
  /\ apc = "undo" /\ idx = {}
  /\ Goto("redo", {}, DOMAIN old.routes_owned)
  /\ UNCHANGED <<kernel, file, mode, resetter>>

RollbackAdd(i) ==
  /\ apc = "redo" /\ First(i, idx)
  /\ \/ fib' = AddRoute(fib, old.routes_owned[i])
     \/ Fails("redo") /\ UNCHANGED fib
  /\ Goto("redo", {}, idx \ {i})
  /\ UNCHANGED <<rules, main, guard, file, mode, resetter>>

\* Mutant: the rollback takes the guards down as well.
RollbackDone_Unguard ==
  /\ apc = "redo" /\ idx = {}
  /\ guard' = [i \in Dev |-> IF i \in want.ifs THEN NoGuard ELSE guard[i]]
  /\ Finish
  /\ UNCHANGED <<fib, rules, main, file, mode, resetter>>

\* Mutant: the apply is retried until it succeeds.
RollbackDone_Retry ==
  /\ apc = "redo" /\ idx = {}
  /\ Goto("guard", want.ifs, {})
  /\ UNCHANGED <<kernel, file, mode, resetter>>

RollbackDone ==
  /\ apc = "redo" /\ idx = {}
  /\ Finish
  /\ UNCHANGED <<kernel, file, mode, resetter>>

ApplyStep ==
  \/ \E i \in devs : ApplyGuard(i) \/ ApplyPurgeLan(i)
  \/ \E i \in idx : ApplyAddRoute(i) \/ ApplyDelRoute(i) \/ RollbackDel(i) \/ RollbackAdd(i)
  \/ ApplyEnsureRule \/ ApplyAddDone \/ ApplyDelRule \/ ApplyPrioritize
  \/ ApplyVerify \/ ApplyCommit \/ RollbackDelDone \/ RollbackDone

-----------------------------------------------------------------------------
(* reset(): every failure is ignored *)

RGoto(pc, is) ==
  /\ rpc' = pc /\ ridx' = is /\ rdevs' = {}
  /\ UNCHANGED rold

BeginReset ==
  /\ rpc' = "guards" /\ rdevs' = {i \in Dev : guard[i] # NoGuard}
  /\ rold' = DefaultState /\ ridx' = {}

\* Step 1, cleanup_all(): the chains listed at the start, one after the other.
ResetGuard(i) ==
  /\ rpc = "guards" /\ i \in rdevs
  /\ \/ guard' = [guard EXCEPT ![i] = NoGuard]
     \/ Fails("reset") /\ UNCHANGED guard
  /\ rdevs' = rdevs \ {i}
  /\ UNCHANGED <<fib, rules, main, file, mode, applier, rpc, rold, ridx>>

\* Mutant: without a state file there is nothing to remove.
ResetLoad_NoScan ==
  /\ rpc = "guards" /\ rdevs = {}
  /\ \/ file = Absent /\ RGoto("restore", {})
     \/ file = Corrupt /\ RGoto("clear", {})
     \/ /\ file \notin {Absent, Corrupt}
        /\ rpc' = "routes" /\ rold' = file /\ ridx' = DOMAIN file.routes_owned
        /\ UNCHANGED rdevs
  /\ UNCHANGED <<kernel, file, mode, applier>>

\* Step 2: load the recorded state, if there is one that parses.
ResetLoad ==
  /\ rpc = "guards" /\ rdevs = {}
  /\ \/ file = Absent /\ RGoto("rule0", {})
     \/ file = Corrupt /\ RGoto("clear", {})
     \/ /\ file \notin {Absent, Corrupt}
        /\ rpc' = "routes" /\ rold' = file /\ ridx' = DOMAIN file.routes_owned
        /\ UNCHANGED rdevs
  /\ UNCHANGED <<kernel, file, mode, applier>>

ResetRoute(i) ==
  /\ rpc = "routes" /\ First(i, ridx)
  /\ \/ fib' = DeleteRoute(fib, rold.routes_owned[i])
     \/ Fails("reset") /\ UNCHANGED fib
  /\ RGoto("routes", ridx \ {i})
  /\ UNCHANGED <<rules, main, guard, file, mode, applier>>

ResetRules ==
  /\ rpc = "routes" /\ ridx = {}
  /\ \E kept \in SUBSET (rold.rules_owned \cup {rold.owner}) :
       /\ kept # {} => Fails("reset")
       /\ rules' = RemoveRules(rules, (rold.rules_owned \cup {rold.owner}) \ kept)
  /\ RGoto("clear", {})
  /\ UNCHANGED <<fib, main, guard, file, mode, applier>>

ResetClear ==
  /\ rpc = "clear"
  /\ \/ file' = Absent
     \/ Fails("clear") /\ UNCHANGED file
  /\ RGoto("rule0", {})
  /\ UNCHANGED <<kernel, mode, applier>>

\* Step 3: rule 12000 and table 52000, whatever was recorded.
ResetRule0 ==
  /\ rpc = "rule0"
  /\ \/ rules' = RemoveRules(rules, {Rule0})
     \/ Fails("reset") /\ UNCHANGED rules
  /\ RGoto("flush", {})
  /\ UNCHANGED <<fib, main, guard, file, mode, applier>>

ResetFlush ==
  /\ rpc = "flush"
  /\ \/ fib' = FlushTable(fib, Rule0.table)
     \/ Fails("reset") /\ UNCHANGED fib
  /\ RGoto("restore", {})
  /\ UNCHANGED <<rules, main, guard, file, mode, applier>>

\* Step 4: drop the metric 50 routes of the interface whose default route is
\* listed first (any that has one: metrics of other routes are not modelled)
\* and of wlan0 and wlan1.
ResetRestoreWan ==
  /\ rpc = "restore"
  /\ \E w \in {m.dev : m \in main} \cup {NoDev} :
       /\ w = NoDev => main = {}
       /\ \/ main' = RestoreWan(main, WlanDevs \cup {w})
          \/ Fails("reset") /\ UNCHANGED main
  /\ rpc' = "idle" /\ rdevs' = {} /\ ridx' = {} /\ rold' = DefaultState
  /\ mode' = IF mode = "booting" THEN "running" ELSE mode
  /\ UNCHANGED <<fib, rules, guard, file, applier>>

ResetStep ==
  \/ \E i \in rdevs : ResetGuard(i)
  \/ \E i \in ridx : ResetRoute(i)
  \/ ResetLoad \/ ResetRules \/ ResetClear \/ ResetRule0 \/ ResetFlush \/ ResetRestoreWan

-----------------------------------------------------------------------------
(* Life cycle of the daemon (crates/reverse-app/src/daemon.rs) *)

\* run(): a leftover state file is reset before the daemon serves anything.
Start ==
  /\ mode \in {"off", "crashed"}
  /\ IF file = Absent
     THEN mode' = "running" /\ UNCHANGED resetter
     ELSE mode' = "booting" /\ BeginReset
  /\ UNCHANGED <<kernel, file, applier>>

\* The Reset request: no lock is taken.
ResetRequest ==
  /\ mode = "running" /\ rpc = "idle"
  /\ BeginReset
  /\ UNCHANGED <<kernel, file, mode, applier>>

\* Shutdown request or signal: abort() stops the probe task only at its next
\* await, so an apply in progress carries on beside the cleanup.
Shutdown ==
  /\ mode = "running" /\ rpc = "idle"
  /\ mode' = "exiting" /\ BeginReset
  /\ UNCHANGED <<kernel, file, applier>>

\* Dropping the runtime waits for the task that is running.
Exit ==
  /\ mode = "exiting" /\ rpc = "idle" /\ apc = "idle"
  /\ mode' = "off"
  /\ UNCHANGED <<kernel, file, applier, resetter>>

\* The process dies; a crash while the state file is written truncates it.
Crash ==
  /\ "crash" \in EnvEvents /\ mode \notin {"off", "crashed"}
  /\ mode' = "crashed"
  /\ file' \in IF apc = "commit" THEN {file, Corrupt} ELSE {file}
  /\ Finish
  /\ rpc' = "idle" /\ rdevs' = {} /\ ridx' = {} /\ rold' = DefaultState
  /\ UNCHANGED kernel

(* The host *)

\* An interface is taken down: the kernel drops every route through it.
LinkDown(i) ==
  /\ "linkdown" \in EnvEvents
  /\ fib' = {e \in fib : e.output_interface # i}
  /\ main' = RemoveDefaultRoutes(main, i)
  /\ UNCHANGED <<rules, guard, file, mode, applier, resetter>>

\* DHCP or NetworkManager installs a default route on an interface.
DefaultAppears(i) ==
  /\ "default" \in EnvEvents
  /\ main' = main \cup {[dev |-> i, kind |-> "dhcp"]}
  /\ UNCHANGED <<fib, rules, guard, file, mode, applier, resetter>>

-----------------------------------------------------------------------------
Init ==
  /\ fib = {} /\ rules = {}
  /\ main = {[dev |-> i, kind |-> "dhcp"] : i \in DefaultDevs}
  /\ guard = [i \in Dev |-> NoGuard]
  /\ file = Absent /\ mode = "off"
  /\ apc = "idle" /\ want = NoWant /\ old = DefaultState /\ devs = {} /\ idx = {}
  /\ rpc = "idle" /\ rold = DefaultState /\ rdevs = {} /\ ridx = {}

Next ==
  \/ \E d \in Desireds : ApplyBegin(d)
  \/ ApplyStep
  \/ ResetStep
  \/ Start \/ ResetRequest \/ Shutdown \/ Exit \/ Crash
  \/ \E i \in Dev : LinkDown(i) \/ DefaultAppears(i)

\* Commands return, so a thread that has a next step takes it.
Fairness == WF_vars(ApplyStep) /\ WF_vars(ResetStep)

Spec == Init /\ [][Next]_vars /\ Fairness

\* No apply overlaps a reset.
SerialNext ==
  \/ rpc = "idle" /\ \E d \in Desireds : ApplyBegin(d)
  \/ apc = "idle" /\ (Start \/ ResetRequest \/ Shutdown)
  \/ ApplyStep \/ ResetStep \/ Exit \/ Crash
  \/ \E i \in Dev : LinkDown(i) \/ DefaultAppears(i)

SerialSpec == Init /\ [][SerialNext]_vars /\ Fairness
=============================================================================
