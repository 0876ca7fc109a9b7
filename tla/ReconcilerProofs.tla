-------------------------- MODULE ReconcilerProofs --------------------------
(***************************************************************************)
(* Proofs about the reconciler, for every host, every set of desired       *)
(* states and every set of failing commands: its types and records, and,   *)
(* for desired states that ask for the table and the priority that reset() *)
(* names literally, that what is recorded has been verified and that an    *)
(* exit of the daemon is clean.  For routes that `ip route del` can tell   *)
(* apart, an apply is all or nothing (RegimeOfRollback).                   *)
(***************************************************************************)
EXTENDS ReconcilerProperties, TLAPS

-----------------------------------------------------------------------------
(* What the commands and the planner return *)

\* The kernel's form of a route is a route.
LEMMA InstalledType ==
  ASSUME NEW r \in Route
  PROVE  Installed(r) \in Route
BY DEF Route, Metric, Installed

\* `ip route replace` keeps a table of routes.
LEMMA AddRouteType ==
  ASSUME NEW F \in SUBSET Route, NEW r \in Route
  PROVE  AddRoute(F, r) \subseteq Route
BY InstalledType DEF AddRoute

\* `ip route del` keeps a table of routes, whatever it is asked to delete.
LEMMA DeleteRouteType ==
  ASSUME NEW F \in SUBSET Route, NEW r
  PROVE  DeleteRoute(F, r) \subseteq Route
BY DEF DeleteRoute

\* The metric 50 copies are default routes of table main.
LEMMA PrioritizeType ==
  ASSUME NEW M \in SUBSET MainRoute, NEW d \in Dev
  PROVE  PrioritizeWan(M, d) \subseteq MainRoute
BY DEF PrioritizeWan, MainRoute

\* RuntimeState::default() is a runtime state.
LEMMA DefaultStateType == DefaultState \in RuntimeState
BY Rule0Assumption, PolicyAssumption DEF DefaultState, RuntimeState

\* Whatever load() returns without an error is a runtime state.
LEMMA LoadType ==
  ASSUME NEW f \in RuntimeState \cup {Absent, Corrupt}, f # Corrupt
  PROVE  Load(f) \in RuntimeState
BY DefaultStateType DEF Load

\* What reconcile() saves is a runtime state.
LEMMA CommittedType ==
  ASSUME NEW d \in DesiredState
  PROVE  Committed(d) \in RuntimeState
BY DEF DesiredState, Committed, RuntimeState

\* A saved state is neither of the two stand-ins for an unusable file.
LEMMA CommittedUsable ==
  ASSUME NEW d \in DesiredState
  PROVE  Committed(d) \notin {Absent, Corrupt} /\ Committed(d).ifs = d.ifs
BY CommittedType, FileAssumption DEF Committed

\* The routes of a desired or recorded state, by position.
LEMMA PositionType ==
  ASSUME NEW s \in Seq(Route), NEW i \in DOMAIN s
  PROVE  s[i] \in Route
OBVIOUS

\* Step 5 purges only interfaces.
LEMMA LanDevsType ==
  ASSUME NEW d \in DesiredState
  PROVE  LanDevs(d) \subseteq Dev
<1>1. d.routes \in Seq(Route)
  BY DEF DesiredState
<1>2. \A r \in Elements(d.routes) : r.output_interface \in Dev \cup {NoDev}
  BY <1>1, PositionType DEF Elements, Route
<1>. QED
  BY <1>2 DEF LanDevs

\* A desired state's parts.
LEMMA DesiredType ==
  ASSUME NEW d \in Desireds
  PROVE  /\ d \in DesiredState
         /\ d.routes \in Seq(Route) /\ d.rule \in RpdbRule /\ d.wan \in Dev
         /\ d.ifs \subseteq Dev /\ d.policy \in Policy
BY DesiredsAssumption DEF DesiredState

\* A recorded state's parts.
LEMMA RecordedType ==
  ASSUME NEW s \in RuntimeState
  PROVE  /\ s.routes_owned \in Seq(Route) /\ s.rules_owned \subseteq RpdbRule
         /\ s.owner \in RpdbRule /\ s.ifs \subseteq Dev /\ s.policy \in Policy
BY DEF RuntimeState

-----------------------------------------------------------------------------
(* Type correctness *)

\* The types of the applier's variables, as TypeOK states them.
ApplierOK ==
  /\ apc \in Phase
  /\ apc # "idle" => want \in Desireds
  /\ old \in RuntimeState
  /\ devs \subseteq Dev
  /\ apc \in {"add", "undo"} => idx \subseteq DOMAIN want.routes
  /\ apc \in {"del", "redo"} => idx \subseteq DOMAIN old.routes_owned
  /\ apc \notin {"add", "undo", "del", "redo"} => idx = {}

ResetterOK ==
  /\ rpc \in ResetPhase
  /\ rold \in RuntimeState
  /\ rdevs \subseteq Dev
  /\ ridx \subseteq DOMAIN rold.routes_owned

\* Moving on to a phase and the part of a list it walks keeps the types.
LEMMA GotoOK ==
  ASSUME TypeOK, apc # "idle",
         NEW pc \in Phase, NEW ds \in SUBSET Dev, NEW is,
         pc \in {"add", "undo"} => is \subseteq DOMAIN want.routes,
         pc \in {"del", "redo"} => is \subseteq DOMAIN old.routes_owned,
         pc \notin {"add", "undo", "del", "redo"} => is = {},
         Goto(pc, ds, is)
  PROVE  ApplierOK'
BY DEF TypeOK, Goto, ApplierOK

\* Returning from reconcile() establishes the applier's types.
LEMMA FinishOK ==
  ASSUME Finish
  PROVE  ApplierOK'
BY DefaultStateType DEF Finish, ApplierOK, Phase

\* rollback() starts with the positions of the planned routes.
LEMMA RollbackOK ==
  ASSUME TypeOK, apc # "idle", Rollback
  PROVE  ApplierOK'
BY GotoOK DEF Rollback, RoutesToAdd, Phase

\* TypeOK after a step that leaves the resetter alone.
LEMMA ApplierTypes ==
  ASSUME TypeOK, ApplierOK', UNCHANGED resetter, mode' = mode,
         fib' \subseteq Route, rules' \subseteq RpdbRule, main' \subseteq MainRoute,
         guard' \in [Dev -> Policy \cup {NoGuard}],
         file' \in RuntimeState \cup {Absent, Corrupt}
  PROVE  TypeOK'
BY DEF TypeOK, ApplierOK, resetter

\* apply_firewall() keeps the types.
LEMMA GuardTypes ==
  ASSUME TypeOK, NEW i \in devs, ApplyGuard(i)
  PROVE  TypeOK'
<1>. apc = "guard" /\ want \in Desireds /\ devs \ {i} \in SUBSET Dev /\ want.policy \in Policy
  BY DesiredType DEF TypeOK, ApplyGuard
<1>1. guard' \in [Dev -> Policy \cup {NoGuard}]
  BY DEF TypeOK, ApplyGuard
<1>2. ApplierOK'
  BY GotoOK, FinishOK DEF ApplyGuard, Phase
<1>. QED
  BY <1>1, <1>2, ApplierTypes DEF ApplyGuard, TypeOK

\* The two steps on RPDB rules keep the types.
LEMMA RuleTypes ==
  ASSUME TypeOK, ApplyEnsureRule \/ ApplyDelRule
  PROVE  TypeOK'
<1>. want \in Desireds /\ want.rule \in RpdbRule /\ apc # "idle"
  BY DesiredType DEF TypeOK, ApplyEnsureRule, ApplyDelRule
<1>1. rules' \subseteq RpdbRule
  BY DEF TypeOK, ApplyEnsureRule, ApplyDelRule, RulesToAdd, RulesToRemove, EnsureRules,
         RemoveRules
<1>2. ApplierOK'
  BY GotoOK, FinishOK DEF ApplyEnsureRule, ApplyDelRule, Phase, RoutesToAdd
<1>. QED
  BY <1>1, <1>2, ApplierTypes DEF ApplyEnsureRule, ApplyDelRule, TypeOK

\* Adding a route, in reconcile() or in rollback(), keeps the types.
LEMMA AddTypes ==
  ASSUME TypeOK, NEW i \in idx, ApplyAddRoute(i) \/ RollbackAdd(i)
  PROVE  TypeOK'
<1>. /\ want \in Desireds /\ want.routes \in Seq(Route) /\ apc # "idle"
     /\ old.routes_owned \in Seq(Route)
  BY DesiredType, RecordedType DEF TypeOK, ApplyAddRoute, RollbackAdd
<1>1. fib' \subseteq Route
  BY PositionType, AddRouteType DEF TypeOK, ApplyAddRoute, RollbackAdd
<1>2. ApplierOK'
  BY GotoOK, RollbackOK DEF TypeOK, ApplyAddRoute, RollbackAdd, Phase
<1>. QED
  BY <1>1, <1>2, ApplierTypes DEF ApplyAddRoute, RollbackAdd, TypeOK

\* Deleting a route, in reconcile() or in rollback(), keeps the types.
LEMMA DelTypes ==
  ASSUME TypeOK, NEW i \in idx, ApplyDelRoute(i) \/ RollbackDel(i)
  PROVE  TypeOK'
<1>. apc # "idle"
  BY DEF ApplyDelRoute, RollbackDel
<1>1. fib' \subseteq Route
  BY DeleteRouteType DEF TypeOK, ApplyDelRoute, RollbackDel
<1>2. ApplierOK'
  BY GotoOK DEF TypeOK, ApplyDelRoute, RollbackDel, Phase
<1>. QED
  BY <1>1, <1>2, ApplierTypes DEF ApplyDelRoute, RollbackDel, TypeOK

\* The two commands of step 5 keep the types.
LEMMA MainTypes ==
  ASSUME TypeOK, ApplyPrioritize \/ \E i \in devs : ApplyPurgeLan(i)
  PROVE  TypeOK'
<1>. /\ want \in Desireds /\ want.wan \in Dev /\ apc # "idle"
     /\ LanDevs(want) \in SUBSET Dev
  BY DesiredType, LanDevsType DEF TypeOK, ApplyPrioritize, ApplyPurgeLan
<1>1. main' \subseteq MainRoute
  <2>1. main \subseteq MainRoute /\ PrioritizeWan(main, want.wan) \subseteq MainRoute
    BY PrioritizeType DEF TypeOK
  <2>2. CASE ApplyPrioritize
    BY <2>1, <2>2 DEF ApplyPrioritize
  <2>3. CASE \E i \in devs : ApplyPurgeLan(i)
    BY <2>1, <2>3 DEF ApplyPurgeLan, RemoveDefaultRoutes
  <2>. QED
    BY <2>2, <2>3
<1>2. ApplierOK'
  <2>1. CASE ApplyPrioritize
    BY <2>1, GotoOK, RollbackOK DEF ApplyPrioritize, Phase
  <2>2. ASSUME NEW i \in devs, ApplyPurgeLan(i) PROVE ApplierOK'
    <3>. devs \ {i} \in SUBSET Dev
      BY DEF TypeOK
    <3>. QED
      BY <2>2, GotoOK, RollbackOK DEF ApplyPurgeLan, Phase
  <2>. QED
    BY <2>1, <2>2
<1>. QED
  BY <1>1, <1>2, ApplierTypes DEF ApplyPrioritize, ApplyPurgeLan, TypeOK

\* Saving the state keeps the types.
LEMMA CommitTypes ==
  ASSUME TypeOK, ApplyCommit
  PROVE  TypeOK'
<1>. want \in DesiredState
  BY DesiredType DEF TypeOK, ApplyCommit
<1>1. file' \in RuntimeState \cup {Absent, Corrupt}
  BY CommittedType DEF TypeOK, ApplyCommit
<1>. QED
  BY <1>1, FinishOK, ApplierTypes DEF ApplyCommit, TypeOK, kernel

\* The steps that only move the applier on.
LEMMA MoveTypes ==
  ASSUME TypeOK, ApplyAddDone \/ ApplyVerify \/ RollbackDelDone \/ RollbackDone
  PROVE  TypeOK'
<1>. apc # "idle" /\ UNCHANGED kernel /\ UNCHANGED <<file, mode, resetter>>
  BY DEF ApplyAddDone, ApplyVerify, RollbackDelDone, RollbackDone
<1>1. CASE ApplyAddDone
  <2>1. ApplierOK'
    BY <1>1, GotoOK DEF ApplyAddDone, Phase, RoutesToRemove
  <2>. QED
    BY <2>1, ApplierTypes DEF TypeOK, kernel
<1>2. CASE ApplyVerify
  <2>1. ApplierOK'
    BY <1>2, GotoOK, RollbackOK, FinishOK DEF ApplyVerify, Phase
  <2>. QED
    BY <2>1, ApplierTypes DEF TypeOK, kernel
<1>3. CASE RollbackDelDone
  <2>1. ApplierOK'
    BY <1>3, GotoOK DEF RollbackDelDone, Phase
  <2>. QED
    BY <2>1, ApplierTypes DEF TypeOK, kernel
<1>4. CASE RollbackDone
  <2>1. ApplierOK'
    BY <1>4, FinishOK DEF RollbackDone
  <2>. QED
    BY <2>1, ApplierTypes DEF TypeOK, kernel
<1>. QED
  BY <1>1, <1>2, <1>3, <1>4

\* Every step of the applier keeps the types.
LEMMA ApplyTypes ==
  ASSUME TypeOK, ApplyStep
  PROVE  TypeOK'
BY GuardTypes, RuleTypes, AddTypes, DelTypes, MainTypes, CommitTypes, MoveTypes DEF ApplyStep

\* TypeOK after a step of the resetter.
LEMMA ResetterTypes ==
  ASSUME TypeOK, ResetterOK', UNCHANGED applier,
         mode' \in {"off", "booting", "running", "exiting", "crashed"},
         fib' \subseteq Route, rules' \subseteq RpdbRule, main' \subseteq MainRoute,
         guard' \in [Dev -> Policy \cup {NoGuard}],
         file' \in RuntimeState \cup {Absent, Corrupt}
  PROVE  TypeOK'
BY DEF TypeOK, ResetterOK, applier

\* Moving reset() on keeps the resetter's types.
LEMMA RGotoOK ==
  ASSUME TypeOK, NEW pc \in ResetPhase, NEW is \in SUBSET DOMAIN rold.routes_owned,
         RGoto(pc, is)
  PROVE  ResetterOK'
BY DEF TypeOK, RGoto, ResetterOK

\* A reset begins with well-typed variables.
LEMMA BeginResetOK ==
  ASSUME BeginReset
  PROVE  ResetterOK'
BY DefaultStateType DEF BeginReset, ResetterOK, ResetPhase

\* Every step of reset() keeps the types.
LEMMA ResetTypes ==
  ASSUME TypeOK, ResetStep
  PROVE  TypeOK'
<1>1. ASSUME NEW i \in rdevs, ResetGuard(i) PROVE TypeOK'
  <2>1. ResetterOK'
    BY <1>1 DEF TypeOK, ResetGuard, ResetterOK
  <2>2. guard' \in [Dev -> Policy \cup {NoGuard}]
    BY <1>1 DEF TypeOK, ResetGuard
  <2>. QED
    BY <1>1, <2>1, <2>2, ResetterTypes DEF TypeOK, ResetGuard
<1>2. ASSUME ResetLoad PROVE TypeOK'
  <2>1. ResetterOK'
    BY <1>2, RGotoOK DEF TypeOK, ResetLoad, ResetterOK, ResetPhase
  <2>. QED
    BY <1>2, <2>1, ResetterTypes DEF TypeOK, ResetLoad, kernel
<1>3. ASSUME NEW i \in ridx, ResetRoute(i) PROVE TypeOK'
  <2>1. ResetterOK'
    BY <1>3, RGotoOK DEF TypeOK, ResetRoute, ResetPhase
  <2>2. fib' \subseteq Route
    BY <1>3, DeleteRouteType DEF TypeOK, ResetRoute
  <2>. QED
    BY <1>3, <2>1, <2>2, ResetterTypes DEF TypeOK, ResetRoute
<1>4. ASSUME ResetRules PROVE TypeOK'
  <2>1. ResetterOK'
    BY <1>4, RGotoOK DEF TypeOK, ResetRules, ResetPhase
  <2>2. rules' \subseteq RpdbRule
    BY <1>4 DEF TypeOK, ResetRules, RemoveRules
  <2>. QED
    BY <1>4, <2>1, <2>2, ResetterTypes DEF TypeOK, ResetRules
<1>5. ASSUME ResetClear PROVE TypeOK'
  <2>1. ResetterOK'
    BY <1>5, RGotoOK DEF TypeOK, ResetClear, ResetPhase
  <2>. QED
    BY <1>5, <2>1, ResetterTypes DEF TypeOK, ResetClear, kernel
<1>6. ASSUME ResetRule0 \/ ResetFlush PROVE TypeOK'
  <2>1. ResetterOK'
    BY <1>6, RGotoOK DEF TypeOK, ResetRule0, ResetFlush, ResetPhase
  <2>2. fib' \subseteq Route /\ rules' \subseteq RpdbRule
    BY <1>6 DEF TypeOK, ResetRule0, ResetFlush, RemoveRules, FlushTable
  <2>. QED
    BY <1>6, <2>1, <2>2, ResetterTypes DEF TypeOK, ResetRule0, ResetFlush
<1>7. ASSUME ResetRestoreWan PROVE TypeOK'
  <2>1. ResetterOK'
    BY <1>7, DefaultStateType DEF ResetRestoreWan, ResetterOK, ResetPhase
  <2>2. main' \subseteq MainRoute
    BY <1>7 DEF TypeOK, ResetRestoreWan, RestoreWan
  <2>3. mode' \in {"off", "booting", "running", "exiting", "crashed"}
    BY <1>7 DEF TypeOK, ResetRestoreWan
  <2>. QED
    BY <1>7, <2>1, <2>2, <2>3, ResetterTypes DEF TypeOK, ResetRestoreWan
<1>. QED
  BY <1>1, <1>2, <1>3, <1>4, <1>5, <1>6, <1>7 DEF ResetStep

\* The start of an apply keeps the types.
LEMMA BeginTypes ==
  ASSUME TypeOK, NEW d \in Desireds, ApplyBegin(d)
  PROVE  TypeOK'
<1>1. ApplierOK'
  BY LoadType, DesiredType DEF TypeOK, ApplyBegin, ApplierOK, Phase
<1>. QED
  BY <1>1, ApplierTypes DEF TypeOK, ApplyBegin, kernel

\* Starting, resetting and stopping the daemon keep the types.
LEMMA LifeTypes ==
  ASSUME TypeOK, Start \/ ResetRequest \/ Shutdown \/ Exit
  PROVE  TypeOK'
<1>1. UNCHANGED <<kernel, file, applier>>
  BY DEF Start, ResetRequest, Shutdown, Exit
<1>2. ResetterOK'
  BY BeginResetOK DEF TypeOK, Start, ResetRequest, Shutdown, Exit, resetter, ResetterOK
<1>3. mode' \in {"off", "booting", "running", "exiting", "crashed"}
  BY DEF TypeOK, Start, ResetRequest, Shutdown, Exit
<1>. QED
  BY <1>1, <1>2, <1>3, ResetterTypes DEF TypeOK, kernel

\* A crash keeps the types.
LEMMA CrashTypes ==
  ASSUME TypeOK, Crash
  PROVE  TypeOK'
<1>1. ApplierOK'
  BY FinishOK DEF Crash
<1>2. ResetterOK'
  BY DefaultStateType DEF Crash, ResetterOK, ResetPhase
<1>3. file' \in RuntimeState \cup {Absent, Corrupt}
  BY DEF TypeOK, Crash
<1>. QED
  BY <1>1, <1>2, <1>3 DEF Crash, kernel, TypeOK, ApplierOK, ResetterOK

\* What the host does to its routes keeps the types.
LEMMA HostTypes ==
  ASSUME TypeOK, NEW i \in Dev, LinkDown(i) \/ DefaultAppears(i)
  PROVE  TypeOK'
<1>1. fib' \subseteq Route
  BY DEF TypeOK, LinkDown, DefaultAppears
<1>2. main' \subseteq MainRoute
  BY DEF TypeOK, LinkDown, DefaultAppears, RemoveDefaultRoutes, MainRoute
<1>. QED
  BY <1>1, <1>2 DEF LinkDown, DefaultAppears, TypeOK, applier, resetter

\* The types hold at first.
LEMMA InitTypes == Init => TypeOK
BY DefaultStateType, MainAssumption
   DEF Init, TypeOK, MainRoute, Phase, ResetPhase

\* Every step keeps the types.
LEMMA StepTypes == TypeOK /\ [Next]_vars => TypeOK'
<1>1. ASSUME TypeOK, Next PROVE TypeOK'
  BY <1>1, ApplyTypes, ResetTypes, BeginTypes, LifeTypes, CrashTypes, HostTypes DEF Next
<1>2. ASSUME TypeOK, UNCHANGED vars PROVE TypeOK'
  BY <1>2 DEF TypeOK, vars
<1>. QED
  BY <1>1, <1>2

\* Whatever fails, crashes or interleaves, the state of the reconciler and of
\* the kernel keeps its types; in particular the positions that reconcile()
\* and rollback() still have to visit are positions of the list they walk.
THEOREM TypeCorrect == Spec => []TypeOK
BY InitTypes, StepTypes, PTL DEF Spec

-----------------------------------------------------------------------------
(* The egress guard, when no reset overlaps an apply.                      *)
(*                                                                         *)
(* GuardLive is not inductive: it says nothing of the phase that installs  *)
(* the guards, nor of a reset that takes them down.  LiveInv adds what has *)
(* been installed so far, and that the two threads exclude each other.     *)

Serial == apc = "idle" \/ rpc = "idle"

GuardSoFar == apc = "guard" => \A i \in want.ifs \ devs : guard[i] = want.policy

LiveInv == TypeOK /\ Serial /\ GuardSoFar /\ GuardLive

\* The guards of an apply at work and the guards it still has to install.
GuardOK == GuardSoFar /\ GuardLive

\* A step that touches neither the guards nor the applier's request and stays
\* out of the "guard" phase keeps what is known of the guards.
LEMMA KeepsGuard ==
  ASSUME GuardOK, apc \in Mutating, guard' = guard,
         apc' # "idle" => want' = want, apc' # "guard"
  PROVE  GuardOK'
BY DEF GuardOK, GuardSoFar, GuardLive, Mutating

\* Every step of the applier keeps what is known of the guards.
LEMMA ApplyKeepsGuard ==
  ASSUME LiveInv, ApplyStep
  PROVE  GuardOK'
<1>. TypeOK /\ GuardOK /\ GuardSoFar /\ GuardLive
  BY DEF LiveInv, GuardOK
<1>1. ASSUME NEW i \in devs, ApplyGuard(i) PROVE GuardOK'
  <2>1. CASE apc' = "idle"
    BY <2>1 DEF GuardOK, GuardSoFar, GuardLive, Mutating
  <2>2. CASE apc' # "idle"
    <3>1. /\ apc = "guard" /\ apc' = "guard" /\ devs' = devs \ {i} /\ want' = want
          /\ guard' = [guard EXCEPT ![i] = want.policy]
      BY <1>1, <2>2 DEF ApplyGuard, Goto, Finish
    <3>2. guard \in [Dev -> Policy \cup {NoGuard}] /\ devs \subseteq Dev /\ want.ifs \subseteq Dev
      BY <3>1, DesiredType DEF TypeOK
    <3>. QED
      BY <3>1, <3>2 DEF GuardOK, GuardSoFar, GuardLive, Mutating
  <2>. QED
    BY <2>1, <2>2
<1>2. ASSUME ApplyEnsureRule PROVE GuardOK'
  <2>1. /\ apc = "guard" /\ devs = {} /\ guard' = guard
        /\ apc' # "guard" /\ (apc' # "idle" => want' = want)
    BY <1>2 DEF ApplyEnsureRule, Goto, Finish
  <2>. QED
    BY <2>1 DEF GuardOK, GuardSoFar, GuardLive, Mutating
<1>3. ASSUME NEW i \in idx,
             ApplyAddRoute(i) \/ ApplyDelRoute(i) \/ RollbackDel(i) \/ RollbackAdd(i)
      PROVE  GuardOK'
  <2>1. /\ apc \in Mutating /\ guard' = guard
        /\ apc' # "guard" /\ (apc' # "idle" => want' = want)
    BY <1>3 DEF ApplyAddRoute, ApplyDelRoute, RollbackDel, RollbackAdd, Rollback, Goto,
                Mutating, Phase
  <2>. QED
    BY <2>1, KeepsGuard
<1>4. ASSUME ApplyPrioritize \/ \E i \in devs : ApplyPurgeLan(i) PROVE GuardOK'
  <2>1. /\ apc \in Mutating /\ guard' = guard
        /\ apc' # "guard" /\ (apc' # "idle" => want' = want)
    BY <1>4 DEF ApplyPrioritize, ApplyPurgeLan, Rollback, Goto, Mutating, Phase
  <2>. QED
    BY <2>1, KeepsGuard
<1>5. ASSUME \/ ApplyAddDone \/ ApplyDelRule \/ ApplyVerify \/ ApplyCommit
             \/ RollbackDelDone \/ RollbackDone
      PROVE  GuardOK'
  <2>1. /\ apc \in Mutating /\ guard' = guard
        /\ apc' # "guard" /\ (apc' # "idle" => want' = want)
    BY <1>5 DEF ApplyAddDone, ApplyDelRule, ApplyVerify, ApplyCommit, RollbackDelDone,
                RollbackDone, Rollback, Goto, Finish, kernel, Mutating, Phase
  <2>. QED
    BY <2>1, KeepsGuard
<1>. QED
  BY <1>1, <1>2, <1>3, <1>4, <1>5 DEF ApplyStep

\* An idle applier has no guard to vouch for.
LEMMA IdleGuard ==
  ASSUME apc' = "idle"
  PROVE  GuardOK'
BY DEF GuardOK, GuardSoFar, GuardLive, Mutating

\* Steps of a reset leave the applier alone and start from a busy resetter.
LEMMA ResetKeepsApplier == ASSUME ResetStep PROVE rpc # "idle" /\ UNCHANGED applier
BY DEF ResetStep, ResetGuard, ResetLoad, ResetRoute, ResetRules, ResetClear, ResetRule0,
       ResetFlush, ResetRestoreWan

\* Only a reset step that runs beside an idle applier takes guards down.
LEMMA ResetKeepsGuard ==
  ASSUME Serial, ResetStep
  PROVE  GuardOK'
BY ResetKeepsApplier, IdleGuard DEF Serial, applier

\* So do the life cycle of the daemon and the host.
LEMMA OthersKeepGuard ==
  ASSUME LiveInv,
         \/ \E d \in Desireds : ApplyBegin(d)
         \/ Start \/ ResetRequest \/ Shutdown \/ Exit \/ Crash
         \/ \E i \in Dev : LinkDown(i) \/ DefaultAppears(i)
  PROVE  GuardOK'
<1>1. ASSUME NEW d \in Desireds, ApplyBegin(d) PROVE GuardOK'
  BY <1>1 DEF ApplyBegin, GuardOK, GuardSoFar, GuardLive, Mutating
<1>2. ASSUME Crash PROVE GuardOK'
  BY <1>2, IdleGuard DEF Crash, Finish
<1>3. ASSUME \/ Start \/ ResetRequest \/ Shutdown \/ Exit
             \/ \E i \in Dev : LinkDown(i) \/ DefaultAppears(i)
      PROVE  GuardOK'
  <2>1. guard' = guard /\ UNCHANGED applier
    BY <1>3 DEF Start, ResetRequest, Shutdown, Exit, LinkDown, DefaultAppears, kernel
  <2>. QED
    BY <2>1 DEF LiveInv, GuardOK, GuardSoFar, GuardLive, applier
<1>. QED
  BY <1>1, <1>2, <1>3

\* The strengthened invariant holds at first.
LEMMA LiveInit == Init => LiveInv
BY InitTypes DEF Init, LiveInv, Serial, GuardSoFar, GuardLive, Mutating

\* Steps of an apply leave the resetter alone and start from a busy applier.
LEMMA ApplyKeepsResetter == ASSUME ApplyStep PROVE apc # "idle" /\ UNCHANGED resetter
BY DEF ApplyStep, ApplyGuard, ApplyEnsureRule, ApplyAddRoute, ApplyAddDone, ApplyDelRoute,
       ApplyDelRule, ApplyPrioritize, ApplyPurgeLan, ApplyVerify, ApplyCommit, RollbackDel,
       RollbackDelDone, RollbackAdd, RollbackDone

\* The serialised next-state relation is part of the daemon's, and keeps an
\* apply and a reset from overlapping.
LEMMA SerialStep ==
  ASSUME Serial, SerialNext
  PROVE  Next /\ Serial'
<1>1. Next
  BY DEF SerialNext, Next
<1>2. ASSUME NEW d \in Desireds, rpc = "idle", ApplyBegin(d) PROVE Serial'
  BY <1>2 DEF ApplyBegin, resetter, Serial
<1>3. ASSUME apc = "idle", Start \/ ResetRequest \/ Shutdown PROVE Serial'
  BY <1>3 DEF Start, ResetRequest, Shutdown, applier, Serial
<1>4. ASSUME ApplyStep PROVE Serial'
  BY <1>4, ApplyKeepsResetter DEF resetter, Serial
<1>5. ASSUME ResetStep PROVE Serial'
  BY <1>5, ResetKeepsApplier DEF applier, Serial
<1>6. ASSUME Exit \/ Crash \/ \E i \in Dev : LinkDown(i) \/ DefaultAppears(i) PROVE Serial'
  BY <1>6 DEF Exit, Crash, Finish, LinkDown, DefaultAppears, applier, resetter, Serial
<1>. QED
  BY <1>1, <1>2, <1>3, <1>4, <1>5, <1>6 DEF SerialNext

\* The strengthened invariant is inductive for serialised behaviours.
LEMMA LiveStep == LiveInv /\ [SerialNext]_vars => LiveInv'
<1>1. ASSUME LiveInv, SerialNext PROVE LiveInv'
  <2>1. TypeOK' /\ Serial'
    BY <1>1, StepTypes, SerialStep DEF LiveInv
  <2>2. GuardOK'
    BY <1>1, SerialStep, ApplyKeepsGuard, ResetKeepsGuard, OthersKeepGuard DEF LiveInv, Next
  <2>. QED
    BY <2>1, <2>2 DEF LiveInv, GuardOK
<1>2. ASSUME LiveInv, UNCHANGED vars PROVE LiveInv'
  BY <1>2, StepTypes DEF LiveInv, Serial, GuardSoFar, GuardLive, vars
<1>. QED
  BY <1>1, <1>2

\* While an apply changes routes, rules and the WAN, and while it rolls back,
\* every interface it guards enforces its policy, whatever commands fail,
\* whatever the host does and wherever the daemon crashes.
THEOREM GuardAlwaysLive == SerialSpec => []GuardLive
<1>1. SerialSpec => []LiveInv
  BY LiveInit, LiveStep, PTL DEF SerialSpec
<1>2. LiveInv => GuardLive
  BY DEF LiveInv
<1>. QED
  BY <1>1, <1>2, PTL

-----------------------------------------------------------------------------
(* A recorded policy stays guarded.  The record must be gone before a      *)
(* reset hands the daemon back, hence the assumption that the state file   *)
(* can be removed.                                                         *)

RecordGone == rpc \in {"rule0", "flush", "restore"} => file = Absent

KeptInv == LiveInv /\ RecordGone /\ RecordGuarded

\* Past the removal of the state file, a reset sees none.
LEMMA RecordGoneStep ==
  ASSUME "clear" \notin MayFail, KeptInv, Next
  PROVE  RecordGone'
<1>1. ASSUME ResetStep PROVE RecordGone'
  BY <1>1 DEF KeptInv, RecordGone, ResetStep, ResetGuard, ResetLoad, ResetRoute, ResetRules,
     ResetClear, ResetRule0, ResetFlush, ResetRestoreWan, RGoto, Fails, kernel
<1>2. ASSUME ApplyStep PROVE RecordGone'
  <2>1. apc # "idle" /\ rpc' = rpc
    BY <1>2 DEF ApplyStep, ApplyGuard, ApplyPurgeLan, ApplyAddRoute, ApplyDelRoute,
       RollbackDel, RollbackAdd, ApplyEnsureRule, ApplyAddDone, ApplyDelRule,
       ApplyPrioritize, ApplyVerify, ApplyCommit, RollbackDelDone, RollbackDone, resetter
  <2>. QED
    BY <2>1 DEF KeptInv, LiveInv, Serial, RecordGone
<1>3. ASSUME NEW d \in Desireds, ApplyBegin(d) PROVE RecordGone'
  BY <1>3 DEF KeptInv, RecordGone, ApplyBegin, resetter
<1>4. ASSUME Start \/ ResetRequest \/ Shutdown \/ Exit \/ Crash PROVE RecordGone'
  BY <1>4 DEF KeptInv, RecordGone, Start, ResetRequest, Shutdown, Exit, Crash, BeginReset,
     resetter
<1>5. ASSUME NEW i \in Dev, LinkDown(i) \/ DefaultAppears(i) PROVE RecordGone'
  BY <1>5 DEF KeptInv, RecordGone, LinkDown, DefaultAppears, resetter
<1>. QED
  BY <1>1, <1>2, <1>3, <1>4, <1>5 DEF Next

\* A step that keeps the record and puts NoGuard on no interface.
LEMMA KeepsRecord ==
  ASSUME RecordGuarded, file' = file, mode' = mode, rpc' = rpc,
         \A i \in Dev : guard'[i] = NoGuard => guard[i] = NoGuard,
         TypeOK
  PROVE  RecordGuarded'
<1>. SUFFICES ASSUME InForce', NEW i \in file'.ifs PROVE guard'[i] # NoGuard
  BY DEF RecordGuarded
<1>1. InForce /\ i \in file.ifs
  BY DEF InForce
<1>2. file \in RuntimeState
  BY <1>1 DEF TypeOK, InForce
<1>3. i \in Dev
  BY <1>1, <1>2, RecordedType
<1>. QED
  BY <1>1, <1>3 DEF RecordGuarded

\* An apply leaves every recorded interface guarded.
LEMMA ApplyKeepsRecord ==
  ASSUME KeptInv, ApplyStep
  PROVE  RecordGuarded'
<1>. TypeOK /\ RecordGuarded /\ GuardLive
  BY DEF KeptInv, LiveInv
<1>1. ASSUME NEW i \in devs, ApplyGuard(i) PROVE RecordGuarded'
  <2>1. /\ want.policy \in Policy
        /\ guard \in [Dev -> Policy \cup {NoGuard}]
        /\ guard' = guard \/ guard' = [guard EXCEPT ![i] = want.policy]
        /\ file' = file /\ mode' = mode /\ rpc' = rpc
    BY <1>1, DesiredType DEF TypeOK, ApplyGuard, resetter
  <2>2. \A j \in Dev : guard'[j] = NoGuard => guard[j] = NoGuard
    BY <2>1, PolicyAssumption
  <2>. QED
    BY <2>1, <2>2, KeepsRecord
<1>2. ASSUME ApplyCommit PROVE RecordGuarded'
  <2>1. want \in DesiredState /\ want.policy \in Policy /\ apc \in Mutating
    BY <1>2, DesiredType DEF TypeOK, ApplyCommit, Mutating, Phase
  <2>2. guard' = guard /\ mode' = mode /\ rpc' = rpc
    BY <1>2 DEF ApplyCommit, kernel, resetter
  <2>3. CASE file' = Committed(want)
    BY <2>1, <2>2, <2>3, CommittedUsable, PolicyAssumption DEF RecordGuarded, GuardLive
  <2>4. CASE file' = file
    BY <2>2, <2>4, KeepsRecord
  <2>5. CASE file' = Corrupt
    BY <2>5 DEF RecordGuarded, InForce
  <2>. QED
    BY <1>2, <2>3, <2>4, <2>5 DEF ApplyCommit
<1>3. ASSUME \/ \E i \in devs : ApplyPurgeLan(i)
             \/ \E i \in idx : \/ ApplyAddRoute(i) \/ ApplyDelRoute(i)
                               \/ RollbackDel(i) \/ RollbackAdd(i)
             \/ ApplyEnsureRule \/ ApplyAddDone \/ ApplyDelRule \/ ApplyPrioritize
             \/ ApplyVerify \/ RollbackDelDone \/ RollbackDone
      PROVE  RecordGuarded'
  <2>1. guard' = guard /\ file' = file /\ mode' = mode /\ rpc' = rpc
    BY <1>3 DEF ApplyPurgeLan, ApplyAddRoute, ApplyDelRoute, RollbackDel, RollbackAdd,
       ApplyEnsureRule, ApplyAddDone, ApplyDelRule, ApplyPrioritize, ApplyVerify,
       RollbackDelDone, RollbackDone, kernel, resetter
  <2>. QED
    BY <2>1, KeepsRecord
<1>. QED
  BY <1>1, <1>2, <1>3 DEF ApplyStep

\* Every step leaves every recorded interface guarded.
LEMMA RecordGuardedStep ==
  ASSUME "clear" \notin MayFail, KeptInv, Next
  PROVE  RecordGuarded'
<1>. TypeOK /\ RecordGuarded /\ RecordGone
  BY DEF KeptInv, LiveInv
<1>1. ASSUME ResetStep PROVE RecordGuarded'
  <2>1. CASE ResetRestoreWan
    BY <2>1 DEF RecordGone, ResetRestoreWan, RecordGuarded, InForce
  <2>2. CASE ~ResetRestoreWan
    <3>1. rpc' # "idle"
      BY <1>1, <2>2 DEF ResetStep, ResetGuard, ResetLoad, ResetRoute, ResetRules, ResetClear,
         ResetRule0, ResetFlush, RGoto
    <3>. QED
      BY <3>1 DEF RecordGuarded, InForce
  <2>. QED
    BY <2>1, <2>2
<1>2. ASSUME NEW d \in Desireds, ApplyBegin(d) PROVE RecordGuarded'
  BY <1>2, KeepsRecord DEF ApplyBegin, kernel, resetter
<1>3. ASSUME Start \/ ResetRequest \/ Shutdown \/ Exit \/ Crash PROVE RecordGuarded'
  BY <1>3 DEF Start, ResetRequest, Shutdown, Exit, Crash, BeginReset, RecordGuarded, InForce
<1>4. ASSUME NEW i \in Dev, LinkDown(i) \/ DefaultAppears(i) PROVE RecordGuarded'
  BY <1>4, KeepsRecord DEF LinkDown, DefaultAppears, resetter
<1>. QED
  BY <1>1, <1>2, <1>3, <1>4, ApplyKeepsRecord DEF Next

\* The strengthened invariant holds at first.
LEMMA KeptInit == Init => KeptInv
BY LiveInit DEF Init, KeptInv, RecordGone, RecordGuarded, InForce

\* The strengthened invariant is inductive when the file can be removed.
LEMMA KeptStep ==
  ASSUME "clear" \notin MayFail
  PROVE  KeptInv /\ [SerialNext]_vars => KeptInv'
<1>1. ASSUME KeptInv, SerialNext PROVE KeptInv'
  BY <1>1, LiveStep, SerialStep, RecordGoneStep, RecordGuardedStep DEF KeptInv, LiveInv
<1>2. ASSUME KeptInv, UNCHANGED vars PROVE KeptInv'
  BY <1>2, LiveStep DEF KeptInv, RecordGone, RecordGuarded, InForce, vars
<1>. QED
  BY <1>1, <1>2

\* Once a policy is recorded, no sequence of applies, failures, crashes and
\* restarts exposes an interface it guards, as long as the state file can be
\* removed and resets do not overlap applies.
THEOREM RecordAlwaysGuarded ==
  ASSUME "clear" \notin MayFail
  PROVE  SerialSpec => []RecordGuarded
<1>1. SerialSpec => []KeptInv
  BY KeptInit, KeptStep, PTL DEF SerialSpec
<1>2. KeptInv => RecordGuarded
  BY DEF KeptInv
<1>. QED
  BY <1>1, <1>2, PTL

\* Every desired state uses rule 12000 and table 52000.
DefaultTableOnly ==
  \A d \in Desireds : d.rule = Rule0 /\ \A i \in DOMAIN d.routes : d.routes[i].table = Rule0.table

\* The commands of a reset succeed.
ResetSucceeds == {"reset", "clear"} \cap MayFail = {}

-----------------------------------------------------------------------------
(* Everything the daemon ever installs is in the reach of reset()          *)

InReach(s) == \A i \in DOMAIN s.routes_owned : s.routes_owned[i].table = Rule0.table

Reachable ==
  /\ \A e \in fib : e.table = Rule0.table
  /\ rules \subseteq {Rule0}
  /\ file \notin {Absent, Corrupt} => InReach(file)
  /\ InReach(old)

\* The default state owns no route.
LEMMA DefaultInReach == InReach(DefaultState)
BY DEF InReach, DefaultState

\* What is saved of a desired state is in reach.
LEMMA CommittedInReach ==
  ASSUME DefaultTableOnly, NEW d \in Desireds
  PROVE  InReach(Committed(d))
BY DEF DefaultTableOnly, InReach, Committed

\* Replacing a route of the table leaves the table alone in the kernel.
LEMMA AddInReach ==
  ASSUME NEW F, \A e \in F : e.table = Rule0.table, NEW r, r.table = Rule0.table
  PROVE  \A e \in AddRoute(F, r) : e.table = Rule0.table
BY DEF AddRoute, Installed

\* So does deleting anything.
LEMMA DeleteInReach ==
  ASSUME NEW F, \A e \in F : e.table = Rule0.table, NEW r
  PROVE  \A e \in DeleteRoute(F, r) : e.table = Rule0.table
BY DEF DeleteRoute

\* Returning from reconcile() forgets the state it loaded.
LEMMA FinishInReach == Finish => InReach(old')
BY DefaultInReach DEF Finish

\* A step of the applier that leaves routes, rules and record alone.
LEMMA QuietInReach ==
  ASSUME Reachable, fib' = fib, rules' = rules, file' = file, old' = old \/ Finish
  PROVE  Reachable'
BY FinishInReach DEF Reachable

\* Every step of the applier stays in reach.
LEMMA ApplyInReach ==
  ASSUME DefaultTableOnly, TypeOK, Reachable, ApplyStep
  PROVE  Reachable'
<1>. want \in Desireds /\ want.routes \in Seq(Route)
  BY ApplyKeepsResetter, DesiredType DEF TypeOK
<1>1. ASSUME NEW i \in idx, ApplyAddRoute(i) \/ RollbackAdd(i) PROVE Reachable'
  <2>1. rules' = rules /\ file' = file /\ old' = old
    BY <1>1 DEF ApplyAddRoute, RollbackAdd, Rollback, Goto
  <2>2. CASE fib' = fib
    BY <2>1, <2>2 DEF Reachable
  <2>3. CASE apc = "add" /\ fib' = AddRoute(fib, want.routes[i])
    <3>1. i \in DOMAIN want.routes
      BY <2>3 DEF TypeOK
    <3>2. want.routes[i].table = Rule0.table
      BY <3>1 DEF DefaultTableOnly
    <3>3. \A e \in fib' : e.table = Rule0.table
      BY <2>3, <3>2, AddInReach DEF Reachable
    <3>. QED
      BY <2>1, <3>3 DEF Reachable
  <2>4. CASE apc = "redo" /\ fib' = AddRoute(fib, old.routes_owned[i])
    <3>1. i \in DOMAIN old.routes_owned
      BY <2>4 DEF TypeOK
    <3>2. old.routes_owned[i].table = Rule0.table
      BY <3>1 DEF Reachable, InReach
    <3>3. \A e \in fib' : e.table = Rule0.table
      BY <2>4, <3>2, AddInReach DEF Reachable
    <3>. QED
      BY <2>1, <3>3 DEF Reachable
  <2>. QED
    BY <1>1, <2>2, <2>3, <2>4 DEF ApplyAddRoute, RollbackAdd
<1>2. ASSUME NEW i \in idx, ApplyDelRoute(i) \/ RollbackDel(i) PROVE Reachable'
  <2>1. rules' = rules /\ file' = file /\ old' = old
    BY <1>2 DEF ApplyDelRoute, RollbackDel, Goto
  <2>2. \A e \in fib' : e.table = Rule0.table
    BY <1>2, DeleteInReach DEF Reachable, ApplyDelRoute, RollbackDel
  <2>. QED
    BY <2>1, <2>2 DEF Reachable
<1>3. ASSUME ApplyEnsureRule \/ ApplyDelRule PROVE Reachable'
  <2>1. fib' = fib /\ file' = file /\ (old' = old \/ Finish)
    BY <1>3 DEF ApplyEnsureRule, ApplyDelRule, Goto
  <2>2. want.rule = Rule0
    BY DEF DefaultTableOnly
  <2>3. rules' \subseteq {Rule0}
    BY <1>3, <2>2 DEF Reachable, ApplyEnsureRule, ApplyDelRule, EnsureRules, RemoveRules,
       RulesToAdd
  <2>. QED
    BY <2>1, <2>3, FinishInReach DEF Reachable
<1>4. ASSUME ApplyCommit PROVE Reachable'
  <2>1. fib' = fib /\ rules' = rules /\ Finish
    BY <1>4 DEF ApplyCommit, kernel
  <2>2. file' \notin {Absent, Corrupt} => InReach(file')
    BY <1>4, CommittedInReach DEF Reachable, ApplyCommit
  <2>. QED
    BY <2>1, <2>2, FinishInReach DEF Reachable
<1>5. ASSUME \/ \E i \in devs : ApplyGuard(i) \/ ApplyPurgeLan(i)
             \/ ApplyAddDone \/ ApplyPrioritize \/ ApplyVerify
             \/ RollbackDelDone \/ RollbackDone
      PROVE  Reachable'
  <2>1. fib' = fib /\ rules' = rules /\ file' = file /\ (old' = old \/ Finish)
    BY <1>5 DEF ApplyGuard, ApplyPurgeLan, ApplyAddDone, ApplyPrioritize, ApplyVerify,
       RollbackDelDone, RollbackDone, Rollback, Goto, kernel
  <2>. QED
    BY <2>1, QuietInReach
<1>. QED
  BY <1>1, <1>2, <1>3, <1>4, <1>5 DEF ApplyStep

\* Every step of reset() stays in reach.
LEMMA ResetInReach ==
  ASSUME Reachable, ResetStep
  PROVE  Reachable'
<1>1. old' = old /\ file' \in {file, Absent}
  BY DEF ResetStep, ResetGuard, ResetLoad, ResetRoute, ResetRules, ResetClear, ResetRule0,
     ResetFlush, ResetRestoreWan, applier
<1>2. rules' \subseteq rules
  BY DEF ResetStep, ResetGuard, ResetLoad, ResetRoute, ResetRules, ResetClear, ResetRule0,
     ResetFlush, ResetRestoreWan, kernel, RemoveRules
<1>3. fib' \subseteq fib
  BY DEF ResetStep, ResetGuard, ResetLoad, ResetRoute, ResetRules, ResetClear, ResetRule0,
     ResetFlush, ResetRestoreWan, kernel, DeleteRoute, FlushTable
<1>. QED
  BY <1>1, <1>2, <1>3 DEF Reachable

\* So do the start of an apply, the life cycle of the daemon and the host.
LEMMA OthersInReach ==
  ASSUME Reachable,
         \/ \E d \in Desireds : ApplyBegin(d)
         \/ Start \/ ResetRequest \/ Shutdown \/ Exit \/ Crash
         \/ \E i \in Dev : LinkDown(i) \/ DefaultAppears(i)
  PROVE  Reachable'
<1>1. ASSUME NEW d \in Desireds, ApplyBegin(d) PROVE Reachable'
  <2>1. fib' = fib /\ rules' = rules /\ file' = file /\ old' = Load(file) /\ file # Corrupt
    BY <1>1 DEF ApplyBegin, kernel
  <2>2. InReach(old')
    BY <2>1, DefaultInReach DEF Reachable, Load
  <2>. QED
    BY <2>1, <2>2 DEF Reachable
<1>2. ASSUME Start \/ ResetRequest \/ Shutdown \/ Exit PROVE Reachable'
  BY <1>2 DEF Reachable, Start, ResetRequest, Shutdown, Exit, kernel, applier
<1>3. ASSUME Crash PROVE Reachable'
  <2>1. fib' = fib /\ rules' = rules /\ Finish /\ file' \in {file, Corrupt}
    BY <1>3 DEF Crash, kernel
  <2>. QED
    BY <2>1, FinishInReach DEF Reachable
<1>4. ASSUME NEW i \in Dev, LinkDown(i) \/ DefaultAppears(i) PROVE Reachable'
  BY <1>4 DEF Reachable, LinkDown, DefaultAppears, applier
<1>. QED
  BY <1>1, <1>2, <1>3, <1>4

-----------------------------------------------------------------------------
(* What a reset has removed so far                                         *)

NoGuards == \A i \in Dev : guard[i] = NoGuard

\* The phases of a reset, each with what the phases before it removed.
Removed ==
  /\ rpc = "guards" => \A i \in Dev \ rdevs : guard[i] = NoGuard
  /\ rpc \notin {"idle", "guards"} => NoGuards
  /\ rpc \in {"rule0", "flush", "restore"} => file = Absent
  /\ rpc \in {"flush", "restore"} => rules = {}
  /\ rpc = "restore" => fib = {}

\* Outside the daemon nothing is at work; a daemon that is on its way out
\* applies nothing, and is out when its reset has returned.
Leaving ==
  /\ mode = "off" => rpc = "idle"
  /\ mode \in {"off", "exiting"} => apc = "idle"
  /\ (mode = "off" \/ (mode = "exiting" /\ rpc = "idle")) => Clean

ExitInv == TypeOK /\ Serial /\ Reachable /\ Removed /\ Leaving

\* A reset removes guards, record, rules and routes, in this order.
LEMMA ResetRemoves ==
  ASSUME ResetSucceeds, TypeOK, Reachable, Removed, ResetStep
  PROVE  Removed'
<1>. /\ ~Fails("reset") /\ ~Fails("clear")
  BY DEF ResetSucceeds, Fails
<1>1. ASSUME NEW i \in rdevs, ResetGuard(i) PROVE Removed'
  <2>1. guard \in [Dev -> Policy \cup {NoGuard}] /\ rdevs \subseteq Dev
    BY DEF TypeOK
  <2>2. /\ rpc = "guards" /\ rpc' = "guards" /\ rdevs' = rdevs \ {i}
        /\ guard' = [guard EXCEPT ![i] = NoGuard]
    BY <1>1 DEF ResetGuard
  <2>3. \A j \in Dev \ rdevs' : guard'[j] = NoGuard
    BY <2>1, <2>2 DEF Removed
  <2>. QED
    BY <2>2, <2>3 DEF Removed
<1>2. ASSUME ResetLoad PROVE Removed'
  <2>1. NoGuards /\ guard' = guard /\ file' = file
    BY <1>2 DEF ResetLoad, Removed, NoGuards, kernel
  <2>2. rpc' \in {"rule0", "clear", "routes"} /\ (rpc' = "rule0" => file = Absent)
    BY <1>2 DEF ResetLoad, RGoto
  <2>. QED
    BY <2>1, <2>2 DEF Removed, NoGuards
<1>3. ASSUME NEW i \in ridx, ResetRoute(i) PROVE Removed'
  BY <1>3 DEF ResetRoute, RGoto, Removed, NoGuards
<1>4. ASSUME ResetRules PROVE Removed'
  <2>1. rpc = "routes" /\ rpc' = "clear" /\ guard' = guard
    BY <1>4 DEF ResetRules, RGoto
  <2>. QED
    BY <2>1 DEF Removed, NoGuards
<1>5. ASSUME ResetClear PROVE Removed'
  BY <1>5 DEF ResetClear, RGoto, Removed, NoGuards, kernel
<1>6. ASSUME ResetRule0 PROVE Removed'
  <2>1. rules' = {}
    BY <1>6 DEF ResetRule0, Reachable, RemoveRules
  <2>. QED
    BY <1>6, <2>1 DEF ResetRule0, RGoto, Removed, NoGuards
<1>7. ASSUME ResetFlush PROVE Removed'
  <2>1. fib' = {}
    BY <1>7 DEF ResetFlush, Reachable, FlushTable
  <2>. QED
    BY <1>7, <2>1 DEF ResetFlush, RGoto, Removed, NoGuards
<1>8. ASSUME ResetRestoreWan PROVE Removed'
  BY <1>8 DEF ResetRestoreWan, Removed
<1>. QED
  BY <1>1, <1>2, <1>3, <1>4, <1>5, <1>6, <1>7, <1>8 DEF ResetStep

\* A reset begins with the guards that are up; everything else of a
\* serialised behaviour happens while no reset is at work, or leaves what
\* it has removed where it is.
LEMMA OthersRemove ==
  ASSUME TypeOK, Serial, Removed,
         \/ ApplyStep \/ (rpc = "idle" /\ \E d \in Desireds : ApplyBegin(d))
         \/ Start \/ ResetRequest \/ Shutdown \/ Exit \/ Crash
         \/ \E i \in Dev : LinkDown(i) \/ DefaultAppears(i)
  PROVE  Removed'
<1>1. ASSUME ApplyStep PROVE Removed'
  <2>1. rpc' = "idle"
    BY <1>1, ApplyKeepsResetter DEF Serial, resetter
  <2>. QED
    BY <2>1 DEF Removed
<1>2. ASSUME rpc = "idle", NEW d \in Desireds, ApplyBegin(d) PROVE Removed'
  <2>1. rpc' = "idle"
    BY <1>2 DEF ApplyBegin, resetter
  <2>. QED
    BY <2>1 DEF Removed
<1>3. ASSUME ResetRequest \/ Shutdown PROVE Removed'
  BY <1>3 DEF ResetRequest, Shutdown, BeginReset, Removed, kernel
<1>4. ASSUME Start PROVE Removed'
  <2>1. CASE BeginReset
    BY <1>4, <2>1 DEF Start, BeginReset, Removed, kernel
  <2>2. CASE UNCHANGED resetter
    BY <1>4, <2>2 DEF Start, Removed, NoGuards, kernel, resetter
  <2>. QED
    BY <1>4, <2>1, <2>2 DEF Start
<1>5. ASSUME Exit \/ Crash PROVE Removed'
  <2>1. rpc' = "idle"
    BY <1>5 DEF Exit, Crash, resetter
  <2>. QED
    BY <2>1 DEF Removed
<1>6. ASSUME NEW i \in Dev, LinkDown(i) \/ DefaultAppears(i) PROVE Removed'
  BY <1>6 DEF LinkDown, DefaultAppears, Removed, NoGuards, resetter
<1>. QED
  BY <1>1, <1>2, <1>3, <1>4, <1>5, <1>6

-----------------------------------------------------------------------------
(* The exit                                                                *)

\* A reset that has nothing left to remove leaves the host clean.
LEMMA ResetLeaves ==
  ASSUME ResetSucceeds, TypeOK, Serial, Removed, Leaving, ResetStep
  PROVE  Leaving'
<1>1. rpc # "idle" /\ apc' = apc /\ apc = "idle"
  BY ResetKeepsApplier DEF Serial, applier
<1>2. CASE ResetRestoreWan
  <2>1. /\ Clean /\ UNCHANGED <<fib, rules, guard, file>>
        /\ mode' \in {mode, "running"} /\ mode # "off"
    BY <1>1, <1>2 DEF ResetRestoreWan, Removed, NoGuards, Clean, Leaving
  <2>2. Clean'
    BY <2>1 DEF Clean
  <2>. QED
    BY <1>1, <2>1, <2>2 DEF Leaving
<1>3. CASE ~ResetRestoreWan
  <2>1. mode' = mode /\ rpc' # "idle" /\ mode # "off"
    BY <1>1, <1>3 DEF Leaving, ResetStep, ResetGuard, ResetLoad, ResetRoute, ResetRules,
       ResetClear, ResetRule0, ResetFlush, RGoto
  <2>. QED
    BY <1>1, <2>1 DEF Leaving
<1>. QED
  BY <1>2, <1>3

\* A daemon that serves may apply; one that has left does nothing until it is
\* started again.
LEMMA OthersLeave ==
  ASSUME Serial, Leaving,
         \/ ApplyStep \/ (rpc = "idle" /\ \E d \in Desireds : ApplyBegin(d))
         \/ (apc = "idle" /\ (Start \/ ResetRequest \/ Shutdown)) \/ Exit \/ Crash
         \/ \E i \in Dev : LinkDown(i) \/ DefaultAppears(i)
  PROVE  Leaving'
<1>1. ASSUME ApplyStep PROVE Leaving'
  <2>1. mode \notin {"off", "exiting"} /\ mode' = mode
    BY <1>1, ApplyKeepsResetter DEF Leaving, ApplyStep, ApplyGuard, ApplyEnsureRule,
       ApplyAddRoute, ApplyAddDone, ApplyDelRoute, ApplyDelRule, ApplyPrioritize,
       ApplyPurgeLan, ApplyVerify, ApplyCommit, RollbackDel, RollbackDelDone, RollbackAdd,
       RollbackDone
  <2>. QED
    BY <2>1 DEF Leaving
<1>2. ASSUME rpc = "idle", NEW d \in Desireds, ApplyBegin(d) PROVE Leaving'
  BY <1>2 DEF ApplyBegin, Leaving
<1>3. ASSUME apc = "idle", Start \/ ResetRequest \/ Shutdown PROVE Leaving'
  BY <1>3 DEF Start, ResetRequest, Shutdown, BeginReset, applier, Leaving
<1>4. ASSUME Exit PROVE Leaving'
  BY <1>4 DEF Exit, Leaving, Clean, kernel, applier, resetter
<1>5. ASSUME Crash PROVE Leaving'
  BY <1>5 DEF Crash, Leaving
<1>6. ASSUME NEW i \in Dev, LinkDown(i) \/ DefaultAppears(i) PROVE Leaving'
  BY <1>6 DEF LinkDown, DefaultAppears, Leaving, Clean, applier, resetter
<1>. QED
  BY <1>1, <1>2, <1>3, <1>4, <1>5, <1>6

\* The strengthened invariant holds at first.
LEMMA ExitInit == Init => ExitInv
BY InitTypes, DefaultInReach
   DEF Init, ExitInv, Serial, Reachable, Removed, NoGuards, Leaving, Clean

\* The strengthened invariant is inductive for serialised behaviours.
LEMMA ExitStep ==
  ASSUME DefaultTableOnly, ResetSucceeds
  PROVE  ExitInv /\ [SerialNext]_vars => ExitInv'
<1>1. ASSUME ExitInv, SerialNext PROVE ExitInv'
  <2>. TypeOK /\ Serial /\ Reachable /\ Removed /\ Leaving
    BY <1>1 DEF ExitInv
  <2>1. TypeOK' /\ Serial'
    BY <1>1, SerialStep, StepTypes
  <2>2. Reachable'
    BY <1>1, ApplyInReach, ResetInReach, OthersInReach DEF SerialNext
  <2>3. Removed'
    BY <1>1, ResetRemoves, OthersRemove DEF SerialNext
  <2>4. Leaving'
    BY <1>1, ResetLeaves, OthersLeave DEF SerialNext
  <2>. QED
    BY <2>1, <2>2, <2>3, <2>4 DEF ExitInv
<1>2. ASSUME ExitInv, UNCHANGED vars PROVE ExitInv'
  <2>1. TypeOK'
    BY <1>2, StepTypes DEF ExitInv
  <2>2. Serial' /\ Reachable'
    BY <1>2 DEF ExitInv, vars, Serial, Reachable
  <2>3. Removed' /\ Leaving'
    BY <1>2 DEF ExitInv, vars, Removed, NoGuards, Leaving, Clean
  <2>. QED
    BY <2>1, <2>2, <2>3 DEF ExitInv
<1>. QED
  BY <1>1, <1>2

\* When the daemon has exited no route, rule, chain or record of it is left,
\* whatever applies failed, whatever the host did and wherever it crashed
\* and was restarted before.
THEOREM ExitIsClean ==
  ASSUME DefaultTableOnly, ResetSucceeds
  PROVE  SerialSpec => []CleanExit
<1>1. SerialSpec => []ExitInv
  BY ExitInit, ExitStep, PTL DEF SerialSpec
<1>2. ExitInv => CleanExit
  BY DEF ExitInv, Leaving, CleanExit
<1>. QED
  BY <1>1, <1>2, PTL

-----------------------------------------------------------------------------
(* What is recorded has been verified, even when rollbacks and resets fail *)
(* and the daemon crashes.  The verification only lists the table; that    *)
(* its rule is there follows from the record, which a reset removes before *)
(* it hands the daemon back.                                               *)

Ruled(s) == s.owner = Rule0 /\ s.rules_owned \subseteq {Rule0}

\* An apply works on the record it loaded, in a daemon that serves.
Source ==
  /\ file \notin {Absent, Corrupt} => Ruled(file)
  /\ Ruled(old)
  /\ apc # "idle" => mode = "running" /\ old = Load(file) /\ file # Corrupt

\* The rule is there from the first route on, and while a record is in force.
RuleUp ==
  /\ apc \in Mutating => Rule0 \in rules
  /\ InForce => Rule0 \in rules

Seen == apc = "commit" => \A r \in Elements(want.routes) : Shows(fib, Rule0.table, r)

VerifiedInv == KeptInv /\ Source /\ RuleUp /\ Seen

\* The default state and what is saved of a desired state name rule 12000.
LEMMA RuledStates ==
  /\ Ruled(DefaultState)
  /\ DefaultTableOnly => \A d \in Desireds : Ruled(Committed(d))
BY DEF Ruled, DefaultState, Committed, DefaultTableOnly

\* Records keep naming rule 12000.
LEMMA SourceStep ==
  ASSUME DefaultTableOnly, TypeOK, Serial, Source, SerialNext
  PROVE  Source'
<1>1. ASSUME ApplyStep, ~ApplyCommit PROVE Source'
  <2>1. file' = file /\ mode' = mode
    BY <1>1 DEF ApplyStep, ApplyGuard, ApplyPurgeLan, ApplyAddRoute, ApplyDelRoute,
       RollbackDel, RollbackAdd, ApplyEnsureRule, ApplyAddDone, ApplyDelRule,
       ApplyPrioritize, ApplyVerify, RollbackDelDone, RollbackDone
  <2>2. old' = old \/ (old' = DefaultState /\ apc' = "idle")
    BY <1>1 DEF ApplyStep, ApplyGuard, ApplyPurgeLan, ApplyAddRoute, ApplyDelRoute,
       RollbackDel, RollbackAdd, ApplyEnsureRule, ApplyAddDone, ApplyDelRule,
       ApplyPrioritize, ApplyVerify, RollbackDelDone, RollbackDone, Goto, Finish, Rollback
  <2>3. apc # "idle"
    BY <1>1, ApplyKeepsResetter
  <2>. QED
    BY <2>1, <2>2, <2>3, RuledStates DEF Source
<1>2. ASSUME ApplyCommit PROVE Source'
  <2>1. want \in Desireds
    BY <1>2 DEF TypeOK, ApplyCommit
  <2>2. file' \in {Committed(want), file, Corrupt} /\ apc' = "idle" /\ old' = DefaultState
    BY <1>2 DEF ApplyCommit, Finish
  <2>. QED
    BY <2>1, <2>2, RuledStates DEF Source
<1>3. ASSUME ResetStep PROVE Source'
  <2>1. apc' = "idle" /\ old' = old
    BY <1>3, ResetKeepsApplier DEF Serial, applier
  <2>2. file' \in {file, Absent}
    BY <1>3 DEF ResetStep, ResetGuard, ResetLoad, ResetRoute, ResetRules, ResetClear,
       ResetRule0, ResetFlush, ResetRestoreWan
  <2>. QED
    BY <2>1, <2>2 DEF Source
<1>4. ASSUME rpc = "idle", NEW d \in Desireds, ApplyBegin(d) PROVE Source'
  <2>1. /\ mode = "running" /\ mode' = mode /\ file' = file /\ old' = Load(file)
        /\ file # Corrupt
    BY <1>4 DEF ApplyBegin
  <2>2. Ruled(old')
    BY <2>1, RuledStates DEF Source, Load
  <2>. QED
    BY <2>1, <2>2 DEF Source
<1>5. ASSUME (apc = "idle" /\ (Start \/ ResetRequest \/ Shutdown)) \/ Exit PROVE Source'
  BY <1>5 DEF Start, ResetRequest, Shutdown, Exit, applier, Source
<1>6. ASSUME Crash PROVE Source'
  BY <1>6, RuledStates DEF Crash, Finish, Source
<1>7. ASSUME NEW i \in Dev, LinkDown(i) \/ DefaultAppears(i) PROVE Source'
  BY <1>7 DEF LinkDown, DefaultAppears, applier, Source
<1>. QED
  BY <1>1, <1>2, <1>3, <1>4, <1>5, <1>6, <1>7 DEF SerialNext

\* The rule stays while it is needed.
LEMMA RuleStep ==
  ASSUME DefaultTableOnly, VerifiedInv, SerialNext
  PROVE  RuleUp'
<1>. TypeOK /\ Serial /\ RecordGone /\ Source /\ RuleUp
  BY DEF VerifiedInv, KeptInv, LiveInv
<1>1. ASSUME ApplyStep PROVE RuleUp'
  <2>1. /\ want \in Desireds /\ want.rule = Rule0 /\ mode = "running" /\ rpc = "idle"
        /\ apc # "idle"
    BY <1>1, ApplyKeepsResetter DEF Source, Serial, TypeOK, DefaultTableOnly
  <2>2. CASE ApplyEnsureRule
    <3>1. apc = "guard" /\ file' = file /\ old = Load(file) /\ mode' = mode /\ rpc' = rpc
      BY <2>2 DEF ApplyEnsureRule, Source, resetter
    <3>2. CASE rules' = rules /\ apc' = "idle"
      BY <2>1, <3>1, <3>2 DEF RuleUp, Mutating, InForce
    <3>3. CASE rules' = EnsureRules(rules, RulesToAdd(want, old)) /\ apc' = "add"
      <4>1. CASE file = Absent
        BY <2>1, <3>1, <3>3, <4>1 DEF EnsureRules, RulesToAdd, Load, DefaultState, RuleUp
      <4>2. CASE file # Absent
        BY <2>1, <3>1, <3>3, <4>2 DEF EnsureRules, RuleUp, Source, InForce
      <4>. QED
        BY <4>1, <4>2
    <3>. QED
      BY <2>2, <3>2, <3>3 DEF ApplyEnsureRule, Goto, Finish
  <2>3. CASE ApplyDelRule
    <3>1. apc \in Mutating /\ file' = file /\ Rule0 \in rules'
      BY <2>1, <2>3 DEF ApplyDelRule, RemoveRules, RulesToRemove, RuleUp, Mutating, Phase
    <3>. QED
      BY <3>1 DEF RuleUp
  <2>4. CASE \E i \in devs : ApplyGuard(i)
    <3>1. rules' = rules /\ file' = file /\ apc' \in {"guard", "idle"} /\ mode' = mode
          /\ rpc' = rpc
      BY <2>4 DEF ApplyGuard, Goto, Finish, resetter
    <3>. QED
      BY <2>1, <3>1 DEF RuleUp, Mutating, InForce
  <2>5. CASE ~ApplyEnsureRule /\ ~ApplyDelRule /\ ~ \E i \in devs : ApplyGuard(i)
    <3>1. rules' = rules /\ apc \in Mutating
      BY <1>1, <2>5 DEF ApplyStep, ApplyPurgeLan, ApplyAddRoute, ApplyDelRoute,
       RollbackDel, RollbackAdd, ApplyAddDone, ApplyPrioritize, ApplyVerify, ApplyCommit,
       RollbackDelDone, RollbackDone, Mutating, Phase, kernel
    <3>. QED
      BY <3>1 DEF RuleUp
  <2>. QED
    BY <2>2, <2>3, <2>4, <2>5
<1>2. ASSUME ResetStep PROVE RuleUp'
  <2>1. apc' = "idle"
    BY <1>2, ResetKeepsApplier DEF Serial, applier
  <2>2. rpc' # "idle" \/ file' = Absent
    BY <1>2 DEF RecordGone, ResetStep, ResetGuard, ResetLoad, ResetRoute, ResetRules,
       ResetClear, ResetRule0, ResetFlush, ResetRestoreWan, RGoto
  <2>. QED
    BY <2>1, <2>2 DEF RuleUp, Mutating, InForce
<1>3. ASSUME NEW d \in Desireds, ApplyBegin(d) PROVE RuleUp'
  BY <1>3 DEF ApplyBegin, RuleUp, Mutating, InForce, kernel, resetter
<1>4. ASSUME apc = "idle", ResetRequest \/ Shutdown PROVE RuleUp'
  BY <1>4 DEF ResetRequest, Shutdown, BeginReset, applier, RuleUp, Mutating, InForce
<1>5. ASSUME apc = "idle", Start PROVE RuleUp'
  BY <1>5 DEF Start, BeginReset, applier, RuleUp, Mutating, InForce
<1>6. ASSUME Exit \/ Crash PROVE RuleUp'
  BY <1>6 DEF Exit, Crash, Finish, applier, kernel, RuleUp, Mutating, InForce
<1>7. ASSUME NEW i \in Dev, LinkDown(i) \/ DefaultAppears(i) PROVE RuleUp'
  BY <1>7 DEF LinkDown, DefaultAppears, applier, resetter, RuleUp, Mutating, InForce
<1>. QED
  BY <1>1, <1>2, <1>3, <1>4, <1>5, <1>6, <1>7 DEF SerialNext

\* Between verification and save nothing leaves the table, unless a link
\* goes down.
LEMMA SeenStep ==
  ASSUME "linkdown" \notin EnvEvents, Source, Seen, Serial, SerialNext
  PROVE  Seen'
<1>1. ASSUME ApplyStep PROVE Seen'
  <2>1. ASSUME apc' = "commit" PROVE ApplyVerify
    BY <1>1, <2>1 DEF ApplyStep, ApplyGuard, ApplyPurgeLan, ApplyAddRoute, ApplyDelRoute,
       RollbackDel, RollbackAdd, ApplyEnsureRule, ApplyAddDone, ApplyDelRule,
       ApplyPrioritize, ApplyCommit, RollbackDelDone, RollbackDone, Goto, Finish, Rollback
  <2>2. ASSUME ApplyVerify, apc' = "commit" PROVE Seen'
    <3>1. /\ want' = want /\ fib' = fib
          /\ \A r \in Elements(want.routes) : Shows(fib, old.owner.table, r)
      BY <2>2 DEF ApplyVerify, Goto, Finish, Rollback, kernel
    <3>2. old.owner = Rule0
      BY DEF Source, Ruled
    <3>. QED
      BY <3>1, <3>2 DEF Seen
  <2>. QED
    BY <2>1, <2>2 DEF Seen
<1>2. ASSUME ResetStep PROVE Seen'
  BY <1>2, ResetKeepsApplier DEF Serial, applier, Seen
<1>3. ASSUME NEW d \in Desireds, ApplyBegin(d) PROVE Seen'
  BY <1>3 DEF ApplyBegin, Seen
<1>4. ASSUME Start \/ ResetRequest \/ Shutdown \/ Exit PROVE Seen'
  BY <1>4 DEF Start, ResetRequest, Shutdown, Exit, kernel, applier, Seen
<1>5. ASSUME Crash PROVE Seen'
  BY <1>5 DEF Crash, Finish, Seen
<1>6. ASSUME NEW i \in Dev, LinkDown(i) \/ DefaultAppears(i) PROVE Seen'
  BY <1>6 DEF LinkDown, DefaultAppears, applier, Seen
<1>. QED
  BY <1>1, <1>2, <1>3, <1>4, <1>5, <1>6 DEF SerialNext

\* The strengthened invariant holds at first.
LEMMA VerifiedInit == Init => VerifiedInv
BY KeptInit, RuledStates DEF Init, VerifiedInv, Source, RuleUp, Seen, Mutating, InForce

\* The strengthened invariant is inductive.
LEMMA VerifiedStep ==
  ASSUME DefaultTableOnly, "clear" \notin MayFail, "linkdown" \notin EnvEvents
  PROVE  VerifiedInv /\ [SerialNext]_vars => VerifiedInv'
<1>1. ASSUME VerifiedInv, SerialNext PROVE VerifiedInv'
  BY <1>1, KeptStep, SourceStep, RuleStep, SeenStep DEF VerifiedInv, KeptInv, LiveInv
<1>2. ASSUME VerifiedInv, UNCHANGED vars PROVE VerifiedInv'
  <2>1. KeptInv'
    BY <1>2, KeptStep DEF VerifiedInv
  <2>2. Source' /\ RuleUp' /\ Seen'
    BY <1>2 DEF VerifiedInv, vars, Source, RuleUp, Seen, InForce
  <2>. QED
    BY <2>1, <2>2 DEF VerifiedInv
<1>. QED
  BY <1>1, <1>2

\* Whatever rollbacks and resets fail and wherever the daemon crashes, a
\* state is saved only when each of its destinations has an entry of its
\* type, in its table, under a rule that looks the table up.
THEOREM RecordIsVerified ==
  ASSUME DefaultTableOnly, "clear" \notin MayFail, "linkdown" \notin EnvEvents
  PROVE  SerialSpec => CommitVerified
<1>. DEFINE Verified ==
       (file' # file /\ file' \notin {Absent, Corrupt}) =>
         \A r \in Elements(file'.routes_owned) :
           \E e \in fib' : /\ e.destination = r.destination
                           /\ e.table = r.table
                           /\ e.route_type = r.route_type
                           /\ \E q \in rules' : q.table = r.table
<1>1. VerifiedInv /\ [SerialNext]_vars => [Verified]_vars
  <2>. SUFFICES ASSUME VerifiedInv, SerialNext, file' # file, file' \notin {Absent, Corrupt},
                       NEW r \in Elements(file'.routes_owned)
                PROVE  \E e \in fib' : /\ e.destination = r.destination
                                       /\ e.table = r.table
                                       /\ e.route_type = r.route_type
                                       /\ \E q \in rules' : q.table = r.table
    OBVIOUS
  <2>1. ApplyCommit
    <3>1. ApplyStep
      BY DEF SerialNext, ApplyBegin, Start, ResetRequest, Shutdown, Exit, Crash, LinkDown,
         DefaultAppears, ResetStep, ResetGuard, ResetLoad, ResetRoute, ResetRules,
         ResetClear, ResetRule0, ResetFlush, ResetRestoreWan
    <3>. QED
      BY <3>1 DEF ApplyStep, ApplyGuard, ApplyPurgeLan, ApplyAddRoute, ApplyDelRoute,
         RollbackDel, RollbackAdd, ApplyEnsureRule, ApplyAddDone, ApplyDelRule,
         ApplyPrioritize, ApplyVerify, RollbackDelDone, RollbackDone
  <2>2. /\ apc = "commit" /\ want \in Desireds /\ file' = Committed(want)
        /\ fib' = fib /\ rules' = rules
    BY <2>1 DEF ApplyCommit, kernel, VerifiedInv, KeptInv, LiveInv, TypeOK
  <2>3. file'.routes_owned = want.routes
    BY <2>2 DEF Committed
  <2>4. Rule0 \in rules
    BY <2>2 DEF VerifiedInv, RuleUp, Mutating, Phase
  <2>5. r.table = Rule0.table
    BY <2>2, <2>3 DEF DefaultTableOnly, Elements
  <2>6. Shows(fib, Rule0.table, r)
    BY <2>2, <2>3 DEF VerifiedInv, Seen
  <2>. QED
    BY <2>2, <2>4, <2>5, <2>6 DEF Shows
<1>2. SerialSpec => []VerifiedInv
  BY VerifiedInit, VerifiedStep, PTL DEF SerialSpec
<1>. QED
  BY <1>1, <1>2, PTL DEF SerialSpec, CommitVerified

-----------------------------------------------------------------------------
(* All or nothing: once reconcile() returns, the isolated table holds the  *)
(* recorded routes and no other, a record in force covers its lab targets, *)
(* and no step on the way to it opens a hole.  This holds of desired       *)
(* states whose routes the kernel can tell apart by what `ip route del`    *)
(* names of them; commands may fail that reconcile() answers with an error *)
(* or a rollback, and resets do not overlap applies.                       *)

DesiredRoutes == UNION {Elements(d.routes) : d \in Desireds}

\* `ip route del` names destination, and device or type: routes that agree
\* in these are one route, also across desired states.
ToldApart ==
  /\ \A r \in DesiredRoutes : r.route_type = "Unreachable" \/ r.output_interface # NoDev
  /\ \A r, s \in DesiredRoutes :
       /\ r.destination = s.destination
       /\ r.route_type = s.route_type
       /\ r.route_type = "Unreachable" \/ r.output_interface = s.output_interface
       => r = s

\* Within a desired state no route takes the place of another in the kernel.
OneKeyEach ==
  \A d \in Desireds : \A r, s \in Elements(d.routes) :
    SameKey(Installed(r), Installed(s)) => r = s

\* The failures left are those that reconcile() handles before its first
\* change of a route, or by a rollback; the process and the links stay up.
HandledFailures ==
  /\ {"del", "undo", "redo", "save", "spawn"} \cap MayFail = {}
  /\ {"crash", "linkdown"} \cap EnvEvents = {}

RegimeOfRollback ==
  DefaultTableOnly /\ ToldApart /\ OneKeyEach /\ ResetSucceeds /\ HandledFailures

-----------------------------------------------------------------------------
(* What the commands do to routes that can be told apart                   *)

\* The kernel's entries for some positions of a list of routes.
At(l, I) == {Installed(l[i]) : i \in I}

\* A state that the daemon can have recorded.
Known(s) == s = DefaultState \/ \E d \in Desireds : s = Committed(d)

\* A desired state's routes.
LEMMA DesiredFacts ==
  ASSUME RegimeOfRollback, NEW d \in Desireds, NEW i \in DOMAIN d.routes
  PROVE  /\ d.routes[i] \in DesiredRoutes /\ d.routes[i] \in Route
         /\ d.routes[i].table = Rule0.table
         /\ \A j \in DOMAIN d.routes :
              SameKey(Installed(d.routes[i]), Installed(d.routes[j])) =>
                d.routes[i] = d.routes[j]
<1>1. d.routes \in Seq(Route)
  BY DesiredType
<1>2. d.routes[i] \in Route
  BY <1>1
<1>3. d.routes[i] \in Elements(d.routes) /\ d.routes[i] \in DesiredRoutes
  BY DEF Elements, DesiredRoutes
<1>4. \A j \in DOMAIN d.routes : d.routes[j] \in Elements(d.routes)
  BY DEF Elements
<1>. QED
  BY <1>2, <1>3, <1>4 DEF RegimeOfRollback, DefaultTableOnly, OneKeyEach

\* A recorded state's routes.
LEMMA KnownFacts ==
  ASSUME RegimeOfRollback, NEW s, Known(s)
  PROVE  /\ s.owner = Rule0
         /\ s.rules_owned \subseteq {Rule0}
         /\ \A i \in DOMAIN s.routes_owned :
              /\ s.routes_owned[i] \in DesiredRoutes /\ s.routes_owned[i] \in Route
              /\ s.routes_owned[i].table = Rule0.table
              /\ \A j \in DOMAIN s.routes_owned :
                   SameKey(Installed(s.routes_owned[i]), Installed(s.routes_owned[j])) =>
                     s.routes_owned[i] = s.routes_owned[j]
<1>1. CASE s = DefaultState
  BY <1>1 DEF DefaultState
<1>2. ASSUME NEW d \in Desireds, s = Committed(d)
      PROVE  /\ s.owner = Rule0 /\ s.rules_owned = {Rule0} /\ s.routes_owned = d.routes
  BY <1>2 DEF Committed, RegimeOfRollback, DefaultTableOnly
<1>. QED
  BY <1>1, <1>2, DesiredFacts DEF Known

\* Different desired routes have different entries.
LEMMA EntriesDiffer ==
  ASSUME RegimeOfRollback, NEW r \in DesiredRoutes \cap Route, NEW s \in DesiredRoutes \cap Route,
         Installed(r) = Installed(s)
  PROVE  r = s
BY DEF RegimeOfRollback, ToldApart, Installed, Route

\* Among entries of desired routes, deleting one takes its entry and no other.
LEMMA DeletesOne ==
  ASSUME RegimeOfRollback, NEW r \in DesiredRoutes \cap Route,
         NEW F, \A e \in F : \E s \in DesiredRoutes \cap Route : e = Installed(s)
  PROVE  DeleteRoute(F, r) = F \ {Installed(r)}
<1>1. ASSUME NEW s \in DesiredRoutes \cap Route, Installed(s) \in Deletable(F, r)
      PROVE  s = r
  BY <1>1 DEF RegimeOfRollback, ToldApart, Deletable, Installed, Route
<1>2. Deletable(F, r) \subseteq {Installed(r)}
  BY <1>1 DEF Deletable
<1>3. Installed(r).metric <= Installed(r).metric
  BY InstalledType DEF Route, Metric
<1>4. ASSUME Installed(r) \in F, r.table = Installed(r).table PROVE Installed(r) \in Deletable(F, r)
  BY <1>4 DEF RegimeOfRollback, ToldApart, Deletable, Installed, Route
<1>5. r.table = Installed(r).table
  BY DEF Installed, Route
<1>. QED
  BY <1>2, <1>3, <1>4, <1>5 DEF DeleteRoute

\* Adding a route keeps the entries of the other routes of its list.
LEMMA AddsOne ==
  ASSUME NEW l, NEW i \in DOMAIN l, NEW I \in SUBSET DOMAIN l, NEW F, At(l, I) \subseteq F,
         \A j \in DOMAIN l : SameKey(Installed(l[i]), Installed(l[j])) => l[i] = l[j]
  PROVE  /\ At(l, I \cup {i}) \subseteq AddRoute(F, l[i])
         /\ AddRoute(F, l[i]) \subseteq F \cup {Installed(l[i])}
<1>1. ASSUME NEW j \in I, ~SameKey(Installed(l[j]), Installed(l[i]))
      PROVE  Installed(l[j]) \in AddRoute(F, l[i])
  BY <1>1 DEF At, AddRoute
<1>2. ASSUME NEW j \in I, SameKey(Installed(l[j]), Installed(l[i]))
      PROVE  Installed(l[j]) \in AddRoute(F, l[i])
  <2>1. SameKey(Installed(l[i]), Installed(l[j]))
    BY <1>2 DEF SameKey
  <2>. QED
    BY <2>1 DEF AddRoute
<1>. QED
  BY <1>1, <1>2 DEF At, AddRoute

-----------------------------------------------------------------------------
(* The inductive invariant *)

\* Records come from desired states; an apply works on the record it loaded,
\* in a daemon that serves and resets nothing.
Provenance ==
  /\ file # Absent => Known(file)
  /\ file # Corrupt
  /\ mode \notin {"booting", "crashed"}
  /\ Known(old)
  /\ apc # "idle" => mode = "running" /\ old = Load(file)

AllOf(l) == At(l, DOMAIN l)

\* What the table holds in each phase of reconcile() and rollback().
Progressed ==
  /\ apc = "idle" /\ mode = "running" /\ rpc = "idle" => fib = AllOf(Load(file).routes_owned)
  /\ apc = "guard" => fib = AllOf(old.routes_owned)
  /\ apc = "add" => /\ fib \subseteq AllOf(old.routes_owned) \cup AllOf(want.routes)
                    /\ At(want.routes, DOMAIN want.routes \ idx) \subseteq fib
  /\ apc = "del" => /\ fib \subseteq AllOf(want.routes) \cup At(old.routes_owned, idx)
                    /\ AllOf(want.routes) \subseteq fib
                    /\ idx \subseteq RoutesToRemove(want, old)
  /\ apc \in {"prio", "lan", "commit"} => fib = AllOf(want.routes)
  /\ apc = "undo" => fib \subseteq AllOf(old.routes_owned) \cup At(want.routes, idx)
  /\ apc = "redo" =>
       /\ fib \subseteq AllOf(old.routes_owned)
       /\ At(old.routes_owned, DOMAIN old.routes_owned \ idx) \subseteq fib

AtomicInv == ExitInv /\ VerifiedInv /\ Provenance /\ Progressed

\* The entries of a list of routes to keep and of routes that are not in it.
LEMMA KeptOrNew ==
  ASSUME NEW l, NEW m
  PROVE  /\ AllOf(l) \subseteq AllOf(m) \cup At(l, {i \in DOMAIN l : l[i] \notin Elements(m)})
         /\ At(l, DOMAIN l \ {i \in DOMAIN l : l[i] \notin Elements(m)}) \subseteq AllOf(m)
BY DEF AllOf, At, Elements

\* Adding the planned routes.
LEMMA AddProgress ==
  ASSUME RegimeOfRollback, AtomicInv, NEW i \in idx, ApplyAddRoute(i)
  PROVE  Progressed'
<1>. /\ want \in Desireds /\ i \in DOMAIN want.routes /\ idx \subseteq DOMAIN want.routes
     /\ apc = "add"
  BY DEF AtomicInv, ExitInv, TypeOK, ApplyAddRoute
<1>1. CASE apc' = "add"
  <2>1. /\ fib' = AddRoute(fib, want.routes[i]) /\ idx' = idx \ {i}
        /\ want' = want /\ old' = old
    BY <1>1 DEF ApplyAddRoute, Goto, Rollback
  <2>2. /\ At(want.routes, (DOMAIN want.routes \ idx) \cup {i}) \subseteq fib'
        /\ fib' \subseteq fib \cup {Installed(want.routes[i])}
    BY <2>1, AddsOne, DesiredFacts DEF AtomicInv, Progressed
  <2>3. fib' \subseteq AllOf(old.routes_owned) \cup AllOf(want.routes)
    BY <2>2 DEF AtomicInv, Progressed, AllOf, At
  <2>4. DOMAIN want.routes \ idx' = (DOMAIN want.routes \ idx) \cup {i}
    BY <2>1
  <2>. QED
    BY <1>1, <2>1, <2>2, <2>3, <2>4 DEF Progressed
<1>2. CASE apc' # "add"
  <2>1. /\ apc' = "undo" /\ fib' = fib /\ idx' = RoutesToAdd(want, old)
        /\ want' = want /\ old' = old
    BY <1>2 DEF ApplyAddRoute, Goto, Rollback
  <2>2. AllOf(want.routes) \subseteq AllOf(old.routes_owned) \cup At(want.routes, idx')
    BY <2>1, KeptOrNew DEF RoutesToAdd
  <2>. QED
    BY <2>1, <2>2 DEF AtomicInv, Progressed
<1>. QED
  BY <1>1, <1>2

\* The routes to remove of a known state are those that are not desired.
LEMMA Obsolete ==
  ASSUME RegimeOfRollback, Known(old)
  PROVE  RoutesToRemove(want, old) =
           {i \in DOMAIN old.routes_owned : old.routes_owned[i] \notin Elements(want.routes)}
BY KnownFacts DEF RoutesToRemove

\* Entries of known and desired lists are entries of desired routes.
LEMMA EntriesKnown ==
  ASSUME RegimeOfRollback, want \in Desireds, Known(old),
         NEW e \in AllOf(old.routes_owned) \cup AllOf(want.routes)
  PROVE  \E s \in DesiredRoutes \cap Route : e = Installed(s)
BY DesiredFacts, KnownFacts DEF AllOf, At

\* Part of a list has part of its entries.
LEMMA PartOf ==
  ASSUME NEW l, NEW I \in SUBSET DOMAIN l
  PROVE  At(l, I) \subseteq AllOf(l)
BY DEF At, AllOf

\* Deleting the obsolete routes.
LEMMA DelProgress ==
  ASSUME RegimeOfRollback, AtomicInv, NEW i \in idx, ApplyDelRoute(i)
  PROVE  Progressed'
<1>1. /\ want \in Desireds /\ i \in DOMAIN old.routes_owned
      /\ idx \subseteq DOMAIN old.routes_owned /\ apc = "del" /\ Known(old)
      /\ fib \subseteq AllOf(want.routes) \cup At(old.routes_owned, idx)
      /\ AllOf(want.routes) \subseteq fib
      /\ idx \subseteq RoutesToRemove(want, old)
  BY DEF AtomicInv, ExitInv, TypeOK, ApplyDelRoute, Provenance, Progressed
<1>2. /\ fib' = DeleteRoute(fib, old.routes_owned[i])
      /\ apc' = "del" /\ idx' = idx \ {i} /\ want' = want /\ old' = old
  BY DEF ApplyDelRoute, Goto, Fails, RegimeOfRollback, HandledFailures
<1>3. old.routes_owned[i] \in DesiredRoutes \cap Route
  BY <1>1, KnownFacts
<1>4. \A e \in fib : \E s \in DesiredRoutes \cap Route : e = Installed(s)
  BY <1>1, EntriesKnown, PartOf
<1>5. fib' = fib \ {Installed(old.routes_owned[i])}
  BY <1>2, <1>3, <1>4, DeletesOne
<1>6. ASSUME NEW k \in DOMAIN want.routes
      PROVE  Installed(want.routes[k]) # Installed(old.routes_owned[i])
  <2>1. want.routes[k] # old.routes_owned[i]
    BY <1>1 DEF RoutesToRemove, Elements
  <2>. QED
    BY <1>1, <1>3, <2>1, DesiredFacts, EntriesDiffer
<1>7. AllOf(want.routes) \subseteq fib'
  BY <1>1, <1>5, <1>6 DEF AllOf, At
<1>8. fib' \subseteq AllOf(want.routes) \cup At(old.routes_owned, idx')
  BY <1>1, <1>2, <1>5 DEF At
<1>. QED
  BY <1>1, <1>2, <1>7, <1>8 DEF Progressed

\* Taking the planned routes back.
LEMMA UndoProgress ==
  ASSUME RegimeOfRollback, AtomicInv, NEW i \in idx, RollbackDel(i)
  PROVE  Progressed'
<1>1. /\ want \in Desireds /\ i \in DOMAIN want.routes /\ idx \subseteq DOMAIN want.routes
      /\ apc = "undo" /\ Known(old)
      /\ fib \subseteq AllOf(old.routes_owned) \cup At(want.routes, idx)
  BY DEF AtomicInv, ExitInv, TypeOK, RollbackDel, Provenance, Progressed
<1>2. /\ fib' = DeleteRoute(fib, want.routes[i])
      /\ apc' = "undo" /\ idx' = idx \ {i} /\ want' = want /\ old' = old
  BY DEF RollbackDel, Goto, Fails, RegimeOfRollback, HandledFailures
<1>3. want.routes[i] \in DesiredRoutes \cap Route
  BY <1>1, DesiredFacts
<1>4. \A e \in fib : \E s \in DesiredRoutes \cap Route : e = Installed(s)
  BY <1>1, EntriesKnown, PartOf
<1>5. fib' = fib \ {Installed(want.routes[i])}
  BY <1>2, <1>3, <1>4, DeletesOne
<1>6. fib' \subseteq AllOf(old.routes_owned) \cup At(want.routes, idx')
  BY <1>1, <1>2, <1>5 DEF At
<1>. QED
  BY <1>1, <1>2, <1>6 DEF Progressed

\* Putting the recorded routes back.
LEMMA RedoProgress ==
  ASSUME RegimeOfRollback, AtomicInv, NEW i \in idx, RollbackAdd(i)
  PROVE  Progressed'
<1>1. /\ i \in DOMAIN old.routes_owned /\ idx \subseteq DOMAIN old.routes_owned
      /\ apc = "redo" /\ Known(old)
      /\ fib \subseteq AllOf(old.routes_owned)
      /\ At(old.routes_owned, DOMAIN old.routes_owned \ idx) \subseteq fib
  BY DEF AtomicInv, ExitInv, TypeOK, RollbackAdd, Provenance, Progressed
<1>2. /\ fib' = AddRoute(fib, old.routes_owned[i])
      /\ apc' = "redo" /\ idx' = idx \ {i} /\ want' = want /\ old' = old
  BY DEF RollbackAdd, Goto, Fails, RegimeOfRollback, HandledFailures
<1>3. /\ At(old.routes_owned, (DOMAIN old.routes_owned \ idx) \cup {i}) \subseteq fib'
      /\ fib' \subseteq fib \cup {Installed(old.routes_owned[i])}
  BY <1>1, <1>2, AddsOne, KnownFacts
<1>4. fib' \subseteq AllOf(old.routes_owned)
  BY <1>1, <1>3 DEF AllOf, At
<1>5. DOMAIN old.routes_owned \ idx' = (DOMAIN old.routes_owned \ idx) \cup {i}
  BY <1>1, <1>2
<1>. QED
  BY <1>1, <1>2, <1>3, <1>4, <1>5 DEF Progressed

\* The steps of an apply that leave the table alone.
LEMMA QuietProgress ==
  ASSUME RegimeOfRollback, AtomicInv,
         \/ \E i \in devs : ApplyGuard(i) \/ ApplyPurgeLan(i)
         \/ ApplyEnsureRule \/ ApplyAddDone \/ ApplyDelRule \/ ApplyPrioritize
         \/ ApplyVerify \/ RollbackDelDone \/ RollbackDone
  PROVE  Progressed'
<1>. /\ ~Fails("spawn") /\ TypeOK /\ Serial /\ Provenance /\ Progressed
  BY DEF Fails, RegimeOfRollback, HandledFailures, AtomicInv, ExitInv
<1>. fib' = fib /\ file' = file /\ mode' = mode /\ rpc' = rpc
  BY DEF ApplyGuard, ApplyPurgeLan, ApplyEnsureRule, ApplyAddDone, ApplyDelRule,
     ApplyPrioritize, ApplyVerify, RollbackDelDone, RollbackDone, kernel, resetter
<1>1. ASSUME apc \in {"guard", "redo"}, apc = "redo" => idx = {}, Finish PROVE Progressed'
  <2>1. old = Load(file)
    BY <1>1 DEF Provenance
  <2>2. fib = AllOf(old.routes_owned)
    BY <1>1 DEF Progressed, AllOf
  <2>. QED
    BY <1>1, <2>1, <2>2 DEF Finish, Progressed
<1>2. ASSUME apc \in {"prio", "lan"}, Rollback PROVE Progressed'
  <2>1. AllOf(want.routes) \subseteq
          AllOf(old.routes_owned) \cup At(want.routes, RoutesToAdd(want, old))
    BY KeptOrNew DEF RoutesToAdd
  <2>. QED
    BY <1>2, <2>1 DEF Rollback, Goto, Progressed
<1>3. ASSUME apc = "guard", Goto("add", {}, RoutesToAdd(want, old)) PROVE Progressed'
  <2>1. At(want.routes, DOMAIN want.routes \ RoutesToAdd(want, old)) \subseteq
          AllOf(old.routes_owned)
    BY KeptOrNew DEF RoutesToAdd
  <2>. QED
    BY <1>3, <2>1 DEF Goto, Progressed
<1>4. ASSUME ApplyAddDone PROVE Progressed'
  <2>1. /\ apc = "add" /\ idx = {} /\ apc' = "del" /\ idx' = RoutesToRemove(want, old)
        /\ want' = want /\ old' = old
    BY <1>4 DEF ApplyAddDone, Goto
  <2>2. AllOf(old.routes_owned) \subseteq
          AllOf(want.routes) \cup At(old.routes_owned, RoutesToRemove(want, old))
    BY KeptOrNew, Obsolete DEF Provenance
  <2>. QED
    BY <2>1, <2>2 DEF Progressed, AllOf
<1>5. ASSUME ApplyDelRule PROVE Progressed'
  BY <1>5 DEF ApplyDelRule, Goto, Progressed, At
<1>6. ASSUME RollbackDelDone PROVE Progressed'
  BY <1>6 DEF RollbackDelDone, Goto, Progressed, At
<1>7. ASSUME apc = "guard", NEW ds, Goto("guard", ds, {}) PROVE Progressed'
  BY <1>7 DEF Goto, Progressed
<1>8. ASSUME apc \in {"prio", "lan"}, NEW pc \in {"lan", "commit"}, NEW ds, Goto(pc, ds, {})
      PROVE  Progressed'
  BY <1>8 DEF Goto, Progressed
<1>. QED
  BY <1>1, <1>2, <1>3, <1>4, <1>5, <1>6, <1>7, <1>8
     DEF ApplyGuard, ApplyPurgeLan, ApplyEnsureRule, ApplyPrioritize, ApplyVerify, RollbackDone

\* Saving the state, after which the record holds what the table holds.
LEMMA CommitProgress ==
  ASSUME RegimeOfRollback, AtomicInv, ApplyCommit
  PROVE  Progressed'
<1>1. want \in DesiredState /\ apc = "commit"
  BY DesiredType DEF AtomicInv, ExitInv, TypeOK, ApplyCommit
<1>2. file' = Committed(want) /\ apc' = "idle" /\ fib' = fib
  BY DEF ApplyCommit, Finish, Fails, RegimeOfRollback, HandledFailures, kernel
<1>3. Load(file').routes_owned = want.routes
  BY <1>1, <1>2, CommittedUsable DEF Load, Committed
<1>. QED
  BY <1>1, <1>2, <1>3 DEF AtomicInv, Progressed

\* The default state owns nothing.
LEMMA NothingOwned == AllOf(Load(Absent).routes_owned) = {}
BY DEF AllOf, At, Load, DefaultState

\* A reset ends with an empty table and no record.
LEMMA ResetProgress ==
  ASSUME RegimeOfRollback, AtomicInv, ResetStep
  PROVE  Progressed'
<1>1. rpc # "idle" /\ apc = "idle" /\ apc' = "idle"
  BY ResetKeepsApplier DEF AtomicInv, ExitInv, Serial, applier
<1>2. CASE ResetRestoreWan
  <2>1. fib' = {} /\ file' = Absent
    BY <1>2 DEF ResetRestoreWan, AtomicInv, ExitInv, Removed
  <2>. QED
    BY <1>1, <2>1, NothingOwned DEF Progressed
<1>3. CASE ~ResetRestoreWan
  <2>1. rpc' # "idle"
    BY <1>3 DEF ResetStep, ResetGuard, ResetLoad, ResetRoute, ResetRules,
       ResetClear, ResetRule0, ResetFlush, RGoto
  <2>. QED
    BY <1>1, <2>1 DEF Progressed
<1>. QED
  BY <1>2, <1>3

\* The start of an apply, the life cycle of the daemon and default routes.
LEMMA OthersProgress ==
  ASSUME RegimeOfRollback, AtomicInv,
         \/ (rpc = "idle" /\ \E d \in Desireds : ApplyBegin(d))
         \/ (apc = "idle" /\ (Start \/ ResetRequest \/ Shutdown)) \/ Exit \/ Crash
         \/ \E i \in Dev : LinkDown(i) \/ DefaultAppears(i)
  PROVE  Progressed'
<1>. Provenance /\ Progressed /\ Leaving /\ ~Crash /\ \A i \in Dev : ~LinkDown(i)
  BY DEF AtomicInv, ExitInv, Crash, LinkDown, RegimeOfRollback, HandledFailures
<1>1. ASSUME rpc = "idle", NEW d \in Desireds, ApplyBegin(d) PROVE Progressed'
  BY <1>1 DEF ApplyBegin, Progressed, kernel
<1>2. ASSUME apc = "idle", ResetRequest \/ Shutdown PROVE Progressed'
  BY <1>2 DEF ResetRequest, Shutdown, BeginReset, Progressed, applier
<1>3. ASSUME apc = "idle", Start PROVE Progressed'
  <2>1. fib' = {} /\ file' = file /\ file = Absent /\ apc' = "idle"
    BY <1>3 DEF Start, Leaving, Clean, Provenance, kernel, applier
  <2>. QED
    BY <2>1, NothingOwned DEF Progressed
<1>4. ASSUME Exit PROVE Progressed'
  BY <1>4 DEF Exit, Progressed, applier
<1>5. ASSUME NEW i \in Dev, DefaultAppears(i) PROVE Progressed'
  BY <1>5 DEF DefaultAppears, Progressed, applier, resetter
<1>. QED
  BY <1>1, <1>2, <1>3, <1>4, <1>5

\* Records keep coming from desired states.
LEMMA ProvenanceStep ==
  ASSUME RegimeOfRollback, AtomicInv, SerialNext
  PROVE  Provenance'
<1>. /\ Provenance /\ Leaving /\ Serial /\ ~Crash
     /\ ~Fails("save") /\ Known(DefaultState)
  BY DEF AtomicInv, ExitInv, Crash, RegimeOfRollback, HandledFailures, Fails, Known
<1>1. ASSUME ApplyStep, ~ApplyCommit PROVE Provenance'
  <2>1. file' = file /\ mode' = mode
    BY <1>1 DEF ApplyStep, ApplyGuard, ApplyPurgeLan, ApplyAddRoute, ApplyDelRoute,
       RollbackDel, RollbackAdd, ApplyEnsureRule, ApplyAddDone, ApplyDelRule,
       ApplyPrioritize, ApplyVerify, RollbackDelDone, RollbackDone
  <2>2. old' = old \/ (old' = DefaultState /\ apc' = "idle")
    BY <1>1 DEF ApplyStep, ApplyGuard, ApplyPurgeLan, ApplyAddRoute, ApplyDelRoute,
       RollbackDel, RollbackAdd, ApplyEnsureRule, ApplyAddDone, ApplyDelRule,
       ApplyPrioritize, ApplyVerify, RollbackDelDone, RollbackDone, Goto, Finish, Rollback
  <2>3. apc # "idle"
    BY <1>1, ApplyKeepsResetter
  <2>. QED
    BY <2>1, <2>2, <2>3 DEF Provenance
<1>2. ASSUME ApplyCommit PROVE Provenance'
  <2>1. want \in Desireds /\ want \in DesiredState
    BY <1>2, DesiredType DEF AtomicInv, ExitInv, TypeOK, ApplyCommit
  <2>2. file' = Committed(want) /\ apc' = "idle" /\ old' = DefaultState /\ mode' = mode
    BY <1>2 DEF ApplyCommit, Finish
  <2>3. Known(file')
    BY <2>1, <2>2 DEF Known
  <2>. QED
    BY <2>1, <2>2, <2>3, CommittedUsable DEF Provenance
<1>3. ASSUME ResetStep PROVE Provenance'
  <2>1. apc' = "idle" /\ old' = old
    BY <1>3, ResetKeepsApplier DEF Serial, applier
  <2>2. file' \in {file, Absent} /\ mode' \in {mode, "running"}
    BY <1>3 DEF ResetStep, ResetGuard, ResetLoad, ResetRoute, ResetRules, ResetClear,
       ResetRule0, ResetFlush, ResetRestoreWan
  <2>. QED
    BY <2>1, <2>2, FileAssumption DEF Provenance
<1>4. ASSUME rpc = "idle", NEW d \in Desireds, ApplyBegin(d) PROVE Provenance'
  <2>1. /\ mode = "running" /\ mode' = mode /\ file' = file /\ old' = Load(file)
    BY <1>4 DEF ApplyBegin
  <2>2. Known(old')
    BY <2>1 DEF Provenance, Load
  <2>. QED
    BY <2>1, <2>2 DEF Provenance
<1>5. ASSUME (apc = "idle" /\ (Start \/ ResetRequest \/ Shutdown)) \/ Exit PROVE Provenance'
  BY <1>5 DEF Start, ResetRequest, Shutdown, Exit, applier, Provenance, Leaving, Clean
<1>6. ASSUME NEW i \in Dev, LinkDown(i) \/ DefaultAppears(i) PROVE Provenance'
  BY <1>6 DEF LinkDown, DefaultAppears, applier, Provenance
<1>. QED
  BY <1>1, <1>2, <1>3, <1>4, <1>5, <1>6 DEF SerialNext

\* Every step of a serialised behaviour keeps the table in step with the
\* phase.
LEMMA ProgressStep ==
  ASSUME RegimeOfRollback, AtomicInv, SerialNext
  PROVE  Progressed'
BY AddProgress, DelProgress, UndoProgress, RedoProgress, QuietProgress, CommitProgress,
   ResetProgress, OthersProgress DEF SerialNext, ApplyStep

\* The strengthened invariant holds at first.
LEMMA AtomicInit == Init => AtomicInv
<1>1. Init => Provenance
  BY FileAssumption DEF Init, Provenance, Known
<1>2. Init => Progressed
  BY DEF Init, Progressed
<1>. QED
  BY <1>1, <1>2, ExitInit, VerifiedInit DEF AtomicInv

\* The strengthened invariant is inductive.
LEMMA AtomicStep ==
  ASSUME RegimeOfRollback
  PROVE  AtomicInv /\ [SerialNext]_vars => AtomicInv'
<1>. "clear" \notin MayFail /\ "linkdown" \notin EnvEvents /\ DefaultTableOnly /\ ResetSucceeds
  BY DEF RegimeOfRollback, ResetSucceeds, HandledFailures
<1>1. AtomicInv /\ [SerialNext]_vars => ExitInv' /\ VerifiedInv'
  BY ExitStep, VerifiedStep DEF AtomicInv
<1>2. ASSUME AtomicInv, SerialNext PROVE AtomicInv'
  BY <1>1, <1>2, ProgressStep, ProvenanceStep DEF AtomicInv
<1>3. ASSUME AtomicInv, UNCHANGED vars PROVE AtomicInv'
  <2>1. Provenance' /\ Progressed'
    BY <1>3 DEF AtomicInv, vars, Provenance, Progressed
  <2>. QED
    BY <1>1, <1>3, <2>1 DEF AtomicInv
<1>. QED
  BY <1>2, <1>3

-----------------------------------------------------------------------------
(* What follows *)

\* Under serialised applies and resets, the invariant holds throughout.
LEMMA AtomicAlways ==
  ASSUME RegimeOfRollback
  PROVE  SerialSpec => []AtomicInv
BY AtomicInit, AtomicStep, PTL DEF SerialSpec

\* The elements of a list are its entries before the kernel has them.
LEMMA EntriesOf ==
  ASSUME NEW l
  PROVE  AllOf(l) = {Installed(r) : r \in Elements(l)}
BY DEF AllOf, At, Elements

\* reconcile() is all or nothing: whenever the daemon has settled, after an
\* apply that committed, failed or was rolled back, or after a reset, the
\* isolated table holds the recorded routes and no other.
THEOREM ApplyIsAtomic ==
  ASSUME RegimeOfRollback
  PROVE  SerialSpec => []KernelMatchesRecord
<1>1. AtomicInv => KernelMatchesRecord
  BY EntriesOf DEF AtomicInv, Progressed, KernelMatchesRecord, Settled
<1>. QED
  BY <1>1, AtomicAlways, PTL

\* An apply whose commands succeed is never rolled back: whenever the routes
\* are verified, the table that is listed shows every desired one.
THEOREM VerificationSucceeds ==
  ASSUME RegimeOfRollback
  PROVE  SerialSpec => []NoNeedlessRollback
<1>1. AtomicInv => NoNeedlessRollback
  <2>. SUFFICES ASSUME AtomicInv, apc = "lan", NEW r \in Elements(want.routes)
                PROVE  Shows(fib, old.owner.table, r)
    BY DEF NoNeedlessRollback
  <2>1. want \in Desireds /\ Known(old)
    BY DEF AtomicInv, ExitInv, TypeOK, Provenance
  <2>2. PICK i \in DOMAIN want.routes : r = want.routes[i]
    BY DEF Elements
  <2>3. Installed(r) \in fib
    BY <2>2 DEF AtomicInv, Progressed, AllOf, At
  <2>4. old.owner.table = Rule0.table /\ r.table = Rule0.table /\ r \in Route
    BY <2>1, <2>2, KnownFacts, DesiredFacts
  <2>5. Installed(r).destination = r.destination /\ Installed(r).table = r.table
        /\ Installed(r).route_type = r.route_type
    BY <2>4 DEF Installed, Route
  <2>. QED
    BY <2>3, <2>4, <2>5 DEF Shows
<1>. QED
  BY <1>1, AtomicAlways, PTL

\* A list of desired routes that is in the table, looked up by the rule, is
\* covered.
LEMMA InstalledIsCovered ==
  ASSUME RegimeOfRollback, NEW d \in Desireds, NEW F, NEW Q, AllOf(d.routes) \subseteq F,
         Rule0 \in Q, NEW r \in Elements(d.routes)
  PROVE  Covered(F, Q, r.destination)
<1>1. PICK i \in DOMAIN d.routes : r = d.routes[i]
  BY DEF Elements
<1>2. r.table = Rule0.table /\ r \in Route
  BY <1>1, DesiredFacts
<1>3. Installed(r) \in F
  BY <1>1 DEF AllOf, At
<1>4. Installed(r).destination = r.destination /\ Installed(r).table = Rule0.table
  BY <1>2 DEF Installed, Route
<1>. QED
  BY <1>3, <1>4 DEF Covered

\* Between applies no lab target of the policy in force falls through to
\* table main.
THEOREM LabTargetsStayCovered ==
  ASSUME RegimeOfRollback
  PROVE  SerialSpec => []LabTargetsCovered
<1>1. AtomicInv => LabTargetsCovered
  <2>. SUFFICES ASSUME AtomicInv, Settled, InForce, NEW r \in Elements(file.routes_owned)
                PROVE  Covered(fib, rules, r.destination)
    BY DEF LabTargetsCovered
  <2>1. file # Absent /\ Known(file) /\ Rule0 \in rules /\ fib = AllOf(file.routes_owned)
    BY DEF AtomicInv, VerifiedInv, Provenance, Progressed, RuleUp, Settled, InForce, Load
  <2>2. ASSUME NEW d \in Desireds, file = Committed(d) PROVE Covered(fib, rules, r.destination)
    <3>1. file.routes_owned = d.routes
      BY <2>2 DEF Committed
    <3>. QED
      BY <2>1, <3>1, InstalledIsCovered
  <2>3. file # DefaultState
    BY DEF DefaultState, Elements
  <2>. QED
    BY <2>1, <2>2, <2>3 DEF Known
<1>. QED
  BY <1>1, AtomicAlways, PTL

\* `ip route replace` keeps every destination covered.
LEMMA AddKeepsCover ==
  ASSUME NEW F, NEW Q, NEW r, NEW d, Covered(F, Q, d)
  PROVE  Covered(AddRoute(F, r), Q, d)
<1>1. PICK q \in Q, e \in F : e.table = q.table /\ e.destination = d
  BY DEF Covered
<1>2. CASE SameKey(e, Installed(r))
  BY <1>1, <1>2 DEF SameKey, AddRoute, Covered
<1>3. CASE ~SameKey(e, Installed(r))
  BY <1>1, <1>3 DEF AddRoute, Covered
<1>. QED
  BY <1>2, <1>3

\* On its way to the new policy reconcile() opens no hole: a desired lab
\* destination that resolves in the isolated table before a step resolves
\* there after it.
THEOREM NoVacuum ==
  ASSUME RegimeOfRollback
  PROVE  SerialSpec => ForwardStepsKeepCover
<1>. DEFINE Keeps ==
       \A r \in (IF apc \in Forward THEN Elements(want.routes) ELSE {}) :
         (/\ applier' # applier
          /\ r.output_interface # want.wan
          /\ Covered(fib, rules, r.destination))
         => Covered(fib', rules', r.destination)
<1>1. AtomicInv /\ AtomicInv' /\ [SerialNext]_vars => [Keeps]_vars
  <2>. SUFFICES ASSUME AtomicInv, AtomicInv', SerialNext, apc \in Forward, applier' # applier,
                       NEW r \in Elements(want.routes), Covered(fib, rules, r.destination)
                PROVE  Covered(fib', rules', r.destination)
    OBVIOUS
  <2>1. want \in Desireds
    BY DEF AtomicInv, ExitInv, TypeOK, Forward
  <2>2. ApplyStep
    <3>1. apc # "idle" /\ ~Crash /\ ~ \E d \in Desireds : ApplyBegin(d)
      BY DEF Forward, Crash, RegimeOfRollback, HandledFailures, ApplyBegin
    <3>2. ~(ResetStep \/ Exit \/ \E i \in Dev : LinkDown(i) \/ DefaultAppears(i))
      BY ResetKeepsApplier DEF Exit, LinkDown, DefaultAppears
    <3>. QED
      BY <3>1, <3>2 DEF SerialNext
  <2>3. CASE fib' = fib /\ rules \subseteq rules'
    BY <2>3 DEF Covered
  <2>4. ASSUME NEW i \in idx, ApplyAddRoute(i) PROVE Covered(fib', rules', r.destination)
    BY <2>4, AddKeepsCover DEF ApplyAddRoute
  <2>5. ASSUME NEW i \in idx, ApplyDelRoute(i) PROVE Covered(fib', rules', r.destination)
    <3>1. apc' = "del" /\ want' = want
      BY <2>5 DEF ApplyDelRoute, Goto
    <3>2. AllOf(want.routes) \subseteq fib' /\ Rule0 \in rules'
      BY <3>1 DEF AtomicInv, VerifiedInv, Progressed, RuleUp, Mutating, Phase
    <3>. QED
      BY <2>1, <3>2, InstalledIsCovered
  <2>6. CASE ApplyDelRule
    <3>1. apc' = "prio" /\ want' = want
      BY <2>6 DEF ApplyDelRule, Goto
    <3>2. AllOf(want.routes) \subseteq fib' /\ Rule0 \in rules'
      BY <3>1 DEF AtomicInv, VerifiedInv, Progressed, RuleUp, Mutating, Phase
    <3>. QED
      BY <2>1, <3>2, InstalledIsCovered
  <2>7. ASSUME \/ \E i \in devs : ApplyGuard(i) \/ ApplyPurgeLan(i)
               \/ ApplyEnsureRule \/ ApplyAddDone \/ ApplyPrioritize
               \/ ApplyVerify \/ ApplyCommit
        PROVE  fib' = fib /\ rules \subseteq rules'
    BY <2>7 DEF ApplyGuard, ApplyPurgeLan, ApplyEnsureRule, ApplyAddDone, ApplyPrioritize,
       ApplyVerify, ApplyCommit, EnsureRules, kernel
  <2>8. ~(RollbackDelDone \/ RollbackDone \/ \E i \in idx : RollbackDel(i) \/ RollbackAdd(i))
    BY DEF RollbackDelDone, RollbackDone, RollbackDel, RollbackAdd, Forward
  <2>. QED
    BY <2>2, <2>3, <2>4, <2>5, <2>6, <2>7, <2>8 DEF ApplyStep
<1>. QED
  BY <1>1, AtomicAlways, PTL DEF SerialSpec, ForwardStepsKeepCover

-----------------------------------------------------------------------------
(* The refinement of PolicyTransaction.                                    *)
(*                                                                         *)
(* The entries in effect are those of the recorded state whenever both     *)
(* threads are idle, so the mapping reads them off the record throughout.  *)

\* A reset has either not looked at the record yet, or holds what it found;
\* an apply guards interfaces of the desired state.
Visits ==
  /\ rpc = "guards" => rold = DefaultState
  /\ apc = "guard" => devs \subseteq want.ifs

RefineInv == AtomicInv /\ Visits

\* A reset starts without a record in hand, an apply with the interfaces of
\* its desired state.
LEMMA VisitsStep ==
  ASSUME Visits, Serial, SerialNext
  PROVE  Visits'
<1>1. ASSUME ApplyStep PROVE Visits'
  <2>1. rpc' = "idle"
    BY <1>1, ApplyKeepsResetter DEF Serial, resetter
  <2>2. apc' = "guard" => apc = "guard" /\ devs' \subseteq devs /\ want' = want
    BY <1>1 DEF ApplyStep, ApplyGuard, ApplyPurgeLan, ApplyAddRoute, ApplyDelRoute,
       RollbackDel, RollbackAdd, ApplyEnsureRule, ApplyAddDone, ApplyDelRule,
       ApplyPrioritize, ApplyVerify, ApplyCommit, RollbackDelDone, RollbackDone, Goto, Finish,
       Rollback
  <2>. QED
    BY <2>1, <2>2 DEF Visits
<1>2. ASSUME ResetStep PROVE Visits'
  <2>1. apc' = "idle"
    BY <1>2, ResetKeepsApplier DEF Serial, applier
  <2>2. rpc' = "guards" => rpc = "guards" /\ rold' = rold
    BY <1>2 DEF ResetStep, ResetGuard, ResetLoad, ResetRoute, ResetRules, ResetClear,
       ResetRule0, ResetFlush, ResetRestoreWan, RGoto
  <2>. QED
    BY <2>1, <2>2 DEF Visits
<1>3. ASSUME NEW d \in Desireds, ApplyBegin(d) PROVE Visits'
  BY <1>3 DEF ApplyBegin, Visits, resetter
<1>4. ASSUME apc = "idle", Start \/ ResetRequest \/ Shutdown PROVE Visits'
  BY <1>4 DEF Start, ResetRequest, Shutdown, BeginReset, Visits, applier, resetter
<1>5. ASSUME Exit \/ Crash PROVE Visits'
  BY <1>5 DEF Exit, Crash, Finish, Visits, applier, resetter
<1>6. ASSUME NEW i \in Dev, LinkDown(i) \/ DefaultAppears(i) PROVE Visits'
  BY <1>6 DEF LinkDown, DefaultAppears, Visits, applier, resetter
<1>. QED
  BY <1>1, <1>2, <1>3, <1>4, <1>5, <1>6 DEF SerialNext

\* The strengthened invariant of the refinement holds throughout.
LEMMA RefineAlways ==
  ASSUME RegimeOfRollback
  PROVE  SerialSpec => []RefineInv
<1>1. Init => RefineInv
  BY AtomicInit DEF RefineInv, Init, Visits
<1>2. RefineInv /\ [SerialNext]_vars => RefineInv'
  <2>1. ASSUME Visits, Serial, [SerialNext]_vars PROVE Visits'
    <3>1. CASE UNCHANGED vars
      BY <2>1, <3>1 DEF Visits, vars
    <3>. QED
      BY <2>1, <3>1, VisitsStep
  <2>. QED
    BY <2>1, AtomicStep DEF RefineInv, AtomicInv, ExitInv
<1>. QED
  BY <1>1, <1>2, PTL DEF SerialSpec

\* What the table is looked up for is what the record says.
LEMMA EffectIsRecorded ==
  ASSUME RegimeOfRollback, AtomicInv, apc = "idle", rpc = "idle"
  PROVE  InEffect = Contract(Recorded).entries
<1>1. Recorded = Load(file) /\ Contract(Recorded).entries = AllOf(Load(file).routes_owned)
  BY EntriesOf DEF Recorded, Contract
<1>2. \A e \in fib : e.table = Rule0.table
  BY DEF AtomicInv, ExitInv, Reachable
<1>3. CASE mode = "running"
  <2>1. fib = AllOf(Load(file).routes_owned)
    BY <1>3 DEF AtomicInv, Progressed
  <2>2. CASE file = Absent
    BY <1>1, <2>1, <2>2, NothingOwned DEF InEffect
  <2>3. CASE file # Absent
    <3>1. Rule0 \in rules
      BY <1>3, <2>3 DEF AtomicInv, VerifiedInv, Provenance, RuleUp, InForce
    <3>. QED
      BY <1>1, <1>2, <2>1, <3>1 DEF InEffect
  <2>. QED
    BY <2>2, <2>3
<1>4. CASE mode # "running"
  <2>1. mode \in {"off", "exiting"}
    BY <1>4 DEF AtomicInv, ExitInv, TypeOK, Provenance
  <2>2. fib = {} /\ file = Absent
    BY <2>1 DEF AtomicInv, ExitInv, Leaving, Clean
  <2>. QED
    BY <1>1, <2>2, NothingOwned DEF InEffect
<1>. QED
  BY <1>3, <1>4

\* The entries that the mapping shows.
Mapped == IF apc = "idle" /\ rpc = "idle" THEN InEffect ELSE Contract(Recorded).entries

\* They are the entries of the contract, in every phase.
LEMMA MappedIsRecorded ==
  ASSUME RegimeOfRollback, AtomicInv
  PROVE  Mapped = Contract(Recorded).entries
BY EffectIsRecorded DEF Mapped

\* reconcile() and reset() implement the transactions of PolicyTransaction:
\* an apply exchanges the contract in one step, after its guards are up, or
\* leaves it alone, and a reset ends it in one step, after its guards are
\* down.
THEOREM ApplyIsTransaction ==
  ASSUME RegimeOfRollback
  PROVE  SerialSpec => Transactional
<1>1. Init => T!TInit
  <2>1. Init => Contract(Recorded) = Contract(DefaultState) /\ InEffect = {}
    BY DEF Init, Recorded, Load, InEffect
  <2>. QED
    BY <2>1 DEF Init, T!TInit
<1>2. AtomicInv => Mapped = Contract(Recorded).entries
  BY MappedIsRecorded
<1>3. (AtomicInv => Mapped = Contract(Recorded).entries)'
  BY <1>2, PTL
<1>4. RefineInv /\ RefineInv' /\ [SerialNext]_vars => [T!TNext]_(T!tvars)
  <2>. SUFFICES ASSUME RefineInv, RefineInv', [SerialNext]_vars
                PROVE  T!TNext \/ UNCHANGED T!tvars
    OBVIOUS
  <2>. /\ AtomicInv /\ AtomicInv' /\ Visits /\ TypeOK /\ Serial /\ Removed
       /\ Provenance /\ GuardLive /\ Leaving
    BY DEF RefineInv, AtomicInv, ExitInv, VerifiedInv, KeptInv, LiveInv
  <2>. /\ ~Crash /\ ~Fails("save") /\ \A i \in Dev : ~LinkDown(i)
    BY DEF Crash, Fails, LinkDown, RegimeOfRollback, HandledFailures
  <2>1. Mapped = Contract(Recorded).entries /\ Mapped' = (Contract(Recorded).entries)'
    BY <1>2, <1>3
  <2>2. ASSUME Recorded' = Recorded, guard' = guard, rpc' = "idle" <=> rpc = "idle"
        PROVE  UNCHANGED T!tvars
    <3>1. Contract(Recorded)' = Contract(Recorded)
      BY <2>2 DEF Contract
    <3>. QED
      BY <2>1, <2>2, <3>1 DEF T!tvars, Mapped
  <2>3. ASSUME guard' = guard, file' = file, rpc' = rpc, rold' = rold PROVE UNCHANGED T!tvars
    BY <2>2, <2>3 DEF Recorded
  <2>4. ASSUME NEW i \in devs, ApplyGuard(i) PROVE T!TNext \/ UNCHANGED T!tvars
    <3>1. /\ apc = "guard" /\ rpc = "idle" /\ rpc' = "idle" /\ file' = file /\ rold' = rold
          /\ guard' \in {guard, [guard EXCEPT ![i] = want.policy]}
          /\ i \in want.ifs /\ i \in Dev /\ want \in Desireds
      BY <2>4 DEF ApplyGuard, Serial, resetter, Visits, TypeOK
    <3>2. CASE guard' = guard
      BY <2>3, <3>1, <3>2
    <3>3. CASE guard' = [guard EXCEPT ![i] = want.policy]
      <4>1. Recorded' = Recorded
        BY <3>1 DEF Recorded
      <4>2. Contract(Recorded)' = Contract(Recorded) /\ Mapped' = Mapped
        BY <2>1, <4>1 DEF Contract
      <4>3. /\ Contract(Committed(want)).policy = want.policy
            /\ Contract(Committed(want)).ifs = want.ifs
        BY DEF Contract, Committed
      <4>4. T!Protect(Contract(Committed(want)), i)
        BY <3>1, <3>3, <4>2, <4>3 DEF T!Protect, Mapped
      <4>. QED
        BY <3>1, <4>4 DEF T!TNext
    <3>. QED
      BY <3>1, <3>2, <3>3
  <2>5. ASSUME ApplyCommit PROVE T!TNext
    <3>1. /\ apc = "commit" /\ rpc = "idle" /\ rpc' = "idle" /\ guard' = guard
          /\ want \in Desireds /\ file' = Committed(want)
      BY <2>5 DEF ApplyCommit, Serial, resetter, kernel, TypeOK
    <3>2. Recorded' = Committed(want)
      BY <3>1, DesiredType, CommittedUsable DEF Recorded, Load
    <3>3. Contract(Recorded)' = Contract(Committed(want))
      BY <3>1, <3>2 DEF Contract
    <3>4. \A i \in Contract(Committed(want)).ifs :
            guard[i] = Contract(Committed(want)).policy
      BY <3>1 DEF GuardLive, Mutating, Phase, Contract, Committed
    <3>5. T!Commit(Contract(Committed(want)))
      BY <2>1, <3>1, <3>3, <3>4 DEF T!Commit, Mapped
    <3>. QED
      BY <3>1, <3>5 DEF T!TNext
  <2>6. ASSUME ApplyStep, ~ApplyCommit, \A i \in devs : ~ApplyGuard(i)
        PROVE  UNCHANGED T!tvars
    <3>1. guard' = guard /\ file' = file
      BY <2>6 DEF ApplyStep, ApplyPurgeLan, ApplyAddRoute, ApplyDelRoute,
       RollbackDel, RollbackAdd, ApplyEnsureRule, ApplyAddDone, ApplyDelRule,
       ApplyPrioritize, ApplyVerify, RollbackDelDone, RollbackDone, kernel
    <3>. QED
      BY <2>3, <2>6, <3>1, ApplyKeepsResetter DEF resetter
  <2>7. ASSUME NEW i \in rdevs, ResetGuard(i) PROVE T!TNext \/ UNCHANGED T!tvars
    <3>1. /\ rpc = "guards" /\ rpc' = "guards" /\ file' = file /\ rold' = rold /\ i \in Dev
          /\ guard' \in {guard, [guard EXCEPT ![i] = NoGuard]}
      BY <2>7 DEF ResetGuard, TypeOK
    <3>2. CASE guard' = guard
      BY <2>3, <3>1, <3>2
    <3>3. CASE guard' = [guard EXCEPT ![i] = NoGuard]
      <4>1. Recorded' = Recorded
        BY <3>1 DEF Recorded
      <4>2. Contract(Recorded)' = Contract(Recorded) /\ Mapped' = Mapped
        BY <2>1, <4>1 DEF Contract
      <4>3. T!Unprotect(i)
        BY <3>1, <3>3, <4>2 DEF T!Unprotect, Mapped
      <4>. QED
        BY <3>1, <4>3 DEF T!TNext
    <3>. QED
      BY <3>1, <3>2, <3>3
  <2>8. ASSUME ResetLoad PROVE UNCHANGED T!tvars
    <3>1. /\ rpc = "guards" /\ rpc' \notin {"idle", "guards"} /\ guard' = guard
          /\ rold' = Load(file)
      BY <2>8 DEF ResetLoad, RGoto, kernel, Visits, Provenance, Load
    <3>2. Recorded' = Recorded
      BY <3>1 DEF Recorded
    <3>. QED
      BY <2>2, <3>1, <3>2
  <2>9. ASSUME \/ \E i \in ridx : ResetRoute(i)
               \/ ResetRules \/ ResetClear \/ ResetRule0 \/ ResetFlush
        PROVE  UNCHANGED T!tvars
    <3>1. /\ rpc \notin {"idle", "guards"} /\ rpc' \notin {"idle", "guards"}
          /\ guard' = guard /\ rold' = rold
      BY <2>9 DEF ResetRoute, ResetRules, ResetClear, ResetRule0, ResetFlush, RGoto, kernel
    <3>2. Recorded' = Recorded
      BY <3>1 DEF Recorded
    <3>. QED
      BY <2>2, <3>1, <3>2
  <2>10. ASSUME ResetRestoreWan PROVE T!TNext
    <3>1. /\ rpc = "restore" /\ rpc' = "idle" /\ guard' = guard /\ file' = Absent
          /\ \A i \in Dev : guard[i] = NoGuard
      BY <2>10 DEF ResetRestoreWan, Removed, NoGuards
    <3>2. Recorded' = DefaultState
      BY <3>1 DEF Recorded, Load
    <3>3. Contract(Recorded)' = Contract(DefaultState)
      BY <3>2 DEF Contract, DefaultState
    <3>4. Contract(DefaultState).entries = {}
      BY DEF Contract, DefaultState, Elements
    <3>5. T!End
      BY <2>1, <3>1, <3>3, <3>4 DEF T!End, Mapped
    <3>. QED
      BY <3>5 DEF T!TNext
  <2>11. ASSUME apc = "idle", ResetRequest \/ Shutdown PROVE T!TNext
    <3>1. /\ rpc = "idle" /\ rpc' = "guards" /\ guard' = guard /\ file' = file
      BY <2>11 DEF ResetRequest, Shutdown, BeginReset, kernel
    <3>2. Recorded' = Recorded
      BY <3>1 DEF Recorded
    <3>3. Contract(Recorded)' = Contract(Recorded) /\ Mapped' = Mapped
      BY <2>1, <3>2 DEF Contract
    <3>4. T!BeginEnd
      BY <3>1, <3>3 DEF T!BeginEnd, Mapped
    <3>. QED
      BY <3>4 DEF T!TNext
  <2>12. ASSUME Start PROVE UNCHANGED T!tvars
    <3>1. file = Absent
      BY <2>12 DEF Start, Leaving, Clean, Provenance
    <3>. QED
      BY <2>3, <2>12, <3>1 DEF Start, resetter, kernel
  <2>13. ASSUME \/ \E d \in Desireds : ApplyBegin(d)
                \/ Exit \/ (\E i \in Dev : DefaultAppears(i)) \/ UNCHANGED vars
         PROVE  UNCHANGED T!tvars
    <3>1. guard' = guard /\ file' = file /\ rpc' = rpc /\ rold' = rold
      BY <2>13 DEF ApplyBegin, Exit, DefaultAppears, kernel, resetter, vars
    <3>. QED
      BY <2>3, <3>1
  <2>. QED
    BY <2>4, <2>5, <2>6, <2>7, <2>8, <2>9, <2>10, <2>11, <2>12, <2>13
       DEF SerialNext, ResetStep
<1>. QED
  BY <1>1, <1>4, RefineAlways, PTL DEF SerialSpec, Transactional, T!TSpec
=============================================================================
