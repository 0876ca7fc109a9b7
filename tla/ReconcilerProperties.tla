------------------------ MODULE ReconcilerProperties ------------------------
(***************************************************************************)
(* What the reconciler promises.  Each property names the comment or the   *)
(* code it is about; README.md says under which failures it holds.         *)
(***************************************************************************)
EXTENDS Reconciler

Phase == {"idle", "guard", "add", "del", "prio", "lan", "commit", "undo", "redo"}
ResetPhase == {"idle", "guards", "routes", "clear", "rule0", "flush", "restore"}

\* The phases of reconcile() that follow apply_firewall(), rollback included.
Mutating == Phase \ {"idle", "guard"}
Forward == Phase \ {"idle", "undo", "redo"}

\* A record has been saved and no reset is under way.
InForce == mode = "running" /\ rpc = "idle" /\ file \notin {Absent, Corrupt}

Settled == mode = "running" /\ rpc = "idle" /\ apc = "idle"

\* The types of the state, and that an applier at work has a desired state.
TypeOK ==
  /\ fib \subseteq Route
  /\ rules \subseteq RpdbRule
  /\ main \subseteq MainRoute
  /\ guard \in [Dev -> Policy \cup {NoGuard}]
  /\ file \in RuntimeState \cup {Absent, Corrupt}
  /\ mode \in {"off", "booting", "running", "exiting", "crashed"}
  /\ apc \in Phase
  /\ apc # "idle" => want \in Desireds
  /\ old \in RuntimeState
  /\ devs \subseteq Dev
  /\ apc \in {"add", "undo"} => idx \subseteq DOMAIN want.routes
  /\ apc \in {"del", "redo"} => idx \subseteq DOMAIN old.routes_owned
  /\ apc \notin {"add", "undo", "del", "redo"} => idx = {}
  /\ rpc \in ResetPhase
  /\ rold \in RuntimeState
  /\ rdevs \subseteq Dev
  /\ ridx \subseteq DOMAIN rold.routes_owned

-----------------------------------------------------------------------------
(* The egress guard *)

\* While routes and rules change, and through a rollback, every interface of
\* the desired state enforces the new firewall policy (reconcile.rs:83-86:
\* the guard is installed first and deliberately stays in place).
GuardLive ==
  apc \in Mutating => \A i \in want.ifs : guard[i] = want.policy

\* Once a policy is in force, each interface it guards stays guarded: no
\* apply, failed or not, exposes it (only a reset may).
RecordGuarded ==
  InForce => \A i \in file.ifs : guard[i] # NoGuard

-----------------------------------------------------------------------------
(* The isolated table *)

\* A step of reconcile() that goes forward never opens a hole: a LAN
\* destination of the desired state that resolves in the isolated table
\* before the step resolves there after it (policy.rs:433-435, "never leave a
\* FIB vacuum").
ForwardStepsKeepCover ==
  [][\A r \in (IF apc \in Forward THEN Elements(want.routes) ELSE {}) :
       (/\ applier' # applier
        /\ r.output_interface # want.wan
        /\ Covered(fib, rules, r.destination))
       => Covered(fib', rules', r.destination)]_vars

\* A lab destination of the policy in force never falls through to table
\* main, hence to the WAN, while no apply is in progress (README.md:37).
LabTargetsCovered ==
  (Settled /\ InForce) =>
    \A r \in Elements(file.routes_owned) : Covered(fib, rules, r.destination)

\* When a state is saved, each of its destinations has an entry of the type it
\* asks for in the table it asks for, and a rule looks that table up, whatever
\* an earlier rollback or reset has left there (the verification of
\* reconcile.rs:161-174 does not compare interfaces).
CommitVerified ==
  [][(file' # file /\ file' \notin {Absent, Corrupt}) =>
       \A r \in Elements(file'.routes_owned) :
         \E e \in fib' : /\ e.destination = r.destination
                         /\ e.table = r.table
                         /\ e.route_type = r.route_type
                         /\ \E q \in rules' : q.table = r.table]_vars

\* reconcile() is atomic on the isolated table: once it returns, the table
\* holds the recorded routes and no other, whether it committed or rolled back.
KernelMatchesRecord ==
  (Settled /\ file # Corrupt) =>
    fib = {Installed(r) : r \in Elements(Load(file).routes_owned)}

\* An apply is not rolled back unless a command failed: whenever the routes
\* are verified, the table that is listed shows every desired one
\* (reconcile.rs:97, "Rollback on failure!").
NoNeedlessRollback ==
  (apc = "lan" /\ devs = {}) =>
    \A r \in Elements(want.routes) : Shows(fib, old.owner.table, r)

-----------------------------------------------------------------------------
(* The contract *)

\* What a recorded state stands for.
Contract(s) == [entries |-> {Installed(r) : r \in Elements(s.routes_owned)},
                ifs |-> s.ifs, policy |-> s.policy]

\* The record that is in force, also while a reset takes it down.
Recorded == IF rpc \in {"idle", "guards"} THEN Load(file) ELSE rold

\* The entries that some RPDB rule looks up.
InEffect == {e \in fib : \E q \in rules : q.table = e.table}

\* reconcile() and reset() implement the transactions of PolicyTransaction:
\* whatever fails, what returns to the caller is the whole new policy or the
\* whole old one, and what an apply puts in force is enforced by the
\* programs that were put in place for it.
T == INSTANCE PolicyTransaction WITH
       Device <- Dev,
       Contracts <- {Contract(Committed(d)) : d \in Desireds},
       Nothing <- Contract(DefaultState),
       Unguarded <- NoGuard,
       contract <- Contract(Recorded),
       entries <- IF apc = "idle" /\ rpc = "idle" THEN InEffect
                  ELSE Contract(Recorded).entries,
       program <- guard,
       ending <- rpc # "idle"

Transactional == T!TSpec

-----------------------------------------------------------------------------
(* Reset *)

Clean ==
  /\ fib = {} /\ rules = {} /\ file = Absent
  /\ \A i \in Dev : guard[i] = NoGuard

\* When the daemon has exited, nothing of it is left in the kernel
\* (daemon.rs:255, "clean up all custom routing tables, rules, and iptables
\* chains").
CleanExit == mode = "off" => Clean

\* A daemon that serves requests and has recorded no state has left no route
\* behind (reconcile.rs:290-292).
NoOrphanRoutes == (Settled /\ file = Absent) => fib = {}

-----------------------------------------------------------------------------
(* Progress *)

\* Every apply and every reset comes to an end, whatever fails.
AlwaysSettles == []<>(apc = "idle") /\ []<>(rpc = "idle")
=============================================================================
