-------------------------- MODULE PolicyTransaction --------------------------
(***************************************************************************)
(* What reconcile() and reset() of crates/reverse-app/src/reconcile.rs     *)
(* promise between them, without a kernel, commands or failures: the host  *)
(* has one contract in force, an apply replaces it in one step or leaves   *)
(* it alone, and a reset ends it in one step.                              *)
(*                                                                         *)
(* The firewall is not part of the atomic step.  The programs of a new     *)
(* contract are installed first, one interface at a time, and stay when    *)
(* the apply fails (fail closed, reconcile.rs:83-86), so that the contract *)
(* says which programs were in place when it came into force.              *)
(***************************************************************************)
CONSTANTS
  Device,     \* network interfaces
  Contracts,  \* records of entries, guarded interfaces and their program
  Nothing,    \* the contract of a host without policy
  Unguarded   \* no program on an interface

VARIABLES
  contract,   \* the contract in force
  entries,    \* the routes looked up ahead of table main
  program,    \* per interface, the firewall program in force
  ending      \* a reset is under way

tvars == <<contract, entries, program, ending>>

TInit ==
  /\ contract = Nothing /\ entries = {}
  /\ program = [i \in Device |-> Unguarded]
  /\ ending = FALSE

\* An apply, successful in the end or not, puts one interface under guard.
Protect(c, i) ==
  /\ ~ending /\ i \in c.ifs
  /\ program' = [program EXCEPT ![i] = c.policy]
  /\ UNCHANGED <<contract, entries, ending>>

\* A successful apply: the guards are up, the entries are exchanged.
Commit(c) ==
  /\ ~ending
  /\ \A i \in c.ifs : program[i] = c.policy
  /\ contract' = c /\ entries' = c.entries
  /\ UNCHANGED <<program, ending>>

BeginEnd ==
  /\ ~ending /\ ending' = TRUE
  /\ UNCHANGED <<contract, entries, program>>

Unprotect(i) ==
  /\ ending
  /\ program' = [program EXCEPT ![i] = Unguarded]
  /\ UNCHANGED <<contract, entries, ending>>

\* A reset returns when nothing is left.
End ==
  /\ ending /\ ending' = FALSE
  /\ \A i \in Device : program[i] = Unguarded
  /\ contract' = Nothing /\ entries' = {}
  /\ UNCHANGED program

TNext ==
  \/ \E c \in Contracts : Commit(c) \/ \E i \in Device : Protect(c, i)
  \/ BeginEnd \/ End
  \/ \E i \in Device : Unprotect(i)

TSpec == TInit /\ [][TNext]_tvars
=============================================================================
