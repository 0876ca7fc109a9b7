---------------------------- MODULE EgressGuard ----------------------------
(***************************************************************************)
(* What the egress firewall of an interface promises, whatever the chains  *)
(* and hooks that implement it: at every moment it enforces one whole      *)
(* policy, or none, a change of policy takes effect at once, and only a    *)
(* cleanup takes a guard away.                                             *)
(***************************************************************************)
CONSTANTS
  Iface,     \* LAN interfaces
  Dest,      \* destinations
  Policies   \* egress policies: the destinations allowed and blacklisted

Packet == [dest : Dest, established : BOOLEAN]

\* Blacklisted destinations are dropped even for established connections
\* (firewall.rs:18-20); everything that is not allowed is dropped.
Enforce(p) ==
  [k \in Packet |->
     IF k.dest \notin p.block /\ (k.established \/ k.dest \in p.allow)
     THEN "accept" ELSE "drop"]

Unguarded == [k \in Packet |-> "accept"]

VARIABLES
  verdict,   \* per interface, what happens to each packet leaving by it
  cleaning   \* a cleanup is in progress

Init ==
  /\ verdict \in [Iface -> {Unguarded} \cup {Enforce(p) : p \in Policies}]
  /\ cleaning = FALSE

Install(i, p) ==
  /\ ~cleaning
  /\ verdict' = [verdict EXCEPT ![i] = Enforce(p)]
  /\ UNCHANGED cleaning

Clear(i) ==
  /\ cleaning
  /\ verdict' = [verdict EXCEPT ![i] = Unguarded]
  /\ UNCHANGED cleaning

BeginCleanup == ~cleaning /\ cleaning' = TRUE /\ UNCHANGED verdict

\* A cleanup ends when no interface is guarded.
EndCleanup ==
  /\ cleaning /\ verdict = [i \in Iface |-> Unguarded]
  /\ cleaning' = FALSE
  /\ UNCHANGED verdict

Next ==
  \/ BeginCleanup \/ EndCleanup
  \/ \E i \in Iface : Clear(i) \/ \E p \in Policies : Install(i, p)

Spec == Init /\ [][Next]_<<verdict, cleaning>>
=============================================================================
