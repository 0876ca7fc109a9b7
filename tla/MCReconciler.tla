---------------------------- MODULE MCReconciler ----------------------------
(***************************************************************************)
(* Small instances of the reconciler: a WAN interface and two LAN          *)
(* interfaces, a blacklisted destination, and one or two lab targets.      *)
(***************************************************************************)
EXTENDS ReconcilerProperties

CONSTANTS wan, eth1, eth2, bad, lab, lab2, gw1, gw2, pA, pB

MCDst == {bad, lab, lab2}
MCDev == {wan, eth1, eth2}
MCGateway == {gw1, gw2}
MCTable == {52000, 52001}
MCPriority == {12000}
MCPolicy == {NoPolicy, pA, pB}
MCRule0 == [priority |-> 12000, table |-> 52000]

Pinned(gw, t) ==
  [destination |-> bad, output_interface |-> wan, gateway |-> gw, table |-> t,
   metric |-> 1, route_type |-> "Unicast"]
Via(d, dev, m, t) ==
  [destination |-> d, output_interface |-> dev, gateway |-> NoGateway, table |-> t,
   metric |-> m, route_type |-> "Unicast"]
Refused(d, m, t) ==
  [destination |-> d, output_interface |-> NoDev, gateway |-> NoGateway, table |-> t,
   metric |-> m, route_type |-> "Unreachable"]

State(routes, ifs, p, t) ==
  [routes |-> routes, rule |-> [priority |-> 12000, table |-> t], wan |-> wan,
   ifs |-> ifs, policy |-> p]

\* One configuration under the three states of health of its interfaces.
Preferred == State(<<Pinned(gw1, 52000), Via(lab, eth1, 50, 52000)>>, {eth1, eth2}, pA, 52000)
Backup    == State(<<Pinned(gw1, 52000), Via(lab, eth2, 50, 52000)>>, {eth1, eth2}, pA, 52000)
Dropped   == State(<<Pinned(gw1, 52000), Refused(lab, 50, 52000)>>, {eth1, eth2}, pA, 52000)

\* Another configuration: the target moves to a second one on eth2 alone.
Edited    == State(<<Via(lab2, eth2, 50, 52000)>>, {eth2}, pB, 52000)

\* The first configuration with another firewall policy.
Tightened == State(<<Pinned(gw1, 52000), Via(lab, eth1, 50, 52000)>>, {eth1, eth2}, pB, 52000)

\* The WAN has a new gateway.
NewGateway == State(<<Pinned(gw2, 52000), Via(lab, eth1, 50, 52000)>>, {eth1, eth2}, pA, 52000)

\* Another table_id.
OtherTable == State(<<Via(lab, eth1, 50, 52001)>>, {eth1}, pA, 52001)

MCFailover == {Preferred, Backup, Dropped}
MCEdits == {Preferred, Backup, Dropped, Edited, Tightened}
MCAll == {Preferred, Backup, Dropped, Edited}
MCPair == {Preferred, Dropped}
MCGateways == {Preferred, NewGateway}

\* One more set, on which recon_failures fails (README.md).
MCOther == {OtherTable}

\* Failures that reconcile() answers with an error before it has changed a
\* route, or with a rollback; then also those it ignores or returns half-way.
Handled == {"guard", "rule", "add", "prio", "lan", "show"}
AllFailures == Handled \cup {"del", "delrule", "spawn", "save", "undo", "redo", "reset"}
EveryFailure == AllFailures \cup {"clear"}
=============================================================================
