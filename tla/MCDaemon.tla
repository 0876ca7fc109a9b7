------------------------------ MODULE MCDaemon ------------------------------
(***************************************************************************)
(* Small instances of the daemon: four addresses in two networks, a WAN    *)
(* and two LAN interfaces, a name that answers with an address of the      *)
(* upper network.                                                          *)
(***************************************************************************)
EXTENDS Daemon

CONSTANTS wan, eth1, eth2, srv, gw

MCAddr == 0..3
MCDst == {{0}, {1}, {2}, {3}, {0, 1}, {2, 3}, MCAddr}
MCDev == {wan, eth1, eth2}
MCTable == {52000}
MCPriority == {12000}

To(net, via) == [net |-> net, bare |-> FALSE, via |-> via, fallback |-> "drop"]

\* Two nested targets with different interfaces, one that the name answers
\* too, one that the policy must refuse.
MCTargets ==
  {To({0}, <<eth1, eth2>>), To({0, 1}, <<eth2>>), To({2}, <<eth2>>),
   [To({1}, <<eth1>>) EXCEPT !.fallback = "wan"]}

Base == [targets |-> <<>>, lan_domains |-> <<>>, networks |-> <<>>,
         local_dns |-> [d \in {srv} |-> <<2>>], blacklist |-> {{3}},
         lan_interfaces |-> <<eth1, eth2>>]

LanDomain == [Base EXCEPT !.lan_domains = <<srv>>,
                          !.targets = <<To({0}, <<eth2, eth1>>)>>]
InNetwork(suffix) ==
  [Base EXCEPT !.networks = <<[names |-> {srv}, suffix |-> suffix,
                               interfaces |-> <<eth2, eth1>>]>>]
Wider == [InNetwork(FALSE) EXCEPT !.blacklist = {{2, 3}}]

MCConfigs == {LanDomain, InNetwork(FALSE), Wider}
MCSuffixes == {InNetwork(TRUE)}

\* Four more sets: three on which daemon_policy fails, one on which it would if
\* RoutedIsAllowed did not except the answers to names of networks (README.md).
MCBare == {[t EXCEPT !.bare = TRUE] : t \in MCTargets}
MCOutside == {[Wider EXCEPT !.lan_interfaces = <<eth1>>]}
MCWanAsLan == {[Base EXCEPT !.lan_interfaces = <<eth1, wan>>, !.blacklist = {},
                            !.targets = <<To({0}, <<wan>>)>>]}
MCTwoOwners == {[InNetwork(FALSE) EXCEPT !.targets = <<To({2}, <<eth1>>)>>]}
=============================================================================
