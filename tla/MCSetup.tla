------------------------------- MODULE MCSetup -------------------------------
(***************************************************************************)
(* Four addresses in two networks, a WAN, two LAN interfaces that share a  *)
(* network, and a container bridge; a name with an answer in the upper     *)
(* network.                                                                *)
(***************************************************************************)
EXTENDS Setup

CONSTANTS wan, eth1, eth2, docker, srv, web, gw

MCAddr == 0..3
MCDst == {{0}, {1}, {2}, {3}, {0, 1}, {2, 3}, MCAddr}
MCDev == {wan, eth1, eth2, docker}
MCTable == {52000}
MCPriority == {12000}
MCKind == [i \in MCDev |-> IF i = docker THEN "Virtual" ELSE "plain"]

At(nets, gateway, neighbors) == [nets |-> nets, gateway |-> gateway, neighbors |-> neighbors]
MCAttached ==
  [i \in MCDev |-> CASE i = eth1 -> At(<<{0, 1}>>, <<0>>, <<0, 1>>)
                     [] i = eth2 -> At(<<{2, 3}, {0, 1}>>, <<>>, <<2>>)
                     [] OTHER    -> At(<<{2, 3}>>, <<>>, <<>>)]

\* A file with a target that is detected too and a blacklist, and one that is
\* in hybrid mode.
ByHand ==
  [DefaultConfig EXCEPT
    !.wan = wan, !.lan_interfaces = <<eth2>>, !.blacklist = {{3}},
    !.targets = <<[net |-> {1}, bare |-> FALSE, port |-> NoPort, via |-> <<eth2>>,
                   fallback |-> "drop"]>>]
Hybrid == [ByHand EXCEPT !.manual = FALSE]

\* A complete .env, one that moves to another interface and blacklists what
\* the name answers, and one that only adds a name and an answer.
Complete ==
  [prefixes |-> <<[net |-> {0}, port |-> NoPort], [net |-> {0}, port |-> web]>>,
   hosts |-> <<[domain |-> srv, port |-> web]>>, domains |-> <<>>,
   records |-> (srv :> <<2>>), blacklist |-> {{1}},
   lan |-> <<eth2, eth1>>, wan |-> wan, fallback |-> "drop"]
Moved == [Complete EXCEPT !.lan = <<eth1>>, !.blacklist = {{2, 3}}, !.hosts = <<>>]
Partial == [Complete EXCEPT !.prefixes = <<>>, !.hosts = <<>>, !.domains = <<srv>>,
                            !.lan = <<>>, !.wan = NoDev, !.blacklist = {}]

MCFiles == {ByHand, Hybrid}
MCFilesBroken == MCFiles \cup {Malformed}
MCEnvs == {Complete, Moved, Partial}
=============================================================================
