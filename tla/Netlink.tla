------------------------------ MODULE Netlink ------------------------------
(***************************************************************************)
(* The part of the kernel's routing state that reverse-tool programs, and  *)
(* what each command of crates/reverse-linux/src/netlink.rs does to it.    *)
(*                                                                         *)
(* A forwarding table is a set of entries.  `ip route replace` keys an     *)
(* entry by table, destination and metric; `ip route del` takes the        *)
(* matching entry of the lowest metric.  add_route() passes no metric,     *)
(* device or gateway for an unreachable route, so the kernel files it      *)
(* under metric 0, beside (and in front of) a unicast route to the same    *)
(* destination.                                                            *)
(*                                                                         *)
(* Simplifications: destinations are compared, never matched (overlapping  *)
(* prefixes are the business of module Policy); IPv4 only; no command here *)
(* creates a Blackhole route, so that route type is left out.              *)
(***************************************************************************)
EXTENDS Naturals

CONSTANTS
  Dst,       \* destination prefixes
  Dev,       \* network interfaces
  Gateway,   \* next hops
  Table,     \* routing table numbers other than main
  Priority,  \* RPDB rule priorities ahead of main
  NoDev,     \* the empty output_interface of an unreachable route
  NoGateway  \* gateway: None

ASSUME NoDevAssumption == NoDev \notin Dev
ASSUME NoGatewayAssumption == NoGateway \notin Gateway

Metric == {0, 1, 50, 100}

Route == [destination      : Dst,
          output_interface : Dev \cup {NoDev},
          gateway          : Gateway \cup {NoGateway},
          table            : Table,
          metric           : Metric,
          route_type       : {"Unicast", "Unreachable"}]

RpdbRule == [priority : Priority, table : Table]

-----------------------------------------------------------------------------
(* Routes of the isolated tables *)

\* The entry the kernel holds after add_route(r): only a unicast route is
\* sent with its device, gateway and metric.
Installed(r) ==
  IF r.route_type = "Unreachable"
  THEN [destination |-> r.destination, output_interface |-> NoDev, gateway |-> NoGateway,
        table |-> r.table, metric |-> 0, route_type |-> "Unreachable"]
  ELSE r

SameKey(e, f) ==
  /\ e.table = f.table
  /\ e.destination = f.destination
  /\ e.metric = f.metric

\* add_route(): `ip route replace`.
AddRoute(fib, r) ==
  {e \in fib : ~SameKey(e, Installed(r))} \cup {Installed(r)}

\* Mutant: the deletion names no device.
Deletable_AnyDevice(fib, r) ==
  {e \in fib :
     /\ e.table = r.table
     /\ e.destination = r.destination
     /\ r.route_type = "Unreachable" => e.route_type = "Unreachable"}

\* The entries `ip route del` of delete_route(r) may take: the metric and the
\* gateway of r are not part of the command.
Deletable(fib, r) ==
  {e \in fib :
     /\ e.table = r.table
     /\ e.destination = r.destination
     /\ IF r.route_type = "Unreachable"
        THEN e.route_type = "Unreachable"
        ELSE r.output_interface # NoDev => e.output_interface = r.output_interface}

\* delete_route(): takes the deletable entry of the lowest metric; "No such
\* process" (nothing deletable) is not an error.
DeleteRoute(fib, r) ==
  fib \ {e \in Deletable(fib, r) : \A f \in Deletable(fib, r) : e.metric <= f.metric}

FlushTable(fib, t) == {e \in fib : e.table # t}

\* What get_table_routes(t) shows the verification of a desired route: only
\* destination and type are compared.
Shows(fib, t, r) ==
  \E e \in fib : /\ e.table = t
                 /\ e.destination = r.destination
                 /\ e.route_type = r.route_type

\* A destination that some RPDB rule resolves in an isolated table never
\* reaches table main, hence never the WAN default route.
Covered(fib, rules, d) ==
  \E q \in rules : \E e \in fib : e.table = q.table /\ e.destination = d

-----------------------------------------------------------------------------
(* RPDB rules *)

\* ensure_rpdb_rule() adds the rule unless it is there; remove_rpdb_rule()
\* succeeds when it is not.
EnsureRules(rules, Q) == rules \cup Q
RemoveRules(rules, Q) == rules \ Q

-----------------------------------------------------------------------------
(* Default routes of table main: "dhcp" is the one the system installed,   *)
(* "m50" the copy with metric 50 that prioritize_wan_interface() adds.     *)

MainRoute == [dev : Dev, kind : {"dhcp", "m50"}]

HasDefaultRoute(main, d) == \E m \in main : m.dev = d

\* prioritize_wan_interface(): one metric 50 copy of each default route of
\* the interface that is not at metric 50 yet.
PrioritizeWan(main, d) ==
  main \cup {[dev |-> d, kind |-> "m50"] : m \in {n \in main : n.dev = d}}

RemoveDefaultRoutes(main, d) == {m \in main : m.dev # d}

\* restore_wan_interface() for each of a set of interfaces.
RestoreWan(main, D) == main \ [dev : D, kind : {"m50"}]
=============================================================================
