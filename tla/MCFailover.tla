------------------------------ MODULE MCFailover ------------------------------
(***************************************************************************)
(* A WAN and two LAN interfaces; a target that prefers one of them and a   *)
(* LAN domain that prefers the other.                                      *)
(***************************************************************************)
EXTENDS FailoverProperties

CONSTANTS wan, usb, eth1, eth2, tgt, dom

\* Both interfaces are probed; the domain shares them.
Shared == [via |-> (tgt :> <<eth1, eth2>>) @@ (dom :> <<eth2, eth1>>),
           targets |-> {tgt}, networks |-> {}, wan |-> wan, accepted |-> TRUE]

\* Only the interface of the target is probed.
Partial == [Shared EXCEPT !.via = (tgt :> <<eth1>>) @@ (dom :> <<eth2, eth1>>)]

\* A target that validation refuses has been added.
Rejected == [Shared EXCEPT !.accepted = FALSE]

\* Another WAN.
Moved == [Shared EXCEPT !.wan = usb]

MCConfigs == {Shared, Rejected}
MCWans == {Shared, Moved}
MCPartial == {Shared, Partial}
=============================================================================
