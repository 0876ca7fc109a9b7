----------------------------- MODULE MCFirewall -----------------------------
(***************************************************************************)
(* Small instances of the firewall: one or two interfaces, two policies    *)
(* that disagree on every destination they name, and a destination that    *)
(* none of them allows.                                                    *)
(***************************************************************************)
EXTENDS Firewall

CONSTANTS eth0, eth1, d1, d2, ai

MCDest == {d1, d2, ai}

P0 == [allow |-> {d1}, block |-> {}]
P1 == [allow |-> {d2}, block |-> {ai}]

MCPolicies == {P0, P1}

\* Two interface names whose chain names differ, and two (say eth0.1 and
\* eth0-1) that chain_name() maps to one: OthersUntouched fails for those.
OwnStem == [i \in Iface |-> i]
SharedStem == [i \in Iface |-> eth0]

\* Failures after which at most one generation is hooked (an append that
\* fails leaves an unhooked chain, as a hook that fails does), and every
\* failure there is, crashes included.
BeforeHook == {"empty", "hook"}
EveryFailure == BeforeHook \cup {"append", "unhook", "clean", "crash"}
=============================================================================
