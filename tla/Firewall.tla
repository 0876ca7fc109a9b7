------------------------------ MODULE Firewall ------------------------------
(***************************************************************************)
(* crates/reverse-linux/src/firewall.rs: the egress policy of an interface *)
(* is a chain of its own, hooked into OUTPUT.  A new policy is written to  *)
(* the generation (A or B) that is not hooked, which is then hooked in     *)
(* front of the others; these are unhooked last.                           *)
(*                                                                         *)
(* The applier runs apply_family() for one interface after the other (the  *)
(* daemon's mutex); the cleaner is cleanup_all(), which takes no lock.     *)
(* Every command may fail, and the program may stop between any two.       *)
(*                                                                         *)
(* Simplifications: one address family (the two are programmed one after   *)
(* the other and share nothing); a chain holds its policy and which of the *)
(* four stages of rules it has, the rules of one stage being one command;  *)
(* the DHCP and ICMP rules, the same for every policy, are left out.       *)
(***************************************************************************)
EXTENDS Naturals, SequencesExt

CONSTANTS
  Iface, Dest, Policies,
  StemOf,    \* chain_name(): the stem of an interface's chain names
  NoChain,   \* the chain does not exist
  MayFail    \* the commands that may fail, and whether the program may "crash"

ASSUME PoliciesAssumption ==
  Policies \subseteq [allow : SUBSET Dest, block : SUBSET Dest]

ASSUME IfaceAssumption == Iface # {}

\* The constant part of the abstract guard: its packets.
Guard == INSTANCE EgressGuard WITH verdict <- 0, cleaning <- FALSE

Generation == {"", "_A", "_B"}
Stem == {StemOf[i] : i \in Iface}
Chain == Stem \X Generation

\* The rules of a chain, in the order in which they are appended and match.
Stage == {"block", "established", "allow", "drop"}
Program == <<"block", "established", "allow", "drop">>

ChainContent == [policy : Policies, rules : SUBSET Stage]
Whole(p) == [policy |-> p, rules |-> Stage]
Empty(p) == [policy |-> p, rules |-> {}]

ASSUME NoChainAssumption == NoChain \notin ChainContent

\* What an idle thread's variables hold; nothing reads them.
AnyIface == CHOOSE i \in Iface : TRUE
AnyPolicy == CHOOSE p \in Policies : TRUE
AnyChain == <<StemOf[AnyIface], "_A">>

VARIABLES
  chains,   \* RT_EGRESS chains: content, or NoChain
  hooks,    \* per interface, the chains OUTPUT jumps to, in order
  pc,       \* applier: next command of apply_family()
  target,   \*          the interface
  policy,   \*          the policy it installs
  gen,      \*          the generation it writes
  cpc,      \* cleaner: next command of cleanup_family()
  cur,      \*          the chain it is removing
  listed    \*          the chains it has listed and still has to remove

applier == <<pc, target, policy, gen>>
cleaner == <<cpc, cur, listed>>
vars == <<chains, hooks, pc, target, policy, gen, cpc, cur, listed>>

-----------------------------------------------------------------------------
(* What the chains do to a packet *)

\* The verdict of one chain: the first of its rules that matches.
ChainVerdict(c, k) ==
  IF c = NoChain THEN "none"
  ELSE IF "block" \in c.rules /\ k.dest \in c.policy.block THEN "drop"
  ELSE IF "established" \in c.rules /\ k.established THEN "accept"
  ELSE IF "allow" \in c.rules /\ k.dest \in c.policy.allow THEN "accept"
  ELSE IF "drop" \in c.rules THEN "drop"
  ELSE "none"

\* The first hooked chain that decides; a packet no chain decides leaves.
Verdict(i, k) ==
  LET deciding == {n \in DOMAIN hooks[i] : ChainVerdict(chains[hooks[i][n]], k) # "none"}
  IN IF deciding = {} THEN "accept"
     ELSE ChainVerdict(chains[hooks[i][Min(deciding)]], k)

verdict == [i \in Iface |-> [k \in Guard!Packet |-> Verdict(i, k)]]
cleaning == cpc # "idle"

Hooked(i, c) == \E n \in DOMAIN hooks[i] : hooks[i][n] = c
HookedAnywhere(c) == \E i \in Iface : Hooked(i, c)

-----------------------------------------------------------------------------
(* apply_family() *)

Fails(command) == command \in MayFail

Return ==
  /\ pc' = "idle"
  /\ target' = AnyIface /\ policy' = AnyPolicy /\ gen' = AnyChain

Go(next) ==
  /\ pc' = next
  /\ UNCHANGED <<target, policy, gen>>

\* Mutant: the legacy chain serves as the second generation.
ChooseGeneration_Base(i, p) ==
  /\ pc = "idle"
  /\ pc' = "empty" /\ target' = i /\ policy' = p
  /\ gen' = <<StemOf[i], IF Hooked(i, <<StemOf[i], "_A">>) THEN "" ELSE "_A">>
  /\ UNCHANGED <<chains, hooks, cleaner>>

\* Read OUTPUT and choose the generation that is not hooked.
ChooseGeneration(i, p) ==
  /\ pc = "idle"
  /\ pc' = "empty" /\ target' = i /\ policy' = p
  /\ gen' = <<StemOf[i], IF Hooked(i, <<StemOf[i], "_A">>) THEN "_B" ELSE "_A">>
  /\ UNCHANGED <<chains, hooks, cleaner>>

\* ensure_empty_chain(): -N, whose failure is ignored, then -F.
EmptyChain ==
  /\ pc = "empty"
  /\ \/ /\ chains' = [chains EXCEPT ![gen] = Empty(policy)]
        /\ Go("block")
     \/ Fails("empty") /\ UNCHANGED chains /\ Return
  /\ UNCHANGED <<hooks, cleaner>>

\* -A: one stage after the other; it fails when the chain is gone.
AppendRule(n) ==
  /\ n \in DOMAIN Program /\ pc = Program[n]
  /\ \/ /\ chains[gen] # NoChain
        /\ chains' = [chains EXCEPT ![gen].rules = @ \cup {Program[n]}]
        /\ Go(IF n = Len(Program) THEN "hook" ELSE Program[n + 1])
     \/ /\ Fails("append") \/ chains[gen] = NoChain
        /\ UNCHANGED chains
        /\ Return
  /\ UNCHANGED <<hooks, cleaner>>

\* Mutant: the jump is inserted without looking for it first.
HookChain_NoCheck ==
  /\ pc = "hook"
  /\ \/ /\ chains[gen] # NoChain
        /\ hooks' = [hooks EXCEPT ![target] = <<gen>> \o @]
        /\ Go("unhook")
     \/ Fails("hook") /\ UNCHANGED hooks /\ Return
  /\ UNCHANGED <<chains, cleaner>>

\* Mutant: the old generations are unhooked before the new one is hooked.
HookChain_UnhookFirst ==
  /\ pc = "hook"
  /\ IF hooks[target] # <<>> /\ ~Hooked(target, gen)
     THEN hooks' = [hooks EXCEPT ![target] = <<>>] /\ Go("hook")
     ELSE /\ hooks' = [hooks EXCEPT ![target] = <<gen>>]
          /\ Go("unhook")
  /\ UNCHANGED <<chains, cleaner>>

\* -C, and -I at the head of OUTPUT when the hook is missing.
HookChain ==
  /\ pc = "hook"
  /\ \/ Hooked(target, gen) /\ UNCHANGED hooks /\ Go("unhook")
     \/ /\ ~Hooked(target, gen) /\ chains[gen] # NoChain
        /\ hooks' = [hooks EXCEPT ![target] = <<gen>> \o @]
        /\ Go("unhook")
     \/ /\ ~Hooked(target, gen) /\ (Fails("hook") \/ chains[gen] = NoChain)
        /\ UNCHANGED hooks /\ Return
  /\ UNCHANGED <<chains, cleaner>>

\* Mutant: every other RT_EGRESS chain is unhooked.
UnhookOld_Everywhere ==
  /\ pc = "unhook"
  /\ hooks' = [i \in Iface |-> SelectSeq(hooks[i], LAMBDA h : h = gen)]
  /\ Return
  /\ UNCHANGED <<chains, cleaner>>

\* One `iptables -D`, which removes the first matching jump, of
\* remove_output_hooks() for the generations other than the new one; these
\* are taken in a fixed order, which no verdict depends on.
UnhookOld ==
  /\ pc = "unhook"
  /\ \/ \E g \in Generation :
          LET c == <<StemOf[target], g>>
          IN /\ c # gen /\ Hooked(target, c)
             /\ \/ hooks' = [hooks EXCEPT ![target] = RemoveFirst(@, c)] /\ Go("unhook")
                \/ Fails("unhook") /\ UNCHANGED hooks /\ Return
     \/ /\ \A g \in Generation : <<StemOf[target], g>> # gen => ~Hooked(target, <<StemOf[target], g>>)
        /\ UNCHANGED hooks /\ Return
  /\ UNCHANGED <<chains, cleaner>>

-----------------------------------------------------------------------------
(* cleanup_family(): the chains that iptables-save lists, one by one *)

CleanBegin ==
  /\ cpc = "idle"
  /\ cpc' = "next" /\ listed' = {c \in Chain : chains[c] # NoChain}
  /\ UNCHANGED <<chains, hooks, applier, cur>>

CleanNext(c) ==
  /\ cpc = "next" /\ c \in listed
  /\ cpc' = "unhook" /\ cur' = c /\ listed' = listed \ {c}
  /\ UNCHANGED <<chains, hooks, applier>>

\* One `-D` after the other, until no interface jumps to the chain; failures
\* are ignored.
CleanUnhook ==
  /\ cpc = "unhook"
  /\ \/ \E i \in Iface : /\ Hooked(i, cur)
                        /\ hooks' = [hooks EXCEPT ![i] = RemoveFirst(@, cur)]
        /\ UNCHANGED cpc
     \/ /\ ~HookedAnywhere(cur) \/ Fails("clean")
        /\ cpc' = "flush" /\ UNCHANGED hooks
  /\ UNCHANGED <<chains, applier, cur, listed>>

CleanFlush ==
  /\ cpc = "flush"
  /\ \/ chains' = [chains EXCEPT ![cur] = IF @ = NoChain THEN @ ELSE Empty(AnyPolicy)]
     \/ Fails("clean") /\ UNCHANGED chains
  /\ cpc' = "delete"
  /\ UNCHANGED <<hooks, applier, cur, listed>>

\* -X refuses a chain that is hooked or holds rules.
CleanDelete ==
  /\ cpc = "delete"
  /\ \/ IF chains[cur] # NoChain /\ ~HookedAnywhere(cur) /\ chains[cur].rules = {}
        THEN chains' = [chains EXCEPT ![cur] = NoChain]
        ELSE UNCHANGED chains
     \/ Fails("clean") /\ UNCHANGED chains
  /\ cpc' = "next"
  /\ UNCHANGED <<hooks, applier, cur, listed>>

CleanEnd ==
  /\ cpc = "next" /\ listed = {}
  /\ cpc' = "idle" /\ cur' = AnyChain
  /\ UNCHANGED <<chains, hooks, applier, listed>>

\* The program dies and is started again.
Crash ==
  /\ Fails("crash")
  /\ pc # "idle" \/ cpc # "idle"
  /\ Return
  /\ cpc' = "idle" /\ cur' = AnyChain /\ listed' = {}
  /\ UNCHANGED <<chains, hooks>>

-----------------------------------------------------------------------------
\* A host that was upgraded may still have the chain of the single-generation
\* version, complete and hooked.
Init ==
  /\ \E legacy \in SUBSET Iface, p \in Policies :
       /\ chains = [c \in Chain |-> IF \E i \in legacy : c = <<StemOf[i], "">>
                                    THEN Whole(p) ELSE NoChain]
       /\ hooks = [i \in Iface |-> IF i \in legacy THEN << <<StemOf[i], "">> >> ELSE <<>>]
  /\ pc = "idle" /\ target = AnyIface /\ policy = AnyPolicy /\ gen = AnyChain
  /\ cpc = "idle" /\ cur = AnyChain /\ listed = {}

ApplyStep ==
  \/ EmptyChain \/ HookChain \/ UnhookOld
  \/ \E n \in DOMAIN Program : AppendRule(n)

CleanStep ==
  \/ CleanUnhook \/ CleanFlush \/ CleanDelete \/ CleanEnd
  \/ \E c \in listed : CleanNext(c)

Next ==
  \/ \E i \in Iface, p \in Policies : ChooseGeneration(i, p)
  \/ ApplyStep
  \/ CleanBegin
  \/ CleanStep
  \/ Crash

Spec == Init /\ [][Next]_vars /\ WF_vars(ApplyStep) /\ WF_vars(CleanStep)

\* No cleanup overlaps an apply.
SerialNext == Next /\ (pc' = "idle" \/ cpc' = "idle")
SerialSpec == Init /\ [][SerialNext]_vars /\ WF_vars(ApplyStep) /\ WF_vars(CleanStep)

-----------------------------------------------------------------------------
(* Properties *)

\* The types of the state, and that a jump leads to a chain that exists
\* and only the two generations of the interface are ever written.
TypeOK ==
  /\ chains \in [Chain -> ChainContent \cup {NoChain}]
  /\ hooks \in [Iface -> Seq(Chain)]
  /\ pc \in Stage \cup {"idle", "empty", "hook", "unhook"}
  /\ target \in Iface /\ policy \in Policies /\ gen \in Chain
  /\ pc # "idle" => gen \in {StemOf[target]} \X {"_A", "_B"}
  /\ cpc \in {"idle", "next", "unhook", "flush", "delete"}
  /\ cur \in Chain /\ listed \subseteq Chain
  /\ \A i \in Iface, c \in Chain : Hooked(i, c) => chains[c] # NoChain

\* However often commands fail and the program dies, jumps do not pile up:
\* each chain is hooked at most once per interface (the -C of firewall.rs:181).
HookedOnce ==
  \A i \in Iface : \A m, n \in DOMAIN hooks[i] : hooks[i][m] = hooks[i][n] => m = n

\* The chains implement the abstract guard: at every moment each interface
\* enforces one whole policy, changes at once, and only a cleanup clears it.
AtomicGuard == INSTANCE EgressGuard
Atomic == AtomicGuard!Spec

\* Destinations that no policy allows stay closed while policies come and go,
\* whatever command failed before: a step of an apply never turns a drop of a
\* new connection into an accept, unless it flushes a hooked chain
\* (firewall.rs:40-42 and 195-197, "only after the new DROP rule is live").
StaysClosed ==
  [][(pc # "idle" /\ cpc = "idle" /\ (pc = "empty" => ~HookedAnywhere(gen))) =>
       \A i \in Iface, k \in Guard!Packet :
         (/\ \A p \in Policies : k.dest \notin p.allow
          /\ ~k.established
          /\ Verdict(i, k) = "drop")
         => Verdict(i, k)' = "drop"]_vars

\* A policy change on one interface leaves the others alone (firewall.rs:246,
\* a chain name "retains the complete interface name").
OthersUntouched ==
  [][pc # "idle" =>
       \A i \in Iface \ {target}, k \in Guard!Packet :
         cpc = "idle" => Verdict(i, k)' = Verdict(i, k)]_vars

\* The applier never empties a chain that is hooked (firewall.rs:108-110).
NoFlushInPlace ==
  [][pc = "empty" /\ pc' = "block" => ~HookedAnywhere(gen)]_vars
=============================================================================
