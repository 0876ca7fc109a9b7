--------------------------- MODULE FirewallProofs ---------------------------
(***************************************************************************)
(* Proofs about Firewall, for every set of interfaces and policies.  The   *)
(* types and the single hook hold of every behaviour, cleanups that        *)
(* overlap an apply included, whatever fails; StaysClosed needs that no    *)
(* cleanup overlaps an apply; the refinement of EgressGuard also needs     *)
(* that interfaces do not share chain names and that no unhook or cleanup  *)
(* fails and no crash leaves two generations hooked.                       *)
(***************************************************************************)
EXTENDS Firewall, Positions

-----------------------------------------------------------------------------
(* Jumps *)

\* A jump put in front of OUTPUT is the only one that is new.
LEMMA JumpInserted ==
  ASSUME hooks \in [Iface -> Seq(Chain)], NEW i \in Iface, NEW c \in Chain,
         hooks' = [hooks EXCEPT ![i] = <<c>> \o @]
  PROVE  /\ hooks' \in [Iface -> Seq(Chain)]
         /\ Len(hooks'[i]) = Len(hooks[i]) + 1 /\ hooks'[i][1] = c
         /\ \A j \in Iface, d \in Chain : Hooked(j, d)' <=> Hooked(j, d) \/ (j = i /\ d = c)
<1>. DEFINE s == hooks[i]
            t == <<c>> \o s
<1>1. s \in Seq(Chain) /\ hooks'[i] = t
  OBVIOUS
<1>2. /\ t \in Seq(Chain) /\ Len(t) = Len(s) + 1
      /\ DOMAIN t = 1 .. Len(s) + 1
      /\ t[1] = c
      /\ \A n \in DOMAIN s : t[n + 1] = s[n]
      /\ \A m \in DOMAIN t : m # 1 => m - 1 \in DOMAIN s /\ t[m] = s[m - 1]
  BY <1>1, PrependProperties
<1>3. \A n \in DOMAIN s : n + 1 \in DOMAIN t
  BY <1>1, <1>2
<1>4. 1 \in DOMAIN t
  BY <1>1, <1>2
<1>. HIDE DEF t
<1>5. hooks' \in [Iface -> Seq(Chain)]
  BY <1>2 DEF t
<1>6. ASSUME NEW j \in Iface, NEW d \in Chain
      PROVE  Hooked(j, d)' <=> Hooked(j, d) \/ (j = i /\ d = c)
  <2>1. CASE j # i
    BY <2>1 DEF Hooked
  <2>2. CASE j = i
    <3>1. Hooked(i, d) <=> \E n \in DOMAIN s : s[n] = d
      BY DEF Hooked
    <3>2. Hooked(i, d)' <=> \E n \in DOMAIN t : t[n] = d
      BY <1>1 DEF Hooked
    <3>. HIDE DEF s
    <3>3. (\E n \in DOMAIN t : t[n] = d) <=> (\E n \in DOMAIN s : s[n] = d) \/ d = c
      <4>1. ASSUME NEW n \in DOMAIN t, t[n] = d PROVE (\E m \in DOMAIN s : s[m] = d) \/ d = c
        BY <1>2, <4>1
      <4>2. ASSUME NEW n \in DOMAIN s, s[n] = d PROVE \E m \in DOMAIN t : t[m] = d
        BY <1>2, <1>3, <4>2
      <4>. QED
        BY <1>2, <1>4, <4>1, <4>2
    <3>. QED
      BY <2>2, <3>1, <3>2, <3>3
  <2>. QED
    BY <2>1, <2>2
<1>. QED
  BY <1>1, <1>2, <1>5, <1>6

\* Removing a jump brings none and takes no jump to another chain away.
LEMMA JumpRemoved ==
  ASSUME hooks \in [Iface -> Seq(Chain)], NEW i \in Iface, NEW c \in Chain, Hooked(i, c),
         hooks' = [hooks EXCEPT ![i] = RemoveFirst(@, c)]
  PROVE  /\ hooks' \in [Iface -> Seq(Chain)]
         /\ Len(hooks'[i]) = Len(hooks[i]) - 1
         /\ hooks[i][1] # c => hooks'[i] # <<>> /\ hooks'[i][1] = hooks[i][1]
         /\ \A j \in Iface, d \in Chain : Hooked(j, d)' => Hooked(j, d)
         /\ \A j \in Iface, d \in Chain : Hooked(j, d) /\ (j # i \/ d # c) => Hooked(j, d)'
<1>. DEFINE s == hooks[i]
            t == RemoveFirst(s, c)
<1>1. s \in Seq(Chain) /\ hooks'[i] = t /\ \E n \in DOMAIN s : s[n] = c
  BY DEF Hooked
<1>2. /\ t \in Seq(Chain) /\ Len(t) = Len(s) - 1
      /\ s[1] # c => t # <<>> /\ t[1] = s[1]
      /\ \A m \in DOMAIN t : \E n \in DOMAIN s : t[m] = s[n]
      /\ \A n \in DOMAIN s : s[n] # c => \E m \in DOMAIN t : t[m] = s[n]
  BY <1>1, RemoveFirstProperties
<1>. HIDE DEF t
<1>3. hooks' \in [Iface -> Seq(Chain)]
  BY <1>2 DEF t
<1>4. ASSUME NEW j \in Iface, NEW d \in Chain
      PROVE  /\ Hooked(j, d)' => Hooked(j, d)
             /\ Hooked(j, d) /\ (j # i \/ d # c) => Hooked(j, d)'
  <2>1. CASE j # i
    BY <2>1 DEF Hooked
  <2>2. CASE j = i
    <3>1. Hooked(i, d) <=> \E n \in DOMAIN s : s[n] = d
      BY DEF Hooked
    <3>2. Hooked(i, d)' <=> \E n \in DOMAIN t : t[n] = d
      BY <1>1 DEF Hooked
    <3>. HIDE DEF s
    <3>. QED
      BY <1>2, <2>2, <3>1, <3>2
  <2>. QED
    BY <2>1, <2>2
<1>. QED
  BY <1>1, <1>2, <1>3, <1>4

-----------------------------------------------------------------------------
(* Types *)

\* A jump leads to a chain that exists.
NoDangling == \A i \in Iface, c \in Chain : Hooked(i, c) => chains[c] # NoChain

LEMMA ConstantTypes ==
  /\ AnyIface \in Iface /\ AnyChain \in Chain
  /\ \A i \in Iface, g \in Generation : <<StemOf[i], g>> \in Chain
  /\ \A p \in Policies : /\ Whole(p) \in ChainContent /\ Whole(p) # NoChain
                         /\ Empty(p) \in ChainContent /\ Empty(p) # NoChain
  /\ \A c \in ChainContent, r \in Stage : [c EXCEPT !.rules = @ \cup {r}] \in ChainContent
  /\ \A n \in DOMAIN Program : Program[n] \in Stage
  /\ DOMAIN Program = 1 .. 4 /\ Len(Program) = 4
<1>1. AnyIface \in Iface
  BY IfaceAssumption DEF AnyIface
<1>2. \A i \in Iface, g \in Generation : <<StemOf[i], g>> \in Chain
  BY DEF Chain, Stem
<1>3. AnyChain \in Chain
  BY <1>1, <1>2 DEF AnyChain, Generation
<1>4. \A p \in Policies : Whole(p) \in ChainContent /\ Empty(p) \in ChainContent
  BY DEF Whole, Empty, ChainContent
<1>5. \A c \in ChainContent, r \in Stage : [c EXCEPT !.rules = @ \cup {r}] \in ChainContent
  BY DEF ChainContent
<1>6. \A n \in DOMAIN Program : Program[n] \in Stage
  BY DEF Program, Stage
<1>7. DOMAIN Program = 1 .. 4 /\ Len(Program) = 4
  BY DEF Program
<1>. QED
  BY <1>1, <1>2, <1>3, <1>4, <1>5, <1>6, <1>7, NoChainAssumption

\* At the start only legacy chains are hooked, each by its own interface.
LEMMA InitJumps ==
  ASSUME Init
  PROVE  \E legacy \in SUBSET Iface, p \in Policies :
           /\ chains = [c \in Chain |-> IF \E i \in legacy : c = <<StemOf[i], "">>
                                        THEN Whole(p) ELSE NoChain]
           /\ hooks \in [Iface -> Seq(Chain)]
           /\ \A i \in Iface : /\ Len(hooks[i]) \in {0, 1}
                               /\ \A c \in Chain : Hooked(i, c) => i \in legacy /\ c = <<StemOf[i], "">>
<1>1. PICK legacy \in SUBSET Iface, p \in Policies :
        /\ chains = [c \in Chain |-> IF \E i \in legacy : c = <<StemOf[i], "">>
                                     THEN Whole(p) ELSE NoChain]
        /\ hooks = [i \in Iface |-> IF i \in legacy THEN << <<StemOf[i], "">> >> ELSE <<>>]
  BY DEF Init
<1>2. /\ <<>> \in Seq(Chain) /\ Len(<<>>) = 0 /\ DOMAIN <<>> = {}
      /\ \A c \in Chain : /\ <<c>> \in Seq(Chain) /\ Len(<<c>>) = 1
                          /\ DOMAIN <<c>> = {1} /\ <<c>>[1] = c
  OBVIOUS
<1>3. ASSUME NEW i \in Iface
      PROVE  /\ hooks[i] \in Seq(Chain) /\ Len(hooks[i]) \in {0, 1}
             /\ \A c \in Chain : Hooked(i, c) => i \in legacy /\ c = <<StemOf[i], "">>
  <2>1. CASE i \in legacy
    <3>1. <<StemOf[i], "">> \in Chain
      BY ConstantTypes DEF Generation
    <3>2. hooks[i] = << <<StemOf[i], "">> >>
      BY <1>1, <2>1
    <3>3. \A c : Hooked(i, c) => c = <<StemOf[i], "">>
      BY <1>2, <3>1, <3>2 DEF Hooked
    <3>. QED
      BY <1>2, <2>1, <3>1, <3>2, <3>3
  <2>2. CASE i \notin legacy
    <3>1. hooks[i] = <<>>
      BY <1>1, <2>2
    <3>2. \A c : ~Hooked(i, c)
      BY <1>2, <3>1 DEF Hooked
    <3>. QED
      BY <1>2, <3>1, <3>2
  <2>. QED
    BY <2>1, <2>2
<1>4. hooks \in [Iface -> Seq(Chain)]
  BY <1>1, <1>3
<1>. QED
  BY <1>1, <1>3, <1>4

LEMMA InitTypeOK == Init => TypeOK
<1>. SUFFICES ASSUME Init PROVE TypeOK
  OBVIOUS
<1>1. PICK legacy \in SUBSET Iface, p \in Policies :
        /\ chains = [c \in Chain |-> IF \E i \in legacy : c = <<StemOf[i], "">>
                                     THEN Whole(p) ELSE NoChain]
        /\ hooks \in [Iface -> Seq(Chain)]
        /\ \A i \in Iface, c \in Chain : Hooked(i, c) => i \in legacy /\ c = <<StemOf[i], "">>
  BY InitJumps
<1>2. chains \in [Chain -> ChainContent \cup {NoChain}]
  BY <1>1, ConstantTypes
<1>3. ASSUME NEW i \in Iface, NEW c \in Chain, Hooked(i, c) PROVE chains[c] # NoChain
  BY <1>1, <1>3, ConstantTypes
<1>4. AnyPolicy \in Policies
  BY <1>1 DEF AnyPolicy
<1>. QED
  BY <1>1, <1>2, <1>3, <1>4, ConstantTypes DEF Init, TypeOK

\* What a step that leaves chains and jumps alone, or only fills or flushes a
\* chain, does to the jumps.
LEMMA SameJumps ==
  ASSUME UNCHANGED hooks
  PROVE  \A i, c : Hooked(i, c)' <=> Hooked(i, c)
BY DEF Hooked

LEMMA ApplierIdles ==
  ASSUME TypeOK, Return
  PROVE  pc' = "idle" /\ target' \in Iface /\ policy' \in Policies /\ gen' \in Chain
<1>1. AnyPolicy \in Policies
  BY DEF AnyPolicy, TypeOK
<1>. QED
  BY <1>1, ConstantTypes DEF Return

LEMMA ApplyTypes ==
  ASSUME TypeOK, ApplyStep
  PROVE  TypeOK'
<1>. USE DEF cleaner
<1>1. ASSUME EmptyChain PROVE TypeOK'
  <2>1. Empty(policy) \in ChainContent /\ Empty(policy) # NoChain
    BY ConstantTypes DEF TypeOK
  <2>2. CASE chains' = [chains EXCEPT ![gen] = Empty(policy)] /\ Go("block")
    BY <1>1, <2>1, <2>2, SameJumps DEF EmptyChain, TypeOK, Go, Stage
  <2>3. CASE UNCHANGED chains /\ Return
    BY <1>1, <2>3, SameJumps, ApplierIdles DEF EmptyChain, TypeOK
  <2>. QED
    BY <1>1, <2>2, <2>3 DEF EmptyChain
<1>2. ASSUME NEW n \in DOMAIN Program, AppendRule(n) PROVE TypeOK'
  <2>. DEFINE next == IF n = Len(Program) THEN "hook" ELSE Program[n + 1]
  <2>1. CASE /\ chains[gen] # NoChain
             /\ chains' = [chains EXCEPT ![gen].rules = @ \cup {Program[n]}]
             /\ Go(next)
    <3>1. chains[gen] \in ChainContent
      BY <2>1 DEF TypeOK
    <3>2. [chains[gen] EXCEPT !.rules = @ \cup {Program[n]}] \in ChainContent
      BY <3>1, ConstantTypes
    <3>3. /\ chains' \in [Chain -> ChainContent \cup {NoChain}]
          /\ chains'[gen] # NoChain
          /\ \A c \in Chain : c # gen => chains'[c] = chains[c]
      BY <2>1, <3>2, NoChainAssumption DEF TypeOK
    <3>4. next \in Stage \cup {"hook"}
      BY ConstantTypes
    <3>5. NoDangling'
      BY <1>2, <3>3, SameJumps DEF TypeOK, AppendRule, NoDangling
    <3>6. pc' \in Stage \cup {"idle", "empty", "hook", "unhook"} /\ pc # "idle"
      BY <1>2, <2>1, <3>4, ConstantTypes DEF Go, AppendRule, Stage
    <3>. QED
      BY <1>2, <2>1, <3>3, <3>5, <3>6 DEF AppendRule, TypeOK, Go, NoDangling
  <2>2. CASE UNCHANGED chains /\ Return
    BY <1>2, <2>2, SameJumps, ApplierIdles DEF AppendRule, TypeOK
  <2>. QED
    BY <1>2, <2>1, <2>2 DEF AppendRule
<1>3. ASSUME HookChain PROVE TypeOK'
  <2>1. CASE UNCHANGED hooks /\ Go("unhook")
    BY <1>3, <2>1, SameJumps DEF HookChain, TypeOK, Go
  <2>2. CASE /\ chains[gen] # NoChain
             /\ hooks' = [hooks EXCEPT ![target] = <<gen>> \o @]
             /\ Go("unhook")
    <3>1. /\ hooks' \in [Iface -> Seq(Chain)]
          /\ \A j \in Iface, d \in Chain :
               Hooked(j, d)' <=> Hooked(j, d) \/ (j = target /\ d = gen)
      BY <2>2, JumpInserted DEF TypeOK
    <3>2. NoDangling'
      BY <1>3, <2>2, <3>1 DEF HookChain, TypeOK, NoDangling
    <3>. QED
      BY <1>3, <2>2, <3>1, <3>2 DEF HookChain, TypeOK, Go, NoDangling
  <2>3. CASE UNCHANGED hooks /\ Return
    BY <1>3, <2>3, SameJumps, ApplierIdles DEF HookChain, TypeOK
  <2>. QED
    BY <1>3, <2>1, <2>2, <2>3 DEF HookChain
<1>4. ASSUME UnhookOld PROVE TypeOK'
  <2>1. ASSUME NEW g \in Generation, Hooked(target, <<StemOf[target], g>>),
               hooks' = [hooks EXCEPT ![target] = RemoveFirst(@, <<StemOf[target], g>>)],
               Go("unhook")
        PROVE  TypeOK'
    <3>1. <<StemOf[target], g>> \in Chain
      BY ConstantTypes DEF TypeOK
    <3>2. /\ hooks' \in [Iface -> Seq(Chain)]
          /\ \A j \in Iface, d \in Chain : Hooked(j, d)' => Hooked(j, d)
      BY <2>1, <3>1, JumpRemoved DEF TypeOK
    <3>3. NoDangling'
      BY <1>4, <3>2 DEF UnhookOld, TypeOK, NoDangling
    <3>. QED
      BY <1>4, <2>1, <3>2, <3>3 DEF UnhookOld, TypeOK, Go, NoDangling
  <2>2. CASE UNCHANGED hooks /\ Return
    BY <1>4, <2>2, SameJumps, ApplierIdles DEF UnhookOld, TypeOK
  <2>. QED
    BY <1>4, <2>1, <2>2 DEF UnhookOld
<1>. QED
  BY <1>1, <1>2, <1>3, <1>4 DEF ApplyStep

LEMMA CleanTypes ==
  ASSUME TypeOK, CleanStep
  PROVE  TypeOK'
<1>. USE DEF applier
<1>1. ASSUME NEW c \in listed, CleanNext(c) PROVE TypeOK'
  BY <1>1, SameJumps DEF CleanNext, TypeOK
<1>2. ASSUME CleanUnhook PROVE TypeOK'
  <2>1. ASSUME NEW i \in Iface, Hooked(i, cur), UNCHANGED cpc,
               hooks' = [hooks EXCEPT ![i] = RemoveFirst(@, cur)]
        PROVE  TypeOK'
    <3>1. /\ hooks' \in [Iface -> Seq(Chain)]
          /\ \A j \in Iface, d \in Chain : Hooked(j, d)' => Hooked(j, d)
      BY <2>1, JumpRemoved DEF TypeOK
    <3>. QED
      BY <1>2, <2>1, <3>1 DEF CleanUnhook, TypeOK
  <2>2. CASE cpc' = "flush" /\ UNCHANGED hooks
    BY <1>2, <2>2, SameJumps DEF CleanUnhook, TypeOK
  <2>. QED
    BY <1>2, <2>1, <2>2 DEF CleanUnhook
<1>3. ASSUME CleanFlush PROVE TypeOK'
  <2>1. AnyPolicy \in Policies
    BY DEF AnyPolicy, TypeOK
  <2>2. Empty(AnyPolicy) \in ChainContent /\ Empty(AnyPolicy) # NoChain
    BY <2>1, ConstantTypes
  <2>3. /\ chains' \in [Chain -> ChainContent \cup {NoChain}]
        /\ \A c \in Chain : chains[c] # NoChain => chains'[c] # NoChain
    BY <1>3, <2>2 DEF CleanFlush, TypeOK
  <2>. QED
    BY <1>3, <2>3, SameJumps DEF CleanFlush, TypeOK
<1>4. ASSUME CleanDelete PROVE TypeOK'
  <2>1. CASE ~HookedAnywhere(cur) /\ chains' = [chains EXCEPT ![cur] = NoChain]
    BY <1>4, <2>1, SameJumps DEF CleanDelete, TypeOK, HookedAnywhere
  <2>2. CASE UNCHANGED chains
    BY <1>4, <2>2, SameJumps DEF CleanDelete, TypeOK
  <2>. QED
    BY <1>4, <2>1, <2>2 DEF CleanDelete
<1>5. ASSUME CleanEnd PROVE TypeOK'
  BY <1>5, SameJumps, ConstantTypes DEF CleanEnd, TypeOK
<1>. QED
  BY <1>1, <1>2, <1>3, <1>4, <1>5 DEF CleanStep

LEMMA NextTypes ==
  ASSUME TypeOK, [Next]_vars
  PROVE  TypeOK'
<1>1. ASSUME NEW i \in Iface, NEW p \in Policies, ChooseGeneration(i, p) PROVE TypeOK'
  <2>1. gen' \in {StemOf[i]} \X {"_A", "_B"} /\ gen' \in Chain
    BY <1>1, ConstantTypes DEF ChooseGeneration, Generation
  <2>. QED
    BY <1>1, <2>1, SameJumps DEF ChooseGeneration, TypeOK, cleaner
<1>2. ASSUME CleanBegin PROVE TypeOK'
  BY <1>2, SameJumps DEF CleanBegin, TypeOK, applier
<1>3. ASSUME Crash PROVE TypeOK'
  BY <1>3, SameJumps, ApplierIdles, ConstantTypes DEF Crash, TypeOK
<1>4. ASSUME UNCHANGED vars PROVE TypeOK'
  BY <1>4, SameJumps DEF vars, TypeOK
<1>. QED
  BY <1>1, <1>2, <1>3, <1>4, ApplyTypes, CleanTypes DEF Next

\* The types are kept whatever fails and whatever overlaps; in particular no
\* command leaves OUTPUT with a jump to a chain that is gone.
THEOREM TypeCorrect == Spec => []TypeOK
BY InitTypeOK, NextTypes, PTL DEF Spec

-----------------------------------------------------------------------------
(* Jumps do not pile up *)

LEMMA OnceInserted ==
  ASSUME hooks \in [Iface -> Seq(Chain)], HookedOnce,
         NEW i \in Iface, NEW c \in Chain, ~Hooked(i, c),
         hooks' = [hooks EXCEPT ![i] = <<c>> \o @]
  PROVE  HookedOnce'
<1>. DEFINE s == hooks[i]
            t == <<c>> \o s
<1>1. s \in Seq(Chain) /\ hooks'[i] = t /\ \A n \in DOMAIN s : s[n] # c
  BY DEF Hooked
<1>2. \A m, n \in DOMAIN s : s[m] = s[n] => m = n
  BY DEF HookedOnce
<1>3. /\ DOMAIN t = 1 .. Len(s) + 1
      /\ t[1] = c
      /\ \A m \in DOMAIN t : m # 1 => m - 1 \in DOMAIN s /\ t[m] = s[m - 1]
  BY <1>1, PrependProperties
<1>4. Len(s) \in Nat
  BY <1>1
<1>. HIDE DEF s, t
<1>5. ASSUME NEW m \in DOMAIN t, NEW n \in DOMAIN t, t[m] = t[n] PROVE m = n
  <2>1. m \in Int /\ n \in Int
    BY <1>3, <1>4
  <2>2. CASE m # 1 /\ n # 1
    <3>1. m - 1 = n - 1
      BY <1>2, <1>3, <1>5, <2>2
    <3>. QED
      BY <2>1, <3>1
  <2>3. CASE m = 1 \/ n = 1
    BY <1>1, <1>3, <1>5, <2>3
  <2>. QED
    BY <2>2, <2>3
<1>6. ASSUME NEW j \in Iface, NEW m \in DOMAIN hooks'[j], NEW n \in DOMAIN hooks'[j],
             hooks'[j][m] = hooks'[j][n]
      PROVE  m = n
  <2>1. CASE j = i
    BY <1>1, <1>5, <1>6, <2>1
  <2>2. CASE j # i
    BY <1>6, <2>2 DEF HookedOnce
  <2>. QED
    BY <2>1, <2>2
<1>. QED
  BY <1>6 DEF HookedOnce

LEMMA OnceRemoved ==
  ASSUME hooks \in [Iface -> Seq(Chain)], HookedOnce,
         NEW i \in Iface, NEW c \in Chain, Hooked(i, c),
         hooks' = [hooks EXCEPT ![i] = RemoveFirst(@, c)]
  PROVE  HookedOnce' /\ ~Hooked(i, c)'
<1>. DEFINE s == hooks[i]
            t == RemoveFirst(s, c)
<1>1. s \in Seq(Chain) /\ hooks'[i] = t /\ \E n \in DOMAIN s : s[n] = c
  BY DEF Hooked
<1>2. \A m, n \in DOMAIN s : s[m] = s[n] => m = n
  BY DEF HookedOnce
<1>3. /\ \A m, n \in DOMAIN t : t[m] = t[n] => m = n
      /\ \A m \in DOMAIN t : t[m] # c
  BY <1>1, <1>2, RemoveFirstProperties
<1>. HIDE DEF t
<1>5. ~Hooked(i, c)'
  BY <1>1, <1>3 DEF Hooked
<1>6. ASSUME NEW j \in Iface, NEW m \in DOMAIN hooks'[j], NEW n \in DOMAIN hooks'[j],
             hooks'[j][m] = hooks'[j][n]
      PROVE  m = n
  <2>1. CASE j = i
    BY <1>1, <1>3, <1>6, <2>1
  <2>2. CASE j # i
    BY <1>6, <2>2 DEF HookedOnce
  <2>. QED
    BY <2>1, <2>2
<1>. QED
  BY <1>5, <1>6 DEF HookedOnce

LEMMA InitOnce == Init => HookedOnce
<1>. SUFFICES ASSUME Init, NEW i \in Iface, NEW m \in DOMAIN hooks[i], NEW n \in DOMAIN hooks[i]
              PROVE  m = n
  BY DEF HookedOnce
<1>1. hooks[i] \in Seq(Chain) /\ Len(hooks[i]) \in {0, 1}
  BY InitJumps
<1>2. m \in 1 .. Len(hooks[i]) /\ n \in 1 .. Len(hooks[i])
  BY <1>1
<1>3. CASE Len(hooks[i]) = 0
  BY <1>2, <1>3
<1>4. CASE Len(hooks[i]) = 1
  BY <1>2, <1>4
<1>. QED
  BY <1>1, <1>3, <1>4

LEMMA NextOnce ==
  ASSUME TypeOK, HookedOnce, [Next]_vars
  PROVE  HookedOnce'
<1>1. CASE UNCHANGED hooks
  BY <1>1 DEF HookedOnce
<1>2. CASE HookChain
  BY <1>1, <1>2, OnceInserted DEF HookChain, TypeOK
<1>3. CASE UnhookOld
  BY <1>1, <1>3, OnceRemoved, ConstantTypes DEF UnhookOld, TypeOK
<1>4. CASE CleanUnhook
  BY <1>1, <1>4, OnceRemoved DEF CleanUnhook, TypeOK
<1>5. CASE /\ ~HookChain /\ ~UnhookOld /\ ~CleanUnhook
  <2>1. UNCHANGED hooks
    BY <1>5 DEF Next, ApplyStep, CleanStep, vars, ChooseGeneration, EmptyChain, AppendRule,
                CleanBegin, CleanNext, CleanFlush, CleanDelete, CleanEnd, Crash
  <2>. QED
    BY <1>1, <2>1
<1>. QED
  BY <1>2, <1>3, <1>4, <1>5

\* A chain is hooked at most once by an interface: the jump is looked for
\* before it is inserted (firewall.rs:181), and no failure, crash or cleanup
\* at any moment gets around that.
THEOREM HookedOnceAlways == Spec => []HookedOnce
<1>1. Init => TypeOK /\ HookedOnce
  BY InitTypeOK, InitOnce
<1>2. TypeOK /\ HookedOnce /\ [Next]_vars => (TypeOK /\ HookedOnce)'
  BY NextTypes, NextOnce
<1>. QED
  BY <1>1, <1>2, PTL DEF Spec

-----------------------------------------------------------------------------
(* Verdicts *)

Decides(i, n, k) == ChainVerdict(chains[hooks[i][n]], k) # "none"

\* The verdict is that of the first chain that decides.
LEMMA VerdictIsFirst ==
  ASSUME TypeOK, NEW i \in Iface, NEW k
  PROVE  \/ Verdict(i, k) = "accept" /\ \A n \in DOMAIN hooks[i] : ~Decides(i, n, k)
         \/ \E n \in DOMAIN hooks[i] :
              /\ Decides(i, n, k) /\ \A m \in DOMAIN hooks[i] : Decides(i, m, k) => n <= m
              /\ Verdict(i, k) = ChainVerdict(chains[hooks[i][n]], k)
<1>. DEFINE deciding == {n \in DOMAIN hooks[i] : ChainVerdict(chains[hooks[i][n]], k) # "none"}
<1>1. deciding \in SUBSET Nat
  <2>1. hooks[i] \in Seq(Chain)
    BY DEF TypeOK
  <2>. QED
    BY <2>1
<1>2. CASE deciding = {}
  BY <1>2 DEF Verdict, Decides
<1>3. CASE deciding # {}
  <2>1. Min(deciding) \in deciding /\ \A n \in deciding : Min(deciding) <= n
    BY <1>1, <1>3, LeastNumber
  <2>2. Verdict(i, k) = ChainVerdict(chains[hooks[i][Min(deciding)]], k)
    BY <1>3 DEF Verdict
  <2>3. \A n : n \in deciding <=> n \in DOMAIN hooks[i] /\ Decides(i, n, k)
    BY DEF Decides
  <2>. HIDE DEF deciding
  <2>. QED
    BY <2>1, <2>2, <2>3
<1>. QED
  BY <1>2, <1>3

\* A chain that ends in the drop rule decides every packet, a whole one as
\* its policy says.
LEMMA WholeChain ==
  ASSUME NEW p \in Policies, NEW k
  PROVE  ChainVerdict(Whole(p), k) =
           IF k.dest \notin p.block /\ (k.established \/ k.dest \in p.allow)
           THEN "accept" ELSE "drop"
BY NoChainAssumption, ConstantTypes DEF ChainVerdict, Whole, Stage

\* A new connection to a destination that no policy allows.
Refused(k) == ~k.established /\ \A p \in Policies : k.dest \notin p.allow

\* No chain accepts it, so that one chain that drops it is enough.
DroppedSomewhere(i, k) ==
  \E c \in Chain : Hooked(i, c) /\ ChainVerdict(chains[c], k) = "drop"

LEMMA RefusedIsDropped ==
  TypeOK => \A i \in Iface, k \in Guard!Packet :
              Refused(k) => (Verdict(i, k) = "drop" <=> DroppedSomewhere(i, k))
<1>. SUFFICES ASSUME TypeOK, NEW i \in Iface, NEW k \in Guard!Packet, Refused(k)
              PROVE  Verdict(i, k) = "drop" <=> DroppedSomewhere(i, k)
  OBVIOUS
<1>1. hooks[i] \in Seq(Chain) /\ \A n \in DOMAIN hooks[i] : hooks[i][n] \in Chain
  BY DEF TypeOK
<1>2. \A c \in Chain : ChainVerdict(chains[c], k) \in {"drop", "none"}
  BY DEF TypeOK, ChainContent, ChainVerdict, Refused
<1>. QED
  BY <1>1, <1>2, VerdictIsFirst DEF Hooked, Decides, DroppedSomewhere

LEMMA RefusedIsDroppedNext ==
  (TypeOK => \A i \in Iface, k \in Guard!Packet :
               Refused(k) => (Verdict(i, k) = "drop" <=> DroppedSomewhere(i, k)))'
BY RefusedIsDropped, PTL

-----------------------------------------------------------------------------
(* What is closed stays closed *)

Serial == pc = "idle" \/ cpc = "idle"

\* Before the old generations are unhooked, the new one drops what it does
\* not allow, and before that it is hooked.
DropsAtLast ==
  /\ pc \in {"hook", "unhook"} => chains[gen] # NoChain /\ "drop" \in chains[gen].rules
  /\ pc = "unhook" => Hooked(target, gen)

ClosedInv == TypeOK /\ Serial /\ DropsAtLast

LEMMA InitClosed == Init => ClosedInv
BY InitTypeOK DEF Init, ClosedInv, Serial, DropsAtLast

LEMMA NextClosed ==
  ASSUME ClosedInv, [SerialNext]_vars
  PROVE  ClosedInv'
<1>1. TypeOK /\ TypeOK' /\ [Next]_vars
  BY NextTypes DEF ClosedInv, SerialNext
<1>2. Serial'
  BY DEF ClosedInv, Serial, SerialNext, vars
<1>3. ASSUME NEW i \in Iface, NEW p \in Policies, ChooseGeneration(i, p) PROVE DropsAtLast'
  BY <1>3 DEF ChooseGeneration, DropsAtLast
<1>4. ASSUME EmptyChain PROVE DropsAtLast'
  BY <1>4 DEF EmptyChain, DropsAtLast, Go, Return
<1>5. ASSUME NEW n \in DOMAIN Program, AppendRule(n) PROVE DropsAtLast'
  <2>1. CASE /\ chains[gen] # NoChain
             /\ chains' = [chains EXCEPT ![gen].rules = @ \cup {Program[n]}]
             /\ Go(IF n = Len(Program) THEN "hook" ELSE Program[n + 1])
    <3>1. CASE n = 4
      <4>1. Program[n] = "drop"
        BY <3>1 DEF Program
      <4>2. chains[gen] \in ChainContent /\ gen' = gen /\ pc' = "hook"
        BY <1>1, <2>1, <3>1, ConstantTypes DEF TypeOK, Go
      <4>3. chains'[gen] = [chains[gen] EXCEPT !.rules = @ \cup {"drop"}]
        BY <1>1, <2>1, <4>1 DEF TypeOK
      <4>4. chains'[gen] \in ChainContent /\ "drop" \in chains'[gen].rules
        BY <4>2, <4>3, ConstantTypes DEF Stage, ChainContent
      <4>. QED
        BY <4>2, <4>4, NoChainAssumption DEF DropsAtLast
    <3>2. CASE n # 4
      <4>1. pc' \in {"established", "allow", "drop"}
        BY <2>1, <3>2, ConstantTypes DEF Go, Program
      <4>. QED
        BY <4>1 DEF DropsAtLast
    <3>. QED
      BY <3>1, <3>2
  <2>2. CASE Return
    BY <2>2 DEF Return, DropsAtLast
  <2>. QED
    BY <1>5, <2>1, <2>2 DEF AppendRule
<1>6. ASSUME HookChain PROVE DropsAtLast'
  <2>1. CASE Hooked(target, gen) /\ UNCHANGED hooks /\ Go("unhook")
    BY <1>6, <2>1, SameJumps DEF HookChain, ClosedInv, DropsAtLast, Go
  <2>2. CASE hooks' = [hooks EXCEPT ![target] = <<gen>> \o @] /\ Go("unhook")
    <3>1. Hooked(target, gen)'
      BY <1>1, <2>2, JumpInserted DEF TypeOK, Go
    <3>. QED
      BY <1>6, <2>2, <3>1 DEF HookChain, ClosedInv, DropsAtLast, Go
  <2>3. CASE Return
    BY <2>3 DEF Return, DropsAtLast
  <2>. QED
    BY <1>6, <2>1, <2>2, <2>3 DEF HookChain
<1>7. ASSUME UnhookOld PROVE DropsAtLast'
  <2>1. ASSUME NEW g \in Generation, <<StemOf[target], g>> # gen, Hooked(target, <<StemOf[target], g>>),
               hooks' = [hooks EXCEPT ![target] = RemoveFirst(@, <<StemOf[target], g>>)],
               Go("unhook")
        PROVE  DropsAtLast'
    <3>1. Hooked(target, gen)'
      <4>1. Hooked(target, gen) /\ gen \in Chain /\ target \in Iface
        BY <1>1, <1>7 DEF TypeOK, UnhookOld, ClosedInv, DropsAtLast
      <4>2. <<StemOf[target], g>> \in Chain
        BY <4>1, ConstantTypes
      <4>3. \A j \in Iface, d \in Chain :
              Hooked(j, d) /\ (j # target \/ d # <<StemOf[target], g>>) => Hooked(j, d)'
        BY <1>1, <2>1, <4>1, <4>2, JumpRemoved DEF TypeOK
      <4>4. target' = target /\ gen' = gen
        BY <2>1 DEF Go
      <4>. QED
        BY <2>1, <4>1, <4>3, <4>4 DEF Hooked
    <3>. QED
      BY <1>7, <2>1, <3>1 DEF UnhookOld, ClosedInv, DropsAtLast, Go
  <2>2. CASE Return
    BY <2>2 DEF Return, DropsAtLast
  <2>. QED
    BY <1>7, <2>1, <2>2 DEF UnhookOld
<1>8. ASSUME CleanBegin \/ CleanStep PROVE DropsAtLast'
  <2>1. pc' = pc /\ (pc # "idle" => cpc = "idle")
    BY <1>8 DEF ClosedInv, Serial, CleanBegin, CleanStep, CleanNext, CleanUnhook, CleanFlush, CleanDelete,
                CleanEnd, applier
  <2>2. pc = "idle"
    BY <1>2, <1>8, <2>1 DEF CleanBegin, CleanStep, CleanNext, CleanUnhook, CleanFlush, CleanDelete,
                            CleanEnd, Serial
  <2>. QED
    BY <2>1, <2>2 DEF DropsAtLast
<1>9. ASSUME Crash PROVE DropsAtLast'
  BY <1>9 DEF Crash, Return, DropsAtLast
<1>10. ASSUME UNCHANGED vars PROVE DropsAtLast'
  BY <1>10, SameJumps DEF vars, ClosedInv, DropsAtLast
<1>. QED
  BY <1>1, <1>2, <1>3, <1>4, <1>5, <1>6, <1>7, <1>8, <1>9, <1>10 DEF ClosedInv, Next, ApplyStep

\* One step of an apply that flushes no hooked chain.
LEMMA StepStaysClosed ==
  ASSUME ClosedInv, [SerialNext]_vars,
         pc # "idle", cpc = "idle", pc = "empty" => ~HookedAnywhere(gen),
         NEW i \in Iface, NEW k \in Guard!Packet, Refused(k), Verdict(i, k) = "drop"
  PROVE  Verdict(i, k)' = "drop"
<1>1. TypeOK /\ TypeOK' /\ [Next]_vars
  BY NextTypes DEF ClosedInv, SerialNext
<1>2. SUFFICES \E c \in Chain : Hooked(i, c)' /\ ChainVerdict(chains'[c], k) = "drop"
  <2>1. Refused(k)'
    BY DEF Refused
  <2>2. Verdict(i, k)' = "drop" <=> DroppedSomewhere(i, k)'
    BY <1>1, <2>1, RefusedIsDroppedNext
  <2>. QED
    BY <2>2 DEF DroppedSomewhere
<1>3. PICK c \in Chain : Hooked(i, c) /\ ChainVerdict(chains[c], k) = "drop"
  BY <1>1, RefusedIsDropped DEF DroppedSomewhere
<1>4. CASE UNCHANGED <<chains, hooks>>
  BY <1>3, <1>4, SameJumps
<1>5. ASSUME EmptyChain PROVE Hooked(i, c)' /\ ChainVerdict(chains'[c], k) = "drop"
  <2>1. c # gen
    BY <1>3, <1>5 DEF EmptyChain, HookedAnywhere
  <2>. QED
    BY <1>1, <1>3, <1>5, <2>1, SameJumps DEF EmptyChain, TypeOK
<1>6. ASSUME NEW n \in DOMAIN Program, AppendRule(n)
      PROVE  Hooked(i, c)' /\ ChainVerdict(chains'[c], k) = "drop"
  <2>1. CASE UNCHANGED chains
    BY <1>3, <1>6, <2>1, SameJumps DEF AppendRule
  <2>2. CASE /\ chains[gen] # NoChain
             /\ chains' = [chains EXCEPT ![gen].rules = @ \cup {Program[n]}]
    <3>1. Hooked(i, c)'
      BY <1>3, <1>6, SameJumps DEF AppendRule
    <3>2. CASE c # gen
      BY <1>1, <1>3, <2>2, <3>1, <3>2 DEF TypeOK
    <3>3. CASE c = gen
      <4>1. /\ chains[c] \in ChainContent
            /\ chains'[c] = [chains[c] EXCEPT !.rules = @ \cup {Program[n]}]
        BY <1>1, <2>2, <3>3 DEF TypeOK
      <4>2. chains'[c] \in ChainContent
        BY <4>1, ConstantTypes
      <4>3. /\ chains'[c].policy = chains[c].policy /\ chains[c].policy \in Policies
            /\ chains[c].rules \subseteq chains'[c].rules
            /\ chains[c] # NoChain /\ chains'[c] # NoChain
        BY <4>1, <4>2, NoChainAssumption DEF ChainContent
      <4>. QED
        BY <1>3, <3>1, <4>3 DEF ChainVerdict, Refused
    <3>. QED
      BY <3>2, <3>3
  <2>. QED
    BY <1>6, <2>1, <2>2 DEF AppendRule
<1>7. ASSUME HookChain PROVE Hooked(i, c)' /\ ChainVerdict(chains'[c], k) = "drop"
  <2>1. CASE UNCHANGED hooks
    BY <1>3, <1>7, <2>1, SameJumps DEF HookChain
  <2>2. CASE hooks' = [hooks EXCEPT ![target] = <<gen>> \o @]
    BY <1>1, <1>3, <1>7, <2>2, JumpInserted DEF HookChain, TypeOK
  <2>. QED
    BY <1>7, <2>1, <2>2 DEF HookChain
<1>8. ASSUME UnhookOld PROVE \E d \in Chain : Hooked(i, d)' /\ ChainVerdict(chains'[d], k) = "drop"
  <2>1. CASE UNCHANGED hooks
    BY <1>3, <1>8, <2>1, SameJumps DEF UnhookOld
  <2>2. ASSUME NEW g \in Generation, <<StemOf[target], g>> # gen, Hooked(target, <<StemOf[target], g>>),
               hooks' = [hooks EXCEPT ![target] = RemoveFirst(@, <<StemOf[target], g>>)]
        PROVE  \E d \in Chain : Hooked(i, d)' /\ ChainVerdict(chains'[d], k) = "drop"
    <3>1. \A j \in Iface, d \in Chain :
            Hooked(j, d) /\ (j # target \/ d # <<StemOf[target], g>>) => Hooked(j, d)'
      BY <1>1, <2>2, JumpRemoved, ConstantTypes DEF TypeOK
    <3>2. UNCHANGED chains
      BY <1>8 DEF UnhookOld
    <3>3. CASE i # target
      BY <1>3, <3>1, <3>2, <3>3
    <3>4. CASE i = target
      <4>1. Hooked(i, gen) /\ chains[gen] # NoChain /\ "drop" \in chains[gen].rules
        BY <1>8, <3>4 DEF UnhookOld, ClosedInv, DropsAtLast
      <4>2. gen \in Chain /\ chains[gen].policy \in Policies
        BY <1>1, <4>1 DEF TypeOK, ChainContent
      <4>3. ChainVerdict(chains[gen], k) = "drop"
        BY <4>1, <4>2 DEF ChainVerdict, Refused
      <4>. QED
        BY <2>2, <3>1, <3>2, <4>1, <4>2, <4>3
    <3>. QED
      BY <3>3, <3>4
  <2>. QED
    BY <1>8, <2>1, <2>2 DEF UnhookOld
<1>9. CASE ~ApplyStep
  <2>1. UNCHANGED <<chains, hooks>>
    BY <1>1, <1>9 DEF Next, CleanStep, ChooseGeneration, CleanBegin, CleanNext, CleanUnhook, CleanFlush,
                CleanDelete, CleanEnd, Crash, vars
  <2>. QED
    BY <1>4, <2>1
<1>. QED
  BY <1>5, <1>6, <1>7, <1>8, <1>9 DEF ApplyStep

\* Whatever failed before, and even for interfaces that share chain names, an
\* apply opens no destination that all policies refuse: the old generations
\* are unhooked only when the new one is hooked and ends in its drop rule.
THEOREM StaysClosedAlways == SerialSpec => StaysClosed
<1>1. Init => ClosedInv
  BY InitClosed
<1>2. ClosedInv /\ [SerialNext]_vars => ClosedInv'
  BY NextClosed
<1>3. ClosedInv /\ [SerialNext]_vars =>
        [(pc # "idle" /\ cpc = "idle" /\ (pc = "empty" => ~HookedAnywhere(gen))) =>
           \A i \in Iface, k \in Guard!Packet :
             (/\ \A p \in Policies : k.dest \notin p.allow
              /\ ~k.established
              /\ Verdict(i, k) = "drop")
             => Verdict(i, k)' = "drop"]_vars
  BY StepStaysClosed DEF Refused
<1>. QED
  BY <1>1, <1>2, <1>3, PTL DEF SerialSpec, StaysClosed

-----------------------------------------------------------------------------
(* Other interfaces *)

\* chain_name() gives every interface chains of its own.  It does not when two
\* interface names differ only in characters that it replaces.
DistinctStems == \A i, j \in Iface : StemOf[i] = StemOf[j] => i = j

OwnChains == \A i \in Iface, c \in Chain : Hooked(i, c) => c[1] = StemOf[i]

LEMMA InitOwnChains == Init => OwnChains
<1>. SUFFICES ASSUME Init, NEW i \in Iface, NEW c \in Chain, Hooked(i, c)
              PROVE  c[1] = StemOf[i]
  BY DEF OwnChains
<1>1. c = <<StemOf[i], "">>
  BY InitJumps
<1>. QED
  BY <1>1

LEMMA NextOwnChains ==
  ASSUME TypeOK, OwnChains, [Next]_vars
  PROVE  OwnChains'
<1>1. CASE UNCHANGED hooks
  BY <1>1, SameJumps DEF OwnChains
<1>2. ASSUME HookChain, hooks' = [hooks EXCEPT ![target] = <<gen>> \o @] PROVE OwnChains'
  <2>1. gen[1] = StemOf[target]
    BY <1>2 DEF HookChain, TypeOK
  <2>. QED
    BY <1>2, <2>1, JumpInserted DEF OwnChains, TypeOK
<1>3. ASSUME NEW i \in Iface, NEW c \in Chain, Hooked(i, c), hooks' = [hooks EXCEPT ![i] = RemoveFirst(@, c)]
      PROVE  OwnChains'
  BY <1>3, JumpRemoved DEF OwnChains, TypeOK
<1>4. CASE UnhookOld
  BY <1>1, <1>3, <1>4, ConstantTypes DEF UnhookOld, TypeOK
<1>5. CASE CleanUnhook
  BY <1>1, <1>3, <1>5 DEF CleanUnhook, TypeOK
<1>6. CASE HookChain
  BY <1>1, <1>2, <1>6 DEF HookChain
<1>7. CASE ~HookChain /\ ~UnhookOld /\ ~CleanUnhook
  <2>1. UNCHANGED hooks
    BY <1>7 DEF Next, ApplyStep, CleanStep, vars, ChooseGeneration, EmptyChain, AppendRule,
                CleanBegin, CleanNext, CleanFlush, CleanDelete, CleanEnd, Crash
  <2>. QED
    BY <1>1, <2>1
<1>. QED
  BY <1>4, <1>5, <1>6, <1>7

\* An interface whose jumps and hooked chains are the same decides the same.
LEMMA SameVerdict ==
  ASSUME TypeOK, NEW i \in Iface, hooks'[i] = hooks[i],
         \A c \in Chain : Hooked(i, c) => chains'[c] = chains[c]
  PROVE  \A k : Verdict(i, k)' = Verdict(i, k)
<1>. SUFFICES ASSUME NEW k PROVE Verdict(i, k)' = Verdict(i, k)
  OBVIOUS
<1>1. \A n \in DOMAIN hooks[i] : chains'[hooks[i][n]] = chains[hooks[i][n]]
  <2>1. hooks[i] \in Seq(Chain) /\ \A n \in DOMAIN hooks[i] : hooks[i][n] \in Chain
    BY DEF TypeOK
  <2>. QED
    BY <2>1 DEF Hooked
<1>. DEFINE deciding == {n \in DOMAIN hooks[i] : ChainVerdict(chains[hooks[i][n]], k) # "none"}
            next == {n \in DOMAIN hooks'[i] : ChainVerdict(chains'[hooks'[i][n]], k) # "none"}
<1>2. next = deciding
  BY <1>1
<1>3. Verdict(i, k) = IF deciding = {} THEN "accept" ELSE ChainVerdict(chains[hooks[i][Min(deciding)]], k)
  BY DEF Verdict
<1>4. Verdict(i, k)' = IF next = {} THEN "accept" ELSE ChainVerdict(chains'[hooks'[i][Min(next)]], k)
  BY DEF Verdict
<1>5. deciding # {} => Min(deciding) \in DOMAIN hooks[i]
  <2>1. deciding \in SUBSET Nat
    <3>1. hooks[i] \in Seq(Chain)
      BY DEF TypeOK
    <3>. QED
      BY <3>1
  <2>2. deciding \subseteq DOMAIN hooks[i]
    OBVIOUS
  <2>. HIDE DEF deciding
  <2>. QED
    BY <2>1, <2>2, LeastNumber
<1>. HIDE DEF deciding, next
<1>. QED
  BY <1>1, <1>2, <1>3, <1>4, <1>5

LEMMA StepLeavesOthers ==
  ASSUME DistinctStems, TypeOK, OwnChains, [Next]_vars, pc # "idle", cpc = "idle",
         NEW i \in Iface \ {target}
  PROVE  \A k : Verdict(i, k)' = Verdict(i, k)
<1>1. \A c \in Chain : Hooked(i, c) => c # gen
  BY DEF DistinctStems, TypeOK, OwnChains
<1>2. hooks'[i] = hooks[i]
  BY DEF Next, ApplyStep, CleanStep, vars, ChooseGeneration, EmptyChain, AppendRule, HookChain, UnhookOld,
         CleanBegin, CleanNext, CleanUnhook, CleanFlush, CleanDelete, CleanEnd, Crash, TypeOK
<1>3. \A c \in Chain : c # gen => chains'[c] = chains[c]
  BY DEF Next, ApplyStep, CleanStep, vars, ChooseGeneration, EmptyChain, AppendRule, HookChain, UnhookOld,
         CleanBegin, CleanNext, CleanUnhook, CleanFlush, CleanDelete, CleanEnd, Crash, TypeOK
<1>. QED
  BY <1>1, <1>2, <1>3, SameVerdict

\* With chain names of its own, an interface never notices that the policy of
\* another one is changed, even where commands fail and the program dies.
THEOREM OthersUntouchedAlways ==
  ASSUME DistinctStems
  PROVE  Spec => OthersUntouched
<1>1. Init => TypeOK /\ OwnChains
  BY InitTypeOK, InitOwnChains
<1>2. TypeOK /\ OwnChains /\ [Next]_vars => (TypeOK /\ OwnChains)'
  BY NextTypes, NextOwnChains
<1>3. TypeOK /\ OwnChains /\ [Next]_vars =>
        [pc # "idle" =>
           \A i \in Iface \ {target}, k \in Guard!Packet :
             cpc = "idle" => Verdict(i, k)' = Verdict(i, k)]_vars
  BY StepLeavesOthers
<1>. QED
  BY <1>1, <1>2, <1>3, PTL DEF Spec, OthersUntouched

-----------------------------------------------------------------------------
(* The abstract guard *)

\* Commands that may fail without leaving two generations hooked.
FailsSafely == MayFail \cap {"unhook", "clean", "crash"} = {}

\* Every hooked chain holds one whole policy.
WholeChains ==
  \A i \in Iface, c \in Chain : Hooked(i, c) => \E p \in Policies : chains[c] = Whole(p)

\* One chain is hooked, except while the one before the last is unhooked.
OneChain ==
  \A i \in Iface :
    \/ Len(hooks[i]) \in {0, 1}
    \/ Len(hooks[i]) = 2 /\ pc = "unhook" /\ i = target

\* The new generation is filled while nothing jumps to it, and is hooked first.
Filling ==
  /\ pc \in Stage \cup {"empty", "hook"} => ~Hooked(target, gen)
  /\ \A n \in DOMAIN Program :
       pc = Program[n] => chains[gen] = [policy |-> policy, rules |-> {Program[m] : m \in 1 .. n - 1}]
  /\ pc \in {"hook", "unhook"} => chains[gen] = Whole(policy)
  /\ pc = "unhook" => hooks[target] # <<>> /\ hooks[target][1] = gen

\* A cleanup still has to come to every chain that is hooked.
Clearing ==
  /\ cpc # "idle" => \A i \in Iface, c \in Chain :
                       Hooked(i, c) => c \in listed \/ (cpc = "unhook" /\ c = cur)
  /\ cpc \in {"flush", "delete"} => ~HookedAnywhere(cur)

GuardParts == WholeChains /\ OneChain /\ Filling /\ Clearing
GuardInv == TypeOK /\ Serial /\ HookedOnce /\ OwnChains /\ GuardParts

LEMMA InitGuard == Init => GuardInv
<1>. SUFFICES ASSUME Init PROVE GuardInv
  OBVIOUS
<1>1. PICK legacy \in SUBSET Iface, p \in Policies :
        /\ chains = [c \in Chain |-> IF \E i \in legacy : c = <<StemOf[i], "">>
                                     THEN Whole(p) ELSE NoChain]
        /\ hooks \in [Iface -> Seq(Chain)]
        /\ \A i \in Iface : /\ Len(hooks[i]) \in {0, 1}
                            /\ \A c \in Chain : Hooked(i, c) => i \in legacy /\ c = <<StemOf[i], "">>
  BY InitJumps
<1>2. WholeChains
  BY <1>1 DEF WholeChains
<1>3. OneChain
  BY <1>1 DEF OneChain
<1>4. Serial /\ Clearing
  BY DEF Init, Clearing, Serial
<1>5. Filling
  <2>1. pc = "idle" /\ \A n \in DOMAIN Program : Program[n] # "idle"
    BY ConstantTypes DEF Init, Stage
  <2>. QED
    BY <2>1 DEF Filling, Stage
<1>. QED
  BY <1>2, <1>3, <1>4, <1>5, InitTypeOK, InitOnce, InitOwnChains DEF GuardInv, GuardParts

\* While it is filled, no interface jumps to the new generation.
LEMMA FilledUnhooked ==
  ASSUME DistinctStems, GuardInv, pc \in Stage \cup {"empty", "hook"}
  PROVE  \A i \in Iface : ~Hooked(i, gen)
<1>. SUFFICES ASSUME NEW i \in Iface, Hooked(i, gen) PROVE FALSE
  OBVIOUS
<1>1. gen \in Chain /\ gen[1] = StemOf[target] /\ target \in Iface
  BY DEF GuardInv, TypeOK, Stage
<1>2. gen[1] = StemOf[i]
  BY <1>1 DEF GuardInv, OwnChains
<1>3. i = target
  BY <1>1, <1>2 DEF DistinctStems
<1>. QED
  BY <1>3 DEF GuardInv, GuardParts, Filling

LEMMA SameHooks ==
  ASSUME UNCHANGED hooks, OneChain, pc # "unhook"
  PROVE  OneChain'
BY DEF OneChain

\* The applier's steps keep the four parts of the invariant.
LEMMA GuardChoose ==
  ASSUME GuardInv, Serial', NEW i \in Iface, NEW p \in Policies, ChooseGeneration(i, p)
  PROVE  GuardParts'
<1>1. /\ pc = "idle" /\ pc' = "empty" /\ cpc = "idle" /\ cpc' = "idle" /\ target' = i
      /\ UNCHANGED <<chains, hooks>>
  BY DEF ChooseGeneration, cleaner, Serial
<1>2. WholeChains' /\ OneChain' /\ Clearing'
  BY <1>1, SameJumps, SameHooks DEF GuardInv, GuardParts, WholeChains, Clearing
<1>3. ~Hooked(i, gen')
  <2>1. CASE Hooked(i, <<StemOf[i], "_A">>)
    <3>1. gen' = <<StemOf[i], "_B">>
      BY <2>1 DEF ChooseGeneration
    <3>2. hooks[i] \in Seq(Chain) /\ Len(hooks[i]) \in {0, 1}
      BY <1>1 DEF GuardInv, GuardParts, OneChain, TypeOK
    <3>3. \A m, n \in DOMAIN hooks[i] : m = n
      <4>1. \A m \in DOMAIN hooks[i] : m \in 1 .. Len(hooks[i])
        BY <3>2
      <4>. QED
        BY <3>2, <4>1
    <3>4. <<StemOf[i], "_A">> # <<StemOf[i], "_B">>
      OBVIOUS
    <3>. QED
      BY <2>1, <3>1, <3>3, <3>4 DEF Hooked
  <2>2. CASE ~Hooked(i, <<StemOf[i], "_A">>)
    BY <2>2 DEF ChooseGeneration
  <2>. QED
    BY <2>1, <2>2
<1>4. Filling'
  <2>1. ~Hooked(target, gen)'
    BY <1>1, <1>3 DEF Hooked
  <2>2. \A n \in DOMAIN Program : Program[n] # "empty"
    BY ConstantTypes DEF Stage
  <2>. QED
    BY <1>1, <2>1, <2>2 DEF Filling
<1>. QED
  BY <1>2, <1>4 DEF GuardParts

\* A command that fails ends the apply.
LEMMA GuardReturn ==
  ASSUME GuardInv, Serial', pc # "idle", pc # "unhook", Return, UNCHANGED <<chains, hooks, cleaner>>
  PROVE  GuardParts'
<1>1. WholeChains' /\ OneChain' /\ Clearing'
  BY SameJumps, SameHooks DEF GuardInv, GuardParts, WholeChains, Clearing, cleaner, HookedAnywhere
<1>2. Filling'
  <2>1. pc' = "idle" /\ \A n \in DOMAIN Program : Program[n] # "idle"
    BY ConstantTypes DEF Return, Stage
  <2>. QED
    BY <2>1 DEF Filling, Stage
<1>. QED
  BY <1>1, <1>2 DEF GuardParts

LEMMA GuardFill ==
  ASSUME DistinctStems, GuardInv, Serial', pc \in Stage \cup {"empty"}, pc' \in Stage \cup {"hook"},
         UNCHANGED <<hooks, target, policy, gen, cleaner>>,
         \A c \in Chain : c # gen => chains'[c] = chains[c],
         \A n \in DOMAIN Program :
           pc' = Program[n] => chains'[gen] = [policy |-> policy, rules |-> {Program[m] : m \in 1 .. n - 1}],
         pc' = "hook" => chains'[gen] = Whole(policy)
  PROVE  GuardParts'
<1>1. \A i \in Iface, c \in Chain : Hooked(i, c) => c # gen
  BY FilledUnhooked
<1>2. WholeChains' /\ OneChain' /\ Clearing'
  <2>1. cpc = "idle" /\ cpc' = "idle" /\ pc # "unhook"
    BY DEF GuardInv, Serial, Stage, cleaner
  <2>. QED
    BY <1>1, <2>1, SameJumps, SameHooks DEF GuardInv, GuardParts, WholeChains, Clearing
<1>3. Filling'
  <2>1. ~Hooked(target, gen)'
    BY SameJumps DEF GuardInv, GuardParts, Filling
  <2>2. pc' # "unhook" /\ pc' # "empty"
    BY DEF Stage
  <2>. QED
    BY <2>1, <2>2 DEF Filling
<1>. QED
  BY <1>2, <1>3 DEF GuardParts

LEMMA GuardEmpty ==
  ASSUME DistinctStems, GuardInv, Serial', EmptyChain
  PROVE  GuardParts'
<1>1. CASE chains' = [chains EXCEPT ![gen] = Empty(policy)] /\ Go("block")
  <2>1. /\ pc \in Stage \cup {"empty"} /\ pc' \in Stage \cup {"hook"} /\ pc' = "block"
        /\ UNCHANGED <<hooks, target, policy, gen, cleaner>>
    BY <1>1 DEF EmptyChain, Go, Stage
  <2>2. chains'[gen] = Empty(policy) /\ \A c \in Chain : c # gen => chains'[c] = chains[c]
    BY <1>1 DEF GuardInv, TypeOK
  <2>3. ASSUME NEW n \in DOMAIN Program, pc' = Program[n]
        PROVE  chains'[gen] = [policy |-> policy, rules |-> {Program[m] : m \in 1 .. n - 1}]
    <3>1. n = 1
      BY <2>1, <2>3, ConstantTypes DEF Program
    <3>2. {Program[m] : m \in 1 .. n - 1} = {}
      BY <3>1
    <3>. QED
      BY <2>2, <3>2 DEF Empty
  <2>. QED
    BY <2>1, <2>2, <2>3, GuardFill
<1>2. CASE UNCHANGED chains /\ Return
  BY <1>2, GuardReturn DEF EmptyChain
<1>. QED
  BY <1>1, <1>2 DEF EmptyChain

LEMMA GuardAppend ==
  ASSUME DistinctStems, GuardInv, Serial', NEW n \in DOMAIN Program, AppendRule(n)
  PROVE  GuardParts'
<1>1. pc = Program[n] /\ pc \in Stage /\ n \in 1 .. 4
  BY ConstantTypes DEF AppendRule
<1>2. CASE /\ chains' = [chains EXCEPT ![gen].rules = @ \cup {Program[n]}]
           /\ Go(IF n = Len(Program) THEN "hook" ELSE Program[n + 1])
  <2>1. /\ pc' = IF n = 4 THEN "hook" ELSE Program[n + 1]
        /\ UNCHANGED <<hooks, target, policy, gen, cleaner>>
    BY <1>2, ConstantTypes DEF AppendRule, Go
  <2>2. chains[gen] = [policy |-> policy, rules |-> {Program[m] : m \in 1 .. n - 1}]
    BY <1>1 DEF GuardInv, GuardParts, Filling
  <2>3. /\ chains'[gen] = [chains[gen] EXCEPT !.rules = @ \cup {Program[n]}]
        /\ \A c \in Chain : c # gen => chains'[c] = chains[c]
    BY <1>2 DEF GuardInv, TypeOK
  <2>4. {Program[m] : m \in 1 .. n - 1} \cup {Program[n]} = {Program[m] : m \in 1 .. n}
    BY <1>1
  <2>5. chains'[gen] = [policy |-> policy, rules |-> {Program[m] : m \in 1 .. n}]
    <3>. DEFINE stages == {Program[m] : m \in 1 .. n - 1}
                r == Program[n]
    <3>1. chains[gen] = [policy |-> policy, rules |-> stages]
      BY <2>2
    <3>2. chains'[gen] = [chains[gen] EXCEPT !.rules = @ \cup {r}]
      BY <2>3
    <3>. HIDE DEF stages, r
    <3>3. chains'[gen] = [policy |-> policy, rules |-> stages \cup {r}]
      BY <3>1, <3>2
    <3>. QED
      BY <2>4, <3>3 DEF stages, r
  <2>6. pc' \in Stage \cup {"hook"}
    BY <1>1, <2>1, ConstantTypes
  <2>7. ASSUME NEW l \in DOMAIN Program, pc' = Program[l]
        PROVE  chains'[gen] = [policy |-> policy, rules |-> {Program[m] : m \in 1 .. l - 1}]
    <3>1. l = n + 1
      BY <1>1, <2>1, <2>7, ConstantTypes DEF Program
    <3>2. l - 1 = n
      BY <1>1, <3>1
    <3>. QED
      BY <2>5, <3>2
  <2>8. ASSUME pc' = "hook" PROVE chains'[gen] = Whole(policy)
    <3>1. n = 4
      BY <1>1, <2>1, <2>8, ConstantTypes DEF Program
    <3>2. {Program[m] : m \in 1 .. 4} = Stage
      <4>1. {Program[m] : m \in 1 .. 4} = {Program[1], Program[2], Program[3], Program[4]}
        OBVIOUS
      <4>. QED
        BY <4>1 DEF Program, Stage
    <3>. QED
      BY <2>5, <3>1, <3>2 DEF Whole
  <2>. QED
    BY <1>1, <2>1, <2>3, <2>6, <2>7, <2>8, GuardFill
<1>3. CASE UNCHANGED chains /\ Return
  <2>1. pc # "idle" /\ pc # "unhook"
    BY <1>1 DEF Stage
  <2>. QED
    BY <1>3, <2>1, GuardReturn DEF AppendRule
<1>. QED
  BY <1>2, <1>3 DEF AppendRule

LEMMA GuardHook ==
  ASSUME DistinctStems, GuardInv, Serial', HookChain
  PROVE  /\ GuardParts'
         /\ \/ UNCHANGED <<hooks, chains>>
            \/ /\ hooks' = [hooks EXCEPT ![target] = <<gen>> \o @]
               /\ UNCHANGED <<chains, target, policy, gen>> /\ pc' = "unhook"
<1>1. /\ pc = "hook" /\ cpc = "idle" /\ cpc' = "idle" /\ ~Hooked(target, gen)
      /\ chains[gen] = Whole(policy) /\ UNCHANGED chains
  BY DEF HookChain, GuardInv, GuardParts, Serial, Filling, cleaner
<1>2. CASE /\ hooks' = [hooks EXCEPT ![target] = <<gen>> \o @]
           /\ Go("unhook")
  <2>1. /\ hooks' \in [Iface -> Seq(Chain)]
        /\ Len(hooks'[target]) = Len(hooks[target]) + 1 /\ hooks'[target][1] = gen
        /\ \A j \in Iface, d \in Chain : Hooked(j, d)' <=> Hooked(j, d) \/ (j = target /\ d = gen)
        /\ \A j \in Iface : j # target => hooks'[j] = hooks[j]
    BY <1>2, JumpInserted DEF GuardInv, TypeOK
  <2>2. pc' = "unhook" /\ UNCHANGED <<target, policy, gen>> /\ policy \in Policies /\ target \in Iface
    BY <1>2 DEF Go, GuardInv, TypeOK
  <2>3. WholeChains'
    BY <1>1, <2>1, <2>2 DEF GuardInv, GuardParts, WholeChains
  <2>4. OneChain'
    <3>1. \A j \in Iface : Len(hooks[j]) \in {0, 1}
      BY <1>1 DEF GuardInv, GuardParts, OneChain
    <3>2. Len(hooks'[target]) = 1 \/ Len(hooks'[target]) = 2
      <4>1. Len(hooks[target]) = 0 \/ Len(hooks[target]) = 1
        BY <2>2, <3>1
      <4>2. Len(hooks'[target]) = Len(hooks[target]) + 1
        BY <2>1
      <4>3. \A m, n : (m = 0 \/ m = 1) /\ n = m + 1 => n = 1 \/ n = 2
        OBVIOUS
      <4>. QED
        BY <4>1, <4>2, <4>3, Zenon
    <3>3. \A j \in Iface : j # target => Len(hooks'[j]) \in {0, 1}
      BY <2>1, <3>1
    <3>4. target' = target /\ pc' = "unhook"
      BY <2>2
    <3>. QED
      BY <3>2, <3>3, <3>4 DEF OneChain
  <2>5. Clearing'
    BY <1>1 DEF Clearing
  <2>6. Filling'
    <3>1. hooks'[target] # <<>>
      <4>1. hooks'[target] \in Seq(Chain) /\ hooks[target] \in Seq(Chain)
        BY <2>1, <2>2 DEF GuardInv, TypeOK
      <4>. QED
        BY <2>1, <4>1
    <3>2. \A n \in DOMAIN Program : Program[n] # "unhook"
      BY ConstantTypes DEF Stage
    <3>. QED
      BY <1>1, <2>1, <2>2, <3>1, <3>2 DEF Filling, Stage
  <2>. QED
    BY <1>1, <1>2, <2>2, <2>3, <2>4, <2>5, <2>6 DEF GuardParts
<1>3. CASE UNCHANGED hooks /\ Return
  BY <1>1, <1>3, GuardReturn DEF HookChain
<1>. QED
  BY <1>1, <1>2, <1>3 DEF HookChain

\* The old generation is unhooked behind the new one, which stays first.
LEMMA GuardUnhook ==
  ASSUME DistinctStems, FailsSafely, GuardInv, HookedOnce', Serial', UnhookOld
  PROVE  /\ GuardParts'
         /\ UNCHANGED chains
         /\ \A i \in Iface : i # target => hooks'[i] = hooks[i]
         /\ hooks[target] # <<>> /\ hooks'[target] # <<>>
         /\ hooks[target][1] = gen /\ hooks'[target][1] = gen
         /\ chains[gen] = Whole(policy)
<1>1. /\ pc = "unhook" /\ cpc = "idle" /\ cpc' = "idle" /\ UNCHANGED chains
      /\ chains[gen] = Whole(policy) /\ hooks[target] # <<>> /\ hooks[target][1] = gen
  BY DEF UnhookOld, GuardInv, GuardParts, Serial, Filling, cleaner
<1>2. /\ hooks \in [Iface -> Seq(Chain)] /\ target \in Iface /\ gen \in Chain /\ policy \in Policies
      /\ hooks[target] \in Seq(Chain) /\ Len(hooks[target]) \in {1, 2}
  <2>1. /\ hooks \in [Iface -> Seq(Chain)] /\ target \in Iface /\ gen \in Chain /\ policy \in Policies
        /\ hooks[target] \in Seq(Chain) /\ Len(hooks[target]) \in {0, 1, 2}
    BY DEF GuardInv, GuardParts, OneChain, TypeOK
  <2>2. Len(hooks[target]) # 0
    BY <1>1, <2>1
  <2>. QED
    BY <2>1, <2>2
<1>3. \A j \in Iface : j # target => Len(hooks[j]) \in {0, 1}
  BY DEF GuardInv, GuardParts, OneChain
<1>4. \A n \in DOMAIN Program : Program[n] \notin {"idle", "unhook"}
  BY ConstantTypes DEF Stage
<1>5. ASSUME NEW c \in Chain, c # gen, Hooked(target, c),
             hooks' = [hooks EXCEPT ![target] = RemoveFirst(@, c)], Go("unhook")
      PROVE  /\ GuardParts' /\ hooks'[target] # <<>> /\ hooks'[target][1] = gen
             /\ \A i \in Iface : i # target => hooks'[i] = hooks[i]
  <2>1. /\ Len(hooks'[target]) = Len(hooks[target]) - 1
        /\ hooks[target][1] # c => hooks'[target] # <<>> /\ hooks'[target][1] = hooks[target][1]
        /\ \A j \in Iface, d \in Chain : Hooked(j, d)' => Hooked(j, d)
        /\ \A i \in Iface : i # target => hooks'[i] = hooks[i]
    BY <1>2, <1>5, JumpRemoved
  <2>2. pc' = "unhook" /\ UNCHANGED <<target, policy, gen>>
    BY <1>5 DEF Go
  <2>3. hooks'[target] # <<>> /\ hooks'[target][1] = gen
    BY <1>1, <1>5, <2>1
  <2>4. WholeChains'
    BY <1>1, <2>1 DEF GuardInv, GuardParts, WholeChains
  <2>5. OneChain'
    <3>1. Len(hooks'[target]) \in {0, 1}
      BY <1>2, <2>1
    <3>. QED
      BY <1>3, <2>1, <3>1 DEF OneChain
  <2>6. Filling' /\ Clearing'
    BY <1>1, <1>4, <2>2, <2>3 DEF Filling, Clearing, Stage
  <2>. QED
    BY <2>1, <2>3, <2>4, <2>5, <2>6 DEF GuardParts
<1>6. ASSUME \A g \in Generation : <<StemOf[target], g>> # gen => ~Hooked(target, <<StemOf[target], g>>),
             UNCHANGED hooks, Return
      PROVE  GuardParts'
  <2>1. Len(hooks[target]) = 1
    <3>1. SUFFICES ASSUME Len(hooks[target]) = 2 PROVE FALSE
      BY <1>2
    <3>. DEFINE c == hooks[target][2]
    <3>2. 1 \in DOMAIN hooks[target] /\ 2 \in DOMAIN hooks[target]
      BY <1>2, <3>1
    <3>3. c \in Chain /\ Hooked(target, c)
      <4>1. c \in Chain
        <5>1. 2 \in 1 .. Len(hooks[target])
          BY <3>1
        <5>. QED
          BY <1>2, <5>1, ElementOfSeq
      <4>. QED
        BY <3>2, <4>1 DEF Hooked
    <3>4. c # gen
      BY <1>1, <1>2, <3>2 DEF GuardInv, HookedOnce
    <3>5. c = <<StemOf[target], c[2]>> /\ c[2] \in Generation
      <4>1. c[1] = StemOf[target]
        BY <1>2, <3>3 DEF GuardInv, OwnChains
      <4>2. c \in Stem \X Generation
        BY <3>3 DEF Chain
      <4>. HIDE DEF c
      <4>. QED
        BY <4>1, <4>2
    <3>. HIDE DEF c
    <3>. QED
      BY <1>6, <3>3, <3>4, <3>5
  <2>2. pc' = "idle"
    BY <1>6 DEF Return
  <2>3. OneChain'
    BY <1>3, <1>6, <2>1 DEF OneChain
  <2>4. WholeChains' /\ Filling' /\ Clearing'
    BY <1>1, <1>4, <1>6, <2>2, SameJumps DEF GuardInv, GuardParts, WholeChains, Filling, Clearing, Stage
  <2>. QED
    BY <2>3, <2>4 DEF GuardParts
<1>7. "unhook" \notin MayFail
  BY DEF FailsSafely
<1>8. \A g \in Generation : <<StemOf[target], g>> \in Chain
  BY <1>2, ConstantTypes
<1>. QED
  BY <1>1, <1>5, <1>6, <1>7, <1>8 DEF UnhookOld, Fails

LEMMA GuardClean ==
  ASSUME FailsSafely, GuardInv, Serial', CleanStep
  PROVE  GuardParts'
<1>1. /\ pc = "idle" /\ UNCHANGED <<pc, target, policy, gen>> /\ cpc # "idle"
      /\ \A n \in DOMAIN Program : Program[n] # "idle"
  <2>1. cpc # "idle" /\ UNCHANGED applier
    BY DEF CleanStep, CleanNext, CleanUnhook, CleanFlush, CleanDelete, CleanEnd
  <2>. QED
    BY <2>1, ConstantTypes DEF GuardInv, Serial, applier, Stage
<1>2. Filling'
  BY <1>1 DEF Filling, Stage
<1>3. "clean" \notin MayFail
  BY DEF FailsSafely
<1>4. ASSUME NEW c \in listed, CleanNext(c) PROVE GuardParts'
  <2>1. UNCHANGED <<chains, hooks>> /\ cpc = "next" /\ cpc' = "unhook" /\ cur' = c /\ listed' = listed \ {c}
    BY <1>4 DEF CleanNext
  <2>2. WholeChains' /\ OneChain' /\ Clearing'
    BY <1>1, <2>1, SameJumps, SameHooks DEF GuardInv, GuardParts, WholeChains, Clearing
  <2>. QED
    BY <1>2, <2>2 DEF GuardParts
<1>5. ASSUME CleanUnhook PROVE GuardParts'
  <2>1. UNCHANGED <<chains, cur, listed>> /\ cpc = "unhook"
    BY <1>5 DEF CleanUnhook
  <2>2. ASSUME NEW i \in Iface, Hooked(i, cur), UNCHANGED cpc,
               hooks' = [hooks EXCEPT ![i] = RemoveFirst(@, cur)]
        PROVE  WholeChains' /\ OneChain' /\ Clearing'
    <3>1. /\ Len(hooks'[i]) = Len(hooks[i]) - 1
          /\ \A j \in Iface, d \in Chain : Hooked(j, d)' => Hooked(j, d)
          /\ \A j \in Iface : j # i => hooks'[j] = hooks[j]
          /\ hooks' \in [Iface -> Seq(Chain)]
      BY <2>2, JumpRemoved DEF GuardInv, TypeOK
    <3>2. WholeChains' /\ Clearing'
      BY <2>1, <2>2, <3>1 DEF GuardInv, GuardParts, WholeChains, Clearing
    <3>3. \A j \in Iface : Len(hooks[j]) \in {0, 1}
      BY <1>1 DEF GuardInv, GuardParts, OneChain
    <3>4. Len(hooks'[i]) \in Nat
      BY <3>1
    <3>5. \A j \in Iface : Len(hooks'[j]) \in {0, 1}
      <4>1. Len(hooks'[i]) \in {0, 1}
        BY <3>1, <3>3, <3>4
      <4>. QED
        BY <3>1, <3>3, <4>1
    <3>6. OneChain'
      BY <3>5 DEF OneChain
    <3>. QED
      BY <3>2, <3>6
  <2>3. ASSUME ~HookedAnywhere(cur), cpc' = "flush", UNCHANGED hooks
        PROVE  WholeChains' /\ OneChain' /\ Clearing'
    BY <1>1, <2>1, <2>3, SameJumps, SameHooks
       DEF GuardInv, GuardParts, WholeChains, Clearing, HookedAnywhere
  <2>. QED
    BY <1>2, <1>3, <1>5, <2>2, <2>3 DEF GuardParts, CleanUnhook, Fails
<1>6. ASSUME CleanFlush \/ CleanDelete PROVE GuardParts'
  <2>1. /\ UNCHANGED <<hooks, cur, listed>> /\ cpc \in {"flush", "delete"} /\ cpc' \in {"delete", "next"}
        /\ \A c \in Chain : c # cur => chains'[c] = chains[c]
    BY <1>6 DEF CleanFlush, CleanDelete, GuardInv, TypeOK
  <2>2. ~HookedAnywhere(cur)
    BY <2>1 DEF GuardInv, GuardParts, Clearing
  <2>3. WholeChains' /\ OneChain' /\ Clearing'
    BY <1>1, <2>1, <2>2, SameJumps, SameHooks DEF GuardInv, GuardParts, WholeChains, Clearing, HookedAnywhere
  <2>. QED
    BY <1>2, <2>3 DEF GuardParts
<1>7. ASSUME CleanEnd PROVE GuardParts'
  <2>1. WholeChains' /\ OneChain' /\ Clearing'
    BY <1>1, <1>7, SameJumps, SameHooks DEF CleanEnd, GuardInv, GuardParts, WholeChains, Clearing
  <2>. QED
    BY <1>2, <2>1 DEF GuardParts
<1>. QED
  BY <1>4, <1>5, <1>6, <1>7 DEF CleanStep

LEMMA NextGuard ==
  ASSUME DistinctStems, FailsSafely, GuardInv, [SerialNext]_vars
  PROVE  GuardInv'
<1>1. /\ TypeOK /\ HookedOnce /\ OwnChains /\ [Next]_vars
  BY DEF GuardInv, SerialNext
<1>2. TypeOK' /\ HookedOnce' /\ OwnChains'
  BY <1>1, NextTypes, NextOnce, NextOwnChains
<1>3. Serial'
  BY DEF GuardInv, Serial, SerialNext, vars
<1>4. GuardParts'
  <2>1. CASE ApplyStep
    BY <1>2, <1>3, <2>1, GuardEmpty, GuardAppend, GuardHook, GuardUnhook DEF ApplyStep
  <2>2. CASE CleanStep
    BY <1>3, <2>2, GuardClean
  <2>3. CASE CleanBegin
    <3>1. /\ pc = "idle" /\ UNCHANGED <<chains, hooks, pc, target, policy, gen>>
          /\ cpc' = "next" /\ listed' = {c \in Chain : chains[c] # NoChain}
          /\ \A n \in DOMAIN Program : Program[n] # "idle"
      BY <1>3, <2>3, ConstantTypes DEF CleanBegin, applier, Serial, Stage
    <3>2. WholeChains' /\ OneChain' /\ Clearing' /\ Filling'
      BY <1>1, <3>1, SameJumps, SameHooks
         DEF TypeOK, GuardInv, GuardParts, WholeChains, Clearing, Filling, Stage
    <3>. QED
      BY <3>2 DEF GuardParts
  <2>4. ASSUME NEW i \in Iface, NEW p \in Policies, ChooseGeneration(i, p) PROVE GuardParts'
    BY <1>3, <2>4, GuardChoose
  <2>5. ~Crash
    BY DEF Crash, FailsSafely, Fails
  <2>6. CASE UNCHANGED vars
    BY <2>6, SameJumps
       DEF vars, GuardInv, GuardParts, WholeChains, OneChain, Filling, Clearing, HookedAnywhere
  <2>. QED
    BY <1>1, <2>1, <2>2, <2>3, <2>4, <2>5, <2>6 DEF Next
<1>. QED
  BY <1>2, <1>3, <1>4 DEF GuardInv

\* With one chain hooked first and whole, the interface enforces its policy;
\* without jumps it is unguarded.
LEMMA VerdictShown ==
  TypeOK => \A i \in Iface :
              /\ hooks[i] = <<>> => verdict[i] = AtomicGuard!Unguarded
              /\ \A p \in Policies :
                   hooks[i] # <<>> /\ chains[hooks[i][1]] = Whole(p) => verdict[i] = AtomicGuard!Enforce(p)
<1>. SUFFICES ASSUME TypeOK, NEW i \in Iface
              PROVE  /\ hooks[i] = <<>> => verdict[i] = AtomicGuard!Unguarded
                     /\ \A p \in Policies :
                          hooks[i] # <<>> /\ chains[hooks[i][1]] = Whole(p)
                            => verdict[i] = AtomicGuard!Enforce(p)
  OBVIOUS
<1>1. verdict[i] = [k \in Guard!Packet |-> Verdict(i, k)]
  BY DEF verdict
<1>2. ASSUME hooks[i] = <<>> PROVE verdict[i] = AtomicGuard!Unguarded
  <2>1. DOMAIN hooks[i] = {}
    BY <1>2
  <2>2. \A k : Verdict(i, k) = "accept"
    BY <2>1, VerdictIsFirst
  <2>. QED
    BY <1>1, <2>2 DEF AtomicGuard!Unguarded, AtomicGuard!Packet, Guard!Packet
<1>3. ASSUME NEW p \in Policies, hooks[i] # <<>>, chains[hooks[i][1]] = Whole(p)
      PROVE  verdict[i] = AtomicGuard!Enforce(p)
  <2>1. hooks[i] \in Seq(Chain)
    BY DEF TypeOK
  <2>2. 1 \in DOMAIN hooks[i] /\ \A n \in DOMAIN hooks[i] : n \in Nat /\ 1 <= n
    BY <1>3, <2>1
  <2>3. ASSUME NEW k PROVE Verdict(i, k) = ChainVerdict(Whole(p), k)
    <3>1. Decides(i, 1, k)
      BY <1>3, WholeChain DEF Decides
    <3>2. PICK n \in DOMAIN hooks[i] :
            /\ \A m \in DOMAIN hooks[i] : Decides(i, m, k) => n <= m
            /\ Verdict(i, k) = ChainVerdict(chains[hooks[i][n]], k)
      BY <2>2, <3>1, VerdictIsFirst
    <3>3. n = 1
      BY <2>2, <3>1, <3>2
    <3>. QED
      BY <1>3, <3>2, <3>3
  <2>. QED
    BY <1>1, <2>3, WholeChain DEF AtomicGuard!Enforce, AtomicGuard!Packet, Guard!Packet
<1>. QED
  BY <1>2, <1>3

LEMMA VerdictShownNext ==
  (TypeOK => \A i \in Iface :
               /\ hooks[i] = <<>> => verdict[i] = AtomicGuard!Unguarded
               /\ \A p \in Policies :
                    hooks[i] # <<>> /\ chains[hooks[i][1]] = Whole(p) => verdict[i] = AtomicGuard!Enforce(p))'
BY VerdictShown, PTL

\* A step that changes no jump and no hooked chain is invisible.
LEMMA SameVerdicts ==
  ASSUME TypeOK, UNCHANGED hooks,
         \A i \in Iface, c \in Chain : Hooked(i, c) => chains'[c] = chains[c]
  PROVE  UNCHANGED verdict
<1>1. \A i \in Iface : \A k : Verdict(i, k)' = Verdict(i, k)
  BY SameVerdict
<1>. QED
  BY <1>1 DEF verdict

LEMMA InitAbstract ==
  ASSUME Init
  PROVE  AtomicGuard!Init
<1>1. GuardInv /\ TypeOK
  BY InitGuard DEF GuardInv
<1>2. ASSUME NEW i \in Iface
      PROVE  verdict[i] \in {AtomicGuard!Unguarded} \cup {AtomicGuard!Enforce(p) : p \in Policies}
  <2>1. CASE hooks[i] = <<>>
    BY <1>1, <2>1, VerdictShown
  <2>2. CASE hooks[i] # <<>>
    <3>1. hooks[i] \in Seq(Chain)
      BY <1>1 DEF TypeOK
    <3>2. 1 \in DOMAIN hooks[i] /\ hooks[i][1] \in Chain
      BY <2>2, <3>1
    <3>3. Hooked(i, hooks[i][1])
      BY <3>2 DEF Hooked
    <3>4. PICK p \in Policies : chains[hooks[i][1]] = Whole(p)
      BY <1>1, <3>2, <3>3 DEF GuardInv, GuardParts, WholeChains
    <3>. QED
      BY <1>1, <2>2, <3>4, VerdictShown
  <2>. QED
    BY <2>1, <2>2
<1>3. verdict = [i \in Iface |-> verdict[i]]
  BY DEF verdict
<1>4. cleaning = FALSE
  BY DEF Init, cleaning
<1>. QED
  BY <1>2, <1>3, <1>4 DEF AtomicGuard!Init

\* The step that hooks a chain installs its policy at once; unhooking the old
\* chain is invisible behind it.
LEMMA ApplyAbstract ==
  ASSUME DistinctStems, FailsSafely, GuardInv, GuardInv', ApplyStep
  PROVE  \/ UNCHANGED <<verdict, cleaning>>
         \/ AtomicGuard!Install(target, policy) /\ target \in Iface /\ policy \in Policies
<1>1. /\ pc # "idle" /\ cpc = "idle" /\ UNCHANGED cpc /\ TypeOK /\ TypeOK' /\ Serial' /\ HookedOnce'
      /\ target \in Iface /\ policy \in Policies /\ gen \in Chain
      /\ \A n \in DOMAIN Program : Program[n] # "idle"
  BY ConstantTypes DEF GuardInv, Serial, ApplyStep, EmptyChain, AppendRule, HookChain, UnhookOld, cleaner,
                       TypeOK, Stage
<1>2. UNCHANGED cleaning /\ ~cleaning
  BY <1>1 DEF cleaning
<1>3. ASSUME pc \in Stage \cup {"empty"}, UNCHANGED hooks, \A c \in Chain : c # gen => chains'[c] = chains[c]
      PROVE  UNCHANGED verdict
  BY <1>1, <1>3, FilledUnhooked, SameVerdicts
<1>4. CASE EmptyChain
  BY <1>1, <1>2, <1>3, <1>4 DEF EmptyChain, TypeOK
<1>5. ASSUME NEW n \in DOMAIN Program, AppendRule(n) PROVE UNCHANGED verdict
  BY <1>1, <1>3, <1>5, ConstantTypes DEF AppendRule, TypeOK
<1>6. CASE HookChain
  <2>1. CASE UNCHANGED <<hooks, chains>>
    BY <1>1, <1>2, <2>1, SameVerdicts
  <2>2. CASE /\ hooks' = [hooks EXCEPT ![target] = <<gen>> \o @]
             /\ UNCHANGED <<chains, target, policy, gen>> /\ pc' = "unhook"
    <3>1. \A i \in Iface : i # target => hooks'[i] = hooks[i]
      BY <1>1, <2>2 DEF TypeOK
    <3>2. ASSUME NEW i \in Iface, i # target PROVE verdict'[i] = verdict[i]
      <4>1. \A k : Verdict(i, k)' = Verdict(i, k)
        BY <1>1, <2>2, <3>1, <3>2, SameVerdict
      <4>. QED
        BY <4>1 DEF verdict
    <3>3. hooks'[target] # <<>> /\ chains'[hooks'[target][1]] = Whole(policy)
      BY <2>2 DEF GuardInv, GuardParts, Filling
    <3>4. verdict'[target] = AtomicGuard!Enforce(policy)
      BY <1>1, <3>3, VerdictShownNext
    <3>5. verdict' = [verdict EXCEPT ![target] = AtomicGuard!Enforce(policy)]
      <4>1. verdict' = [i \in Iface |-> verdict'[i]] /\ verdict = [i \in Iface |-> verdict[i]]
        BY DEF verdict
      <4>. QED
        BY <3>2, <3>4, <4>1
    <3>. QED
      BY <1>1, <1>2, <3>5 DEF AtomicGuard!Install
  <2>. QED
    BY <1>1, <1>6, <2>1, <2>2, GuardHook
<1>7. CASE UnhookOld
  <2>1. /\ UNCHANGED chains
        /\ \A i \in Iface : i # target => hooks'[i] = hooks[i]
        /\ hooks[target] # <<>> /\ hooks'[target] # <<>>
        /\ hooks[target][1] = gen /\ hooks'[target][1] = gen
        /\ chains[gen] = Whole(policy)
    BY <1>1, <1>7, GuardUnhook
  <2>2. verdict[target] = AtomicGuard!Enforce(policy)
    BY <1>1, <2>1, VerdictShown
  <2>3. verdict'[target] = AtomicGuard!Enforce(policy)
    BY <1>1, <2>1, VerdictShownNext
  <2>4. ASSUME NEW i \in Iface, i # target PROVE verdict'[i] = verdict[i]
    <3>1. \A k : Verdict(i, k)' = Verdict(i, k)
      BY <1>1, <2>1, <2>4, SameVerdict
    <3>. QED
      BY <3>1 DEF verdict
  <2>5. verdict' = [i \in Iface |-> verdict'[i]] /\ verdict = [i \in Iface |-> verdict[i]]
    BY DEF verdict
  <2>. QED
    BY <1>2, <2>2, <2>3, <2>4, <2>5
<1>. QED
  BY <1>2, <1>4, <1>5, <1>6, <1>7 DEF ApplyStep

\* Unhooking the only chain of an interface clears it; a cleanup ends when no
\* chain is hooked.
LEMMA CleanAbstract ==
  ASSUME FailsSafely, GuardInv, GuardInv', CleanStep
  PROVE  \/ UNCHANGED <<verdict, cleaning>>
         \/ AtomicGuard!EndCleanup
         \/ \E i \in Iface : AtomicGuard!Clear(i)
<1>1. pc = "idle" /\ cpc # "idle" /\ cleaning /\ TypeOK /\ TypeOK'
  BY DEF GuardInv, Serial, CleanStep, CleanNext, CleanUnhook, CleanFlush, CleanDelete, CleanEnd, cleaning
<1>2. ASSUME NEW c \in listed, CleanNext(c) PROVE UNCHANGED <<verdict, cleaning>>
  BY <1>1, <1>2, SameVerdicts DEF CleanNext, cleaning
<1>3. CASE CleanUnhook
  <2>1. ASSUME NEW i \in Iface, Hooked(i, cur), hooks' = [hooks EXCEPT ![i] = RemoveFirst(@, cur)],
               UNCHANGED cpc
        PROVE  AtomicGuard!Clear(i)
    <3>1. /\ Len(hooks'[i]) = Len(hooks[i]) - 1
          /\ hooks' \in [Iface -> Seq(Chain)]
          /\ \A j \in Iface : j # i => hooks'[j] = hooks[j]
      BY <1>1, <2>1, JumpRemoved DEF TypeOK
    <3>2. Len(hooks[i]) \in {0, 1}
      BY <1>1 DEF GuardInv, GuardParts, OneChain
    <3>3. hooks'[i] = <<>>
      <4>1. hooks'[i] \in Seq(Chain) /\ Len(hooks'[i]) \in Nat
        BY <3>1
      <4>2. Len(hooks'[i]) = 0
        BY <3>1, <3>2, <4>1
      <4>. QED
        BY <4>1, <4>2
    <3>4. verdict'[i] = AtomicGuard!Unguarded
      BY <1>1, <3>3, VerdictShownNext
    <3>5. ASSUME NEW j \in Iface, j # i PROVE verdict'[j] = verdict[j]
      <4>1. \A k : Verdict(j, k)' = Verdict(j, k)
        BY <1>1, <1>3, <3>1, <3>5, SameVerdict DEF CleanUnhook
      <4>. QED
        BY <4>1 DEF verdict
    <3>6. verdict' = [j \in Iface |-> verdict'[j]] /\ verdict = [j \in Iface |-> verdict[j]]
      BY DEF verdict
    <3>7. verdict' = [verdict EXCEPT ![i] = AtomicGuard!Unguarded]
      BY <3>4, <3>5, <3>6
    <3>. QED
      BY <1>1, <2>1, <3>7 DEF AtomicGuard!Clear, cleaning
  <2>2. CASE cpc' = "flush" /\ UNCHANGED hooks
    BY <1>1, <1>3, <2>2, SameVerdicts DEF CleanUnhook, cleaning
  <2>. QED
    BY <1>3, <2>1, <2>2 DEF CleanUnhook
<1>4. CASE CleanFlush \/ CleanDelete
  <2>1. /\ UNCHANGED hooks /\ cpc \in {"flush", "delete"} /\ cpc' # "idle"
        /\ \A c \in Chain : c # cur => chains'[c] = chains[c]
    BY <1>1, <1>4 DEF CleanFlush, CleanDelete, TypeOK
  <2>2. ~HookedAnywhere(cur)
    BY <2>1 DEF GuardInv, GuardParts, Clearing
  <2>. QED
    BY <1>1, <2>1, <2>2, SameVerdicts DEF HookedAnywhere, cleaning
<1>5. CASE CleanEnd
  <2>1. \A i \in Iface, c \in Chain : ~Hooked(i, c)
    BY <1>1, <1>5 DEF CleanEnd, GuardInv, GuardParts, Clearing
  <2>2. ASSUME NEW i \in Iface PROVE verdict[i] = AtomicGuard!Unguarded
    <3>1. hooks[i] \in Seq(Chain)
      BY <1>1 DEF TypeOK
    <3>2. hooks[i] # <<>> => 1 \in DOMAIN hooks[i] /\ hooks[i][1] \in Chain
      BY <3>1
    <3>3. hooks[i] = <<>>
      BY <2>1, <3>2 DEF Hooked
    <3>. QED
      BY <1>1, <3>3, VerdictShown
  <2>3. UNCHANGED verdict /\ ~cleaning'
    BY <1>1, <1>5, SameVerdicts DEF CleanEnd, cleaning
  <2>4. verdict = [i \in Iface |-> verdict[i]]
    BY DEF verdict
  <2>. QED
    BY <1>1, <2>2, <2>3, <2>4 DEF AtomicGuard!EndCleanup, cleaning
<1>. QED
  BY <1>2, <1>3, <1>4, <1>5 DEF CleanStep

LEMMA NextAbstract ==
  ASSUME DistinctStems, FailsSafely, GuardInv, GuardInv', [SerialNext]_vars
  PROVE  [AtomicGuard!Next]_<<verdict, cleaning>>
<1>1. TypeOK
  BY DEF GuardInv
<1>2. CASE ApplyStep
  BY <1>2, ApplyAbstract DEF AtomicGuard!Next
<1>3. CASE CleanStep
  BY <1>3, CleanAbstract DEF AtomicGuard!Next
<1>4. CASE CleanBegin
  <2>1. UNCHANGED verdict
    BY <1>1, <1>4, SameVerdicts DEF CleanBegin
  <2>. QED
    BY <1>4, <2>1 DEF CleanBegin, cleaning, AtomicGuard!Next, AtomicGuard!BeginCleanup
<1>5. ASSUME NEW i \in Iface, NEW p \in Policies, ChooseGeneration(i, p)
      PROVE  UNCHANGED <<verdict, cleaning>>
  BY <1>1, <1>5, SameVerdicts DEF ChooseGeneration, cleaner, cleaning
<1>6. ~Crash
  BY DEF Crash, FailsSafely, Fails
<1>7. CASE UNCHANGED vars
  BY <1>1, <1>7, SameVerdicts DEF vars, cleaning
<1>. QED
  BY <1>2, <1>3, <1>4, <1>5, <1>6, <1>7 DEF SerialNext, Next

\* The chains, filled command by command and hooked last, are one whole policy
\* that changes at once.  A failing chain creation, append or hook does no
\* harm; a failing unhook or a crash may leave two generations hooked, after
\* which the refinement is lost, and so is it for shared chain names.
THEOREM ImplementsEgressGuard ==
  ASSUME DistinctStems, FailsSafely
  PROVE  SerialSpec => Atomic
<1>1. Init => GuardInv /\ AtomicGuard!Init
  BY InitGuard, InitAbstract
<1>2. GuardInv /\ [SerialNext]_vars => GuardInv'
  BY NextGuard
<1>3. GuardInv /\ GuardInv' /\ [SerialNext]_vars => [AtomicGuard!Next]_<<verdict, cleaning>>
  BY NextAbstract
<1>. QED
  BY <1>1, <1>2, <1>3, PTL DEF SerialSpec, Atomic, AtomicGuard!Spec

\* Under the same conditions no chain is flushed while it is hooked.
THEOREM NoFlushInPlaceAlways ==
  ASSUME DistinctStems, FailsSafely
  PROVE  SerialSpec => NoFlushInPlace
<1>1. Init => GuardInv
  BY InitGuard
<1>2. GuardInv /\ [SerialNext]_vars => GuardInv'
  BY NextGuard
<1>3. GuardInv => [pc = "empty" /\ pc' = "block" => ~HookedAnywhere(gen)]_vars
  BY FilledUnhooked DEF HookedAnywhere
<1>. QED
  BY <1>1, <1>2, <1>3, PTL DEF SerialSpec, NoFlushInPlace

=============================================================================
