---------------------------- MODULE SetupProofs -----------------------------
(***************************************************************************)
(* What module Setup promises, for every file, .env, host and link: a      *)
(* second autoconfig changes nothing, none drops what a user wrote, and an *)
(* accepted configuration enforces the .env.                               *)
(***************************************************************************)
EXTENDS Setup, PolicyProofs

-----------------------------------------------------------------------------
(* Lists that grow *)

\* The positions that Fresh() keeps.
FreshIn(S, keys, more) ==
  {k \in DOMAIN more : keys[k] \notin S /\ \A j \in 1 .. k - 1 : keys[j] # keys[k]}

LEMMA FreshElements ==
  ASSUME NEW T, NEW more \in Seq(T), NEW keys, NEW S
  PROVE  Fresh(S, keys, more) \in Seq(T) /\ ToSet(Fresh(S, keys, more)) \subseteq ToSet(more)
<1>1. FreshIn(S, keys, more) \in SUBSET DOMAIN more
  BY DEF FreshIn
<1>2. Fresh(S, keys, more) = Retained(more, FreshIn(S, keys, more))
  BY DEF Fresh, FreshIn
<1>. QED
  BY <1>1, <1>2, RetainedElements

\* Each key is in S or that of an element that is kept: the first with that key.
LEMMA FreshCovers ==
  ASSUME NEW T, NEW more \in Seq(T), NEW keys, NEW S, NEW k \in DOMAIN more,
         keys[k] \notin S
  PROVE  \E j \in DOMAIN more :
           keys[j] = keys[k] /\ more[j] \in ToSet(Fresh(S, keys, more))
<1>. DEFINE same == {j \in DOMAIN more : keys[j] = keys[k]}
            j == Min(same)
<1>1. Len(more) \in Nat /\ DOMAIN more = 1 .. Len(more)
  OBVIOUS
<1>2. j \in same /\ \A i \in same : j <= i
  <2>1. same \in SUBSET Nat /\ same # {}
    BY <1>1
  <2>. HIDE DEF same
  <2>. QED
    BY <2>1, LeastNumber
<1>. HIDE DEF j
<1>3. j \in DOMAIN more /\ keys[j] = keys[k]
  BY <1>2
<1>4. ASSUME NEW i \in 1 .. j - 1 PROVE keys[i] # keys[j]
  <2>1. i \in DOMAIN more /\ ~(j <= i)
    BY <1>1, <1>3
  <2>. QED
    BY <1>2, <1>3, <2>1
<1>5. j \in FreshIn(S, keys, more)
  BY <1>3, <1>4 DEF FreshIn
<1>6. FreshIn(S, keys, more) \in SUBSET DOMAIN more
  BY DEF FreshIn
<1>7. more[j] \in ToSet(Retained(more, FreshIn(S, keys, more)))
  BY <1>5, <1>6, RetainedAll
<1>8. Fresh(S, keys, more) = Retained(more, FreshIn(S, keys, more))
  BY DEF Fresh, FreshIn
<1>. QED
  BY <1>3, <1>7, <1>8

\* Nothing is new when every key is known.
LEMMA FreshNone ==
  ASSUME NEW more, NEW keys, NEW S, \A k \in DOMAIN more : keys[k] \in S
  PROVE  Fresh(S, keys, more) = <<>>
<1>1. FreshIn(S, keys, more) = {}
  BY DEF FreshIn
<1>2. Fresh(S, keys, more) = Retained(more, FreshIn(S, keys, more))
  BY DEF Fresh, FreshIn
<1>. QED
  BY <1>1, <1>2, RetainedNone

\* A concatenation starts with its first part and, with nothing behind, is it.
LEMMA Extended ==
  ASSUME NEW T, NEW s \in Seq(T), NEW t \in Seq(T)
  PROVE  /\ IsPrefix(s, s \o t)
         /\ s \o <<>> = s
<1>1. s \o <<>> = s
  BY ConcatEmptySeq
<1>2. IsPrefix(s, s \o t)
  BY DEF IsPrefix
<1>. QED
  BY <1>1, <1>2

LEMMA AppendNewElements ==
  ASSUME NEW T, NEW s \in Seq(T), NEW more \in Seq(T)
  PROVE  /\ AppendNew(s, more) \in Seq(T)
         /\ ToSet(AppendNew(s, more)) = ToSet(s) \cup ToSet(more)
<1>. DEFINE new == Fresh(ToSet(s), more, more)
<1>1. new \in Seq(T) /\ ToSet(new) \subseteq ToSet(more)
  BY FreshElements
<1>2. ASSUME NEW k \in DOMAIN more PROVE more[k] \in ToSet(s) \cup ToSet(new)
  BY FreshCovers
<1>3. AppendNew(s, more) = s \o new
  BY DEF AppendNew
<1>. HIDE DEF new
<1>4. s \o new \in Seq(T) /\ ToSet(s \o new) = ToSet(s) \cup ToSet(new)
  BY <1>1, ElementsOfConcat
<1>5. ToSet(more) \subseteq ToSet(s) \cup ToSet(new)
  BY <1>2 DEF ToSet
<1>. QED
  BY <1>1, <1>3, <1>4, <1>5

\* Appending again what is there changes nothing.
LEMMA AppendNewNone ==
  ASSUME NEW T, NEW s \in Seq(T), NEW more \in Seq(T), ToSet(more) \subseteq ToSet(s)
  PROVE  AppendNew(s, more) = s
<1>1. \A k \in DOMAIN more : more[k] \in ToSet(s)
  BY DEF ToSet
<1>2. Fresh(ToSet(s), more, more) = <<>>
  BY <1>1, FreshNone
<1>. QED
  BY <1>2, Extended DEF AppendNew

\* FlattenSeq() yields a list of the elements: its recursion is defined for
\* every prefix of the list, since there is no first one for which it is not.
LEMMA Flattened ==
  ASSUME NEW T, NEW ss \in Seq(Seq(T))
  PROVE  FlattenSeq(ss) \in Seq(T)
<1>. DEFINE N == Len(ss)
            Concats(f, n) == /\ f \in [1 .. n -> Seq(T)]
                             /\ \A i \in 1 .. n : f[i] = IF i = 1 THEN ss[i] ELSE f[i - 1] \o ss[i]
            missing == {n \in 1 .. N : ~\E f : Concats(f, n)}
            flat[i \in 1 .. N] == IF i = 1 THEN ss[i] ELSE flat[i - 1] \o ss[i]
<1>1. N \in Nat /\ \A i \in 1 .. N : ss[i] \in Seq(T)
  OBVIOUS
<1>2. CASE N = 0
  <2>1. ss = <<>>
    BY <1>2
  <2>. QED
    BY <1>2, <2>1 DEF FlattenSeq
<1>3. CASE N # 0
  <2>1. missing = {}
    <3>. SUFFICES ASSUME missing # {} PROVE FALSE
      OBVIOUS
    <3>. DEFINE m == Min(missing)
    <3>1. m \in missing /\ \A n \in missing : m <= n
      <4>1. missing \in SUBSET Nat
        OBVIOUS
      <4>. HIDE DEF missing
      <4>. QED
        BY <4>1, LeastNumber
    <3>. HIDE DEF m
    <3>2. m \in 1 .. N /\ ~\E f : Concats(f, m)
      BY <3>1
    <3>3. CASE m = 1
      <4>1. Concats([i \in 1 .. 1 |-> ss[i]], 1)
        BY <1>1, <3>2, <3>3
      <4>. HIDE DEF Concats
      <4>. QED
        BY <3>2, <3>3, <4>1
    <3>4. CASE m # 1
      <4>1. m - 1 \in 1 .. N /\ ~(m <= m - 1)
        BY <1>1, <3>2, <3>4
      <4>2. m - 1 \notin missing
        BY <3>1, <4>1
      <4>3. \E f : Concats(f, m - 1)
        BY <4>1, <4>2
      <4>4. PICK f : Concats(f, m - 1)
        BY <4>3
      <4>. DEFINE last == f[m - 1] \o ss[m]
                  g == [i \in 1 .. m |-> IF i = m THEN last ELSE f[i]]
      <4>5. f[m - 1] \in Seq(T) /\ ss[m] \in Seq(T)
        BY <1>1, <3>2, <3>4, <4>4
      <4>6. last \in Seq(T)
        BY <4>5, ConcatProperties
      <4>7. \A i \in 1 .. m : i = m \/ i \in 1 .. m - 1
        BY <3>2
      <4>. HIDE DEF last
      <4>8. g \in [1 .. m -> Seq(T)]
        BY <4>4, <4>6, <4>7
      <4>9. ASSUME NEW i \in 1 .. m
            PROVE  g[i] = IF i = 1 THEN ss[i] ELSE g[i - 1] \o ss[i]
        <5>1. CASE i = m
          <6>1. g[i] = last /\ i # 1 /\ i - 1 \in 1 .. m /\ i - 1 # m
            BY <1>1, <3>2, <3>4, <5>1
          <6>2. g[i - 1] = f[m - 1]
            BY <5>1, <6>1
          <6>. QED
            BY <5>1, <6>1, <6>2 DEF last
        <5>2. CASE i \in 1 .. m - 1
          <6>1. g[i] = f[i] /\ (i # 1 => g[i - 1] = f[i - 1])
            BY <1>1, <3>2, <5>2
          <6>. QED
            BY <4>4, <5>2, <6>1
        <5>. QED
          BY <4>7, <5>1, <5>2
      <4>10. Concats(g, m)
        BY <4>8, <4>9
      <4>. HIDE DEF Concats, g
      <4>. QED
        BY <3>2, <4>10
    <3>. QED
      BY <3>3, <3>4
  <2>2. PICK f : Concats(f, N)
    <3>. HIDE DEF Concats
    <3>. QED
      BY <1>1, <1>3, <2>1
  <2>3. f = [i \in 1 .. N |-> IF i = 1 THEN ss[i] ELSE f[i - 1] \o ss[i]]
    BY <2>2
  <2>4. flat = [i \in 1 .. N |-> IF i = 1 THEN ss[i] ELSE flat[i - 1] \o ss[i]]
    BY <2>3
  <2>. DEFINE wrong == {n \in 1 .. N : flat[n] \notin Seq(T)}
  <2>5. wrong = {}
    <3>. SUFFICES ASSUME wrong # {} PROVE FALSE
      OBVIOUS
    <3>. DEFINE m == Min(wrong)
    <3>1. m \in wrong /\ \A n \in wrong : m <= n
      <4>. HIDE DEF flat
      <4>1. wrong \in SUBSET Nat
        OBVIOUS
      <4>. HIDE DEF wrong
      <4>. QED
        BY <4>1, LeastNumber
    <3>. HIDE DEF m, flat
    <3>2. m \in 1 .. N /\ flat[m] \notin Seq(T)
      BY <3>1
    <3>3. flat[m] = IF m = 1 THEN ss[m] ELSE flat[m - 1] \o ss[m]
      BY <2>4, <3>2
    <3>4. CASE m = 1
      BY <1>1, <3>2, <3>3, <3>4
    <3>5. CASE m # 1
      <4>1. m - 1 \in 1 .. N /\ ~(m <= m - 1)
        BY <1>1, <3>2, <3>5
      <4>2. flat[m - 1] \in Seq(T) /\ ss[m] \in Seq(T)
        BY <1>1, <3>1, <3>2, <4>1
      <4>. QED
        BY <3>2, <3>3, <3>5, <4>2, ConcatProperties
    <3>. QED
      BY <3>4, <3>5
  <2>6. FlattenSeq(ss) = flat[N]
    BY <1>3 DEF FlattenSeq
  <2>. HIDE DEF flat
  <2>7. flat[N] \in Seq(T)
    BY <1>1, <1>3, <2>5
  <2>. QED
    BY <2>6, <2>7
<1>. QED
  BY <1>2, <1>3

\* A finite set has a list of its elements.
LEMMA SeqOfSet ==
  ASSUME NEW S, IsFiniteSet(S)
  PROVE  SetToSeq(S) \in Seq(S)
<1>. DEFINE n == Cardinality(S)
<1>1. n \in Nat /\ ExistsBijection(1 .. n, S)
  BY FS_CardinalityType
<1>2. \E f \in [1 .. n -> S] : IsInjective(f)
  BY <1>1 DEF ExistsBijection, Bijection, Injection
<1>3. SetToSeq(S) \in [1 .. n -> S]
  BY <1>2 DEF SetToSeq
<1>. QED
  BY <1>1, <1>3

-----------------------------------------------------------------------------
(* Types *)

TargetSpec == [net : Dst, port : Port \cup {NoPort}]
Host == [domain : Domain, port : Port \cup {NoPort}]

LEMMA SetupFields ==
  ASSUME NEW c \in SetupConfig
  PROVE  /\ c.wan \in Dev \cup {AutoWan} /\ c.manual \in BOOLEAN
         /\ c.targets \in Seq(SetupTarget) /\ c.lan_domains \in Seq(Domain)
         /\ c.networks \in Seq(SetupNetwork) /\ c.local_dns \in [Domain -> Seq(Addr)]
         /\ c.blacklist \in SUBSET Dst /\ c.lan_interfaces \in Seq(Dev)
BY DEF SetupConfig

LEMMA EnvFields ==
  ASSUME NEW e \in Env
  PROVE  /\ e.prefixes \in Seq(TargetSpec) /\ e.hosts \in Seq(Host)
         /\ e.domains \in Seq(Domain) /\ e.records \in [Domain -> Seq(Addr)]
         /\ e.blacklist \in SUBSET Dst /\ e.lan \in Seq(Dev)
         /\ e.wan \in Dev \cup {NoDev} /\ e.fallback \in {"drop", "wan"}
BY DEF Env, TargetSpec, Host

LEMMA RecordsElements ==
  ASSUME NEW c \in SetupConfig, NEW e \in Env
  PROVE  /\ Records(c, e) \in [Domain -> Seq(Addr)]
         /\ \A d \in Domain :
              ToSet(Records(c, e)[d]) = ToSet(c.local_dns[d]) \cup ToSet(e.records[d])
<1>1. \A d \in Domain : c.local_dns[d] \in Seq(Addr) /\ e.records[d] \in Seq(Addr)
  BY SetupFields, EnvFields
<1>2. \A d \in Domain :
        /\ AppendNew(c.local_dns[d], e.records[d]) \in Seq(Addr)
        /\ ToSet(AppendNew(c.local_dns[d], e.records[d]))
             = ToSet(c.local_dns[d]) \cup ToSet(e.records[d])
  BY <1>1, AppendNewElements
<1>. QED
  BY <1>2 DEF Records

LEMMA HostDomainsType ==
  ASSUME NEW e \in Env
  PROVE  HostDomains(e) \in Seq(Domain)
<1>1. Len(e.hosts) \in Nat /\ DOMAIN e.hosts = 1 .. Len(e.hosts)
  BY EnvFields
<1>2. \A k \in 1 .. Len(e.hosts) : e.hosts[k].domain \in Domain
  <2>1. \A k \in 1 .. Len(e.hosts) : e.hosts[k] \in Host
    BY <1>1, EnvFields
  <2>. QED
    BY <2>1 DEF Host
<1>3. HostDomains(e) \in [1 .. Len(e.hosts) -> Domain]
  BY <1>1, <1>2 DEF HostDomains
<1>. QED
  BY <1>1, <1>3

\* The answers to the names among LAN_IPS are hosts.
LEMMA HostSpecsType ==
  ASSUME NEW c \in SetupConfig, NEW e \in Env
  PROVE  HostSpecs(c, e) \in Seq(TargetSpec)
<1>. DEFINE hosted(k) ==
              LET answers == Records(c, e)[e.hosts[k].domain]
              IN [j \in DOMAIN answers |-> [net |-> {answers[j]}, port |-> e.hosts[k].port]]
            lists == [k \in DOMAIN e.hosts |-> hosted(k)]
<1>1. /\ Len(e.hosts) \in Nat /\ DOMAIN e.hosts = 1 .. Len(e.hosts)
      /\ \A k \in DOMAIN e.hosts : e.hosts[k] \in Host
  BY EnvFields
<1>2. ASSUME NEW k \in DOMAIN e.hosts PROVE hosted(k) \in Seq(TargetSpec)
  <2>. DEFINE answers == Records(c, e)[e.hosts[k].domain]
  <2>1. e.hosts[k].domain \in Domain /\ e.hosts[k].port \in Port \cup {NoPort}
    BY <1>1 DEF Host
  <2>2. answers \in Seq(Addr)
    BY <2>1, RecordsElements
  <2>3. /\ Len(answers) \in Nat /\ DOMAIN answers = 1 .. Len(answers)
        /\ \A j \in DOMAIN answers : answers[j] \in Addr
    BY <2>2
  <2>4. \A j \in DOMAIN answers : {answers[j]} \in Dst
    BY <2>3, PrefixAssumption
  <2>. HIDE DEF answers
  <2>5. [j \in DOMAIN answers |-> [net |-> {answers[j]}, port |-> e.hosts[k].port]]
          \in [1 .. Len(answers) -> TargetSpec]
    BY <2>1, <2>3, <2>4 DEF TargetSpec
  <2>6. [j \in DOMAIN answers |-> [net |-> {answers[j]}, port |-> e.hosts[k].port]]
          \in Seq(TargetSpec)
    BY <2>3, <2>5
  <2>. QED
    BY <2>6 DEF answers
<1>3. HostSpecs(c, e) = FlattenSeq(lists)
  BY DEF HostSpecs
<1>. HIDE DEF hosted
<1>4. lists \in Seq(Seq(TargetSpec))
  <2>1. lists \in [1 .. Len(e.hosts) -> Seq(TargetSpec)]
    BY <1>1, <1>2
  <2>. QED
    BY <1>1, <2>1
<1>. HIDE DEF lists
<1>. QED
  BY <1>3, <1>4, Flattened

LEMMA SpecsType ==
  ASSUME NEW c \in SetupConfig, NEW e \in Env
  PROVE  e.prefixes \o HostSpecs(c, e) \in Seq(TargetSpec)
BY HostSpecsType, EnvFields, ConcatProperties

\* What a list of targets has of a .env.
Listed(targets, spec) ==
  \E t \in ToSet(targets) : ~t.bare /\ t.net = spec.net /\ t.port = spec.port

LEMMA AddSpecsElements ==
  ASSUME NEW targets \in Seq(SetupTarget), NEW e \in Env, NEW specs \in Seq(TargetSpec)
  PROVE  /\ AddSpecs(targets, e, specs) \in Seq(SetupTarget)
         /\ IsPrefix(targets, AddSpecs(targets, e, specs))
         /\ ToSet(targets) \subseteq ToSet(AddSpecs(targets, e, specs))
         /\ \A k \in DOMAIN specs : Listed(AddSpecs(targets, e, specs), specs[k])
<1>. DEFINE listed == {[net |-> t.net, port |-> t.port] : t \in {u \in ToSet(targets) : ~u.bare}}
            added == Fresh(listed, specs, specs)
            made(s) == [net |-> s.net, bare |-> FALSE, port |-> s.port,
                        via |-> e.lan, fallback |-> e.fallback]
            more == [k \in DOMAIN added |-> made(added[k])]
<1>1. AddSpecs(targets, e, specs) = targets \o more
  BY DEF AddSpecs
<1>2. added \in Seq(TargetSpec)
  BY FreshElements
<1>3. \A s \in TargetSpec : made(s) \in SetupTarget
  BY EnvFields DEF TargetSpec, SetupTarget
<1>4. \A k \in DOMAIN specs : specs[k] \in listed \/ specs[k] \in ToSet(added)
  <2>. SUFFICES ASSUME NEW k \in DOMAIN specs, specs[k] \notin listed
                PROVE  specs[k] \in ToSet(added)
    OBVIOUS
  <2>. HIDE DEF listed
  <2>1. PICK j \in DOMAIN specs : specs[j] = specs[k] /\ specs[j] \in ToSet(added)
    BY FreshCovers
  <2>. QED
    BY <2>1
<1>. HIDE DEF added
<1>5. /\ Len(added) \in Nat /\ DOMAIN added = 1 .. Len(added)
      /\ \A k \in DOMAIN added : added[k] \in TargetSpec
  BY <1>2
<1>6. more \in Seq(SetupTarget)
  <2>. HIDE DEF made
  <2>1. more \in [1 .. Len(added) -> SetupTarget]
    BY <1>3, <1>5
  <2>. QED
    BY <1>5, <2>1
<1>7. \A k \in DOMAIN added : made(added[k]) \in ToSet(more)
  BY DEF ToSet
<1>8. /\ targets \o more \in Seq(SetupTarget)
      /\ ToSet(targets \o more) = ToSet(targets) \cup ToSet(more)
      /\ IsPrefix(targets, targets \o more)
  <2>. HIDE DEF more
  <2>. QED
    BY <1>6, ElementsOfConcat, Extended
<1>9. ASSUME NEW k \in DOMAIN specs PROVE Listed(targets \o more, specs[k])
  <2>0. specs[k] \in TargetSpec
    OBVIOUS
  <2>1. CASE specs[k] \in listed
    <3>1. PICK t \in ToSet(targets) : ~t.bare /\ specs[k] = [net |-> t.net, port |-> t.port]
      BY <2>1
    <3>. QED
      BY <1>8, <3>1 DEF Listed
  <2>2. CASE specs[k] \in ToSet(added)
    <3>1. PICK n \in DOMAIN added : specs[k] = added[n]
      BY <2>2 DEF ToSet
    <3>2. made(specs[k]) \in ToSet(targets \o more)
      BY <1>7, <1>8, <3>1
    <3>. QED
      BY <3>2 DEF Listed
  <2>. QED
    BY <1>4, <2>1, <2>2
<1>. QED
  BY <1>1, <1>8, <1>9

LEMMA AddSpecsNone ==
  ASSUME NEW targets \in Seq(SetupTarget), NEW e, NEW specs \in Seq(TargetSpec),
         \A k \in DOMAIN specs : Listed(targets, specs[k])
  PROVE  AddSpecs(targets, e, specs) = targets
<1>. DEFINE listed == {[net |-> t.net, port |-> t.port] : t \in {u \in ToSet(targets) : ~u.bare}}
            added == Fresh(listed, specs, specs)
<1>1. ASSUME NEW k \in DOMAIN specs PROVE specs[k] \in listed
  <2>1. PICK t \in ToSet(targets) : ~t.bare /\ t.net = specs[k].net /\ t.port = specs[k].port
    BY <1>1 DEF Listed
  <2>2. specs[k] = [net |-> specs[k].net, port |-> specs[k].port]
    <3>1. specs[k] \in TargetSpec
      OBVIOUS
    <3>. QED
      BY <3>1 DEF TargetSpec
  <2>. QED
    BY <2>1, <2>2
<1>2. added = <<>>
  <2>. HIDE DEF listed
  <2>. QED
    BY <1>1, FreshNone
<1>. DEFINE more == [k \in DOMAIN added |->
                      [net |-> added[k].net, bare |-> FALSE, port |-> added[k].port,
                       via |-> e.lan, fallback |-> e.fallback]]
<1>3. AddSpecs(targets, e, specs) = targets \o more
  BY DEF AddSpecs
<1>4. more = <<>>
  <2>. HIDE DEF added
  <2>. QED
    BY <1>2
<1>. QED
  BY <1>3, <1>4, Extended

-----------------------------------------------------------------------------
(* Loading *)

\* Two configurations with the same fields are the same.
LEMMA SameFields ==
  ASSUME NEW c \in SetupConfig, NEW m \in SetupConfig,
         m.wan = c.wan, m.lan_interfaces = c.lan_interfaces, m.blacklist = c.blacklist,
         m.local_dns = c.local_dns, m.lan_domains = c.lan_domains, m.targets = c.targets,
         m.networks = c.networks, m.manual = c.manual
  PROVE  m = c
<1>1. c =
        [wan |-> c.wan, manual |-> c.manual, targets |-> c.targets,
         lan_domains |-> c.lan_domains, networks |-> c.networks,
         local_dns |-> c.local_dns, blacklist |-> c.blacklist,
         lan_interfaces |-> c.lan_interfaces]
  BY DEF SetupConfig
<1>2. m =
        [wan |-> m.wan, manual |-> m.manual, targets |-> m.targets,
         lan_domains |-> m.lan_domains, networks |-> m.networks,
         local_dns |-> m.local_dns, blacklist |-> m.blacklist,
         lan_interfaces |-> m.lan_interfaces]
  BY DEF SetupConfig
<1>. QED
  BY <1>1, <1>2

LEMMA MergeEnvFields ==
  ASSUME NEW c \in SetupConfig, NEW e \in Env
  PROVE  /\ MergeEnv(c, e) \in SetupConfig
         /\ MergeEnv(c, e).wan = IF e.wan = NoDev THEN c.wan ELSE e.wan
         /\ MergeEnv(c, e).lan_interfaces = IF e.lan = <<>> THEN c.lan_interfaces ELSE e.lan
         /\ MergeEnv(c, e).blacklist = c.blacklist \cup e.blacklist
         /\ MergeEnv(c, e).local_dns = Records(c, e)
         /\ MergeEnv(c, e).lan_domains = AppendNew(c.lan_domains, e.domains \o HostDomains(e))
         /\ MergeEnv(c, e).targets = AddSpecs(c.targets, e, e.prefixes \o HostSpecs(c, e))
         /\ MergeEnv(c, e).networks = c.networks /\ MergeEnv(c, e).manual = c.manual
<1>. DEFINE wan == IF e.wan = NoDev THEN c.wan ELSE e.wan
            lan == IF e.lan = <<>> THEN c.lan_interfaces ELSE e.lan
            blacklist == c.blacklist \cup e.blacklist
            dns == Records(c, e)
            more == e.domains \o HostDomains(e)
            domains == AppendNew(c.lan_domains, more)
            targets == AddSpecs(c.targets, e, e.prefixes \o HostSpecs(c, e))
<1>1. /\ wan \in Dev \cup {AutoWan} /\ lan \in Seq(Dev)
      /\ blacklist \in SUBSET Dst
  BY SetupFields, EnvFields
<1>2. dns \in [Domain -> Seq(Addr)]
  BY RecordsElements
<1>3. domains \in Seq(Domain)
  <2>1. more \in Seq(Domain)
    BY EnvFields, HostDomainsType, ConcatProperties
  <2>. HIDE DEF more
  <2>. QED
    BY <2>1, SetupFields, AppendNewElements
<1>4. targets \in Seq(SetupTarget)
  BY SetupFields, SpecsType, AddSpecsElements
<1>5. MergeEnv(c, e) =
        [c EXCEPT !.wan = wan, !.lan_interfaces = lan, !.blacklist = blacklist,
                  !.local_dns = dns, !.lan_domains = domains, !.targets = targets]
  BY DEF MergeEnv
<1>. HIDE DEF wan, lan, blacklist, dns, domains, targets
<1>6. /\ MergeEnv(c, e) \in SetupConfig
      /\ MergeEnv(c, e).wan = wan /\ MergeEnv(c, e).lan_interfaces = lan
      /\ MergeEnv(c, e).blacklist = blacklist /\ MergeEnv(c, e).local_dns = dns
      /\ MergeEnv(c, e).lan_domains = domains /\ MergeEnv(c, e).targets = targets
      /\ MergeEnv(c, e).networks = c.networks /\ MergeEnv(c, e).manual = c.manual
  BY <1>1, <1>2, <1>3, <1>4, <1>5 DEF SetupConfig
<1>. QED
  BY <1>6 DEF wan, lan, blacklist, dns, domains, targets

LEMMA DefaultType ==
  DefaultConfig \in SetupConfig
<1>1. <<>> \in Seq(SetupTarget) /\ <<>> \in Seq(Domain) /\ <<>> \in Seq(SetupNetwork)
      /\ <<>> \in Seq(Dev) /\ <<>> \in Seq(Addr)
  OBVIOUS
<1>2. [d \in Domain |-> <<>>] \in [Domain -> Seq(Addr)]
  BY <1>1
<1>. QED
  BY <1>1, <1>2 DEF DefaultConfig, SetupConfig

\* What a file counts as.
Base(f) == IF f \in {Missing, Malformed} THEN DefaultConfig ELSE f

File == SetupConfig \cup {Missing, Malformed}

LEMMA BaseType ==
  ASSUME NEW f \in File
  PROVE  Base(f) \in SetupConfig
BY DefaultType DEF Base, File

LEMMA LoadType ==
  ASSUME NEW f \in File, env \in Env \cup {Missing}
  PROVE  Load(f) \in SetupConfig
<1>1. Load(f) = IF env = Missing THEN Base(f) ELSE MergeEnv(Base(f), env)
  BY DEF Load, Base
<1>2. CASE env = Missing
  BY <1>1, <1>2, BaseType
<1>3. CASE env # Missing
  BY <1>1, <1>3, BaseType, MergeEnvFields
<1>. QED
  BY <1>2, <1>3

-----------------------------------------------------------------------------
(* Detection *)

LEMMA LansType ==
  ASSUME NEW c
  PROVE  Lans(c) \in Seq(Dev)
<1>. DEFINE S == {i \in Dev : Role(c, i) = "Lan"}
<1>1. IsFiniteSet(S)
  BY SetupAssumption, FS_Subset
<1>. HIDE DEF S
<1>2. SetToSeq(S) \in Seq(S)
  BY <1>1, SeqOfSet
<1>3. S \subseteq Dev
  BY DEF S
<1>4. SetToSeq(S) \in Seq(Dev)
  BY <1>2, <1>3
<1>. QED
  BY <1>4 DEF Lans, S

LEMMA DetectedTargetsType ==
  ASSUME NEW i \in Dev
  PROVE  DetectedTargets(i) \in Seq(SetupTarget)
<1>. DEFINE at == Attached[i]
            Hosted(addrs) == [k \in DOMAIN addrs |-> {addrs[k]}]
            others == Retained(at.neighbors, {k \in DOMAIN at.neighbors :
                                               ~Contains(at.gateway, at.neighbors[k])})
            subnets == AppendNew(<<>>, at.nets)
            nets == subnets \o Hosted(at.gateway) \o Hosted(others)
            made(p) == [net |-> p, bare |-> FALSE, port |-> NoPort, via |-> <<i>>, fallback |-> "drop"]
<1>1. at.nets \in Seq(Dst) /\ at.gateway \in Seq(Addr) /\ at.neighbors \in Seq(Addr)
  BY SetupAssumption
<1>2. ASSUME NEW addrs \in Seq(Addr) PROVE Hosted(addrs) \in Seq(Dst)
  <2>1. /\ Len(addrs) \in Nat /\ DOMAIN addrs = 1 .. Len(addrs)
        /\ \A k \in DOMAIN addrs : addrs[k] \in Addr
    OBVIOUS
  <2>2. Hosted(addrs) \in [1 .. Len(addrs) -> Dst]
    BY <2>1, PrefixAssumption
  <2>. QED
    BY <2>1, <2>2
<1>3. others \in Seq(Addr)
  BY <1>1, RetainedElements
<1>4. subnets \in Seq(Dst)
  <2>1. <<>> \in Seq(Dst)
    OBVIOUS
  <2>. QED
    BY <1>1, <2>1, AppendNewElements
<1>5. Hosted(at.gateway) \in Seq(Dst) /\ Hosted(others) \in Seq(Dst)
  <2>. HIDE DEF Hosted, others
  <2>. QED
    BY <1>1, <1>2, <1>3
<1>6. nets \in Seq(Dst)
  <2>. HIDE DEF Hosted, others, subnets
  <2>1. subnets \o Hosted(at.gateway) \in Seq(Dst)
    BY <1>4, <1>5, ConcatProperties
  <2>. QED
    BY <1>5, <2>1, ConcatProperties
<1>7. \A p \in Dst : made(p) \in SetupTarget
  <2>1. <<i>> \in Seq(Dev)
    OBVIOUS
  <2>. QED
    BY <2>1 DEF SetupTarget
<1>8. DetectedTargets(i) = [k \in DOMAIN nets |-> made(nets[k])]
  BY DEF DetectedTargets
<1>. HIDE DEF nets, made
<1>9. /\ Len(nets) \in Nat /\ DOMAIN nets = 1 .. Len(nets)
      /\ \A k \in DOMAIN nets : nets[k] \in Dst
  BY <1>6
<1>10. [k \in DOMAIN nets |-> made(nets[k])] \in [1 .. Len(nets) -> SetupTarget]
  BY <1>7, <1>9
<1>. QED
  BY <1>8, <1>9, <1>10

LEMMA DetectType ==
  ASSUME NEW c
  PROVE  /\ Detect(c).networks \in Seq(SetupNetwork)
         /\ Detect(c).targets \in Seq(SetupTarget)
<1>. DEFINE lans == Lans(c)
            ofNetworks == [k \in DOMAIN lans |-> DetectedNetwork(lans[k])]
            ofTargets == [k \in DOMAIN lans |-> DetectedTargets(lans[k])]
<1>1. lans \in Seq(Dev)
  BY LansType
<1>2. Detect(c).networks = ofNetworks /\ Detect(c).targets = FlattenSeq(ofTargets)
  BY DEF Detect
<1>. HIDE DEF lans
<1>3. /\ Len(lans) \in Nat /\ DOMAIN lans = 1 .. Len(lans)
      /\ \A k \in DOMAIN lans : lans[k] \in Dev
  BY <1>1
<1>4. \A i \in Dev : DetectedNetwork(i) \in SetupNetwork
  <2>. SUFFICES ASSUME NEW i \in Dev PROVE DetectedNetwork(i) \in SetupNetwork
    OBVIOUS
  <2>1. <<i>> \in Seq(Dev)
    OBVIOUS
  <2>. QED
    BY <2>1 DEF DetectedNetwork, SetupNetwork
<1>5. ofNetworks \in [1 .. Len(lans) -> SetupNetwork]
  BY <1>3, <1>4
<1>6. ofNetworks \in Seq(SetupNetwork)
  BY <1>3, <1>5
<1>7. ofTargets \in [1 .. Len(lans) -> Seq(SetupTarget)]
  BY <1>3, DetectedTargetsType
<1>8. ofTargets \in Seq(Seq(SetupTarget))
  BY <1>3, <1>7
<1>. HIDE DEF ofTargets, ofNetworks
<1>9. FlattenSeq(ofTargets) \in Seq(SetupTarget)
  BY <1>8, Flattened
<1>. QED
  BY <1>2, <1>6, <1>9

\* A merge keeps what there is, in its place, and adds what it does not find.
LEMMA MergeDetectedFields ==
  ASSUME NEW c \in SetupConfig, NEW found,
         found.networks \in Seq(SetupNetwork), found.targets \in Seq(SetupTarget)
  PROVE  LET m == MergeDetected(c, found)
         IN /\ m \in SetupConfig
            /\ m.wan = c.wan /\ m.lan_interfaces = c.lan_interfaces
            /\ m.blacklist = c.blacklist /\ m.local_dns = c.local_dns
            /\ m.lan_domains = c.lan_domains /\ m.manual = c.manual
            /\ IsPrefix(c.networks, m.networks) /\ IsPrefix(c.targets, m.targets)
            /\ ToSet(c.targets) \subseteq ToSet(m.targets)
            /\ ToSet(m.networks) \subseteq ToSet(c.networks) \cup ToSet(found.networks)
            /\ \A k \in DOMAIN found.networks :
                 \E n \in ToSet(m.networks) : n.name = found.networks[k].name
            /\ \A k \in DOMAIN found.targets :
                 \E t \in ToSet(m.targets) : Text(t) = Text(found.targets[k])
<1>. DEFINE names == [k \in DOMAIN found.networks |-> found.networks[k].name]
            texts == [k \in DOMAIN found.targets |-> Text(found.targets[k])]
            known == {n.name : n \in ToSet(c.networks)}
            read == {Text(t) : t \in ToSet(c.targets)}
            newNetworks == Fresh(known, names, found.networks)
            newTargets == Fresh(read, texts, found.targets)
            networks == c.networks \o newNetworks
            targets == c.targets \o newTargets
<1>1. c.networks \in Seq(SetupNetwork) /\ c.targets \in Seq(SetupTarget)
  BY SetupFields
<1>2. /\ newNetworks \in Seq(SetupNetwork) /\ ToSet(newNetworks) \subseteq ToSet(found.networks)
      /\ newTargets \in Seq(SetupTarget)
  <2>. HIDE DEF names, texts, known, read
  <2>. QED
    BY FreshElements
<1>3. ASSUME NEW k \in DOMAIN found.networks
      PROVE  \E n \in ToSet(c.networks) \cup ToSet(newNetworks) : n.name = found.networks[k].name
  <2>1. CASE names[k] \in known
    BY <2>1
  <2>2. CASE names[k] \notin known
    <3>1. \E j \in DOMAIN found.networks :
            names[j] = names[k] /\ found.networks[j] \in ToSet(newNetworks)
      <4>. HIDE DEF names, known
      <4>. QED
        BY <2>2, FreshCovers
    <3>. HIDE DEF newNetworks
    <3>. QED
      BY <3>1
  <2>. QED
    BY <2>1, <2>2
<1>4. ASSUME NEW k \in DOMAIN found.targets
      PROVE  \E t \in ToSet(c.targets) \cup ToSet(newTargets) : Text(t) = Text(found.targets[k])
  <2>1. CASE texts[k] \in read
    BY <2>1
  <2>2. CASE texts[k] \notin read
    <3>1. \E j \in DOMAIN found.targets :
            texts[j] = texts[k] /\ found.targets[j] \in ToSet(newTargets)
      <4>. HIDE DEF texts, read
      <4>. QED
        BY <2>2, FreshCovers
    <3>. HIDE DEF newTargets
    <3>. QED
      BY <3>1
  <2>. QED
    BY <2>1, <2>2
<1>5. MergeDetected(c, found) = [c EXCEPT !.networks = networks, !.targets = targets]
  BY DEF MergeDetected
<1>. HIDE DEF newNetworks, newTargets
<1>6. /\ networks \in Seq(SetupNetwork) /\ IsPrefix(c.networks, networks)
      /\ ToSet(networks) = ToSet(c.networks) \cup ToSet(newNetworks)
      /\ targets \in Seq(SetupTarget) /\ IsPrefix(c.targets, targets)
      /\ ToSet(targets) = ToSet(c.targets) \cup ToSet(newTargets)
  BY <1>1, <1>2, ElementsOfConcat, Extended
<1>. HIDE DEF networks, targets
<1>. DEFINE m == MergeDetected(c, found)
<1>7. /\ m \in SetupConfig
      /\ m.wan = c.wan /\ m.lan_interfaces = c.lan_interfaces
      /\ m.blacklist = c.blacklist /\ m.local_dns = c.local_dns
      /\ m.lan_domains = c.lan_domains /\ m.manual = c.manual
      /\ m.networks = networks /\ m.targets = targets
  BY <1>5, <1>6 DEF SetupConfig
<1>. HIDE DEF m
<1>8. /\ m \in SetupConfig
      /\ m.wan = c.wan /\ m.lan_interfaces = c.lan_interfaces
      /\ m.blacklist = c.blacklist /\ m.local_dns = c.local_dns
      /\ m.lan_domains = c.lan_domains /\ m.manual = c.manual
      /\ IsPrefix(c.networks, m.networks) /\ IsPrefix(c.targets, m.targets)
      /\ ToSet(c.targets) \subseteq ToSet(m.targets)
      /\ ToSet(m.networks) \subseteq ToSet(c.networks) \cup ToSet(found.networks)
  BY <1>2, <1>6, <1>7
<1>9. \A k \in DOMAIN found.networks :
        \E n \in ToSet(m.networks) : n.name = found.networks[k].name
  BY <1>3, <1>6, <1>7
<1>10. \A k \in DOMAIN found.targets :
         \E t \in ToSet(m.targets) : Text(t) = Text(found.targets[k])
  BY <1>4, <1>6, <1>7
<1>. QED
  BY <1>8, <1>9, <1>10 DEF m

\* Merging again what is there changes nothing.
LEMMA MergeDetectedNone ==
  ASSUME NEW c \in SetupConfig, NEW found,
         found.networks \in Seq(SetupNetwork), found.targets \in Seq(SetupTarget),
         \A k \in DOMAIN found.networks :
           \E n \in ToSet(c.networks) : n.name = found.networks[k].name,
         \A k \in DOMAIN found.targets :
           \E t \in ToSet(c.targets) : Text(t) = Text(found.targets[k])
  PROVE  MergeDetected(c, found) = c
<1>. DEFINE names == [k \in DOMAIN found.networks |-> found.networks[k].name]
            texts == [k \in DOMAIN found.targets |-> Text(found.targets[k])]
            known == {n.name : n \in ToSet(c.networks)}
            read == {Text(t) : t \in ToSet(c.targets)}
<1>1. c.networks \in Seq(SetupNetwork) /\ c.targets \in Seq(SetupTarget)
  BY SetupFields
<1>2. \A k \in DOMAIN found.networks : names[k] \in known
  OBVIOUS
<1>3. \A k \in DOMAIN found.targets : texts[k] \in read
  OBVIOUS
<1>4. MergeDetected(c, found) =
        [c EXCEPT !.networks = c.networks \o Fresh(known, names, found.networks),
                  !.targets = c.targets \o Fresh(read, texts, found.targets)]
  BY DEF MergeDetected
<1>. HIDE DEF names, texts, known, read
<1>5. /\ Fresh(known, names, found.networks) = <<>>
      /\ Fresh(read, texts, found.targets) = <<>>
  BY <1>2, <1>3, FreshNone
<1>6. c.networks \o <<>> = c.networks /\ c.targets \o <<>> = c.targets
  BY <1>1, Extended
<1>7. MergeDetected(c, found) = [c EXCEPT !.networks = c.networks, !.targets = c.targets]
  BY <1>4, <1>5, <1>6
<1>. QED
  BY <1>7 DEF SetupConfig

-----------------------------------------------------------------------------
(* Autoconfig comes to rest *)

\* What is saved is what was loaded, grown by what was detected.
LEMMA SavedFields ==
  ASSUME NEW f \in File, env \in Env \cup {Missing}
  PROVE  LET s == Saved(f)
             c == Load(f)
         IN /\ s \in SetupConfig /\ c \in SetupConfig
            /\ s.wan = c.wan /\ s.lan_interfaces = c.lan_interfaces
            /\ s.blacklist = c.blacklist /\ s.local_dns = c.local_dns
            /\ s.lan_domains = c.lan_domains /\ s.manual = c.manual
            /\ IsPrefix(c.networks, s.networks) /\ IsPrefix(c.targets, s.targets)
            /\ ToSet(c.targets) \subseteq ToSet(s.targets)
            /\ ToSet(s.networks) \subseteq ToSet(c.networks) \cup ToSet(Detect(c).networks)
            /\ \A k \in DOMAIN Detect(c).networks :
                 \E n \in ToSet(s.networks) : n.name = Detect(c).networks[k].name
            /\ \A k \in DOMAIN Detect(c).targets :
                 \E t \in ToSet(s.targets) : Text(t) = Text(Detect(c).targets[k])
<1>. DEFINE c == Load(f)
            found == Detect(c)
<1>1. c \in SetupConfig
  BY LoadType
<1>2. found.networks \in Seq(SetupNetwork) /\ found.targets \in Seq(SetupTarget)
  BY DetectType
<1>3. Saved(f) = MergeDetected(c, found)
  BY DEF Saved
<1>. HIDE DEF c, found
<1>. DEFINE s == MergeDetected(c, found)
<1>4. /\ s \in SetupConfig
      /\ s.wan = c.wan /\ s.lan_interfaces = c.lan_interfaces
      /\ s.blacklist = c.blacklist /\ s.local_dns = c.local_dns
      /\ s.lan_domains = c.lan_domains /\ s.manual = c.manual
      /\ IsPrefix(c.networks, s.networks) /\ IsPrefix(c.targets, s.targets)
      /\ ToSet(c.targets) \subseteq ToSet(s.targets)
      /\ ToSet(s.networks) \subseteq ToSet(c.networks) \cup ToSet(found.networks)
      /\ \A k \in DOMAIN found.networks :
           \E n \in ToSet(s.networks) : n.name = found.networks[k].name
      /\ \A k \in DOMAIN found.targets :
           \E t \in ToSet(s.targets) : Text(t) = Text(found.targets[k])
  BY <1>1, <1>2, MergeDetectedFields
<1>. HIDE DEF s
<1>5. Saved(f) = s
  BY <1>3 DEF s
<1>. QED
  BY <1>1, <1>4, <1>5 DEF c, found

\* What is saved is read back as it is, though the .env is merged again.
LEMMA SavedIsRead ==
  ASSUME NEW f \in File, env \in Env \cup {Missing}
  PROVE  Load(Saved(f)) = Saved(f)
<1>. DEFINE s == Saved(f)
            b == Base(f)
<1>1. s \in SetupConfig /\ b \in SetupConfig
  BY SavedFields, BaseType
<1>2. Load(s) = IF env = Missing THEN s ELSE MergeEnv(s, env)
  <2>. HIDE DEF s
  <2>1. s \notin {Missing, Malformed}
    BY <1>1, SetupAssumption
  <2>. QED
    BY <2>1 DEF Load
<1>3. ASSUME NEW e, e = env, e \in Env
      PROVE  MergeEnv(s, e) = s
  <2>. DEFINE c == MergeEnv(b, e)
              more == e.domains \o HostDomains(e)
              specs == e.prefixes \o HostSpecs(b, e)
  <2>1. Load(f) = c
    BY <1>3, SetupAssumption DEF Load, Base
  <2>. HIDE DEF b
  <2>2. /\ c.wan = IF e.wan = NoDev THEN b.wan ELSE e.wan
        /\ c.lan_interfaces = IF e.lan = <<>> THEN b.lan_interfaces ELSE e.lan
        /\ c.blacklist = b.blacklist \cup e.blacklist
        /\ c.local_dns = Records(b, e)
        /\ c.lan_domains = AppendNew(b.lan_domains, more)
        /\ c.targets = AddSpecs(b.targets, e, specs)
    BY <1>1, <1>3, MergeEnvFields
  <2>. HIDE DEF c
  <2>3. /\ s.wan = c.wan /\ s.lan_interfaces = c.lan_interfaces
        /\ s.blacklist = c.blacklist /\ s.local_dns = c.local_dns
        /\ s.lan_domains = c.lan_domains
        /\ ToSet(c.targets) \subseteq ToSet(s.targets)
    BY <2>1, SavedFields
  <2>. HIDE DEF s
  <2>4. Records(s, e) = s.local_dns
    <3>1. \A d \in Domain : /\ e.records[d] \in Seq(Addr) /\ s.local_dns[d] \in Seq(Addr)
                            /\ ToSet(e.records[d]) \subseteq ToSet(s.local_dns[d])
      <4>1. s.local_dns = Records(b, e) /\ s.local_dns \in [Domain -> Seq(Addr)]
        BY <1>1, <2>2, <2>3, SetupFields
      <4>2. e.records \in [Domain -> Seq(Addr)]
        BY <1>3, EnvFields
      <4>3. \A d \in Domain :
              ToSet(Records(b, e)[d]) = ToSet(b.local_dns[d]) \cup ToSet(e.records[d])
        BY <1>1, <1>3, RecordsElements
      <4>4. \A d \in Domain : ToSet(e.records[d]) \subseteq ToSet(s.local_dns[d])
        BY <4>1, <4>3
      <4>. QED
        BY <4>1, <4>2, <4>4
    <3>2. \A d \in Domain : AppendNew(s.local_dns[d], e.records[d]) = s.local_dns[d]
      BY <3>1, AppendNewNone
    <3>3. s.local_dns \in [Domain -> Seq(Addr)]
      BY <1>1, SetupFields
    <3>4. Records(s, e) = [d \in Domain |-> s.local_dns[d]]
      BY <3>2 DEF Records
    <3>5. s.local_dns = [d \in Domain |-> s.local_dns[d]]
      BY <3>3
    <3>. QED
      BY <3>4, <3>5
  <2>5. AppendNew(s.lan_domains, more) = s.lan_domains
    <3>1. more \in Seq(Domain)
      BY <1>3, EnvFields, HostDomainsType, ConcatProperties
    <3>. HIDE DEF more
    <3>2. b.lan_domains \in Seq(Domain) /\ s.lan_domains \in Seq(Domain)
      BY <1>1, SetupFields
    <3>3. ToSet(more) \subseteq ToSet(s.lan_domains)
      BY <2>2, <2>3, <3>1, <3>2, AppendNewElements
    <3>. QED
      BY <3>1, <3>2, <3>3, AppendNewNone
  <2>6. AddSpecs(s.targets, e, e.prefixes \o HostSpecs(s, e)) = s.targets
    <3>1. HostSpecs(s, e) = HostSpecs(b, e)
      BY <2>2, <2>3, <2>4 DEF HostSpecs
    <3>2. specs \in Seq(TargetSpec)
      BY <1>1, <1>3, SpecsType
    <3>3. e.prefixes \o HostSpecs(s, e) = specs
      BY <3>1
    <3>. HIDE DEF specs
    <3>4. b.targets \in Seq(SetupTarget) /\ s.targets \in Seq(SetupTarget)
      BY <1>1, SetupFields
    <3>5. \A k \in DOMAIN specs : Listed(c.targets, specs[k])
      BY <1>3, <2>2, <3>2, <3>4, AddSpecsElements
    <3>6. \A k \in DOMAIN specs : Listed(s.targets, specs[k])
      BY <2>3, <3>5 DEF Listed
    <3>7. AddSpecs(s.targets, e, specs) = s.targets
      BY <3>2, <3>4, <3>6, AddSpecsNone
    <3>. QED
      BY <3>3, <3>7
  <2>. DEFINE m == MergeEnv(s, e)
  <2>7. /\ m \in SetupConfig
        /\ m.wan = IF e.wan = NoDev THEN s.wan ELSE e.wan
        /\ m.lan_interfaces = IF e.lan = <<>> THEN s.lan_interfaces ELSE e.lan
        /\ m.blacklist = s.blacklist \cup e.blacklist
        /\ m.local_dns = s.local_dns /\ m.lan_domains = s.lan_domains
        /\ m.targets = s.targets /\ m.networks = s.networks /\ m.manual = s.manual
    BY <1>1, <1>3, <2>4, <2>5, <2>6, MergeEnvFields
  <2>. HIDE DEF m
  <2>8. m.wan = s.wan /\ m.lan_interfaces = s.lan_interfaces
    BY <2>2, <2>3, <2>7
  <2>9. m.blacklist = s.blacklist
    BY <2>2, <2>3, <2>7
  <2>10. m = s
    BY <1>1, <2>7, <2>8, <2>9, SameFields
  <2>. QED
    BY <2>10 DEF m
<1>. HIDE DEF s
<1>4. Load(s) = s
  BY <1>2, <1>3
<1>. QED
  BY <1>4 DEF s

\* Detection reads of a configuration only its WAN.
LEMMA DetectSame ==
  ASSUME NEW c, NEW d, c.wan = d.wan
  PROVE  Detect(c) = Detect(d)
<1>1. \A i : Role(c, i) = Role(d, i)
  BY DEF Role
<1>2. Lans(c) = Lans(d)
  BY <1>1 DEF Lans
<1>. QED
  BY <1>2 DEF Detect

LEMMA SavedSettles ==
  ASSUME NEW f \in File, env \in Env \cup {Missing}
  PROVE  Saved(Saved(f)) = Saved(f)
<1>. DEFINE s == Saved(f)
            c == Load(f)
            found == Detect(c)
<1>1. /\ s \in SetupConfig /\ s.wan = c.wan
      /\ \A k \in DOMAIN found.networks :
           \E n \in ToSet(s.networks) : n.name = found.networks[k].name
      /\ \A k \in DOMAIN found.targets :
           \E t \in ToSet(s.targets) : Text(t) = Text(found.targets[k])
  BY SavedFields
<1>2. Load(s) = s
  BY SavedIsRead
<1>. HIDE DEF s, c
<1>3. found.networks \in Seq(SetupNetwork) /\ found.targets \in Seq(SetupTarget)
  BY DetectType
<1>4. Detect(s) = found
  BY <1>1, DetectSame
<1>. HIDE DEF found
<1>5. MergeDetected(s, found) = s
  BY <1>1, <1>3, MergeDetectedNone
<1>6. Saved(s) = s
  BY <1>2, <1>4, <1>5 DEF Saved
<1>. QED
  BY <1>6 DEF s

-----------------------------------------------------------------------------
(* A configuration as the policy engine sees it *)

AsTarget(t) == [net |-> t.net, bare |-> t.bare, via |-> t.via, fallback |-> t.fallback]
AsNetwork(n) == [names |-> n.names, suffix |-> n.suffix, interfaces |-> n.interfaces]

AsPolicy(c) ==
  [targets        |-> [k \in DOMAIN c.targets |-> AsTarget(c.targets[k])],
   lan_domains    |-> c.lan_domains,
   networks       |-> [k \in DOMAIN c.networks |-> AsNetwork(c.networks[k])],
   local_dns      |-> c.local_dns,
   blacklist      |-> c.blacklist,
   lan_interfaces |-> c.lan_interfaces]

LEMMA AsPolicyFields ==
  ASSUME NEW c \in SetupConfig
  PROVE  LET P == AsPolicy(c)
         IN /\ P \in Config
            /\ ToSet(P.targets) = {AsTarget(t) : t \in ToSet(c.targets)}
            /\ ToSet(P.networks) = {AsNetwork(n) : n \in ToSet(c.networks)}
            /\ (P.targets = <<>>) <=> (c.targets = <<>>)
            /\ P.lan_domains = c.lan_domains /\ P.local_dns = c.local_dns
            /\ P.blacklist = c.blacklist /\ P.lan_interfaces = c.lan_interfaces
<1>. DEFINE targets == [k \in DOMAIN c.targets |-> AsTarget(c.targets[k])]
            networks == [k \in DOMAIN c.networks |-> AsNetwork(c.networks[k])]
<1>1. /\ Len(c.targets) \in Nat /\ DOMAIN c.targets = 1 .. Len(c.targets)
      /\ \A k \in DOMAIN c.targets : c.targets[k] \in SetupTarget
  <2>1. c.targets \in Seq(SetupTarget)
    BY SetupFields
  <2>. QED
    BY <2>1
<1>2. /\ Len(c.networks) \in Nat /\ DOMAIN c.networks = 1 .. Len(c.networks)
      /\ \A k \in DOMAIN c.networks : c.networks[k] \in SetupNetwork
  <2>1. c.networks \in Seq(SetupNetwork)
    BY SetupFields
  <2>. QED
    BY <2>1
<1>3. \A t \in SetupTarget : AsTarget(t) \in Target
  BY DEF AsTarget, SetupTarget, Target
<1>4. \A n \in SetupNetwork : AsNetwork(n) \in Network
  BY DEF AsNetwork, SetupNetwork, Network
<1>5. targets \in [1 .. Len(c.targets) -> Target]
  BY <1>1, <1>3
<1>6. targets \in Seq(Target)
  BY <1>1, <1>5
<1>7. networks \in [1 .. Len(c.networks) -> Network]
  BY <1>2, <1>4
<1>8. networks \in Seq(Network)
  BY <1>2, <1>7
<1>9. ToSet(targets) = {AsTarget(t) : t \in ToSet(c.targets)}
  BY DEF ToSet
<1>10. ToSet(networks) = {AsNetwork(n) : n \in ToSet(c.networks)}
  BY DEF ToSet
<1>11. (targets = <<>>) <=> (c.targets = <<>>)
  <2>1. DOMAIN targets = DOMAIN c.targets
    OBVIOUS
  <2>2. targets \in Seq(Target) /\ c.targets \in Seq(SetupTarget)
    BY <1>6, SetupFields
  <2>. HIDE DEF targets
  <2>3. Len(targets) = Len(c.targets)
    BY <2>1, <2>2
  <2>. QED
    BY <2>2, <2>3, EmptySeq
<1>12. AsPolicy(c) =
         [targets |-> targets, lan_domains |-> c.lan_domains, networks |-> networks,
          local_dns |-> c.local_dns, blacklist |-> c.blacklist,
          lan_interfaces |-> c.lan_interfaces]
  BY DEF AsPolicy
<1>. HIDE DEF targets, networks
<1>13. AsPolicy(c) \in Config
  BY <1>6, <1>8, <1>12, SetupFields DEF Config
<1>. QED
  BY <1>9, <1>10, <1>11, <1>12, <1>13

\* The rules, the routes, what is accepted and where a packet leaves are those
\* of the policy: they read no other field.
LEMMA AsPolicyRules ==
  ASSUME NEW c \in SetupConfig
  PROVE  Rules(AsPolicy(c)) = Rules(c)
<1>. DEFINE P == AsPolicy(c)
<1>1. \A d : Hosts(P, d) = Hosts(c, d)
  BY DEF Hosts, AsPolicy
<1>2. \A d : DomainRule(P, d) = DomainRule(c, d)
  <2>1. P.lan_interfaces = c.lan_interfaces
    BY DEF AsPolicy
  <2>. HIDE DEF P
  <2>. QED
    BY <1>1, <2>1 DEF DomainRule
<1>3. \A n : NetworkRule(P, AsNetwork(n)) = NetworkRule(c, n)
  <2>. SUFFICES ASSUME NEW n PROVE NetworkRule(P, AsNetwork(n)) = NetworkRule(c, n)
    OBVIOUS
  <2>1. /\ AsNetwork(n).names = n.names /\ AsNetwork(n).suffix = n.suffix
        /\ AsNetwork(n).interfaces = n.interfaces
    BY DEF AsNetwork
  <2>. HIDE DEF P
  <2>. QED
    BY <1>1, <2>1 DEF NetworkRule
<1>4. \A t : TargetRule(AsTarget(t)) = TargetRule(t)
  <2>. SUFFICES ASSUME NEW t PROVE TargetRule(AsTarget(t)) = TargetRule(t)
    OBVIOUS
  <2>1. /\ AsTarget(t).net = t.net /\ AsTarget(t).via = t.via
        /\ AsTarget(t).fallback = t.fallback
    BY DEF AsTarget
  <2>. QED
    BY <2>1 DEF TargetRule
<1>5. /\ P.targets = [k \in DOMAIN c.targets |-> AsTarget(c.targets[k])]
      /\ P.networks = [k \in DOMAIN c.networks |-> AsNetwork(c.networks[k])]
      /\ P.lan_domains = c.lan_domains
  BY DEF AsPolicy
<1>. HIDE DEF P
<1>6. [k \in DOMAIN P.targets |-> TargetRule(P.targets[k])]
        = [k \in DOMAIN c.targets |-> TargetRule(c.targets[k])]
  BY <1>4, <1>5
<1>7. [k \in DOMAIN P.lan_domains |-> DomainRule(P, P.lan_domains[k])]
        = [k \in DOMAIN c.lan_domains |-> DomainRule(c, c.lan_domains[k])]
  BY <1>2, <1>5
<1>8. [k \in DOMAIN P.networks |-> NetworkRule(P, P.networks[k])]
        = [k \in DOMAIN c.networks |-> NetworkRule(c, c.networks[k])]
  BY <1>3, <1>5
<1>. DEFINE ofTargets == [k \in DOMAIN c.targets |-> TargetRule(c.targets[k])]
            ofDomains == [k \in DOMAIN c.lan_domains |-> DomainRule(c, c.lan_domains[k])]
            ofNetworks == [k \in DOMAIN c.networks |-> NetworkRule(c, c.networks[k])]
<1>9. /\ Rules(P) = ofTargets \o ofDomains \o ofNetworks
      /\ Rules(c) = ofTargets \o ofDomains \o ofNetworks
  BY <1>6, <1>7, <1>8 DEF Rules
<1>. QED
  BY <1>9 DEF P

LEMMA AsPolicyRoutes ==
  ASSUME NEW c \in SetupConfig, NEW h
  PROVE  /\ Generated(AsPolicy(c), h) = Generated(c, h)
         /\ ValidDesired(AsPolicy(c), h) <=> ValidDesired(c, h)
         /\ \A a : Egress(AsPolicy(c), h, a) = Egress(c, h, a)
<1>. DEFINE P == AsPolicy(c)
<1>1. Rules(P) = Rules(c) /\ P.blacklist = c.blacklist /\ P.lan_interfaces = c.lan_interfaces
  BY AsPolicyRules, AsPolicyFields
<1>. HIDE DEF P
<1>2. Generated(P, h) = Generated(c, h)
  BY <1>1 DEF Generated, Pinned
<1>3. ValidDesired(P, h) <=> ValidDesired(c, h)
  BY <1>1, <1>2 DEF ValidDesired
<1>4. Fib(P, h) = Fib(c, h)
  BY <1>2 DEF Fib
<1>5. \A a : Lookup(P, h, a) = Lookup(c, h, a)
  BY <1>4 DEF Lookup
<1>6. \A a : Egress(P, h, a) = Egress(c, h, a)
  BY <1>5 DEF Egress
<1>. QED
  BY <1>2, <1>3, <1>6 DEF P

LEMMA AsPolicyAccepted ==
  ASSUME NEW c \in SetupConfig, StrictPolicy(c)
  PROVE  StrictPolicy(AsPolicy(c)) /\ Authorized(AsPolicy(c)) = Authorized(c)
<1>. DEFINE P == AsPolicy(c)
<1>1. /\ ToSet(P.targets) = {AsTarget(t) : t \in ToSet(c.targets)}
      /\ (P.targets = <<>>) <=> (c.targets = <<>>)
      /\ P.lan_domains = c.lan_domains /\ P.local_dns = c.local_dns
      /\ P.blacklist = c.blacklist /\ P.lan_interfaces = c.lan_interfaces
  BY AsPolicyFields
<1>2. \A t : /\ AsTarget(t).net = t.net /\ AsTarget(t).via = t.via
             /\ AsTarget(t).fallback = t.fallback
  BY DEF AsTarget
<1>. HIDE DEF P
<1>3. StrictPolicy(P)
  BY <1>1, <1>2 DEF StrictPolicy, Blacklisted
<1>4. Authorized(P) = Authorized(c)
  <2>1. {t.net : t \in ToSet(P.targets)} = {t.net : t \in ToSet(c.targets)}
    BY <1>1, <1>2
  <2>. QED
    BY <1>1, <2>1 DEF Authorized
<1>. QED
  BY <1>3, <1>4 DEF P

-----------------------------------------------------------------------------
(* What an accepted configuration enforces *)

\* What the .env lists, a configuration that it was merged into claims.
LEMMA EnvClaimed ==
  ASSUME NEW f \in File, env \in Env, NEW a \in EnvLab(Load(f))
  PROVE  a \in Authorized(Load(f))
<1>. DEFINE b == Base(f)
            c == Load(f)
            more == env.domains \o HostDomains(env)
            specs == env.prefixes \o HostSpecs(b, env)
<1>1. env # Missing
  BY SetupAssumption
<1>2. b \in SetupConfig /\ c = MergeEnv(b, env)
  BY <1>1, BaseType DEF Load, Base
<1>. HIDE DEF b, c
<1>3. /\ c.lan_domains = AppendNew(b.lan_domains, more)
      /\ c.targets = AddSpecs(b.targets, env, specs)
  BY <1>2, MergeEnvFields
<1>4. ASSUME NEW s \in ToSet(env.prefixes), a \in s.net
      PROVE  \E t \in ToSet(c.targets) : a \in t.net
  <2>1. env.prefixes \in Seq(TargetSpec) /\ specs \in Seq(TargetSpec)
    BY <1>2, EnvFields, SpecsType
  <2>2. PICK k \in DOMAIN env.prefixes : s = env.prefixes[k]
    BY <1>4 DEF ToSet
  <2>3. HostSpecs(b, env) \in Seq(TargetSpec)
    BY <1>2, HostSpecsType
  <2>4. k \in DOMAIN specs /\ specs[k] = s
    <3>1. k \in 1 .. Len(env.prefixes)
      BY <2>1, <2>2
    <3>. QED
      BY <2>1, <2>2, <2>3, <3>1, ConcatProperties
  <2>5. b.targets \in Seq(SetupTarget)
    BY <1>2, SetupFields
  <2>. HIDE DEF specs
  <2>6. Listed(c.targets, specs[k])
    BY <1>3, <2>1, <2>4, <2>5, AddSpecsElements
  <2>. QED
    BY <1>4, <2>4, <2>6 DEF Listed
<1>5. ASSUME NEW d \in ToSet(more)
      PROVE  d \in ToSet(c.lan_domains)
  <2>1. more \in Seq(Domain)
    BY EnvFields, HostDomainsType, ConcatProperties
  <2>2. b.lan_domains \in Seq(Domain)
    BY <1>2, SetupFields
  <2>. HIDE DEF more
  <2>. QED
    BY <1>3, <1>5, <2>1, <2>2, AppendNewElements
<1>6. \/ \E s \in ToSet(env.prefixes) : a \in s.net
      \/ \E d \in ToSet(more) : a \in ToSet(c.local_dns[d])
  BY DEF EnvLab, c
<1>7. a \in Authorized(c)
  BY <1>4, <1>5, <1>6 DEF Authorized
<1>. QED
  BY <1>7 DEF c

\* Networks that list names use only interfaces of LAN_INTERFACE, that of
\* their file and that of each .env.
NamedInside(c) ==
  \A n \in ToSet(c.networks) :
    n.names # {} =>
      /\ ToSet(n.interfaces) \subseteq ToSet(c.lan_interfaces)
      /\ \A e \in Envs : e.lan # <<>> => ToSet(n.interfaces) \subseteq ToSet(e.lan)

LEMMA LoadedInside ==
  ASSUME NEW f \in File, env \in Envs \cup {Missing}, NamedInside(Base(f))
  PROVE  NamedInside(Load(f)) /\ Load(f).networks = Base(f).networks
<1>. DEFINE b == Base(f)
            c == Load(f)
<1>0. env \in Env \cup {Missing}
  BY SetupAssumption
<1>1. b \in SetupConfig /\ NamedInside(b)
  BY BaseType
<1>2. c = IF env = Missing THEN b ELSE MergeEnv(b, env)
  BY DEF Load, Base
<1>. HIDE DEF b, c
<1>3. CASE env = Missing
  BY <1>1, <1>2, <1>3 DEF b, c
<1>4. CASE env # Missing
  <2>1. /\ env \in Envs /\ c.networks = b.networks
        /\ c.lan_interfaces = IF env.lan = <<>> THEN b.lan_interfaces ELSE env.lan
    BY <1>0, <1>1, <1>2, <1>4, MergeEnvFields
  <2>2. CASE env.lan = <<>>
    <3>1. c.lan_interfaces = b.lan_interfaces
      BY <2>1, <2>2
    <3>2. NamedInside(c)
      BY <1>1, <2>1, <3>1 DEF NamedInside
    <3>. QED
      BY <2>1, <3>2 DEF b, c
  <2>3. CASE env.lan # <<>>
    <3>1. c.lan_interfaces = env.lan
      BY <2>1, <2>3
    <3>2. NamedInside(c)
      BY <1>1, <2>1, <2>3, <3>1 DEF NamedInside
    <3>. QED
      BY <2>1, <3>2 DEF b, c
  <2>. QED
    BY <2>2, <2>3
<1>. QED
  BY <1>3, <1>4

\* The lab of the .env leaves by LAN interfaces only, blacklisted addresses
\* never do, if the configuration is accepted.
LEMMA AcceptedEgress ==
  ASSUME NEW c \in SetupConfig, NEW h, StrictPolicy(c), ValidDesired(c, h),
         NamedInside(c), NEW a
  PROVE  /\ a \in Authorized(c) => Egress(c, h, a) \subseteq ToSet(c.lan_interfaces) \cup {NoDev}
         /\ Blacklisted(c, a) => Egress(c, h, a) \cap ToSet(c.lan_interfaces) = {}
<1>. DEFINE P == AsPolicy(c)
            lan == ToSet(c.lan_interfaces)
<1>1. /\ P \in Config /\ StrictPolicy(P) /\ ValidDesired(P, h) /\ Authorized(P) = Authorized(c)
      /\ Egress(P, h, a) = Egress(c, h, a)
      /\ P.blacklist = c.blacklist /\ P.lan_interfaces = c.lan_interfaces
      /\ ToSet(P.networks) = {AsNetwork(n) : n \in ToSet(c.networks)}
  BY AsPolicyFields, AsPolicyRoutes, AsPolicyAccepted
<1>. HIDE DEF P
<1>2. Accepted(P, h)
  BY <1>1 DEF Accepted
<1>3. InterfacesListed(P)
  <2>1. \A n : AsNetwork(n).names = n.names /\ AsNetwork(n).interfaces = n.interfaces
    BY DEF AsNetwork
  <2>. QED
    BY <1>1, <2>1 DEF InterfacesListed, NamedInside
<1>4. lan \subseteq Dev /\ NoDev \notin Dev
  BY <1>1, ConfigFields, NoDevAssumption
<1>5. ASSUME a \in Authorized(c), NEW i \in Egress(c, h, a)
      PROVE  i \in lan \cup {NoDev}
  <2>1. a \in Authorized(P)
    BY <1>1, <1>5
  <2>2. ~Blacklisted(P, a)
    BY <1>1, <2>1, AuthorizedNotBlacklisted
  <2>3. PICK p \in CoverOf(P) : a \in p
    BY <1>1, <2>1, AuthorizedCovered
  <2>4. PICK r \in ToSet(Rules(P)) : r.nets # {} /\ i = Chosen(r, h)
    BY <1>1, <1>5, <2>2, <2>3, EgressOrigin DEF Blacklisted
  <2>5. Chosen(r, h) = NoDev \/ Chosen(r, h) \in ToSet(P.lan_interfaces)
    BY <1>1, <1>3, <2>4, RuleType, ChosenIsCandidate, CandidatesAreLan
  <2>. QED
    BY <1>1, <2>4, <2>5
<1>6. ASSUME Blacklisted(c, a), NEW i \in Egress(c, h, a)
      PROVE  i \notin lan
  <2>1. Blacklisted(P, a) /\ P.blacklist # {}
    BY <1>1, <1>6 DEF Blacklisted
  <2>2. i \in {Wan, NoDev}
    BY <1>1, <1>2, <1>3, <1>6, <2>1, BlacklistKeptOffLan
  <2>3. WanApart(P)
    BY <2>1 DEF WanApart
  <2>4. Wan \notin lan
    BY <1>1, <1>2, <2>3, WanIsNoCandidate
  <2>. QED
    BY <1>1, <1>4, <2>2, <2>4
<1>. QED
  BY <1>5, <1>6

-----------------------------------------------------------------------------
(* The state *)

SetupInv ==
  /\ file \in File
  /\ env \in Envs \cup {Missing}
  /\ up \in SUBSET Dev

LEMMA EditedType ==
  ASSUME NEW c \in SetupConfig,
         NEW m, m = [c EXCEPT !.networks =
                       [k \in DOMAIN @ |-> [@[k] EXCEPT !.auto_subnets = FALSE]]]
  PROVE  /\ m \in SetupConfig /\ m.lan_interfaces = c.lan_interfaces
         /\ \A n \in ToSet(m.networks) : \E o \in ToSet(c.networks) :
              n.names = o.names /\ n.interfaces = o.interfaces
<1>. DEFINE edited(n) == [n EXCEPT !.auto_subnets = FALSE]
            networks == [k \in DOMAIN c.networks |-> edited(c.networks[k])]
<1>1. /\ Len(c.networks) \in Nat /\ DOMAIN c.networks = 1 .. Len(c.networks)
      /\ \A k \in DOMAIN c.networks : c.networks[k] \in SetupNetwork
  <2>1. c.networks \in Seq(SetupNetwork)
    BY SetupFields
  <2>. QED
    BY <2>1
<1>2. \A n \in SetupNetwork : /\ edited(n) \in SetupNetwork /\ edited(n).names = n.names
                              /\ edited(n).interfaces = n.interfaces
  BY DEF SetupNetwork
<1>3. m = [c EXCEPT !.networks = networks]
  OBVIOUS
<1>. HIDE DEF edited
<1>4. networks \in [1 .. Len(c.networks) -> SetupNetwork]
  BY <1>1, <1>2
<1>5. networks \in Seq(SetupNetwork)
  BY <1>1, <1>4
<1>6. ASSUME NEW n \in ToSet(networks)
      PROVE  \E o \in ToSet(c.networks) : n.names = o.names /\ n.interfaces = o.interfaces
  <2>1. PICK k \in DOMAIN c.networks : n = edited(c.networks[k])
    BY DEF ToSet
  <2>2. c.networks[k] \in ToSet(c.networks)
    BY DEF ToSet
  <2>. QED
    BY <1>1, <1>2, <2>1, <2>2
<1>. HIDE DEF networks
<1>7. m \in SetupConfig /\ m.lan_interfaces = c.lan_interfaces /\ m.networks = networks
  BY <1>3, <1>5 DEF SetupConfig
<1>. QED
  BY <1>6, <1>7

\* The files are configurations, or none, or no TOML.
THEOREM SetupInvariant ==
  Spec => []SetupInv
<1>1. Init => SetupInv
  BY DEF Init, SetupInv, File
<1>2. SetupInv /\ [Next]_vars => SetupInv'
  <2>. SUFFICES ASSUME SetupInv, [Next]_vars PROVE SetupInv'
    OBVIOUS
  <2>. USE DEF SetupInv
  <2>0. env \in Env \cup {Missing}
    BY SetupAssumption
  <2>1. CASE AutoconfigSave
    <3>1. Saved(file) \in SetupConfig
      BY <2>0, SavedFields
    <3>. QED
      BY <2>1, <3>1 DEF AutoconfigSave, File
  <2>2. ASSUME NEW f \in Files \cup {Missing}, WriteFile(f) PROVE SetupInv'
    BY <2>2, SetupAssumption DEF WriteFile, File
  <2>3. CASE EditNetworks
    <3>1. file \in SetupConfig
      BY <2>3 DEF EditNetworks, File
    <3>2. file' \in SetupConfig
      BY <2>3, <3>1, EditedType DEF EditNetworks
    <3>. QED
      BY <2>3, <3>2 DEF EditNetworks, File
  <2>4. ASSUME NEW e \in Envs \cup {Missing}, WriteEnv(e) PROVE SetupInv'
    BY <2>4 DEF WriteEnv
  <2>5. ASSUME NEW i \in Dev, LinkChange(i) PROVE SetupInv'
    BY <2>5 DEF LinkChange
  <2>6. CASE UNCHANGED vars
    BY <2>6 DEF vars
  <2>. QED
    BY <2>1, <2>2, <2>3, <2>4, <2>5, <2>6 DEF Next
<1>. QED
  BY <1>1, <1>2, PTL DEF Spec

-----------------------------------------------------------------------------
(* What module Setup promises *)

\* Autoconfig comes to rest: saving what was saved changes nothing, whatever
\* the file, the .env and the links are.
THEOREM AutoconfigSettlesAlways ==
  Spec => []AutoconfigSettles
<1>1. SetupInv => AutoconfigSettles
  <2>. SUFFICES ASSUME SetupInv PROVE Saved(Saved(file)) = Saved(file)
    BY DEF AutoconfigSettles
  <2>1. env \in Env \cup {Missing} /\ file \in File
    BY SetupAssumption DEF SetupInv
  <2>. QED
    BY <2>1, SavedSettles
<1>. QED
  BY <1>1, SetupInvariant, PTL

\* What begins with a list begins with what that begins with.
LEMMA PrefixOfPrefix ==
  ASSUME NEW T, NEW s \in Seq(T), NEW t \in Seq(T), NEW u \in Seq(T),
         IsPrefix(s, t), IsPrefix(t, u)
  PROVE  IsPrefix(s, u)
<1>1. /\ Len(s) \in Nat /\ Len(t) \in Nat /\ Len(u) \in Nat
      /\ Len(s) <= Len(t) /\ Len(t) <= Len(u) /\ Len(s) <= Len(u)
  BY DEF IsPrefix
<1>2. \A k \in 1 .. Len(s) : SubSeq(s, 1, Len(s))[k] = SubSeq(t, 1, Len(s))[k]
  BY DEF IsPrefix
<1>3. \A k \in 1 .. Len(t) : SubSeq(t, 1, Len(t))[k] = SubSeq(u, 1, Len(t))[k]
  BY DEF IsPrefix
<1>4. \A k \in 1 .. Len(s) : s[k] = t[k]
  BY <1>1, <1>2
<1>5. \A k \in 1 .. Len(t) : t[k] = u[k]
  BY <1>1, <1>3
<1>6. \A k \in 1 .. Len(s) : s[k] = u[k]
  BY <1>1, <1>4, <1>5
<1>7. SubSeq(s, 1, Len(s)) = SubSeq(u, 1, Len(s))
  BY <1>1, <1>6
<1>. QED
  BY <1>1, <1>7 DEF IsPrefix

\* Autoconfig keeps the targets and the networks of the file, in their place.
THEOREM ManualKeptAlways ==
  Spec => ManualKept
<1>1. SetupInv => (AutoconfigSave /\ Written(file) =>
        IsPrefix(file.targets, file'.targets) /\ IsPrefix(file.networks, file'.networks))
  <2>. SUFFICES ASSUME SetupInv, AutoconfigSave, Written(file)
                PROVE  IsPrefix(file.targets, file'.targets)
                       /\ IsPrefix(file.networks, file'.networks)
    OBVIOUS
  <2>. DEFINE c == Load(file)
              s == Saved(file)
  <2>1. /\ file \in File /\ file \in SetupConfig /\ env \in Env \cup {Missing}
        /\ Base(file) = file
    BY SetupAssumption DEF SetupInv, File, Written, Base
  <2>2. file' = s
    BY DEF AutoconfigSave
  <2>3. /\ s \in SetupConfig /\ c \in SetupConfig
        /\ IsPrefix(c.networks, s.networks) /\ IsPrefix(c.targets, s.targets)
    BY <2>1, SavedFields
  <2>4. c = IF env = Missing THEN file ELSE MergeEnv(file, env)
    BY DEF Load, Written
  <2>. HIDE DEF c, s
  <2>5. IsPrefix(file.targets, c.targets) /\ IsPrefix(file.networks, c.networks)
    <3>1. file.targets \in Seq(SetupTarget) /\ file.networks \in Seq(SetupNetwork)
      BY <2>1, SetupFields
    <3>2. CASE env = Missing
      <4>1. c = file
        BY <2>4, <3>2
      <4>. QED
        BY <3>1, <4>1 DEF IsPrefix
    <3>3. CASE env # Missing
      <4>1. c = MergeEnv(file, env) /\ env \in Env
        BY <2>1, <2>4, <3>3
      <4>2. /\ c.networks = file.networks
            /\ c.targets = AddSpecs(file.targets, env, env.prefixes \o HostSpecs(file, env))
        BY <2>1, <4>1, MergeEnvFields
      <4>3. IsPrefix(file.targets, c.targets)
        BY <2>1, <3>1, <4>1, <4>2, SpecsType, AddSpecsElements
      <4>. QED
        BY <3>1, <4>2, <4>3 DEF IsPrefix
    <3>. QED
      BY <3>2, <3>3
  <2>6. /\ file.targets \in Seq(SetupTarget) /\ file.networks \in Seq(SetupNetwork)
        /\ c.targets \in Seq(SetupTarget) /\ c.networks \in Seq(SetupNetwork)
        /\ s.targets \in Seq(SetupTarget) /\ s.networks \in Seq(SetupNetwork)
    BY <2>1, <2>3, SetupFields
  <2>7. IsPrefix(file.targets, s.targets) /\ IsPrefix(file.networks, s.networks)
    BY <2>3, <2>5, <2>6, PrefixOfPrefix
  <2>. QED
    BY <2>2, <2>7
<1>. QED
  BY <1>1, SetupInvariant, PTL DEF ManualKept

\* The networks of every file that is written by hand use LAN interfaces; what
\* autoconfig adds names nothing.
NamedInv == SetupInv /\ NamedInside(Base(file))

LEMMA NamedInvariant ==
  ASSUME \A f \in Files \ {Malformed} : NamedInside(f)
  PROVE  Spec => []NamedInv
<1>0. NamedInside(DefaultConfig)
  BY DEF NamedInside, DefaultConfig, ToSet
<1>1. Init => NamedInside(Base(file))
  BY <1>0 DEF Init, Base
<1>2. SetupInv /\ SetupInv' /\ NamedInside(Base(file)) /\ [Next]_vars => NamedInside(Base(file))'
  <2>. SUFFICES ASSUME SetupInv, SetupInv', NamedInside(Base(file)), [Next]_vars
                PROVE  NamedInside(Base(file'))
    BY DEF NamedInside
  <2>1. CASE AutoconfigSave
    <3>. DEFINE c == Load(file)
                s == Saved(file)
    <3>1. /\ env \in Env \cup {Missing} /\ env \in Envs \cup {Missing} /\ file \in File
      BY SetupAssumption DEF SetupInv
    <3>2. NamedInside(c)
      BY <3>1, LoadedInside
    <3>3. /\ s \in SetupConfig /\ s.lan_interfaces = c.lan_interfaces
          /\ ToSet(s.networks) \subseteq ToSet(c.networks) \cup ToSet(Detect(c).networks)
      BY <3>1, SavedFields
    <3>4. \A n \in ToSet(Detect(c).networks) : n.names = {}
      BY DEF Detect, DetectedNetwork, ToSet
    <3>5. file' = s
      BY <2>1 DEF AutoconfigSave
    <3>. HIDE DEF c, s
    <3>6. NamedInside(s)
      BY <3>2, <3>3, <3>4 DEF NamedInside
    <3>7. Base(file') = s
      BY <3>3, <3>5, SetupAssumption DEF Base
    <3>. QED
      BY <3>6, <3>7
  <2>2. ASSUME NEW f \in Files \cup {Missing}, WriteFile(f) PROVE NamedInside(Base(file'))
    <3>1. file' = f
      BY <2>2 DEF WriteFile
    <3>2. CASE f \in {Missing, Malformed}
      BY <1>0, <3>1, <3>2 DEF Base
    <3>3. CASE f \notin {Missing, Malformed}
      BY <3>1, <3>3 DEF Base
    <3>. QED
      BY <3>2, <3>3
  <2>3. CASE EditNetworks
    <3>1. file \in SetupConfig /\ Base(file) = file
      BY <2>3 DEF EditNetworks, SetupInv, File, Base
    <3>2. /\ file' \in SetupConfig /\ file'.lan_interfaces = file.lan_interfaces
          /\ \A n \in ToSet(file'.networks) : \E o \in ToSet(file.networks) :
               n.names = o.names /\ n.interfaces = o.interfaces
      BY <2>3, <3>1, EditedType DEF EditNetworks
    <3>3. NamedInside(file')
      BY <3>1, <3>2 DEF NamedInside
    <3>4. Base(file') = file'
      BY <3>2, SetupAssumption DEF Base
    <3>. QED
      BY <3>3, <3>4
  <2>4. ASSUME NEW e \in Envs \cup {Missing}, WriteEnv(e) PROVE NamedInside(Base(file'))
    BY <2>4 DEF WriteEnv
  <2>5. ASSUME NEW i \in Dev, LinkChange(i) PROVE NamedInside(Base(file'))
    BY <2>5 DEF LinkChange
  <2>6. CASE UNCHANGED vars
    BY <2>6 DEF vars
  <2>. QED
    BY <2>1, <2>2, <2>3, <2>4, <2>5, <2>6 DEF Next
<1>. QED
  BY <1>1, <1>2, SetupInvariant, PTL DEF Spec, NamedInv

\* What the .env asks is enforced by every configuration that is accepted: its
\* lab leaves by LAN_INTERFACE or not at all, and no blacklist leaks there, if
\* the networks of the files that list names use LAN interfaces.
THEOREM EnvEnforcedAlways ==
  ASSUME \A f \in Files \ {Malformed} : NamedInside(f)
  PROVE  Spec => []EnvEnforced
<1>1. NamedInv => EnvEnforced
  <2>. DEFINE c == Load(file)
  <2>. SUFFICES ASSUME NamedInv, Valid(c),
                       NEW h \in SUBSET Dev, ValidDesired(c, h), NEW a \in Addr
                PROVE  LET lan == ToSet(c.lan_interfaces)
                           out == Egress(c, h, a)
                       IN /\ (env # Missing /\ a \in EnvLab(c)) => out \subseteq lan \cup {NoDev}
                          /\ (env # Missing /\ a \in UNION env.blacklist) => out \cap lan = {}
                          /\ (Written(file) /\ a \in UNION file.blacklist) => out \cap lan = {}
    BY DEF EnvEnforced
  <2>1. /\ file \in File /\ env \in Envs \cup {Missing} /\ env \in Env \cup {Missing}
        /\ NamedInside(Base(file)) /\ Base(file) \in SetupConfig
    BY SetupAssumption, BaseType DEF NamedInv, SetupInv
  <2>2. c \in SetupConfig /\ NamedInside(c) /\ StrictPolicy(c)
    BY <2>1, LoadType, LoadedInside DEF Valid
  <2>3. env # Missing /\ a \in EnvLab(c) => a \in Authorized(c)
    BY <2>1, EnvClaimed
  <2>4. c = IF env = Missing THEN Base(file) ELSE MergeEnv(Base(file), env)
    BY DEF Load, Base
  <2>. HIDE DEF c
  <2>5. /\ env # Missing => c.blacklist = Base(file).blacklist \cup env.blacklist
        /\ env = Missing => c.blacklist = Base(file).blacklist
    BY <2>1, <2>4, MergeEnvFields
  <2>6. env # Missing /\ a \in UNION env.blacklist => Blacklisted(c, a)
    BY <2>5 DEF Blacklisted
  <2>7. Written(file) /\ a \in UNION file.blacklist => Blacklisted(c, a)
    BY <2>5 DEF Blacklisted, Written, Base
  <2>. QED
    BY <2>2, <2>3, <2>6, <2>7, AcceptedEgress
<1>. QED
  BY <1>1, NamedInvariant, PTL
=============================================================================
