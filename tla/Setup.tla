-------------------------------- MODULE Setup --------------------------------
(***************************************************************************)
(* Where a configuration comes from: the TOML file, the .env that is merged*)
(* into it by every load (config.rs), and autoconfig, which detects LAN    *)
(* interfaces and writes what it loaded and found back to the file         *)
(* (classifier.rs, detector.rs, commands/autoconfig.rs).  Module Policy    *)
(* says what a configuration then does; its records have more fields here. *)
(*                                                                         *)
(* Simplifications:                                                        *)
(*  - a .env is what its keys hold: apply_env_str() reads it to the end    *)
(*    before one key acts on another, and the last line of a key wins, or  *)
(*    all of them count;                                                   *)
(*  - one configuration file and one .env, whichever of the paths they are;*)
(*  - items that parse_target_spec() and extract_target_domain() drop are  *)
(*    not there; prefixes are written without host bits; every record has  *)
(*    an address; LAN_DNS_SERVER is left out, since validation refuses     *)
(*    every domain that would need it; so are the names of targets;        *)
(*  - one WAN interface, which has the default route.                      *)
(*                                                                         *)
(* Every apply loads anew, and so does every start of a daemon (which ends *)
(* if the file is malformed), so the state here is only what is loaded;    *)
(* modules Daemon and Lifecycle have the rest.                             *)
(***************************************************************************)
EXTENDS Policy

CONSTANTS
  Port,        \* ports that targets name
  NoPort,      \* a target without a port
  AutoWan,     \* wan.interfaces = ["auto"]
  Kind,        \* per interface, what its name says: "Loopback", "Virtual",
               \* "Vpn" or "plain"
  Attached,    \* per interface, when up, its networks, gateway and neighbours
  Files,       \* configurations that are written by hand, and Malformed
  Envs,        \* contents of .env
  Missing,     \* no such file
  Malformed    \* a file that is no TOML

SetupTarget == [net : Dst, bare : BOOLEAN, port : Port \cup {NoPort},
                via : Seq(Dev), fallback : {"drop", "wan"}]

SetupNetwork == [name : STRING \cup Dev, auto_subnets : BOOLEAN,
                 names : SUBSET Domain, suffix : BOOLEAN, interfaces : Seq(Dev)]

SetupConfig == [wan            : Dev \cup {AutoWan},
                manual         : BOOLEAN,   \* mode, defaults.*
                targets        : Seq(SetupTarget),
                lan_domains    : Seq(Domain),
                networks       : Seq(SetupNetwork),
                local_dns      : [Domain -> Seq(Addr)],
                blacklist      : SUBSET Dst,
                lan_interfaces : Seq(Dev)]

\* An item of LAN_IPS is a prefix or a name.
Env == [prefixes  : Seq([net : Dst, port : Port \cup {NoPort}]),
        hosts     : Seq([domain : Domain, port : Port \cup {NoPort}]),
        domains   : Seq(Domain),
        records   : [Domain -> Seq(Addr)],
        blacklist : SUBSET Dst,
        lan       : Seq(Dev),
        wan       : Dev \cup {NoDev},
        fallback  : {"drop", "wan"}]

ASSUME SetupAssumption ==
  /\ NoPort \notin Port /\ AutoWan \notin Dev /\ IsFiniteSet(Dev)
  /\ Missing \notin SetupConfig \cup Env /\ Malformed \notin SetupConfig
  /\ Kind \in [Dev -> {"Loopback", "Virtual", "Vpn", "plain"}]
  /\ Attached \in [Dev -> [nets : Seq(Dst), gateway : Seq(Addr), neighbors : Seq(Addr)]]
  /\ Files \subseteq SetupConfig \cup {Malformed} /\ Envs \subseteq Env

\* What the text of a target says.
Text(t) == [net |-> t.net, bare |-> t.bare]

VARIABLES
  file,     \* config.toml
  env,      \* .env
  up        \* interfaces that are up, have a carrier and addresses

vars == <<file, env, up>>

-----------------------------------------------------------------------------
(* Loading: load_config_or_default(), apply_env_str() *)

DefaultConfig ==
  [wan |-> AutoWan, manual |-> TRUE, targets |-> <<>>, lan_domains |-> <<>>,
   networks |-> <<>>, local_dns |-> [d \in Domain |-> <<>>], blacklist |-> {},
   lan_interfaces |-> <<>>]

\* Pushing one element after the other, if its key is not there yet: the
\* elements whose keys are not in S nor those of earlier ones.
Fresh(S, keys, more) ==
  Retained(more, {k \in DOMAIN more : /\ keys[k] \notin S
                                      /\ \A j \in 1 .. k - 1 : keys[j] # keys[k]})

\* push_lan_domain(), and the other lists without duplicates.
AppendNew(s, more) == s \o Fresh(ToSet(s), more, more)

\* Mutant: answers are not looked up before they are added.
Records_Append(c, e) == [d \in Domain |-> c.local_dns[d] \o e.records[d]]

\* Static answers, of both files.
Records(c, e) == [d \in Domain |-> AppendNew(c.local_dns[d], e.records[d])]

\* The answers to the names among LAN_IPS, from the records of both files.
HostSpecs(c, e) ==
  FlattenSeq([k \in DOMAIN e.hosts |->
    LET host == e.hosts[k]
        answers == Records(c, e)[host.domain]
    IN [j \in DOMAIN answers |-> [net |-> {answers[j]}, port |-> host.port]]])

HostDomains(e) == [k \in DOMAIN e.hosts |-> e.hosts[k].domain]

\* The targets of the .env, unless the file has them with the same text and port.
AddSpecs(targets, e, specs) ==
  LET listed == {[net |-> t.net, port |-> t.port] : t \in {u \in ToSet(targets) : ~u.bare}}
      added == Fresh(listed, specs, specs)
  IN targets \o [k \in DOMAIN added |->
                   [net |-> added[k].net, bare |-> FALSE, port |-> added[k].port,
                    via |-> e.lan, fallback |-> e.fallback]]

\* Mutant: the blacklist is replaced like the interfaces.
MergeEnv_Unlisted(c, e) ==
  [c EXCEPT
    !.wan = IF e.wan = NoDev THEN @ ELSE e.wan,
    !.lan_interfaces = IF e.lan = <<>> THEN @ ELSE e.lan,
    !.blacklist = IF @ = {} THEN e.blacklist ELSE @,
    !.local_dns = Records(c, e),
    !.lan_domains = AppendNew(@, e.domains \o HostDomains(e)),
    !.targets = AddSpecs(@, e, e.prefixes \o HostSpecs(c, e))]

\* Interfaces are replaced, lists grow; the .env never changes a target that
\* the file has.  Targets of a .env without LAN_INTERFACE have no interface.
MergeEnv(c, e) ==
  [c EXCEPT
    !.wan = IF e.wan = NoDev THEN @ ELSE e.wan,
    !.lan_interfaces = IF e.lan = <<>> THEN @ ELSE e.lan,
    !.blacklist = @ \cup e.blacklist,
    !.local_dns = Records(c, e),
    !.lan_domains = AppendNew(@, e.domains \o HostDomains(e)),
    !.targets = AddSpecs(@, e, e.prefixes \o HostSpecs(c, e))]

\* A file that is missing or malformed counts as the default configuration.
Load(f) ==
  LET c == IF f \in {Missing, Malformed} THEN DefaultConfig ELSE f
  IN IF env = Missing THEN c ELSE MergeEnv(c, env)

\* validate_strict_lan_policy()
Valid(c) ==
  /\ c.manual
  /\ c.wan # AutoWan
  /\ \A n \in ToSet(c.networks) : ~n.auto_subnets
  /\ StrictPolicy(c)

-----------------------------------------------------------------------------
(* Detection *)

\* InterfaceClassifier::classify(); the interface without a configured WAN
\* is the one with the default route.
Role(c, i) ==
  CASE Kind[i] # "plain"                            -> Kind[i]
    [] i = (IF c.wan = AutoWan THEN Wan ELSE c.wan)    -> "Wan"
    [] OTHER -> IF i \in up THEN "Lan" ELSE "Unknown"

Lans(c) == SetToSeq({i \in Dev : Role(c, i) = "Lan"})

DetectedNetwork(i) ==
  [name |-> i, auto_subnets |-> TRUE, names |-> {}, suffix |-> FALSE, interfaces |-> <<i>>]

\* Subnets, the gateway, neighbours other than the gateway.
DetectedTargets(i) ==
  LET at == Attached[i]
      Hosted(addrs) == [k \in DOMAIN addrs |-> {addrs[k]}]
      nets == AppendNew(<<>>, at.nets) \o Hosted(at.gateway)
              \o Hosted(Retained(at.neighbors, {k \in DOMAIN at.neighbors :
                                                  ~Contains(at.gateway, at.neighbors[k])}))
  IN [k \in DOMAIN nets |->
       [net |-> nets[k], bare |-> FALSE, port |-> NoPort, via |-> <<i>>, fallback |-> "drop"]]

\* LanDetector::detect()
Detect(c) ==
  LET lans == Lans(c)
  IN [networks |-> [k \in DOMAIN lans |-> DetectedNetwork(lans[k])],
      targets  |-> FlattenSeq([k \in DOMAIN lans |-> DetectedTargets(lans[k])])]

\* Mutant: what is detected replaces what there is, as AddTarget does.
MergeDetected_Replace(c, found) ==
  LET Kept(t) == ~\E u \in ToSet(found.targets) : Text(t) = Text(u)
  IN [c EXCEPT !.networks = AppendNew(@, found.networks),
               !.targets = SelectSeq(@, Kept) \o found.targets]

\* LanDetector::merge_into_config(): networks by name, targets by text.
MergeDetected(c, found) ==
  LET names == [k \in DOMAIN found.networks |-> found.networks[k].name]
      texts == [k \in DOMAIN found.targets |-> Text(found.targets[k])]
  IN [c EXCEPT
       !.networks = @ \o Fresh({n.name : n \in ToSet(@)}, names, found.networks),
       !.targets = @ \o Fresh({Text(t) : t \in ToSet(@)}, texts, found.targets)]

-----------------------------------------------------------------------------
(* Commands *)

\* What `autoconfig --save` makes of a file.
Saved(f) == MergeDetected(Load(f), Detect(Load(f)))

\* Without a LAN interface nothing happens; an apply changes neither file.
AutoconfigSave ==
  /\ Lans(Load(file)) # <<>>
  /\ file' = Saved(file)
  /\ UNCHANGED <<env, up>>

\* The user and the host.
WriteFile(f) == file' = f /\ UNCHANGED <<env, up>>

\* What autoconfig has written is edited so that validation accepts it.
EditNetworks ==
  /\ file \notin {Missing, Malformed}
  /\ file' = [file EXCEPT !.networks =
                [k \in DOMAIN @ |-> [@[k] EXCEPT !.auto_subnets = FALSE]]]
  /\ UNCHANGED <<env, up>>

WriteEnv(e) == env' = e /\ UNCHANGED <<file, up>>

LinkChange(i) ==
  /\ up' = IF i \in up THEN up \ {i} ELSE up \cup {i}
  /\ UNCHANGED <<file, env>>

Init ==
  /\ file = Missing /\ env = Missing
  /\ up \in SUBSET Dev

Next ==
  \/ AutoconfigSave
  \/ \E f \in Files \cup {Missing} : WriteFile(f)
  \/ EditNetworks
  \/ \E e \in Envs \cup {Missing} : WriteEnv(e)
  \/ \E i \in Dev : LinkChange(i)

Spec == Init /\ [][Next]_vars
-----------------------------------------------------------------------------
(* Properties *)

Written(f) == f \notin {Missing, Malformed}

\* Autoconfig comes to rest: what it saves it reads back, with the .env merged
\* in again, detects the same, and adds nothing the next time
\* (autoconfig.rs:86, config.rs:179, detector.rs:125).
AutoconfigSettles == Lans(Load(file)) # <<>> => Saved(Saved(file)) = Saved(file)

\* Autoconfig keeps what was written by hand, in its place (detector.rs:124,
\* "without overwriting manual custom entries").
ManualKept ==
  [][AutoconfigSave /\ Written(file) =>
       IsPrefix(file.targets, file'.targets) /\ IsPrefix(file.networks, file'.networks)]_vars

\* The addresses that the .env lists, and the answers to its names.
EnvLab(c) ==
  (UNION {s.net : s \in ToSet(env.prefixes)})
  \cup UNION {ToSet(c.local_dns[d]) : d \in ToSet(env.domains \o HostDomains(env))}

\* What is loaded, if it is accepted when it is loaded and when it is applied,
\* does what the .env asks, whatever file it is merged into and whichever
\* interfaces are available: its addresses and names leave by the interfaces of
\* LAN_INTERFACE or not at all, the blacklists of both files never do
\* (.env.example:2, README.md:45).
EnvEnforced ==
  LET c == Load(file)
      lan == ToSet(c.lan_interfaces)
      Out(h, a) == Egress(c, h, a)
  IN Valid(c) =>
       \A h \in {g \in SUBSET Dev : ValidDesired(c, g)}, a \in Addr :
         /\ (env # Missing /\ a \in EnvLab(c)) => Out(h, a) \subseteq lan \cup {NoDev}
         /\ (env # Missing /\ a \in UNION env.blacklist) => Out(h, a) \cap lan = {}
         /\ (Written(file) /\ a \in UNION file.blacklist) => Out(h, a) \cap lan = {}

\* What autoconfig has saved can be applied (README.md:113, "Detect, save, and
\* immediately apply routing policy").
SavedIsAccepted == [][AutoconfigSave /\ Valid(Load(file)) => Valid(Load(file)')]_vars

\* A file that autoconfig cannot read is not overwritten.
MalformedKept == [][AutoconfigSave => file # Malformed]_vars
=============================================================================
