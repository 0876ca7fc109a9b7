------------------------------ MODULE Lifecycle ------------------------------
(***************************************************************************)
(* Daemon processes and commands of the command line, which share four     *)
(* things and no lock: the kernel, the state file, the socket path and the *)
(* PID file (commands/daemon.rs, commands/mod.rs, client.rs, daemon.rs).   *)
(*                                                                         *)
(* Every process that reconciles or resets does it in the same steps:      *)
(* "program" and "save"; "wipe", "clear" and "flush".  A client that       *)
(* connects to a socket is queued; it is answered once the daemon behind   *)
(* it serves, and sees the end of the connection when that daemon dies     *)
(* (there are no timeouts in client.rs).                                   *)
(*                                                                         *)
(* Simplifications:                                                        *)
(*  - a policy is one value; what the kernel holds is the set of policies  *)
(*    of which something is left in it (module Reconciler has the steps);  *)
(*  - inside one daemon nothing overlaps: a shutdown or a reset waits for  *)
(*    an apply in progress (find_shutdown_race shows what happens if not); *)
(*  - a sleep of the command line ends at any time;                        *)
(*  - process numbers are not reused while a file names them.              *)
(***************************************************************************)
EXTENDS Naturals, FiniteSets

CONSTANTS
  Daemon,       \* process numbers of daemons
  Command,      \* command lines that may run at a time
  Policy,       \* policies of configuration files
  Absent,       \* no state file
  Nobody,       \* no socket, no PID file, no peer
  MaxCrashes,   \* bound on crashes and interrupts
  Impatient,    \* whether users and `start` go on before a daemon that is
                \* starting serves
  TornStop      \* whether a process may end while the kernel holds a policy
                \* that only its next step would record or remove

ASSUME LifecycleAssumption ==
  /\ Daemon \cap Command = {} /\ Nobody \notin Daemon \cup Command
  /\ Absent \notin Policy
  /\ MaxCrashes \in Nat
  /\ {Impatient, TornStop} \subseteq BOOLEAN

Process == Daemon \cup Command

VARIABLES
  kernel,   \* the policies of which the kernel holds something
  file,     \* state.json
  socket,   \* the daemon the socket path leads to, dead or alive
  pidfile,  \* the daemon that reversed.pid names
  pc,       \* per process, where it is; "off" is not running
  task,     \* what it is there for
  conf,     \* its configuration
  peer,     \* the daemon a command talks to or has started
  sent,     \* daemons with a SIGTERM or SIGINT to take
  loose,    \* history: a crash or a direct apply, and no reset since
  crashes   \* history: crashes and interrupts

host == <<kernel, file>>
paths == <<socket, pidfile>>
about == <<task, conf, peer, sent>>
history == <<loose, crashes>>
vars == <<host, paths, pc, about, history>>

-----------------------------------------------------------------------------
Alive(p) == pc[p] # "off"
Serving(d) == pc[d] = "serve"
AtWork(p) == pc[p] \in {"program", "save", "wipe", "clear", "flush"}

\* Until its accept loop runs, a daemon has no signal handlers.
Starting(d) == Alive(d) /\ task[d] = "start" /\ ~Serving(d)

\* Nobody waits for this daemon to serve.
Unattended(d) == Starting(d) /\ \A c \in Command : peer[c] # d

\* Some process accepts connections on the socket path, and answers a ping.
Listening == socket # Nobody /\ Alive(socket)
Answering(d) == Serving(d) \/ (AtWork(d) /\ task[d] = "request")

Go(p, at) == pc' = [pc EXCEPT ![p] = at]

Leave(p) ==
  /\ Go(p, "off")
  /\ task' = [task EXCEPT ![p] = "none"]
  /\ conf' = [conf EXCEPT ![p] = Absent]
  /\ peer' = [peer EXCEPT ![p] = Nobody]
  /\ sent' = sent \ {p}

-----------------------------------------------------------------------------
(* What reconcile() and reset() do, in whatever process *)

AfterApply(p) ==
  IF p \in Command THEN Leave(p) ELSE Go(p, "serve") /\ UNCHANGED about

AfterReset(p) ==
  IF p \in Command THEN Leave(p)
  ELSE /\ \/ task[p] = "start" /\ Go(p, "unlink")
          \/ task[p] = "request" /\ Go(p, "serve")
          \/ task[p] = "exit" /\ Go(p, "xsock")
       /\ UNCHANGED about

\* Nothing to do, or an error; otherwise the kernel is programmed.
Program(p) ==
  /\ pc[p] = "program"
  /\ \/ AfterApply(p) /\ UNCHANGED <<kernel, loose>>
     \/ /\ file # conf[p]
        /\ kernel' = (kernel \ {file}) \cup {conf[p]}
        /\ loose' = (loose \/ p \in Command)
        /\ Go(p, "save") /\ UNCHANGED about
  /\ UNCHANGED <<file, paths, crashes>>

Save(p) ==
  /\ pc[p] = "save"
  /\ file' = conf[p]
  /\ AfterApply(p)
  /\ UNCHANGED <<kernel, paths, history>>

\* What is recorded goes first, then the record, then the whole table.
Wipe(p) ==
  /\ pc[p] = "wipe"
  /\ kernel' = kernel \ {file}
  /\ Go(p, "clear")
  /\ UNCHANGED <<file, paths, about, history>>

Clear(p) ==
  /\ pc[p] = "clear"
  /\ file' = Absent
  /\ Go(p, "flush")
  /\ UNCHANGED <<kernel, paths, about, history>>

Flush(p) ==
  /\ pc[p] = "flush"
  /\ kernel' = {} /\ loose' = FALSE
  /\ AfterReset(p)
  /\ UNCHANGED <<file, paths, crashes>>

Work(p) == Program(p) \/ Save(p) \/ Wipe(p) \/ Clear(p) \/ Flush(p)

\* The kernel holds a policy that nothing records and this process must deal
\* with next.
Torn(p) ==
  \/ pc[p] = "save" /\ file = Absent
  \/ pc[p] = "flush" /\ kernel # {}

-----------------------------------------------------------------------------
(* The daemon: ReversedDaemon::run() *)

\* A process number that no file and no command knows.
Fresh(d) == ~Alive(d) /\ d \notin {socket, pidfile} /\ \A c \in Command : peer[c] # d

\* Mutant: a leftover state file is trusted.
Boot_NoReset(d) ==
  /\ pc[d] = "boot"
  /\ Go(d, "unlink")
  /\ UNCHANGED <<host, paths, about, history>>

\* A leftover state file is reset.
Boot(d) ==
  /\ pc[d] = "boot"
  /\ Go(d, IF file = Absent THEN "unlink" ELSE "wipe")
  /\ UNCHANGED <<host, paths, about, history>>

\* Mutant: a leftover socket is not removed.
Unlink_Keep(d) ==
  /\ pc[d] = "unlink"
  /\ Go(d, "bind")
  /\ UNCHANGED <<host, paths, about, history>>

Unlink(d) ==
  /\ pc[d] = "unlink"
  /\ socket' = Nobody
  /\ Go(d, "bind")
  /\ UNCHANGED <<host, pidfile, about, history>>

\* bind() fails, and run() returns, when the path is there again.
Bind(d) ==
  /\ pc[d] = "bind"
  /\ \/ socket = Nobody /\ socket' = d /\ Go(d, "pid") /\ UNCHANGED about
     \/ socket # Nobody /\ Leave(d) /\ UNCHANGED socket
  /\ UNCHANGED <<host, pidfile, history>>

\* The startup apply follows.
WritePid(d) ==
  /\ pc[d] = "pid"
  /\ pidfile' = d
  /\ Go(d, "program")
  /\ UNCHANGED <<host, socket, about, history>>

\* The probe loop applies the daemon's configuration.
Reapply(d) ==
  /\ Serving(d)
  /\ Go(d, "program") /\ task' = [task EXCEPT ![d] = "request"]
  /\ UNCHANGED <<host, paths, conf, peer, sent, history>>

\* Mutant: the policy is left for the next start.
BeginExit_NoReset(d) == Go(d, "xsock") /\ task' = [task EXCEPT ![d] = "exit"]

\* The accept loop ends and the cleanup begins.
BeginExit(d) == Go(d, "wipe") /\ task' = [task EXCEPT ![d] = "exit"]

\* A daemon without handlers dies of the signal.
TakeSignal(d) ==
  /\ d \in sent
  /\ \/ /\ Serving(d)
        /\ BeginExit(d)
        /\ sent' = sent \ {d}
        /\ UNCHANGED <<conf, peer, loose>>
     \/ /\ Starting(d)
        /\ Torn(d) => TornStop
        /\ Leave(d)
        /\ loose' = TRUE
  /\ UNCHANGED <<host, paths, crashes>>

\* On its way out the daemon removes whatever socket and PID file are there.
ExitSocket(d) ==
  /\ pc[d] = "xsock"
  /\ socket' = Nobody
  /\ Go(d, "xpid")
  /\ UNCHANGED <<host, pidfile, about, history>>

ExitPid(d) ==
  /\ pc[d] = "xpid"
  /\ pidfile' = Nobody
  /\ Leave(d)
  /\ UNCHANGED <<host, socket, history>>

DaemonStep(d) ==
  \/ Boot(d) \/ Unlink(d) \/ Bind(d) \/ WritePid(d)
  \/ TakeSignal(d) \/ ExitSocket(d) \/ ExitPid(d)
  \/ Work(d)

-----------------------------------------------------------------------------
(* The command line.  A "restart" is "restarted" after its stop half. *)

Stopping(c) == task[c] \in {"stop", "restart"}

Issue(c, kind, policy) ==
  /\ ~Alive(c)
  /\ (\E d \in Daemon : Unattended(d)) => Impatient
  /\ Go(c, "ping")
  /\ task' = [task EXCEPT ![c] = kind]
  /\ conf' = [conf EXCEPT ![c] = IF kind \in {"stop", "reset"} THEN Absent ELSE policy]
  /\ UNCHANGED <<host, paths, peer, sent, history>>

\* The daemon is not there: kill what the PID file names, start one, or do
\* the work in this process.
Offline(c) ==
  IF task[c] \in {"start", "restarted"}
  THEN \E d \in Daemon :
         /\ Fresh(d)
         /\ pc' = [pc EXCEPT ![d] = "boot", ![c] = "wait"]
         /\ task' = [task EXCEPT ![d] = "start"]
         /\ conf' = [conf EXCEPT ![d] = conf[c]]
         /\ peer' = [peer EXCEPT ![c] = d]
         /\ UNCHANGED sent
  ELSE /\ Go(c, CASE Stopping(c)       -> "kill"
                  [] task[c] = "apply" -> "program"
                  [] task[c] = "reset" -> "wipe")
       /\ peer' = [peer EXCEPT ![c] = Nobody]
       /\ UNCHANGED <<task, conf, sent>>

\* Mutant: only a daemon that is ready is waited for.
Ping_NoWait(c) ==
  /\ pc[c] = "ping"
  /\ IF Listening /\ Answering(socket)
     THEN Go(c, "pong") /\ peer' = [peer EXCEPT ![c] = socket] /\ UNCHANGED <<task, conf, sent>>
     ELSE Offline(c)
  /\ UNCHANGED <<host, paths, history>>

\* is_alive()
Ping(c) ==
  /\ pc[c] = "ping"
  /\ IF Listening
     THEN Go(c, "pong") /\ peer' = [peer EXCEPT ![c] = socket] /\ UNCHANGED <<task, conf, sent>>
     ELSE Offline(c)
  /\ UNCHANGED <<host, paths, history>>

\* The answer to the ping, or the end of the connection.
Pong(c) ==
  /\ pc[c] = "pong"
  /\ \/ /\ Answering(peer[c])
        /\ IF task[c] \in {"start", "restarted"}
           THEN Leave(c)
           ELSE /\ Go(c, "ask") /\ peer' = [peer EXCEPT ![c] = Nobody]
                /\ UNCHANGED <<task, conf, sent>>
     \/ ~Alive(peer[c]) /\ Offline(c)
  /\ UNCHANGED <<host, paths, history>>

\* send()
Ask(c) ==
  /\ pc[c] = "ask"
  /\ IF Listening
     THEN Go(c, "answer") /\ peer' = [peer EXCEPT ![c] = socket] /\ UNCHANGED <<task, conf, sent>>
     ELSE Offline(c)
  /\ UNCHANGED <<host, paths, history>>

\* Mutant: Shutdown is left to the signal.
Shutdown_Unsent(c, d) ==
  /\ Stopping(c)
  /\ Go(c, "kill")
  /\ UNCHANGED <<task, conf>>

\* Shutdown is acknowledged at once.
Shutdown(c, d) ==
  /\ Stopping(c)
  /\ pc' = [pc EXCEPT ![c] = "kill", ![d] = "wipe"]
  /\ task' = [task EXCEPT ![d] = "exit"]
  /\ UNCHANGED conf

\* Mutant: every request brings a configuration.
Request_Conf(c, d) ==
  /\ task[c] \in {"apply", "reset"}
  /\ pc' = [pc EXCEPT ![c] = "reply", ![d] = IF task[c] = "apply" THEN "program" ELSE "wipe"]
  /\ task' = [task EXCEPT ![d] = "request"]
  /\ conf' = [conf EXCEPT ![d] = conf[c]]

\* Apply replaces the configuration of the daemon; Reset does not.
Request(c, d) ==
  /\ task[c] \in {"apply", "reset"}
  /\ pc' = [pc EXCEPT ![c] = "reply", ![d] = IF task[c] = "apply" THEN "program" ELSE "wipe"]
  /\ task' = [task EXCEPT ![d] = "request"]
  /\ conf' = IF task[c] = "apply" THEN [conf EXCEPT ![d] = conf[c]] ELSE conf

\* The daemon is up and takes the request, or the connection ends.
Answer(c) ==
  /\ pc[c] = "answer"
  /\ \/ /\ Serving(peer[c])
        /\ Shutdown(c, peer[c]) \/ Request(c, peer[c])
        /\ UNCHANGED <<peer, sent>>
     \/ ~Alive(peer[c]) /\ Offline(c)
  /\ UNCHANGED <<host, paths, history>>

\* The report of the daemon.  If the daemon ends before it is read, the
\* command does the work itself.
Reply(c) ==
  /\ pc[c] = "reply"
  /\ \/ Serving(peer[c]) /\ Leave(c)
     \/ ~Alive(peer[c]) /\ Offline(c)
  /\ UNCHANGED <<host, paths, history>>

\* The end of stop: SIGTERM to the process the PID file names ...
Kill(c) ==
  /\ pc[c] = "kill"
  /\ sent' = sent \cup {d \in Daemon : d = pidfile /\ Alive(d)}
  /\ Go(c, "rmpid")
  /\ UNCHANGED <<host, paths, task, conf, peer, history>>

\* Mutant: the socket is cleaned up as well.
RemovePid_Socket(c) ==
  /\ pc[c] = "rmpid"
  /\ pidfile' = Nobody /\ socket' = Nobody
  /\ \/ /\ task[c] = "restart"
        /\ Go(c, "ping") /\ task' = [task EXCEPT ![c] = "restarted"]
        /\ peer' = [peer EXCEPT ![c] = Nobody]
        /\ UNCHANGED <<conf, sent>>
     \/ task[c] = "stop" /\ Leave(c)
  /\ UNCHANGED <<host, history>>

\* ... whose PID file is removed.  A restart goes on as a start.
RemovePid(c) ==
  /\ pc[c] = "rmpid"
  /\ pidfile' = Nobody
  /\ \/ /\ task[c] = "restart"
        /\ Go(c, "ping") /\ task' = [task EXCEPT ![c] = "restarted"]
        /\ peer' = [peer EXCEPT ![c] = Nobody]
        /\ UNCHANGED <<conf, sent>>
     \/ task[c] = "stop" /\ Leave(c)
  /\ UNCHANGED <<host, socket, history>>

\* The polling of start ends when some daemon answers, when its own has died,
\* or when its own is slow.
Wait(c) ==
  /\ pc[c] = "wait"
  /\ \/ Listening /\ Answering(socket)
     \/ ~Listening /\ (Alive(peer[c]) => Impatient)
  /\ Leave(c)
  /\ UNCHANGED <<host, paths, history>>

CommandStep(c) ==
  \/ Ping(c) \/ Pong(c) \/ Ask(c) \/ Answer(c) \/ Reply(c)
  \/ Kill(c) \/ RemovePid(c) \/ Wait(c)
  \/ Work(c)

-----------------------------------------------------------------------------
(* What happens to them *)

\* SIGTERM or SIGINT to a daemon that serves; before that it is a crash.
Signal(d) ==
  /\ Serving(d)
  /\ sent' = sent \cup {d}
  /\ UNCHANGED <<host, paths, pc, task, conf, peer, history>>

\* `reversed` itself is run, as by run.sh and the unit file.
Launch(d) ==
  /\ Fresh(d)
  /\ (\E p \in Process : Alive(p)) => Impatient
  /\ Go(d, "boot")
  /\ task' = [task EXCEPT ![d] = "start"]
  /\ \E policy \in Policy : conf' = [conf EXCEPT ![d] = policy]
  /\ UNCHANGED <<host, paths, peer, sent, history>>

\* A daemon is killed, or a command interrupted.
Crash(p) ==
  /\ crashes < MaxCrashes /\ Alive(p)
  /\ Torn(p) => TornStop
  /\ pc[p] = "wait" => Impatient
  /\ Leave(p)
  /\ loose' = (loose \/ p \in Daemon \/ AtWork(p))
  /\ crashes' = crashes + 1
  /\ UNCHANGED <<host, paths>>

Environment ==
  \/ \E c \in Command, policy \in Policy,
        kind \in {"start", "stop", "restart", "apply", "reset"} : Issue(c, kind, policy)
  \/ \E d \in Daemon : Reapply(d) \/ Signal(d) \/ Launch(d)
  \/ \E p \in Process : Crash(p)

-----------------------------------------------------------------------------
Init ==
  /\ kernel = {} /\ file = Absent
  /\ socket = Nobody /\ pidfile = Nobody
  /\ pc = [p \in Process |-> "off"]
  /\ task = [p \in Process |-> "none"]
  /\ conf = [p \in Process |-> Absent]
  /\ peer = [p \in Process |-> Nobody]
  /\ sent = {}
  /\ loose = FALSE /\ crashes = 0

Next ==
  \/ \E d \in Daemon : DaemonStep(d)
  \/ \E c \in Command : CommandStep(c)
  \/ Environment

\* Processes run; a daemon that is busy again and again still takes the
\* requests that wait for its mutex, which is granted in turn, and its
\* signals, for which the accept loop need not wait.
Fairness ==
  /\ \A d \in Daemon : WF_vars(DaemonStep(d)) /\ SF_vars(TakeSignal(d))
  /\ \A c \in Command : WF_vars(CommandStep(c)) /\ SF_vars(Answer(c)) /\ SF_vars(Reply(c))

Spec == Init /\ [][Next]_vars /\ Fairness
=============================================================================
