------------------------- MODULE LifecycleProperties -------------------------
(***************************************************************************)
(* What daemons and commands promise as long as they are used one at a     *)
(* time: the command line has no lock, so what keeps two of its processes  *)
(* apart is only that a client waits for whoever holds the socket.         *)
(***************************************************************************)
EXTENDS Lifecycle

\* The types of the state; only what runs has a task, a daemon always has a
\* configuration, and a command that waits for a daemon knows which.
LTypeOK ==
  /\ kernel \subseteq Policy /\ file \in Policy \cup {Absent}
  /\ socket \in Daemon \cup {Nobody} /\ pidfile \in Daemon \cup {Nobody}
  /\ \A d \in Daemon :
       /\ pc[d] \in {"off", "boot", "unlink", "bind", "pid", "serve", "xsock", "xpid",
                     "program", "save", "wipe", "clear", "flush"}
       /\ task[d] \in {"none", "start", "request", "exit"}
       /\ conf[d] \in IF Alive(d) THEN Policy ELSE {Absent}
       /\ peer[d] = Nobody
  /\ \A c \in Command :
       /\ pc[c] \in {"off", "ping", "pong", "ask", "answer", "reply", "kill", "rmpid",
                     "wait", "program", "save", "wipe", "clear", "flush"}
       /\ task[c] \in {"none", "start", "stop", "restart", "restarted", "apply", "reset"}
       /\ conf[c] \in Policy \cup {Absent}
       /\ pc[c] \in {"pong", "answer", "reply", "wait"} => peer[c] \in Daemon
  /\ \A p \in Process : task[p] = "none" <=> ~Alive(p)
  /\ sent \subseteq {d \in Daemon : Alive(d)}
  /\ loose \in BOOLEAN /\ crashes \in 0..MaxCrashes

\* No two processes change routes, rules and the state file at a time: there
\* is no lock on the host, and a restart starts a daemon while the old one may
\* still be cleaning up (commands/daemon.rs:61, 86; commands/mod.rs:229).
OneProgrammer == \A p, q \in Process : AtWork(p) /\ AtWork(q) => p = q

\* The daemon that serves is the one clients reach, whoever removes socket
\* files when (daemon.rs:79, 263).
SocketReachesDaemon == \A d \in Daemon : Serving(d) => socket = d

\* The kernel of a daemon at rest holds exactly what its state file says,
\* whatever crashed, was stopped or was applied by hand before.
ServedAsRecorded ==
  ((\E d \in Daemon : Serving(d)) /\ \A p \in Process : ~AtWork(p))
    => kernel = {file} \ {Absent}

\* When nothing runs any more, nothing is left in the kernel or the state file
\* (daemon.rs:255, "Ephemeral lifecycle guarantee"), unless a daemon crashed or
\* a command applied a policy without a daemon.
Ephemeral ==
  ((\A p \in Process : ~Alive(p)) /\ ~loose) => kernel = {} /\ file = Absent

\* `stop` ends the daemon that serves (commands/daemon.rs:59), even if the PID
\* file is gone, and however often its probe loop applies the policy again; no
\* crash or interrupt is left to come (as below).
StopEndsDaemon ==
  \A c \in Command, d \in Daemon :
    (pc[c] = "ping" /\ task[c] = "stop" /\ Serving(d) /\ crashes = MaxCrashes)
      ~> ~Alive(d)

\* A restart ends with a daemon that serves, also when the old one crashed and
\* left its files (commands/daemon.rs:84).
RestartServes ==
  \A c \in Command :
    (pc[c] = "ping" /\ task[c] = "restarted" /\ crashes = MaxCrashes)
      ~> \E d \in Daemon : Serving(d)
=============================================================================
