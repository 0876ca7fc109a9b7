--------------------------- MODULE LifecycleProofs ---------------------------
(***************************************************************************)
(* Proofs about Lifecycle, for any number of daemons, policies and         *)
(* crashes: its types; and, with one command at a time and patient users,  *)
(* that the processes of the host keep out of each other's way (Apart),    *)
(* that kernel and state file agree (Recorded), and that nothing is left   *)
(* without an owner (LeftoversOwned).                                      *)
(***************************************************************************)
EXTENDS LifecycleProperties, TLAPS

Resetting == {"wipe", "clear", "flush"}
Working == {"program", "save"} \cup Resetting
DaemonPhase == {"off", "boot", "unlink", "bind", "pid", "serve", "xsock", "xpid"} \cup Working
CommandPhase ==
  {"off", "ping", "pong", "ask", "answer", "reply", "kill", "rmpid", "wait"} \cup Working
Phase == DaemonPhase \cup CommandPhase
DaemonTask == {"none", "start", "request", "exit"}
CommandTask == {"none", "start", "stop", "restart", "restarted", "apply", "reset"}

\* What a daemon does fits what it is there for.
DaemonTyped(d) ==
  /\ pc[d] \in DaemonPhase
  /\ task[d] \in DaemonTask
  /\ task[d] = "none" <=> pc[d] = "off"
  /\ pc[d] \in {"boot", "unlink", "bind", "pid"} => task[d] = "start"
  /\ pc[d] \in {"xsock", "xpid"} => task[d] = "exit"
  /\ pc[d] \in {"program", "save"} => task[d] # "exit"
  /\ pc[d] # "off" => conf[d] \in Policy
  /\ pc[d] = "off" => conf[d] = Absent
  /\ peer[d] = Nobody

\* So does what a command does.
CommandTyped(c) ==
  /\ pc[c] \in CommandPhase
  /\ task[c] \in CommandTask
  /\ task[c] = "none" <=> pc[c] = "off"
  /\ task[c] \in {"start", "restart", "restarted", "apply"} => conf[c] \in Policy
  /\ pc[c] \in {"program", "save"} => task[c] = "apply"
  /\ pc[c] \in Resetting => task[c] = "reset"
  /\ pc[c] \in {"pong", "answer", "reply", "wait"} => peer[c] \in Daemon
  /\ pc[c] = "off" => peer[c] = Nobody
  /\ pc[c] \in {"kill", "rmpid"} => task[c] \in {"stop", "restart"}

Functions ==
  /\ pc \in [Process -> Phase] /\ task \in [Process -> DaemonTask \cup CommandTask]
  /\ conf \in [Process -> Policy \cup {Absent}]
  /\ peer \in [Process -> Daemon \cup {Nobody}]

HostTyped ==
  /\ kernel \subseteq Policy /\ file \in Policy \cup {Absent}
  /\ socket \in Daemon \cup {Nobody} /\ pidfile \in Daemon \cup {Nobody}
  /\ sent \subseteq Daemon
  /\ crashes \in 0..MaxCrashes

ProcessesTyped ==
  /\ \A d \in Daemon : DaemonTyped(d)
  /\ \A c \in Command : CommandTyped(c)
  /\ \A d \in sent : pc[d] # "off"

Typed == Functions /\ HostTyped /\ ProcessesTyped /\ loose \in BOOLEAN

-----------------------------------------------------------------------------
\* A daemon that has not bound its socket, one that has and still holds it,
\* and one that has nothing left to do but remove the PID file.
PreBind(d) ==
  \/ pc[d] \in {"boot", "unlink", "bind"}
  \/ task[d] = "start" /\ pc[d] \in Resetting
Bound(d) == pc[d] \notin {"off", "xpid"} /\ ~PreBind(d)
Gone(d) == pc[d] \in {"off", "xpid"}

\* The socket path leads to the daemon that holds it.
BoundHasSocket == \A d \in Daemon : Bound(d) => socket = d

\* Until a daemon has bound its socket there is no other one.
OneStarts == \A d, e \in Daemon : PreBind(d) /\ e # d => Gone(e)

\* A command runs beside a starting daemon only if it waits for that one.
NoneStartsBeside ==
  \A c \in Command, d \in Daemon :
    pc[c] # "off" /\ Starting(d) => pc[c] = "wait" /\ peer[c] = d

\* A client is connected to the daemon of the socket path, or to one that has
\* removed it.
ConnectedToSocket ==
  \A c \in Command :
    pc[c] \in {"pong", "answer", "reply"} => socket \in {peer[c], Nobody}

\* A command works in its own process only without a daemon.
WorksAlone == \A c \in Command, d \in Daemon : AtWork(c) => Gone(d)

Apart ==
  BoundHasSocket /\ OneStarts /\ NoneStartsBeside /\ ConnectedToSocket /\ WorksAlone

\* One command line at a time, and nobody goes on before a daemon serves.
OneAtATime == ~Impatient /\ \A b, c \in Command : b = c

\* The vocabulary of the actions is expanded everywhere, what a client does
\* without a daemon only where it matters.
USE DEF Go, Leave, AfterApply, AfterReset, Fresh, Alive, Serving, Starting, Unattended,
        Stopping, Shutdown, Request, Answering, Listening, BeginExit, AtWork, Process,
        vars, host, paths, about, history

-----------------------------------------------------------------------------
(* Types *)

\* The initial state is well typed.
LEMMA InitTyped == Init => Typed
<1> SUFFICES ASSUME Init PROVE Typed
  OBVIOUS
<1>1. ProcessesTyped
  BY LifecycleAssumption, SMT DEF Init, ProcessesTyped, DaemonTyped, CommandTyped,
     DaemonPhase, CommandPhase, DaemonTask, CommandTask, Working, Resetting
<1>2. Functions
  BY SMT DEF Init, Functions, Phase, DaemonPhase, DaemonTask
<1>3. HostTyped
  BY LifecycleAssumption, SMT DEF Init, HostTyped
<1>4. loose \in BOOLEAN
  BY Zenon DEF Init
<1> QED BY <1>1, <1>2, <1>3, <1>4 DEF Typed

\* The steps of a daemon that are its own keep the types, and what happens to it.
LEMMA DaemonTypes ==
  ASSUME Typed, NEW d \in Daemon,
         Boot(d) \/ Unlink(d) \/ Bind(d) \/ WritePid(d) \/ TakeSignal(d)
           \/ ExitSocket(d) \/ ExitPid(d) \/ Reapply(d) \/ Signal(d)
           \/ Launch(d)
  PROVE  Typed'
<1> USE LifecycleAssumption DEF Typed, Functions, HostTyped, ProcessesTyped,
        DaemonTyped, CommandTyped, Working, Resetting, DaemonTask, CommandTask,
        DaemonPhase, CommandPhase, Phase
<1>1. CASE Boot(d)
  <2>1. Functions' /\ HostTyped' /\ ProcessesTyped'
    BY <1>1, SMT DEF Boot
  <2>2. loose' \in BOOLEAN
    BY <1>1, Zenon DEF Boot, Typed
  <2> QED BY <2>1, <2>2 DEF Typed
<1>2. CASE Unlink(d)
  <2>1. Functions' /\ HostTyped' /\ ProcessesTyped'
    BY <1>2, SMT DEF Unlink
  <2>2. loose' \in BOOLEAN
    BY <1>2, Zenon DEF Unlink, Typed
  <2> QED BY <2>1, <2>2 DEF Typed
<1>3. CASE Bind(d)
  <2>1. Functions' /\ HostTyped' /\ ProcessesTyped'
    BY <1>3, SMT DEF Bind
  <2>2. loose' \in BOOLEAN
    BY <1>3, Zenon DEF Bind, Typed
  <2> QED BY <2>1, <2>2 DEF Typed
<1>4. CASE WritePid(d)
  <2>1. Functions' /\ HostTyped' /\ ProcessesTyped'
    BY <1>4, SMT DEF WritePid
  <2>2. loose' \in BOOLEAN
    BY <1>4, Zenon DEF WritePid, Typed
  <2> QED BY <2>1, <2>2 DEF Typed
<1>5. CASE TakeSignal(d)
  <2>1. Functions' /\ HostTyped' /\ ProcessesTyped'
    BY <1>5, SMT DEF TakeSignal
  <2>2. loose' \in BOOLEAN
    BY <1>5, Zenon DEF TakeSignal, Typed
  <2> QED BY <2>1, <2>2 DEF Typed
<1>6. CASE ExitSocket(d)
  <2>1. Functions' /\ HostTyped' /\ ProcessesTyped'
    BY <1>6, SMT DEF ExitSocket
  <2>2. loose' \in BOOLEAN
    BY <1>6, Zenon DEF ExitSocket, Typed
  <2> QED BY <2>1, <2>2 DEF Typed
<1>7. CASE ExitPid(d)
  <2>1. Functions' /\ HostTyped' /\ ProcessesTyped'
    BY <1>7, SMT DEF ExitPid
  <2>2. loose' \in BOOLEAN
    BY <1>7, Zenon DEF ExitPid, Typed
  <2> QED BY <2>1, <2>2 DEF Typed
<1>8. CASE Reapply(d)
  <2>1. Functions' /\ HostTyped' /\ ProcessesTyped'
    BY <1>8, SMT DEF Reapply
  <2>2. loose' \in BOOLEAN
    BY <1>8, Zenon DEF Reapply, Typed
  <2> QED BY <2>1, <2>2 DEF Typed
<1>9. CASE Signal(d)
  <2>1. Functions' /\ HostTyped' /\ ProcessesTyped'
    BY <1>9, SMT DEF Signal
  <2>2. loose' \in BOOLEAN
    BY <1>9, Zenon DEF Signal, Typed
  <2> QED BY <2>1, <2>2 DEF Typed
<1>10. CASE Launch(d)
  <2>1. Functions' /\ HostTyped' /\ ProcessesTyped'
    BY <1>10, SMT DEF Launch
  <2>2. loose' \in BOOLEAN
    BY <1>10, Zenon DEF Launch, Typed
  <2> QED BY <2>1, <2>2 DEF Typed
<1> QED BY <1>1, <1>2, <1>3, <1>4, <1>5, <1>6, <1>7, <1>8, <1>9, <1>10

\* So do the steps of a command that are its own.
LEMMA CommandTypes ==
  ASSUME Typed, NEW c \in Command,
         Ping(c) \/ Pong(c) \/ Ask(c) \/ Answer(c) \/ Reply(c) \/ Kill(c)
           \/ RemovePid(c) \/ Wait(c)
  PROVE  Typed'
<1> USE LifecycleAssumption DEF Offline, Typed, Functions, HostTyped, ProcessesTyped,
        DaemonTyped, CommandTyped, Working, Resetting, DaemonTask, CommandTask,
        DaemonPhase, CommandPhase, Phase
<1>1. CASE Ping(c)
  <2>1. Functions' /\ HostTyped' /\ ProcessesTyped'
    BY <1>1, SMT DEF Ping
  <2>2. loose' \in BOOLEAN
    BY <1>1, Zenon DEF Ping, Typed
  <2> QED BY <2>1, <2>2 DEF Typed
<1>2. CASE Pong(c)
  <2>1. Functions' /\ HostTyped' /\ ProcessesTyped'
    BY <1>2, SMT DEF Pong
  <2>2. loose' \in BOOLEAN
    BY <1>2, Zenon DEF Pong, Typed
  <2> QED BY <2>1, <2>2 DEF Typed
<1>3. CASE Ask(c)
  <2>1. Functions' /\ HostTyped' /\ ProcessesTyped'
    BY <1>3, SMT DEF Ask
  <2>2. loose' \in BOOLEAN
    BY <1>3, Zenon DEF Ask, Typed
  <2> QED BY <2>1, <2>2 DEF Typed
<1>4. CASE Answer(c)
  <2>1. Functions' /\ HostTyped' /\ ProcessesTyped'
    BY <1>4, SMT DEF Answer
  <2>2. loose' \in BOOLEAN
    BY <1>4, Zenon DEF Answer, Typed
  <2> QED BY <2>1, <2>2 DEF Typed
<1>5. CASE Reply(c)
  <2>1. Functions' /\ HostTyped' /\ ProcessesTyped'
    BY <1>5, SMT DEF Reply
  <2>2. loose' \in BOOLEAN
    BY <1>5, Zenon DEF Reply, Typed
  <2> QED BY <2>1, <2>2 DEF Typed
<1>6. CASE Kill(c)
  <2>1. Functions' /\ HostTyped' /\ ProcessesTyped'
    BY <1>6, SMT DEF Kill
  <2>2. loose' \in BOOLEAN
    BY <1>6, Zenon DEF Kill, Typed
  <2> QED BY <2>1, <2>2 DEF Typed
<1>7. CASE RemovePid(c)
  <2>1. Functions' /\ HostTyped' /\ ProcessesTyped'
    BY <1>7, SMT DEF RemovePid
  <2>2. loose' \in BOOLEAN
    BY <1>7, Zenon DEF RemovePid, Typed
  <2> QED BY <2>1, <2>2 DEF Typed
<1>8. CASE Wait(c)
  <2>1. Functions' /\ HostTyped' /\ ProcessesTyped'
    BY <1>8, SMT DEF Wait
  <2>2. loose' \in BOOLEAN
    BY <1>8, Zenon DEF Wait, Typed
  <2> QED BY <2>1, <2>2 DEF Typed
<1> QED BY <1>1, <1>2, <1>3, <1>4, <1>5, <1>6, <1>7, <1>8

\* So does what both do to the kernel and the state file, and a crash.
LEMMA WorkTypes ==
  ASSUME Typed, NEW p \in Process,
         Program(p) \/ Save(p) \/ Wipe(p) \/ Clear(p) \/ Flush(p) \/ Crash(p)
  PROVE  Typed'
<1> USE LifecycleAssumption DEF Typed, Functions, HostTyped, ProcessesTyped,
        DaemonTyped, CommandTyped, Working, Resetting, DaemonTask, CommandTask,
        DaemonPhase, CommandPhase, Phase
<1>1. CASE Program(p)
  <2>1. Functions' /\ HostTyped' /\ ProcessesTyped'
    BY <1>1, SMT DEF Program
  <2>2. loose' \in BOOLEAN
    BY <1>1, Zenon DEF Program, Typed
  <2> QED BY <2>1, <2>2 DEF Typed
<1>2. CASE Save(p)
  <2>1. Functions' /\ HostTyped' /\ ProcessesTyped'
    BY <1>2, SMT DEF Save
  <2>2. loose' \in BOOLEAN
    BY <1>2, Zenon DEF Save, Typed
  <2> QED BY <2>1, <2>2 DEF Typed
<1>3. CASE Wipe(p)
  <2>1. Functions' /\ HostTyped' /\ ProcessesTyped'
    BY <1>3, SMT DEF Wipe
  <2>2. loose' \in BOOLEAN
    BY <1>3, Zenon DEF Wipe, Typed
  <2> QED BY <2>1, <2>2 DEF Typed
<1>4. CASE Clear(p)
  <2>1. Functions' /\ HostTyped' /\ ProcessesTyped'
    BY <1>4, SMT DEF Clear
  <2>2. loose' \in BOOLEAN
    BY <1>4, Zenon DEF Clear, Typed
  <2> QED BY <2>1, <2>2 DEF Typed
<1>5. CASE Flush(p)
  <2>1. Functions' /\ HostTyped' /\ ProcessesTyped'
    BY <1>5, SMT DEF Flush
  <2>2. loose' \in BOOLEAN
    BY <1>5, Zenon DEF Flush, Typed
  <2> QED BY <2>1, <2>2 DEF Typed
<1>6. CASE Crash(p)
  <2>1. Functions' /\ HostTyped' /\ ProcessesTyped'
    BY <1>6, SMT DEF Crash
  <2>2. loose' \in BOOLEAN
    BY <1>6, Zenon DEF Crash, Typed
  <2> QED BY <2>1, <2>2 DEF Typed
<1> QED BY <1>1, <1>2, <1>3, <1>4, <1>5, <1>6

\* A new command has the type of its kind.
LEMMA IssueTypes ==
  ASSUME Typed, NEW c \in Command, NEW policy \in Policy,
         NEW kind \in {"start", "stop", "restart", "apply", "reset"}, Issue(c, kind, policy)
  PROVE  Typed'
<1> USE LifecycleAssumption
<1>1. ProcessesTyped'
  BY SMT DEF Issue, Typed, Functions, HostTyped, ProcessesTyped,
     DaemonTyped, CommandTyped, Working, Resetting, DaemonTask, CommandTask, DaemonPhase,
     CommandPhase
<1>2. Functions' /\ HostTyped'
  BY SMT DEF Issue, Typed, Functions, HostTyped, ProcessesTyped,
     DaemonTyped, CommandTyped, Working, Resetting, DaemonTask, CommandTask, DaemonPhase,
     CommandPhase, Phase
<1>3. loose' \in BOOLEAN
  BY Zenon DEF Issue, Typed
<1> QED BY <1>1, <1>2, <1>3 DEF Typed

\* A state that does not change keeps its types.
LEMMA StutterTypes == Typed /\ UNCHANGED vars => Typed'
  BY SMT DEF Typed, Functions, HostTyped, ProcessesTyped, DaemonTyped, CommandTyped

\* Every step keeps the types.
LEMMA StepTypes == Typed /\ [Next]_vars => Typed'
<1> SUFFICES ASSUME Typed, [Next]_vars PROVE Typed'
  OBVIOUS
<1>1. ASSUME NEW d \in Daemon, DaemonStep(d) PROVE Typed'
  BY <1>1, DaemonTypes, WorkTypes DEF DaemonStep, Work
<1>2. ASSUME NEW c \in Command, CommandStep(c) PROVE Typed'
  BY <1>2, CommandTypes, WorkTypes DEF CommandStep, Work
<1>3. CASE Environment
  BY <1>3, DaemonTypes, WorkTypes, IssueTypes DEF Environment
<1>4. CASE UNCHANGED vars
  BY <1>4, StutterTypes
<1> QED BY <1>1, <1>2, <1>3, <1>4 DEF Next

\* The types of Lifecycle hold for every number of daemons and commands, with
\* patient users or not.
THEOREM LTypeCorrect == Spec => []LTypeOK
<1>1. Typed => LTypeOK
  BY LifecycleAssumption, SMT DEF LTypeOK, Typed, Functions, HostTyped,
     ProcessesTyped,
     DaemonTyped, CommandTyped, Working, Resetting, DaemonTask, CommandTask, DaemonPhase,
     CommandPhase
<1> QED BY <1>1, InitTyped, StepTypes, PTL DEF Spec

-----------------------------------------------------------------------------
(* One process at a time *)

\* No daemon runs and no command is connected in the initial state.
LEMMA InitApart == Init => Apart
  BY LifecycleAssumption, SMT DEF Init, Apart, BoundHasSocket, OneStarts,
     NoneStartsBeside,
     ConnectedToSocket, WorksAlone, Bound, PreBind, Gone, Resetting

\* A client that finds no daemon starts one, or goes on to what needs none.
LEMMA OfflineMoves ==
  ASSUME Typed, NEW c \in Command, Offline(c),
         pc[c] \in {"ping", "pong", "ask", "answer", "reply"}
  PROVE  \/ \E d \in Daemon : /\ Fresh(d)
                              /\ pc' = [pc EXCEPT ![d] = "boot", ![c] = "wait"]
                              /\ conf' = [conf EXCEPT ![d] = conf[c]]
         \/ \E at \in {"kill", "program", "wipe"} :
              pc' = [pc EXCEPT ![c] = at] /\ conf' = conf
<1>1. CASE task[c] \in {"start", "restarted"}
  BY <1>1 DEF Offline
<1>2. CASE task[c] \notin {"start", "restarted"}
  BY <1>2, SMT DEF Offline, Typed, Functions, ProcessesTyped, CommandTyped,
     CommandTask
<1> QED BY <1>1, <1>2

\* It is connected to none afterwards.
LEMMA OfflineDisconnects ==
  ASSUME Typed, NEW c \in Command, Offline(c),
         pc[c] \in {"ping", "pong", "ask", "answer", "reply"}
  PROVE  pc'[c] \in {"wait", "kill", "program", "wipe"}
  BY OfflineMoves, LifecycleAssumption, SMT DEF Typed, Functions

\* A daemon takes the socket path only when all others are gone, and gives it up last.
LEMMA ApartByDaemon ==
  ASSUME Typed, Apart, OneAtATime, NEW d \in Daemon,
         Boot(d) \/ Unlink(d) \/ Bind(d) \/ WritePid(d) \/ TakeSignal(d)
           \/ ExitSocket(d) \/ ExitPid(d) \/ Reapply(d) \/ Signal(d)
           \/ Launch(d)
  PROVE  Apart'
<1> USE LifecycleAssumption DEF Typed, Functions, ProcessesTyped, DaemonTyped,
        CommandTyped, Apart, BoundHasSocket, OneStarts, NoneStartsBeside,
        ConnectedToSocket, WorksAlone, Bound, PreBind, Gone, Resetting, OneAtATime
<1>1. CASE Boot(d)
  BY <1>1, SMT DEF Boot
<1>2. CASE Unlink(d)
  BY <1>2, SMT DEF Unlink
<1>3. CASE Bind(d)
  BY <1>3, SMT DEF Bind
<1>4. CASE WritePid(d)
  BY <1>4, SMT DEF WritePid
<1>5. CASE TakeSignal(d)
  BY <1>5, SMT DEF TakeSignal
<1>6. CASE ExitSocket(d)
  BY <1>6, SMT DEF ExitSocket
<1>7. CASE ExitPid(d)
  BY <1>7, SMT DEF ExitPid
<1>8. CASE Reapply(d)
  BY <1>8, SMT DEF Reapply
<1>9. CASE Signal(d)
  BY <1>9, SMT DEF Signal
<1>10. CASE Launch(d)
  BY <1>10, SMT DEF Launch
<1> QED BY <1>1, <1>2, <1>3, <1>4, <1>5, <1>6, <1>7, <1>8, <1>9, <1>10

\* A command starts a daemon, or works itself, only when nobody holds the socket path.
LEMMA ApartByCommand ==
  ASSUME Typed, Apart, OneAtATime, NEW c \in Command,
         Ping(c) \/ Pong(c) \/ Ask(c) \/ Answer(c) \/ Reply(c) \/ Kill(c)
           \/ RemovePid(c) \/ Wait(c)
  PROVE  Apart'
<1> USE LifecycleAssumption DEF Typed, Functions, ProcessesTyped, DaemonTyped,
        CommandTyped, Apart, BoundHasSocket, OneStarts, NoneStartsBeside,
        ConnectedToSocket, WorksAlone, Bound, PreBind, Gone, Resetting, OneAtATime
<1>1. CASE Ping(c)
  <2>1. BoundHasSocket' /\ OneStarts' /\ NoneStartsBeside' /\ WorksAlone'
    BY <1>1, SMT DEF Ping, Offline
  <2>2. CASE Offline(c)
    <3>1. pc'[c] \notin {"pong", "answer", "reply"}
      BY <1>1, <2>2, OfflineDisconnects DEF Ping
    <3> QED BY <2>1, <3>1, SMT DEF Apart, ConnectedToSocket, OneAtATime
  <2>3. CASE ~Offline(c)
    <3>1. ConnectedToSocket'
      BY <1>1, <2>3, SMT DEF Ping
    <3> QED BY <2>1, <3>1 DEF Apart
  <2> QED BY <2>2, <2>3
<1>2. CASE Pong(c)
  <2>1. BoundHasSocket' /\ OneStarts' /\ NoneStartsBeside' /\ WorksAlone'
    BY <1>2, SMT DEF Pong, Offline
  <2>2. CASE Offline(c)
    <3>1. pc'[c] \notin {"pong", "answer", "reply"}
      BY <1>2, <2>2, OfflineDisconnects DEF Pong
    <3> QED BY <2>1, <3>1, SMT DEF Apart, ConnectedToSocket, OneAtATime
  <2>3. CASE ~Offline(c)
    <3>1. ConnectedToSocket'
      BY <1>2, <2>3, SMT DEF Pong
    <3> QED BY <2>1, <3>1 DEF Apart
  <2> QED BY <2>2, <2>3
<1>3. CASE Ask(c)
  <2>1. BoundHasSocket' /\ OneStarts' /\ NoneStartsBeside' /\ WorksAlone'
    BY <1>3, SMT DEF Ask, Offline
  <2>2. CASE Offline(c)
    <3>1. pc'[c] \notin {"pong", "answer", "reply"}
      BY <1>3, <2>2, OfflineDisconnects DEF Ask
    <3> QED BY <2>1, <3>1, SMT DEF Apart, ConnectedToSocket, OneAtATime
  <2>3. CASE ~Offline(c)
    <3>1. ConnectedToSocket'
      BY <1>3, <2>3, SMT DEF Ask
    <3> QED BY <2>1, <3>1 DEF Apart
  <2> QED BY <2>2, <2>3
<1>4. CASE Answer(c)
  <2>1. BoundHasSocket' /\ OneStarts' /\ NoneStartsBeside' /\ WorksAlone'
    BY <1>4, SMT DEF Answer, Offline
  <2>2. CASE Offline(c)
    <3>1. pc'[c] \notin {"pong", "answer", "reply"}
      BY <1>4, <2>2, OfflineDisconnects DEF Answer
    <3> QED BY <2>1, <3>1, SMT DEF Apart, ConnectedToSocket, OneAtATime
  <2>3. CASE ~Offline(c)
    <3>1. ConnectedToSocket'
      BY <1>4, <2>3, SMT DEF Answer
    <3> QED BY <2>1, <3>1 DEF Apart
  <2> QED BY <2>2, <2>3
<1>5. CASE Reply(c)
  <2>1. BoundHasSocket' /\ OneStarts' /\ NoneStartsBeside' /\ WorksAlone'
    BY <1>5, SMT DEF Reply, Offline
  <2>2. CASE Offline(c)
    <3>1. pc'[c] \notin {"pong", "answer", "reply"}
      BY <1>5, <2>2, OfflineDisconnects DEF Reply
    <3> QED BY <2>1, <3>1, SMT DEF Apart, ConnectedToSocket, OneAtATime
  <2>3. CASE ~Offline(c)
    <3>1. ConnectedToSocket'
      BY <1>5, <2>3, SMT DEF Reply
    <3> QED BY <2>1, <3>1 DEF Apart
  <2> QED BY <2>2, <2>3
<1>6. CASE Kill(c)
  BY <1>6, SMT DEF Kill
<1>7. CASE RemovePid(c)
  BY <1>7, SMT DEF RemovePid
<1>8. CASE Wait(c)
  BY <1>8, SMT DEF Wait
<1> QED BY <1>1, <1>2, <1>3, <1>4, <1>5, <1>6, <1>7, <1>8

\* What is done to the kernel moves nobody, and a crash only makes room.
LEMMA ApartByWork ==
  ASSUME Typed, Apart, OneAtATime, NEW p \in Process,
         Program(p) \/ Save(p) \/ Wipe(p) \/ Clear(p) \/ Flush(p) \/ Crash(p)
  PROVE  Apart'
<1> USE LifecycleAssumption DEF Typed, Functions, ProcessesTyped, DaemonTyped,
        CommandTyped, Apart, BoundHasSocket, OneStarts, NoneStartsBeside,
        ConnectedToSocket, WorksAlone, Bound, PreBind, Gone, Resetting, OneAtATime
<1>1. CASE Program(p)
  BY <1>1, SMT DEF Program
<1>2. CASE Save(p)
  BY <1>2, SMT DEF Save
<1>3. CASE Wipe(p)
  BY <1>3, SMT DEF Wipe
<1>4. CASE Clear(p)
  BY <1>4, SMT DEF Clear
<1>5. CASE Flush(p)
  BY <1>5, SMT DEF Flush
<1>6. CASE Crash(p)
  BY <1>6, SMT DEF Crash
<1> QED BY <1>1, <1>2, <1>3, <1>4, <1>5, <1>6

\* A new command finds no daemon that starts.
LEMMA ApartByIssue ==
  ASSUME Typed, Apart, OneAtATime, NEW c \in Command, NEW policy \in Policy,
         NEW kind \in {"start", "stop", "restart", "apply", "reset"}, Issue(c, kind, policy)
  PROVE  Apart'
  BY LifecycleAssumption, SMT DEF Issue, Typed, Functions, ProcessesTyped,
     DaemonTyped, CommandTyped, Apart, BoundHasSocket, OneStarts, NoneStartsBeside,
     ConnectedToSocket, WorksAlone, Bound, PreBind, Gone, Resetting, OneAtATime

\* Every step keeps the processes apart.
LEMMA StepApart == Typed /\ Apart /\ OneAtATime /\ [Next]_vars => Apart'
<1> SUFFICES ASSUME Typed, Apart, OneAtATime, [Next]_vars PROVE Apart'
  OBVIOUS
<1>1. ASSUME NEW d \in Daemon, DaemonStep(d) PROVE Apart'
  BY <1>1, ApartByDaemon, ApartByWork DEF DaemonStep, Work
<1>2. ASSUME NEW c \in Command, CommandStep(c) PROVE Apart'
  BY <1>2, ApartByCommand, ApartByWork DEF CommandStep, Work
<1>3. CASE Environment
  BY <1>3, ApartByDaemon, ApartByWork, ApartByIssue DEF Environment
<1>4. CASE UNCHANGED vars
  BY <1>4, SMT DEF Apart, BoundHasSocket, OneStarts, NoneStartsBeside,
     ConnectedToSocket,
     WorksAlone, Bound, PreBind, Gone, Resetting
<1> QED BY <1>1, <1>2, <1>3, <1>4 DEF Next

\* The two invariants hold together.
LEMMA AlwaysApart ==
  ASSUME OneAtATime
  PROVE  Spec => [](Typed /\ Apart)
  BY InitTyped, InitApart, StepTypes, StepApart, PTL DEF Spec

\* With one command at a time and patient users no two processes program the
\* kernel together, whatever crashes and however daemons are stopped: the
\* socket path is the lock (daemon.rs:79, 263; commands/daemon.rs:61, 86).
THEOREM HostHasOneProgrammer ==
  ASSUME ~Impatient, \A b, c \in Command : b = c
  PROVE  Spec => []OneProgrammer
<1>1. OneAtATime
  BY DEF OneAtATime
<1>2. Typed /\ Apart => OneProgrammer
  BY <1>1, SMT DEF OneProgrammer, Typed, Functions, ProcessesTyped,
     DaemonTyped, CommandTyped, Apart, BoundHasSocket, OneStarts, NoneStartsBeside,
     ConnectedToSocket, WorksAlone, Bound, PreBind, Gone, Resetting, OneAtATime
<1> QED BY <1>1, <1>2, AlwaysApart, PTL

\* Under the same conditions the daemon that serves is the one clients reach.
THEOREM ServingDaemonIsReached ==
  ASSUME ~Impatient, \A b, c \in Command : b = c
  PROVE  Spec => []SocketReachesDaemon
<1>1. OneAtATime
  BY DEF OneAtATime
<1>2. Typed /\ Apart => SocketReachesDaemon
  BY SMT DEF SocketReachesDaemon, Apart, BoundHasSocket, Bound, PreBind, Resetting
<1> QED BY <1>1, <1>2, AlwaysApart, PTL

-----------------------------------------------------------------------------
(* The record *)

\* What the kernel holds without a record is being recorded or removed; a
\* daemon that takes the socket found or left nothing; one that has it is in
\* step with the record except while it is programming.
NothingUnrecorded ==
  kernel # {} /\ file = Absent => \E p \in Process : pc[p] \in {"save", "flush"}
NothingBeforeBind ==
  \A d \in Daemon : pc[d] \in {"unlink", "bind"} => kernel = {} /\ file = Absent
RecordedAtRest ==
  \A d \in Daemon : pc[d] \in {"pid", "serve", "program"} => kernel = {file} \ {Absent}
RecordedNext == \A d \in Daemon : pc[d] = "save" => kernel = {conf[d]}
RecordRemoved == \A p \in Process : pc[p] = "flush" => file = Absent

Recorded ==
  /\ NothingUnrecorded /\ NothingBeforeBind
  /\ RecordedAtRest /\ RecordedNext /\ RecordRemoved

\* A client that finds no daemon disturbs no record.
LEMMA RecordedOffline ==
  ASSUME Typed, Recorded, NEW c \in Command, Offline(c), UNCHANGED <<host, paths, history>>,
         pc[c] \in {"ping", "pong", "ask", "answer", "reply"}
  PROVE  Recorded'
<1>1. CASE \E d \in Daemon : /\ Fresh(d)
                           /\ pc' = [pc EXCEPT ![d] = "boot", ![c] = "wait"]
                           /\ conf' = [conf EXCEPT ![d] = conf[c]]
  BY <1>1, LifecycleAssumption, SMT DEF Typed, Functions, ProcessesTyped, DaemonTyped,
     Recorded, NothingUnrecorded, NothingBeforeBind, RecordedAtRest, RecordedNext,
     RecordRemoved
<1>2. CASE \E at \in {"kill", "program", "wipe"} :
             pc' = [pc EXCEPT ![c] = at] /\ conf' = conf
  BY <1>2, LifecycleAssumption, SMT DEF Typed, Functions, ProcessesTyped, DaemonTyped,
     Recorded, NothingUnrecorded, NothingBeforeBind, RecordedAtRest, RecordedNext,
     RecordRemoved
<1> QED BY <1>1, <1>2, OfflineMoves

\* A daemon takes the socket only over a clean kernel.
LEMMA RecordedByDaemon ==
  ASSUME Typed, Apart, Recorded, OneAtATime, ~TornStop, NEW d \in Daemon,
         Boot(d) \/ Unlink(d) \/ Bind(d) \/ WritePid(d) \/ TakeSignal(d)
           \/ ExitSocket(d) \/ ExitPid(d) \/ Reapply(d) \/ Signal(d)
           \/ Launch(d)
  PROVE  Recorded'
<1> USE LifecycleAssumption DEF Typed, Functions, HostTyped, ProcessesTyped,
        DaemonTyped, CommandTyped, Apart, BoundHasSocket, OneStarts, NoneStartsBeside,
        WorksAlone, Bound, PreBind, Gone, Resetting, OneAtATime, Recorded,
        NothingUnrecorded, NothingBeforeBind, RecordedAtRest, RecordedNext,
        RecordRemoved
<1>1. CASE Boot(d)
  BY <1>1, SMT DEF Boot
<1>2. CASE Unlink(d)
  BY <1>2, SMT DEF Unlink
<1>3. CASE Bind(d)
  BY <1>3, SMT DEF Bind
<1>4. CASE WritePid(d)
  BY <1>4, SMT DEF WritePid
<1>5. CASE TakeSignal(d)
  BY <1>5, SMT DEF TakeSignal, Torn
<1>6. CASE ExitSocket(d)
  BY <1>6, SMT DEF ExitSocket
<1>7. CASE ExitPid(d)
  BY <1>7, SMT DEF ExitPid
<1>8. CASE Reapply(d)
  BY <1>8, SMT DEF Reapply
<1>9. CASE Signal(d)
  BY <1>9, SMT DEF Signal
<1>10. CASE Launch(d)
  BY <1>10, SMT DEF Launch
<1> QED BY <1>1, <1>2, <1>3, <1>4, <1>5, <1>6, <1>7, <1>8, <1>9, <1>10

\* A command takes part only through the daemon, or alone.
LEMMA RecordedByCommand ==
  ASSUME Typed, Apart, Recorded, OneAtATime, ~TornStop, NEW c \in Command,
         Ping(c) \/ Pong(c) \/ Ask(c) \/ Answer(c) \/ Reply(c) \/ Kill(c)
           \/ RemovePid(c) \/ Wait(c)
  PROVE  Recorded'
<1> USE LifecycleAssumption DEF Typed, Functions, ProcessesTyped, DaemonTyped,
        CommandTyped, Working, Recorded, NothingUnrecorded, NothingBeforeBind,
        RecordedAtRest, RecordedNext, RecordRemoved
<1>1. CASE Ping(c)
  <2>1. CASE Offline(c)
    BY <1>1, <2>1, RecordedOffline DEF Ping
  <2>2. CASE ~Offline(c)
    BY <1>1, <2>2, SMT DEF Ping
  <2> QED BY <2>1, <2>2
<1>2. CASE Pong(c)
  <2>1. CASE Offline(c)
    BY <1>2, <2>1, RecordedOffline DEF Pong
  <2>2. CASE ~Offline(c)
    BY <1>2, <2>2, SMT DEF Pong
  <2> QED BY <2>1, <2>2
<1>3. CASE Ask(c)
  <2>1. CASE Offline(c)
    BY <1>3, <2>1, RecordedOffline DEF Ask
  <2>2. CASE ~Offline(c)
    BY <1>3, <2>2, SMT DEF Ask
  <2> QED BY <2>1, <2>2
<1>4. CASE Answer(c)
  <2>1. CASE Offline(c)
    BY <1>4, <2>1, RecordedOffline DEF Answer
  <2>2. CASE ~Offline(c)
    BY <1>4, <2>2, SMT DEF Answer
  <2> QED BY <2>1, <2>2
<1>5. CASE Reply(c)
  <2>1. CASE Offline(c)
    BY <1>5, <2>1, RecordedOffline DEF Reply
  <2>2. CASE ~Offline(c)
    BY <1>5, <2>2, SMT DEF Reply
  <2> QED BY <2>1, <2>2
<1>6. CASE Kill(c)
  BY <1>6, SMT DEF Kill, HostTyped, Apart, BoundHasSocket, OneStarts,
     NoneStartsBeside, WorksAlone, Bound, PreBind, Gone, Resetting, OneAtATime
<1>7. CASE RemovePid(c)
  BY <1>7, SMT DEF RemovePid, HostTyped, Apart, BoundHasSocket, OneStarts,
     NoneStartsBeside, WorksAlone, Bound, PreBind, Gone, Resetting, OneAtATime
<1>8. CASE Wait(c)
  BY <1>8, SMT DEF Wait, HostTyped, Apart, BoundHasSocket, OneStarts,
     NoneStartsBeside, WorksAlone, Bound, PreBind, Gone, Resetting, OneAtATime
<1> QED BY <1>1, <1>2, <1>3, <1>4, <1>5, <1>6, <1>7, <1>8

\* Kernel and record part only inside the work of one process, which ends with
\* both in step unless a crash meets a torn state.
LEMMA RecordedByWork ==
  ASSUME Typed, Apart, Recorded, OneAtATime, ~TornStop, NEW p \in Process,
         Program(p) \/ Save(p) \/ Wipe(p) \/ Clear(p) \/ Flush(p) \/ Crash(p)
  PROVE  Recorded'
<1> USE LifecycleAssumption DEF Typed, Functions, HostTyped, ProcessesTyped,
        DaemonTyped, CommandTyped, Apart, BoundHasSocket, OneStarts, NoneStartsBeside,
        WorksAlone, Bound, PreBind, Gone, Resetting, OneAtATime, Recorded,
        NothingUnrecorded, NothingBeforeBind, RecordedAtRest, RecordedNext,
        RecordRemoved
<1>1. CASE Program(p)
  BY <1>1, SMT DEF Program
<1>2. CASE Save(p)
  BY <1>2, SMT DEF Save
<1>3. CASE Wipe(p)
  BY <1>3, SMT DEF Wipe
<1>4. CASE Clear(p)
  BY <1>4, SMT DEF Clear
<1>5. CASE Flush(p)
  BY <1>5, SMT DEF Flush
<1>6. CASE Crash(p)
  BY <1>6, SMT DEF Crash, Torn
<1> QED BY <1>1, <1>2, <1>3, <1>4, <1>5, <1>6

\* The record agrees in the initial state, and in a state that does not change.
LEMMA InitRecorded == Init => Recorded
  BY LifecycleAssumption, SMT DEF Init, Recorded, NothingUnrecorded,
     NothingBeforeBind, RecordedAtRest, RecordedNext,
     RecordRemoved

\* Every step keeps the record in step.
LEMMA StepRecorded ==
  ASSUME Typed, Apart, Recorded, OneAtATime, ~TornStop, [Next]_vars
  PROVE  Recorded'
<1>1. ASSUME NEW d \in Daemon, DaemonStep(d) PROVE Recorded'
  BY <1>1, RecordedByDaemon, RecordedByWork DEF DaemonStep, Work
<1>2. ASSUME NEW c \in Command, CommandStep(c) PROVE Recorded'
  BY <1>2, RecordedByCommand, RecordedByWork DEF CommandStep, Work
<1>3. ASSUME NEW c \in Command, NEW policy \in Policy,
             NEW kind \in {"start", "stop", "restart", "apply", "reset"},
             Issue(c, kind, policy)
      PROVE  Recorded'
  BY <1>3, LifecycleAssumption, SMT DEF Issue, Typed, Functions, ProcessesTyped,
     DaemonTyped, Recorded, NothingUnrecorded, NothingBeforeBind, RecordedAtRest, RecordedNext,
     RecordRemoved
<1>4. CASE Environment
  BY <1>3, <1>4, RecordedByDaemon, RecordedByWork DEF Environment
<1>5. CASE UNCHANGED vars
  BY <1>5, SMT DEF Recorded, NothingUnrecorded, NothingBeforeBind, RecordedAtRest,
     RecordedNext,
     RecordRemoved
<1> QED BY <1>1, <1>2, <1>4, <1>5 DEF Next

\* With one command at a time and patient users, a daemon at rest serves what
\* its state file says, if no process ends just when the kernel holds what its
\* next step would record or remove (reconcile.rs:83-130, 290-329).
THEOREM DaemonServesItsRecord ==
  ASSUME ~Impatient, \A b, c \in Command : b = c, ~TornStop
  PROVE  Spec => []ServedAsRecorded
<1>1. OneAtATime
  BY DEF OneAtATime
<1>2. Recorded => ServedAsRecorded
  BY SMT DEF ServedAsRecorded, Recorded, RecordedAtRest
<1>3. Typed /\ Apart /\ Recorded /\ [Next]_vars => Recorded'
  BY <1>1, StepRecorded
<1> QED BY <1>1, <1>2, <1>3, InitRecorded, AlwaysApart, PTL DEF Spec

-----------------------------------------------------------------------------
(* What is left *)

\* Unless something crashed or was applied by hand, what is in the kernel or
\* the state file belongs to a daemon that serves or works.
LeftoversOwned ==
  ~loose /\ (kernel # {} \/ file # Absent)
    => \E d \in Daemon : pc[d] \in {"serve"} \cup Working
DirectIsLoose == \A c \in Command : pc[c] = "save" => loose

\* A daemon leaves the kernel to nobody unless it has emptied it or crashed.
LEMMA OwnedByDaemon ==
  ASSUME Typed, Apart, Recorded, OneAtATime, LeftoversOwned, DirectIsLoose,
         NEW d \in Daemon,
         Boot(d) \/ Unlink(d) \/ Bind(d) \/ WritePid(d) \/ TakeSignal(d)
           \/ ExitSocket(d) \/ ExitPid(d) \/ Reapply(d) \/ Signal(d)
           \/ Launch(d)
  PROVE  LeftoversOwned' /\ DirectIsLoose'
<1> USE LifecycleAssumption DEF RecordRemoved, Recorded, NothingBeforeBind, Typed,
        Functions, HostTyped, ProcessesTyped, DaemonTyped, CommandTyped, Apart,
        BoundHasSocket, WorksAlone, Bound, PreBind, Gone, Working, Resetting,
        OneAtATime, LeftoversOwned, DirectIsLoose
<1>1. CASE Boot(d)
  BY <1>1, SMT DEF Boot
<1>2. CASE Unlink(d)
  BY <1>2, SMT DEF Unlink
<1>3. CASE Bind(d)
  BY <1>3, SMT DEF Bind
<1>4. CASE WritePid(d)
  BY <1>4, SMT DEF WritePid
<1>5. CASE TakeSignal(d)
  BY <1>5, SMT DEF TakeSignal
<1>6. CASE ExitSocket(d)
  BY <1>6, SMT DEF ExitSocket
<1>7. CASE ExitPid(d)
  BY <1>7, SMT DEF ExitPid
<1>8. CASE Reapply(d)
  BY <1>8, SMT DEF Reapply
<1>9. CASE Signal(d)
  BY <1>9, SMT DEF Signal
<1>10. CASE Launch(d)
  BY <1>10, SMT DEF Launch
<1> QED BY <1>1, <1>2, <1>3, <1>4, <1>5, <1>6, <1>7, <1>8, <1>9, <1>10

\* A client that finds no daemon takes nothing from anybody.
LEMMA OwnedOffline ==
  ASSUME Typed, LeftoversOwned, DirectIsLoose,
         NEW c \in Command, Offline(c),
         UNCHANGED <<host, paths, history>>,
         pc[c] \in {"ping", "pong", "ask", "answer", "reply"}
  PROVE  LeftoversOwned' /\ DirectIsLoose'
<1> USE LifecycleAssumption DEF Typed, Functions, ProcessesTyped, DaemonTyped, Working,
        Resetting, LeftoversOwned, DirectIsLoose
<1>1. CASE \E d \in Daemon : /\ Fresh(d)
                           /\ pc' = [pc EXCEPT ![d] = "boot", ![c] = "wait"]
                           /\ conf' = [conf EXCEPT ![d] = conf[c]]
  BY <1>1, SMT
<1>2. CASE \E at \in {"kill", "program", "wipe"} :
             pc' = [pc EXCEPT ![c] = at] /\ conf' = conf
  BY <1>2, SMT
<1> QED BY <1>1, <1>2, OfflineMoves

\* A command leaves what a daemon owns with it.
LEMMA OwnedByCommand ==
  ASSUME Typed, Apart, Recorded, OneAtATime, LeftoversOwned, DirectIsLoose,
         NEW c \in Command,
         Ping(c) \/ Pong(c) \/ Ask(c) \/ Answer(c) \/ Reply(c)
           \/ Kill(c) \/ RemovePid(c) \/ Wait(c)
  PROVE  LeftoversOwned' /\ DirectIsLoose'
<1> USE LifecycleAssumption DEF Typed, Functions, ProcessesTyped, DaemonTyped,
        CommandTyped, Working, Resetting, LeftoversOwned, DirectIsLoose
<1>1. CASE Ping(c)
  <2>1. CASE Offline(c)
    BY <1>1, <2>1, OwnedOffline DEF Ping
  <2>2. CASE ~Offline(c)
    BY <1>1, <2>2, SMT DEF Ping
  <2> QED BY <2>1, <2>2
<1>2. CASE Pong(c)
  <2>1. CASE Offline(c)
    BY <1>2, <2>1, OwnedOffline DEF Pong
  <2>2. CASE ~Offline(c)
    BY <1>2, <2>2, SMT DEF Pong
  <2> QED BY <2>1, <2>2
<1>3. CASE Ask(c)
  <2>1. CASE Offline(c)
    BY <1>3, <2>1, OwnedOffline DEF Ask
  <2>2. CASE ~Offline(c)
    BY <1>3, <2>2, SMT DEF Ask
  <2> QED BY <2>1, <2>2
<1>4. CASE Answer(c)
  <2>1. CASE Offline(c)
    BY <1>4, <2>1, OwnedOffline DEF Answer
  <2>2. CASE ~Offline(c)
    BY <1>4, <2>2, SMT DEF Answer
  <2> QED BY <2>1, <2>2
<1>5. CASE Reply(c)
  <2>1. CASE Offline(c)
    BY <1>5, <2>1, OwnedOffline DEF Reply
  <2>2. CASE ~Offline(c)
    BY <1>5, <2>2, SMT DEF Reply
  <2> QED BY <2>1, <2>2
<1>6. CASE Kill(c)
  BY <1>6, SMT DEF Kill, RecordRemoved, Recorded, NothingBeforeBind, HostTyped, Apart,
     BoundHasSocket, WorksAlone, Bound, PreBind, Gone, OneAtATime
<1>7. CASE RemovePid(c)
  BY <1>7, SMT DEF RemovePid, RecordRemoved, Recorded, NothingBeforeBind, HostTyped,
     Apart, BoundHasSocket, WorksAlone, Bound, PreBind, Gone, OneAtATime
<1>8. CASE Wait(c)
  BY <1>8, SMT DEF Wait, RecordRemoved, Recorded, NothingBeforeBind, HostTyped, Apart,
     BoundHasSocket, WorksAlone, Bound, PreBind, Gone, OneAtATime
<1> QED BY <1>1, <1>2, <1>3, <1>4, <1>5, <1>6, <1>7, <1>8

\* The work of a command counts as loose, that of a daemon is its own.
LEMMA OwnedByWork ==
  ASSUME Typed, Apart, Recorded, OneAtATime, LeftoversOwned, DirectIsLoose,
         NEW p \in Process,
         Program(p) \/ Save(p) \/ Wipe(p) \/ Clear(p) \/ Flush(p) \/ Crash(p)
  PROVE  LeftoversOwned' /\ DirectIsLoose'
<1> USE LifecycleAssumption DEF Typed, Functions, HostTyped, ProcessesTyped,
        DaemonTyped, CommandTyped, Apart, BoundHasSocket, WorksAlone, Bound, PreBind,
        Gone, Working, Resetting, OneAtATime, LeftoversOwned, DirectIsLoose,
        RecordRemoved, Recorded, NothingBeforeBind
<1>1. CASE Program(p)
  <2>1. CASE AfterApply(p) /\ UNCHANGED <<kernel, loose>>
    BY <1>1, <2>1, SMT DEF Program
  <2>2. CASE ~(AfterApply(p) /\ UNCHANGED <<kernel, loose>>)
    <3>1. pc' = [pc EXCEPT ![p] = "save"] /\ file' = file
      BY <1>1, <2>2 DEF Program
    <3>2. p \in Command => loose'
      BY <1>1, <2>2, Zenon DEF Program
    <3>3. loose => loose'
      BY <1>1, <2>2, Zenon DEF Program
    <3> QED BY <3>1, <3>2, <3>3, SMT DEF Typed, Functions, Working, LeftoversOwned, DirectIsLoose
  <2> QED BY <2>1, <2>2
<1>2. CASE Save(p)
  BY <1>2, SMT DEF Save
<1>3. CASE Wipe(p)
  BY <1>3, SMT DEF Wipe
<1>4. CASE Clear(p)
  BY <1>4, SMT DEF Clear
<1>5. CASE Flush(p)
  BY <1>5, SMT DEF Flush
<1>6. CASE Crash(p)
  <2>1. pc' = [pc EXCEPT ![p] = "off"] /\ kernel' = kernel /\ file' = file
    BY <1>6 DEF Crash
  <2>2. (p \in Daemon \/ loose) => loose'
    BY <1>6, Zenon DEF Crash
  <2> QED BY <2>1, <2>2, SMT
<1> QED BY <1>1, <1>2, <1>3, <1>4, <1>5, <1>6

\* A new command, and a state that does not change.
LEMMA OwnedOtherwise ==
  ASSUME Typed, LeftoversOwned, DirectIsLoose,
         \/ \E c \in Command, policy \in Policy,
               kind \in {"start", "stop", "restart", "apply", "reset"} : Issue(c, kind, policy)
         \/ UNCHANGED vars
  PROVE  LeftoversOwned' /\ DirectIsLoose'
  BY LifecycleAssumption, SMT DEF Issue, Typed, Functions, ProcessesTyped,
     DaemonTyped,
     CommandTyped, LeftoversOwned, DirectIsLoose

\* Every step leaves what is in the kernel and the state file to an owner.
LEMMA StepOwned ==
  ASSUME Typed, Apart, Recorded, OneAtATime, LeftoversOwned, DirectIsLoose, [Next]_vars
  PROVE  LeftoversOwned' /\ DirectIsLoose'
<1>1. ASSUME NEW d \in Daemon, DaemonStep(d) PROVE LeftoversOwned' /\ DirectIsLoose'
  BY <1>1, OwnedByDaemon, OwnedByWork DEF DaemonStep, Work
<1>2. ASSUME NEW c \in Command, CommandStep(c) PROVE LeftoversOwned' /\ DirectIsLoose'
  BY <1>2, OwnedByCommand, OwnedByWork DEF CommandStep, Work
<1>3. CASE Environment
  BY <1>3, OwnedByDaemon, OwnedByWork, OwnedOtherwise DEF Environment
<1>4. CASE UNCHANGED vars
  BY <1>4, OwnedOtherwise
<1> QED BY <1>1, <1>2, <1>3, <1>4 DEF Next

\* Under the same conditions nothing is left when nothing runs any more, unless
\* a daemon crashed or a command applied without one (daemon.rs:255).
THEOREM NothingIsLeft ==
  ASSUME ~Impatient, \A b, c \in Command : b = c, ~TornStop
  PROVE  Spec => []Ephemeral
<1>1. OneAtATime
  BY DEF OneAtATime
<1>2. Init => LeftoversOwned /\ DirectIsLoose
  BY LifecycleAssumption, SMT DEF Init, LeftoversOwned, DirectIsLoose
<1>3. LeftoversOwned => Ephemeral
  BY SMT DEF LeftoversOwned, Ephemeral, Working, Resetting
<1>4. Typed /\ Apart /\ Recorded /\ [Next]_vars => Recorded'
  BY <1>1, StepRecorded
<1>5. Typed /\ Apart /\ Recorded /\ LeftoversOwned /\ DirectIsLoose /\ [Next]_vars
        => LeftoversOwned' /\ DirectIsLoose'
  BY <1>1, StepOwned
<1> QED BY <1>1, <1>2, <1>3, <1>4, <1>5, InitRecorded, AlwaysApart, PTL DEF Spec
=============================================================================
