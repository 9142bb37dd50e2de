--------------------------- MODULE DaemonControl ----------------------------
(* Who runs the proxy: src/commands/proxy/daemon.rs and the commands that   *)
(* start, stop and restart the daemon through it.  The commands know the    *)
(* daemon only by a process id in a file, which they read, and ask `kill -0` *)
(* about, several times on their way.                                       *)
EXTENDS FiniteSets, Naturals

CONSTANTS
  Pids,     \* process ids the system hands out
  NoPid,    \* what the pid file holds when there is none
  Clis,     \* concurrently running `dip` commands
  Faults    \* the combinations of FaultKinds to look at

(* "crash": the daemon may die; "reuse": other processes get free pids;     *)
(* "timeout": two seconds may be too short for the daemon to end;           *)
(* "overlap": commands do not wait for each other; "ports": another program *)
(* may have the ports, or the daemon may not be allowed to bind them;       *)
(* "interrupt": commands may be stopped with Ctrl-C.                        *)
FaultKinds == {"crash", "reuse", "timeout", "overlap", "ports", "interrupt"}
ASSUME ControlConstants == NoPid \notin Pids /\ Faults \subseteq SUBSET FaultKinds

VARIABLES
  what,     \* what[p]: "free", a daemon that is "booting", "bound" to its
            \* ports or "serving" (its handler is set), a "zombie" that ended
            \* before the command that spawned it, or some "other" process
  doomed,   \* processes that were sent SIGTERM
  pidfile,  \* the process proxy.pid names
  cmd,      \* cmd[c]: the command c runs, how far it is, the pid it holds
  faults    \* what goes wrong in this behaviour

controlVars == <<what, doomed, pidfile, cmd, faults>>

Ops == {"start", "stop", "restart", "sync", "edit"}
Pcs == {"idle", "look", "hup", "hangup", "stop", "kill", "poll", "remove",
        "start", "check", "spawn", "record", "report"}
Resting == [pc |-> "idle", op |-> "stop", pid |-> NoPid]

Listening(p) == what[p] \in {"bound", "serving"}
Daemon(p) == what[p] = "booting" \/ Listening(p)
Running(p) == what[p] \notin {"free", "zombie"}

ControlTypeOK ==
  /\ what \in [Pids -> {"free", "booting", "bound", "serving", "zombie", "other"}]
  /\ pidfile \in Pids \cup {NoPid}
  /\ cmd \in [Clis -> [pc : Pcs, op : Ops, pid : Pids \cup {NoPid}]]
  /\ \A c \in Clis : cmd[c].pc \in {"hangup", "kill", "record", "report"} => cmd[c].pid \in Pids
  /\ doomed \subseteq {p \in Pids : Running(p)}
  /\ faults \in Faults

ControlInit ==
  /\ what = [p \in Pids |-> "free"] /\ doomed = {}
  /\ pidfile = NoPid
  /\ cmd = [c \in Clis |-> Resting]
  /\ faults \in Faults
-----------------------------------------------------------------------------
At(c, pc) == cmd[c].pc = pc
Goto(c, pc) == cmd' = [cmd EXCEPT ![c].pc = pc, ![c].pid = NoPid]
GotoWith(c, pc, pid) == cmd' = [cmd EXCEPT ![c].pc = pc, ![c].pid = pid]
Done(c) == cmd' = [cmd EXCEPT ![c] = Resting]
AllIdle == \A c \in Clis : At(c, "idle")

(* daemon_pid: the process the file names, if there is one of that id; to   *)
(* `kill -0` a zombie is one.                                               *)
daemon_pid == IF pidfile \in Pids /\ what[pidfile] # "free" THEN pidfile ELSE NoPid

Entry(op) ==
  CASE op = "start" -> "start" [] op \in {"stop", "restart"} -> "stop" [] OTHER -> "look"

Call(c, op) ==
  /\ At(c, "idle") /\ ("overlap" \notin faults => AllIdle)
  /\ cmd' = [cmd EXCEPT ![c] = [pc |-> Entry(op), op |-> op, pid |-> NoPid]]
  /\ UNCHANGED <<what, doomed, pidfile, faults>>

(* What follows run_stop: `restart` is stop and start; a command that has   *)
(* changed the certificate or the ports spawns the daemon without further   *)
(* questions.                                                               *)
AfterStop(c) ==
  CASE cmd[c].op = "restart" -> Goto(c, "start")
    [] cmd[c].op \in {"sync", "edit"} -> Goto(c, "spawn")
    [] OTHER -> Done(c)

(* The end of a sync, or of another command that edits the configuration:   *)
(* a running daemon is told to reload, or is restarted for what it reads    *)
(* only once; a sync starts one that does not run.                          *)
Look(c) ==
  /\ At(c, "look")
  /\ IF daemon_pid # NoPid
     THEN Goto(c, "hup") \/ Goto(c, "stop")
     ELSE IF cmd[c].op = "sync" THEN Goto(c, "spawn") ELSE Done(c)
  /\ UNCHANGED <<what, doomed, pidfile, faults>>

(* sighup_daemon asks again, and then sends the signal.                     *)
FindForHangup(c) ==
  /\ At(c, "hup")
  /\ IF daemon_pid = NoPid THEN Done(c) ELSE GotoWith(c, "hangup", daemon_pid)
  /\ UNCHANGED <<what, doomed, pidfile, faults>>

(* A process ends.  It stays a zombie as long as the command that spawned   *)
(* it lives, for spawn_daemon never waits for its child.                    *)
Child(p) == \E c \in Clis : cmd[c].pc \in {"record", "report"} /\ cmd[c].pid = p
Ends(p) ==
  /\ what' = [what EXCEPT ![p] = IF Child(p) THEN "zombie" ELSE "free"]
  /\ doomed' = doomed \ {p}

(* Only a serving daemon survives it.                                       *)
Hangup(c) ==
  /\ At(c, "hangup")
  /\ IF Running(cmd[c].pid) /\ what[cmd[c].pid] # "serving"
     THEN Ends(cmd[c].pid)
     ELSE UNCHANGED <<what, doomed>>
  /\ Done(c)
  /\ UNCHANGED <<pidfile, faults>>

(* run_stop: find the process, send it SIGTERM, wait for its end, remove    *)
(* the pid file (also if it did not end).                                   *)
StopWhatIsNamed(c) ==       \* a mistake: kill what the file says, even nothing
  /\ At(c, "stop")
  /\ GotoWith(c, "kill", pidfile)
  /\ UNCHANGED <<what, doomed, pidfile, faults>>

FindForStop(c) ==
  /\ At(c, "stop")
  /\ IF daemon_pid = NoPid THEN AfterStop(c) ELSE GotoWith(c, "kill", daemon_pid)
  /\ UNCHANGED <<what, doomed, pidfile, faults>>

KillNoWait(c) ==            \* a mistake: the end is not waited for
  /\ At(c, "kill")
  /\ doomed' = doomed \cup {p \in {cmd[c].pid} : Running(p)}
  /\ Goto(c, "remove")
  /\ UNCHANGED <<what, pidfile, faults>>

Kill(c) ==
  /\ At(c, "kill")
  /\ IF what[cmd[c].pid] = "free"
     THEN Goto(c, "remove") /\ UNCHANGED doomed
     ELSE Goto(c, "poll") /\ doomed' = doomed \cup {p \in {cmd[c].pid} : Running(p)}
  /\ UNCHANGED <<what, pidfile, faults>>

Poll(c) ==
  /\ At(c, "poll")
  /\ daemon_pid = NoPid \/ "timeout" \in faults
  /\ Goto(c, "remove")
  /\ UNCHANGED <<what, doomed, pidfile, faults>>

RemovePidFile(c) ==
  /\ At(c, "remove")
  /\ pidfile' = NoPid
  /\ AfterStop(c)
  /\ UNCHANGED <<what, doomed, faults>>

(* run_start: nothing to do if it runs; an error if the ports are taken.    *)
FindForStart(c) ==
  /\ At(c, "start")
  /\ IF daemon_pid = NoPid THEN Goto(c, "check") ELSE Done(c)
  /\ UNCHANGED <<what, doomed, pidfile, faults>>

CheckPorts(c) ==
  /\ At(c, "check")
  /\ IF \E p \in Pids : Listening(p) THEN Done(c) ELSE Goto(c, "spawn")
  /\ UNCHANGED <<what, doomed, pidfile, faults>>

(* spawn_daemon: the process is there before the file names it.             *)
Spawn(c) ==
  /\ At(c, "spawn")
  /\ \E p \in Pids :
       /\ what[p] = "free"
       /\ what' = [what EXCEPT ![p] = "booting"]
       /\ GotoWith(c, "record", p)
  /\ UNCHANGED <<doomed, pidfile, faults>>

RecordIfNone(c) ==          \* a mistake: a stale file is not written over
  /\ At(c, "record")
  /\ pidfile' = IF pidfile = NoPid THEN cmd[c].pid ELSE pidfile
  /\ GotoWith(c, "report", cmd[c].pid)
  /\ UNCHANGED <<what, doomed, faults>>

Record(c) ==
  /\ At(c, "record")
  /\ pidfile' = cmd[c].pid
  /\ GotoWith(c, "report", cmd[c].pid)
  /\ UNCHANGED <<what, doomed, faults>>

(* After 400 ms the command says whether daemon_pid finds the daemon, and   *)
(* ends; its zombie goes with it.                                           *)
Report(c) ==
  /\ At(c, "report")
  /\ what' = [what EXCEPT ![cmd[c].pid] = IF @ = "zombie" THEN "free" ELSE @]
  /\ Done(c)
  /\ UNCHANGED <<doomed, pidfile, faults>>
(* Ctrl-C: a daemon the command has spawned a moment ago is in its process  *)
(* group, and may be ended as well.                                         *)
Interrupt(c) ==
  /\ "interrupt" \in faults /\ ~At(c, "idle")
  /\ \E ended \in SUBSET {p \in {cmd[c].pid} : cmd[c].pc \in {"record", "report"} /\ Daemon(p)} :
       /\ what' = [p \in Pids |-> IF p \in ended \/ (p = cmd[c].pid /\ what[p] = "zombie") THEN "free" ELSE what[p]]
       /\ doomed' = doomed \ ended
  /\ Done(c)
  /\ UNCHANGED <<pidfile, faults>>
-----------------------------------------------------------------------------
(* Processes                                                               *)

Become(p, kind) == what' = [what EXCEPT ![p] = kind] /\ UNCHANGED doomed

BindAnyway(p) ==            \* a mistake: the ports are shared (SO_REUSEPORT)
  what[p] = "booting" /\ Become(p, "bound")

(* run: a daemon that cannot bind its ports ends; one that is bound to them *)
(* sets up its SIGHUP handler.                                              *)
Bind(p) ==
  /\ what[p] = "booting"
  /\ \/ (\A q \in Pids : ~Listening(q)) /\ Become(p, "bound")
     \/ ((\E q \in Pids : Listening(q)) \/ "ports" \in faults) /\ Ends(p)
Ready(p) == what[p] = "bound" /\ Become(p, "serving")

Terminate(p) == p \in doomed /\ Ends(p)
Crash(p) == "crash" \in faults /\ Daemon(p) /\ Ends(p)
OtherStarts(p) == "reuse" \in faults /\ what[p] = "free" /\ Become(p, "other")
OtherEnds(p) == what[p] = "other" /\ Ends(p)
-----------------------------------------------------------------------------
Proceed(c) ==
  \/ Look(c) \/ FindForHangup(c) \/ Hangup(c)
  \/ FindForStop(c) \/ Kill(c) \/ Poll(c) \/ RemovePidFile(c)
  \/ FindForStart(c) \/ CheckPorts(c) \/ Spawn(c) \/ Record(c) \/ Report(c)
ProcessStep(p) == (Bind(p) \/ Ready(p) \/ Terminate(p)) /\ UNCHANGED <<pidfile, cmd, faults>>
Misfortune(p) == (Crash(p) \/ OtherStarts(p) \/ OtherEnds(p)) /\ UNCHANGED <<pidfile, cmd, faults>>

ControlNext ==
  \/ \E c \in Clis : (\E op \in Ops : Call(c, op)) \/ Proceed(c) \/ Interrupt(c)
  \/ \E p \in Pids : ProcessStep(p) \/ Misfortune(p)

(* Commands that were called and processes that run go on.                  *)
ControlSpec == ControlInit /\ [][ControlNext]_controlVars
FairControlSpec ==
  /\ ControlSpec
  /\ \A c \in Clis : WF_controlVars(Proceed(c))
  /\ \A p \in Pids : WF_controlVars(ProcessStep(p))
-----------------------------------------------------------------------------
(* Properties                                                              *)

(* The file is all the commands know of the daemon, so it must not lose it: *)
(* whatever crashes, whatever ids are reused and however slowly a daemon    *)
(* ends, when no command is under way a daemon that is not about to end is  *)
(* the one the pid file names.  (A command that is interrupted between the  *)
(* spawn and the write does lose it.)                                       *)
DaemonTracked ==
  AllIdle /\ faults \cap {"overlap", "interrupt"} = {} =>
    \A p \in Pids : Daemon(p) /\ p \notin doomed => p = pidfile

(* "Proxy stopped" (daemon.rs:62): when `dip proxy stop` is done, no daemon *)
(* is left that was not told to end, even if a stop before it gave up       *)
(* waiting, and even if the pid file named somebody else.                   *)
StopStops ==
  [][\A c \in Clis :
       cmd[c].op = "stop" /\ ~At(c, "idle") /\ cmd'[c] = Resting /\ faults \cap {"overlap", "interrupt"} = {}
       => \A p \in Pids : Daemon(p) => p \in doomed]_controlVars

(* A restart takes the old daemon's ports only when they are free: where    *)
(* the daemon ends in time and does not crash, a daemon just started serves *)
(* in the end, unless another command comes in between.                     *)
StartedServes ==
  \A p \in Pids :
    faults \subseteq {"reuse"} /\ AllIdle /\ pidfile = p /\ what[p] = "booting"
      ~> what[p] = "serving" \/ ~AllIdle

(* Commands that run together may spawn several daemons, of which the pid   *)
(* file names one, and an interrupted one may leave one that it does not    *)
(* name.  When the commands are over, one daemon at most is left: *)
(* the others find the ports taken.                                         *)
OneDaemonLeft ==
  <>[]AllIdle => <>[](Cardinality({p \in Pids : Daemon(p)}) <= 1)

(* "Return the PID of the running proxy daemon, or `None` if it is not      *)
(* running." (daemon.rs:145): spawn_daemon asks whether its daemon made it, *)
(* so that it can say "Proxy failed to start" (daemon.rs:200).  When it     *)
(* asks about a daemon that has ended, the answer is none.                  *)
FailureNoticed ==
  \A c \in Clis :
    At(c, "report") /\ pidfile = cmd[c].pid /\ ~Running(cmd[c].pid) => daemon_pid = NoPid
=============================================================================
