--------------------------- MODULE ControlProofs ----------------------------
(* Theorems about the commands that start and stop the daemon, for any *)
(* number of commands and of process ids. *)
EXTENDS DaemonControl, TLAPS

Kinds == {"free", "booting", "bound", "serving", "zombie", "other"}

(* What a process that ends leaves. *)
LEMMA EndsTyped ==
  ASSUME ControlTypeOK, NEW p \in Pids, Ends(p)
  PROVE  /\ what' \in [Pids -> Kinds] /\ what'[p] \in {"free", "zombie"} /\ p \notin doomed'
         /\ \A q \in Pids \ {p} : what'[q] = what[q] /\ (q \in doomed' <=> q \in doomed)
         /\ doomed' \subseteq {q \in Pids : Running(q)'}
BY DEF ControlTypeOK, Ends, Running, Kinds

(* A command that goes on keeps its type. *)
LEMMA CommandTyped ==
  ASSUME ControlTypeOK, NEW c \in Clis, NEW pc \in Pcs, NEW pid \in Pids \cup {NoPid},
         cmd' = [cmd EXCEPT ![c].pc = pc, ![c].pid = pid],
         pc \in {"hangup", "kill", "record", "report"} => pid \in Pids
  PROVE  /\ cmd' \in [Clis -> [pc : Pcs, op : Ops, pid : Pids \cup {NoPid}]]
         /\ \A d \in Clis : cmd'[d].pc \in {"hangup", "kill", "record", "report"} => cmd'[d].pid \in Pids
BY ZenonT(60) DEF ControlTypeOK

(* A command that is done keeps its type. *)
LEMMA DoneTyped ==
  ASSUME ControlTypeOK, NEW c \in Clis, Done(c)
  PROVE  /\ cmd' \in [Clis -> [pc : Pcs, op : Ops, pid : Pids \cup {NoPid}]]
         /\ \A d \in Clis : cmd'[d].pc \in {"hangup", "kill", "record", "report"} => cmd'[d].pid \in Pids
<1>1. Resting \in [pc : Pcs, op : Ops, pid : Pids \cup {NoPid}] /\ Resting.pc = "idle"
  BY DEF Resting, Pcs, Ops
<1> QED
  BY <1>1 DEF ControlTypeOK, Done

(* An id found in the pid file is an id. *)
LEMMA DaemonPidTyped ==
  ASSUME ControlTypeOK
  PROVE  daemon_pid \in Pids \cup {NoPid} /\ (daemon_pid # NoPid => daemon_pid \in Pids /\ daemon_pid = pidfile)
BY DEF ControlTypeOK, daemon_pid

------------------------------------------------------------------------------
(* Types *)

(* A step of a command keeps the types. *)
LEMMA ProceedTyped ==
  ASSUME ControlTypeOK, NEW c \in Clis, Proceed(c)
  PROVE  ControlTypeOK'
<1> USE DEF Pcs
<1>1. /\ cmd[c] \in [pc : Pcs, op : Ops, pid : Pids \cup {NoPid}]
      /\ cmd[c].pc \in {"hangup", "kill", "record", "report"} => cmd[c].pid \in Pids
  BY DEF ControlTypeOK
<1>2. ASSUME NEW pc \in Pcs \ {"hangup", "kill", "record", "report"}, Goto(c, pc),
             UNCHANGED <<what, doomed, faults>>, pidfile' \in Pids \cup {NoPid}
      PROVE  ControlTypeOK'
  BY ZenonT(60), <1>2, CommandTyped DEF ControlTypeOK, Goto, Running
<1>3. ASSUME NEW pc \in Pcs, NEW pid \in Pids, GotoWith(c, pc, pid),
             UNCHANGED <<what, doomed, faults>>, pidfile' \in Pids \cup {NoPid}
      PROVE  ControlTypeOK'
  BY ZenonT(60), <1>3, CommandTyped DEF ControlTypeOK, GotoWith, Running
<1>4. ASSUME Done(c), UNCHANGED <<what, doomed, faults>>, pidfile' \in Pids \cup {NoPid}
      PROVE  ControlTypeOK'
  BY <1>4, DoneTyped DEF ControlTypeOK, Running
<1>5. ASSUME AfterStop(c), UNCHANGED <<what, doomed, faults>>, pidfile' \in Pids \cup {NoPid}
      PROVE  ControlTypeOK'
  BY <1>2, <1>4, <1>5 DEF AfterStop
<1>6. CASE Look(c) \/ FindForHangup(c) \/ FindForStop(c) \/ FindForStart(c) \/ CheckPorts(c)
  <2>1. UNCHANGED <<what, doomed, faults>> /\ pidfile' \in Pids \cup {NoPid}
    BY <1>6 DEF Look, FindForHangup, FindForStop, FindForStart, CheckPorts, ControlTypeOK
  <2> QED
    BY <1>2, <1>3, <1>4, <1>5, <1>6, <2>1, DaemonPidTyped
       DEF Look, FindForHangup, FindForStop, FindForStart, CheckPorts
<1>7. CASE Hangup(c)
  <2>1. cmd[c].pid \in Pids /\ Done(c) /\ pidfile' = pidfile /\ faults' = faults
    BY <1>1, <1>7 DEF Hangup, At
  <2>2. CASE Ends(cmd[c].pid)
    BY <2>1, <2>2, EndsTyped, DoneTyped DEF ControlTypeOK, Kinds
  <2>3. CASE UNCHANGED <<what, doomed>>
    BY <1>4, <2>1, <2>3 DEF ControlTypeOK
  <2> QED
    BY <1>7, <2>2, <2>3 DEF Hangup
<1>8. CASE Kill(c)
  <2>1. what' = what /\ doomed' \subseteq {p \in Pids : Running(p)} /\ UNCHANGED <<pidfile, faults>>
    BY <1>1, <1>8 DEF Kill, At, ControlTypeOK
  <2>2. Goto(c, "remove") \/ Goto(c, "poll")
    BY <1>8 DEF Kill
  <2>3. /\ cmd' \in [Clis -> [pc : Pcs, op : Ops, pid : Pids \cup {NoPid}]]
        /\ \A d \in Clis : cmd'[d].pc \in {"hangup", "kill", "record", "report"} => cmd'[d].pid \in Pids
    <3> HIDE DEF Pcs
    <3>1. {"remove", "poll"} \subseteq Pcs
      BY DEF Pcs
    <3> QED
      BY <2>2, <3>1, CommandTyped DEF Goto
  <2> QED
    BY <2>1, <2>3 DEF ControlTypeOK, Running
<1>9. CASE Poll(c) \/ RemovePidFile(c)
  <2>1. UNCHANGED <<what, doomed, faults>> /\ pidfile' \in Pids \cup {NoPid}
    BY <1>9 DEF Poll, RemovePidFile, ControlTypeOK
  <2> QED
    BY <1>2, <1>5, <1>9, <2>1 DEF Poll, RemovePidFile
<1>10. CASE Spawn(c)
  <2>1. PICK p \in Pids : what[p] = "free" /\ what' = [what EXCEPT ![p] = "booting"] /\ GotoWith(c, "record", p)
    BY <1>10 DEF Spawn
  <2>2. UNCHANGED <<doomed, pidfile, faults>>
    BY <1>10 DEF Spawn
  <2>3. /\ cmd' \in [Clis -> [pc : Pcs, op : Ops, pid : Pids \cup {NoPid}]]
        /\ \A d \in Clis : cmd'[d].pc \in {"hangup", "kill", "record", "report"} => cmd'[d].pid \in Pids
    <3> HIDE DEF Pcs
    <3>1. "record" \in Pcs
      BY DEF Pcs
    <3> QED
      BY <2>1, <3>1, CommandTyped DEF GotoWith
  <2> QED
    BY <2>1, <2>2, <2>3 DEF ControlTypeOK, Running
<1>11. CASE Record(c)
  BY <1>1, <1>3, <1>11 DEF Record, At
<1>12. CASE Report(c)
  <2>1. cmd[c].pid \in Pids /\ Done(c) /\ UNCHANGED <<doomed, pidfile, faults>>
        /\ what' = [what EXCEPT ![cmd[c].pid] = IF @ = "zombie" THEN "free" ELSE @]
    BY <1>1, <1>12 DEF Report, At
  <2> QED
    BY <2>1, DoneTyped DEF ControlTypeOK, Running
<1> QED
  BY <1>6, <1>7, <1>8, <1>9, <1>10, <1>11, <1>12 DEF Proceed

(* So does a step of a process. *)
LEMMA ProcessTyped ==
  ASSUME ControlTypeOK, NEW p \in Pids, ProcessStep(p) \/ Misfortune(p)
  PROVE  ControlTypeOK'
<1>1. UNCHANGED <<pidfile, cmd, faults>>
  BY DEF ProcessStep, Misfortune
<1>2. CASE Ends(p)
  BY <1>1, <1>2, EndsTyped DEF ControlTypeOK, Kinds
<1>3. ASSUME NEW kind \in {"bound", "serving", "other"}, Become(p, kind)
      PROVE  ControlTypeOK'
  BY <1>1, <1>3 DEF ControlTypeOK, Become, Running
<1> QED
  BY <1>2, <1>3 DEF ProcessStep, Misfortune, Bind, Ready, Terminate, Crash, OtherStarts, OtherEnds

(* And with them every step. *)
LEMMA ControlTyped == ControlTypeOK /\ [ControlNext]_controlVars => ControlTypeOK'
<1> SUFFICES ASSUME ControlTypeOK, [ControlNext]_controlVars PROVE ControlTypeOK'
  OBVIOUS
<1>1. CASE UNCHANGED controlVars
  BY <1>1 DEF controlVars, ControlTypeOK, Running
<1>2. ASSUME NEW c \in Clis, NEW op \in Ops, Call(c, op) PROVE ControlTypeOK'
  <2>1. [pc |-> Entry(op), op |-> op, pid |-> NoPid] \in [pc : Pcs, op : Ops, pid : Pids \cup {NoPid}]
        /\ Entry(op) \in {"start", "stop", "look"}
    BY DEF Entry, Pcs, Ops
  <2> QED
    BY <1>2, <2>1 DEF Call, ControlTypeOK, Running
<1>3. ASSUME NEW c \in Clis, Interrupt(c) PROVE ControlTypeOK'
  <2>1. PICK ended \in SUBSET {cmd[c].pid} :
           /\ what' = [p \in Pids |-> IF p \in ended \/ (p = cmd[c].pid /\ what[p] = "zombie") THEN "free" ELSE what[p]]
           /\ doomed' = doomed \ ended
    BY <1>3 DEF Interrupt
  <2>2. Done(c) /\ UNCHANGED <<pidfile, faults>>
    BY <1>3 DEF Interrupt
  <2> QED
    BY <2>1, <2>2, DoneTyped DEF ControlTypeOK, Running
<1> QED
  BY <1>1, <1>2, <1>3, ProceedTyped, ProcessTyped DEF ControlNext

(* The commands' and the processes' variables keep their types. *)
THEOREM ControlTypeCorrect == ControlSpec => []ControlTypeOK
<1>1. ControlInit => ControlTypeOK
  BY DEF ControlInit, ControlTypeOK, Resting, Pcs, Ops
<1> QED
  BY <1>1, ControlTyped, PTL DEF ControlSpec

------------------------------------------------------------------------------
(* The pid file and the daemon *)

Alone == faults \cap {"overlap", "interrupt"} = {}
Lasting(p) == Daemon(p) /\ p \notin doomed
NoneLasts == \A p \in Pids : ~Lasting(p)
OnlyLasts(pid) == \A p \in Pids : Lasting(p) => p = pid

(* What is so while command c runs by itself: no daemon lasts between the *)
(* stop of one and the start of another, one it has just spawned is all *)
(* there is, and otherwise the file names the one there is. *)
OneFine(c) ==
  /\ cmd[c].op = "stop" => cmd[c].pc \in {"idle", "stop", "kill", "poll", "remove"}
  /\ cmd[c].pc \in {"poll", "remove", "check", "spawn"} => NoneLasts
  /\ cmd[c].pc \in {"kill", "record"} => OnlyLasts(cmd[c].pid)
  /\ cmd[c].pc # "record" => OnlyLasts(pidfile)
TrackInv ==
  Alone =>
    /\ \A c, d \in Clis : ~At(c, "idle") /\ ~At(d, "idle") => c = d
    /\ \A c \in Clis : ~At(c, "idle") => OneFine(c)
    /\ AllIdle => OnlyLasts(pidfile)

(* Where daemon_pid finds nothing, no daemon lasts. *)
LEMMA NoPidNoDaemon ==
  ASSUME ControlTypeOK, OnlyLasts(pidfile), daemon_pid = NoPid
  PROVE  NoneLasts
BY ControlConstants DEF ControlTypeOK, OnlyLasts, NoneLasts, Lasting, Daemon, Listening, daemon_pid

(* A step that makes no daemon last keeps what was known. *)
LEMMA Shrinks ==
  ASSUME \A p \in Pids : Lasting(p)' => Lasting(p)
  PROVE  /\ NoneLasts => NoneLasts'
         /\ \A pid : OnlyLasts(pid) => \A p \in Pids : Lasting(p)' => p = pid
BY DEF NoneLasts, OnlyLasts

(* Processes end, bind, and are replaced by others: none becomes a daemon. *)
LEMMA ProcessTracked ==
  ASSUME ControlTypeOK, TrackInv, NEW p \in Pids, ProcessStep(p) \/ Misfortune(p)
  PROVE  TrackInv'
<1>1. UNCHANGED <<pidfile, cmd, faults>>
  BY DEF ProcessStep, Misfortune
<1>2. \A q \in Pids : Lasting(q)' => Lasting(q)
  <2>1. CASE Ends(p)
    BY <2>1, EndsTyped DEF Lasting, Daemon, Listening
  <2>2. ASSUME NEW kind \in {"bound", "serving", "other"}, Become(p, kind),
               kind = "other" \/ Daemon(p)
        PROVE  \A q \in Pids : Lasting(q)' => Lasting(q)
    BY <2>2 DEF ControlTypeOK, Become, Lasting, Daemon, Listening
  <2> QED
    BY <2>1, <2>2 DEF ProcessStep, Misfortune, Bind, Ready, Terminate, Crash, OtherStarts, OtherEnds, Daemon, Listening
<1>3. NoneLasts => NoneLasts'
  BY <1>2, Shrinks
<1>4. OnlyLasts(pidfile) => OnlyLasts(pidfile)'
  BY <1>1, <1>2 DEF OnlyLasts
<1>5. \A c \in Clis : OnlyLasts(cmd[c].pid) => OnlyLasts(cmd[c].pid)'
  BY <1>1, <1>2 DEF OnlyLasts
<1>6. \A c \in Clis : OneFine(c) => OneFine(c)'
  BY <1>1, <1>3, <1>4, <1>5 DEF OneFine
<1>7. Alone' => Alone /\ (\A c \in Clis : \A pc : At(c, pc)' <=> At(c, pc)) /\ (AllIdle' <=> AllIdle)
  BY <1>1 DEF Alone, At, AllIdle
<1> QED
  BY <1>1, <1>4, <1>6, <1>7 DEF TrackInv

(* A step of command c, the only one that runs, is about c alone. *)
LEMMA OneIsEnough ==
  ASSUME TrackInv, NEW c \in Clis, ~At(c, "idle"), OneFine(c)', faults' = faults,
         \A d \in Clis \ {c} : cmd'[d] = cmd[d]
  PROVE  TrackInv'
<1> SUFFICES ASSUME Alone
             PROVE  /\ \A d, e \in Clis : ~At(d, "idle")' /\ ~At(e, "idle")' => d = e
                    /\ \A d \in Clis : ~At(d, "idle")' => OneFine(d)'
                    /\ AllIdle' => OnlyLasts(pidfile)'
  BY DEF TrackInv, Alone
<1>1. \A d \in Clis \ {c} : At(d, "idle")'
  BY DEF TrackInv, At
<1>2. AllIdle' => OnlyLasts(pidfile)'
  BY DEF OneFine, AllIdle, At
<1> QED
  BY <1>1, <1>2

(* A step of a command: only spawning makes a daemon, and Record names it. *)
LEMMA ProceedTracked ==
  ASSUME ControlTypeOK, TrackInv, NEW c \in Clis, Proceed(c)
  PROVE  TrackInv'
<1>1. faults' = faults /\ ~At(c, "idle")
  BY DEF Proceed, Look, FindForHangup, Hangup, FindForStop, Kill, Poll, RemovePidFile, FindForStart,
         CheckPorts, Spawn, Record, Report, At
<1>2. CASE ~Alone
  BY <1>1, <1>2 DEF TrackInv, Alone
<1> SUFFICES ASSUME Alone PROVE TrackInv'
  BY <1>2
<1>3. /\ OneFine(c)
      /\ cmd \in [Clis -> [pc : Pcs, op : Ops, pid : Pids \cup {NoPid}]]
  BY <1>1 DEF TrackInv, ControlTypeOK
<1>4. ASSUME UNCHANGED <<what, doomed>>
      PROVE  (NoneLasts <=> NoneLasts') /\ \A p \in Pids : Lasting(p)' <=> Lasting(p)
  BY <1>4 DEF NoneLasts, Lasting, Daemon, Listening
<1>5. ASSUME NEW pc \in Pcs \ {"kill", "record"}, cmd' = [cmd EXCEPT ![c].pc = pc, ![c].pid = NoPid],
             cmd[c].op = "stop" => pc \in {"poll", "remove"},
             pc \in {"poll", "remove", "check", "spawn"} => NoneLasts', OnlyLasts(pidfile)'
      PROVE  TrackInv'
  <2>1. cmd'[c].pc = pc /\ cmd'[c].op = cmd[c].op /\ \A d \in Clis \ {c} : cmd'[d] = cmd[d]
    BY <1>3, <1>5
  <2>2. OneFine(c)'
    BY <1>5, <2>1 DEF OneFine
  <2> QED
    BY <1>1, <2>1, <2>2, OneIsEnough
<1>6. ASSUME Done(c), OnlyLasts(pidfile)'
      PROVE  TrackInv'
  <2>1. cmd'[c].pc = "idle" /\ \A d \in Clis \ {c} : cmd'[d] = cmd[d]
    BY <1>3, <1>6 DEF Done, Resting
  <2>2. OneFine(c)'
    BY <1>6, <2>1 DEF OneFine
  <2> QED
    BY <1>1, <2>1, <2>2, OneIsEnough
<1>7. ASSUME AfterStop(c), NoneLasts'
      PROVE  TrackInv'
  <2>1. OnlyLasts(pidfile)'
    BY <1>7 DEF OnlyLasts, NoneLasts
  <2>2. CASE Done(c)
    BY <1>6, <2>1, <2>2
  <2>3. CASE cmd[c].op = "restart" /\ Goto(c, "start")
    <3>1. "start" \in Pcs \ {"kill", "record"} /\ cmd' = [cmd EXCEPT ![c].pc = "start", ![c].pid = NoPid]
      BY <2>3 DEF Goto, Pcs
    <3> QED
      BY <1>5, <1>7, <2>1, <2>3, <3>1
  <2>4. CASE cmd[c].op \in {"sync", "edit"} /\ Goto(c, "spawn")
    <3>1. "spawn" \in Pcs \ {"kill", "record"} /\ cmd' = [cmd EXCEPT ![c].pc = "spawn", ![c].pid = NoPid]
      BY <2>4 DEF Goto, Pcs
    <3> QED
      BY <1>5, <1>7, <2>1, <2>4, <3>1
  <2> QED
    BY <1>7, <2>2, <2>3, <2>4 DEF AfterStop
<1>8. ASSUME NEW pc \in {"hangup", "kill"}, GotoWith(c, pc, pidfile), UNCHANGED <<what, doomed, pidfile>>,
             OnlyLasts(pidfile), cmd[c].op = "stop" => pc = "kill"
      PROVE  TrackInv'
  <2>1. cmd'[c].pc = pc /\ cmd'[c].pid = pidfile /\ cmd'[c].op = cmd[c].op /\ \A d \in Clis \ {c} : cmd'[d] = cmd[d]
    BY <1>3, <1>8 DEF GotoWith
  <2>2. OnlyLasts(pidfile)' /\ OnlyLasts(cmd[c].pid)'
    BY <1>4, <1>8, <2>1 DEF OnlyLasts
  <2>3. OneFine(c)'
    BY <1>8, <2>1, <2>2 DEF OneFine
  <2> QED
    BY <1>1, <2>1, <2>3, OneIsEnough
<1>9. ASSUME UNCHANGED <<what, doomed, pidfile>>, OnlyLasts(pidfile)
      PROVE  OnlyLasts(pidfile)'
  BY <1>4, <1>9 DEF OnlyLasts
<1>10. CASE Look(c)
  <2>1. UNCHANGED <<what, doomed, pidfile>> /\ cmd[c].pc = "look" /\ OnlyLasts(pidfile) /\ cmd[c].op # "stop"
    BY <1>3, <1>10 DEF Look, At, OneFine
  <2>2. daemon_pid = NoPid => NoneLasts'
    BY <1>4, <2>1, NoPidNoDaemon
  <2> QED
    BY <1>5, <1>6, <1>9, <1>10, <2>1, <2>2 DEF Look, Goto, Pcs
<1>11. CASE FindForHangup(c)
  <2>1. UNCHANGED <<what, doomed, pidfile>> /\ cmd[c].pc = "hup" /\ OnlyLasts(pidfile) /\ cmd[c].op # "stop"
    BY <1>3, <1>11 DEF FindForHangup, At, OneFine
  <2>2. CASE daemon_pid = NoPid
    BY <1>6, <1>9, <1>11, <2>1, <2>2 DEF FindForHangup
  <2>3. CASE daemon_pid # NoPid
    <3>1. GotoWith(c, "hangup", pidfile)
      BY <1>11, <2>3, DaemonPidTyped DEF FindForHangup
    <3> QED
      BY <1>8, <2>1, <3>1
  <2> QED
    BY <2>2, <2>3
<1>12. CASE Hangup(c)
  <2>1. cmd[c].pc = "hangup" /\ OnlyLasts(pidfile) /\ cmd[c].pid \in Pids /\ pidfile' = pidfile /\ Done(c)
    BY <1>3, <1>12 DEF Hangup, At, OneFine, ControlTypeOK
  <2>2. \A p \in Pids : Lasting(p)' => Lasting(p)
    <3>1. CASE Ends(cmd[c].pid)
      BY <2>1, <3>1, EndsTyped DEF Lasting, Daemon, Listening
    <3>2. CASE UNCHANGED <<what, doomed>>
      BY <1>4, <3>2
    <3> QED
      BY <1>12, <3>1, <3>2 DEF Hangup
  <2>3. OnlyLasts(pidfile)'
    BY <2>1, <2>2 DEF OnlyLasts
  <2> QED
    BY <1>6, <2>1, <2>3
<1>13. CASE FindForStop(c)
  <2>1. UNCHANGED <<what, doomed, pidfile>> /\ cmd[c].pc = "stop" /\ OnlyLasts(pidfile)
    BY <1>3, <1>13 DEF FindForStop, At, OneFine
  <2>2. CASE daemon_pid = NoPid
    BY <1>4, <1>7, <1>13, <2>1, <2>2, NoPidNoDaemon DEF FindForStop
  <2>3. CASE daemon_pid # NoPid
    <3>1. GotoWith(c, "kill", pidfile)
      BY <1>13, <2>3, DaemonPidTyped DEF FindForStop
    <3> QED
      BY <1>8, <2>1, <3>1
  <2> QED
    BY <2>2, <2>3
(* SIGTERM: the one daemon that may last does not last any more. *)
<1>14. CASE Kill(c)
  <2>1. cmd[c].pc = "kill" /\ OnlyLasts(cmd[c].pid) /\ cmd[c].pid \in Pids /\ UNCHANGED <<what, pidfile>>
    BY <1>3, <1>14 DEF Kill, At, OneFine, ControlTypeOK
  <2>2. NoneLasts'
    BY <1>14, <2>1 DEF Kill, NoneLasts, OnlyLasts, Lasting, Daemon, Listening, Running
  <2>3. OnlyLasts(pidfile)'
    BY <2>2 DEF OnlyLasts, NoneLasts
  <2>4. \E pc \in {"remove", "poll"} : cmd' = [cmd EXCEPT ![c].pc = pc, ![c].pid = NoPid]
    BY <1>14 DEF Kill, Goto
  <2> QED
    BY <1>5, <2>2, <2>3, <2>4 DEF Pcs
<1>15. CASE Poll(c)
  <2>1. UNCHANGED <<what, doomed, pidfile>> /\ cmd[c].pc = "poll" /\ NoneLasts /\ OnlyLasts(pidfile)
        /\ cmd' = [cmd EXCEPT ![c].pc = "remove", ![c].pid = NoPid]
    BY <1>3, <1>15 DEF Poll, At, OneFine, Goto
  <2> QED
    BY <1>4, <1>5, <1>9, <2>1 DEF Pcs
<1>16. CASE RemovePidFile(c)
  <2>1. UNCHANGED <<what, doomed>> /\ cmd[c].pc = "remove" /\ NoneLasts /\ AfterStop(c)
    BY <1>3, <1>16 DEF RemovePidFile, At, OneFine
  <2> QED
    BY <1>4, <1>7, <2>1
<1>17. CASE FindForStart(c)
  <2>1. UNCHANGED <<what, doomed, pidfile>> /\ cmd[c].pc = "start" /\ OnlyLasts(pidfile) /\ cmd[c].op # "stop"
    BY <1>3, <1>17 DEF FindForStart, At, OneFine
  <2>2. daemon_pid = NoPid => NoneLasts'
    BY <1>4, <2>1, NoPidNoDaemon
  <2> QED
    BY <1>5, <1>6, <1>9, <1>17, <2>1, <2>2 DEF FindForStart, Goto, Pcs
<1>18. CASE CheckPorts(c)
  <2>1. UNCHANGED <<what, doomed, pidfile>> /\ cmd[c].pc = "check" /\ OnlyLasts(pidfile) /\ cmd[c].op # "stop" /\ NoneLasts
    BY <1>3, <1>18 DEF CheckPorts, At, OneFine
  <2> QED
    BY <1>4, <1>5, <1>6, <1>9, <1>18, <2>1 DEF CheckPorts, Goto, Pcs
(* The new daemon is the only one that lasts, and the command knows it. *)
<1>19. CASE Spawn(c)
  <2>1. PICK p \in Pids : what[p] = "free" /\ what' = [what EXCEPT ![p] = "booting"] /\ GotoWith(c, "record", p)
    BY <1>19 DEF Spawn
  <2>2. cmd[c].pc = "spawn" /\ NoneLasts /\ cmd[c].op # "stop" /\ doomed' = doomed
    BY <1>3, <1>19 DEF Spawn, At, OneFine
  <2>3. cmd'[c].pc = "record" /\ cmd'[c].pid = p /\ cmd'[c].op = cmd[c].op /\ \A d \in Clis \ {c} : cmd'[d] = cmd[d]
    BY <1>3, <2>1 DEF GotoWith
  <2>4. OnlyLasts(cmd[c].pid)'
    BY <2>1, <2>2, <2>3 DEF ControlTypeOK, OnlyLasts, NoneLasts, Lasting, Daemon, Listening
  <2>5. OneFine(c)'
    BY <2>2, <2>3, <2>4 DEF OneFine
  <2> QED
    BY <1>1, <2>3, <2>5, OneIsEnough
<1>20. CASE Record(c)
  <2>1. cmd[c].pc = "record" /\ OnlyLasts(cmd[c].pid) /\ cmd[c].op # "stop" /\ UNCHANGED <<what, doomed>>
        /\ pidfile' = cmd[c].pid /\ GotoWith(c, "report", cmd[c].pid)
    BY <1>3, <1>20 DEF Record, At, OneFine
  <2>2. cmd'[c].pc = "report" /\ cmd'[c].op = cmd[c].op /\ \A d \in Clis \ {c} : cmd'[d] = cmd[d]
    BY <1>3, <2>1 DEF GotoWith
  <2>3. OnlyLasts(pidfile)'
    BY <1>4, <2>1 DEF OnlyLasts
  <2>4. OneFine(c)'
    BY <2>1, <2>2, <2>3 DEF OneFine
  <2> QED
    BY <1>1, <2>2, <2>4, OneIsEnough
<1>21. CASE Report(c)
  <2>1. cmd[c].pc = "report" /\ OnlyLasts(pidfile) /\ UNCHANGED <<doomed, pidfile>> /\ Done(c) /\ cmd[c].pid \in Pids
        /\ what' = [what EXCEPT ![cmd[c].pid] = IF @ = "zombie" THEN "free" ELSE @]
    BY <1>3, <1>21 DEF Report, At, OneFine, ControlTypeOK
  <2>2. OnlyLasts(pidfile)'
    BY <2>1 DEF ControlTypeOK, OnlyLasts, Lasting, Daemon, Listening
  <2> QED
    BY <1>6, <2>1, <2>2
<1> QED
  BY <1>10, <1>11, <1>12, <1>13, <1>14, <1>15, <1>16, <1>17, <1>18, <1>19, <1>20, <1>21 DEF Proceed

(* A call begins where its operation does, and knows nothing yet. *)
LEMMA CallTracked ==
  ASSUME ControlTypeOK, TrackInv, NEW c \in Clis, NEW op \in Ops, Call(c, op)
  PROVE  TrackInv'
<1>1. /\ UNCHANGED <<what, doomed, pidfile, faults>>
      /\ cmd'[c] = [pc |-> Entry(op), op |-> op, pid |-> NoPid]
      /\ \A d \in Clis \ {c} : cmd'[d] = cmd[d]
  BY DEF Call, ControlTypeOK
<1>2. Entry(op) \in {"start", "stop", "look"} /\ (op = "stop" => Entry(op) = "stop")
  BY DEF Entry
<1> SUFFICES ASSUME Alone'
             PROVE  /\ \A d, e \in Clis : ~At(d, "idle")' /\ ~At(e, "idle")' => d = e
                    /\ \A d \in Clis : ~At(d, "idle")' => OneFine(d)'
                    /\ AllIdle' => OnlyLasts(pidfile)'
  BY DEF TrackInv
<1>3. Alone /\ AllIdle /\ OnlyLasts(pidfile)
  BY <1>1 DEF Alone, Call, TrackInv
<1>4. OnlyLasts(pidfile)'
  BY <1>1, <1>3 DEF OnlyLasts, Lasting, Daemon, Listening
<1>5. \A d \in Clis \ {c} : At(d, "idle")'
  BY <1>1, <1>3 DEF AllIdle, At
<1>6. OneFine(c)'
  BY <1>1, <1>2, <1>4 DEF OneFine
<1> QED
  BY <1>4, <1>5, <1>6

(* Every step keeps track. *)
LEMMA ControlTracked == ControlTypeOK /\ TrackInv /\ [ControlNext]_controlVars => TrackInv'
<1> SUFFICES ASSUME ControlTypeOK, TrackInv, [ControlNext]_controlVars PROVE TrackInv'
  OBVIOUS
<1>1. CASE UNCHANGED controlVars
  BY <1>1 DEF controlVars, TrackInv, Alone, At, AllIdle, OneFine, OnlyLasts, NoneLasts, Lasting, Daemon, Listening
<1>2. ASSUME NEW c \in Clis, Interrupt(c) PROVE TrackInv'
  BY <1>2 DEF Interrupt, TrackInv, Alone
<1> QED
  BY <1>1, <1>2, CallTracked, ProceedTracked, ProcessTracked DEF ControlNext

(* At the start nothing runs. *)
LEMMA TrackInitial == ControlInit => TrackInv
BY DEF ControlInit, TrackInv, OnlyLasts, Lasting, Daemon, Listening, At, AllIdle, Resting

(* Whatever crashes, whatever ids are used again and however slowly daemons *)
(* end: with no command under way, a daemon that was not told to end is the *)
(* one the pid file names. *)
THEOREM DaemonAlwaysTracked == ControlSpec => []DaemonTracked
<1>1. TrackInv => DaemonTracked
  BY DEF TrackInv, DaemonTracked, Alone, OnlyLasts, Lasting
<1>2. ControlInit => ControlTypeOK
  BY DEF ControlInit, ControlTypeOK, Resting, Pcs, Ops
<1> QED
  BY <1>1, <1>2, TrackInitial, ControlTyped, ControlTracked, PTL DEF ControlSpec

(* And when `dip proxy stop` is done, every daemon was told to end. *)
THEOREM StopAlwaysStops == ControlSpec => StopStops
<1> DEFINE Stopped(c) ==
             cmd[c].op = "stop" /\ ~At(c, "idle") /\ cmd'[c] = Resting /\ faults \cap {"overlap", "interrupt"} = {}
             => \A p \in Pids : Daemon(p) => p \in doomed
<1>1. ControlTypeOK /\ TrackInv /\ [ControlNext]_controlVars => [\A c \in Clis : Stopped(c)]_controlVars
  <2> SUFFICES ASSUME ControlTypeOK, TrackInv, ControlNext, NEW c \in Clis,
                      cmd[c].op = "stop", ~At(c, "idle"), cmd'[c] = Resting, Alone
               PROVE  NoneLasts
    BY DEF NoneLasts, Lasting, Alone
  <2>1. OneFine(c) /\ cmd[c] # Resting /\ cmd \in [Clis -> [pc : Pcs, op : Ops, pid : Pids \cup {NoPid}]]
    BY DEF TrackInv, ControlTypeOK, Resting, At
  <2>2. Proceed(c)
    <3>1. ASSUME NEW d \in Clis, NEW op \in Ops, Call(d, op) PROVE FALSE
      BY <2>1, <3>1 DEF Call, Alone, AllIdle
    <3>2. ASSUME NEW d \in Clis, Interrupt(d) PROVE FALSE
      BY <3>2 DEF Interrupt, Alone
    <3>3. ASSUME NEW p \in Pids, ProcessStep(p) \/ Misfortune(p) PROVE FALSE
      BY <2>1, <3>3 DEF ProcessStep, Misfortune
    <3>4. ASSUME NEW d \in Clis, Proceed(d) PROVE d = c
      <4>1. ~At(d, "idle")
        BY <3>4 DEF Proceed, Look, FindForHangup, Hangup, FindForStop, Kill, Poll, RemovePidFile, FindForStart,
               CheckPorts, Spawn, Record, Report, At
      <4> QED
        BY <4>1 DEF TrackInv
    <3> QED
      BY <3>1, <3>2, <3>3, <3>4 DEF ControlNext
  <2>3. cmd[c].pc \in {"stop", "kill", "poll", "remove"}
    BY <2>1 DEF OneFine, At
  <2>4. CASE cmd[c].pc = "remove"
    BY <2>1, <2>4 DEF OneFine
  <2>5. CASE cmd[c].pc = "stop"
    <3>1. FindForStop(c)
      BY <2>2, <2>5 DEF Proceed, Look, FindForHangup, Hangup, Kill, Poll, RemovePidFile, FindForStart,
             CheckPorts, Spawn, Record, Report, At
    <3>2. daemon_pid = NoPid
      BY <2>1, <3>1 DEF FindForStop, GotoWith, Resting
    <3> QED
      BY <2>1, <2>5, <3>2, NoPidNoDaemon DEF OneFine
  <2>6. CASE cmd[c].pc \in {"kill", "poll"}
    <3>1. Kill(c) \/ Poll(c)
      BY <2>2, <2>6 DEF Proceed, Look, FindForHangup, Hangup, FindForStop, RemovePidFile, FindForStart,
             CheckPorts, Spawn, Record, Report, At
    <3> QED
      BY <2>1, <3>1 DEF Kill, Poll, Goto, Resting
  <2> QED
    BY <2>3, <2>4, <2>5, <2>6
<1>2. ControlInit => ControlTypeOK
  BY DEF ControlInit, ControlTypeOK, Resting, Pcs, Ops
<1> QED
  BY <1>1, <1>2, TrackInitial, ControlTyped, ControlTracked, PTL DEF ControlSpec, StopStops
=============================================================================
