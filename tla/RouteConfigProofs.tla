-------------------------- MODULE RouteConfigProofs --------------------------
(* Theorems about the commands that edit the routes and the daemon that     *)
(* serves them, for any number of commands running at once and any requests. *)
EXTENDS RouteConfig, TLAPS

USE DEF daemonVars, certVars
-----------------------------------------------------------------------------
(* Editing a table gives a table, without a second route for any domain if  *)
(* neither the table nor the request had one.                               *)
LEMMA ApplyTable ==
  ASSUME NEW T \in SUBSET Route, NEW new \in SUBSET Route, NEW gone,
         NEW req, req.new = new, req.gone = gone
  PROVE  /\ Apply(req, T) \in SUBSET Route
         /\ Unambiguous(T) /\ Unambiguous(new) => Unambiguous(Apply(req, T))
BY DEF Apply, Upsert, Without, Unambiguous

LEMMA WantedNames ==
  ASSUME NEW T \in SUBSET Route
  PROVE  Wanted(T) \in SUBSET Sans
BY SanType DEF Wanted, Route
-----------------------------------------------------------------------------
(* A command's own record changes in one place, and stays a command.        *)
LEMMA CommandType ==
  ASSUME ConfigTypeOK, NEW p \in Clis, NEW r \in Command, Become(p, r)
  PROVE  cli' \in [Clis -> Command]
BY DEF ConfigTypeOK, Become

LEMMA IdleType == Idle \in Command
BY DEF Idle, NoRequest, Command, Steps, Commands

LEMMA TellingType ==
  ASSUME NEW op \in Commands \cup {"none"}, NEW step \in Steps, NEW changed \in BOOLEAN
  PROVE  Telling(op, step, changed) \in Command
BY DEF Telling, Idle, NoRequest, Command, Steps

LEMMA InitType == ConfigInit => ConfigTypeOK
<1> SUFFICES ASSUME ConfigInit PROVE ConfigTypeOK
  OBVIOUS
<1>1. cli \in [Clis -> Command]
  BY IdleType DEF ConfigInit
<1>2. file \in [text : {"whole", "empty", "garbage"}, routes : SUBSET Route]
  BY DEF ConfigInit, Whole
<1>3. boots \in [Pids -> Process]
  BY DEF ConfigInit, Absent, Process
<1> QED
  BY <1>1, <1>2, <1>3, PidsType DEF ConfigInit, ConfigTypeOK

LEMMA BeginType ==
  ASSUME ConfigTypeOK, NEW p \in Clis, NEW req \in Requests, Begin(p, req)
  PROVE  ConfigTypeOK'
<1> DEFINE r == [Idle EXCEPT !.pc = "load", !.req = req]
<1>1. r \in Command
  BY RequestsType DEF Idle, NoRequest, Command, Steps, Commands
<1>2. cli' \in [Clis -> Command]
  BY <1>1, CommandType DEF Begin
<1> QED
  BY <1>2 DEF Begin, ConfigTypeOK, HaveRead

LEMMA LoadType ==
  ASSUME ConfigTypeOK, NEW p \in Clis, Load(p)
  PROVE  ConfigTypeOK'
<1> DEFINE new == Apply(cli[p].req, file.routes)
           r == [cli[p] EXCEPT !.base = file.routes, !.cfg = new,
                   !.pc = IF cli[p].req.op = "sync" THEN "cert" ELSE "save"]
<1>1. cli[p] \in Command /\ file.routes \in SUBSET Route
  BY DEF ConfigTypeOK
<1>2. new \in SUBSET Route
  BY <1>1, ApplyTable DEF Command
<1> HIDE DEF new
<1>3. r \in Command
  BY <1>1, <1>2 DEF Command, Steps
<1>4. Become(p, Idle) \/ Become(p, r)
  BY DEF Load, Finish, new
<1> HIDE DEF r
<1>5. cli' \in [Clis -> Command]
  BY <1>3, <1>4, IdleType, CommandType
<1> QED
  BY <1>5 DEF Load, ConfigTypeOK, HaveRead

(* Where a command can be after a step that is neither its load nor its     *)
(* write: it edits what it edited, or has given that up.                    *)
Edits(c) ==
  c.pc \in {"save", "write"} \/ (c.pc \in {"cert", "pem", "record"} /\ c.req.op = "sync")
Follows(c, d) ==
  /\ d.pc # "load" /\ (d.pc = "write" => c.pc = "save")
  /\ Edits(d) => Edits(c) /\ d.req = c.req /\ d.base = c.base /\ d.cfg = c.cfg
  /\ d.req.new \in {c.req.new, {}} /\ d.cfg \in {c.cfg, {}}
  /\ d.pc = "stop" => d.changed

LEMMA TellingFollows ==
  ASSUME NEW c \in Command, NEW op, NEW step \in Steps \ {"load", "save", "write", "cert", "pem", "record"},
         NEW changed, step = "stop" => changed
  PROVE  Follows(c, Telling(op, step, changed)) /\ Follows(c, Idle)
BY DEF Telling, Idle, NoRequest, Follows, Edits, Steps

LEMMA AfterCertFollows ==
  ASSUME NEW c \in Command, c.pc \in {"cert", "pem", "record"}, NEW changed \in BOOLEAN
  PROVE  AfterCert(c, changed) \in Command /\ Follows(c, AfterCert(c, changed))
<1>1. CASE c.req.op = "sync"
  BY <1>1 DEF AfterCert, Command, Steps, Follows, Edits
<1>2. CASE c.req.op # "sync"
  <2>1. AfterCert(c, changed) = Telling(c.req.op, "signal", changed)
    BY <1>2 DEF AfterCert
  <2>2. c.req.op \in Commands \cup {"none"} /\ "signal" \in Steps
    BY DEF Command, Steps
  <2>3. AfterCert(c, changed) \in Command
    BY <2>1, <2>2, TellingType
  <2>4. Follows(c, Telling(c.req.op, "signal", changed))
    <3>1. "signal" \in Steps \ {"load", "save", "write", "cert", "pem", "record"}
      BY DEF Steps
    <3> QED
      BY <3>1, TellingFollows
  <2> QED
    BY <2>1, <2>3, <2>4
<1> QED
  BY <1>1, <1>2

LEMMA GotoFollows ==
  ASSUME NEW c \in Command,
         NEW step \in {"pem", "record", "write", "spawn", "track"}, NEW child \in Pids \cup {NoPid},
         step = "pem" => c.pc = "cert", step = "record" => c.pc = "pem", step = "write" => c.pc = "save"
  PROVE  /\ [c EXCEPT !.pc = step] \in Command /\ Follows(c, [c EXCEPT !.pc = step])
         /\ step \in {"spawn", "track"} =>
              /\ [c EXCEPT !.child = child, !.pc = step] \in Command
              /\ Follows(c, [c EXCEPT !.child = child, !.pc = step])
BY DEF Command, Steps, Follows, Edits

LEMMA Later ==
  ASSUME ConfigTypeOK, NEW p \in Clis, CertStep(p) \/ Truncate(p) \/ TellStep(p) \/ Interrupt(p)
  PROVE  \E c \in Command : Become(p, c) /\ Follows(cli[p], c)
<1>1. cli[p] \in Command /\ pid \in Pids \cup {NoPid} /\ NoPid \in Pids \cup {NoPid}
  BY DEF ConfigTypeOK
<1>2. ASSUME Finish(p) PROVE \E c \in Command : Become(p, c) /\ Follows(cli[p], c)
  <2>1. Follows(cli[p], Idle)
    BY DEF Idle, NoRequest, Follows, Edits
  <2> QED
    BY <1>2, <2>1, IdleType DEF Finish
<1>3. CASE CheckCert(p)
  <2>1. Become(p, AfterCert(cli[p], FALSE)) \/ Become(p, [cli[p] EXCEPT !.pc = "pem"])
    BY <1>3 DEF CheckCert, Goto
  <2>2. cli[p].pc = "cert"
    BY <1>3 DEF CheckCert, Reached
  <2> QED
    BY <1>1, <2>1, <2>2, AfterCertFollows, GotoFollows
<1>4. CASE WritePem(p)
  <2>1. Become(p, [cli[p] EXCEPT !.pc = "record"]) /\ cli[p].pc = "pem"
    BY <1>4 DEF WritePem, Goto, Reached
  <2> QED
    BY <1>1, <2>1, GotoFollows
<1>5. CASE Record(p)
  <2>1. \E b \in BOOLEAN : Become(p, AfterCert(cli[p], b))
    BY <1>5 DEF Record
  <2>2. cli[p].pc = "record"
    BY <1>5 DEF Record, Reached
  <2> QED
    BY <1>1, <2>1, <2>2, AfterCertFollows
<1>6. CASE Truncate(p)
  <2>1. Become(p, [cli[p] EXCEPT !.pc = "write"]) /\ cli[p].pc = "save"
    BY <1>6 DEF Truncate, Goto, Reached
  <2> QED
    BY <1>1, <2>1, GotoFollows
<1>7. ASSUME NEW changed \in BOOLEAN, NEW step \in {"hup", "stop", "unlink", "spawn"},
             step = "stop" => changed, Become(p, Telling("none", step, changed))
      PROVE  \E c \in Command : Become(p, c) /\ Follows(cli[p], c)
  <2>1. step \in Steps \ {"load", "save", "write", "cert", "pem", "record"}
    BY <1>7 DEF Steps
  <2> QED
    BY <1>1, <1>7, <2>1, TellingType, TellingFollows
<1>8. CASE FindDaemon(p)
  <2>1. cli[p].changed \in BOOLEAN
    BY <1>1 DEF Command
  <2>2. \E step \in {"hup", "stop"} :
          (step = "stop" => cli[p].changed) /\ Become(p, Telling("none", step, cli[p].changed))
    BY <1>8 DEF FindDaemon
  <2> QED
    BY <1>7, <2>1, <2>2
<1>9. CASE NoDaemon(p)
  BY <1>2, <1>7, <1>9 DEF NoDaemon
<1>10. CASE Hangup(p) \/ Track(p) \/ Interrupt(p)
  BY <1>2, <1>10 DEF Hangup, Track, Interrupt
<1>11. CASE Stop(p)
  <2>1. \E step \in {"unlink", "spawn"} : Become(p, Telling("none", step, FALSE))
    BY <1>11 DEF Stop
  <2> QED
    BY <1>7, <2>1
<1>12. CASE Unlink(p)
  <2>1. Become(p, [cli[p] EXCEPT !.pc = "spawn"])
    BY <1>12 DEF Unlink, Goto
  <2> QED
    BY <1>1, <2>1, GotoFollows
<1>13. CASE Spawn(p)
  <2>1. \E i \in Pids : Become(p, [cli[p] EXCEPT !.child = i, !.pc = "track"])
    BY <1>13 DEF Spawn
  <2> QED
    BY <1>1, <2>1, GotoFollows
<1> QED
  BY <1>3, <1>4, <1>5, <1>6, <1>8, <1>9, <1>10, <1>11, <1>12, <1>13 DEF CertStep, TellStep

LEMMA CertType ==
  ASSUME ConfigTypeOK, NEW p \in Clis, CertStep(p)
  PROVE  ConfigTypeOK'
<1>1. cli' \in [Clis -> Command]
  BY Later, CommandType
<1>2. Wanted(cli[p].cfg) \in SUBSET Sans
  BY WantedNames DEF ConfigTypeOK, Command
<1>3. made' \in BOOLEAN /\ sans' \in SUBSET Sans /\ record' \in SUBSET Sans
  BY <1>2 DEF CertStep, CheckCert, WritePem, Record, ConfigTypeOK
<1>4. HaveRead' = HaveRead /\ untold' \in {untold, HaveRead}
  BY DEF CertStep, CheckCert, WritePem, Record, HaveRead
<1>5. UNCHANGED <<file, pid, daemonVars>>
  BY DEF CertStep, CheckCert, WritePem, Record
<1> QED
  BY <1>1, <1>3, <1>4, <1>5 DEF ConfigTypeOK

LEMMA SaveType ==
  ASSUME ConfigTypeOK, NEW p \in Clis, Save(p)
  PROVE  ConfigTypeOK'
<1>1. cli[p] \in Command /\ cli[p].cfg \in SUBSET Route
  BY DEF ConfigTypeOK, Command
<1>2. cli' \in [Clis -> Command]
  <2>1. CASE Truncate(p)
    BY <2>1, Later, CommandType
  <2>2. CASE WriteText(p)
    <3>1. AfterWrite(cli[p]) \in Command
      <4>1. Telling("sync", "signal", cli[p].changed) \in Command
        BY <1>1, TellingType DEF Command, Commands, Steps
      <4>2. Telling("none", "hup", FALSE) \in Command
        BY TellingType DEF Commands, Steps
      <4>3. Telling("unsync", "cert", FALSE) \in Command
        BY TellingType DEF Commands, Steps
      <4>4. [Telling("unsync", "cert", FALSE) EXCEPT !.cfg = cli[p].cfg] \in Command
        BY <1>1, <4>3 DEF Command
      <4> QED
        BY <4>1, <4>2, <4>4 DEF AfterWrite
    <3> QED
      BY <2>2, <3>1, CommandType DEF WriteText
  <2> QED
    BY <2>1, <2>2 DEF Save
<1>3. file' \in [text : {"whole", "empty", "garbage"}, routes : SUBSET Route]
  BY <1>1 DEF Save, Truncate, WriteText, Truncated, Overlaid, Whole
<1>4. UNCHANGED <<certVars, pid, daemonVars, untold>>
  BY DEF Save, Truncate, WriteText
<1> QED
  BY <1>2, <1>3, <1>4 DEF ConfigTypeOK, HaveRead

(* A process that ends leaves nothing behind.                               *)
LEMMA KillType ==
  ASSUME ConfigTypeOK, NEW i \in Pids, Kill(i)
  PROVE  /\ boots' \in [Pids -> Process] /\ daemon' \in {"off", "loaded", "on"}
         /\ dpid' \in Pids \cup {NoPid} /\ (daemon' = "off" <=> dpid' = NoPid)
         /\ hup' \in BOOLEAN /\ reload' \in {reload, {}} /\ table' \in {table, {}}
         /\ acceptor' \in {acceptor, {}}
         /\ hup' \/ reload' # {} => daemon' = "on"
         /\ untold' = HaveRead'
         /\ dpid' \in Pids => boots'[dpid'].at = "none"
<1>1. boots' = [boots EXCEPT ![i] = Absent] /\ Absent \in Process
  BY DEF Kill, Absent, Process
<1>2. boots' \in [Pids -> Process] /\ \A j \in Pids : boots'[j] = IF j = i THEN Absent ELSE boots[j]
  BY <1>1 DEF ConfigTypeOK
<1>3. /\ daemon' \in {"off", "loaded", "on"}
      /\ dpid' \in Pids \cup {NoPid} /\ (daemon' = "off" <=> dpid' = NoPid)
      /\ hup' \in BOOLEAN /\ reload' \in {reload, {}} /\ table' \in {table, {}}
      /\ acceptor' \in {acceptor, {}}
      /\ hup' \/ reload' # {} => daemon' = "on"
      /\ dpid' = IF dpid = i THEN NoPid ELSE dpid
  BY DEF Kill, ConfigTypeOK
<1>4. HaveRead' = HaveRead \ {i}
  BY <1>2, <1>3, PidsType DEF HaveRead, Absent
<1>5. untold' = HaveRead \ {i}
  BY DEF Kill, ConfigTypeOK
<1>6. dpid' \in Pids => boots'[dpid'].at = "none"
  BY <1>2, <1>3, PidsType DEF ConfigTypeOK, Absent
<1> QED
  BY <1>2, <1>3, <1>4, <1>5, <1>6

LEMMA TellType ==
  ASSUME ConfigTypeOK, NEW p \in Clis, TellStep(p) \/ Interrupt(p)
  PROVE  ConfigTypeOK'
<1>1. cli' \in [Clis -> Command]
  BY Later, CommandType
<1>2. UNCHANGED <<file, certVars>>
  BY DEF TellStep, FindDaemon, NoDaemon, Hangup, Stop, Unlink, Spawn, Track, Interrupt
<1>3. ASSUME UNCHANGED daemonVars, untold' = untold \/ Missed(NoPid) \/ Missed(pid)
      PROVE  HaveRead' = HaveRead /\ untold' \in SUBSET HaveRead'
  BY <1>3 DEF HaveRead, Missed, ConfigTypeOK
<1>4. CASE FindDaemon(p) \/ NoDaemon(p) \/ Interrupt(p)
  <2>1. UNCHANGED <<pid, daemonVars>> /\ (untold' = untold \/ Missed(NoPid))
    BY <1>4 DEF FindDaemon, NoDaemon, Interrupt
  <2> QED
    BY <1>1, <1>2, <1>3, <2>1 DEF ConfigTypeOK
<1>5. CASE Hangup(p) \/ Stop(p)
  <2>1. pid' = pid
    BY <1>5 DEF Hangup, Stop
  <2>2. CASE UNCHANGED daemonVars /\ Missed(NoPid)
    BY <1>1, <1>2, <1>3, <2>1, <2>2 DEF ConfigTypeOK
  <2>3. CASE daemon = "on" /\ hup' = TRUE /\ Missed(pid)
             /\ UNCHANGED <<boots, daemon, dpid, reload, table, acceptor>>
    <3>1. untold' \in SUBSET HaveRead'
      BY <2>3 DEF HaveRead, Missed, ConfigTypeOK
    <3> QED
      BY <1>1, <1>2, <2>1, <2>3, <3>1 DEF ConfigTypeOK
  <2>4. CASE Found /\ Kill(pid)
    <3>1. pid \in Pids
      BY <2>4 DEF Found
    <3>2. reload' \in SUBSET SUBSET Route /\ table' \in SUBSET Route /\ acceptor' \in SUBSET Sans
      BY <2>4, <3>1, KillType DEF ConfigTypeOK
    <3> QED
      BY <1>1, <1>2, <2>1, <2>4, <3>1, <3>2, KillType DEF ConfigTypeOK
  <2> QED
    BY <1>5, <2>2, <2>3, <2>4 DEF Hangup, Stop
<1>6. CASE Unlink(p) \/ Track(p)
  <2>1. UNCHANGED <<daemonVars, untold>>
    BY <1>6 DEF Unlink, Track
  <2>2. pid' \in Pids \cup {NoPid}
    BY <1>6 DEF Unlink, Track, ConfigTypeOK, Command
  <2> QED
    BY <1>1, <1>2, <2>1, <2>2 DEF ConfigTypeOK, HaveRead
<1>7. CASE Spawn(p)
  <2>1. PICK i \in Pids : ~Exists(i) /\ boots' = [boots EXCEPT ![i].at = "started"]
    BY <1>7 DEF Spawn
  <2>2. boots' \in [Pids -> Process]
    <3> DEFINE b == [boots[i] EXCEPT !.at = "started"]
    <3>1. boots \in [Pids -> Process] /\ boots[i] \in Process
      BY DEF ConfigTypeOK
    <3>2. b \in Process
      BY <3>1 DEF Process
    <3>3. boots' = [boots EXCEPT ![i] = b]
      BY <2>1
    <3> QED
      BY <3>1, <3>2, <3>3
  <2>3. UNCHANGED <<pid, daemon, dpid, hup, reload, table, acceptor, untold>>
    BY <1>7 DEF Spawn
  <2>4. HaveRead' = HaveRead
    BY <2>1, <2>3 DEF HaveRead, Exists, ConfigTypeOK
  <2>5. untold' \in SUBSET HaveRead'
    BY <2>3, <2>4 DEF ConfigTypeOK
  <2>6. dpid' \in Pids => boots'[dpid'].at = "none"
    BY <2>1, <2>3 DEF Exists, ConfigTypeOK
  <2> QED
    BY <1>1, <1>2, <2>2, <2>3, <2>5, <2>6 DEF ConfigTypeOK
<1> QED
  BY <1>4, <1>5, <1>6, <1>7 DEF TellStep

LEMMA DaemonType ==
  ASSUME ConfigTypeOK, DaemonStep
  PROVE  ConfigTypeOK'
<1>1. ASSUME NEW i \in Pids, ReadFiles(i) PROVE ConfigTypeOK'
  <2> DEFINE b == IF Readable /\ made
                  THEN [at |-> "read", routes |-> file.routes, sans |-> sans] ELSE Absent
  <2>1. b \in Process
    BY DEF ConfigTypeOK, Process, Absent
  <2>2. boots' = [boots EXCEPT ![i] = b]
    BY <1>1 DEF ReadFiles
  <2> HIDE DEF b
  <2>3. boots' \in [Pids -> Process]
    BY <2>1, <2>2 DEF ConfigTypeOK
  <2>4. UNCHANGED <<dpid, untold>> /\ boots[i].at = "started"
    BY <1>1 DEF ReadFiles
  <2>5. untold \subseteq HaveRead'
    BY <2>2, <2>4 DEF HaveRead, ConfigTypeOK
  <2>6. dpid' \in Pids => boots'[dpid'].at = "none"
    BY <2>2, <2>4 DEF ConfigTypeOK
  <2> QED
    BY <1>1, <2>3, <2>4, <2>5, <2>6 DEF ReadFiles, ConfigTypeOK
<1>2. ASSUME NEW i \in Pids, Bind(i) PROVE ConfigTypeOK'
  <2>1. boots' = [boots EXCEPT ![i] = Absent] /\ Absent \in Process /\ boots[i] \in Process
    BY <1>2 DEF Bind, Absent, Process, ConfigTypeOK
  <2>2. boots' \in [Pids -> Process] /\ \A j \in Pids \ {i} : boots'[j] = boots[j]
    BY <2>1 DEF ConfigTypeOK
  <2>3. dpid' = (IF dpid = NoPid THEN i ELSE dpid)
        /\ untold' = (IF dpid = NoPid THEN untold ELSE untold \ {i})
    BY <1>2 DEF Bind
  <2>4. untold' \subseteq HaveRead'
    BY <2>2, <2>3, PidsType DEF HaveRead, ConfigTypeOK
  <2>5. UNCHANGED <<file, cli, certVars, pid, hup, reload>>
    BY <1>2 DEF Bind
  <2>6. boots[i].routes \in SUBSET Route /\ boots[i].sans \in SUBSET Sans
    BY <2>1 DEF Process
  <2>7. /\ dpid = NoPid => daemon' = "loaded" /\ table' = boots[i].routes /\ acceptor' = boots[i].sans
        /\ dpid # NoPid => UNCHANGED <<daemon, table, acceptor>>
    BY <1>2 DEF Bind
  <2>8. /\ daemon' \in {"off", "loaded", "on"} /\ dpid' \in Pids \cup {NoPid}
        /\ (daemon' = "off" <=> dpid' = NoPid)
        /\ table' \in SUBSET Route /\ acceptor' \in SUBSET Sans
        /\ hup \/ reload # {} => daemon' = "on"
    BY <2>3, <2>6, <2>7, PidsType DEF ConfigTypeOK
  <2>9. untold' \in SUBSET HaveRead'
    BY <2>4
  <2>10. dpid' \in Pids => boots'[dpid'].at = "none"
    BY <2>1, <2>2, <2>3 DEF ConfigTypeOK, Absent
  <2> QED
    BY <2>2, <2>5, <2>8, <2>9, <2>10 DEF ConfigTypeOK
<1>3. CASE HandlerReady
  BY <1>3 DEF HandlerReady, ConfigTypeOK, HaveRead
<1>4. CASE ReloadRead
  BY <1>4 DEF ReloadRead, ConfigTypeOK, HaveRead
<1>5. CASE ReloadWrite
  BY <1>5 DEF ReloadWrite, ConfigTypeOK, HaveRead
<1> QED
  BY <1>1, <1>2, <1>3, <1>4, <1>5 DEF DaemonStep, BootStep

LEMMA NextType == ConfigTypeOK /\ [ConfigNext]_configVars => ConfigTypeOK'
<1>1. ConfigTypeOK /\ UNCHANGED configVars => ConfigTypeOK'
  BY DEF configVars, ConfigTypeOK, HaveRead
<1> QED
  BY <1>1, BeginType, LoadType, CertType, SaveType, TellType, DaemonType
     DEF ConfigNext, CliStep

(* The commands, the file, the certificate, the processes and the daemon    *)
(* have their types; in particular a signal waits, and a reload is under    *)
(* way, only while the daemon runs.                                         *)
THEOREM ConfigTypeCorrect == ConfigSpec => []ConfigTypeOK
BY InitType, NextType, PTL DEF ConfigSpec
-----------------------------------------------------------------------------
(* What discover_routes finds may name a domain twice, where two containers *)
(* carry the same label; the rest of the argument is about requests that do *)
(* not.                                                                     *)
SingleRequests == \A req \in Requests : Unambiguous(req.new)

(* Every place a table passes through, from the request to the daemon.      *)
CleanTables ==
  /\ Unambiguous(file.routes) /\ Unambiguous(table)
  /\ \A p \in Clis : Unambiguous(cli[p].req.new) /\ Unambiguous(cli[p].cfg)
  /\ \A i \in Pids : Unambiguous(boots[i].routes)
  /\ \A routes \in reload : Unambiguous(routes)

LEMMA EmptyTable == Unambiguous({})
BY DEF Unambiguous

LEMMA InitClean == ConfigInit => CleanTables
<1> SUFFICES ASSUME ConfigInit PROVE CleanTables
  OBVIOUS
<1>1. file.routes = {} /\ table = {} /\ reload = {}
  BY DEF ConfigInit, Whole
<1>2. ASSUME NEW p \in Clis PROVE cli[p].req.new = {} /\ cli[p].cfg = {}
  BY <1>2 DEF ConfigInit, Idle, NoRequest
<1>3. ASSUME NEW i \in Pids PROVE boots[i].routes = {}
  BY <1>3 DEF ConfigInit, Absent
<1> QED
  BY <1>1, <1>2, <1>3, EmptyTable DEF CleanTables

(* After its load, a command adds no routes: each place holds a table that  *)
(* another place held, or none.                                             *)
LEMMA TablesPassOn ==
  ASSUME ConfigTypeOK, NEW p \in Clis, CertStep(p) \/ Save(p) \/ TellStep(p) \/ Interrupt(p)
  PROVE  /\ file'.routes \in {file.routes, cli[p].cfg, {}}
         /\ table' \in {table, {}} /\ reload' \in {reload, {}}
         /\ \A q \in Clis : /\ cli'[q].req.new \in {cli[q].req.new, {}}
                            /\ cli'[q].cfg \in {cli[q].cfg, {}}
         /\ \A i \in Pids : boots'[i].routes \in {boots[i].routes, {}}
<1>1. file'.routes \in {file.routes, cli[p].cfg, {}}
  <2>1. file' \in {file, Truncated, Overlaid, Whole(cli[p].cfg)}
    BY DEF CertStep, CheckCert, WritePem, Record, Save, Truncate, WriteText, TellStep, FindDaemon,
       NoDaemon, Hangup, Stop, Unlink, Spawn, Track, Interrupt
  <2> QED
    BY <2>1 DEF Truncated, Overlaid, Whole
<1>2. /\ table' \in {table, {}} /\ reload' \in {reload, {}}
      /\ \/ boots' = boots
         \/ \E i \in Pids : boots' = [boots EXCEPT ![i] = Absent]
         \/ \E i \in Pids : boots' = [boots EXCEPT ![i].at = "started"]
  <2>1. CASE CertStep(p)
    BY <2>1 DEF CertStep, CheckCert, WritePem, Record
  <2>2. CASE Save(p)
    BY <2>2 DEF Save, Truncate, WriteText
  <2>3. CASE TellStep(p) \/ Interrupt(p)
    <3>1. \/ UNCHANGED daemonVars
          \/ Found /\ Kill(pid)
          \/ /\ boots' = boots \/ \E i \in Pids : boots' = [boots EXCEPT ![i].at = "started"]
             /\ UNCHANGED <<reload, table>>
      BY <2>3 DEF TellStep, FindDaemon, NoDaemon, Hangup, Stop, Unlink, Spawn, Track, Interrupt
    <3> QED
      BY <3>1 DEF Kill, Found
  <2> QED
    BY <2>1, <2>2, <2>3
<1>3. ASSUME NEW i \in Pids PROVE boots'[i].routes \in {boots[i].routes, {}}
  BY <1>2 DEF Absent, ConfigTypeOK, Process
<1>4. ASSUME NEW q \in Clis
      PROVE  cli'[q].req.new \in {cli[q].req.new, {}} /\ cli'[q].cfg \in {cli[q].cfg, {}}
  <2>1. \E c \in Command : /\ Become(p, c)
                          /\ c.req.new \in {cli[p].req.new, {}} /\ c.cfg \in {cli[p].cfg, {}}
    <3>1. CASE WriteText(p)
      <4> DEFINE c == AfterWrite(cli[p])
      <4>1. Become(p, c)
        BY <3>1 DEF WriteText
      <4>2. c.req.new = {} /\ c.cfg \in {cli[p].cfg, {}}
        BY DEF AfterWrite, Telling, Idle, NoRequest
      <4>3. c = cli'[p] /\ cli' \in [Clis -> Command]
        BY <3>1, <4>1, SaveType DEF Become, Save, ConfigTypeOK
      <4> QED
        BY <4>1, <4>2, <4>3
    <3> QED
      BY <3>1, Later DEF Save, Follows
  <2>2. PICK c \in Command : /\ Become(p, c)
                           /\ c.req.new \in {cli[p].req.new, {}} /\ c.cfg \in {cli[p].cfg, {}}
    BY <2>1
  <2>3. cli'[q] = IF q = p THEN c ELSE cli[q]
    BY <2>2 DEF Become, ConfigTypeOK
  <2> QED
    BY <2>2, <2>3
<1> QED
  BY <1>1, <1>2, <1>3, <1>4

LEMMA LoadReads ==
  ASSUME ConfigTypeOK, NEW p \in Clis, Load(p)
  PROVE  /\ UNCHANGED <<file, table, reload, boots>>
         /\ \A q \in Clis : /\ cli'[q].req.new \in {cli[q].req.new, {}}
                            /\ cli'[q].cfg \in {cli[q].cfg, {}, Apply(cli[p].req, file.routes)}
<1> DEFINE new == Apply(cli[p].req, file.routes)
           r == [cli[p] EXCEPT !.base = file.routes, !.cfg = new,
                   !.pc = IF cli[p].req.op = "sync" THEN "cert" ELSE "save"]
<1>1. Become(p, Idle) \/ Become(p, r)
  BY DEF Load, Finish
<1>2. r.req = cli[p].req /\ r.cfg = new
  BY DEF ConfigTypeOK, Command
<1> HIDE DEF new, r
<1>3. PICK c \in {Idle, r} : \A q \in Clis : cli'[q] = IF q = p THEN c ELSE cli[q]
  BY <1>1 DEF Become, ConfigTypeOK
<1>4. Idle.req.new = {} /\ Idle.cfg = {}
  BY DEF Idle, NoRequest
<1>5. UNCHANGED <<file, table, reload, boots>>
  BY DEF Load
<1> QED
  BY <1>2, <1>3, <1>4, <1>5 DEF new

LEMMA CliClean ==
  ASSUME ConfigTypeOK, CleanTables, NEW p \in Clis, CliStep(p) \/ Interrupt(p)
  PROVE  CleanTables'
<1>1. CASE Load(p)
  <2>1. Unambiguous(Apply(cli[p].req, file.routes))
    BY ApplyTable DEF CleanTables, Command, ConfigTypeOK
  <2>2. \A q \in Clis : Unambiguous(cli'[q].req.new) /\ Unambiguous(cli'[q].cfg)
    BY <1>1, <2>1, LoadReads, EmptyTable DEF CleanTables
  <2> QED
    BY <1>1, <2>2, LoadReads DEF CleanTables
<1>2. CASE CertStep(p) \/ Save(p) \/ TellStep(p) \/ Interrupt(p)
  <2>1. /\ Unambiguous(file'.routes) /\ Unambiguous(table')
        /\ \A routes \in reload' : Unambiguous(routes)
    BY <1>2, TablesPassOn, EmptyTable DEF CleanTables
  <2>2. \A q \in Clis : Unambiguous(cli'[q].req.new) /\ Unambiguous(cli'[q].cfg)
    BY <1>2, TablesPassOn, EmptyTable DEF CleanTables
  <2>3. \A i \in Pids : Unambiguous(boots'[i].routes)
    BY <1>2, TablesPassOn, EmptyTable DEF CleanTables
  <2> QED
    BY <2>1, <2>2, <2>3 DEF CleanTables
<1> QED
  BY <1>1, <1>2 DEF CliStep

LEMMA BootRoutes ==
  ASSUME ConfigTypeOK, NEW i \in Pids, BootStep(i)
  PROVE  /\ table' \in {table, boots[i].routes} /\ UNCHANGED <<file, cli, reload>>
         /\ \A j \in Pids : boots'[j].routes \in {boots[j].routes, file.routes, {}}
<1>1. table' \in {table, boots[i].routes} /\ UNCHANGED <<file, cli, reload>>
  BY DEF BootStep, ReadFiles, Bind
<1>2. PICK b \in {Absent, [at |-> "read", routes |-> file.routes, sans |-> sans]} :
        boots' = [boots EXCEPT ![i] = b]
  BY DEF BootStep, ReadFiles, Bind
<1>3. b.routes \in {file.routes, {}}
  BY DEF Absent
<1>4. \A j \in Pids : boots'[j] = IF j = i THEN b ELSE boots[j]
  BY <1>2 DEF ConfigTypeOK
<1> QED
  BY <1>1, <1>3, <1>4

LEMMA NextClean ==
  ASSUME SingleRequests
  PROVE  ConfigTypeOK /\ CleanTables /\ [ConfigNext]_configVars => CleanTables'
<1>1. ASSUME ConfigTypeOK, CleanTables, NEW p \in Clis, NEW req \in Requests, Begin(p, req)
      PROVE  CleanTables'
  <2>1. \A q \in Clis : Unambiguous(cli'[q].req.new) /\ Unambiguous(cli'[q].cfg)
    BY <1>1, EmptyTable DEF Begin, Become, CleanTables, ConfigTypeOK, Idle, SingleRequests
  <2> QED
    BY <1>1, <2>1 DEF Begin, CleanTables
<1>2. ASSUME ConfigTypeOK, CleanTables, DaemonStep PROVE CleanTables'
  <2>1. ASSUME NEW i \in Pids, BootStep(i) PROVE CleanTables'
    <3>1. \A j \in Pids : Unambiguous(boots'[j].routes)
      BY <1>2, <2>1, BootRoutes, EmptyTable DEF CleanTables
    <3> QED
      BY <1>2, <2>1, <3>1, BootRoutes DEF CleanTables
  <2>2. CASE HandlerReady \/ ReloadRead \/ ReloadWrite
    BY <1>2, <2>2 DEF HandlerReady, ReloadRead, ReloadWrite, CleanTables
  <2> QED
    BY <1>2, <2>1, <2>2 DEF DaemonStep
<1>3. CleanTables /\ UNCHANGED configVars => CleanTables'
  BY DEF configVars, CleanTables
<1> QED
  BY <1>1, <1>2, <1>3, CliClean DEF ConfigNext

(* Any number of commands, interrupted anywhere, over a file that may be    *)
(* truncated or overlaid when it is read: neither the file nor the daemon's *)
(* table ever has two routes of one domain, if no request has (retain and   *)
(* extend in routes.rs, the whole table assigned in server.rs).             *)
THEOREM TablesUnambiguous ==
  ASSUME SingleRequests
  PROVE  ConfigSpec => []OneRoutePerDomain
<1>1. CleanTables => OneRoutePerDomain
  BY DEF CleanTables, OneRoutePerDomain
<1> QED
  BY <1>1, InitType, NextType, InitClean, NextClean, PTL DEF ConfigSpec
-----------------------------------------------------------------------------
(* A command that made a certificate owes the daemon a restart until it has *)
(* stopped it, or failed to find it.                                        *)
Debt(p) ==
  \/ cli[p].pc = "record"
  \/ cli[p].changed /\ cli[p].pc \in {"save", "write", "signal", "stop"}
Names(i) == IF dpid = i THEN acceptor ELSE boots[i].sans
RestartOwed ==
  /\ \A p \in Clis : cli[p].changed =>
       /\ cli[p].pc \in {"save", "write", "signal", "stop"}
       /\ cli[p].pc \in {"save", "write"} => cli[p].req.op = "sync"
  /\ \A i \in HaveRead \ untold : Names(i) = sans \/ \E p \in Clis : Debt(p)

LEMMA InitOwed == ConfigInit => RestartOwed
BY PidsType DEF ConfigInit, RestartOwed, Idle, HaveRead, Absent

(* A command goes on: what its new record must be, if the certificate and   *)
(* the processes are left alone, or nobody is left who was told everything. *)
LEMMA DebtKept ==
  ASSUME ConfigTypeOK, RestartOwed, NEW p \in Clis, NEW c \in Command, Become(p, c),
         c.changed => /\ c.pc \in {"save", "write", "signal", "stop"}
                      /\ c.pc \in {"save", "write"} => c.req.op = "sync",
         \/ untold' = HaveRead'
         \/ c.pc = "record"
         \/ c.changed
         \/ /\ ~Debt(p) /\ UNCHANGED <<sans, boots, dpid, acceptor>>
            /\ untold \cap HaveRead \subseteq untold'
  PROVE  RestartOwed'
<1>1. cli' = [cli EXCEPT ![p] = c] /\ cli \in [Clis -> Command]
  BY DEF Become, ConfigTypeOK
<1>2. \A q \in Clis : cli'[q] = IF q = p THEN c ELSE cli[q]
  BY <1>1
<1>3. \A q \in Clis : cli'[q].changed =>
        /\ cli'[q].pc \in {"save", "write", "signal", "stop"}
        /\ cli'[q].pc \in {"save", "write"} => cli'[q].req.op = "sync"
  BY <1>2 DEF RestartOwed
<1>4. CASE c.pc = "record" \/ c.changed
  <2>1. Debt(p)'
    BY <1>2, <1>4 DEF Debt
  <2> QED
    BY <1>3, <2>1 DEF RestartOwed
<1>5. CASE untold' = HaveRead'
  BY <1>3, <1>5 DEF RestartOwed
<1>6. CASE /\ ~Debt(p) /\ UNCHANGED <<sans, boots, dpid, acceptor>>
           /\ untold \cap HaveRead \subseteq untold'
  <2>1. HaveRead' = HaveRead /\ \A i : Names(i)' = Names(i)
    BY <1>6 DEF HaveRead, Names
  <2>2. \A q \in Clis : Debt(q) => Debt(q)'
    BY <1>2, <1>6 DEF Debt
  <2> QED
    BY <1>3, <1>6, <2>1, <2>2 DEF RestartOwed
<1> QED
  BY <1>4, <1>5, <1>6

(* Who tells nobody leaves nobody told.                                     *)
LEMMA MissedAll ==
  ASSUME ConfigTypeOK, Missed(NoPid), HaveRead' = HaveRead
  PROVE  untold' = HaveRead'
BY PidsType DEF ConfigTypeOK, Missed, HaveRead

LEMMA CliOwed ==
  ASSUME ConfigTypeOK, RestartOwed, NEW p \in Clis, CliStep(p) \/ Interrupt(p)
  PROVE  RestartOwed'
<1>1. cli[p] \in Command /\ cli[p].changed \in BOOLEAN
  BY DEF ConfigTypeOK, Command
<1>2. /\ cli[p].changed => cli[p].pc \in {"save", "write", "signal", "stop"}
      /\ cli[p].pc \in {"save", "write"} /\ cli[p].changed => cli[p].req.op = "sync"
  BY DEF RestartOwed
<1>3. ConfigTypeOK'
  BY NextType DEF ConfigNext
<1>4. cli'[p] \in Command
  BY <1>3 DEF ConfigTypeOK
<1>5. ASSUME NEW c, Become(p, c) PROVE c = cli'[p] /\ c \in Command
  BY <1>4, <1>5 DEF Become, ConfigTypeOK
<1> DEFINE Owing(c) ==
      c.changed => /\ c.pc \in {"save", "write", "signal", "stop"}
                   /\ c.pc \in {"save", "write"} => c.req.op = "sync"
<1>6. Owing(Idle)
  BY DEF Idle
<1>7. ASSUME NEW op, NEW step, NEW changed, changed => step \in {"signal", "stop"}
      PROVE  Owing(Telling(op, step, changed)) /\ Telling(op, step, changed).changed = changed
  BY <1>7 DEF Telling, Idle, NoRequest
<1>8. ASSUME ~Debt(p), NEW c, Become(p, c), Owing(c),
             UNCHANGED <<sans, boots, dpid, acceptor, untold>>
      PROVE  RestartOwed'
  BY <1>5, <1>8, DebtKept
<1>9. ASSUME NEW c, Become(p, c), Owing(c), untold' = HaveRead'
      PROVE  RestartOwed'
  BY <1>5, <1>9, DebtKept
<1>10. ASSUME NEW c, Become(p, c), Owing(c), Missed(NoPid), UNCHANGED <<boots, dpid>>
       PROVE  RestartOwed'
  <2>1. untold' = HaveRead'
    BY <1>10, MissedAll DEF HaveRead
  <2> QED
    BY <1>9, <1>10, <2>1
<1>11. ASSUME NEW c, Become(p, c), Owing(c), NEW i \in Pids, Kill(i)
       PROVE  RestartOwed'
  <2>1. untold' = HaveRead'
    BY <1>11, KillType
  <2> QED
    BY <1>9, <1>11, <2>1
<1>22. ASSUME NEW changed \in BOOLEAN
       PROVE  AfterCert(cli[p], changed).changed = changed /\ Owing(AfterCert(cli[p], changed))
  <2>1. CASE cli[p].req.op = "sync"
    <3>1. AfterCert(cli[p], changed) = [cli[p] EXCEPT !.pc = "save", !.changed = changed]
      BY <2>1 DEF AfterCert
    <3> QED
      BY <1>1, <2>1, <3>1 DEF Command
  <2>2. CASE cli[p].req.op # "sync"
    <3>1. AfterCert(cli[p], changed) = Telling(cli[p].req.op, "signal", changed)
      BY <2>2 DEF AfterCert
    <3> QED
      BY <1>7, <3>1
  <2> QED
    BY <2>1, <2>2
<1>12. CASE Load(p)
  <2>1. cli[p].pc = "load" /\ ~Debt(p) /\ UNCHANGED <<sans, boots, dpid, acceptor, untold>>
    BY <1>2, <1>12 DEF Load, Reached, Debt
  <2> DEFINE r == [cli[p] EXCEPT !.base = file.routes, !.cfg = Apply(cli[p].req, file.routes),
                     !.pc = IF cli[p].req.op = "sync" THEN "cert" ELSE "save"]
  <2>2. Become(p, Idle) \/ Become(p, r)
    BY <1>12 DEF Load, Finish
  <2>3. r.changed = FALSE
    BY <1>1, <1>2, <2>1 DEF Command
  <2> QED
    BY <1>6, <1>8, <2>1, <2>2, <2>3
<1>13. CASE CertStep(p)
  <2>1. UNCHANGED <<boots, dpid, acceptor>>
    BY <1>13 DEF CertStep, CheckCert, WritePem, Record
  <2>2. CASE CheckCert(p)
    <3>1. cli[p].pc = "cert" /\ ~Debt(p) /\ UNCHANGED <<sans, untold>>
      BY <1>2, <2>2 DEF CheckCert, Reached, Debt
    <3>2. Become(p, AfterCert(cli[p], FALSE)) \/ Become(p, [cli[p] EXCEPT !.pc = "pem"])
      BY <2>2 DEF CheckCert, Goto
    <3>4. [cli[p] EXCEPT !.pc = "pem"].changed = FALSE
      BY <1>1, <1>2, <3>1 DEF Command
    <3> QED
      BY <1>8, <1>22, <2>1, <3>1, <3>2, <3>4
  <2>3. CASE WritePem(p)
    <3> DEFINE c == [cli[p] EXCEPT !.pc = "record"]
    <3>1. Become(p, c) /\ cli[p].pc = "pem"
      BY <2>3 DEF WritePem, Goto, Reached
    <3>2. c.changed = FALSE /\ c.pc = "record"
      BY <1>1, <1>2, <3>1 DEF Command
    <3> HIDE DEF c
    <3> QED
      BY <1>5, <3>1, <3>2, DebtKept
  <2>4. CASE Record(p)
    <3>1. ASSUME Become(p, AfterCert(cli[p], TRUE)) PROVE RestartOwed'
      <4> DEFINE c == AfterCert(cli[p], TRUE)
      <4>1. c.changed = TRUE /\ Owing(c)
        BY <1>22
      <4> HIDE DEF c
      <4> QED
        BY <1>5, <3>1, <4>1, DebtKept DEF c
    <3>2. ASSUME Become(p, AfterCert(cli[p], FALSE)), untold' = HaveRead PROVE RestartOwed'
      <4>1. Owing(AfterCert(cli[p], FALSE))
        BY <1>22
      <4>2. untold' = HaveRead'
        BY <2>1, <3>2 DEF HaveRead
      <4> QED
        BY <1>9, <3>2, <4>1, <4>2
    <3> QED
      BY <2>4, <3>1, <3>2 DEF Record
  <2> QED
    BY <1>13, <2>2, <2>3, <2>4 DEF CertStep
<1>14. CASE Save(p)
  <2>1. UNCHANGED <<sans, boots, dpid, acceptor, untold>> /\ cli[p].pc \in {"save", "write"}
    BY <1>14 DEF Save, Truncate, WriteText, Reached
  <2>2. \E c \in Command : Become(p, c) /\ Owing(c) /\ (~cli[p].changed \/ c.changed)
    <3>1. CASE Truncate(p)
      <4> DEFINE c == [cli[p] EXCEPT !.pc = "write"]
      <4>1. c \in Command /\ c.changed = cli[p].changed /\ c.pc = "write" /\ c.req = cli[p].req
        BY <1>1 DEF Command, Steps
      <4>2. Become(p, c)
        BY <3>1 DEF Truncate, Goto
      <4>3. Owing(c)
        BY <1>2, <2>1, <4>1
      <4> QED
        BY <4>1, <4>2, <4>3
    <3>2. CASE WriteText(p)
      <4> DEFINE c == AfterWrite(cli[p])
      <4>1. Become(p, c)
        BY <3>2 DEF WriteText
      <4>2. cli[p].changed => cli[p].req.op = "sync"
        BY <1>2, <2>1
      <4>3. Telling("sync", "signal", cli[p].changed).changed = cli[p].changed
            /\ Owing(Telling("sync", "signal", cli[p].changed))
        BY <1>7
      <4>4. Telling("none", "hup", FALSE).changed = FALSE
            /\ [Telling("unsync", "cert", FALSE) EXCEPT !.cfg = cli[p].cfg].changed = FALSE
        BY DEF Telling, Idle, NoRequest
      <4>5. Owing(c) /\ (~cli[p].changed \/ c.changed)
        BY <4>2, <4>3, <4>4 DEF AfterWrite
      <4> HIDE DEF c
      <4> QED
        BY <1>5, <4>1, <4>5
    <3> QED
      BY <1>14, <3>1, <3>2 DEF Save
  <2>3. PICK c \in Command : Become(p, c) /\ Owing(c) /\ (~cli[p].changed \/ c.changed)
    BY <2>2
  <2>4. CASE c.changed
    BY <2>3, <2>4, DebtKept
  <2>5. CASE ~c.changed
    <3>1. ~Debt(p)
      BY <2>1, <2>3, <2>5 DEF Debt
    <3> QED
      BY <1>8, <2>1, <2>3, <3>1
  <2> QED
    BY <2>4, <2>5
<1>15. CASE FindDaemon(p)
  <2> DEFINE c == Telling("none", IF cli[p].changed THEN "stop" ELSE "hup", cli[p].changed)
  <2>1. Become(p, c) /\ UNCHANGED <<sans, boots, dpid, acceptor, untold>> /\ cli[p].pc = "signal"
    BY <1>15 DEF FindDaemon, Reached
  <2>2. Owing(c) /\ c.changed = cli[p].changed
    BY <1>7
  <2> HIDE DEF c
  <2>3. CASE c.changed
    BY <1>5, <2>1, <2>2, <2>3, DebtKept
  <2>4. CASE ~c.changed
    <3>1. ~Debt(p)
      BY <2>1, <2>2, <2>4 DEF Debt
    <3> QED
      BY <1>8, <2>1, <2>2, <3>1
  <2> QED
    BY <2>3, <2>4
<1>16. CASE NoDaemon(p)
  <2>1. Missed(NoPid) /\ UNCHANGED <<boots, dpid>>
    BY <1>16 DEF NoDaemon
  <2>2. Become(p, Idle) \/ Become(p, Telling("none", "spawn", FALSE))
    BY <1>16 DEF NoDaemon, Finish
  <2> QED
    BY <1>6, <1>7, <1>10, <2>1, <2>2
<1>17. CASE Hangup(p)
  <2>1. Become(p, Idle) /\ cli[p].pc = "hup" /\ UNCHANGED sans
    BY <1>17 DEF Hangup, Finish, Reached
  <2>2. CASE Missed(NoPid) /\ UNCHANGED daemonVars
    BY <1>6, <1>10, <2>1, <2>2
  <2>3. CASE Missed(pid) /\ UNCHANGED <<boots, daemon, dpid, reload, table, acceptor>>
    <3>1. ~Debt(p) /\ untold \cap HaveRead \subseteq untold'
      BY <1>2, <2>1, <2>3 DEF Debt, Missed
    <3> QED
      BY <1>6, <2>1, <2>3, <3>1, IdleType, DebtKept
  <2>4. CASE Found /\ Kill(pid)
    BY <1>6, <1>11, <2>1, <2>4 DEF Found
  <2> QED
    BY <1>17, <2>2, <2>3, <2>4 DEF Hangup
<1>18. CASE Stop(p)
  <2>1. \/ Become(p, Telling("none", "spawn", FALSE)) /\ Missed(NoPid) /\ UNCHANGED daemonVars
        \/ Become(p, Telling("none", "unlink", FALSE)) /\ Found /\ Kill(pid)
    BY <1>18 DEF Stop
  <2> QED
    BY <1>7, <1>10, <1>11, <2>1 DEF Found
<1>19. CASE Unlink(p) \/ Track(p)
  <2>1. Become(p, Idle) \/ Become(p, [cli[p] EXCEPT !.pc = "spawn"])
    BY <1>19 DEF Unlink, Track, Finish, Goto
  <2>2. cli[p].pc \in {"unlink", "track"} /\ UNCHANGED <<sans, boots, dpid, acceptor, untold>>
    BY <1>19 DEF Unlink, Track, Reached
  <2>3. ~Debt(p) /\ [cli[p] EXCEPT !.pc = "spawn"].changed = FALSE
    BY <1>1, <1>2, <2>2 DEF Debt, Command
  <2> QED
    BY <1>6, <1>8, <2>1, <2>2, <2>3
<1>20. CASE Spawn(p)
  <2>1. PICK i \in Pids : /\ ~Exists(i) /\ boots' = [boots EXCEPT ![i].at = "started"]
                        /\ Become(p, [cli[p] EXCEPT !.child = i, !.pc = "track"])
    BY <1>20 DEF Spawn
  <2>2. cli[p].pc = "spawn" /\ UNCHANGED <<sans, dpid, acceptor, untold>>
    BY <1>20 DEF Spawn, Reached
  <2>3. [cli[p] EXCEPT !.child = i, !.pc = "track"].changed = FALSE
    BY <1>1, <1>2, <2>2 DEF Command
  <2>4. ~Debt(p)
    BY <1>2, <2>2 DEF Debt
  <2>5. HaveRead' = HaveRead /\ \A j \in Pids : Names(j)' = Names(j)
    BY <2>1, <2>2 DEF HaveRead, Exists, Names, ConfigTypeOK, Process
  <2>6. \A q \in Clis : q # p => cli'[q] = cli[q]
    BY <2>1 DEF Become, ConfigTypeOK
  <2>7. cli'[p].changed = FALSE
    BY <1>5, <2>1, <2>3
  <2>8. \A q \in Clis : Debt(q) => Debt(q)'
    BY <2>4, <2>6 DEF Debt
  <2> QED
    BY <2>2, <2>5, <2>6, <2>7, <2>8 DEF RestartOwed, HaveRead
<1>21. CASE Interrupt(p)
  <2>1. Become(p, Idle) /\ UNCHANGED <<sans, boots, dpid, acceptor>>
    BY <1>21 DEF Interrupt, Finish
  <2>2. CASE Owes(cli[p])
    BY <1>6, <1>10, <1>21, <2>1, <2>2 DEF Interrupt
  <2>3. CASE ~Owes(cli[p])
    <3>1. ~Debt(p) /\ untold' = untold
      BY <1>21, <2>3 DEF Debt, Owes, Interrupt
    <3> QED
      BY <1>6, <1>8, <2>1, <3>1
  <2> QED
    BY <2>2, <2>3
<1> QED
  BY <1>12, <1>13, <1>14, <1>15, <1>16, <1>17, <1>18, <1>19, <1>20, <1>21 DEF CliStep, TellStep

LEMMA NextOwed == ConfigTypeOK /\ RestartOwed /\ [ConfigNext]_configVars => RestartOwed'
<1>1. ASSUME ConfigTypeOK, RestartOwed, NEW p \in Clis, NEW req \in Requests, Begin(p, req)
      PROVE  RestartOwed'
  <2> DEFINE c == [Idle EXCEPT !.pc = "load", !.req = req]
  <2>1. Become(p, c) /\ cli[p].pc = "idle" /\ UNCHANGED <<sans, boots, dpid, acceptor, untold>>
    BY <1>1 DEF Begin, Reached
  <2>2. c \in Command /\ c.changed = FALSE
    BY RequestsType DEF Idle, NoRequest, Command, Steps, Commands
  <2>3. ~Debt(p)
    BY <1>1, <2>1 DEF RestartOwed, Debt
  <2> QED
    BY <1>1, <2>1, <2>2, <2>3, DebtKept
<1>2. ASSUME ConfigTypeOK, RestartOwed, DaemonStep PROVE RestartOwed'
  <2>1. UNCHANGED <<cli, sans>> /\ \A p \in Clis : Debt(p)' = Debt(p)
    BY <1>2 DEF DaemonStep, BootStep, ReadFiles, Bind, HandlerReady, ReloadRead, ReloadWrite, Debt
  <2>2. \A i \in HaveRead' \ untold' :
          Names(i)' = sans \/ (i \in HaveRead \ untold /\ Names(i)' = Names(i))
    <3>1. ASSUME NEW j \in Pids, ReadFiles(j), NEW i \in HaveRead' \ untold'
          PROVE  Names(i)' = sans \/ (i \in HaveRead \ untold /\ Names(i)' = Names(i))
      BY <1>2, <3>1 DEF ReadFiles, HaveRead, Names, ConfigTypeOK, Absent
    <3>2. ASSUME NEW j \in Pids, Bind(j), NEW i \in HaveRead' \ untold'
          PROVE  i \in HaveRead \ untold /\ Names(i)' = Names(i)
      <4>1. boots \in [Pids -> Process] /\ dpid \in Pids \cup {NoPid} /\ boots[j].at = "read"
            /\ boots' = [boots EXCEPT ![j] = Absent] /\ i \in Pids
        BY <1>2, <3>2 DEF ConfigTypeOK, Bind, HaveRead
      <4>2. \A k \in Pids : boots'[k] = IF k = j THEN Absent ELSE boots[k]
        BY <4>1
      <4>3. CASE dpid = NoPid
        <5>1. dpid' = j /\ acceptor' = boots[j].sans /\ untold' = untold
          BY <3>2, <4>3 DEF Bind
        <5> QED
          BY <3>2, <4>1, <4>2, <4>3, <5>1, PidsType DEF HaveRead, Names, Absent
      <4>4. CASE dpid # NoPid
        <5>1. UNCHANGED <<dpid, acceptor>> /\ untold' = untold \ {j}
          BY <3>2, <4>4 DEF Bind
        <5> QED
          BY <1>2, <3>2, <4>1, <4>2, <4>4, <5>1 DEF HaveRead, Names, Absent, ConfigTypeOK
      <4> QED
        BY <4>3, <4>4
    <3>3. CASE HandlerReady \/ ReloadRead \/ ReloadWrite
      BY <3>3 DEF HandlerReady, ReloadRead, ReloadWrite, HaveRead, Names
    <3> QED
      BY <1>2, <3>1, <3>2, <3>3 DEF DaemonStep, BootStep
  <2> QED
    BY <1>2, <2>1, <2>2 DEF RestartOwed
<1>3. RestartOwed /\ UNCHANGED configVars => RestartOwed'
  BY DEF configVars, RestartOwed, Debt, Names, HaveRead
<1> QED
  BY <1>1, <1>2, <1>3, CliOwed DEF ConfigNext

(* The daemon reads its certificate once (server.rs:23), and commands know  *)
(* it by proxy.pid alone: whatever commands run together and wherever they  *)
(* are interrupted, when all are over a running daemon serves the           *)
(* certificate on disk, unless it is one that a change was never told of.   *)
THEOREM CertificateIsCurrent == ConfigSpec => []CertificateCurrent
<1>1. ConfigTypeOK /\ RestartOwed => CertificateCurrent
  BY PidsType DEF ConfigTypeOK, RestartOwed, Debt, Names, HaveRead, CertificateCurrent, AllIdle, Reached
<1> QED
  BY <1>1, InitType, NextType, InitOwed, NextOwed, PTL DEF ConfigSpec
-----------------------------------------------------------------------------
(* A command that wrote the file owes the daemon a word about it until it   *)
(* has told it, or failed to find it.                                       *)
Telltale(c) ==
  \/ c.pc \in {"signal", "hup", "stop"}
  \/ c.req.op = "unsync" /\ c.pc \in {"cert", "pem", "record"}

(* A process has the routes of the file, or will read them.                 *)
UpToDate(i) ==
  \/ ~Readable
  \/ dpid = i /\ hup
  \/ dpid = i /\ reload \subseteq {file.routes} /\ (reload = {} => table = file.routes)
  \/ dpid # i /\ boots[i].routes = file.routes
WordOwed == \A i \in HaveRead \ untold : UpToDate(i) \/ \E p \in Clis : Telltale(cli[p])

LEMMA InitWord == ConfigInit => WordOwed
BY PidsType DEF ConfigInit, WordOwed, HaveRead, Absent

(* A command goes on: it owes a word afterwards, or it owed none before and *)
(* what processes know is as good as it was, or nobody is left who was told *)
(* everything.                                                              *)
LEMMA WordKept ==
  ASSUME ConfigTypeOK, WordOwed, NEW p \in Clis, NEW c, Become(p, c),
         \/ untold' = HaveRead'
         \/ Telltale(c)
         \/ ~Readable'
         \/ /\ ~Telltale(cli[p])
            /\ HaveRead' = HaveRead /\ untold \cap HaveRead \subseteq untold'
            /\ \A i \in HaveRead \ untold' : UpToDate(i) => UpToDate(i)'
  PROVE  WordOwed'
<1>1. \A q \in Clis : cli'[q] = IF q = p THEN c ELSE cli[q]
  BY DEF Become, ConfigTypeOK
<1>2. CASE untold' = HaveRead'
  BY <1>2 DEF WordOwed
<1>3. CASE Telltale(c)
  BY <1>1, <1>3 DEF WordOwed
<1>4. CASE ~Readable'
  BY <1>4 DEF WordOwed, UpToDate
<1>5. CASE /\ ~Telltale(cli[p])
           /\ HaveRead' = HaveRead /\ untold \cap HaveRead \subseteq untold'
           /\ \A i \in HaveRead \ untold' : UpToDate(i) => UpToDate(i)'
  <2>1. \A q \in Clis : Telltale(cli[q]) => Telltale(cli'[q])
    BY <1>1, <1>5
  <2> QED
    BY <1>5, <2>1 DEF WordOwed
<1> QED
  BY <1>2, <1>3, <1>4, <1>5

LEMMA CliWord ==
  ASSUME ConfigTypeOK, WordOwed, NEW p \in Clis, CliStep(p) \/ Interrupt(p)
  PROVE  WordOwed'
<1>1. cli[p] \in Command /\ cli[p].req \in [op : Commands \cup {"none"}, new : SUBSET Route, gone : SUBSET Domains]
  BY DEF ConfigTypeOK, Command
<1> DEFINE Same == UNCHANGED <<file, boots, dpid, hup, reload, table>>
<1>2. ASSUME ~Telltale(cli[p]), NEW c, Become(p, c), Same, UNCHANGED untold
      PROVE  WordOwed'
  <2>1. HaveRead' = HaveRead /\ \A i : UpToDate(i)' = UpToDate(i)
    BY <1>2 DEF HaveRead, UpToDate, Readable
  <2> QED
    BY <1>2, <2>1, WordKept
<1>3. ASSUME NEW c, Become(p, c), Missed(NoPid), UNCHANGED <<boots, dpid>>
      PROVE  WordOwed'
  <2>1. untold' = HaveRead'
    BY <1>3, MissedAll DEF HaveRead
  <2> QED
    BY <1>3, <2>1, WordKept
<1>4. ASSUME NEW c, Become(p, c), NEW i \in Pids, Kill(i)
      PROVE  WordOwed'
  <2>1. untold' = HaveRead'
    BY <1>4, KillType
  <2> QED
    BY <1>4, <2>1, WordKept
<1>5. ASSUME NEW changed \in BOOLEAN, cli[p].req.op = "unsync" PROVE Telltale(AfterCert(cli[p], changed))
  BY <1>5 DEF AfterCert, Telling, Telltale, Idle, NoRequest
<1>6. CASE Load(p)
  <2>1. cli[p].pc = "load" /\ Same /\ UNCHANGED untold /\ \E c : Become(p, c)
    BY <1>6 DEF Load, Reached, Finish, daemonVars
  <2> QED
    BY <1>2, <2>1 DEF Telltale
<1>7. CASE CertStep(p)
  <2>1. Same /\ cli[p].pc \in {"cert", "pem", "record"}
    BY <1>7 DEF CertStep, CheckCert, WritePem, Record, Reached, daemonVars
  <2>2. \/ untold' = HaveRead /\ Become(p, AfterCert(cli[p], FALSE))
        \/ UNCHANGED untold /\ \E changed \in BOOLEAN : Become(p, AfterCert(cli[p], changed))
        \/ UNCHANGED untold /\ \E step \in {"pem", "record"} : Become(p, [cli[p] EXCEPT !.pc = step])
    BY <1>7 DEF CertStep, CheckCert, WritePem, Record, Goto
  <2>3. CASE untold' = HaveRead /\ Become(p, AfterCert(cli[p], FALSE))
    <3>1. untold' = HaveRead'
      BY <2>1, <2>3 DEF HaveRead
    <3> QED
      BY <2>3, <3>1, WordKept
  <2>4. CASE cli[p].req.op # "unsync"
    <3>1. ~Telltale(cli[p])
      BY <2>1, <2>4 DEF Telltale
    <3> QED
      BY <1>2, <2>1, <2>2, <2>3, <3>1
  <2>5. CASE cli[p].req.op = "unsync"
    <3>1. \A step \in {"pem", "record"} : Telltale([cli[p] EXCEPT !.pc = step])
      BY <1>1, <2>5 DEF Telltale, Command
    <3> QED
      BY <1>5, <2>2, <2>3, <2>5, <3>1, WordKept
  <2> QED
    BY <2>4, <2>5
<1>8. CASE Save(p)
  <2>1. CASE Truncate(p)
    <3>1. ~Readable' /\ \E c : Become(p, c)
      BY <2>1 DEF Truncate, Truncated, Readable, Goto
    <3> QED
      BY <3>1, WordKept
  <2>2. CASE WriteText(p)
    <3>1. Become(p, AfterWrite(cli[p]))
      BY <2>2 DEF WriteText
    <3>2. /\ Telltale(Telling("sync", "signal", cli[p].changed)) /\ Telltale(Telling("none", "hup", FALSE))
          /\ Telltale([Telling("unsync", "cert", FALSE) EXCEPT !.cfg = cli[p].cfg])
      BY DEF Telltale, Telling, Idle, NoRequest
    <3>3. Telltale(AfterWrite(cli[p]))
      BY <3>2 DEF AfterWrite
    <3> QED
      BY <3>1, <3>3, WordKept
  <2> QED
    BY <1>8, <2>1, <2>2 DEF Save
<1>9. CASE FindDaemon(p)
  <2> DEFINE step == IF cli[p].changed THEN "stop" ELSE "hup"
             c == Telling("none", step, cli[p].changed)
  <2>1. Become(p, c)
    BY <1>9 DEF FindDaemon
  <2>2. Telltale(c)
    BY DEF Telltale, Telling, Idle, NoRequest
  <2> HIDE DEF c
  <2> QED
    BY <2>1, <2>2, WordKept
<1>10. CASE NoDaemon(p)
  <2>1. Missed(NoPid) /\ UNCHANGED <<boots, dpid>> /\ \E c : Become(p, c)
    BY <1>10 DEF NoDaemon, Finish, daemonVars
  <2> QED
    BY <1>3, <2>1
<1>11. CASE Hangup(p)
  <2>1. Become(p, Idle)
    BY <1>11 DEF Hangup, Finish
  <2>2. CASE Missed(NoPid) /\ UNCHANGED daemonVars
    BY <1>3, <2>1, <2>2 DEF daemonVars
  <2>3. CASE Found /\ Kill(pid)
    BY <1>4, <2>1, <2>3 DEF Found
  <2>4. CASE /\ Found /\ pid = dpid /\ hup' = TRUE /\ Missed(pid)
             /\ UNCHANGED <<boots, daemon, dpid, reload, table, acceptor>>
    <3>1. \A i \in HaveRead' \ untold' : UpToDate(i)'
      BY <2>4 DEF HaveRead, Missed, UpToDate
    <3> QED
      BY <3>1 DEF WordOwed
  <2> QED
    BY <1>11, <2>2, <2>3, <2>4 DEF Hangup
<1>12. CASE Stop(p)
  <2>1. \/ Missed(NoPid) /\ UNCHANGED daemonVars
        \/ Found /\ Kill(pid)
    BY <1>12 DEF Stop
  <2>2. \E c : Become(p, c)
    BY <1>12 DEF Stop
  <2> QED
    BY <1>3, <1>4, <2>1, <2>2 DEF Found, daemonVars
<1>13. CASE Unlink(p) \/ Track(p)
  <2>1. cli[p].pc \in {"unlink", "track"} /\ Same /\ UNCHANGED untold /\ \E c : Become(p, c)
    BY <1>13 DEF Unlink, Track, Reached, Finish, Goto, daemonVars
  <2> QED
    BY <1>2, <2>1 DEF Telltale
<1>14. CASE Spawn(p)
  <2>1. PICK i \in Pids : /\ ~Exists(i) /\ boots' = [boots EXCEPT ![i].at = "started"]
                        /\ Become(p, [cli[p] EXCEPT !.child = i, !.pc = "track"])
    BY <1>14 DEF Spawn
  <2>2. cli[p].pc = "spawn" /\ UNCHANGED <<file, dpid, hup, reload, table, untold>>
    BY <1>14 DEF Spawn, Reached
  <2>3. HaveRead' = HaveRead /\ \A j \in Pids : boots'[j].routes = boots[j].routes
    BY <2>1, <2>2 DEF HaveRead, Exists, ConfigTypeOK, Process
  <2>4. \A j \in HaveRead : UpToDate(j) => UpToDate(j)'
    BY <2>2, <2>3 DEF UpToDate, HaveRead, Readable
  <2> QED
    BY <2>1, <2>2, <2>3, <2>4, WordKept DEF Telltale
<1>15. CASE Interrupt(p)
  <2>1. Become(p, Idle) /\ Same
    BY <1>15 DEF Interrupt, Finish, daemonVars
  <2>2. CASE Owes(cli[p])
    BY <1>3, <1>15, <2>1, <2>2 DEF Interrupt
  <2>3. CASE ~Owes(cli[p])
    <3>1. ~Telltale(cli[p]) /\ untold' = untold
      BY <1>15, <2>3 DEF Telltale, Owes, Interrupt
    <3> QED
      BY <1>2, <2>1, <3>1
  <2> QED
    BY <2>2, <2>3
<1> QED
  BY <1>6, <1>7, <1>8, <1>9, <1>10, <1>11, <1>12, <1>13, <1>14, <1>15 DEF CliStep, TellStep

LEMMA DaemonWord ==
  ASSUME ConfigTypeOK, WordOwed, DaemonStep
  PROVE  WordOwed'
<1>1. UNCHANGED <<cli, file>>
  BY DEF DaemonStep, BootStep, ReadFiles, Bind, HandlerReady, ReloadRead, ReloadWrite
<1>2. SUFFICES ASSUME NEW i \in HaveRead' \ untold'
               PROVE  UpToDate(i)' \/ (i \in HaveRead \ untold /\ (UpToDate(i) => UpToDate(i)'))
  BY <1>1 DEF WordOwed
<1>3. /\ boots \in [Pids -> Process] /\ dpid \in Pids \cup {NoPid} /\ i \in Pids
      /\ dpid = NoPid => ~hup /\ reload = {}
  BY DEF ConfigTypeOK, HaveRead
<1>4. ASSUME NEW j \in Pids, ReadFiles(j)
      PROVE  UpToDate(i)' \/ (i \in HaveRead \ untold /\ (UpToDate(i) => UpToDate(i)'))
  <2>1. /\ UNCHANGED <<dpid, hup, reload, table, untold>> /\ boots[j].at = "started"
        /\ boots' = [boots EXCEPT ![j] = IF Readable /\ made
                       THEN [at |-> "read", routes |-> file.routes, sans |-> sans] ELSE Absent]
    BY <1>4 DEF ReadFiles
  <2>2. dpid # j
    BY <2>1, PidsType DEF ConfigTypeOK, Absent
  <2>3. CASE i = j
    BY <1>1, <1>3, <2>1, <2>2, <2>3 DEF UpToDate, HaveRead, Absent
  <2>4. CASE i # j
    BY <1>1, <1>3, <2>1, <2>4 DEF UpToDate, HaveRead, Readable
  <2> QED
    BY <2>3, <2>4
<1>5. ASSUME NEW j \in Pids, Bind(j)
      PROVE  i \in HaveRead \ untold /\ (UpToDate(i) => UpToDate(i)')
  <2>1. boots[j].at = "read" /\ boots' = [boots EXCEPT ![j] = Absent] /\ UNCHANGED <<hup, reload>>
    BY <1>5 DEF Bind
  <2>2. \A k \in Pids : boots'[k] = IF k = j THEN Absent ELSE boots[k]
    BY <1>3, <2>1
  <2>3. CASE dpid = NoPid
    <3>1. dpid' = j /\ table' = boots[j].routes /\ untold' = untold
      BY <1>5, <2>3 DEF Bind
    <3> QED
      BY <1>1, <1>3, <2>1, <2>2, <2>3, <3>1, PidsType DEF UpToDate, HaveRead, Absent, Readable
  <2>4. CASE dpid # NoPid
    <3>1. UNCHANGED <<dpid, table>> /\ untold' = untold \ {j}
      BY <1>5, <2>4 DEF Bind
    <3>2. dpid # j
      BY <2>1, PidsType DEF ConfigTypeOK, Absent
    <3> QED
      BY <1>1, <1>3, <2>1, <2>2, <3>1, <3>2 DEF UpToDate, HaveRead, Absent, Readable
  <2> QED
    BY <2>3, <2>4
<1>6. CASE HandlerReady
  BY <1>1, <1>6 DEF HandlerReady, UpToDate, HaveRead, Readable
<1>7. CASE ReloadRead
  <2>1. /\ UNCHANGED <<boots, dpid, table, untold>> /\ reload = {}
        /\ Readable => reload' = {file.routes}
    BY <1>7 DEF ReloadRead
  <2> QED
    BY <1>1, <2>1 DEF UpToDate, HaveRead, Readable
<1>8. CASE ReloadWrite
  <2>1. /\ UNCHANGED <<boots, dpid, hup, untold>> /\ reload' = {}
        /\ \E routes \in reload : table' = routes
    BY <1>8 DEF ReloadWrite
  <2> QED
    BY <1>1, <2>1 DEF UpToDate, HaveRead, Readable
<1> QED
  BY <1>4, <1>5, <1>6, <1>7, <1>8 DEF DaemonStep, BootStep

LEMMA NextWord == ConfigTypeOK /\ WordOwed /\ [ConfigNext]_configVars => WordOwed'
<1>1. ASSUME ConfigTypeOK, WordOwed, NEW p \in Clis, NEW req \in Requests, Begin(p, req)
      PROVE  WordOwed'
  <2>1. cli[p].pc = "idle" /\ UNCHANGED <<file, daemonVars, untold>> /\ \E c : Become(p, c)
    BY <1>1 DEF Begin, Reached
  <2>2. ~Telltale(cli[p]) /\ HaveRead' = HaveRead /\ \A i : UpToDate(i)' = UpToDate(i)
    BY <2>1 DEF Telltale, HaveRead, UpToDate, Readable, daemonVars
  <2> QED
    BY <1>1, <2>1, <2>2, WordKept
<1>2. WordOwed /\ UNCHANGED configVars => WordOwed'
  BY DEF configVars, daemonVars, WordOwed, UpToDate, HaveRead, Readable
<1> QED
  BY <1>1, <1>2, CliWord, DaemonWord DEF ConfigNext

(* The handler reads the file outside the lock (server.rs:63-73), files are *)
(* unreadable while they are written, and processes boot meanwhile: with    *)
(* everything at rest the daemon has the routes of the file all the same,   *)
(* if it can be read, unless it is one that a change was never told of.     *)
THEOREM DaemonCatchesUp == ConfigSpec => []DaemonCaughtUp
<1>1. ConfigTypeOK /\ WordOwed => DaemonCaughtUp
  BY PidsType DEF ConfigTypeOK, WordOwed, UpToDate, Telltale, HaveRead, DaemonCaughtUp, AllIdle, Reached
<1> QED
  BY <1>1, InitType, NextType, InitWord, NextWord, PTL DEF ConfigSpec
-----------------------------------------------------------------------------
(* Only a command with a new certificate gets as far as run_stop.           *)
Stopping == \A p \in Clis : cli[p].pc = "stop" => cli[p].changed

LEMMA NextStopping == ConfigTypeOK /\ Stopping /\ [ConfigNext]_configVars => Stopping'
<1>1. ASSUME ConfigTypeOK, Stopping, NEW p \in Clis, NEW c, Become(p, c), c.pc = "stop" => c.changed
      PROVE  Stopping'
  <2>1. \A q \in Clis : cli'[q] = IF q = p THEN c ELSE cli[q]
    BY <1>1 DEF Become, ConfigTypeOK
  <2> QED
    BY <1>1, <2>1 DEF Stopping
<1>2. ASSUME ConfigTypeOK, Stopping, NEW p \in Clis, NEW req \in Requests, Begin(p, req)
      PROVE  Stopping'
  <2>1. [Idle EXCEPT !.pc = "load", !.req = req].pc = "load"
    BY DEF Idle
  <2> QED
    BY <1>1, <1>2, <2>1 DEF Begin
<1>3. ASSUME ConfigTypeOK, Stopping, NEW p \in Clis, Load(p) PROVE Stopping'
  <2> DEFINE r == [cli[p] EXCEPT !.base = file.routes, !.cfg = Apply(cli[p].req, file.routes),
                     !.pc = IF cli[p].req.op = "sync" THEN "cert" ELSE "save"]
  <2>1. Become(p, Idle) \/ Become(p, r)
    BY <1>3 DEF Load, Finish
  <2>2. r.pc # "stop" /\ Idle.pc # "stop"
    BY <1>3 DEF Idle, ConfigTypeOK, Command
  <2> HIDE DEF r
  <2> QED
    BY <1>1, <1>3, <2>1, <2>2
<1>4. ASSUME ConfigTypeOK, Stopping, NEW p \in Clis, WriteText(p) PROVE Stopping'
  <2>1. AfterWrite(cli[p]).pc # "stop"
    BY DEF AfterWrite, Telling, Idle, NoRequest
  <2> QED
    BY <1>1, <1>4, <2>1 DEF WriteText
<1>5. ASSUME ConfigTypeOK, Stopping, NEW p \in Clis,
             CertStep(p) \/ Truncate(p) \/ TellStep(p) \/ Interrupt(p)
      PROVE  Stopping'
  BY <1>1, <1>5, Later DEF Follows
<1>6. Stopping /\ (DaemonStep \/ UNCHANGED configVars) => Stopping'
  BY DEF DaemonStep, BootStep, ReadFiles, Bind, HandlerReady, ReloadRead, ReloadWrite, configVars, Stopping
<1> QED
  BY <1>2, <1>3, <1>4, <1>5, <1>6 DEF ConfigNext, CliStep, Save

(* A running daemon ends only in run_stop, for a command that has a new     *)
(* certificate: no signal and no unreadable file ends it.                   *)
THEOREM OnlyRestarts == ConfigSpec => OnlyRestartStopsDaemon
<1> DEFINE Kept == daemon = "on" /\ daemon' = "off" =>
                     \E p \in Clis : Reached(p, "stop") /\ cli[p].changed
<1>1. Stopping /\ [ConfigNext]_configVars => Kept
  <2>1. ASSUME NEW p \in Clis, Load(p) \/ CertStep(p) \/ Save(p) \/ Interrupt(p) PROVE Kept
    BY <2>1 DEF Load, CertStep, CheckCert, WritePem, Record, Save, Truncate, WriteText, Interrupt
  <2>2. ASSUME Stopping, NEW p \in Clis, TellStep(p) PROVE Kept
    <3>1. CASE Stop(p)
      BY <2>2, <3>1 DEF Stop, Stopping, Reached
    <3>2. CASE Hangup(p)
      BY <3>2 DEF Hangup, Kill
    <3>3. CASE FindDaemon(p) \/ NoDaemon(p) \/ Unlink(p) \/ Spawn(p) \/ Track(p)
      BY <3>3 DEF FindDaemon, NoDaemon, Unlink, Spawn, Track
    <3> QED
      BY <2>2, <3>1, <3>2, <3>3 DEF TellStep
  <2>3. ASSUME DaemonStep PROVE Kept
    BY <2>3 DEF DaemonStep, BootStep, ReadFiles, Bind, HandlerReady, ReloadRead, ReloadWrite
  <2> QED
    BY <2>1, <2>2, <2>3 DEF ConfigNext, CliStep, Begin, configVars
<1>2. ConfigInit => Stopping
  BY DEF ConfigInit, Stopping, Idle
<1> QED
  BY <1>1, <1>2, InitType, NextType, NextStopping, PTL DEF ConfigSpec, OnlyRestartStopsDaemon
-----------------------------------------------------------------------------
(* Where the routes come from: every table, on its way from a request to    *)
(* the daemon, lies within a set of routes.                                 *)
Within(S) ==
  /\ file.routes \subseteq S /\ table \subseteq S
  /\ \A p \in Clis : cli[p].req.new \subseteq S /\ cli[p].cfg \subseteq S
  /\ \A i \in Pids : boots[i].routes \subseteq S
  /\ \A routes \in reload : routes \subseteq S

LEMMA ApplyWithin ==
  ASSUME NEW S, NEW T \in SUBSET S, NEW req, req.new \subseteq S
  PROVE  Apply(req, T) \subseteq S
BY DEF Apply, Upsert, Without

(* No step of a command, of an interruption or of the daemon makes a route  *)
(* up: routes enter with requests alone.                                    *)
LEMMA CliWithin ==
  ASSUME NEW S, ConfigTypeOK, Within(S), NEW p \in Clis, CliStep(p) \/ Interrupt(p)
  PROVE  Within(S)'
<1>1. CASE Load(p)
  <2>1. Apply(cli[p].req, file.routes) \subseteq S
    BY ApplyWithin DEF Within
  <2>2. \A q \in Clis : cli'[q].req.new \subseteq S /\ cli'[q].cfg \subseteq S
    BY <1>1, <2>1, LoadReads DEF Within
  <2> QED
    BY <1>1, <2>2, LoadReads DEF Within
<1>2. CASE CertStep(p) \/ Save(p) \/ TellStep(p) \/ Interrupt(p)
  <2>1. file'.routes \subseteq S /\ table' \subseteq S /\ \A routes \in reload' : routes \subseteq S
    BY <1>2, TablesPassOn DEF Within
  <2>2. \A q \in Clis : cli'[q].req.new \subseteq S /\ cli'[q].cfg \subseteq S
    BY <1>2, TablesPassOn DEF Within
  <2>3. \A i \in Pids : boots'[i].routes \subseteq S
    BY <1>2, TablesPassOn DEF Within
  <2> QED
    BY <2>1, <2>2, <2>3 DEF Within
<1> QED
  BY <1>1, <1>2 DEF CliStep

LEMMA BeginWithin ==
  ASSUME NEW S, ConfigTypeOK, Within(S), NEW p \in Clis, NEW req, req.new \subseteq S, Begin(p, req)
  PROVE  Within(S)'
<1>1. \A q \in Clis : cli'[q].req.new \subseteq S /\ cli'[q].cfg \subseteq S
  BY DEF Begin, Become, Within, ConfigTypeOK, Idle
<1> QED
  BY <1>1 DEF Begin, Within

LEMMA DaemonWithin ==
  ASSUME NEW S, ConfigTypeOK, Within(S), DaemonStep
  PROVE  Within(S)'
<1>1. ASSUME NEW i \in Pids, BootStep(i) PROVE Within(S)'
  <2>1. \A j \in Pids : boots'[j].routes \subseteq S
    BY <1>1, BootRoutes DEF Within
  <2> QED
    BY <1>1, <2>1, BootRoutes DEF Within
<1>2. CASE HandlerReady \/ ReloadRead \/ ReloadWrite
  BY <1>2 DEF HandlerReady, ReloadRead, ReloadWrite, Within
<1> QED
  BY <1>1, <1>2 DEF DaemonStep
-----------------------------------------------------------------------------
(* Commands that are run one after the other implement RouteRegistry: each  *)
(* is one atomic change of the registry, though it loads the file, edits a  *)
(* copy, truncates the file and writes it in steps of its own, and though   *)
(* it may be interrupted anywhere but between the last two.                 *)

(* The inductive invariant: at most one command is under way, it has asked  *)
(* for something it may ask for, what it is going to write is what its      *)
(* request makes of the file, and the file is whole unless it is writing.   *)
Editing(p) == Edits(cli[p])
Writing(p) == cli[p].pc = "write"
Alone ==
  /\ \A p, q \in Clis : p # q => Reached(p, "idle") \/ Reached(q, "idle")
  /\ \A p \in Clis :
       /\ Editing(p) \/ Reached(p, "load") => cli[p].req \in Requests
       /\ Editing(p) => cli[p].cfg = Apply(cli[p].req, cli[p].base)
       /\ Editing(p) /\ ~Writing(p) => cli[p].base = file.routes
       /\ Writing(p) => file = Truncated
  /\ (\A p \in Clis : ~Writing(p)) => Readable

LEMMA InitAlone == ConfigInit => Alone
BY DEF ConfigInit, Alone, Editing, Edits, Writing, Reached, Readable, Whole, Idle

(* A command's own clauses of the invariant, for the record it has.         *)
Sound(c) ==
  /\ Edits(c) \/ c.pc = "load" => c.req \in Requests
  /\ Edits(c) => c.cfg = Apply(c.req, c.base)

LEMMA AloneStep ==
  ASSUME ConfigTypeOK, Alone, NEW p \in Clis, NEW c, Become(p, c), Sound(c),
         ~Reached(p, "idle") \/ AllIdle,
         \/ c.pc = "write" /\ file' = Truncated
         \/ /\ c.pc # "write" /\ file'.text = "whole"
            /\ Edits(c) => c.base = file'.routes
  PROVE  Alone'
<1>1. \A q \in Clis : cli'[q] = IF q = p THEN c ELSE cli[q]
  BY DEF Become, ConfigTypeOK
<1>2. \A q \in Clis \ {p} : cli[q].pc = "idle"
  BY DEF Alone, AllIdle, Reached
<1>3. \A q \in Clis \ {p} : cli'[q].pc = "idle" /\ ~Edits(cli'[q])
  BY <1>1, <1>2 DEF Edits
<1> QED
  BY <1>1, <1>3 DEF Alone, Reached, Editing, Writing, Sound, Readable

LEMMA NextAlone ==
  ASSUME Serial, "write" \notin Breakable
  PROVE  ConfigTypeOK /\ Alone /\ [ConfigNext]_configVars => Alone'
<1>1. ASSUME ConfigTypeOK, Alone, NEW p \in Clis, NEW req \in Requests, Begin(p, req)
      PROVE  Alone'
  <2> DEFINE c == [Idle EXCEPT !.pc = "load", !.req = req]
  <2>1. c.pc = "load" /\ c.req = req /\ Become(p, c) /\ file' = file /\ AllIdle
    BY <1>1 DEF Begin, Idle
  <2> HIDE DEF c
  <2>2. Sound(c) /\ ~Edits(c)
    BY <2>1 DEF Sound, Edits
  <2>3. file.text = "whole"
    BY <1>1, <2>1 DEF Alone, AllIdle, Reached, Writing, Readable
  <2> QED
    BY <1>1, <2>1, <2>2, <2>3, AloneStep
<1>2. ASSUME ConfigTypeOK, Alone, NEW p \in Clis, CliStep(p) \/ Interrupt(p)
      PROVE  Alone'
  <2>1. cli[p] \in Command /\ ~Reached(p, "idle")
    BY <1>2 DEF ConfigTypeOK, CliStep, Load, CertStep, CheckCert, WritePem, Record, Save, Truncate,
       WriteText, TellStep, FindDaemon, NoDaemon, Hangup, Stop, Unlink, Spawn, Track, Interrupt, Reached
  <2>2. ~Writing(p) => Readable
    BY <1>2, <2>1 DEF Alone, Writing, Reached
  <2>3. CASE Load(p)
    <3> DEFINE r == [cli[p] EXCEPT !.base = file.routes, !.cfg = Apply(cli[p].req, file.routes),
                       !.pc = IF cli[p].req.op = "sync" THEN "cert" ELSE "save"]
    <3>1. file' = file /\ cli[p].pc = "load" /\ file.text = "whole" /\ cli[p].req \in Requests
      BY <1>2, <2>2, <2>3 DEF Load, Reached, Writing, Readable, Alone
    <3>2. CASE Become(p, Idle)
      <4>1. Idle.pc = "idle" /\ ~Edits(Idle) /\ Sound(Idle)
        BY DEF Idle, Edits, Sound
      <4> QED
        BY <1>2, <2>1, <3>1, <3>2, <4>1, AloneStep
    <3>3. CASE Become(p, r)
      <4>1. /\ r.pc # "write" /\ r.base = file.routes /\ r.req = cli[p].req
            /\ r.cfg = Apply(r.req, r.base)
        BY <2>1 DEF Command
      <4> HIDE DEF r
      <4>2. Sound(r)
        BY <3>1, <4>1 DEF Sound
      <4> QED
        BY <1>2, <2>1, <3>1, <3>3, <4>1, <4>2, AloneStep
    <3> QED
      BY <2>3, <3>2, <3>3 DEF Load, Finish
  <2>4. CASE WriteText(p)
    <3>1. Become(p, AfterWrite(cli[p])) /\ file = Truncated
      BY <1>2, <2>4 DEF WriteText, Alone, Writing, Reached
    <3>2. file'.text = "whole"
      BY <2>4, <3>1 DEF WriteText, Whole
    <3>3. /\ AfterWrite(cli[p]).pc \in {"signal", "hup", "cert"}
          /\ AfterWrite(cli[p]).pc = "cert" => AfterWrite(cli[p]).req.op = "unsync"
      BY DEF AfterWrite, Telling, Idle, NoRequest
    <3>4. ~Edits(AfterWrite(cli[p])) /\ Sound(AfterWrite(cli[p]))
      BY <3>3 DEF Edits, Sound
    <3> QED
      BY <1>2, <2>1, <3>1, <3>2, <3>3, <3>4, AloneStep
  <2>5. CASE CertStep(p) \/ Truncate(p) \/ TellStep(p) \/ Interrupt(p)
    <3>1. PICK c \in Command : Become(p, c) /\ Follows(cli[p], c)
      BY <1>2, <2>5, Later
    <3>2. Sound(c)
      BY <1>2, <3>1 DEF Follows, Sound, Alone, Editing
    <3>3. CASE Truncate(p)
      <4>1. file' = Truncated /\ c.pc = "write"
        <5>1. cli' = [cli EXCEPT ![p] = [cli[p] EXCEPT !.pc = "write"]] /\ file' = Truncated
          BY <3>3 DEF Truncate, Goto, Become
        <5>2. cli' = [cli EXCEPT ![p] = c] /\ cli \in [Clis -> Command]
          BY <1>2, <3>1 DEF Become, ConfigTypeOK
        <5>3. c = [cli[p] EXCEPT !.pc = "write"]
          BY <5>1, <5>2
        <5> QED
          BY <2>1, <5>1, <5>3 DEF Command
      <4> QED
        BY <1>2, <2>1, <3>1, <3>2, <4>1, AloneStep
    <3>4. CASE CertStep(p) \/ TellStep(p) \/ Interrupt(p)
      <4>1. file' = file /\ (cli[p].pc \notin {"write", "save"} \/ Interrupt(p))
        <5>1. CASE CertStep(p)
          BY <5>1 DEF CertStep, CheckCert, WritePem, Record, Reached
        <5>2. CASE TellStep(p)
          BY <5>2 DEF TellStep, FindDaemon, NoDaemon, Hangup, Stop, Unlink, Spawn, Track, Reached
        <5>3. CASE Interrupt(p)
          BY <5>3 DEF Interrupt
        <5> QED
          BY <3>4, <5>1, <5>2, <5>3
      <4>2. CASE Interrupt(p)
        <5>1. Become(p, Idle) /\ ~Writing(p) /\ file' = file
          BY <4>2 DEF Interrupt, Finish, Writing
        <5>2. Idle.pc = "idle" /\ ~Edits(Idle) /\ Sound(Idle)
          BY DEF Idle, Edits, Sound
        <5>3. file'.text = "whole"
          BY <2>2, <5>1 DEF Readable
        <5> QED
          BY <1>2, <2>1, <5>1, <5>2, <5>3, AloneStep
      <4>3. CASE cli[p].pc \notin {"write", "save"} /\ file' = file
        <5>1. c.pc # "write" /\ file'.text = "whole"
          BY <2>2, <3>1, <4>3 DEF Follows, Writing, Readable
        <5>2. Edits(c) => c.base = file'.routes
          BY <1>2, <3>1, <4>3 DEF Follows, Alone, Editing, Writing
        <5> QED
          BY <1>2, <2>1, <3>1, <3>2, <5>1, <5>2, AloneStep
      <4> QED
        BY <4>1, <4>2, <4>3
    <3> QED
      BY <2>5, <3>3, <3>4
  <2> QED
    BY <1>2, <2>3, <2>4, <2>5 DEF CliStep, Save
<1>3. Alone /\ (DaemonStep \/ UNCHANGED configVars) => Alone'
  <2>1. DaemonStep \/ UNCHANGED configVars => file' = file /\ cli' = cli
    BY DEF DaemonStep, BootStep, ReadFiles, Bind, HandlerReady, ReloadRead, ReloadWrite, configVars
  <2> QED
    BY <2>1 DEF Alone, Reached, Editing, Writing, Readable
<1> QED
  BY <1>1, <1>2, <1>3 DEF ConfigNext
-----------------------------------------------------------------------------
(* The refinement mapping: the routes in the file, or, while somebody       *)
(* writes, the routes the writer found there.                               *)
LEMMA DurableFile ==
  /\ (\A p \in Clis : ~Writing(p)) => Durable = file.routes
  /\ (\A p \in Clis : ~Writing(p))' => Durable' = file'.routes
BY DEF Durable, Reached, Writing

LEMMA DurableBase ==
  ASSUME NEW p \in Clis
  PROVE  /\ Alone /\ Writing(p) => Durable = cli[p].base
         /\ (Alone /\ Writing(p))' => Durable' = cli'[p].base
<1>1. Alone /\ Writing(p) => \A q \in Clis : Writing(q) => q = p
  BY DEF Alone, Reached, Writing
<1>2. (Alone /\ Writing(p))' => \A q \in Clis : Writing(q)' => q = p
  BY DEF Alone, Reached, Writing
<1> QED
  BY <1>1, <1>2 DEF Durable, Reached, Writing

(* Only the process that takes a step asks for something or is done with it. *)
LEMMA AskedStep ==
  ASSUME NEW p \in Clis, NEW c, Become(p, c), ConfigTypeOK
  PROVE  Asked' = [Asked EXCEPT ![p] = Pending(c)]
BY DEF Asked, Become, ConfigTypeOK

LEMMA RequestIsOne ==
  ASSUME Alone, NEW p \in Clis, Editing(p) \/ Reached(p, "load")
  PROVE  cli[p].req \in Requests /\ Asked[p] = cli[p].req /\ Asked[p] # NoRequest
<1>1. cli[p].req \in Requests
  BY DEF Alone
<1>2. NoRequest \notin Requests
  BY RequestsType DEF NoRequest, Commands
<1> QED
  BY <1>1, <1>2 DEF Asked, Pending, Editing, Edits, Reached

(* A command that ends, or is past its write, gives up what it has not done. *)
LEMMA Finishes ==
  ASSUME Alone, ConfigTypeOK, NEW p \in Clis, Durable' = Durable,
         NEW c, Become(p, c), Pending(c) = NoRequest
  PROVE  Registry!GiveUp(p) \/ Asked' = Asked
<1>1. Asked' = [Asked EXCEPT ![p] = NoRequest]
  BY AskedStep
<1>2. CASE Editing(p) \/ Reached(p, "load")
  BY <1>1, <1>2, RequestIsOne DEF Registry!GiveUp
<1>3. CASE ~(Editing(p) \/ Reached(p, "load"))
  <2>1. Asked[p] = NoRequest
    BY <1>3 DEF Asked, Pending, Editing, Edits, Reached
  <2> QED
    BY <1>1, <2>1 DEF Asked
<1> QED
  BY <1>2, <1>3

(* A command that goes on, asked what it was asked.                         *)
LEMMA GoesOn ==
  ASSUME ConfigTypeOK, NEW p \in Clis,
         NEW c, Become(p, c), Pending(c) = Pending(cli[p])
  PROVE  Asked' = Asked
BY AskedStep DEF Asked

(* Every step is a step of the registry or leaves it alone.                 *)
LEMMA NextRegistry ==
  ASSUME Serial, "write" \notin Breakable
  PROVE  ConfigTypeOK /\ Alone /\ Alone' /\ [ConfigNext]_configVars
           => [Registry!Next]_<<Durable, Asked>>
<1> SUFFICES ASSUME ConfigTypeOK, Alone, Alone', [ConfigNext]_configVars
             PROVE  Registry!Next \/ (Durable' = Durable /\ Asked' = Asked)
  OBVIOUS
<1>1. ASSUME NEW p \in Clis PROVE cli[p] \in Command /\ cli \in [Clis -> Command]
  BY <1>1 DEF ConfigTypeOK
<1>2. ASSUME NEW p \in Clis, NEW c, Become(p, c), ~Writing(p), c.pc # "write", file' = file,
             ~Reached(p, "idle") \/ AllIdle
      PROVE  Durable' = Durable
  <2>1. \A q \in Clis : cli'[q] = IF q = p THEN c ELSE cli[q]
    BY <1>1, <1>2 DEF Become
  <2>2. \A q \in Clis \ {p} : cli[q].pc = "idle"
    BY <1>2 DEF Alone, AllIdle, Reached
  <2>3. \A q \in Clis : ~Writing(q) /\ ~Writing(q)'
    BY <1>2, <2>1, <2>2 DEF Writing
  <2> QED
    BY <1>2, <2>3, DurableFile
<1>3. ASSUME NEW p \in Clis, NEW req \in Requests, Begin(p, req) PROVE Registry!Ask(p, req)
  <2> DEFINE c == [Idle EXCEPT !.pc = "load", !.req = req]
  <2>1. Become(p, c) /\ c.pc = "load" /\ c.req = req /\ file' = file /\ Reached(p, "idle")
        /\ (Serial => AllIdle)
    BY <1>3 DEF Begin, Idle
  <2> HIDE DEF c
  <2>2. Asked' = [Asked EXCEPT ![p] = req]
    BY <2>1, AskedStep DEF Pending
  <2>3. Asked[p] = NoRequest /\ ~Writing(p)
    BY <2>1 DEF Asked, Pending, Reached, Writing
  <2>4. Durable' = Durable
    BY <1>2, <2>1, <2>3 DEF AllIdle
  <2> QED
    BY <2>2, <2>3, <2>4 DEF Registry!Ask
<1>4. ASSUME NEW p \in Clis, Load(p) PROVE Registry!GiveUp(p) \/ (Durable' = Durable /\ Asked' = Asked)
  <2> DEFINE c == [cli[p] EXCEPT !.base = file.routes, !.cfg = Apply(cli[p].req, file.routes),
                     !.pc = IF cli[p].req.op = "sync" THEN "cert" ELSE "save"]
  <2>1. file' = file /\ cli[p].pc = "load" /\ ~Writing(p) /\ ~Reached(p, "idle")
    BY <1>4 DEF Load, Reached, Writing
  <2>2. CASE Become(p, Idle)
    <3>1. Idle.pc = "idle" /\ Pending(Idle) = NoRequest
      BY DEF Idle, Pending
    <3>2. Durable' = Durable
      BY <1>2, <2>1, <2>2, <3>1
    <3> QED
      BY <2>2, <3>1, <3>2, Finishes
  <2>3. CASE Become(p, c)
    <3>1. c.pc # "write" /\ Pending(c) = Pending(cli[p])
      BY <1>1, <2>1 DEF Pending, Command
    <3> HIDE DEF c
    <3>2. Durable' = Durable
      BY <1>2, <2>1, <2>3, <3>1
    <3> QED
      BY <2>3, <3>1, <3>2, GoesOn
  <2> QED
    BY <1>4, <2>2, <2>3 DEF Load, Finish
<1>5. ASSUME NEW p \in Clis, Truncate(p) PROVE Durable' = Durable /\ Asked' = Asked
  <2> DEFINE c == [cli[p] EXCEPT !.pc = "write"]
  <2>1. Become(p, c) /\ cli[p].pc = "save"
    BY <1>5 DEF Truncate, Goto, Reached
  <2>2. c.pc = "write" /\ c.base = cli[p].base /\ Pending(c) = Pending(cli[p])
    BY <1>1, <2>1 DEF Pending, Command
  <2> HIDE DEF c
  <2>3. cli'[p] = c
    BY <1>1, <2>1 DEF Become
  <2>4. Writing(p)' /\ cli'[p].base = file.routes
    BY <2>1, <2>2, <2>3 DEF Writing, Alone, Editing, Edits
  <2>5. \A q \in Clis : ~Writing(q)
    BY <2>1 DEF Alone, Reached, Writing
  <2>6. Asked' = Asked
    BY <2>1, <2>2, GoesOn
  <2> QED
    BY <2>4, <2>5, <2>6, DurableFile, DurableBase
<1>6. ASSUME NEW p \in Clis, WriteText(p) PROVE Registry!Execute(p)
  <2>1. cli[p].pc = "write" /\ Writing(p) /\ Editing(p)
    BY <1>6 DEF WriteText, Reached, Writing, Editing, Edits
  <2>2. Durable = cli[p].base
    BY <2>1, DurableBase
  <2>3. Asked[p] = cli[p].req /\ Asked[p] # NoRequest
    BY <2>1, RequestIsOne
  <2>4. cli[p].cfg = Apply(cli[p].req, cli[p].base) /\ file = Truncated
    BY <2>1 DEF Alone
  <2>5. file'.routes = cli[p].cfg
    BY <1>6, <2>4 DEF WriteText, Whole
  <2> DEFINE c == AfterWrite(cli[p])
  <2>6. Become(p, c)
    BY <1>6 DEF WriteText
  <2>7. c.pc \in {"signal", "hup", "cert"} /\ (c.pc = "cert" => c.req.op = "unsync")
    BY DEF AfterWrite, Telling, Idle, NoRequest
  <2> HIDE DEF c
  <2>8. \A q \in Clis : ~Writing(q)'
    <3>1. \A q \in Clis : cli'[q] = IF q = p THEN c ELSE cli[q]
      BY <1>1, <2>6 DEF Become
    <3> QED
      BY <2>1, <2>7, <3>1 DEF Alone, Writing, Reached
  <2>9. Durable' = Apply(Asked[p], Durable)
    BY <2>2, <2>3, <2>4, <2>5, <2>8, DurableFile
  <2>10. Durable' = Registry!Apply(Asked[p], Durable)
    BY <2>9 DEF Apply, Upsert, Without, Registry!Apply, Registry!Upsert, Registry!Without
  <2>11. Pending(c) = NoRequest
    BY <2>7 DEF Pending
  <2>12. Asked' = [Asked EXCEPT ![p] = NoRequest]
    BY <2>6, <2>11, AskedStep
  <2> QED
    BY <2>3, <2>10, <2>12 DEF Registry!Execute
<1>7. ASSUME NEW p \in Clis, CertStep(p) \/ TellStep(p) \/ Interrupt(p)
      PROVE  Registry!GiveUp(p) \/ (Durable' = Durable /\ Asked' = Asked)
  <2>1. PICK c \in Command : Become(p, c) /\ Follows(cli[p], c)
    BY <1>7, Later
  <2>2. file' = file /\ ~Writing(p) /\ ~Reached(p, "idle") /\ (cli[p].pc # "save" \/ Interrupt(p))
    <3>1. CASE CertStep(p)
      BY <3>1 DEF CertStep, CheckCert, WritePem, Record, Reached, Writing
    <3>2. CASE TellStep(p)
      BY <3>2 DEF TellStep, FindDaemon, NoDaemon, Hangup, Stop, Unlink, Spawn, Track, Reached, Writing
    <3>3. CASE Interrupt(p)
      BY <3>3 DEF Interrupt, Reached, Writing
    <3> QED
      BY <1>7, <3>1, <3>2, <3>3
  <2>3. c.pc # "write"
    <3>1. CASE Interrupt(p)
      <4>1. c = Idle
        BY <1>1, <2>1, <3>1 DEF Interrupt, Finish, Become
      <4> QED
        BY <4>1 DEF Idle
    <3>2. CASE cli[p].pc # "save"
      BY <2>1, <3>2 DEF Follows
    <3> QED
      BY <2>2, <3>1, <3>2
  <2>4. Durable' = Durable
    BY <1>2, <2>1, <2>2, <2>3
  <2>5. CASE Edits(c)
    <3>1. Pending(c) = c.req /\ Pending(cli[p]) = cli[p].req /\ c.req = cli[p].req
      BY <2>1, <2>5 DEF Follows, Pending, Edits
    <3> QED
      BY <2>1, <2>4, <3>1, GoesOn
  <2>6. CASE ~Edits(c)
    <3>1. Pending(c) = NoRequest
      BY <2>1, <2>6 DEF Follows, Pending, Edits
    <3> QED
      BY <2>1, <2>4, <3>1, Finishes
  <2> QED
    BY <2>5, <2>6
<1>8. ASSUME DaemonStep \/ UNCHANGED configVars PROVE Durable' = Durable /\ Asked' = Asked
  <2>1. file' = file /\ cli' = cli
    BY <1>8 DEF DaemonStep, BootStep, ReadFiles, Bind, HandlerReady, ReloadRead, ReloadWrite, configVars
  <2> QED
    BY <2>1 DEF Durable, Asked, Reached
<1>9. ASSUME NEW p \in Clis, Registry!Execute(p) \/ Registry!GiveUp(p) PROVE Registry!Next
  BY <1>9 DEF Registry!Next
<1>10. ASSUME NEW p \in Clis, NEW req \in Requests, Registry!Ask(p, req) PROVE Registry!Next
  BY <1>10 DEF Registry!Next
<1>11. ASSUME NEW p \in Clis, CliStep(p) \/ Interrupt(p) \/ \E req \in Requests : Begin(p, req)
       PROVE  Registry!Next \/ (Durable' = Durable /\ Asked' = Asked)
  BY <1>3, <1>4, <1>5, <1>6, <1>7, <1>9, <1>10, <1>11 DEF CliStep, Save
<1> QED
  BY <1>8, <1>11 DEF ConfigNext

(* routes.rs and config.rs: where commands do not overlap and none is cut   *)
(* off between truncating and writing config.json, they implement the       *)
(* registry, each as one atomic change, made once and exactly as asked.     *)
THEOREM RegistryKept ==
  ASSUME Serial, "write" \notin Breakable
  PROVE  ConfigSpec => KeepsRegistry
<1>1. ConfigInit => Registry!Init
  BY DEF ConfigInit, Registry!Init, Durable, Asked, Pending, Reached, Idle, Whole
<1> QED
  BY <1>1, InitType, NextType, InitAlone, NextAlone, NextRegistry, PTL
     DEF ConfigSpec, KeepsRegistry, Registry!Spec
=============================================================================
