----------------------------- MODULE RouteConfig ----------------------------
(* The commands that edit the proxy's routes, src/commands/proxy/routes.rs, *)
(* the files they share, src/proxy/config.rs and certs.rs, and the daemon   *)
(* that serves them, src/proxy/server.rs.  Commands are processes of their  *)
(* own: they load config.json, change the copy, write it back without a     *)
(* lock, and tell the daemon with SIGHUP, or restart it when the            *)
(* certificate changed.  They know it by the process id in proxy.pid alone, *)
(* src/commands/proxy/daemon.rs, and all of them write that file too.       *)
EXTENDS RouteTable, FiniteSets

CONSTANTS
  Clis,       \* concurrently running `dip` commands
  Pids,       \* process ids of `dip proxy serve`
  NoPid,      \* what proxy.pid holds when there is none
  Requests,   \* [op, new, gone]: the command, routes to set, domains to drop
  Sans,       \* names a certificate carries
  San,        \* San[d]: the name that covers domain d
  Serial,     \* is one command finished before the next begins?
  Breakable   \* the steps a command may be interrupted before, or fail in

Steps == {"idle", "load", "cert", "pem", "record", "save", "write", "signal",
          "hup", "stop", "unlink", "spawn", "track"}
Commands == {"add", "remove", "sync", "unsync"}
ASSUME PidsType == NoPid \notin Pids
ASSUME SanType == San \in [Domains -> Sans]
ASSUME ConfigFlagsType == Serial \in BOOLEAN /\ Breakable \subseteq Steps
ASSUME RequestsType ==
  /\ Requests \subseteq [op : Commands, new : SUBSET Route, gone : SUBSET Domains]
  /\ \A req \in Requests :
       /\ req.op \in {"add", "sync"} => req.gone = {} /\ req.new # {}
       /\ req.op \in {"remove", "unsync"} => req.new = {} /\ req.gone # {}

VARIABLES
  file,       \* config.json: its text, and its routes if that can be parsed
  cli,        \* cli[p]: the command process p runs and how far it is
  made,       \* is there a server.pem?
  sans,       \* the names it carries
  record,     \* server.sans: the names it is said to carry
  pid,        \* proxy.pid: the process it names
  boots,      \* boots[i]: how far process i is that does not hold the ports
  daemon,     \* the process that does: "off", "loaded" (no handler yet), "on"
  dpid,       \* its id
  hup,        \* is a SIGHUP waiting for the daemon's handler?
  reload,     \* a table the handler read and has not written yet, if any
  table,      \* the daemon's routes
  acceptor,   \* names of the certificate the daemon loaded
  untold      \* history: processes that a change was never told of

certVars == <<made, sans, record>>
daemonVars == <<boots, daemon, dpid, hup, reload, table, acceptor>>
configVars == <<file, cli, certVars, pid, daemonVars, untold>>

(* A writer truncates the file before it writes; two writers may leave the  *)
(* tail of the longer text behind the shorter one.                          *)
Whole(routes) == [text |-> "whole", routes |-> routes]
Truncated == [text |-> "empty", routes |-> {}]
Overlaid == [text |-> "garbage", routes |-> {}]
Readable == file.text = "whole"

(* A process that was spawned, or has read the files but not bound yet.     *)
Absent == [at |-> "none", routes |-> {}, sans |-> {}]
Process == [at : {"none", "started", "read"}, routes : SUBSET Route, sans : SUBSET Sans]
Exists(i) == boots[i].at # "none" \/ dpid = i
HaveRead == {i \in Pids : boots[i].at = "read" \/ dpid = i}

(* daemon_pid().is_some().  That an id may have passed to another program,  *)
(* and that a process may take its time to end, is DaemonControl's subject. *)
Found == pid \in Pids /\ Exists(pid)

(* A command: base is what it loaded, cfg what it will save or has saved,   *)
(* changed what ensure_server_cert told it, child the process it spawned.   *)
NoRequest == [op |-> "none", new |-> {}, gone |-> {}]
Idle == [pc |-> "idle", req |-> NoRequest, base |-> {}, cfg |-> {}, changed |-> FALSE,
         child |-> NoPid]
Command == [pc : Steps,
            req : [op : Commands \cup {"none"}, new : SUBSET Route, gone : SUBSET Domains],
            base : SUBSET Route, cfg : SUBSET Route, changed : BOOLEAN,
            child : Pids \cup {NoPid}]

ConfigTypeOK ==
  /\ file \in [text : {"whole", "empty", "garbage"}, routes : SUBSET Route]
  /\ cli \in [Clis -> Command]
  /\ made \in BOOLEAN /\ sans \in SUBSET Sans /\ record \in SUBSET Sans
  /\ pid \in Pids \cup {NoPid} /\ dpid \in Pids \cup {NoPid}
  /\ boots \in [Pids -> Process]
  /\ daemon \in {"off", "loaded", "on"}
  /\ hup \in BOOLEAN
  /\ reload \in SUBSET SUBSET Route
  /\ table \in SUBSET Route
  /\ acceptor \in SUBSET Sans
  /\ daemon = "off" <=> dpid = NoPid
  /\ dpid \in Pids => boots[dpid].at = "none"
  /\ hup \/ reload # {} => daemon = "on"
  /\ untold \in SUBSET HaveRead

ConfigInit ==
  /\ file = Whole({}) /\ cli = [p \in Clis |-> Idle]
  /\ made = FALSE /\ sans = {} /\ record = {}
  /\ pid = NoPid /\ boots = [i \in Pids |-> Absent]
  /\ daemon = "off" /\ dpid = NoPid /\ hup = FALSE /\ reload = {}
  /\ table = {} /\ acceptor = {} /\ untold = {}
-----------------------------------------------------------------------------
(* A command                                                               *)

Reached(p, step) == cli[p].pc = step
Become(p, c) == cli' = [cli EXCEPT ![p] = c]
Goto(p, step) == Become(p, [cli[p] EXCEPT !.pc = step])
Finish(p) == Become(p, Idle)
AllIdle == \A p \in Clis : Reached(p, "idle")
Wanted(routes) == {San[r.domain] : r \in routes}

(* A command that wrote the file: what is left of it decides how it tells   *)
(* the daemon.                                                              *)
Telling(op, step, changed) ==
  [Idle EXCEPT !.req = [NoRequest EXCEPT !.op = op], !.pc = step, !.changed = changed]

(* A command starts; a sync has read the labels of the running containers,  *)
(* an unsync those of all containers of the project.                        *)
Begin(p, req) ==
  /\ Reached(p, "idle") /\ (Serial => AllIdle)
  /\ Become(p, [Idle EXCEPT !.pc = "load", !.req = req])
  /\ UNCHANGED <<file, certVars, pid, daemonVars, untold>>

LoadKeepsOldRoutes(p) ==    \* a mistake: the old route of the domain stays
  /\ Reached(p, "load")
  /\ Become(p, [cli[p] EXCEPT !.base = file.routes,
                   !.cfg = Without(file.routes \cup cli[p].req.new, cli[p].req.gone),
                   !.pc = IF cli[p].req.op = "sync" THEN "cert" ELSE "save"])
  /\ UNCHANGED <<file, certVars, pid, daemonVars, untold>>

(* config::load and the edit.  An unreadable file aborts the command;       *)
(* nothing to remove ends it.  A sync sees to the certificate first.        *)
Load(p) ==
  /\ Reached(p, "load")
  /\ LET req == cli[p].req
         new == Apply(req, file.routes)
     IN IF ~Readable \/ (req.new = {} /\ new = file.routes)
        THEN Finish(p)
        ELSE Become(p, [cli[p] EXCEPT !.base = file.routes, !.cfg = new,
                          !.pc = IF req.op = "sync" THEN "cert" ELSE "save"])
  /\ UNCHANGED <<file, certVars, pid, daemonVars, untold>>

(* ensure_server_cert comes before the save in a sync, after it in an       *)
(* unsync.  A failure is only warned about: as if nothing had changed.      *)
AfterCert(c, changed) ==
  IF c.req.op = "sync" THEN [c EXCEPT !.pc = "save", !.changed = changed]
                       ELSE Telling(c.req.op, "signal", changed)

(* A new certificate unless the stored one is said to carry the wanted      *)
(* names exactly, or none are wanted.                                       *)
CheckCert(p) ==
  /\ Reached(p, "cert")
  /\ LET wanted == Wanted(cli[p].cfg)
         current == made /\ (record = wanted \/ wanted = {})
     IN \/ current /\ Become(p, AfterCert(cli[p], FALSE))
        \/ ~current /\ Goto(p, "pem")
        \/ ~current /\ "cert" \in Breakable /\ Become(p, AfterCert(cli[p], FALSE))
  /\ UNCHANGED <<file, certVars, pid, daemonVars, untold>>

(* The certificate is renamed into place; how, is CertStore's subject.      *)
WritePem(p) ==
  /\ Reached(p, "pem")
  /\ made' = TRUE /\ sans' = Wanted(cli[p].cfg)
  /\ Goto(p, "record")
  /\ UNCHANGED <<file, record, pid, daemonVars, untold>>

(* save_sans.  If it fails, the command does not know of the certificate it *)
(* made.                                                                    *)
Record(p) ==
  /\ Reached(p, "record")
  /\ \/ /\ record' = Wanted(cli[p].cfg)
        /\ Become(p, AfterCert(cli[p], TRUE))
        /\ UNCHANGED untold
     \/ /\ "record" \in Breakable
        /\ Become(p, AfterCert(cli[p], FALSE))
        /\ untold' = HaveRead
        /\ UNCHANGED record
  /\ UNCHANGED <<file, made, sans, pid, daemonVars>>

(* std::fs::write truncates the file and then writes it.                    *)
Truncate(p) ==
  /\ Reached(p, "save")
  /\ file' = Truncated
  /\ Goto(p, "write")
  /\ UNCHANGED <<certVars, pid, daemonVars, untold>>

(* A sync has seen to the certificate, an unsync does so now; the manual    *)
(* commands only send the signal.                                           *)
AfterWrite(c) ==
  CASE c.req.op = "sync" -> Telling("sync", "signal", c.changed)
    [] c.req.op = "unsync" -> [Telling("unsync", "cert", FALSE) EXCEPT !.cfg = c.cfg]
    [] OTHER -> Telling("none", "hup", FALSE)

(* Somebody else's bytes may be there already: a shorter text written over  *)
(* a longer one leaves its tail.                                            *)
WriteText(p) ==
  /\ Reached(p, "write")
  /\ \/ file' = Whole(cli[p].cfg)
     \/ file \notin {Truncated, Whole(cli[p].cfg)} /\ file' = Overlaid
  /\ Become(p, AfterWrite(cli[p]))
  /\ UNCHANGED <<certVars, pid, daemonVars, untold>>

Save(p) == Truncate(p) \/ WriteText(p)

(* A command that changed a file looks for the daemon once, by proxy.pid.   *)
(* Every other process that read the files before is never told.            *)
Missed(told) == untold' = untold \cup (HaveRead \ {told})

SignalAlways(p) ==          \* a mistake: no restart for a new certificate
  /\ Reached(p, "signal") /\ Found /\ (cli[p].req.op = "sync" => made)
  /\ Become(p, Telling("none", "hup", FALSE))
  /\ UNCHANGED <<file, certVars, pid, daemonVars, untold>>

(* A daemon that runs reloads its routes, or is restarted for a new         *)
(* certificate.                                                             *)
FindDaemon(p) ==
  /\ Reached(p, "signal") /\ Found /\ (cli[p].req.op = "sync" => made)
  /\ Become(p, Telling("none", IF cli[p].changed THEN "stop" ELSE "hup", cli[p].changed))
  /\ UNCHANGED <<file, certVars, pid, daemonVars, untold>>

(* None is found: a sync starts one.  It does not even look as long as      *)
(* there is no certificate.                                                 *)
NoDaemon(p) ==
  /\ Reached(p, "signal")
  /\ \/ cli[p].req.op = "sync" /\ ~made /\ Finish(p)
     \/ cli[p].req.op = "sync" /\ made /\ ~Found /\ Become(p, Telling("none", "spawn", FALSE))
     \/ cli[p].req.op # "sync" /\ ~Found /\ Finish(p)
  /\ Missed(NoPid)
  /\ UNCHANGED <<file, certVars, pid, daemonVars>>

KillKeepsSignal(i) ==       \* a mistake: what the old daemon was sent survives
  /\ boots' = [boots EXCEPT ![i] = Absent]
  /\ untold' = (untold \cup HaveRead) \ {i}
  /\ IF dpid = i
     THEN daemon' = "off" /\ dpid' = NoPid /\ reload' = {} /\ table' = {} /\ acceptor' = {}
     ELSE UNCHANGED <<daemon, dpid, reload, table, acceptor>>
  /\ UNCHANGED hup

(* The process ends.                                                        *)
Kill(i) ==
  /\ boots' = [boots EXCEPT ![i] = Absent]
  /\ untold' = (untold \cup HaveRead) \ {i}
  /\ IF dpid = i
     THEN /\ daemon' = "off" /\ dpid' = NoPid /\ hup' = FALSE /\ reload' = {}
          /\ table' = {} /\ acceptor' = {}
     ELSE UNCHANGED <<daemon, dpid, hup, reload, table, acceptor>>

(* sighup_daemon looks once more.  A process that has no handler yet dies   *)
(* of the signal.                                                           *)
Hangup(p) ==
  /\ Reached(p, "hup")
  /\ \/ ~Found /\ Missed(NoPid) /\ UNCHANGED daemonVars
     \/ /\ Found /\ pid = dpid /\ daemon = "on"
        /\ hup' = TRUE /\ Missed(pid)
        /\ UNCHANGED <<boots, daemon, dpid, reload, table, acceptor>>
     \/ Found /\ ~(pid = dpid /\ daemon = "on") /\ Kill(pid)
  /\ Finish(p)
  /\ UNCHANGED <<file, certVars, pid>>

(* run_stop looks once more, ends the process it finds and then removes     *)
(* proxy.pid, whatever that names by now.                                   *)
Stop(p) ==
  /\ Reached(p, "stop")
  /\ \/ ~Found /\ Missed(NoPid) /\ Become(p, Telling("none", "spawn", FALSE)) /\ UNCHANGED daemonVars
     \/ Found /\ Kill(pid) /\ Become(p, Telling("none", "unlink", FALSE))
  /\ UNCHANGED <<file, certVars, pid>>

Unlink(p) ==
  /\ Reached(p, "unlink")
  /\ pid' = NoPid
  /\ Goto(p, "spawn")
  /\ UNCHANGED <<file, certVars, daemonVars, untold>>

(* spawn_daemon: a process is there before proxy.pid names it.              *)
Spawn(p) ==
  /\ Reached(p, "spawn")
  /\ \E i \in Pids :
       /\ ~Exists(i) /\ \A q \in Clis : cli[q].child # i
       /\ boots' = [boots EXCEPT ![i].at = "started"]
       /\ Become(p, [cli[p] EXCEPT !.child = i, !.pc = "track"])
  /\ UNCHANGED <<file, certVars, pid, daemon, dpid, hup, reload, table, acceptor, untold>>

Track(p) ==
  /\ Reached(p, "track")
  /\ pid' = cli[p].child
  /\ Finish(p)
  /\ UNCHANGED <<file, certVars, daemonVars, untold>>

(* Ctrl-C, an error, or the machine goes down.  What the command changed    *)
(* and was going to tell, nobody is told.                                   *)
Owes(c) ==
  \/ c.pc \in {"record", "signal", "hup", "stop"}
  \/ c.pc \in {"save", "write"} /\ c.changed
  \/ c.pc \in {"cert", "pem"} /\ c.req.op = "unsync"

Interrupt(p) ==
  /\ cli[p].pc \in Breakable \ {"idle"}
  /\ Finish(p)
  /\ IF Owes(cli[p]) THEN Missed(NoPid) ELSE UNCHANGED untold
  /\ UNCHANGED <<file, certVars, pid, daemonVars>>
-----------------------------------------------------------------------------
(* The daemon                                                              *)

(* run_serve reads config.json and run loads the certificate; an unreadable *)
(* file, or no certificate, ends the process.                               *)
ReadFiles(i) ==
  /\ boots[i].at = "started"
  /\ boots' = [boots EXCEPT ![i] = IF Readable /\ made
                                  THEN [at |-> "read", routes |-> file.routes, sans |-> sans]
                                  ELSE Absent]
  /\ UNCHANGED <<file, cli, certVars, pid, daemon, dpid, hup, reload, table, acceptor, untold>>

(* It gets the ports, or somebody else has them and it ends.                *)
Bind(i) ==
  /\ boots[i].at = "read"
  /\ boots' = [boots EXCEPT ![i] = Absent]
  /\ IF dpid = NoPid
     THEN /\ daemon' = "loaded" /\ dpid' = i
          /\ table' = boots[i].routes /\ acceptor' = boots[i].sans
          /\ UNCHANGED untold
     ELSE untold' = untold \ {i} /\ UNCHANGED <<daemon, dpid, table, acceptor>>
  /\ UNCHANGED <<file, cli, certVars, pid, hup, reload>>

HandlerReady ==
  /\ daemon = "loaded"
  /\ daemon' = "on"
  /\ UNCHANGED <<file, cli, certVars, pid, boots, dpid, hup, reload, table, acceptor, untold>>

ReloadOrDie ==              \* a mistake: load()? in the handler
  /\ daemon = "on" /\ hup /\ reload = {}
  /\ hup' = FALSE
  /\ reload' = IF Readable THEN {file.routes} ELSE {}
  /\ daemon' = IF Readable THEN daemon ELSE "off"
  /\ dpid' = IF Readable THEN dpid ELSE NoPid
  /\ UNCHANGED <<file, cli, certVars, pid, boots, table, acceptor, untold>>

(* The SIGHUP task: read the file, then wait for the lock and replace the   *)
(* table.  A file that cannot be read leaves the table as it is.            *)
ReloadRead ==
  /\ daemon = "on" /\ hup /\ reload = {}
  /\ hup' = FALSE
  /\ reload' = IF Readable THEN {file.routes} ELSE {}
  /\ UNCHANGED <<file, cli, certVars, pid, boots, daemon, dpid, table, acceptor, untold>>

ReloadForgets ==            \* a mistake: the signal is cleared at the end
  /\ \E routes \in reload : table' = routes
  /\ reload' = {} /\ hup' = FALSE
  /\ UNCHANGED <<file, cli, certVars, pid, boots, daemon, dpid, acceptor, untold>>

ReloadWrite ==
  /\ \E routes \in reload : table' = routes
  /\ reload' = {}
  /\ UNCHANGED <<file, cli, certVars, pid, boots, daemon, dpid, hup, acceptor, untold>>

BootStep(i) == ReadFiles(i) \/ Bind(i)
DaemonStep == (\E i \in Pids : BootStep(i)) \/ HandlerReady \/ ReloadRead \/ ReloadWrite

CertStep(p) == CheckCert(p) \/ WritePem(p) \/ Record(p)
TellStep(p) ==
  \/ FindDaemon(p) \/ NoDaemon(p) \/ Hangup(p) \/ Stop(p)
  \/ Unlink(p) \/ Spawn(p) \/ Track(p)
CliStep(p) == Load(p) \/ CertStep(p) \/ Save(p) \/ TellStep(p)

ConfigNext ==
  \/ \E p \in Clis : (\E req \in Requests : Begin(p, req)) \/ CliStep(p) \/ Interrupt(p)
  \/ DaemonStep

ConfigSpec == ConfigInit /\ [][ConfigNext]_configVars
-----------------------------------------------------------------------------
(* Properties                                                              *)

(* What a reader finds once the writer is done: while a command writes, the *)
(* routes it loaded.                                                        *)
Durable ==
  IF \E p \in Clis : Reached(p, "write")
  THEN cli[CHOOSE p \in Clis : Reached(p, "write")].base
  ELSE file.routes

(* What a command was asked and has not yet written.                        *)
Pending(c) ==
  IF \/ c.pc \in {"load", "save", "write"}
     \/ c.pc \in {"cert", "pem", "record"} /\ c.req.op = "sync"
  THEN c.req ELSE NoRequest
Asked == [p \in Clis |-> Pending(cli[p])]

Registry == INSTANCE RouteRegistry WITH
  registry <- Durable, asked <- Asked, None <- NoRequest

(* Run one after the other, the commands keep a registry: each changes it   *)
(* in one step, once and exactly as asked, or not at all, and the truncated *)
(* file between the two halves of a write is never built upon.              *)
KeepsRegistry == Registry!Spec

(* Whatever commands run together and wherever they are interrupted, a file *)
(* that can be read, and the daemon's table, have one route per domain.     *)
OneRoutePerDomain ==
  /\ Unambiguous(file.routes)
  /\ Unambiguous(table)

(* The daemon loads its certificate once, so a command that changed it has  *)
(* to restart the daemon: with no command under way, a running daemon       *)
(* serves the stored certificate, also when several commands changed it.    *)
(* The exceptions are daemons that a change was never told of: a command    *)
(* was interrupted or failed on its way, or did not find the daemon, as     *)
(* proxy.pid did not name it yet, or no longer, or named another.           *)
CertificateCurrent ==
  AllIdle /\ daemon = "on" /\ dpid \notin untold => acceptor = sans

(* A file the daemon cannot read, because a writer is half-way or was       *)
(* interrupted, never takes the running daemon down: only a restart does.   *)
OnlyRestartStopsDaemon ==
  [][daemon = "on" /\ daemon' = "off" =>
       \E p \in Clis : Reached(p, "stop") /\ cli[p].changed]_configVars

(* Signals that come in while the handler is at work are not lost, nor are  *)
(* changes while it boots: with no command under way and no signal or       *)
(* reload at hand, a daemon that was told of every change has the file's    *)
(* routes, whatever it read in between.                                     *)
DaemonCaughtUp ==
  AllIdle /\ daemon = "on" /\ ~hup /\ reload = {} /\ Readable /\ dpid \notin untold
  => table = file.routes
=============================================================================
