----------------------------- MODULE CertStore ------------------------------
(* The certificate files of the proxy, src/proxy/certs.rs: a CA made once,  *)
(* and a server key and certificate made again whenever the names it has to *)
(* carry change.  Several `dip` processes may be at it, each can die at any *)
(* time, and a file is replaced by way of a temporary sibling whose name    *)
(* all processes share.                                                     *)
EXTENDS Naturals, Sequences

CONSTANTS
  Procs,      \* processes that call ensure_server_cert or run_init
  Wants,      \* the sets of names a call may need
  Localhost,  \* the name a certificate carries that needs none
  MaxKeys,    \* bound: how many key pairs are generated
  Overlap,    \* may two processes be at it at once?
  Breakable   \* the files during whose replacement a process may die

Files == {"ca.key", "ca.pem", "server.key", "server.pem", "server.sans"}
ASSUME CertBounds == MaxKeys \in Nat /\ Overlap \in BOOLEAN /\ Breakable \subseteq Files

VARIABLES
  target,   \* target[f]: what the file holds
  tmp,      \* tmp[f]: what its temporary sibling holds
  proc,     \* proc[p]: what process p is doing
  keys,     \* how many key pairs were generated; the last one's number
  trusted,  \* the CA key the system trusts, 0 for none
  torn      \* history: did a process stop half-way through the server's files?

certVars == <<target, tmp, proc, keys, trusted, torn>>

(* What is in a file: "none" if there is no such file, "cut" if a writer    *)
(* truncated it, "mixed" if two wrote it.  Key 0 and no names where a file  *)
(* has none.                                                                *)
Names == {Localhost} \cup UNION Wants
Content == [text : {"none", "cut", "mixed", "whole"}, key : Nat, ca : Nat, names : SUBSET Names]
Absent == [text |-> "none", key |-> 0, ca |-> 0, names |-> {}]
Cut == [Absent EXCEPT !.text = "cut"]
Mixed == [Absent EXCEPT !.text = "mixed"]
Text(key, ca, names) == [text |-> "whole", key |-> key, ca |-> ca, names |-> names]
Exists(f) == target[f].text # "none"

(* A process: what it needs, the files it has still to replace, and where   *)
(* the file it has open is now: the sibling, the file itself (somebody else *)
(* renamed it) or no file any more.                                         *)
Resting == [pc |-> "rest", op |-> "ensure", want |-> {}, todo |-> << >>,
            handle |-> "none", wrote |-> FALSE]
Handles == {"none", "tmp", "target", "lost"}
At(p, pc) == proc[p].pc = pc

CertTypeOK ==
  /\ target \in [Files -> Content] /\ tmp \in [Files -> Content]
  /\ \A p \in Procs :
       /\ proc[p].pc \in {"rest", "ca", "install", "check", "issue", "save"}
       /\ proc[p].handle \in Handles
       /\ At(p, "save") <=> proc[p].todo # << >>
       /\ proc[p].wrote => proc[p].handle # "none"
       /\ \A i \in DOMAIN proc[p].todo :
            proc[p].todo[i][1] \in Files /\ proc[p].todo[i][2] \in Content
  /\ keys \in 0..MaxKeys /\ trusted \in 0..MaxKeys /\ torn \in BOOLEAN

CertInit ==
  /\ target = [f \in Files |-> Absent] /\ tmp = [f \in Files |-> Absent]
  /\ proc = [p \in Procs |-> Resting]
  /\ keys = 0 /\ trusted = 0 /\ torn = FALSE
-----------------------------------------------------------------------------
Move(p, pc) == proc' = [proc EXCEPT ![p].pc = pc]
Return(p) == proc' = [proc EXCEPT ![p] = Resting]

(* ensure_server_cert(domains), or run_init, which sees to the CA first.    *)
Call(p, op, want) ==
  /\ At(p, "rest") /\ (~Overlap => \A q \in Procs : At(q, "rest"))
  /\ proc' = [proc EXCEPT ![p] = [Resting EXCEPT
       !.pc = IF op = "init" THEN "ca" ELSE "check", !.op = op, !.want = want]]
  /\ UNCHANGED <<target, tmp, keys, trusted, torn>>

CheckSkipsSans(p) ==        \* a mistake: any certificate will do
  /\ At(p, "check")
  /\ IF Exists("server.pem") THEN Return(p) ELSE Move(p, "ca")
  /\ UNCHANGED <<target, tmp, keys, trusted, torn>>

(* A certificate is there, and no name is needed or server.sans lists       *)
(* exactly the needed ones: nothing to do.                                  *)
Check(p) ==
  /\ At(p, "check")
  /\ IF Exists("server.pem") /\ proc[p].want \in {{}, target["server.sans"].names}
     THEN Return(p)
     ELSE Move(p, "ca")
  /\ UNCHANGED <<target, tmp, keys, trusted, torn>>

EnsureCaAnew(p) ==          \* a mistake: a CA for every certificate
  /\ At(p, "ca") /\ keys < MaxKeys
  /\ keys' = keys + 1
  /\ proc' = [proc EXCEPT ![p].pc = "save",
                          ![p].todo = <<<<"ca.key", Text(keys + 1, 0, {})>>,
                                        <<"ca.pem", Text(keys + 1, 0, {})>>>>]
  /\ UNCHANGED <<target, tmp, trusted, torn>>

(* ensure_ca: both files are read if both exist, and made anew, key first,  *)
(* if one is missing.  A file that does not parse ends the call.            *)
EnsureCa(p) ==
  /\ At(p, "ca")
  /\ IF Exists("ca.pem") /\ Exists("ca.key")
     THEN /\ IF target["ca.pem"].text = "whole" /\ target["ca.key"].text = "whole"
             THEN Move(p, IF proc[p].op = "init" THEN "install" ELSE "issue")
             ELSE Return(p)
          /\ UNCHANGED keys
     ELSE /\ keys < MaxKeys
          /\ keys' = keys + 1
          /\ proc' = [proc EXCEPT ![p].pc = "save",
                        ![p].todo = <<<<"ca.key", Text(keys + 1, 0, {})>>,
                                      <<"ca.pem", Text(keys + 1, 0, {})>>>>]
  /\ UNCHANGED <<target, tmp, trusted, torn>>

(* install_ca: the system trusts the CA on disk from now on.  When it fails *)
(* the call goes on with a warning; what was trusted before may be gone,    *)
(* as the old entry is removed first, and the new one may be there already, *)
(* as the refresh of the system's store comes last.                         *)
InstallCa(p) ==
  /\ At(p, "install")
  /\ trusted' \in {target["ca.pem"].key, trusted, 0}
  /\ proc' = [proc EXCEPT ![p].pc = "check", ![p].op = "ensure"]
  /\ UNCHANGED <<target, tmp, keys, torn>>

(* No certificate is without a name.                                        *)
Carried(want) == IF want = {} THEN {Localhost} ELSE want

IssueSansFirst(p) ==        \* a mistake: server.sans is written before the rest
  /\ At(p, "issue") /\ keys < MaxKeys
  /\ keys' = keys + 1
  /\ proc' = [proc EXCEPT ![p].pc = "save",
       ![p].todo = <<<<"server.sans", Text(0, 0, proc[p].want)>>,
                     <<"server.key", Text(keys + 1, 0, {})>>,
                     <<"server.pem", Text(keys + 1, target["ca.key"].key, Carried(proc[p].want))>>>>]
  /\ UNCHANGED <<target, tmp, trusted, torn>>

(* A key pair, a certificate for the needed names signed by the CA, and the *)
(* list of names, in this order.                                            *)
Issue(p) ==
  /\ At(p, "issue") /\ keys < MaxKeys
  /\ keys' = keys + 1
  /\ proc' = [proc EXCEPT ![p].pc = "save",
       ![p].todo = <<<<"server.key", Text(keys + 1, 0, {})>>,
                     <<"server.pem", Text(keys + 1, target["ca.key"].key, Carried(proc[p].want))>>,
                     <<"server.sans", Text(0, 0, proc[p].want)>>>>]
  /\ UNCHANGED <<target, tmp, trusted, torn>>
-----------------------------------------------------------------------------
(* write_atomic, three steps for each file to replace                      *)

Replacing(p, f) == At(p, "save") /\ proc[p].todo # << >> /\ Head(proc[p].todo)[1] = f

Open(p, f) ==
  /\ Replacing(p, f) /\ proc[p].handle = "none"
  /\ tmp' = [tmp EXCEPT ![f] = Cut]
  /\ proc' = [proc EXCEPT ![p].handle = "tmp"]
  /\ UNCHANGED <<target, keys, trusted, torn>>

(* write_all: onto an empty file, or over what another process wrote.       *)
Onto(old, new) == {new} \cup IF old.text = "cut" \/ old = new THEN {} ELSE {Mixed}

WriteAll(p, f) ==
  /\ Replacing(p, f) /\ proc[p].handle # "none" /\ ~proc[p].wrote
  /\ LET new == Head(proc[p].todo)[2]
     IN \/ proc[p].handle = "tmp" /\ UNCHANGED target
             /\ \E c \in Onto(tmp[f], new) : tmp' = [tmp EXCEPT ![f] = c]
        \/ proc[p].handle = "target" /\ UNCHANGED tmp
             /\ \E c \in Onto(target[f], new) : target' = [target EXCEPT ![f] = c]
        \/ proc[p].handle = "lost" /\ UNCHANGED <<target, tmp>>
  /\ proc' = [proc EXCEPT ![p].wrote = TRUE]
  /\ UNCHANGED <<keys, trusted, torn>>

(* What the rename of f does to the files other processes have open.        *)
Follow(q, f) ==
  LET h == proc[q].handle IN
  IF ~Replacing(q, f) THEN h
  ELSE IF h = "tmp" THEN "target" ELSE IF h = "target" THEN "lost" ELSE h

AfterRenameStays(p) ==      \* a mistake: off by one
  IF Len(proc[p].todo) >= 1 THEN "save" ELSE "rest"

(* The sibling takes the file's place; if another process renamed it away   *)
(* already, this call fails.  After the last file of the CA the call goes   *)
(* on, after the last of the server it returns.                             *)
AfterRename(p) ==
  IF Len(proc[p].todo) > 1 THEN "save"
  ELSE IF Head(proc[p].todo)[1] # "ca.pem" THEN "rest"
  ELSE IF proc[p].op = "init" THEN "install" ELSE "issue"

(* A process stops before it renamed f.  The server's key may be in place   *)
(* already; whoever gets as far as server.sans has replaced all three.      *)
Stop(p, f) ==
  /\ Return(p)
  /\ torn' = (torn \/ f \in {"server.pem", "server.sans"})

RenameAhead(p, f) ==        \* a mistake: the rename does not wait for the write
  /\ Replacing(p, f) /\ proc[p].handle # "none"
  /\ target' = [target EXCEPT ![f] = tmp[f]] /\ tmp' = [tmp EXCEPT ![f] = Absent]
  /\ proc' = [proc EXCEPT ![p] = IF AfterRename(p) = "rest" THEN Resting ELSE
                [@ EXCEPT !.pc = AfterRename(p), !.todo = Tail(@), !.handle = "none", !.wrote = FALSE]]
  /\ UNCHANGED <<keys, trusted, torn>>

Rename(p, f) ==
  /\ Replacing(p, f) /\ proc[p].wrote
  /\ IF tmp[f].text = "none"
     THEN Stop(p, f) /\ UNCHANGED <<target, tmp>>
     ELSE /\ torn' = (torn /\ f # "server.sans")
          /\ target' = [target EXCEPT ![f] = tmp[f]]
          /\ tmp' = [tmp EXCEPT ![f] = Absent]
          /\ proc' = [q \in Procs |->
               IF q # p THEN [proc[q] EXCEPT !.handle = Follow(q, f)]
               ELSE IF AfterRename(p) = "rest" THEN Resting
               ELSE [proc[p] EXCEPT !.pc = AfterRename(p), !.todo = Tail(@),
                                    !.handle = "none", !.wrote = FALSE]]
  /\ UNCHANGED <<keys, trusted>>

(* The process dies: its sibling file stays behind as it is.                *)
Die(p, f) ==
  /\ Replacing(p, f) /\ f \in Breakable
  /\ Stop(p, f)
  /\ UNCHANGED <<target, tmp, keys, trusted>>

Replace(p, f) == Open(p, f) \/ WriteAll(p, f) \/ Rename(p, f)

CertNext ==
  \E p \in Procs :
    \/ \E op \in {"ensure", "init"}, want \in Wants : Call(p, op, want)
    \/ Check(p) \/ EnsureCa(p) \/ InstallCa(p) \/ Issue(p)
    \/ \E f \in Files : Replace(p, f) \/ Die(p, f)

CertSpec == CertInit /\ [][CertNext]_certVars
-----------------------------------------------------------------------------
(* Properties                                                              *)

(* "readers never observe a partially written file even if the process dies *)
(* mid-write or two processes write concurrently" (certs.rs:379).           *)
NeverPartial == \A f \in Files : target[f].text \in {"none", "whole"}

(* "Ensure the server cert covers all domains" (certs.rs:76): when a call   *)
(* returns, whether it made a certificate or found one good enough, there   *)
(* is a certificate that goes with the key, so that the daemon can load the *)
(* two, and that carries exactly the needed names, if any were needed.      *)
(* The exception is what a process leaves that died between the renames of  *)
(* the server's three files (torn): a call that finds the names it needs in *)
(* the old list does not repair it.  The next that makes a certificate does.*)
EnsureLeavesUsable ==
  [][\A p \in Procs :
       (At(p, "check") \/ Replacing(p, "server.sans")) /\ proc'[p] = Resting /\ ~torn'
       => /\ target'["server.pem"].text # "none"
          /\ target'["server.pem"].key = target'["server.key"].key
          /\ proc[p].want # {} => target'["server.pem"].names = proc[p].want]_certVars

(* "all dip HTTPS domains are now trusted" (setup.rs:30): a CA the system   *)
(* trusts is the one that signed the server certificate.                    *)
ChainTrusted ==
  trusted # 0 /\ Exists("server.pem") => target["server.pem"].ca = trusted
=============================================================================
