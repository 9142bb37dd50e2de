----------------------------- MODULE CertProofs ----------------------------
(* The certificate files, for every set of processes and of names and every *)
(* bound: their types; and of one process at a time, wherever it may die:   *)
(* that no file is half written, that the server certificate is signed by   *)
(* the CA the system trusts, and that a call leaves a certificate it can    *)
(* use behind.                                                              *)
EXTENDS CertStore, SequenceTheorems, TLAPS

Pcs == {"rest", "ca", "install", "check", "issue", "save"}
Number == 0..MaxKeys
Small == [text : {"none", "cut", "mixed", "whole"}, key : Number, ca : Number, names : SUBSET Names]
Process == [pc : Pcs, op : {"ensure", "init"}, want : SUBSET Names, todo : Seq(Files \X Small),
            handle : Handles, wrote : BOOLEAN]

(* The part of the type invariant that a step preserves: the keys in files  *)
(* and in what is still to write are keys that were generated.              *)
Typed ==
  /\ target \in [Files -> Small] /\ tmp \in [Files -> Small]
  /\ proc \in [Procs -> Process]
  /\ \A p \in Procs : /\ At(p, "save") <=> proc[p].todo # << >>
                      /\ proc[p].wrote => proc[p].handle # "none"
  /\ keys \in Number /\ trusted \in Number

(* A certificate's names are names.                                         *)
LEMMA CarriedNames == ASSUME NEW want \in SUBSET Names PROVE Carried(want) \in SUBSET Names
BY DEF Carried, Names

(* What a file may hold, absent, cut, mixed or whole, has the type.         *)
LEMMA ContentSmall ==
  ASSUME NEW key \in Number, NEW ca \in Number, NEW names \in SUBSET Names
  PROVE  Absent \in Small /\ Cut \in Small /\ Mixed \in Small /\ Text(key, ca, names) \in Small
<1>1. 0 \in Number
  BY CertBounds DEF Number
<1> QED
  BY <1>1 DEF Absent, Cut, Mixed, Text, Small

(* A process at rest has the type.                                          *)
LEMMA RestingTyped == Resting \in Process
<1>1. << >> \in Seq(Files \X Small)
  OBVIOUS
<1> QED
  BY <1>1 DEF Resting, Process, Pcs, Handles

(* The rest of a list that is not empty.                                    *)
LEMMA RestOfList ==
  ASSUME NEW S, NEW s \in Seq(S), s # << >>
  PROVE  Tail(s) \in Seq(S) /\ (Tail(s) # << >> <=> Len(s) > 1)
<1>1. Tail(s) \in Seq(S) /\ Len(Tail(s)) = Len(s) - 1 /\ Len(s) \in Nat \ {0}
  BY HeadTailProperties, EmptySeq
<1>2. ASSUME Tail(s) # << >> PROVE Len(Tail(s)) \in Nat \ {0}
  BY <1>1, <1>2, EmptySeq
<1>3. ASSUME Tail(s) = << >> PROVE Len(Tail(s)) = 0
  BY <1>3, EmptySeq
<1>4. Tail(s) # << >> <=> Len(s) > 1
  <2> DEFINE n == Len(s)
             m == Len(Tail(s))
  <2>1. n \in Nat /\ m = n - 1
    BY <1>1
  <2>2. (Tail(s) # << >> => m \in Nat \ {0}) /\ (Tail(s) = << >> => m = 0)
    BY <1>2, <1>3
  <2> HIDE DEF n, m
  <2>3. Tail(s) # << >> <=> n > 1
    BY <2>1, <2>2
  <2> QED
    BY <2>3 DEF n
<1> QED
  BY <1>1, <1>4

(* A process whose file another one renamed keeps its type.                 *)
LEMMA Followed ==
  ASSUME NEW r \in Process, NEW h \in Handles, NEW next, next = [r EXCEPT !.handle = h]
  PROVE  /\ next \in Process /\ next.handle = h
         /\ next.pc = r.pc /\ next.todo = r.todo /\ next.wrote = r.wrote
BY DEF Process

(* Typed says what the module's own type invariant says.                    *)
LEMMA TypedImplies == Typed /\ torn \in BOOLEAN => CertTypeOK
<1> SUFFICES ASSUME Typed, torn \in BOOLEAN PROVE CertTypeOK
  OBVIOUS
<1>1. Small \subseteq Content
  BY CertBounds DEF Small, Content, Number
<1>2. target \in [Files -> Content] /\ tmp \in [Files -> Content]
  BY <1>1 DEF Typed
<1>3. ASSUME NEW p \in Procs, NEW i \in DOMAIN proc[p].todo
      PROVE  proc[p].todo[i][1] \in Files /\ proc[p].todo[i][2] \in Content
  <2>1. proc[p].todo \in Seq(Files \X Small)
    BY DEF Typed, Process
  <2>2. proc[p].todo[i] \in Files \X Small
    BY <2>1
  <2> QED
    BY <1>1, <2>2
<1> QED
  BY <1>2, <1>3 DEF Typed, CertTypeOK, Process, Pcs, Number

(* No file, every process at rest.                                          *)
LEMMA InitTyped == CertInit => Typed
<1> SUFFICES ASSUME CertInit PROVE Typed
  OBVIOUS
<1>1. 0 \in Number
  BY CertBounds DEF Number
<1>2. Absent \in Small
  BY <1>1, ContentSmall
<1>3. Resting.todo = << >> /\ Resting.pc = "rest" /\ Resting.wrote = FALSE
  BY DEF Resting
<1> QED
  BY <1>1, <1>2, <1>3, RestingTyped DEF CertInit, Typed, At

(* The step of one process that leaves the files alone keeps the types, if  *)
(* what becomes of the process has its type.                                *)
LEMMA OneMoves ==
  ASSUME Typed, NEW p \in Procs, NEW next \in Process,
         next.pc = "save" <=> next.todo # << >>, next.wrote => next.handle # "none",
         proc' = [proc EXCEPT ![p] = next],
         target' \in [Files -> Small], tmp' \in [Files -> Small],
         keys' \in Number, trusted' \in Number
  PROVE  Typed'
BY DEF Typed, At

(* Every step, one of them for each action, keeps the types.                *)
LEMMA StepTyped == Typed /\ [CertNext]_certVars => Typed'
<1> SUFFICES ASSUME Typed, [CertNext]_certVars PROVE Typed'
  OBVIOUS
<1> USE DEF Number
<1>1. ASSUME NEW p \in Procs, NEW op \in {"ensure", "init"}, NEW want \in Wants, Call(p, op, want)
      PROVE  Typed'
  <2> DEFINE next == [Resting EXCEPT !.pc = IF op = "init" THEN "ca" ELSE "check", !.op = op, !.want = want]
  <2>1. next \in Process /\ next.pc # "save" /\ next.todo = << >> /\ next.wrote = FALSE
    <3>1. want \in SUBSET Names
      BY DEF Names
    <3> QED
      BY <3>1, RestingTyped DEF Resting, Process, Pcs
  <2>2. proc' = [proc EXCEPT ![p] = next]
    BY <1>1 DEF Call
  <2> HIDE DEF next
  <2> QED
    BY <1>1, <2>1, <2>2, OneMoves DEF Call, Typed
<1>2. ASSUME NEW p \in Procs, UNCHANGED <<target, tmp, keys>>, trusted' \in Number, Return(p) PROVE Typed'
  <2>1. Resting.todo = << >> /\ Resting.pc = "rest" /\ Resting.wrote = FALSE
    BY DEF Resting
  <2> QED
    BY <1>2, <2>1, RestingTyped, OneMoves DEF Return, Typed
<1>3. ASSUME NEW p \in Procs, NEW pc \in Pcs \ {"save"}, ~At(p, "save"), Move(p, pc),
             UNCHANGED <<target, tmp, keys, trusted>>
      PROVE  Typed'
  <2> DEFINE next == [proc[p] EXCEPT !.pc = pc]
  <2>1. next \in Process /\ next.pc = pc /\ next.todo = proc[p].todo
        /\ next.wrote = proc[p].wrote /\ next.handle = proc[p].handle
    BY ZenonT(60) DEF Typed, Process
  <2>2. proc' = [proc EXCEPT ![p] = next]
    BY <1>3 DEF Move
  <2>3. next.todo = << >> /\ (next.wrote => next.handle # "none")
    BY <1>3, <2>1 DEF Typed
  <2> HIDE DEF next
  <2> QED
    BY <1>3, <2>1, <2>2, <2>3, OneMoves DEF Typed
<1>4. ASSUME NEW p \in Procs, Check(p) PROVE Typed'
  BY <1>2, <1>3, <1>4 DEF Check, At, Pcs, Typed
<1>5. ASSUME NEW p \in Procs, NEW todo \in Seq(Files \X Small), todo # << >>,
             proc' = [proc EXCEPT ![p].pc = "save", ![p].todo = todo],
             keys' \in Number, UNCHANGED <<target, tmp, trusted>>
      PROVE  Typed'
  <2> DEFINE next == [proc[p] EXCEPT !.pc = "save", !.todo = todo]
  <2>1. next \in Process /\ next.pc = "save" /\ next.todo = todo
        /\ next.wrote = proc[p].wrote /\ next.handle = proc[p].handle
    BY ZenonT(60) DEF Typed, Process, Pcs
  <2>2. proc' = [proc EXCEPT ![p] = next]
    BY <1>5 DEF Typed, Process
  <2>3. next.wrote => next.handle # "none"
    BY <2>1 DEF Typed
  <2> HIDE DEF next
  <2> QED
    BY ZenonT(60), <1>5, <2>1, <2>2, <2>3, OneMoves DEF Typed
<1>6. ASSUME NEW p \in Procs, EnsureCa(p) PROVE Typed'
  <2>1. CASE Exists("ca.pem") /\ Exists("ca.key")
    BY <1>2, <1>3, <1>6, <2>1 DEF EnsureCa, At, Pcs, Typed
  <2>2. CASE ~(Exists("ca.pem") /\ Exists("ca.key"))
    <3>1. keys + 1 \in Number /\ 0 \in Number
      BY <1>6, <2>2, CertBounds DEF EnsureCa, Typed
    <3>2. Text(keys + 1, 0, {}) \in Small
      BY <3>1, ContentSmall DEF Names
    <3>3. <<<<"ca.key", Text(keys + 1, 0, {})>>, <<"ca.pem", Text(keys + 1, 0, {})>>>>
             \in Seq(Files \X Small)
      BY <3>2 DEF Files
    <3> QED
      BY <1>5, <1>6, <2>2, <3>1, <3>3 DEF EnsureCa
  <2> QED
    BY <2>1, <2>2
<1>7. ASSUME NEW p \in Procs, InstallCa(p) PROVE Typed'
  <2> DEFINE next == [proc[p] EXCEPT !.pc = "check", !.op = "ensure"]
  <2>1. next \in Process /\ next.pc = "check" /\ next.todo = proc[p].todo
        /\ next.wrote = proc[p].wrote /\ next.handle = proc[p].handle
    BY ZenonT(60) DEF Typed, Process, Pcs
  <2>2. proc' = [proc EXCEPT ![p] = next]
    BY <1>7 DEF InstallCa, Typed, Process
  <2>3. next.todo = << >> /\ (next.wrote => next.handle # "none")
    BY <1>7, <2>1 DEF InstallCa, Typed, At
  <2>4. trusted' \in Number
    <3>1. target["ca.pem"].key \in Number /\ trusted \in Number
      BY DEF Typed, Small, Files
    <3>2. 0 \in Number
      BY CertBounds DEF Number
    <3> QED
      BY <1>7, <3>1, <3>2 DEF InstallCa
  <2> HIDE DEF next
  <2> QED
    BY ZenonT(60), <1>7, <2>1, <2>2, <2>3, <2>4, OneMoves DEF InstallCa, Typed
<1>8. ASSUME NEW p \in Procs, Issue(p) PROVE Typed'
  <2>1. keys + 1 \in Number /\ 0 \in Number
    BY <1>8, CertBounds DEF Issue, Typed
  <2>2. target["ca.key"].key \in Number /\ proc[p].want \in SUBSET Names
    BY DEF Typed, Small, Files, Process
  <2>3. /\ Text(keys + 1, 0, {}) \in Small
        /\ Text(keys + 1, target["ca.key"].key, Carried(proc[p].want)) \in Small
        /\ Text(0, 0, proc[p].want) \in Small
    BY <2>1, <2>2, CarriedNames, ContentSmall
  <2>4. <<<<"server.key", Text(keys + 1, 0, {})>>,
          <<"server.pem", Text(keys + 1, target["ca.key"].key, Carried(proc[p].want))>>,
          <<"server.sans", Text(0, 0, proc[p].want)>>>> \in Seq(Files \X Small)
    BY <2>3 DEF Files
  <2> QED
    BY <1>5, <1>8, <2>1, <2>4 DEF Issue
<1>9. ASSUME NEW p \in Procs, NEW f \in Files, Open(p, f) PROVE Typed'
  <2> DEFINE next == [proc[p] EXCEPT !.handle = "tmp"]
  <2>1. next \in Process /\ next.pc = proc[p].pc /\ next.todo = proc[p].todo /\ next.handle = "tmp"
    BY ZenonT(60) DEF Typed, Process, Handles
  <2>2. proc' = [proc EXCEPT ![p] = next]
    BY <1>9 DEF Open
  <2>3. tmp' \in [Files -> Small]
    BY <1>9, ContentSmall, CertBounds DEF Open, Typed
  <2>4. next.pc = "save" <=> next.todo # << >>
    BY <2>1 DEF Typed, At
  <2> HIDE DEF next
  <2> QED
    BY ZenonT(60), <1>9, <2>1, <2>2, <2>3, <2>4, OneMoves DEF Open, Typed
<1>10. ASSUME NEW p \in Procs, NEW f \in Files, WriteAll(p, f) PROVE Typed'
  <2> DEFINE next == [proc[p] EXCEPT !.wrote = TRUE]
  <2>1. next \in Process /\ next.pc = proc[p].pc /\ next.todo = proc[p].todo
        /\ next.handle = proc[p].handle
    BY ZenonT(60) DEF Typed, Process
  <2>2. proc' = [proc EXCEPT ![p] = next]
    BY <1>10 DEF WriteAll
  <2>3. Head(proc[p].todo)[2] \in Small
    <3>1. proc[p].todo \in Seq(Files \X Small) /\ proc[p].todo # << >>
      BY <1>10 DEF WriteAll, Replacing, Typed, Process
    <3>2. Head(proc[p].todo) \in Files \X Small
      BY <3>1
    <3> QED
      BY <3>2
  <2>4. \A old \in Small : Onto(old, Head(proc[p].todo)[2]) \subseteq Small
    BY <2>3, ContentSmall, CertBounds DEF Onto
  <2>5. tmp' \in [Files -> Small] /\ target' \in [Files -> Small]
    <3> DEFINE new == Head(proc[p].todo)[2]
    <3>1. CASE UNCHANGED target /\ \E c \in Onto(tmp[f], new) : tmp' = [tmp EXCEPT ![f] = c]
      BY <2>4, <3>1 DEF Typed
    <3>2. CASE UNCHANGED tmp /\ \E c \in Onto(target[f], new) : target' = [target EXCEPT ![f] = c]
      BY <2>4, <3>2 DEF Typed
    <3>3. CASE UNCHANGED <<target, tmp>>
      BY <3>3 DEF Typed
    <3> QED
      BY <1>10, <3>1, <3>2, <3>3 DEF WriteAll
  <2>6. (next.pc = "save" <=> next.todo # << >>) /\ next.handle # "none"
    BY <1>10, <2>1 DEF WriteAll, Typed, At
  <2> HIDE DEF next
  <2> QED
    BY ZenonT(60), <1>10, <2>1, <2>2, <2>5, <2>6, OneMoves DEF WriteAll, Typed
<1>11. ASSUME NEW p \in Procs, NEW f \in Files, Rename(p, f) PROVE Typed'
  <2>1. CASE tmp[f].text = "none"
    BY <1>2, <1>11, <2>1 DEF Rename, Stop, Typed
  <2>2. CASE tmp[f].text # "none"
    <3>1. target' \in [Files -> Small] /\ tmp' \in [Files -> Small]
      BY ZenonT(60), <1>11, <2>2, ContentSmall, CertBounds DEF Rename, Typed
    <3>2. proc[p].todo \in Seq(Files \X Small) /\ proc[p].todo # << >>
      BY <1>11 DEF Rename, Replacing, Typed, Process
    <3>3. /\ Tail(proc[p].todo) \in Seq(Files \X Small)
          /\ Tail(proc[p].todo) # << >> <=> Len(proc[p].todo) > 1
      BY <3>2, RestOfList
    <3>4. AfterRename(p) \in Pcs /\ (AfterRename(p) = "save" <=> Len(proc[p].todo) > 1)
      BY DEF AfterRename, Pcs
    <3>5. ASSUME NEW q \in Procs
          PROVE  /\ proc'[q] \in Process
                 /\ proc'[q].pc = "save" <=> proc'[q].todo # << >>
                 /\ proc'[q].wrote => proc'[q].handle # "none"
      <4>1. CASE q # p
        <5>1. proc'[q] = [proc[q] EXCEPT !.handle = Follow(q, f)]
          BY <1>11, <2>2, <4>1 DEF Rename
        <5>2. Follow(q, f) \in Handles /\ (proc[q].handle # "none" => Follow(q, f) # "none")
          BY DEF Follow, Typed, Process, Handles
        <5> QED
          BY <5>1, <5>2, Followed DEF Typed, At
      <4>2. CASE q = p /\ AfterRename(p) = "rest"
        <5>1. proc'[q] = Resting
          BY <1>11, <2>2, <4>2 DEF Rename
        <5> QED
          BY <5>1, RestingTyped DEF Resting
      <4>3. CASE q = p /\ AfterRename(p) # "rest"
        <5>1. proc'[q] = [proc[p] EXCEPT !.pc = AfterRename(p), !.todo = Tail(proc[p].todo),
                                         !.handle = "none", !.wrote = FALSE]
          BY <1>11, <2>2, <4>3 DEF Rename
        <5> DEFINE todo == Tail(proc[p].todo)
                   pc == AfterRename(p)
        <5>2. todo \in Seq(Files \X Small) /\ pc \in Pcs /\ "none" \in Handles /\ proc[p] \in Process
          BY <3>3, <3>4 DEF Typed, Handles
        <5>3. proc'[q].pc = "save" <=> proc'[q].todo # << >>
          <6>1. proc'[q] = [proc[p] EXCEPT !.pc = pc, !.todo = todo, !.handle = "none", !.wrote = FALSE]
            BY <5>1
          <6>2. pc = "save" <=> todo # << >>
            BY <3>3, <3>4
          <6> HIDE DEF pc, todo
          <6> QED
            BY <5>2, <6>1, <6>2 DEF Process, Handles
        <5>4. proc'[q] \in Process /\ proc'[q].wrote = FALSE
          <6>1. proc'[q] = [proc[p] EXCEPT !.pc = pc, !.todo = todo, !.handle = "none", !.wrote = FALSE]
            BY <5>1
          <6> HIDE DEF pc, todo
          <6> QED
            BY ZenonT(60), <5>2, <6>1 DEF Process, Handles
        <5> QED
          BY <5>3, <5>4
      <4> QED
        BY <4>1, <4>2, <4>3
    <3>6. proc' \in [Procs -> Process]
      <4>1. \E g : proc' = [q \in Procs |-> g[q]]
        BY <1>11, <2>2 DEF Rename
      <4> QED
        BY <3>5, <4>1
    <3> QED
      BY <1>11, <3>1, <3>5, <3>6 DEF Rename, Typed, At
  <2> QED
    BY <2>1, <2>2
<1>12. ASSUME NEW p \in Procs, NEW f \in Files, Die(p, f) PROVE Typed'
  BY <1>2, <1>12 DEF Die, Stop, Typed
<1>13. CASE UNCHANGED certVars
  BY <1>13 DEF certVars, Typed, At
<1> QED
  BY <1>1, <1>4, <1>6, <1>7, <1>8, <1>9, <1>10, <1>11, <1>12, <1>13 DEF CertNext, Replace

Flagged == torn \in BOOLEAN
LEMMA StepTorn == Flagged /\ [CertNext]_certVars => Flagged'
BY DEF Flagged, CertNext, certVars, Call, Check, EnsureCa, InstallCa, Issue, Replace, Open, WriteAll, Rename, Die, Stop

(* The files, the processes and the counters keep their types, whatever     *)
(* overlaps and wherever a process dies.                                    *)
THEOREM CertTypeCorrect == CertSpec => []CertTypeOK
<1>1. CertInit => Flagged
  BY DEF CertInit, Flagged
<1>2. Typed /\ Flagged => CertTypeOK
  BY TypedImplies DEF Flagged
<1> QED
  BY <1>1, <1>2, InitTyped, StepTyped, StepTorn, PTL DEF CertSpec
-------------------------------------------------------------------------------
(* One process at a time                                                    *)

Whole == {c \in Small : c.text = "whole"}

(* What is known of a process: it has a file open only while it replaces    *)
(* one, always under the sibling's name, and what is in the sibling is      *)
(* nothing until it wrote, and all of it afterwards.                        *)
Sound(p) ==
  /\ ~At(p, "save") => proc[p].handle = "none"
  /\ proc[p].handle \in {"none", "tmp"}
  /\ proc[p].todo \in Seq(Files \X Whole)
  /\ proc[p].handle = "tmp" =>
       tmp[Head(proc[p].todo)[1]].text = IF proc[p].wrote THEN "whole" ELSE "cut"

(* One process is at work, and no file is partial.                          *)
AloneInv ==
  /\ \A p, q \in Procs : ~At(p, "rest") /\ ~At(q, "rest") => p = q
  /\ \A p \in Procs : Sound(p)
  /\ NeverPartial

(* One that is at rest is sound, whatever is in the files.                  *)
LEMMA RestIsSound == Resting.handle = "none" /\ Resting.todo \in Seq(Files \X Whole)
<1>1. << >> \in Seq(Files \X Whole)
  OBVIOUS
<1> QED
  BY <1>1 DEF Resting

(* The first entry of a list of whole contents.                             *)
LEMMA FirstWhole ==
  ASSUME NEW todo \in Seq(Files \X Whole), todo # << >>
  PROVE  Head(todo)[1] \in Files /\ Head(todo)[2].text = "whole"
<1>1. Head(todo) \in Files \X Whole
  BY HeadTailProperties
<1> QED
  BY <1>1 DEF Whole

(* At the start no process is at work.                                      *)
LEMMA AloneInitial == CertInit => AloneInv
<1> SUFFICES ASSUME CertInit PROVE AloneInv
  OBVIOUS
<1>1. Resting.pc = "rest"
  BY DEF Resting
<1>2. Absent.text = "none"
  BY DEF Absent
<1> QED
  BY <1>1, <1>2, RestIsSound DEF CertInit, AloneInv, Sound, At, NeverPartial

(* A step of the one process at work that leaves the siblings alone and no  *)
(* file open.                                                               *)
LEMMA AloneMoves ==
  ASSUME Typed, AloneInv, NEW p \in Procs, NEW next,
         \A q \in Procs : q # p => At(q, "rest"),
         next.handle = "none", next.todo \in Seq(Files \X Whole),
         proc' = [proc EXCEPT ![p] = next], NeverPartial'
  PROVE  AloneInv'
<1>1. ASSUME NEW q \in Procs, q # p PROVE proc'[q] = proc[q] /\ proc[q].handle = "none" /\ At(q, "rest")
  BY <1>1 DEF AloneInv, Sound, At
<1>2. proc'[p] = next
  BY DEF Typed
<1>3. ASSUME NEW q \in Procs PROVE Sound(q)'
  BY <1>1, <1>2 DEF AloneInv, Sound, At
<1> QED
  BY <1>1, <1>3 DEF AloneInv, At

(* Which process replaces a file, when it is the only one at work: it alone *)
(* has a file open, and what it is to write is whole.                       *)
LEMMA OneReplaces ==
  ASSUME Typed, AloneInv, NEW p \in Procs, NEW f \in Files, Replacing(p, f)
  PROVE  /\ \A q \in Procs : q # p => At(q, "rest") /\ proc[q].handle = "none"
         /\ proc[p].todo \in Seq(Files \X Whole) /\ proc[p].todo # << >>
         /\ Head(proc[p].todo)[1] = f /\ Head(proc[p].todo)[2].text = "whole"
         /\ At(p, "save") /\ ~At(p, "rest")
<1>1. At(p, "save") /\ proc[p].todo # << >> /\ Head(proc[p].todo)[1] = f /\ ~At(p, "rest")
  BY DEF Replacing, At
<1>2. proc[p].todo \in Seq(Files \X Whole) /\ \A q \in Procs : q # p => At(q, "rest")
  BY <1>1 DEF AloneInv, Sound
<1>3. \A q \in Procs : q # p => proc[q].handle = "none"
  BY <1>2 DEF AloneInv, Sound, At
<1> QED
  BY <1>1, <1>2, <1>3, FirstWhole

(* It writes all of it, to the sibling.                                     *)
LEMMA OneWrites ==
  ASSUME Typed, AloneInv, NEW p \in Procs, NEW f \in Files, WriteAll(p, f)
  PROVE  /\ UNCHANGED target /\ tmp' = [tmp EXCEPT ![f] = Head(proc[p].todo)[2]]
         /\ proc' = [proc EXCEPT ![p] = [@ EXCEPT !.wrote = TRUE]]
         /\ proc[p].handle = "tmp"
<1>1. Replacing(p, f)
  BY SMTT(60) DEF WriteAll
<1> DEFINE new == Head(proc[p].todo)[2]
<1>2. proc[p].handle = "tmp" /\ tmp[f].text = "cut"
  BY <1>1, OneReplaces DEF WriteAll, AloneInv, Sound
<1>3. Onto(tmp[f], new) = {new}
  BY <1>2 DEF Onto
<1>4. UNCHANGED target /\ tmp' = [tmp EXCEPT ![f] = new]
  BY <1>2, <1>3 DEF WriteAll
<1>5. proc' = [proc EXCEPT ![p] = [@ EXCEPT !.wrote = TRUE]]
  BY DEF WriteAll
<1> QED
  BY <1>2, <1>4, <1>5

(* What becomes of a process that renamed the first of the files it is to   *)
(* replace.                                                                 *)
Renamed(p) ==
  IF AfterRename(p) = "rest" THEN Resting
  ELSE [proc[p] EXCEPT !.pc = AfterRename(p), !.todo = Tail(@), !.handle = "none", !.wrote = FALSE]

(* It renames the sibling that it wrote, and nobody else is concerned.      *)
LEMMA OneRenames ==
  ASSUME Typed, AloneInv, NEW p \in Procs, NEW f \in Files, Rename(p, f)
  PROVE  /\ proc[p].handle = "tmp" /\ proc[p].wrote /\ tmp[f].text = "whole"
         /\ target' = [target EXCEPT ![f] = tmp[f]]
         /\ proc' = [proc EXCEPT ![p] = Renamed(p)]
<1>1. Replacing(p, f) /\ proc[p].wrote
  BY DEF Rename
<1>2. proc[p].handle = "tmp" /\ tmp[f].text = "whole"
  BY <1>1, OneReplaces DEF AloneInv, Sound, Typed
<1>3. target' = [target EXCEPT ![f] = tmp[f]]
  BY <1>2 DEF Rename
<1>4. proc'[p] = Renamed(p)
  BY <1>2 DEF Rename, Renamed
<1>5. ASSUME NEW q \in Procs, q # p PROVE proc'[q] = proc[q]
  <2>1. proc'[q] = [proc[q] EXCEPT !.handle = Follow(q, f)]
    BY <1>2, <1>5 DEF Rename
  <2>2. Follow(q, f) = proc[q].handle
    BY <1>1, <1>5, OneReplaces DEF Follow, Replacing, At
  <2> QED
    BY <2>1, <2>2 DEF Typed, Process
<1>6. DOMAIN proc' = Procs /\ \E g : proc' = [q \in Procs |-> g[q]]
  BY <1>2 DEF Rename
<1>7. proc' = [proc EXCEPT ![p] = Renamed(p)]
  BY <1>4, <1>5, <1>6 DEF Typed
<1> QED
  BY <1>1, <1>2, <1>3, <1>7

(* No step makes a file partial, as a process renames what it wrote itself. *)
LEMMA StepAlone == ~Overlap /\ Typed /\ AloneInv /\ [CertNext]_certVars => AloneInv'
<1> SUFFICES ASSUME ~Overlap, Typed, AloneInv, [CertNext]_certVars PROVE AloneInv'
  OBVIOUS
<1>1. ASSUME NEW p \in Procs, NEW op \in {"ensure", "init"}, NEW want \in Wants, Call(p, op, want)
      PROVE  AloneInv'
  <2> DEFINE next == [Resting EXCEPT !.pc = IF op = "init" THEN "ca" ELSE "check", !.op = op, !.want = want]
  <2>1. next.handle = "none" /\ next.todo \in Seq(Files \X Whole)
    BY RestIsSound DEF Resting
  <2>2. proc' = [proc EXCEPT ![p] = next] /\ NeverPartial'
    BY <1>1 DEF Call, AloneInv, NeverPartial
  <2>3. \A q \in Procs : q # p => At(q, "rest")
    BY <1>1 DEF Call
  <2> HIDE DEF next
  <2> QED
    BY <2>1, <2>2, <2>3, AloneMoves
<1>2. ASSUME NEW p \in Procs, ~At(p, "rest"), UNCHANGED target, Return(p) PROVE AloneInv'
  <2>1. \A q \in Procs : q # p => At(q, "rest")
    BY <1>2 DEF AloneInv
  <2>2. NeverPartial'
    BY <1>2 DEF AloneInv, NeverPartial
  <2> QED
    BY <1>2, <2>1, <2>2, RestIsSound, AloneMoves DEF Return
<1>3. ASSUME NEW p \in Procs, NEW pc \in Pcs, ~At(p, "rest"), ~At(p, "save"), Move(p, pc), UNCHANGED target
      PROVE  AloneInv'
  <2> DEFINE next == [proc[p] EXCEPT !.pc = pc]
  <2>1. next.handle = "none" /\ next.todo \in Seq(Files \X Whole)
    BY <1>3 DEF Typed, Process, AloneInv, Sound
  <2>2. proc' = [proc EXCEPT ![p] = next] /\ NeverPartial'
    BY <1>3 DEF Move, AloneInv, NeverPartial
  <2>3. \A q \in Procs : q # p => At(q, "rest")
    BY <1>3 DEF AloneInv
  <2> HIDE DEF next
  <2> QED
    BY <2>1, <2>2, <2>3, AloneMoves
<1>4. ASSUME NEW p \in Procs, Check(p) PROVE AloneInv'
  BY <1>2, <1>3, <1>4 DEF Check, At, Pcs
<1>5. ASSUME NEW p \in Procs, NEW todo \in Seq(Files \X Whole), ~At(p, "rest"), ~At(p, "save"),
             proc' = [proc EXCEPT ![p].pc = "save", ![p].todo = todo], UNCHANGED target
      PROVE  AloneInv'
  <2> DEFINE next == [proc[p] EXCEPT !.pc = "save", !.todo = todo]
  <2>1. next.handle = "none" /\ next.todo \in Seq(Files \X Whole)
    BY <1>5 DEF Typed, Process, AloneInv, Sound
  <2>2. proc' = [proc EXCEPT ![p] = next] /\ NeverPartial'
    BY <1>5 DEF Typed, Process, AloneInv, NeverPartial
  <2>3. \A q \in Procs : q # p => At(q, "rest")
    BY <1>5 DEF AloneInv
  <2> HIDE DEF next
  <2> QED
    BY <2>1, <2>2, <2>3, AloneMoves
<1>6. ASSUME NEW key \in Number, NEW ca \in Number, NEW names \in SUBSET Names
      PROVE  Text(key, ca, names) \in Whole
  BY <1>6, ContentSmall DEF Whole, Text
<1>7. ASSUME NEW p \in Procs, EnsureCa(p) PROVE AloneInv'
  <2>1. CASE Exists("ca.pem") /\ Exists("ca.key")
    BY <1>2, <1>3, <1>7, <2>1 DEF EnsureCa, At, Pcs
  <2>2. CASE ~(Exists("ca.pem") /\ Exists("ca.key"))
    <3>1. keys + 1 \in Number /\ 0 \in Number
      BY <1>7, <2>2, CertBounds DEF EnsureCa, Typed, Number
    <3>2. Text(keys + 1, 0, {}) \in Whole
      BY <1>6, <3>1 DEF Names
    <3>3. <<<<"ca.key", Text(keys + 1, 0, {})>>, <<"ca.pem", Text(keys + 1, 0, {})>>>>
             \in Seq(Files \X Whole)
      BY <3>2 DEF Files
    <3> QED
      BY <1>5, <1>7, <2>2, <3>3 DEF EnsureCa, At
  <2> QED
    BY <2>1, <2>2
<1>8. ASSUME NEW p \in Procs, InstallCa(p) PROVE AloneInv'
  <2> DEFINE next == [proc[p] EXCEPT !.pc = "check", !.op = "ensure"]
  <2>1. next.handle = "none" /\ next.todo \in Seq(Files \X Whole)
    BY <1>8 DEF InstallCa, At, Typed, Process, AloneInv, Sound
  <2>2. proc' = [proc EXCEPT ![p] = next] /\ NeverPartial'
    BY <1>8 DEF InstallCa, Typed, Process, AloneInv, NeverPartial
  <2>3. \A q \in Procs : q # p => At(q, "rest")
    BY <1>8 DEF InstallCa, At, AloneInv
  <2> HIDE DEF next
  <2> QED
    BY <2>1, <2>2, <2>3, AloneMoves
<1>9. ASSUME NEW p \in Procs, Issue(p) PROVE AloneInv'
  <2>1. keys + 1 \in Number /\ 0 \in Number
    BY <1>9, CertBounds DEF Issue, Typed, Number
  <2>2. target["ca.key"].key \in Number /\ proc[p].want \in SUBSET Names
    BY DEF Typed, Small, Files, Process
  <2>3. /\ Text(keys + 1, 0, {}) \in Whole
        /\ Text(keys + 1, target["ca.key"].key, Carried(proc[p].want)) \in Whole
        /\ Text(0, 0, proc[p].want) \in Whole
    BY <1>6, <2>1, <2>2, CarriedNames
  <2>4. <<<<"server.key", Text(keys + 1, 0, {})>>,
          <<"server.pem", Text(keys + 1, target["ca.key"].key, Carried(proc[p].want))>>,
          <<"server.sans", Text(0, 0, proc[p].want)>>>> \in Seq(Files \X Whole)
    BY <2>3 DEF Files
  <2> QED
    BY <1>5, <1>9, <2>4 DEF Issue, At
<1>10. ASSUME NEW p \in Procs, NEW f \in Files, Open(p, f) PROVE AloneInv'
  <2>1. Replacing(p, f)
    BY <1>10 DEF Open
  <2>2. /\ proc'[p] = [proc[p] EXCEPT !.handle = "tmp"] /\ UNCHANGED target
        /\ tmp'[f].text = "cut" /\ ~proc[p].wrote
    BY <1>10 DEF Open, Typed, Process, Cut, Absent
  <2>3. \A q \in Procs : q # p => proc'[q] = proc[q]
    BY <1>10 DEF Open
  <2>4. /\ proc'[p].handle = "tmp" /\ proc'[p].todo = proc[p].todo
        /\ proc'[p].pc = proc[p].pc /\ proc'[p].wrote = proc[p].wrote
    BY <2>2 DEF Typed, Process
  <2>5. ASSUME NEW q \in Procs PROVE Sound(q)'
    <3>1. CASE q # p
      BY OneReplaces, <2>1, <2>3, <3>1 DEF AloneInv, Sound, At
    <3>2. CASE q = p
      BY OneReplaces, <2>1, <2>2, <2>4, <3>2 DEF Sound, At, Replacing
    <3> QED
      BY SMTT(60), <3>1, <3>2
  <2>6. \A q \in Procs : At(q, "rest")' <=> At(q, "rest")
    BY <2>3, <2>4 DEF At
  <2> QED
    BY <2>2, <2>5, <2>6 DEF AloneInv, NeverPartial
<1>11. ASSUME NEW p \in Procs, NEW f \in Files, WriteAll(p, f) PROVE AloneInv'
  <2>1. Replacing(p, f)
    BY <1>11 DEF WriteAll
  <2>2. tmp'[f].text = "whole" /\ UNCHANGED target
    BY SMTT(60), <1>11, <2>1, OneReplaces, OneWrites DEF Typed
  <2>3. /\ proc'[p].handle = "tmp" /\ proc'[p].todo = proc[p].todo
        /\ proc'[p].pc = proc[p].pc /\ proc'[p].wrote = TRUE
        /\ \A q \in Procs : q # p => proc'[q] = proc[q]
    BY <1>11, OneWrites DEF Typed, Process
  <2>4. ASSUME NEW q \in Procs PROVE Sound(q)'
    BY SMTT(60), <2>1, <2>2, <2>3, OneReplaces DEF AloneInv, Sound, At, Replacing
  <2>5. \A q \in Procs : At(q, "rest")' <=> At(q, "rest")
    BY <2>3 DEF At
  <2> QED
    BY <2>2, <2>4, <2>5 DEF AloneInv, NeverPartial
<1>12. ASSUME NEW p \in Procs, NEW f \in Files, Rename(p, f) PROVE AloneInv'
  <2>1. Replacing(p, f)
    BY <1>12 DEF Rename
  <2>2. NeverPartial'
    BY <1>12, OneRenames DEF AloneInv, NeverPartial, Typed
  <2>3. Tail(proc[p].todo) \in Seq(Files \X Whole)
    BY <2>1, OneReplaces, RestOfList
  <2>4. Renamed(p).handle = "none" /\ Renamed(p).todo \in Seq(Files \X Whole)
    BY <2>3, RestIsSound DEF Typed, Process, Renamed
  <2> QED
    BY <1>12, <2>1, <2>2, <2>4, OneReplaces, OneRenames, AloneMoves
<1>13. ASSUME NEW p \in Procs, NEW f \in Files, Die(p, f) PROVE AloneInv'
  BY <1>2, <1>13, OneReplaces DEF Die, Stop
<1>14. CASE UNCHANGED certVars
  BY <1>14 DEF certVars, AloneInv, Sound, At, NeverPartial
<1> QED
  BY <1>1, <1>4, <1>7, <1>8, <1>9, <1>10, <1>11, <1>12, <1>13, <1>14 DEF CertNext, Replace

(* As long as one process at a time is at the certificates, and wherever it *)
(* dies, each file is absent or holds all of what was written (certs.rs:379 *)
(* says so of two processes as well, which does not hold).                  *)
THEOREM NeverPartialAlone == ~Overlap => (CertSpec => []NeverPartial)
<1> SUFFICES ASSUME ~Overlap PROVE CertSpec => []NeverPartial
  OBVIOUS
<1>1. Typed /\ AloneInv /\ [CertNext]_certVars => AloneInv'
  BY StepAlone
<1>2. AloneInv => NeverPartial
  BY DEF AloneInv
<1> QED
  BY <1>1, <1>2, InitTyped, StepTyped, AloneInitial, PTL DEF CertSpec
-------------------------------------------------------------------------------
(* The chain from the trusted CA to the server certificate                  *)

CaFiles(key) == <<<<"ca.key", Text(key, 0, {})>>, <<"ca.pem", Text(key, 0, {})>>>>
CertFiles(key, ca, want) ==
  <<<<"server.key", Text(key, 0, {})>>, <<"server.pem", Text(key, ca, Carried(want))>>,
    <<"server.sans", Text(0, 0, want)>>>>

(* The two CA files go together, and what the system trusts and what signed *)
(* the server certificate is the CA on disk.                                *)
OneCa ==
  /\ Exists("ca.pem") => (Exists("ca.key") /\ target["ca.key"].key = target["ca.pem"].key)
  /\ Exists("server.pem") => (Exists("ca.pem") /\ target["server.pem"].ca = target["ca.pem"].key)
  /\ trusted # 0 => (Exists("ca.pem") /\ trusted = target["ca.pem"].key)

(* A process that makes a CA, as none is there yet; key first.              *)
MakesCa(p) ==
  /\ ~Exists("ca.pem")
  /\ \E key \in Number :
       \/ proc[p].todo = CaFiles(key)
       \/ /\ proc[p].todo = Tail(CaFiles(key))
          /\ target["ca.key"] = Text(key, 0, {})

(* A process that makes a server certificate, and how far it is.            *)
MakesCert(p) ==
  /\ Exists("ca.pem")
  /\ \E key \in Number :
       LET files == CertFiles(key, target["ca.key"].key, proc[p].want) IN
       \/ proc[p].todo = files
       \/ /\ proc[p].todo = Tail(files)
          /\ target["server.key"] = files[1][2]
       \/ /\ proc[p].todo = Tail(Tail(files))
          /\ target["server.key"] = files[1][2] /\ target["server.pem"] = files[2][2]

(* What is known of a process at work.                                      *)
OnIts(p) ==
  /\ (At(p, "install") \/ At(p, "issue")) => Exists("ca.pem")
  /\ At(p, "save") => (MakesCa(p) \/ MakesCert(p))
  /\ proc[p].wrote => tmp[Head(proc[p].todo)[1]] = Head(proc[p].todo)[2]

ChainInv == OneCa /\ \A p \in Procs : OnIts(p)

(* What a process is making does not change while the files do not.         *)
LEMMA WorkSame ==
  ASSUME OneCa, NEW p, OnIts(p), UNCHANGED <<target, trusted>>,
         proc'[p].pc = proc[p].pc, proc'[p].todo = proc[p].todo, proc'[p].want = proc[p].want,
         proc'[p].wrote => tmp'[Head(proc'[p].todo)[1]] = Head(proc'[p].todo)[2]
  PROVE  OneCa' /\ OnIts(p)'
<1>1. OneCa'
  BY DEF OneCa, Exists
<1>2. MakesCa(p) => MakesCa(p)'
  BY SMTT(60) DEF MakesCa, Exists
<1>3. MakesCert(p) => MakesCert(p)'
  BY DEF MakesCert, Exists
<1>4. (At(p, "rest") <=> At(p, "rest")') /\ (At(p, "save") <=> At(p, "save")')
      /\ (At(p, "install") <=> At(p, "install")') /\ (At(p, "issue") <=> At(p, "issue")')
  BY DEF At
<1>5. Exists("ca.pem") => Exists("ca.pem")'
  BY DEF Exists
<1> QED
  BY <1>1, <1>2, <1>3, <1>4, <1>5 DEF OnIts

(* A list of one, two or three entries, and what is left of it.             *)
LEMMA ShortLists ==
  ASSUME NEW a, NEW b, NEW c
  PROVE  /\ Len(<<a>>) = 1 /\ Head(<<a>>) = a /\ Tail(<<a>>) = << >>
         /\ Len(<<a, b>>) = 2 /\ Head(<<a, b>>) = a /\ Tail(<<a, b>>) = <<b>>
         /\ Len(<<a, b, c>>) = 3 /\ Head(<<a, b, c>>) = a /\ Tail(<<a, b, c>>) = <<b, c>>
OBVIOUS

(* How the CA's list shrinks.                                               *)
LEMMA CaLists ==
  ASSUME NEW key
  PROVE  LET files == CaFiles(key) IN
         /\ Len(files) = 2 /\ Head(files) = <<"ca.key", Text(key, 0, {})>>
         /\ Len(Tail(files)) = 1 /\ Head(Tail(files)) = <<"ca.pem", Text(key, 0, {})>>
BY ShortLists DEF CaFiles

(* How the server certificate's list shrinks.                               *)
LEMMA CertLists ==
  ASSUME NEW key, NEW ca, NEW want
  PROVE  LET files == CertFiles(key, ca, want) IN
         /\ Len(files) = 3 /\ Head(files) = <<"server.key", Text(key, 0, {})>>
         /\ Len(Tail(files)) = 2
         /\ Head(Tail(files)) = <<"server.pem", Text(key, ca, Carried(want))>>
         /\ Len(Tail(Tail(files))) = 1
         /\ Head(Tail(Tail(files))) = <<"server.sans", Text(0, 0, want)>>
BY ShortLists DEF CertFiles

(* A step of the one process at work, whatever it does to the files: only   *)
(* what is known of the files and of that process has to be shown.          *)
LEMMA ChainMoves ==
  ASSUME Typed, AloneInv, ChainInv, NEW p \in Procs, NEW next \in Process,
         \A q \in Procs : q # p => At(q, "rest"),
         proc' = [proc EXCEPT ![p] = next], OneCa', OnIts(p)'
  PROVE  ChainInv'
<1>1. ASSUME NEW q \in Procs, q # p PROVE OnIts(q)'
  <2>1. proc'[q] = proc[q] /\ At(q, "rest") /\ proc[q].handle = "none"
    BY <1>1 DEF AloneInv, Sound, At
  <2>2. proc[q].wrote = FALSE
    BY <2>1 DEF Typed, Process
  <2> QED
    BY <2>1, <2>2 DEF OnIts, At
<1> QED
  BY <1>1 DEF ChainInv
(* No file, nothing trusted.                                                *)
LEMMA ChainInitial == CertInit => ChainInv
<1> SUFFICES ASSUME CertInit PROVE ChainInv
  OBVIOUS
<1>1. Resting.pc = "rest" /\ Resting.wrote = FALSE /\ Absent.text = "none"
  BY DEF Resting, Absent
<1> QED
  BY <1>1 DEF CertInit, ChainInv, OneCa, OnIts, At, Exists, Files

(* The rename of a file of a new CA: the key first, so that the certificate *)
(* comes to be beside a key that is its own.                                *)
LEMMA CaRenamed ==
  ASSUME Typed, AloneInv, ChainInv, NEW p \in Procs, NEW f \in Files, Rename(p, f), MakesCa(p)
  PROVE  OneCa' /\ OnIts(p)'
<1>1. /\ proc[p].wrote /\ UNCHANGED trusted /\ At(p, "save") /\ Head(proc[p].todo)[1] = f
      /\ target' = [target EXCEPT ![f] = tmp[f]] /\ proc'[p] = Renamed(p)
  BY ZenonT(60), OneRenames DEF Rename, Replacing, Typed
<1>2. tmp[f] = Head(proc[p].todo)[2]
  BY <1>1 DEF ChainInv, OnIts, At
<1>3. ~Exists("ca.pem") /\ ~Exists("server.pem") /\ trusted = 0
  BY DEF MakesCa, ChainInv, OneCa
<1>4. PICK key \in Number :
        \/ proc[p].todo = CaFiles(key)
        \/ /\ proc[p].todo = Tail(CaFiles(key))
           /\ target["ca.key"] = Text(key, 0, {})
  BY DEF MakesCa
<1> DEFINE new == Text(key, 0, {})
<1>5. new.text = "whole" /\ new.key = key
  BY DEF Text
<1>6. CASE proc[p].todo = CaFiles(key)
  <2>1. f = "ca.key" /\ tmp[f] = new /\ Len(proc[p].todo) = 2
    BY <1>1, <1>2, <1>6, CaLists
  <2>2. /\ target'["ca.key"] = new /\ target'["ca.pem"] = target["ca.pem"]
        /\ target'["server.pem"] = target["server.pem"]
    BY <1>1, <2>1 DEF Typed, Files
  <2>3. AfterRename(p) = "save"
    BY <2>1 DEF AfterRename
  <2>4. /\ proc'[p].pc = "save" /\ proc'[p].todo = Tail(CaFiles(key))
        /\ proc'[p].wrote = FALSE /\ proc'[p].want = proc[p].want
    BY <1>1, <1>6, <2>3 DEF Renamed, Typed, Process
  <2>5. OneCa'
    BY <1>1, <1>3, <2>2 DEF OneCa, Exists
  <2>6. MakesCa(p)'
    BY <1>3, <2>2, <2>4 DEF MakesCa, Exists, Number
  <2> QED
    BY <1>2, <2>4, <2>5, <2>6 DEF OnIts, At
<1>7. CASE proc[p].todo = Tail(CaFiles(key)) /\ target["ca.key"] = new
  <2>1. f = "ca.pem" /\ tmp[f] = new /\ Len(proc[p].todo) = 1 /\ Head(proc[p].todo)[1] = "ca.pem"
    BY SMTT(60), <1>1, <1>2, <1>7, CaLists
  <2>2. /\ target'["ca.pem"] = new /\ target'["ca.key"] = new
        /\ target'["server.pem"] = target["server.pem"]
    BY <1>1, <1>7, <2>1 DEF Typed, Files
  <2>3. AfterRename(p) \in {"install", "issue"}
    BY <2>1 DEF AfterRename
  <2>4. proc'[p].pc = AfterRename(p) /\ proc'[p].wrote = FALSE /\ proc'[p].want = proc[p].want
    BY <1>1, <2>3 DEF Renamed, Typed, Process
  <2>5. OneCa' /\ Exists("ca.pem")'
    BY <1>1, <1>3, <1>5, <2>2 DEF OneCa, Exists
  <2> QED
    BY <1>2, <2>3, <2>4, <2>5 DEF OnIts, At
<1> QED
  BY <1>4, <1>6, <1>7

(* The rename of a file of a new server certificate: none of them is the    *)
(* CA's, and the certificate is signed with the CA's key.                   *)
LEMMA CertRenamed ==
  ASSUME Typed, AloneInv, ChainInv, NEW p \in Procs, NEW f \in Files, Rename(p, f), MakesCert(p)
  PROVE  OneCa' /\ OnIts(p)'
<1>1. /\ proc[p].wrote /\ UNCHANGED trusted /\ At(p, "save") /\ Head(proc[p].todo)[1] = f
      /\ target' = [target EXCEPT ![f] = tmp[f]] /\ proc'[p] = Renamed(p)
  BY ZenonT(60), OneRenames DEF Rename, Replacing, Typed
<1>2. tmp[f] = Head(proc[p].todo)[2]
  BY <1>1 DEF ChainInv, OnIts, At
<1> DEFINE ca == target["ca.key"].key
           want == proc[p].want
<1>3. Exists("ca.pem") /\ Exists("ca.key") /\ ca = target["ca.pem"].key
  BY SMTT(60) DEF MakesCert, ChainInv, OneCa
<1>4. PICK key \in Number :
        \/ proc[p].todo = CertFiles(key, ca, want)
        \/ /\ proc[p].todo = Tail(CertFiles(key, ca, want))
           /\ target["server.key"] = CertFiles(key, ca, want)[1][2]
        \/ /\ proc[p].todo = Tail(Tail(CertFiles(key, ca, want)))
           /\ target["server.key"] = CertFiles(key, ca, want)[1][2]
           /\ target["server.pem"] = CertFiles(key, ca, want)[2][2]
  BY DEF MakesCert
<1> DEFINE files == CertFiles(key, ca, want)
<1>5. files[1][2] = Text(key, 0, {}) /\ files[2][2] = Text(key, ca, Carried(want)) /\ files[2][2].ca = ca
  BY DEF CertFiles, Text
<1>6. CASE proc[p].todo = files
  <2>1. f = "server.key" /\ tmp[f] = files[1][2] /\ Len(proc[p].todo) = 3
    BY <1>1, <1>2, <1>5, <1>6, CertLists
  <2>2. /\ target'["server.key"] = files[1][2] /\ target'["ca.pem"] = target["ca.pem"]
        /\ target'["ca.key"] = target["ca.key"] /\ target'["server.pem"] = target["server.pem"]
    BY <1>1, <2>1 DEF Typed, Files
  <2>3. AfterRename(p) = "save"
    BY <2>1 DEF AfterRename
  <2>4. /\ proc'[p].pc = "save" /\ proc'[p].todo = Tail(files)
        /\ proc'[p].wrote = FALSE /\ proc'[p].want = want
    BY <1>1, <1>6, <2>3 DEF Renamed, Typed, Process
  <2>5. OneCa'
    BY SMTT(60), <1>1, <2>2 DEF OneCa, Exists, ChainInv
  <2>6. MakesCert(p)'
    BY ZenonT(60), <1>3, <2>2, <2>4 DEF MakesCert, Exists, Number
  <2> QED
    BY <1>2, <2>4, <2>5, <2>6 DEF OnIts, At
<1>7. CASE proc[p].todo = Tail(files) /\ target["server.key"] = files[1][2]
  <2>1. f = "server.pem" /\ tmp[f] = files[2][2] /\ Len(proc[p].todo) = 2
    BY <1>1, <1>2, <1>5, <1>7, CertLists
  <2>2. /\ target'["server.pem"] = files[2][2] /\ target'["ca.pem"] = target["ca.pem"]
        /\ target'["ca.key"] = target["ca.key"] /\ target'["server.key"] = target["server.key"]
    BY <1>1, <2>1 DEF Typed, Files
  <2>3. AfterRename(p) = "save"
    BY <2>1 DEF AfterRename
  <2>4. /\ proc'[p].pc = "save" /\ proc'[p].todo = Tail(Tail(files))
        /\ proc'[p].wrote = FALSE /\ proc'[p].want = want
    BY SMTT(60), <1>1, <1>7, <2>3 DEF Renamed, Typed, Process
  <2>5. OneCa'
    BY <1>1, <1>3, <1>5, <2>2 DEF OneCa, Exists, ChainInv
  <2>6. MakesCert(p)'
    BY ZenonT(60), <1>3, <1>7, <2>2, <2>4 DEF MakesCert, Exists, Number
  <2> QED
    BY SMTT(60), <1>2, <2>4, <2>5, <2>6 DEF OnIts, At
<1>8. CASE proc[p].todo = Tail(Tail(files))
  <2>1. f = "server.sans" /\ Len(proc[p].todo) = 1 /\ Head(proc[p].todo)[1] = "server.sans"
    BY SMTT(60), <1>1, <1>8, CertLists
  <2>2. \A g \in {"ca.pem", "ca.key", "server.pem"} : target'[g] = target[g]
    BY <1>1, <2>1 DEF Typed, Files
  <2>3. AfterRename(p) = "rest"
    BY <2>1 DEF AfterRename
  <2>4. proc'[p].pc = "rest" /\ proc'[p].wrote = FALSE
    BY <1>1, <2>3 DEF Renamed, Resting
  <2>5. OneCa'
    BY <1>1, <2>2 DEF OneCa, Exists, ChainInv
  <2> QED
    BY <2>4, <2>5 DEF OnIts, At
<1> QED
  BY SMTT(60), <1>4, <1>6, <1>7, <1>8
(* Every step keeps the chain, one of them for each action.                 *)
LEMMA StepChain == ~Overlap /\ Typed /\ AloneInv /\ ChainInv /\ [CertNext]_certVars => ChainInv'
<1> SUFFICES ASSUME ~Overlap, Typed, AloneInv, ChainInv, [CertNext]_certVars PROVE ChainInv'
  OBVIOUS
<1>1. ASSUME NEW p \in Procs, ~At(p, "rest") PROVE \A q \in Procs : q # p => At(q, "rest")
  BY <1>1 DEF AloneInv
<1>2. ASSUME NEW p \in Procs, ~At(p, "save") PROVE proc[p].wrote = FALSE
  BY <1>2 DEF AloneInv, Sound, Typed, Process
<1>3. ASSUME NEW p \in Procs, NEW next \in Process, \A q \in Procs : q # p => At(q, "rest"),
             proc' = [proc EXCEPT ![p] = next], UNCHANGED <<target, trusted>>,
             next.pc # "save", next.wrote = FALSE,
             next.pc \in {"install", "issue"} => Exists("ca.pem")
      PROVE  ChainInv'
  <2>1. proc'[p] = next
    BY <1>3 DEF Typed
  <2>2. OneCa' /\ OnIts(p)'
    BY <1>3, <2>1 DEF ChainInv, OneCa, OnIts, Exists, At
  <2> QED
    BY <1>3, <2>2, ChainMoves
<1>4. ASSUME NEW p \in Procs, NEW op \in {"ensure", "init"}, NEW want \in Wants, Call(p, op, want)
      PROVE  ChainInv'
  <2> DEFINE next == [Resting EXCEPT !.pc = IF op = "init" THEN "ca" ELSE "check", !.op = op, !.want = want]
  <2>1. want \in SUBSET Names
    BY DEF Names
  <2>2. next \in Process /\ next.pc \in {"ca", "check"} /\ next.want = want /\ next.wrote = FALSE
    BY <2>1, RestingTyped DEF Resting, Process, Pcs
  <2>3. proc' = [proc EXCEPT ![p] = next] /\ \A q \in Procs : q # p => At(q, "rest")
    BY <1>4 DEF Call
  <2> HIDE DEF next
  <2> QED
    BY <1>3, <1>4, <2>1, <2>2, <2>3 DEF Call
<1>5. ASSUME NEW p \in Procs, ~At(p, "rest"), UNCHANGED <<target, trusted>>, Return(p) PROVE ChainInv'
  <2>1. Resting.pc = "rest" /\ Resting.wrote = FALSE
    BY DEF Resting
  <2> QED
    BY <1>1, <1>3, <1>5, <2>1, RestingTyped DEF Return
<1>6. ASSUME NEW p \in Procs, NEW pc \in Pcs \ {"save"}, ~At(p, "save"), ~At(p, "rest"), Move(p, pc),
             UNCHANGED <<target, trusted>>, pc \in {"install", "issue"} => Exists("ca.pem")
      PROVE  ChainInv'
  <2> DEFINE next == [proc[p] EXCEPT !.pc = pc]
  <2>1. next \in Process /\ next.pc = pc /\ next.wrote = FALSE /\ next.want = proc[p].want
    BY ZenonT(60), <1>2, <1>6 DEF Typed, Process
  <2>2. proc' = [proc EXCEPT ![p] = next]
    BY <1>6 DEF Move
  <2> HIDE DEF next
  <2> QED
    BY <1>1, <1>3, <1>6, <2>1, <2>2
<1>7. ASSUME NEW p \in Procs, Check(p) PROVE ChainInv'
  BY <1>5, <1>6, <1>7 DEF Check, At, Pcs
<1>8. ASSUME NEW p \in Procs, NEW todo \in Seq(Files \X Small), ~At(p, "rest"), ~At(p, "save"),
             proc' = [proc EXCEPT ![p].pc = "save", ![p].todo = todo],
             UNCHANGED <<target, trusted>>, (MakesCa(p) \/ MakesCert(p))'
      PROVE  ChainInv'
  <2> DEFINE next == [proc[p] EXCEPT !.pc = "save", !.todo = todo]
  <2>1. next \in Process /\ next.wrote = FALSE /\ next.want = proc[p].want /\ next.pc = "save"
    BY ZenonT(60), <1>2, <1>8 DEF Typed, Process, Pcs
  <2>2. proc' = [proc EXCEPT ![p] = next]
    BY <1>8 DEF Typed, Process
  <2> HIDE DEF next
  <2>3. proc'[p] = next
    BY <2>2 DEF Typed
  <2>4. OneCa' /\ OnIts(p)'
    BY <1>8, <2>1, <2>2, <2>3 DEF ChainInv, OneCa, OnIts, Exists, At
  <2> QED
    BY <1>1, <1>8, <2>1, <2>2, <2>4, ChainMoves
<1>9. ASSUME NEW p \in Procs, EnsureCa(p) PROVE ChainInv'
  <2>1. CASE Exists("ca.pem") /\ Exists("ca.key")
    BY <1>5, <1>6, <1>9, <2>1 DEF EnsureCa, At, Pcs
  <2>2. CASE ~(Exists("ca.pem") /\ Exists("ca.key"))
    <3>1. keys + 1 \in Number /\ 0 \in Number
      BY <1>9, <2>2, CertBounds DEF EnsureCa, Typed, Number
    <3>2. CaFiles(keys + 1) \in Seq(Files \X Small)
      <4>1. Text(keys + 1, 0, {}) \in Small
        BY <3>1, ContentSmall DEF Names
      <4> QED
        BY <4>1 DEF CaFiles, Files
    <3>3. proc' = [proc EXCEPT ![p].pc = "save", ![p].todo = CaFiles(keys + 1)] /\ UNCHANGED <<target, trusted>>
      BY <1>9, <2>2 DEF EnsureCa, CaFiles
    <3>4. ~Exists("ca.pem") /\ proc'[p].todo = CaFiles(keys + 1)
      BY <2>2, <3>3 DEF ChainInv, OneCa, Typed, Process
    <3>5. MakesCa(p)'
      BY <3>1, <3>3, <3>4 DEF MakesCa, Exists, Number
    <3> QED
      BY <1>8, <1>9, <3>2, <3>3, <3>5 DEF EnsureCa, At
  <2> QED
    BY <2>1, <2>2
<1>10. ASSUME NEW p \in Procs, InstallCa(p) PROVE ChainInv'
  <2> DEFINE next == [proc[p] EXCEPT !.pc = "check", !.op = "ensure"]
  <2>1. ~At(p, "rest") /\ ~At(p, "save") /\ Exists("ca.pem")
    BY <1>10 DEF InstallCa, At, ChainInv, OnIts
  <2>2. next \in Process /\ next.pc = "check" /\ next.wrote = FALSE /\ next.want = proc[p].want
    BY ZenonT(60), <1>2, <2>1 DEF Typed, Process, Pcs
  <2>3. /\ proc' = [proc EXCEPT ![p] = next] /\ UNCHANGED target
        /\ trusted' \in {target["ca.pem"].key, trusted, 0}
    BY <1>10 DEF InstallCa, Typed, Process
  <2> HIDE DEF next
  <2>4. proc'[p] = next
    BY <2>3 DEF Typed
  <2>5. OneCa' /\ OnIts(p)'
    BY <2>1, <2>2, <2>3, <2>4 DEF ChainInv, OneCa, OnIts, Exists, At
  <2> QED
    BY <1>1, <2>1, <2>2, <2>3, <2>5, ChainMoves
<1>11. ASSUME NEW p \in Procs, Issue(p) PROVE ChainInv'
  <2> DEFINE ca == target["ca.key"].key
             todo == CertFiles(keys + 1, ca, proc[p].want)
  <2>1. keys + 1 \in Number /\ 0 \in Number
    BY <1>11, CertBounds DEF Issue, Typed, Number
  <2>2. ca \in Number /\ proc[p].want \in SUBSET Names /\ Exists("ca.pem")
    BY <1>11 DEF Typed, Small, Files, Process, Issue, ChainInv, OnIts
  <2>3. todo \in Seq(Files \X Small)
    <3>1. /\ Text(keys + 1, 0, {}) \in Small /\ Text(0, 0, proc[p].want) \in Small
          /\ Text(keys + 1, ca, Carried(proc[p].want)) \in Small
      BY <2>1, <2>2, CarriedNames, ContentSmall
    <3> QED
      BY <3>1 DEF CertFiles, Files
  <2>4. proc' = [proc EXCEPT ![p].pc = "save", ![p].todo = todo] /\ UNCHANGED <<target, trusted>>
    BY <1>11 DEF Issue, CertFiles
  <2>5. proc'[p].todo = todo /\ proc'[p].want = proc[p].want
    BY SMTT(60), <2>4 DEF Typed, Process
  <2>6. MakesCert(p)'
    BY <2>1, <2>2, <2>4, <2>5 DEF MakesCert, Exists, Number
  <2> QED
    BY <1>8, <1>11, <2>3, <2>4, <2>6 DEF Issue, At
<1>12. ASSUME NEW p \in Procs, NEW f \in Files, Open(p, f) PROVE ChainInv'
  <2> DEFINE next == [proc[p] EXCEPT !.handle = "tmp"]
  <2>1. Replacing(p, f) /\ proc[p].wrote = FALSE
    BY <1>12 DEF Open, Typed, Process
  <2>2. /\ next \in Process /\ next.pc = proc[p].pc /\ next.todo = proc[p].todo
        /\ next.want = proc[p].want /\ next.wrote = FALSE
    BY ZenonT(60), <2>1 DEF Typed, Process, Handles
  <2>3. proc' = [proc EXCEPT ![p] = next] /\ UNCHANGED <<target, trusted>>
    BY <1>12 DEF Open
  <2> HIDE DEF next
  <2>4. proc'[p] = next
    BY <2>3 DEF Typed
  <2>5. OneCa' /\ OnIts(p)'
    BY <2>2, <2>3, <2>4, WorkSame DEF ChainInv
  <2> QED
    BY <2>1, <2>2, <2>3, <2>5, OneReplaces, ChainMoves
<1>13. ASSUME NEW p \in Procs, NEW f \in Files, WriteAll(p, f) PROVE ChainInv'
  <2> DEFINE next == [proc[p] EXCEPT !.wrote = TRUE]
  <2>1. Replacing(p, f) /\ UNCHANGED trusted
    BY <1>13 DEF WriteAll
  <2>2. /\ next \in Process /\ next.pc = proc[p].pc /\ next.todo = proc[p].todo
        /\ next.want = proc[p].want
    BY ZenonT(60) DEF Typed, Process
  <2>3. /\ UNCHANGED target /\ tmp' = [tmp EXCEPT ![f] = Head(proc[p].todo)[2]]
        /\ proc' = [proc EXCEPT ![p] = next]
    BY <1>13, OneWrites
  <2> HIDE DEF next
  <2>4. proc'[p] = next
    BY <2>3 DEF Typed
  <2>5. tmp'[Head(next.todo)[1]] = Head(next.todo)[2]
    BY SMTT(60), <2>1, <2>2, <2>3 DEF Replacing, Typed
  <2>6. OneCa' /\ OnIts(p)'
    BY <2>1, <2>2, <2>3, <2>4, <2>5, WorkSame DEF ChainInv
  <2> QED
    BY <2>1, <2>2, <2>3, <2>6, OneReplaces, ChainMoves
<1>14. ASSUME NEW p \in Procs, NEW f \in Files, Rename(p, f) PROVE ChainInv'
  <2>1. Replacing(p, f) /\ proc' = [proc EXCEPT ![p] = Renamed(p)]
    BY <1>14, OneRenames DEF Rename
  <2>2. Renamed(p) \in Process
    BY <1>14, <2>1, StepTyped DEF Typed, CertNext, Replace
  <2>3. MakesCa(p) \/ MakesCert(p)
    BY <2>1 DEF Replacing, ChainInv, OnIts
  <2>4. OneCa' /\ OnIts(p)'
    BY <1>14, <2>3, CaRenamed, CertRenamed
  <2> QED
    BY <2>1, <2>2, <2>4, OneReplaces, ChainMoves
<1>15. ASSUME NEW p \in Procs, NEW f \in Files, Die(p, f) PROVE ChainInv'
  BY SMTT(60), <1>5, <1>15, OneReplaces DEF Die, Stop
<1>16. CASE UNCHANGED certVars
  BY SMTT(60), <1>16 DEF certVars, ChainInv, OneCa, OnIts, MakesCa, MakesCert, Exists, At
<1> QED
  BY <1>4, <1>7, <1>9, <1>10, <1>11, <1>12, <1>13, <1>14, <1>15, <1>16 DEF CertNext, Replace

(* As long as one process at a time is at the certificates, the server      *)
(* certificate on disk is signed by the CA that `dip proxy init` had the    *)
(* system trust (setup.rs:30), wherever a process dies: ensure_ca keeps a   *)
(* CA whose two files are there and makes one key first (certs.rs), so that *)
(* the certificate never comes to be beside another CA's key.               *)
THEOREM ChainTrustedAlone == ~Overlap => (CertSpec => []ChainTrusted)
<1> SUFFICES ASSUME ~Overlap PROVE CertSpec => []ChainTrusted
  OBVIOUS
<1>1. Typed /\ AloneInv /\ ChainInv /\ [CertNext]_certVars => AloneInv' /\ ChainInv'
  BY StepAlone, StepChain
<1>2. ChainInv => ChainTrusted
  BY DEF ChainInv, OneCa, ChainTrusted
<1> QED
  BY <1>1, <1>2, InitTyped, StepTyped, AloneInitial, ChainInitial, PTL DEF CertSpec
-------------------------------------------------------------------------------
(* What a call leaves behind                                                *)

(* The server certificate goes with the key beside it, and the names that   *)
(* are listed beside it, if any are, are its own.                           *)
Matching ==
  /\ target["server.sans"].names \in {{}, target["server.pem"].names}
  /\ target["server.pem"].key = target["server.key"].key

(* Between the rename of a new server key and that of the list of names.    *)
Halfway(p) == Replacing(p, "server.pem") \/ Replacing(p, "server.sans")

(* They match whenever no process is halfway, or was when it died and       *)
(* nobody made a certificate since.                                         *)
Settled == torn \/ ((\A p \in Procs : ~Halfway(p)) => Matching)

(* The files of a CA are none of the server's.                              *)
LEMMA CaProgress ==
  ASSUME NEW p \in Procs, NEW f \in Files, Replacing(p, f), MakesCa(p)
  PROVE  f \in {"ca.key", "ca.pem"}
<1>1. Head(proc[p].todo)[1] = f
  BY DEF Replacing
<1> QED
  BY SMTT(60), <1>1, CaLists DEF MakesCa

(* The rename of the first or the second file leads halfway, that of the    *)
(* last one to files that match each other and the names that were needed.  *)
LEMMA CertProgress ==
  ASSUME Typed, AloneInv, ChainInv, NEW p \in Procs, NEW f \in Files, Rename(p, f), MakesCert(p)
  PROVE  \/ Halfway(p)'
         \/ /\ f = "server.sans" /\ Matching' /\ target'["server.pem"].text # "none"
            /\ target'["server.pem"].names = Carried(proc[p].want)
<1>1. /\ proc[p].wrote /\ At(p, "save") /\ Head(proc[p].todo)[1] = f
      /\ target' = [target EXCEPT ![f] = tmp[f]] /\ proc'[p] = Renamed(p)
  BY ZenonT(60), OneRenames DEF Rename, Replacing, Typed
<1>2. tmp[f] = Head(proc[p].todo)[2]
  BY <1>1 DEF ChainInv, OnIts, At
<1> DEFINE ca == target["ca.key"].key
           want == proc[p].want
<1>3. PICK key \in Number :
        \/ proc[p].todo = CertFiles(key, ca, want)
        \/ /\ proc[p].todo = Tail(CertFiles(key, ca, want))
           /\ target["server.key"] = CertFiles(key, ca, want)[1][2]
        \/ /\ proc[p].todo = Tail(Tail(CertFiles(key, ca, want)))
           /\ target["server.key"] = CertFiles(key, ca, want)[1][2]
           /\ target["server.pem"] = CertFiles(key, ca, want)[2][2]
  BY DEF MakesCert
<1> DEFINE files == CertFiles(key, ca, want)
<1>4. ASSUME NEW g, Len(proc[p].todo) > 1, Tail(proc[p].todo) # << >>, Head(Tail(proc[p].todo))[1] = g
      PROVE  Replacing(p, g)'
  <2>1. AfterRename(p) = "save"
    BY <1>4 DEF AfterRename
  <2>2. proc'[p].pc = "save" /\ proc'[p].todo = Tail(proc[p].todo)
    BY <1>1, <2>1 DEF Renamed, Typed, Process
  <2> QED
    BY <1>4, <2>2 DEF Replacing, At
<1>5. CASE proc[p].todo = files
  <2>1. Len(files) > 1 /\ Tail(files) # << >> /\ Head(Tail(files))[1] = "server.pem"
    BY CertLists, ShortLists DEF CertFiles
  <2> QED
    BY <1>4, <1>5, <2>1 DEF Halfway
<1>6. CASE proc[p].todo = Tail(files)
  <2>1. /\ Len(Tail(files)) > 1 /\ Tail(Tail(files)) # << >>
        /\ Head(Tail(Tail(files)))[1] = "server.sans"
    BY CertLists, ShortLists DEF CertFiles
  <2> QED
    BY <1>4, <1>6, <2>1 DEF Halfway
<1>7. CASE /\ proc[p].todo = Tail(Tail(files))
           /\ target["server.key"] = files[1][2] /\ target["server.pem"] = files[2][2]
  <2>1. f = "server.sans" /\ tmp[f] = Text(0, 0, want)
    <3>1. Head(Tail(Tail(files))) = <<"server.sans", Text(0, 0, want)>>
      BY CertLists
    <3> HIDE DEF files
    <3>2. Head(proc[p].todo) = <<"server.sans", Text(0, 0, want)>>
      BY <1>7, <3>1
    <3> QED
      BY <1>1, <1>2, <3>2
  <2>2. /\ target'["server.sans"] = Text(0, 0, want)
        /\ target'["server.key"] = files[1][2] /\ target'["server.pem"] = files[2][2]
    BY <1>1, <1>7, <2>1 DEF Typed, Files
  <2>3. /\ files[1][2].key = key /\ files[2][2].key = key
        /\ files[2][2].text = "whole" /\ files[2][2].names = Carried(want)
        /\ Text(0, 0, want).names = want
    BY DEF CertFiles, Text
  <2>4. want \in {{}, Carried(want)}
    BY DEF Carried
  <2> QED
    BY SMTT(60), <2>1, <2>2, <2>3, <2>4 DEF Matching
<1> QED
  BY SMTT(60), <1>3, <1>5, <1>6, <1>7

(* No list at the start.                                                    *)
LEMMA SettledInitial == CertInit => Settled
BY DEF CertInit, Settled, Matching, Absent, Files

(* Every step leaves the files matching or a process halfway, unless a      *)
(* process dies halfway.                                                    *)
LEMMA StepSettled ==
  ASSUME ~Overlap, Typed, AloneInv, ChainInv, Settled, [CertNext]_certVars
  PROVE  Settled'
<1>1. ASSUME UNCHANGED target, torn => torn', \A q \in Procs : ~Halfway(q) PROVE Settled'
  BY <1>1 DEF Settled, Matching
<1>2. ASSUME NEW p \in Procs, ~At(p, "save"), \A q \in Procs : q # p => At(q, "rest")
      PROVE  \A q \in Procs : ~Halfway(q)
  BY <1>2 DEF Halfway, Replacing, At
<1>3. ASSUME NEW p \in Procs, ~At(p, "rest") PROVE \A q \in Procs : q # p => At(q, "rest")
  BY <1>3 DEF AloneInv
<1>4. ASSUME NEW p \in Procs, NEW op \in {"ensure", "init"}, NEW want \in Wants, Call(p, op, want)
      PROVE  Settled'
  BY <1>1, <1>2, <1>4 DEF Call, At
<1>5. ASSUME NEW p \in Procs, Check(p) \/ EnsureCa(p) \/ InstallCa(p) \/ Issue(p) PROVE Settled'
  <2>1. ~At(p, "rest") /\ ~At(p, "save") /\ UNCHANGED <<target, torn>>
    BY <1>5 DEF Check, EnsureCa, InstallCa, Issue, At
  <2> QED
    BY <1>1, <1>2, <1>3, <2>1
<1>6. ASSUME UNCHANGED <<target, torn>>, \A q \in Procs : proc'[q].pc = proc[q].pc /\ proc'[q].todo = proc[q].todo
      PROVE  Settled'
  BY <1>6 DEF Settled, Matching, Halfway, Replacing, At
<1>7. ASSUME NEW p \in Procs, NEW f \in Files, Open(p, f) PROVE Settled'
  BY <1>6, <1>7 DEF Open, Typed, Process
<1>8. ASSUME NEW p \in Procs, NEW f \in Files, WriteAll(p, f) PROVE Settled'
  <2>1. UNCHANGED torn
    BY <1>8 DEF WriteAll
  <2> QED
    BY SMTT(60), <1>6, <1>8, <2>1, OneWrites DEF Typed, Process
<1>9. ASSUME NEW p \in Procs, NEW f \in Files, Replacing(p, f), f \notin {"server.pem", "server.sans"}
      PROVE  \A q \in Procs : ~Halfway(q)
  BY <1>3, <1>9 DEF Halfway, Replacing, At
<1>10. ASSUME NEW p \in Procs, NEW f \in Files, Rename(p, f) PROVE Settled'
  <2>1. Replacing(p, f) /\ target' = [target EXCEPT ![f] = tmp[f]] /\ (MakesCa(p) \/ MakesCert(p))
    BY <1>10, OneRenames DEF Rename, Replacing, ChainInv, OnIts
  <2>2. CASE MakesCa(p)
    <3>1. f \in {"ca.key", "ca.pem"}
      BY <2>1, <2>2, CaProgress
    <3>2. \A g \in {"server.key", "server.pem", "server.sans"} : target'[g] = target[g]
      BY <2>1, <3>1 DEF Typed, Files
    <3>3. \A q \in Procs : ~Halfway(q)
      BY <1>9, <2>1, <3>1
    <3>4. torn => torn'
      BY <1>10, <3>1 DEF Rename, Stop
    <3> QED
      BY <3>2, <3>3, <3>4 DEF Settled, Matching
  <2>3. CASE MakesCert(p)
    BY <1>10, <2>3, CertProgress DEF Settled
  <2> QED
    BY <2>1, <2>2, <2>3
<1>11. ASSUME NEW p \in Procs, NEW f \in Files, Die(p, f) PROVE Settled'
  <2>1. CASE f \in {"server.pem", "server.sans"}
    BY <1>11, <2>1 DEF Die, Stop, Settled
  <2>2. CASE f \notin {"server.pem", "server.sans"}
    <3>1. Replacing(p, f) /\ UNCHANGED target /\ (torn => torn')
      BY <1>11 DEF Die, Stop
    <3> QED
      BY <1>1, <1>9, <2>2, <3>1
  <2> QED
    BY <2>1, <2>2
<1>12. CASE UNCHANGED certVars
  BY <1>6, <1>12 DEF certVars
<1> QED
  BY <1>4, <1>5, <1>7, <1>8, <1>10, <1>11, <1>12 DEF CertNext, Replace

(* What a call that ends leaves behind is what it was made for.             *)
LEMMA EndUsable ==
  ASSUME ~Overlap, Typed, AloneInv, ChainInv, Settled, [CertNext]_certVars,
         NEW p \in Procs, At(p, "check") \/ Replacing(p, "server.sans"), proc'[p] = Resting, ~torn'
  PROVE  /\ target'["server.pem"].text # "none"
         /\ target'["server.pem"].key = target'["server.key"].key
         /\ proc[p].want # {} => target'["server.pem"].names = proc[p].want
<1>1. proc'[p].pc = "rest" /\ proc[p].pc \in {"check", "save"}
  BY DEF Resting, At, Replacing
<1>2. \A q \in Procs : q # p => At(q, "rest")
  BY <1>1 DEF AloneInv, At
<1>3. ASSUME NEW q \in Procs, ~At(q, "rest") PROVE q = p
  BY <1>2, <1>3
<1>4. ASSUME Check(p)
      PROVE  /\ target'["server.pem"].text # "none"
             /\ target'["server.pem"].key = target'["server.key"].key
             /\ proc[p].want # {} => target'["server.pem"].names = proc[p].want
  <2>1. ~Move(p, "ca")
    BY <1>1 DEF Move, Typed, Process
  <2>2. /\ Exists("server.pem") /\ proc[p].want \in {{}, target["server.sans"].names}
        /\ UNCHANGED <<target, torn>> /\ At(p, "check")
    BY <1>4, <2>1 DEF Check
  <2>3. \A q \in Procs : ~Halfway(q)
    BY <1>2, <2>2 DEF At, Halfway, Replacing
  <2> QED
    BY <2>2, <2>3 DEF Settled, Matching, Exists
<1>5. ASSUME NEW f \in Files, Rename(p, f)
      PROVE  /\ target'["server.pem"].text # "none"
             /\ target'["server.pem"].key = target'["server.key"].key
             /\ proc[p].want # {} => target'["server.pem"].names = proc[p].want
  <2>1. Replacing(p, f) /\ At(p, "save") /\ f = "server.sans"
    BY <1>5 DEF Rename, Replacing, At
  <2>2. MakesCert(p)
    BY <2>1, CaProgress DEF ChainInv, OnIts, At
  <2>3. ~Halfway(p)'
    BY <1>1 DEF Halfway, Replacing, At
  <2> QED
    BY <1>5, <2>2, <2>3, CertProgress DEF Matching, Carried
<1>6. \A q \in Procs, op \in {"ensure", "init"}, want \in Wants : ~Call(q, op, want)
  BY <1>1 DEF Call, At
<1>7. \A q \in Procs : ~EnsureCa(q) /\ ~InstallCa(q) /\ ~Issue(q)
  BY <1>1, <1>3 DEF EnsureCa, InstallCa, Issue, At
<1>8. \A q \in Procs, f \in Files : ~Open(q, f) /\ ~WriteAll(q, f) /\ ~Die(q, f)
  <2> SUFFICES ASSUME NEW q \in Procs, NEW f \in Files, Open(q, f) \/ WriteAll(q, f) \/ Die(q, f)
               PROVE  FALSE
    OBVIOUS
  <2>1. Replacing(q, f) /\ q = p
    BY <1>3 DEF Open, WriteAll, Die, Replacing, At
  <2>2. f = "server.sans"
    BY <1>1, <2>1 DEF Replacing, At
  <2>3. ~Die(q, f)
    BY <2>2 DEF Die, Stop
  <2>4. proc'[p].pc = proc[p].pc
    BY <2>1, <2>3 DEF Open, WriteAll, Typed, Process
  <2> QED
    BY <1>1, <2>4
<1>9. \A q \in Procs : Check(q) => q = p
  BY <1>3 DEF Check, At
<1>10. \A q \in Procs, f \in Files : Rename(q, f) => q = p
  BY <1>3 DEF Rename, Replacing, At
<1>11. ~UNCHANGED certVars
  BY <1>1 DEF certVars
<1> QED
  BY <1>4, <1>5, <1>6, <1>7, <1>8, <1>9, <1>10, <1>11 DEF CertNext, Replace

(* As long as one process at a time is at the certificates, a call that     *)
(* found a certificate good enough or made one (certs.rs:76) leaves a       *)
(* certificate with the key it goes with, and with exactly the names it     *)
(* needed, if it needed any, wherever processes died before.  The exception *)
(* is what the two deaths that do harm leave: between the renames of        *)
(* server.key and server.pem the new key stays beside the old certificate,  *)
(* between those of server.pem and server.sans the list beside the new      *)
(* certificate is the old one, and calls take either as it is as long as    *)
(* they need the names of the list (certs.rs:105-111).                      *)
THEOREM EnsureUsable == ~Overlap => (CertSpec => EnsureLeavesUsable)
<1> SUFFICES ASSUME ~Overlap
             PROVE  CertSpec => EnsureLeavesUsable
  OBVIOUS
<1> DEFINE Inv == Typed /\ AloneInv /\ ChainInv /\ Settled
<1>1. CertInit => Inv
  BY InitTyped, AloneInitial, ChainInitial, SettledInitial
<1>2. Inv /\ [CertNext]_certVars => Inv'
  BY StepTyped, StepAlone, StepChain, StepSettled
<1> DEFINE Usable ==
      \A p \in Procs :
        (At(p, "check") \/ Replacing(p, "server.sans")) /\ proc'[p] = Resting /\ ~torn'
        => /\ target'["server.pem"].text # "none"
           /\ target'["server.pem"].key = target'["server.key"].key
           /\ proc[p].want # {} => target'["server.pem"].names = proc[p].want
<1>3. Inv /\ [CertNext]_certVars => [Usable]_certVars
  BY EndUsable
<1> HIDE DEF Inv
<1>4. CertSpec => [][Usable]_certVars
  BY <1>1, <1>2, <1>3, PTL DEF CertSpec
<1> QED
  BY <1>4 DEF EnsureLeavesUsable
=============================================================================
