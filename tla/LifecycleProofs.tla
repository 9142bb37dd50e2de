--------------------------- MODULE LifecycleProofs ---------------------------
(***************************************************************************)
(* Theorems about the lifecycle commands, for any project, any sequence of *)
(* commands and any number of faults.                                      *)
(***************************************************************************)
EXTENDS Lifecycle, SequenceTheorems, TLAPS

(* What a compose file says in an environment. *)
ServicesOf(file, env) == Loaded[file, env].config.services

(* A container is under the name of its service in its runtime, and bears  *)
(* the labels the service had in some environment of the project.          *)
Place(b, svc) == IF b = "docker" THEN svc ELSE ContainerName(svc)
IsContainer(c) == \E S, A, N, R : c \in [state : S, ip : A, network : N, args : R]
MadeFor(file, b, n, c) ==
    /\ IsContainer(c)
    /\ \E env \in Environments : \E svc \in DOMAIN ServicesOf(file, env) :
          n = Place(b, svc) /\ c.args.labels = ServicesOf(file, env)[svc].labels
Made(file, b, cs) == \A n \in DOMAIN cs : MadeFor(file, b, n, cs[n])
WorldInv ==
    /\ containers = [b \in BackendNames |-> containers[b]]
    /\ \A b \in BackendNames : Made(compose, b, containers[b])

(* The services a call of `up` has still to run are services of the file. *)
Entries(file) ==
    UNION {{[name |-> svc, service |-> ServicesOf(file, env)[svc]] : svc \in DOMAIN ServicesOf(file, env)} :
               env \in Environments}
IsCall(c) == \E B, V, S, T, Q, N : c \in [backend : B, verb : V, svc : S, state : T, queue : Q, network : N]
CallOf(file, c) ==
    /\ IsCall(c)
    /\ c.verb = "up" => c.queue \in Seq(Entries(file))
CallInv == CallOf(compose, call)

(* A command works in an environment of the project, and with the runtime  *)
(* that sync would pick.                                                   *)
CommandInv ==
    /\ compose \in Files
    /\ dotEnv \in {None} \cup {Some(file) : file \in DotEnvs}
    /\ cmd # NoCommand => projEnv \in Environments /\ backend = DetectForProject(settings, projEnv)

(* As long as the routes are to be adapted, nothing is said of them; from  *)
(* then on there are only hooks to run, and they agree with the containers *)
(* unless they could not be adapted.                                       *)
Routing == {"start", "restart", "stop"}
Adapts(name) == IF name = "stop" THEN "unsync" ELSE "sync"
StepsFor(svc) == [op : {"hook", "compose", "sync", "unsync"},
                  verb : {"pre-start", "post-start", "pre-stop", "post-stop", "up", "stop", ""}, svc : {All, svc}]
HooksFrom(steps, i) == \A j \in i .. Len(steps) : steps[j].op = "hook"
Coming(steps, op) == \E i \in 1 .. Len(steps) : steps[i].op = op /\ HooksFrom(steps, i + 1)
TodoInv ==
    cmd # NoCommand /\ cmd.name \in Routing =>
        /\ todo \in Seq(StepsFor(cmd.svc))
        /\ \/ Coming(todo, Adapts(cmd.name))
           \/ HooksFrom(todo, 1) /\ (~missed => Agree(cmd.name, backend))
ResultInv == (cmd # NoCommand => result.status # "ok") /\ RoutesAgree

LifecycleInv == CommandInv /\ WorldInv /\ CallInv /\ TodoInv /\ ResultInv

(* A dump is at one of its steps; it has opened the file when only the     *)
(* client is left, and has the whole database in it when nothing is.       *)
FromDump == <<Do("dump")>>
FromCreate == <<Do("create"), Do("dump")>>
FromResolve == <<Do("resolve"), Do("create"), Do("dump")>>
FromCheck == <<Do("check"), Do("resolve"), Do("create"), Do("dump")>>
DumpInv ==
    cmd # NoCommand /\ cmd.name = "dump" =>
        \/ todo \in {FromCheck, FromResolve, FromCreate}
        \/ todo = FromDump /\ dump = "empty"
        \/ todo = <<>> /\ (cmd.arg # "gz" => dump = "full")

------------------------------------------------------------------------------
(* The steps of the commands                                               *)

(* The rest of a sequence. *)
LEMMA TailElements ==
  ASSUME NEW S, NEW s \in Seq(S), s # <<>>
  PROVE  /\ Head(s) \in S /\ Head(s) = s[1] /\ Tail(s) \in Seq(S) /\ Len(s) \in Nat \ {0}
         /\ Len(Tail(s)) = Len(s) - 1 /\ \A i \in 1 .. Len(Tail(s)) : Tail(s)[i] = s[i + 1]
OBVIOUS

(* What was to come after the first step still is, and if the first step   *)
(* was it, only hooks are left.                                            *)
LEMMA ComingNext ==
  ASSUME NEW S, NEW s \in Seq(S), s # <<>>, NEW op, Coming(s, op)
  PROVE  Coming(Tail(s), op) \/ (Head(s).op = op /\ HooksFrom(Tail(s), 1))
<1>1. PICK i \in 1 .. Len(s) : s[i].op = op /\ HooksFrom(s, i + 1)
  BY DEF Coming
<1>2. /\ Head(s) = s[1] /\ Len(s) \in Nat \ {0} /\ Len(Tail(s)) = Len(s) - 1
      /\ \A j \in 1 .. Len(Tail(s)) : Tail(s)[j] = s[j + 1]
  BY TailElements
<1>3. \A j \in i .. Len(Tail(s)) : Tail(s)[j].op = "hook"
  <2> TAKE j \in i .. Len(Tail(s))
  <2>1. j \in 1 .. Len(Tail(s)) /\ j + 1 \in i + 1 .. Len(s)
    BY <1>2
  <2> QED
    BY <1>1, <1>2, <2>1 DEF HooksFrom
<1>4. CASE i = 1
  BY <1>1, <1>2, <1>3, <1>4 DEF HooksFrom
<1>5. CASE i # 1
  <2>1. i - 1 \in 1 .. Len(Tail(s)) /\ (i - 1) + 1 = i
    BY <1>2, <1>5
  <2>2. Tail(s)[i - 1].op = op /\ HooksFrom(Tail(s), (i - 1) + 1)
    BY <1>1, <1>2, <1>3, <2>1 DEF HooksFrom
  <2> QED
    BY <2>1, <2>2 DEF Coming
<1> QED
  BY <1>4, <1>5

LEMMA HooksNext ==
  ASSUME NEW S, NEW s \in Seq(S), s # <<>>, HooksFrom(s, 1)
  PROVE  Head(s).op = "hook" /\ HooksFrom(Tail(s), 1)
<1>1. /\ Head(s) = s[1] /\ Len(s) \in Nat \ {0} /\ Len(Tail(s)) = Len(s) - 1
      /\ \A j \in 1 .. Len(Tail(s)) : Tail(s)[j] = s[j + 1]
  BY TailElements
<1>2. \A j \in 1 .. Len(Tail(s)) : j + 1 \in 1 .. Len(s)
  BY <1>1
<1> QED
  BY <1>1, <1>2 DEF HooksFrom

(* A start, a restart and a stop adapt the routes after all else but their *)
(* last hooks.                                                             *)
LEMMA RoutingSteps ==
  ASSUME NEW c, c.name \in Routing
  PROVE  Steps(c) \in Seq(StepsFor(c.svc)) /\ Coming(Steps(c), Adapts(c.name))
<1> DEFINE svc == c.svc
<1>1. /\ Hook("pre-start") \in StepsFor(svc) /\ Hook("post-start") \in StepsFor(svc)
      /\ Hook("pre-stop") \in StepsFor(svc) /\ Hook("post-stop") \in StepsFor(svc)
      /\ \A s \in {All, svc} : Compose("up", s) \in StepsFor(svc) /\ Compose("stop", s) \in StepsFor(svc)
      /\ Do("sync") \in StepsFor(svc) /\ Do("unsync") \in StepsFor(svc)
  BY DEF StepsFor, Hook, Compose, Do
<1>2. /\ Hook("post-start").op = "hook" /\ Hook("post-stop").op = "hook"
      /\ Do("sync").op = "sync" /\ Do("unsync").op = "unsync"
  BY DEF Hook, Do
<1>3. CASE c.name = "start"
  <2>1. Steps(c) = StartSteps(svc) /\ Adapts(c.name) = "sync"
    BY <1>3 DEF Steps, Adapts
  <2>2. CASE svc = All
    <3> DEFINE s == <<Hook("pre-start"), Compose("up", All), Do("sync"), Hook("post-start")>>
    <3>1. Steps(c) = s
      BY <2>1, <2>2 DEF StartSteps
    <3>2. s \in Seq(StepsFor(svc)) /\ Len(s) = 4 /\ s[3] = Do("sync") /\ s[4] = Hook("post-start")
      BY <1>1
    <3> HIDE DEF s
    <3>3. s[3].op = "sync" /\ HooksFrom(s, 3 + 1) /\ 3 \in 1 .. Len(s)
      BY <1>2, <3>2 DEF HooksFrom
    <3> QED
      BY <2>1, <3>1, <3>2, <3>3 DEF Coming
  <2>3. CASE svc # All
    <3> DEFINE s == <<Compose("up", svc), Do("sync")>>
    <3>1. Steps(c) = s
      BY <2>1, <2>3 DEF StartSteps
    <3>2. s \in Seq(StepsFor(svc)) /\ Len(s) = 2 /\ s[2] = Do("sync")
      BY <1>1
    <3> HIDE DEF s
    <3>3. s[2].op = "sync" /\ HooksFrom(s, 2 + 1) /\ 2 \in 1 .. Len(s)
      BY <1>2, <3>2 DEF HooksFrom
    <3> QED
      BY <2>1, <3>1, <3>2, <3>3 DEF Coming
  <2> QED
    BY <2>2, <2>3
<1>4. CASE c.name = "stop"
  <2>1. Steps(c) = StopSteps(svc) /\ Adapts(c.name) = "unsync"
    BY <1>4 DEF Steps, Adapts
  <2>2. CASE svc = All
    <3> DEFINE s == <<Hook("pre-stop"), Compose("stop", All), Do("unsync"), Hook("post-stop")>>
    <3>1. Steps(c) = s
      BY <2>1, <2>2 DEF StopSteps
    <3>2. s \in Seq(StepsFor(svc)) /\ Len(s) = 4 /\ s[3] = Do("unsync") /\ s[4] = Hook("post-stop")
      BY <1>1
    <3> HIDE DEF s
    <3>3. s[3].op = "unsync" /\ HooksFrom(s, 3 + 1) /\ 3 \in 1 .. Len(s)
      BY <1>2, <3>2 DEF HooksFrom
    <3> QED
      BY <2>1, <3>1, <3>2, <3>3 DEF Coming
  <2>3. CASE svc # All
    <3> DEFINE s == <<Compose("stop", svc), Do("unsync")>>
    <3>1. Steps(c) = s
      BY <2>1, <2>3 DEF StopSteps
    <3>2. s \in Seq(StepsFor(svc)) /\ Len(s) = 2 /\ s[2] = Do("unsync")
      BY <1>1
    <3> HIDE DEF s
    <3>3. s[2].op = "unsync" /\ HooksFrom(s, 2 + 1) /\ 2 \in 1 .. Len(s)
      BY <1>2, <3>2 DEF HooksFrom
    <3> QED
      BY <2>1, <3>1, <3>2, <3>3 DEF Coming
  <2> QED
    BY <2>2, <2>3
<1>5. CASE c.name = "restart"
  <2>1. Steps(c) = RestartSteps(svc) /\ Adapts(c.name) = "sync"
    BY <1>5 DEF Steps, Adapts
  <2>2. CASE svc = All
    <3> DEFINE first == <<Hook("pre-stop"), Compose("stop", All), Hook("post-stop")>>
               second == <<Hook("pre-start"), Compose("up", All), Do("sync"), Hook("post-start")>>
               s == first \o second
    <3>1. Steps(c) = s
      BY <2>1, <2>2 DEF RestartSteps, StartSteps
    <3>2. /\ first \in Seq(StepsFor(svc)) /\ Len(first) = 3
          /\ second \in Seq(StepsFor(svc)) /\ Len(second) = 4 /\ second[3] = Do("sync") /\ second[4] = Hook("post-start")
      BY <1>1
    <3> HIDE DEF first, second
    <3>3. s \in Seq(StepsFor(svc)) /\ Len(s) = 7 /\ s[6] = second[3] /\ s[7] = second[4]
      <4>1. /\ s \in Seq(StepsFor(svc)) /\ Len(s) = Len(first) + Len(second)
            /\ \A i \in 1 .. Len(first) + Len(second) : s[i] = IF i <= Len(first) THEN first[i] ELSE second[i - Len(first)]
        BY <3>2, ConcatProperties
      <4> QED
        BY <3>2, <4>1
    <3> HIDE DEF s
    <3>4. s[6].op = "sync" /\ HooksFrom(s, 6 + 1) /\ 6 \in 1 .. Len(s)
      BY <1>2, <3>2, <3>3 DEF HooksFrom
    <3> QED
      BY <2>1, <3>1, <3>3, <3>4 DEF Coming
  <2>3. CASE svc # All
    <3> DEFINE s == <<Compose("stop", svc), Compose("up", svc), Do("sync")>>
    <3>1. Steps(c) = s
      BY <2>1, <2>3 DEF RestartSteps
    <3>2. s \in Seq(StepsFor(svc)) /\ Len(s) = 3 /\ s[3] = Do("sync")
      BY <1>1
    <3> HIDE DEF s
    <3>3. s[3].op = "sync" /\ HooksFrom(s, 3 + 1) /\ 3 \in 1 .. Len(s)
      BY <1>2, <3>2 DEF HooksFrom
    <3> QED
      BY <2>1, <3>1, <3>2, <3>3 DEF Coming
  <2> QED
    BY <2>2, <2>3
<1> QED
  BY <1>3, <1>4, <1>5 DEF Routing

------------------------------------------------------------------------------
(* The containers and the calls                                            *)

(* A runtime whose containers are replaced by others made for services. *)
LEMMA WorldUpdate ==
  ASSUME WorldInv, compose' = compose, NEW b \in BackendNames, NEW cs, Made(compose, b, cs),
         containers' = [containers EXCEPT ![b] = cs]
  PROVE  WorldInv'
<1>1. containers' = [a \in BackendNames |-> IF a = b THEN cs ELSE containers[a]]
  BY DEF WorldInv
<1>2. \A a \in BackendNames : Made(compose, a, containers'[a])
  BY <1>1 DEF WorldInv
<1> QED
  BY <1>1, <1>2 DEF WorldInv

(* Fewer containers, and one more. *)
LEMMA DropMade ==
  ASSUME NEW file, NEW b, NEW cs, Made(file, b, cs), NEW names
  PROVE  Made(file, b, Drop(cs, names)) /\ DOMAIN Drop(cs, names) \subseteq DOMAIN cs
BY DEF Made, Drop
LEMMA PutMade ==
  ASSUME NEW file, NEW b, NEW cs, Made(file, b, cs), NEW n, NEW c, MadeFor(file, b, n, c)
  PROVE  Made(file, b, Put(cs, n, c))
BY DEF Made, Put, Set

(* Stopping changes neither the place nor the labels. *)
LEMMA StoppedMade ==
  ASSUME NEW file, NEW b, NEW n, NEW c, MadeFor(file, b, n, c)
  PROVE  MadeFor(file, b, n, Stopped(c))
<1>1. PICK S, A, N, R : c \in [state : S, ip : A, network : N, args : R]
  BY DEF MadeFor, IsContainer
<1>2. /\ Stopped(c) \in [state : S \cup {"exited"}, ip : A \cup {NoAddress}, network : N, args : R]
      /\ Stopped(c).args = c.args
  BY <1>1 DEF Stopped
<1>3. IsContainer(Stopped(c))
  BY ZenonT(60), <1>2 DEF IsContainer
<1> QED
  BY <1>2, <1>3 DEF MadeFor
StoppedIn(cs, names) == [n \in DOMAIN cs |-> IF n \in names THEN Stopped(cs[n]) ELSE cs[n]]
LEMMA StopMade ==
  ASSUME NEW file, NEW b, NEW cs, Made(file, b, cs), NEW names
  PROVE  Made(file, b, StoppedIn(cs, names))
BY StoppedMade DEF Made, StoppedIn

(* A record with the fields of a call. *)
LEMMA CallMade ==
  ASSUME NEW file, NEW B, NEW V, NEW S, NEW T, NEW Q, NEW N,
         NEW c \in [backend : B, verb : V, svc : S, state : T, queue : Q, network : N],
         c.verb = "up" => c.queue \in Seq(Entries(file))
  PROVE  CallOf(file, c)
<1>1. IsCall(c)
  BY DEF IsCall
<1> QED
  BY <1>1 DEF CallOf

(* What may be done to the record of a call. *)
LEMMA CallEdits ==
  ASSUME NEW file, NEW c, CallOf(file, c)
  PROVE  /\ \A st : CallOf(file, [c EXCEPT !.state = st, !.queue = <<>>])
         /\ \A st : CallOf(file, [c EXCEPT !.state = st])
         /\ c.queue # <<>> => CallOf(file, [c EXCEPT !.queue = Tail(@)])
         /\ \A net, q : (c.verb = "up" => q \in Seq(Entries(file)))
               => CallOf(file, [c EXCEPT !.state = "busy", !.network = net, !.queue = q])
<1>1. PICK B, V, S, T, Q, N : c \in [backend : B, verb : V, svc : S, state : T, queue : Q, network : N]
  BY DEF CallOf, IsCall
<1>2. c.verb = "up" => c.queue \in Seq(Entries(file))
  BY DEF CallOf
<1>3. <<>> \in Seq(Entries(file))
  OBVIOUS
<1>4. ASSUME NEW st PROVE CallOf(file, [c EXCEPT !.state = st, !.queue = <<>>])
  <2> DEFINE r == [c EXCEPT !.state = st, !.queue = <<>>]
  <2>1. /\ r \in [backend : B, verb : V, svc : S, state : T \cup {st}, queue : Q \cup {<<>>}, network : N]
        /\ r.verb = c.verb /\ r.queue = <<>>
    BY <1>1
  <2> HIDE DEF r
  <2>2. r.verb = "up" => r.queue \in Seq(Entries(file))
    BY <1>3, <2>1
  <2>3. CallOf(file, r)
    BY <2>1, <2>2, CallMade
  <2> QED
    BY <2>3 DEF r
<1>5. ASSUME NEW st PROVE CallOf(file, [c EXCEPT !.state = st])
  <2> DEFINE r == [c EXCEPT !.state = st]
  <2>1. /\ r \in [backend : B, verb : V, svc : S, state : T \cup {st}, queue : Q, network : N]
        /\ r.verb = c.verb /\ r.queue = c.queue
    BY <1>1
  <2> HIDE DEF r
  <2>2. CallOf(file, r)
    BY <1>2, <2>1, CallMade
  <2> QED
    BY <2>2 DEF r
<1>6. ASSUME c.queue # <<>> PROVE CallOf(file, [c EXCEPT !.queue = Tail(@)])
  <2> DEFINE q == Tail(c.queue)  r == [c EXCEPT !.queue = q]
  <2>1. c.verb = "up" => q \in Seq(Entries(file))
    BY <1>2, <1>6, TailElements
  <2> HIDE DEF q
  <2>2. /\ r \in [backend : B, verb : V, svc : S, state : T, queue : Q \cup {q}, network : N]
        /\ r.verb = c.verb /\ r.queue = q
    BY <1>1
  <2>3. r = [c EXCEPT !.queue = Tail(@)]
    BY DEF q
  <2> HIDE DEF r
  <2> QED
    BY <2>1, <2>2, <2>3, CallMade
<1>7. ASSUME NEW net, NEW q, c.verb = "up" => q \in Seq(Entries(file))
      PROVE  CallOf(file, [c EXCEPT !.state = "busy", !.network = net, !.queue = q])
  <2> DEFINE r == [c EXCEPT !.state = "busy", !.network = net, !.queue = q]
  <2>1. /\ r \in [backend : B, verb : V, svc : S, state : T \cup {"busy"}, queue : Q \cup {q}, network : N \cup {net}]
        /\ r.verb = c.verb /\ r.queue = q
    BY <1>1
  <2> HIDE DEF r
  <2>2. CallOf(file, r)
    BY <1>7, <2>1, CallMade
  <2> QED
    BY <2>2 DEF r
<1> QED
  BY <1>4, <1>5, <1>6, <1>7

(* A call as it begins, and none. *)
LEMMA CallBegins ==
  ASSUME NEW file
  PROVE  CallOf(file, NoCall) /\ \A b, v, s : CallOf(file, Call(b, v, s))
<1> DEFINE R(B, V, S, T) == [backend : B, verb : V, svc : S, state : T, queue : {<<>>}, network : {""}]
<1>0. <<>> \in Seq(Entries(file))
  OBVIOUS
<1>1. NoCall \in R({"docker"}, {"none"}, {All}, {"idle"}) /\ NoCall.verb = "none"
  BY DEF NoCall
<1>2. CallOf(file, NoCall)
  BY <1>1, CallMade
<1>3. ASSUME NEW b, NEW v, NEW s PROVE CallOf(file, Call(b, v, s))
  <2>1. NoCall \in R({"docker", b}, {"none", v}, {All, s}, {"idle", "todo"})
    BY DEF NoCall
  <2>2. Call(b, v, s) \in R({"docker", b}, {"none", v}, {All, s}, {"idle", "todo"})
    BY <2>1 DEF Call
  <2>3. Call(b, v, s).queue = <<>>
    BY <2>2
  <2>4. Call(b, v, s).verb = "up" => Call(b, v, s).queue \in Seq(Entries(file))
    BY <1>0, <2>3
  <2> QED
    BY <2>2, <2>4, CallMade
<1> QED
  BY <1>2, <1>3

(* The queue of the services of a file. *)
LEMMA QueueTyped ==
  ASSUME NEW file, NEW env \in Environments, NEW names \in Seq(DOMAIN ServicesOf(file, env))
  PROVE  Queue(ServicesOf(file, env), names) \in Seq(Entries(file))
<1>1. \A i \in DOMAIN names : [name |-> names[i], service |-> ServicesOf(file, env)[names[i]]] \in Entries(file)
  BY DEF Entries
<1>2. DOMAIN names = 1 .. Len(names) /\ Len(names) \in Nat
  OBVIOUS
<1> QED
  BY <1>1, <1>2 DEF Queue

(* The container a service is run in is made for it. *)
LEMMA RunMade ==
  ASSUME NEW file, NEW q \in Entries(file), NEW net, NEW ip
  PROVE  MadeFor(file, "apple", ContainerName(q.name),
                 [state |-> "running", ip |-> ip, network |-> net, args |-> RunArgs(q.name, q.service)])
<1>1. PICK env \in Environments : \E svc \in DOMAIN ServicesOf(file, env) :
          q = [name |-> svc, service |-> ServicesOf(file, env)[svc]]
  BY DEF Entries
<1>2. PICK svc \in DOMAIN ServicesOf(file, env) : q = [name |-> svc, service |-> ServicesOf(file, env)[svc]]
  BY <1>1
<1> DEFINE run == RunArgs(q.name, q.service)
           c == [state |-> "running", ip |-> ip, network |-> net, args |-> run]
<1>3. q.name = svc /\ q.service = ServicesOf(file, env)[svc]
  BY <1>2
<1>4. run.labels = q.service.labels
  BY DEF RunArgs
<1> HIDE DEF run
<1>5. c \in [state : {"running"}, ip : {ip}, network : {net}, args : {run}] /\ c.args = run
  OBVIOUS
<1> HIDE DEF c
<1>6. IsContainer(c)
  BY <1>5 DEF IsContainer
<1>7. ContainerName(q.name) = Place("apple", svc)
  BY <1>3 DEF Place
<1>8. MadeFor(file, "apple", ContainerName(q.name), c)
  BY <1>3, <1>4, <1>5, <1>6, <1>7 DEF MadeFor
<1> QED
  BY <1>8 DEF c, run

(* Whatever compose has done, each container is one of a service's. *)
LEMMA CarriedMade ==
  ASSUME NEW file, NEW env \in Environments, NEW cs, Made(file, "docker", cs),
         NEW svcs \in SUBSET DOMAIN ServicesOf(file, env), NEW verb, NEW bare,
         NEW after \in Carried(verb, svcs, bare, Labels(ServicesOf(file, env)), cs)
  PROVE  Made(file, "docker", after)
<1> DEFINE services == ServicesOf(file, env)
           labels == Labels(services)
<1>1. CASE verb = "up"
  <2>1. after \in Started(svcs, bare, labels, cs)
    BY Zenon, <1>1 DEF Carried
  <2>2. PICK ips : after = [n \in DOMAIN cs \cup svcs |->
          IF n \in svcs THEN [state |-> "running", ip |-> IF n \in bare THEN NoAddress ELSE ips[n], network |-> "", args |-> labels[n]] ELSE cs[n]]
    BY <2>1 DEF Started
  <2>3. ASSUME NEW n \in svcs
        PROVE  MadeFor(file, "docker", n, [state |-> "running", ip |-> IF n \in bare THEN NoAddress ELSE ips[n],
                                           network |-> "", args |-> labels[n]])
    <3> DEFINE run == labels[n]  ip == IF n \in bare THEN NoAddress ELSE ips[n]
               c == [state |-> "running", ip |-> ip, network |-> "", args |-> run]
    <3>1. run.labels = services[n].labels
      BY DEF Labels
    <3> HIDE DEF run, ip
    <3>2. c \in [state : {"running"}, ip : {ip}, network : {""}, args : {run}] /\ c.args = run
      OBVIOUS
    <3> HIDE DEF c
    <3>3. IsContainer(c)
      BY <3>2 DEF IsContainer
    <3>4. n = Place("docker", n)
      BY DEF Place
    <3>5. MadeFor(file, "docker", n, c)
      BY <3>1, <3>2, <3>3, <3>4 DEF MadeFor
    <3> QED
      BY <3>5 DEF c, run, ip
  <2> HIDE DEF labels
  <2>4. ASSUME NEW n \in DOMAIN after PROVE MadeFor(file, "docker", n, after[n])
    <3>1. CASE n \in svcs
      BY <2>2, <2>3, <3>1
    <3>2. CASE n \notin svcs
      BY <2>2, <3>2 DEF Made
    <3> QED
      BY <3>1, <3>2
  <2> QED
    BY <2>4 DEF Made
<1>2. CASE verb = "stop"
  <2>1. after = StoppedIn(cs, svcs)
    BY Zenon, <1>2 DEF Carried, StoppedIn
  <2> QED
    BY <2>1, StopMade
<1>3. CASE verb = "rm"
  <2>1. after = Drop(cs, svcs \ Running(cs))
    BY Zenon, <1>3 DEF Carried
  <2> QED
    BY <2>1, DropMade
<1>4. CASE verb = "rm -s"
  <2>1. after = Drop(cs, svcs)
    BY Zenon, <1>4 DEF Carried
  <2> QED
    BY <2>1, DropMade
<1>5. CASE verb = "down"
  <2>1. after = <<>>
    BY Zenon, <1>5 DEF Carried
  <2> QED
    BY <2>1 DEF Made
<1>6. CASE verb \notin {"up", "stop", "rm", "rm -s", "down"}
  <2>1. after = cs
    BY Zenon, <1>6 DEF Carried
  <2> QED
    BY <2>1
<1> QED
  BY <1>1, <1>2, <1>3, <1>4, <1>5, <1>6

(* Compose works on services of the file. *)
LEMMA TouchedServices == \A services : Touched(services) \subseteq DOMAIN services
<1> TAKE services
<1>1. Needed(services, call.svc) \subseteq DOMAIN services
  BY DEF Needed
<1> QED
  BY Zenon, <1>1 DEF Touched

(* What leaves the containers as they are. *)
LEMMA WorldSame == WorldInv /\ UNCHANGED <<compose, containers>> => WorldInv'
BY DEF WorldInv
LEMMA CallSame == CallInv /\ UNCHANGED <<compose, call>> => CallInv'
BY DEF CallInv
LEMMA CallGoesOn ==
  ASSUME CallInv, compose' = compose
  PROVE  /\ \A st : Returns(st) => CallInv'
         /\ Proceed /\ call.queue # <<>> => CallInv'
         /\ \A st : call' = [call EXCEPT !.state = st] => CallInv'
<1>1. /\ \A st : CallOf(compose, [call EXCEPT !.state = st, !.queue = <<>>])
      /\ \A st : CallOf(compose, [call EXCEPT !.state = st])
      /\ call.queue # <<>> => CallOf(compose, [call EXCEPT !.queue = Tail(@)])
  BY CallEdits DEF CallInv
<1>2. ASSUME NEW st, Returns(st) PROVE CallInv'
  BY <1>1, <1>2 DEF CallInv, Returns
<1>3. ASSUME Proceed, call.queue # <<>> PROVE CallInv'
  BY <1>1, <1>3 DEF CallInv, Proceed
<1>4. ASSUME NEW st, call' = [call EXCEPT !.state = st] PROVE CallInv'
  BY <1>1, <1>4 DEF CallInv
<1> QED
  BY SMTT(60), <1>2, <1>3, <1>4

(* AppleBegin queues services of the file. *)
LEMMA AppleBeginKeeps ==
  ASSUME compose \in Files, projEnv \in Environments, CallInv, AppleBegin, compose' = compose
  PROVE  CallInv' /\ containers' = containers
<1> DEFINE config == Config
           known == config.ok /\ call.svc \in DOMAIN config.services \cup {All}
           names == IF call.verb = "up" THEN Order[call.svc] ELSE SelectedServices(config.services, call.svc)
           q == Queue(config.services, names)
           begun(network) ==
               IF known THEN call' = [call EXCEPT !.state = "busy", !.network = network, !.queue = q]
                        ELSE Returns("failed")
<1>1. containers' = containers /\ (Returns("failed") \/ \E network : begun(network))
  BY Zenon DEF AppleBegin
<1>2. config.services = ServicesOf(compose, projEnv)
  BY DEF Config, ServicesOf
<1>3. call.verb = "up" /\ known => q \in Seq(Entries(compose))
  <2>1. SUFFICES ASSUME call.verb = "up", known PROVE q \in Seq(Entries(compose))
    OBVIOUS
  <2>2. names = Loaded[compose, projEnv].order[call.svc]
    BY <2>1 DEF Order
  <2>3. names \in Seq(DOMAIN ServicesOf(compose, projEnv))
    BY <1>2, <2>1, <2>2, LoadedServices DEF ServicesOf
  <2> HIDE DEF names, config
  <2> QED
    BY <1>2, <2>3, QueueTyped
<1>4. ASSUME NEW network, begun(network) PROVE CallInv'
  <2>1. CASE known
    <3>1. call' = [call EXCEPT !.state = "busy", !.network = network, !.queue = q]
      BY <1>4, <2>1
    <3> HIDE DEF q, known
    <3> QED
      BY <1>3, <2>1, <3>1, CallEdits DEF CallInv
  <2>2. CASE ~known
    BY <1>4, <2>2, CallGoesOn
  <2> QED
    BY <2>1, <2>2
<1> HIDE DEF begun
<1> QED
  BY <1>1, <1>4, CallGoesOn

(* RunService replaces the container of the service, or deletes it. *)
LEMMA RunServiceKeeps ==
  ASSUME WorldInv, CallInv, compose' = compose, call.verb = "up", call.queue # <<>>,
         RunService(call.network)
  PROVE  WorldInv' /\ CallInv'
<1> DEFINE name == ContainerName(Service)
           others == Drop(appleContainers, {name})
<1>1. call.queue \in Seq(Entries(compose)) /\ Head(call.queue) \in Entries(compose)
  BY TailElements DEF CallInv, CallOf
<1>2. "apple" \in BackendNames /\ Made(compose, "apple", appleContainers)
  BY DEF BackendNames, WorldInv, appleContainers
<1>3. Made(compose, "apple", others)
  BY <1>2, DropMade
<1>4. ASSUME NEW network, NEW ips, RunOn(others, network, ips) PROVE WorldInv'
  <2>1. PICK ip : containers' = [containers EXCEPT !["apple"] = Put(others, name, Container(network, ip))]
    BY <1>4 DEF RunOn
  <2>2. MadeFor(compose, "apple", name, Container(network, ip))
    BY <1>1, RunMade DEF Container, Service, Described
  <2> HIDE DEF others, name
  <2>3. Made(compose, "apple", Put(others, name, Container(network, ip)))
    BY <1>3, <2>2, PutMade
  <2> QED
    BY <1>2, <2>1, <2>3, WorldUpdate
<1>5. \/ (\E network, ips : RunOn(others, network, ips)) /\ Proceed
      \/ containers' = [containers EXCEPT !["apple"] = others] /\ Returns("failed")
      \/ UNCHANGED containers /\ Returns("failed")
  BY Zenon DEF RunService
<1> HIDE DEF others
<1>6. CASE (\E network, ips : RunOn(others, network, ips)) /\ Proceed
  BY <1>4, <1>6, CallGoesOn
<1>7. CASE containers' = [containers EXCEPT !["apple"] = others] /\ Returns("failed")
  BY <1>2, <1>3, <1>7, WorldUpdate, CallGoesOn
<1>8. CASE UNCHANGED containers /\ Returns("failed")
  BY <1>8, WorldSame, CallGoesOn
<1> QED
  BY <1>5, <1>6, <1>7, <1>8

(* Every step of a call on the Apple runtime. *)
LEMMA AppleKeeps ==
  ASSUME compose \in Files, projEnv \in Environments, WorldInv, CallInv, AppleNext, compose' = compose
  PROVE  WorldInv' /\ CallInv'
<1>1. CASE AppleBegin
  BY <1>1, AppleBeginKeeps, WorldSame
<1>2. CASE AppleBuildImage
  <2> DEFINE cs == containers["apple"]
             rest == Drop(cs, {ContainerName(Service)})
  <2>1. /\ UNCHANGED call \/ Returns("failed")
        /\ containers' = containers \/ containers' = [containers EXCEPT !["apple"] = rest]
    BY <1>2 DEF AppleBuildImage
  <2>2. "apple" \in BackendNames /\ Made(compose, "apple", cs)
    BY DEF BackendNames, WorldInv
  <2>3. Made(compose, "apple", rest)
    BY <2>2, DropMade
  <2> HIDE DEF rest
  <2>4. WorldInv'
    BY <2>1, <2>2, <2>3, WorldUpdate, WorldSame
  <2> QED
    BY <2>1, <2>4, CallSame, CallGoesOn
<1>3. CASE AppleRunService
  <2>1. call.verb = "up" /\ call.queue # <<>> /\ RunService(call.network)
    BY <1>3 DEF AppleRunService, Due
  <2> QED
    BY <2>1, RunServiceKeeps
<1>4. CASE AppleBuild
  <2>1. containers' = containers /\ call.queue # <<>> /\ (Proceed \/ Returns("failed"))
    BY <1>4 DEF AppleBuild, BuildService, Due
  <2> QED
    BY <2>1, WorldSame, CallGoesOn
<1>5. CASE ApplePull
  <2>1. containers' = containers /\ call.queue # <<>> /\ (Proceed \/ Returns("failed"))
    BY <1>5 DEF ApplePull, Due
  <2> QED
    BY <2>1, WorldSame, CallGoesOn
<1>6. CASE AppleStop
  <2> DEFINE cs == containers["apple"]
             stopped == StoppedIn(cs, {ContainerName(Service)})
  <2>1. /\ call.queue # <<>> /\ Proceed
        /\ containers' = containers \/ containers' = [containers EXCEPT !["apple"] = stopped]
    <3>1. stopped = [n \in DOMAIN cs |-> IF n = ContainerName(Service) THEN Stopped(cs[n]) ELSE cs[n]]
      BY DEF StoppedIn
    <3> QED
      BY <1>6, <3>1 DEF AppleStop, Due
  <2>2. "apple" \in BackendNames /\ Made(compose, "apple", cs)
    BY DEF BackendNames, WorldInv
  <2> HIDE DEF cs
  <2>3. Made(compose, "apple", stopped)
    BY <2>2, StopMade
  <2> HIDE DEF stopped
  <2>4. WorldInv'
    BY <2>1, <2>2, <2>3, WorldUpdate, WorldSame
  <2> QED
    BY <2>1, <2>4, CallGoesOn
<1>7. CASE AppleRemove
  <2> DEFINE cs == containers["apple"]
             rest == Drop(cs, {ContainerName(Service)})
  <2>1. /\ call.queue # <<>> /\ Proceed
        /\ containers' = containers \/ containers' = [containers EXCEPT !["apple"] = rest]
    BY <1>7 DEF AppleRemove, Due
  <2>2. "apple" \in BackendNames /\ Made(compose, "apple", cs)
    BY DEF BackendNames, WorldInv
  <2>3. Made(compose, "apple", rest)
    BY <2>2, DropMade
  <2> HIDE DEF rest
  <2>4. WorldInv'
    BY <2>1, <2>2, <2>3, WorldUpdate, WorldSame
  <2> QED
    BY <2>1, <2>4, CallGoesOn
<1>8. CASE AppleReturn
  BY <1>8, WorldSame, CallGoesOn DEF AppleReturn, worldVars
<1> QED
  BY <1>1, <1>2, <1>3, <1>4, <1>5, <1>6, <1>7, <1>8 DEF AppleNext

(* Every step of a call on Docker. *)
LEMMA DockerKeeps ==
  ASSUME projEnv \in Environments, WorldInv, CallInv, DockerNext, compose' = compose
  PROVE  WorldInv' /\ CallInv'
<1>1. CASE DockerSpawn
  BY <1>1, WorldSame, CallGoesOn DEF DockerSpawn, worldVars
<1>2. CASE DockerWorks
  <2> DEFINE services == Config.services
             touched == Touched(services)
             cs == containers["docker"]
  <2>1. services = ServicesOf(compose, projEnv)
    BY DEF Config, ServicesOf
  <2>2. PICK svcs \in SUBSET touched : \E bare : \E after \in Carried(call.verb, svcs, bare, Labels(services), cs) :
            containers' = [containers EXCEPT !["docker"] = after]
    BY <1>2 DEF DockerWorks, dockerContainers
  <2>3. PICK bare : \E after \in Carried(call.verb, svcs, bare, Labels(services), cs) :
            containers' = [containers EXCEPT !["docker"] = after]
    BY <2>2
  <2>9. PICK after \in Carried(call.verb, svcs, bare, Labels(services), cs) :
            containers' = [containers EXCEPT !["docker"] = after]
    BY <2>3
  <2>4. "docker" \in BackendNames /\ Made(compose, "docker", cs)
    BY DEF BackendNames, WorldInv
  <2>5. svcs \in SUBSET DOMAIN services
    BY TouchedServices
  <2> HIDE DEF services, cs
  <2>6. Made(compose, "docker", after)
    BY <2>1, <2>4, <2>5, CarriedMade
  <2>7. WorldInv'
    BY <2>9, <2>4, <2>6, WorldUpdate
  <2>8. CallInv'
    BY <1>2, CallGoesOn DEF DockerWorks
  <2> QED
    BY <2>7, <2>8
<1>3. CASE DockerOutput
  BY <1>3, WorldSame, CallSame DEF DockerOutput, backendVars
<1>4. CASE DockerReturn
  BY <1>4, WorldSame, CallGoesOn DEF DockerReturn, worldVars
<1> QED
  BY <1>1, <1>2, <1>3, <1>4 DEF DockerNext

------------------------------------------------------------------------------
(* The routes                                                              *)

(* What a hook exports does not move the command to another runtime. *)
LEMMA RuntimeStays ==
  ASSUME HookKeepsRuntime, NEW chosen, NEW env
  PROVE  DetectForProject(chosen, Over(env, HookExports)) = DetectForProject(chosen, env)
<1> DEFINE more == Over(env, HookExports)
<1>1. /\ "DIP_RUNTIME" \in DOMAIN more <=> "DIP_RUNTIME" \in DOMAIN env
      /\ "DIP_RUNTIME" \in DOMAIN env => more["DIP_RUNTIME"] = env["DIP_RUNTIME"]
  BY DEF HookKeepsRuntime, Over, MergeInto
<1> HIDE DEF more
<1>2. DetectForProject(chosen, more) = DetectForProject(chosen, env)
  BY Zenon, <1>1 DEF DetectForProject
<1> QED
  BY <1>2 DEF more
LEMMA RuntimeNamed == \A chosen, env : DetectForProject(chosen, env) \in BackendNames
<1>1. \A name : BackendFor(name) \in BackendNames
  BY DEF BackendFor, BackendNames
<1> QED
  BY Zenon, <1>1 DEF DetectForProject

LEMMA InUnion ==
  ASSUME NEW sets, NEW S \in sets, NEW x \in S
  PROVE  x \in UNION sets
OBVIOUS

(* A domain is asked for by one container at most, and once. *)
LEMMA OneOwner ==
  ASSUME NEW file, DomainsDiffer(file), NEW b, NEW cs, Made(file, b, cs),
         NEW n \in DOMAIN cs, NEW e \in HostEntries(cs[n].args.labels),
         NEW m \in DOMAIN cs, NEW f \in HostEntries(cs[m].args.labels), e.domain = f.domain
  PROVE  n = m /\ e = f
<1>1. \A env \in Environments : \A svc \in DOMAIN ServicesOf(file, env) :
      \A x \in HostEntries(ServicesOf(file, env)[svc].labels) :
          [svc |-> svc, env |-> env, entry |-> x] \in Claims(file)
  <2> TAKE env \in Environments
  <2> TAKE svc \in DOMAIN ServicesOf(file, env)
  <2> TAKE x \in HostEntries(ServicesOf(file, env)[svc].labels)
  <2> DEFINE Of(v, s) == {[svc |-> s, env |-> v, entry |-> y] : y \in HostEntries(ServicesOf(file, v)[s].labels)}
             In(v) == UNION {Of(v, s) : s \in DOMAIN ServicesOf(file, v)}
  <2>1. [svc |-> svc, env |-> env, entry |-> x] \in Of(env, svc)
    OBVIOUS
  <2>2. Claims(file) = UNION {In(v) : v \in Environments}
    BY DEF Claims, ServicesOf
  <2> HIDE DEF Of
  <2>3. [svc |-> svc, env |-> env, entry |-> x] \in In(env)
    BY <2>1, InUnion
  <2> HIDE DEF In
  <2> QED
    BY <2>2, <2>3, InUnion
<1>2. \A env1, env2 \in Environments :
      \A svc1 \in DOMAIN ServicesOf(file, env1), svc2 \in DOMAIN ServicesOf(file, env2) :
      \A x \in HostEntries(ServicesOf(file, env1)[svc1].labels), y \in HostEntries(ServicesOf(file, env2)[svc2].labels) :
          x.domain = y.domain => svc1 = svc2 /\ (env1 = env2 => x = y)
  <2> TAKE env1, env2 \in Environments
  <2> TAKE svc1 \in DOMAIN ServicesOf(file, env1), svc2 \in DOMAIN ServicesOf(file, env2)
  <2> TAKE x \in HostEntries(ServicesOf(file, env1)[svc1].labels), y \in HostEntries(ServicesOf(file, env2)[svc2].labels)
  <2> DEFINE a == [svc |-> svc1, env |-> env1, entry |-> x]
             c == [svc |-> svc2, env |-> env2, entry |-> y]
  <2>1. a \in Claims(file) /\ c \in Claims(file)
    BY <1>1
  <2>2. a.svc = svc1 /\ a.env = env1 /\ a.entry = x /\ c.svc = svc2 /\ c.env = env2 /\ c.entry = y
    OBVIOUS
  <2> HIDE DEF a, c
  <2>3. a.entry.domain = c.entry.domain => a.svc = c.svc /\ (a.env = c.env => a.entry = c.entry)
    BY <2>1 DEF DomainsDiffer
  <2> QED
    BY <2>2, <2>3
<1>3. PICK env1 \in Environments : \E svc \in DOMAIN ServicesOf(file, env1) :
          n = Place(b, svc) /\ cs[n].args.labels = ServicesOf(file, env1)[svc].labels
  BY DEF Made, MadeFor
<1>4. PICK svc1 \in DOMAIN ServicesOf(file, env1) :
          n = Place(b, svc1) /\ cs[n].args.labels = ServicesOf(file, env1)[svc1].labels
  BY <1>3
<1>5. PICK env2 \in Environments : \E svc \in DOMAIN ServicesOf(file, env2) :
          m = Place(b, svc) /\ cs[m].args.labels = ServicesOf(file, env2)[svc].labels
  BY DEF Made, MadeFor
<1>6. PICK svc2 \in DOMAIN ServicesOf(file, env2) :
          m = Place(b, svc2) /\ cs[m].args.labels = ServicesOf(file, env2)[svc2].labels
  BY <1>5
<1>7. svc1 = svc2
  BY <1>2, <1>4, <1>6
<1>8. n = m
  BY <1>4, <1>6, <1>7
<1>9. e \in HostEntries(ServicesOf(file, env1)[svc1].labels) /\ f \in HostEntries(ServicesOf(file, env1)[svc1].labels)
  BY <1>4, <1>8
<1> QED
  BY <1>2, <1>8, <1>9

(* What sync and unsync see of the containers. *)
LEMMA ListedContainers ==
  ASSUME NEW b \in BackendNames, b = DetectForProject(settings, projEnv), NEW all \in BOOLEAN
  PROVE  Listed(all) = {[labels |-> containers[b][n].args.labels, ip |-> containers[b][n].ip] :
                           n \in {m \in DOMAIN containers[b] : all \/ containers[b][m].state = "running"}}
<1>1. CASE b = "docker"
  <2>1. Listed(all) = DockerProjectContainers(all)
    BY <1>1 DEF Listed
  <2>2. (IF all THEN DOMAIN containers[b] ELSE Running(containers[b])) =
          {m \in DOMAIN containers[b] : all \/ containers[b][m].state = "running"}
    BY DEF Running
  <2> QED
    BY <1>1, <2>1, <2>2 DEF DockerProjectContainers
<1>2. CASE b = "apple"
  <2>1. Listed(all) = AppleProjectContainers(all)
    BY <1>2 DEF Listed
  <2> QED
    BY <1>2, <2>1 DEF AppleProjectContainers
<1> QED
  BY <1>1, <1>2 DEF BackendNames

(* After sync each running container that has an address is reached there. *)
LEMMA SyncAgrees ==
  ASSUME WorldInv, DomainsDiffer(compose), NEW b \in BackendNames, b = DetectForProject(settings, projEnv),
         containers' = containers, routes' = Over(routes, RoutesOf(Discovered)),
         NEW name, name # "stop"
  PROVE  Agree(name, b)'
<1> DEFINE cs == containers[b]
           Has(n) == cs[n].state = "running" /\ cs[n].ip # NoAddress
           Route(n, e) == [domain |-> e.domain, upstream |-> <<cs[n].ip, e.port>>]
<1>1. Made(compose, b, cs)
  BY DEF WorldInv
<1>2. Listed(FALSE) = {[labels |-> cs[n].args.labels, ip |-> cs[n].ip] : n \in {m \in DOMAIN cs : cs[m].state = "running"}}
  BY ListedContainers
<1>3. \A n \in DOMAIN cs : Has(n) =>
          \A e \in HostEntries(cs[n].args.labels) : Route(n, e) \in Discovered
  <2> TAKE n \in DOMAIN cs
  <2> HAVE Has(n)
  <2> TAKE e \in HostEntries(cs[n].args.labels)
  <2> DEFINE c == [labels |-> cs[n].args.labels, ip |-> cs[n].ip]
  <2>1. c \in Reachable(Listed(FALSE)) /\ c.labels = cs[n].args.labels /\ c.ip = cs[n].ip
    BY <1>2 DEF Reachable
  <2> HIDE DEF c
  <2> DEFINE Of(x) == {[domain |-> y.domain, upstream |-> <<x.ip, y.port>>] : y \in HostEntries(x.labels)}
  <2>2. Route(n, e) \in Of(c)
    BY <2>1
  <2>3. Discovered = UNION {Of(x) : x \in Reachable(Listed(FALSE))}
    BY DEF Discovered
  <2> HIDE DEF Of
  <2> QED
    BY <2>1, <2>2, <2>3, InUnion
<1>4. \A r \in Discovered : \E n \in DOMAIN cs : \E e \in HostEntries(cs[n].args.labels) : r = Route(n, e)
  <2> TAKE r \in Discovered
  <2>1. PICK c \in Listed(FALSE) : \E e \in HostEntries(c.labels) : r = [domain |-> e.domain, upstream |-> <<c.ip, e.port>>]
    BY DEF Discovered, Reachable
  <2>2. PICK n \in DOMAIN cs : c = [labels |-> cs[n].args.labels, ip |-> cs[n].ip]
    BY <1>2
  <2>3. c.labels = cs[n].args.labels /\ c.ip = cs[n].ip
    BY <2>2
  <2>4. PICK e \in HostEntries(cs[n].args.labels) : r = [domain |-> e.domain, upstream |-> <<c.ip, e.port>>]
    BY <2>1, <2>3
  <2> QED
    BY <2>3, <2>4
<1>5. ASSUME NEW n \in DOMAIN cs, Has(n), NEW e \in HostEntries(cs[n].args.labels)
      PROVE  e.domain \in DOMAIN routes' /\ routes'[e.domain] = <<cs[n].ip, e.port>>
  <2> DEFINE d == e.domain
             new == RoutesOf(Discovered)
  <2>1. Route(n, e) \in Discovered /\ Route(n, e).domain = d
    BY <1>3, <1>5
  <2>2. d \in DOMAIN new /\ new[d] = (CHOOSE x \in Discovered : x.domain = d).upstream
    BY <2>1 DEF RoutesOf
  <2>3. PICK r \in Discovered : r.domain = d /\ new[d] = r.upstream
    BY <2>1, <2>2
  <2>4. PICK m \in DOMAIN cs : \E f \in HostEntries(cs[m].args.labels) : r = Route(m, f)
    BY <1>4
  <2>5. PICK f \in HostEntries(cs[m].args.labels) : r = Route(m, f)
    BY <2>4
  <2>6. r.domain = f.domain /\ r.upstream = <<cs[m].ip, f.port>>
    BY <2>5
  <2>7. e.domain = f.domain
    BY <2>3, <2>6
  <2>8. routes' = Over(routes, new)
    OBVIOUS
  <2> HIDE DEF new, cs
  <2>9. n = m /\ e = f
    BY <1>1, <2>7, OneOwner
  <2>10. d \in DOMAIN routes' /\ routes'[d] = new[d]
    BY <2>2, <2>8 DEF Over, MergeInto
  <2> QED
    BY <2>3, <2>6, <2>9, <2>10
<1> QED
  BY <1>5 DEF Agree

(* After unsync none of the containers is reached. *)
LEMMA UnsyncAgrees ==
  ASSUME NEW b \in BackendNames, b = DetectForProject(settings, projEnv), containers' = containers,
         routes' = Drop(routes, ProjectDomains)
  PROVE  Agree("stop", b)'
<1> DEFINE cs == containers[b]
<1>1. Listed(TRUE) = {[labels |-> cs[n].args.labels, ip |-> cs[n].ip] : n \in DOMAIN cs}
  BY ListedContainers
<1>2. ASSUME NEW n \in DOMAIN cs, NEW e \in HostEntries(cs[n].args.labels)
      PROVE  e.domain \notin DOMAIN routes'
  <2> DEFINE c == [labels |-> cs[n].args.labels, ip |-> cs[n].ip]
  <2>1. c \in Listed(TRUE) /\ c.labels = cs[n].args.labels
    BY <1>1
  <2> HIDE DEF c
  <2> DEFINE Of(x) == {y.domain : y \in HostEntries(x.labels)}
  <2>2. e.domain \in Of(c)
    BY <2>1
  <2>3. ProjectDomains = UNION {Of(x) : x \in Listed(TRUE)}
    BY DEF ProjectDomains
  <2> HIDE DEF Of
  <2>4. e.domain \in ProjectDomains
    BY <2>1, <2>2, <2>3, InUnion
  <2> QED
    BY <2>4 DEF Drop
<1> QED
  BY <1>2 DEF Agree

------------------------------------------------------------------------------
(* The steps                                                               *)

(* What agrees stays so while the containers and the routes do. *)
LEMMA AgreeSame ==
  ASSUME UNCHANGED <<containers, routes>>, NEW name, NEW b, Agree(name, b)
  PROVE  Agree(name, b)'
BY DEF Agree

(* The routes and the steps that are left: a step that does neither touch  *)
(* them nor the containers; a step that is over and was not the one that   *)
(* adapts the routes; a step of compose, before which they are not         *)
(* adapted.                                                                *)
LEMMA TodoSame ==
  ASSUME TodoInv, UNCHANGED <<containers, routes, cmd, todo, backend, missed>>
  PROVE  TodoInv'
<1>1. ASSUME Agree(cmd.name, backend) PROVE Agree(cmd.name, backend)'
  BY <1>1 DEF Agree
<1> QED
  BY <1>1 DEF TodoInv
LEMMA TodoNext ==
  ASSUME TodoInv, todo # <<>>, Head(todo).op \notin {"sync", "unsync"}, NextStep,
         UNCHANGED <<containers, routes, cmd, backend, missed>>
  PROVE  TodoInv'
<1> SUFFICES ASSUME cmd # NoCommand, cmd.name \in Routing
             PROVE  /\ Tail(todo) \in Seq(StepsFor(cmd.svc))
                    /\ \/ Coming(Tail(todo), Adapts(cmd.name))
                       \/ HooksFrom(Tail(todo), 1) /\ (~missed => Agree(cmd.name, backend)')
  BY DEF TodoInv, NextStep, Agree
<1>1. todo \in Seq(StepsFor(cmd.svc)) /\ Tail(todo) \in Seq(StepsFor(cmd.svc))
  BY TailElements DEF TodoInv
<1>2. CASE Coming(todo, Adapts(cmd.name))
  <2>1. Head(todo).op # Adapts(cmd.name)
    BY DEF Adapts
  <2> QED
    BY <1>1, <1>2, <2>1, ComingNext
<1>3. CASE HooksFrom(todo, 1) /\ (~missed => Agree(cmd.name, backend))
  <2>1. HooksFrom(Tail(todo), 1)
    BY <1>1, <1>3, HooksNext
  <2> QED
    BY <1>1, <1>3, <2>1, AgreeSame
<1> QED
  BY <1>2, <1>3 DEF TodoInv
LEMMA TodoBusy ==
  ASSUME TodoInv, Doing("compose"), UNCHANGED <<cmd, todo, backend, missed>>
  PROVE  TodoInv'
<1>1. cmd.name \in Routing => todo \in Seq(StepsFor(cmd.svc)) /\ Coming(todo, Adapts(cmd.name))
  BY HooksNext DEF Doing, TodoInv
<1> QED
  BY <1>1 DEF TodoInv

(* A command that goes on does so in an environment of the project. *)
LEMMA Going ==
  ASSUME HookKeepsRuntime, LifecycleInv, cmd # NoCommand, WorldInv', CallInv', TodoInv',
         UNCHANGED <<compose, dotEnv, settings, cmd, backend, result>>,
         projEnv' \in {projEnv, Over(projEnv, HookExports)}
  PROVE  LifecycleInv'
<1>1. projEnv \in Environments /\ backend = DetectForProject(settings, projEnv)
  BY DEF LifecycleInv, CommandInv
<1>2. projEnv' \in Environments
  BY <1>1, EnvironmentsClosed
<1>3. DetectForProject(settings, projEnv') = DetectForProject(settings, projEnv)
  BY RuntimeStays
<1>4. CommandInv'
  BY <1>1, <1>2, <1>3 DEF LifecycleInv, CommandInv
<1>5. result.status # "ok"
  BY DEF LifecycleInv, ResultInv
<1>6. ResultInv'
  BY <1>5 DEF ResultInv, RoutesAgree
<1> QED
  BY <1>4, <1>6 DEF LifecycleInv

(* A command that ends; if it ends well, its routes have been adapted. *)
LEMMA EndedKeeps ==
  ASSUME LifecycleInv, cmd # NoCommand, NEW status, Ended(status), status = "ok" => todo = <<>>,
         UNCHANGED <<compose, dotEnv, settings, containers>>, status = "ok" => UNCHANGED routes
  PROVE  LifecycleInv'
<1>1. CommandInv'
  BY SMTT(60) DEF LifecycleInv, CommandInv, Ended
<1>2. WorldInv'
  BY WorldSame DEF LifecycleInv
<1>3. CallInv'
  BY CallBegins DEF Ended, CallInv
<1>4. TodoInv'
  BY DEF Ended, TodoInv
<1>5. RoutesAgree'
  <2> SUFFICES ASSUME NEW name, NEW b, name = cmd.name, b = backend, status = "ok", ~missed
               PROVE  Agree(name, b)'
    <3>1. /\ result'.status = status /\ result'.missed = missed /\ result'.cmd = cmd /\ result'.backend = backend
      BY DEF Ended
    <3> QED
      BY <3>1 DEF RoutesAgree, Agree
  <2>1. CASE name \in Routing
    <3>1. ~Coming(<<>>, Adapts(name))
      BY DEF Coming
    <3>2. Agree(name, b)
      BY <2>1, <3>1 DEF LifecycleInv, TodoInv
    <3> QED
      BY <3>2, AgreeSame
  <2>2. CASE name \notin Routing
    BY <2>2 DEF Agree, Routing
  <2> QED
    BY <2>1, <2>2
<1> QED
  BY <1>1, <1>2, <1>3, <1>4, <1>5 DEF LifecycleInv, ResultInv, Ended

(* What the routes are worth does not matter while no command has ended    *)
(* well.                                                                   *)
LEMMA NotYet == result'.status # "ok" => ResultInv'
BY DEF ResultInv, RoutesAgree

(* A command begins, or fails because the project cannot be loaded. *)
LEMMA GiveKeeps ==
  ASSUME LifecycleInv, NEW c, Give(c)
  PROVE  LifecycleInv'
<1>1. cmd = NoCommand /\ UNCHANGED <<compose, containers, call, settings, routes>> /\ dotEnv' = EnvFile
  BY DEF Give, backendVars
<1>2. WorldInv' /\ CallInv' /\ compose' \in Files
  BY <1>1, WorldSame, CallSame DEF LifecycleInv, CommandInv
<1>3. EnvFile \in {None} \cup {Some(file) : file \in DotEnvs}
  BY EnvironmentsClosed DEF EnvFile, LifecycleInv, CommandInv
<1>4. CASE Loads
  <2>1. /\ cmd' = c /\ todo' = Steps(c) /\ projEnv' = LoadedEnv(EnvFile[1])
        /\ backend' = DetectForProject(settings, projEnv') /\ result' = NoResult
    BY <1>4 DEF Give
  <2>2. PICK file \in DotEnvs : EnvFile = Some(file)
    BY <1>3, <1>4 DEF Loads
  <2>3. projEnv' \in Environments
    BY <2>1, <2>2, EnvironmentsClosed DEF Some
  <2>4. CommandInv'
    BY <1>1, <1>2, <1>3, <2>1, <2>3 DEF CommandInv
  <2>5. TodoInv'
    <3> SUFFICES ASSUME c.name \in Routing
                 PROVE  Steps(c) \in Seq(StepsFor(c.svc)) /\ Coming(Steps(c), Adapts(c.name))
      BY <2>1 DEF TodoInv
    <3> QED
      BY RoutingSteps
  <2>6. ResultInv'
    BY <2>1, NotYet DEF NoResult
  <2> QED
    BY <1>2, <2>4, <2>5, <2>6 DEF LifecycleInv
<1>5. CASE ~Loads
  <2>1. cmd' = NoCommand /\ result'.status = "failed"
    BY <1>1, <1>5 DEF Give, NoResult
  <2> QED
    BY <1>1, <1>2, <1>3, <2>1, NotYet DEF LifecycleInv, CommandInv, TodoInv
<1> QED
  BY <1>4, <1>5

(* The runtime is chosen between commands. *)
LEMMA UseKeeps ==
  ASSUME LifecycleInv, NEW scope, NEW choice, Use(scope, choice)
  PROVE  LifecycleInv'
<1>1. /\ cmd = NoCommand
      /\ UNCHANGED <<compose, containers, call, dotEnv, cmd, todo, backend, missed, routes, result>>
  BY DEF Use, backendVars, commandVars
<1>2. RoutesAgree'
  <2> SUFFICES ASSUME NEW name, NEW b, name = result.cmd.name, b = result.backend, result.status = "ok", ~result.missed
               PROVE  Agree(name, b)'
    BY <1>1 DEF RoutesAgree, Agree
  <2>1. Agree(name, b)
    BY DEF LifecycleInv, ResultInv, RoutesAgree
  <2> QED
    BY <1>1, <2>1, AgreeSame
<1> QED
  BY <1>1, <1>2, WorldSame, CallSame DEF LifecycleInv, CommandInv, TodoInv, ResultInv

(* The routes are adapted, or the command has missed it. *)
LEMMA SyncKeeps ==
  ASSUME HookKeepsRuntime, \A file \in Files : DomainsDiffer(file), LifecycleInv, Sync \/ Unsync
  PROVE  LifecycleInv'
<1> DEFINE op == Head(todo).op
<1>1. /\ cmd # NoCommand /\ todo # <<>> /\ NextStep
      /\ UNCHANGED <<compose, containers, call, dotEnv, settings, cmd, backend, result, projEnv>>
  BY DEF Sync, Unsync, Doing, StepDone, worldVars
<1>2. /\ compose \in Files /\ WorldInv /\ backend = DetectForProject(settings, projEnv)
      /\ backend \in BackendNames
  BY <1>1, RuntimeNamed DEF LifecycleInv, CommandInv
<1>3. WorldInv' /\ CallInv'
  BY <1>1, WorldSame, CallSame DEF LifecycleInv
<1>4. TodoInv'
  <2> SUFFICES ASSUME NEW name, NEW b, name = cmd.name, b = backend, name \in Routing
               PROVE  /\ Tail(todo) \in Seq(StepsFor(cmd.svc))
                      /\ \/ Coming(Tail(todo), Adapts(name))
                         \/ HooksFrom(Tail(todo), 1) /\ (~missed' => Agree(name, b)')
    BY <1>1 DEF TodoInv, NextStep, Agree
  <2>1. todo \in Seq(StepsFor(cmd.svc)) /\ Tail(todo) \in Seq(StepsFor(cmd.svc))
    BY <1>1, TailElements DEF LifecycleInv, TodoInv
  <2>2. op \in {"sync", "unsync"}
    BY DEF Sync, Unsync, Doing
  <2>3. Coming(todo, Adapts(name))
    BY <1>1, <2>1, <2>2, HooksNext DEF LifecycleInv, TodoInv
  <2>4. Coming(Tail(todo), Adapts(name)) \/ (op = Adapts(name) /\ HooksFrom(Tail(todo), 1))
    BY <1>1, <2>1, <2>3, ComingNext
  <2>5. ASSUME op = Adapts(name), ~missed' PROVE Agree(name, b)'
    <3>1. CASE name = "stop"
      <4>1. routes' = Drop(routes, ProjectDomains)
        BY <2>5, <3>1 DEF Sync, Unsync, Adapt, Doing, Adapts
      <4> QED
        BY <1>1, <1>2, <3>1, <4>1, UnsyncAgrees
    <3>2. CASE name # "stop"
      <4>1. routes' = Over(routes, RoutesOf(Discovered))
        BY <2>5, <3>2 DEF Sync, Unsync, Adapt, Doing, Adapts
      <4> QED
        BY <1>1, <1>2, <3>2, <4>1, SyncAgrees
    <3> QED
      BY <3>1, <3>2
  <2> QED
    BY <2>1, <2>4, <2>5
<1> QED
  BY <1>1, <1>3, <1>4, Going

(* A call of the runtime changes containers, and only before the routes    *)
(* are adapted.                                                            *)
LEMMA ComposeKeeps ==
  ASSUME HookKeepsRuntime, LifecycleInv, ComposeCall \/ ComposeRuns
  PROVE  LifecycleInv'
<1>1. /\ cmd # NoCommand /\ Doing("compose")
      /\ UNCHANGED <<compose, dotEnv, settings, cmd, todo, backend, missed, projEnv, routes, result>>
  BY DEF ComposeCall, ComposeRuns, Doing, commandVars
<1>2. /\ compose \in Files /\ projEnv \in Environments /\ WorldInv /\ CallInv
  BY <1>1 DEF LifecycleInv, CommandInv
<1>3. WorldInv' /\ CallInv'
  <2>1. CASE ComposeCall
    BY <2>1, <1>1, <1>2, WorldSame, CallBegins DEF ComposeCall, worldVars, CallInv
  <2>2. CASE ComposeRuns
    <3>1. DockerNext \/ AppleNext
      BY <2>2 DEF ComposeRuns
    <3> QED
      BY <1>1, <1>2, <3>1, DockerKeeps, AppleKeeps
  <2> QED
    BY <2>1, <2>2
<1>4. TodoInv'
  BY <1>1, TodoBusy DEF LifecycleInv
<1> QED
  BY <1>1, <1>3, <1>4, Going

(* The other steps leave the containers alone, and the routes unless the   *)
(* command is cut off: the command stays where it is, takes a step that    *)
(* does not adapt the routes, or ends.                                     *)
Stays == UNCHANGED <<cmd, todo, backend, missed, result, call, projEnv>>
Advances ==
    /\ todo # <<>> /\ Head(todo).op \notin {"sync", "unsync"} /\ NextStep
    /\ UNCHANGED <<cmd, backend, result, missed>> /\ call' \in {call, NoCall}
    /\ projEnv' \in {projEnv, Over(projEnv, HookExports)}
Ends == \E status : Ended(status) /\ (status = "ok" => todo = <<>> /\ UNCHANGED routes)
Aside ==
    /\ UNCHANGED <<compose, containers, dotEnv, settings>>
    /\ (UNCHANGED routes /\ (Stays \/ Advances)) \/ Ends
LEMMA AsideKeeps ==
  ASSUME HookKeepsRuntime, LifecycleInv, cmd # NoCommand, Aside
  PROVE  LifecycleInv'
<1>1. UNCHANGED <<compose, containers, dotEnv, settings>>
  BY DEF Aside
<1>2. WorldInv'
  BY <1>1, WorldSame DEF LifecycleInv
<1>3. CASE UNCHANGED routes /\ Stays
  BY <1>1, <1>2, <1>3, CallSame, TodoSame, Going DEF Stays, LifecycleInv
<1>4. CASE UNCHANGED routes /\ Advances
  <2>1. CallInv'
    BY <1>1, <1>4, CallSame, CallBegins DEF Advances, LifecycleInv, CallInv
  <2>2. TodoInv'
    BY <1>1, <1>4, TodoNext DEF Advances, LifecycleInv
  <2> QED
    BY <1>1, <1>2, <1>4, <2>1, <2>2, Going DEF Advances
<1>5. CASE Ends
  BY <1>1, <1>5, EndedKeeps DEF Ends
<1> QED
  BY <1>3, <1>4, <1>5 DEF Aside

LEMMA StepsAside ==
  ASSUME \/ HookSpawn \/ HookRuns \/ HookDone \/ HookAbsent \/ ComposeReturns
         \/ CheckDaemon \/ Confirm \/ Prune \/ ResolveService \/ CreateDump \/ RunClient \/ Finish \/ Interrupt
  PROVE  cmd # NoCommand /\ Aside
<1>1. CASE HookSpawn \/ HookRuns
  BY <1>1 DEF HookSpawn, HookRuns, Doing, Aside, Stays, worldVars, backendVars, commandVars
<1>2. CASE HookDone
  BY <1>2 DEF HookDone, Doing, StepFailed, Aside, Advances, Ends, worldVars
<1>3. CASE HookAbsent
  BY <1>3 DEF HookAbsent, Doing, StepDone, Aside, Advances, worldVars
<1>4. CASE ComposeReturns
  BY <1>4 DEF ComposeReturns, Doing, StepFailed, Aside, Advances, Ends, worldVars
<1>5. CASE CheckDaemon \/ Confirm \/ Prune
  BY <1>5 DEF CheckDaemon, Confirm, Prune, Doing, StepDone, StepFailed, Aside, Advances, Ends, worldVars
<1>6. CASE ResolveService \/ CreateDump
  BY <1>6 DEF ResolveService, CreateDump, Doing, StepDone, StepFailed, Aside, Advances, Ends, worldVars
<1>7. CASE RunClient
  BY <1>7 DEF RunClient, Doing, StepDone, StepFailed, Aside, Advances, Ends, worldVars
<1>8. CASE Finish \/ Interrupt
  BY <1>8 DEF Finish, Interrupt, Aside, Ends, worldVars
<1> QED
  BY <1>1, <1>2, <1>3, <1>4, <1>5, <1>6, <1>7, <1>8

LEMMA LifecycleInitial == Init => LifecycleInv /\ DumpInv
<1> SUFFICES ASSUME Init PROVE LifecycleInv /\ DumpInv
  OBVIOUS
<1>0. /\ compose \in Files /\ dotEnv \in {None} \cup {Some(file) : file \in DotEnvs}
      /\ containers = [b \in BackendNames |-> <<>>] /\ call = NoCall /\ cmd = NoCommand /\ result = NoResult
  BY Zenon DEF Init
<1>1. CommandInv /\ TodoInv /\ DumpInv
  BY <1>0 DEF CommandInv, TodoInv, DumpInv
<1>2. WorldInv
  BY <1>0 DEF WorldInv, Made
<1>3. CallInv
  BY <1>0, CallBegins DEF CallInv
<1>4. ResultInv
  BY <1>0 DEF ResultInv, RoutesAgree, NoResult
<1> QED
  BY <1>1, <1>2, <1>3, <1>4 DEF LifecycleInv

LEMMA LifecycleStep ==
  ASSUME HookKeepsRuntime, \A file \in Files : DomainsDiffer(file), LifecycleInv, [Next]_vars
  PROVE  LifecycleInv'
<1>1. ASSUME NEW c \in Commands, Give(c) PROVE LifecycleInv'
  BY <1>1, GiveKeeps
<1>2. ASSUME NEW choice \in UseChoices, Use(choice[1], choice[2]) PROVE LifecycleInv'
  BY <1>2, UseKeeps
<1>3. CASE Sync \/ Unsync
  BY <1>3, SyncKeeps
<1>4. CASE ComposeCall \/ ComposeRuns
  BY <1>4, ComposeKeeps
<1>5. CASE \/ HookSpawn \/ HookRuns \/ HookDone \/ HookAbsent \/ ComposeReturns
           \/ CheckDaemon \/ Confirm \/ Prune \/ ResolveService \/ CreateDump \/ RunClient \/ Finish \/ Interrupt
  BY <1>5, StepsAside, AsideKeeps
<1>6. CASE UNCHANGED vars
  <2>1. UNCHANGED <<compose, containers, call, dotEnv, settings, cmd, todo, backend, missed, projEnv, routes, result>>
    BY <1>6 DEF vars, backendVars, commandVars
  <2>2. RoutesAgree'
    <3> SUFFICES ASSUME NEW name, NEW b, name = result.cmd.name, b = result.backend, result.status = "ok", ~result.missed
                 PROVE  Agree(name, b)'
      BY <2>1 DEF RoutesAgree, Agree
    <3>1. Agree(name, b)
      BY DEF LifecycleInv, ResultInv, RoutesAgree
    <3> QED
      BY <2>1, <3>1, AgreeSame
  <2> QED
    BY <2>1, <2>2, WorldSame, CallSame, TodoSame DEF LifecycleInv, CommandInv, ResultInv
<1> QED
  BY Zenon, <1>1, <1>2, <1>3, <1>4, <1>5, <1>6 DEF Next, Step

------------------------------------------------------------------------------
(* The dumps                                                               *)

LEMMA DumpOps ==
  /\ FromCheck # <<>> /\ Head(FromCheck).op = "check" /\ Tail(FromCheck) = FromResolve
  /\ FromResolve # <<>> /\ Head(FromResolve).op = "resolve" /\ Tail(FromResolve) = FromCreate
  /\ FromCreate # <<>> /\ Head(FromCreate).op = "create" /\ Tail(FromCreate) = FromDump
  /\ FromDump # <<>> /\ Head(FromDump).op = "dump" /\ Tail(FromDump) = <<>>
<1>1. \A op : Do(op).op = op
  BY Zenon DEF Do
<1>2. /\ FromCheck # <<>> /\ Head(FromCheck) = Do("check") /\ Tail(FromCheck) = FromResolve
      /\ FromResolve # <<>> /\ Head(FromResolve) = Do("resolve") /\ Tail(FromResolve) = FromCreate
      /\ FromCreate # <<>> /\ Head(FromCreate) = Do("create") /\ Tail(FromCreate) = FromDump
      /\ FromDump # <<>> /\ Head(FromDump) = Do("dump") /\ Tail(FromDump) = <<>>
  BY DEF FromCheck, FromResolve, FromCreate, FromDump
<1> QED
  BY <1>1, <1>2

(* What a dump is at tells what it has left. *)
LEMMA DumpDoing ==
  ASSUME DumpInv, cmd # NoCommand, cmd.name = "dump"
  PROVE  /\ \A op : Doing(op) => op \in {"check", "resolve", "create", "dump"}
         /\ Doing("check") => todo = FromCheck
         /\ Doing("resolve") => todo = FromResolve
         /\ Doing("create") => todo = FromCreate
         /\ Doing("dump") => todo = FromDump /\ dump = "empty"
         /\ todo = <<>> => (cmd.arg # "gz" => dump = "full")
BY DumpOps DEF DumpInv, Doing

(* How a dump ends, see DumpsWhole. *)
DumpEnds ==
    cmd.name = "dump" /\ cmd' = NoCommand =>
        /\ result'.status = "ok" /\ cmd.arg # "gz" => dump' = "full"
        /\ result'.status = "failed" =>
               dump' # "partial" \/ (UNCHANGED dump /\ (Doing("check") \/ Doing("resolve") \/ Doing("create")))

LEMMA EndedDump ==
  ASSUME NEW status, Ended(status)
  PROVE  DumpInv' /\ result'.status = status /\ cmd' = NoCommand
BY DEF Ended, DumpInv

(* Each step of a dump. *)
LEMMA DumpCheck ==
  ASSUME DumpInv, cmd # NoCommand, cmd.name = "dump", CheckDaemon \/ ResolveService
  PROVE  DumpInv' /\ DumpEnds
<1>1. /\ UNCHANGED dump
      /\ \/ Doing("check") /\ todo = FromCheck /\ (StepDone \/ StepFailed)
         \/ Doing("resolve") /\ todo = FromResolve /\ ((NextStep /\ UNCHANGED cmd) \/ StepFailed)
  BY DumpDoing DEF CheckDaemon, ResolveService
<1>2. CASE StepFailed
  BY <1>1, <1>2, EndedDump DEF StepFailed, DumpEnds
<1>3. CASE ~StepFailed
  BY <1>1, <1>3, DumpOps DEF StepDone, NextStep, DumpInv, DumpEnds
<1> QED
  BY <1>2, <1>3
LEMMA DumpCreate ==
  ASSUME DumpInv, cmd # NoCommand, cmd.name = "dump", CreateDump
  PROVE  DumpInv' /\ DumpEnds
<1>1. CASE CreateOutput("ok") /\ StepDone
  <2>1. todo = FromCreate /\ dump' = "empty" /\ todo' = FromDump /\ cmd' = cmd
    BY <1>1, DumpDoing, DumpOps DEF CreateDump, CreateOutput, StepDone, NextStep
  <2> QED
    BY <2>1 DEF DumpInv, DumpEnds
<1>2. CASE CreateOutput("failed") /\ StepFailed
  <2>1. UNCHANGED dump /\ Doing("create")
    BY <1>2 DEF CreateDump, CreateOutput
  <2> QED
    BY <1>2, <2>1, EndedDump DEF StepFailed, DumpEnds
<1> QED
  BY <1>1, <1>2 DEF CreateDump
LEMMA DumpRuns ==
  ASSUME DumpInv, cmd # NoCommand, cmd.name = "dump", RunClient
  PROVE  DumpInv' /\ DumpEnds
<1>1. todo = FromDump /\ dump = "empty" /\ ~Doing("import")
  BY DumpDoing DEF RunClient
<1>2. PICK status \in {"ok", "failed"} :
          /\ ExecDump(cmd.arg = "gz", status)
          /\ IF status = "failed" THEN StepFailed ELSE StepDone
  BY <1>1 DEF RunClient
<1>3. CASE status = "failed"
  <2>1. dump' # "partial" /\ StepFailed
    BY <1>1, <1>2, <1>3 DEF ExecDump
  <2> QED
    BY <2>1, EndedDump DEF StepFailed, DumpEnds
<1>4. CASE status = "ok"
  <2>1. (cmd.arg # "gz" => dump' = "full") /\ todo' = <<>> /\ cmd' = cmd
    BY <1>1, <1>2, <1>4, DumpOps DEF ExecDump, StepDone, NextStep
  <2> QED
    BY <2>1 DEF DumpInv, DumpEnds
<1> QED
  BY <1>2, <1>3, <1>4
LEMMA DumpFinishes ==
  ASSUME DumpInv, cmd # NoCommand, cmd.name = "dump", Finish \/ Interrupt
  PROVE  DumpInv' /\ DumpEnds
<1>1. CASE Finish
  <2>1. (cmd.arg # "gz" => dump' = "full") /\ Ended("ok")
    BY <1>1, DumpDoing DEF Finish
  <2> QED
    BY <2>1, EndedDump DEF DumpEnds
<1>2. CASE Interrupt
  BY <1>2, EndedDump DEF Interrupt, DumpEnds
<1> QED
  BY <1>1, <1>2

LEMMA DumpStep ==
  ASSUME DumpInv, [Next]_vars
  PROVE  DumpInv' /\ (DumpEnds \/ UNCHANGED vars)
<1>0. NoCommand.name = "none"
  BY Zenon DEF NoCommand
<1>1. CASE UNCHANGED vars
  BY <1>1 DEF vars, commandVars, dbVars, DumpInv
<1>2. ASSUME NEW c \in Commands, Give(c) PROVE DumpInv' /\ DumpEnds
  <2>1. cmd = NoCommand
    BY <1>2 DEF Give
  <2>2. cmd' # NoCommand => cmd' = c /\ todo' = Steps(c)
    BY <1>2, <2>1 DEF Give
  <2>3. c.name = "dump" => Steps(c) = FromCheck
    BY Zenon DEF Steps, FromCheck
  <2> QED
    BY <1>0, <2>1, <2>2, <2>3 DEF DumpInv, DumpEnds
<1>3. ASSUME NEW choice \in UseChoices, Use(choice[1], choice[2]) PROVE DumpInv' /\ DumpEnds
  <2>1. cmd = NoCommand /\ cmd' = cmd
    BY <1>3 DEF Use, commandVars
  <2> QED
    BY <1>0, <2>1 DEF DumpInv, DumpEnds
<1>4. CASE Step \/ Interrupt
  <2>1. cmd # NoCommand /\ cmd' \in {cmd, NoCommand}
    <3>1. CASE Sync \/ Unsync \/ ComposeCall \/ ComposeRuns
      BY <3>1 DEF Sync, Unsync, ComposeCall, ComposeRuns, Doing, StepDone, commandVars
    <3>2. CASE ~(Sync \/ Unsync \/ ComposeCall \/ ComposeRuns)
      <4>1. cmd # NoCommand /\ Aside
        BY <1>4, <3>2, StepsAside DEF Step
      <4> QED
        BY <4>1 DEF Aside, Stays, Advances, Ends, Ended
    <3> QED
      BY <3>1, <3>2
  <2>2. CASE cmd.name # "dump"
    BY <2>1, <2>2 DEF DumpInv, DumpEnds
  <2>3. CASE cmd.name = "dump"
    <3>1. \/ CheckDaemon \/ ResolveService \/ CreateDump \/ RunClient \/ Finish \/ Interrupt
      BY <1>4, <2>1, <2>3, DumpDoing
         DEF Step, HookSpawn, HookRuns, HookDone, HookAbsent, ComposeCall, ComposeRuns, ComposeReturns, Sync, Unsync, Confirm, Prune
    <3> QED
      BY <2>1, <2>3, <3>1, DumpCheck, DumpCreate, DumpRuns, DumpFinishes
  <2> QED
    BY <2>2, <2>3
<1> QED
  BY Zenon, <1>1, <1>2, <1>3, <1>4 DEF Next

------------------------------------------------------------------------------
(* The theorems                                                            *)

(* The invariant, for any project whose pre-start hook does not choose the *)
(* runtime and in which no domain is asked for twice: the command in       *)
(* progress works in an environment of the project with the runtime that   *)
(* the routes will be taken from, every container has its place and its    *)
(* labels from a service of the compose file, and a routing command has    *)
(* yet to adapt the routes, or only hooks to run and routes that agree.    *)
THEOREM LifecycleInvariant ==
  ASSUME HookKeepsRuntime, \A file \in Files : DomainsDiffer(file)
  PROVE  Spec => []LifecycleInv
<1>1. Init => LifecycleInv
  BY LifecycleInitial
<1>2. LifecycleInv /\ [Next]_vars => LifecycleInv'
  BY LifecycleStep
<1> QED
  BY <1>1, <1>2, PTL DEF Spec

(* After a start, a restart or a stop that ended well, could list its      *)
(* containers and could read and write the proxy's configuration, the      *)
(* routes say what the containers that have an address say: whichever      *)
(* commands, of whichever services and runtimes, came before, and whatever *)
(* else the hook exports.  A command whose listing, load or save fails     *)
(* ends well too; of it the theorem says nothing.                          *)
THEOREM RoutesFollowContainers ==
  ASSUME HookKeepsRuntime, \A file \in Files : DomainsDiffer(file)
  PROVE  Spec => []RoutesAgree
<1>1. LifecycleInv => RoutesAgree
  BY DEF LifecycleInv, ResultInv
<1> QED
  BY <1>1, LifecycleInvariant, PTL

(* A `dip db dump` that reports success has written the whole database,    *)
(* unless gzip hides what became of the client; one that reports a failure *)
(* leaves no part of one, unless it had not opened the file yet or could   *)
(* not remove it: in any project and with any number of faults.            *)
THEOREM DumpsAreWhole == Spec => DumpsWhole
<1>1. Init => DumpInv
  BY LifecycleInitial
<1>2. DumpInv /\ [Next]_vars => DumpInv' /\ (DumpEnds \/ UNCHANGED vars)
  BY DumpStep
<1>3. DumpInv /\ [Next]_vars =>
      [cmd.name = "dump" /\ cmd' = NoCommand =>
           /\ result'.status = "ok" /\ cmd.arg # "gz" => dump' = "full"
           /\ result'.status = "failed" =>
                  dump' # "partial" \/ (UNCHANGED dump /\ (Doing("check") \/ Doing("resolve") \/ Doing("create")))]_vars
  BY <1>2 DEF DumpEnds
<1> QED
  BY <1>1, <1>2, <1>3, PTL DEF Spec, DumpsWhole
=============================================================================
