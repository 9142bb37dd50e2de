------------------------------ MODULE MCProject ------------------------------
(***************************************************************************)
(* A project with a database and an application.  Two kinds of behaviour:  *)
(* commands on one compose file, with faults; and a first start on the     *)
(* Apple runtime of every spelling of the file.                            *)
(***************************************************************************)
EXTENDS Lifecycle, StartOrder

(* How a compose file may be written: the default spelling with at most    *)
(* two things changed.                                                     *)
Spellings ==
    [deps : {"list", "flow", "map"}, env : {"map", "list", "merge", "alias"}, quoted : BOOLEAN,
     command : {"line", "folded", "literal", "stepped"}, comments : BOOLEAN, indent : {2, 4},
     volume : {"short", "long"}, build : {"path", "map"}, expr : {":-", "-", ""}]
Usual == [deps |-> "list", env |-> "map", quoted |-> TRUE, command |-> "line", comments |-> FALSE,
          indent |-> 2, volume |-> "short", build |-> "path", expr |-> ":-"]
NearUsual == {sp \in Spellings : Cardinality({f \in DOMAIN sp : sp[f] # Usual[f]}) <= 2}

Key(s) == <<[t |-> "key", s |-> s]>>
Dash == <<[t |-> "dash", s |-> ""]>>
P(words) == <<[t |-> "plain", s |-> words]>>
Q(words) == <<[t |-> "quoted", s |-> words]>>
Mark(t, s) == <<[t |-> t, s |-> s]>>
Punct(t) == <<[t |-> t, s |-> <<t>>]>>
Block(folded) == <<[t |-> "block", s |-> [folded |-> folded, chomp |-> "strip"]]>>
Comment == <<[t |-> "comment", s |-> <<"#">>]>>

Number(sp) == IF sp.quoted THEN Q(<<"3306">>) ELSE P(<<"3306">>)
Mode(sp) == <<"${", "MODE">> \o (IF sp.expr = "" THEN <<>> ELSE <<sp.expr, "dev">>) \o <<"}">>
(* One line at nesting level n, perhaps with a comment behind it. *)
L(sp, n, text) ==
    (IF sp.comments THEN <<[indent |-> 0, text |-> Comment], [indent |-> 0, text |-> <<>>]>> ELSE <<>>)
    \o <<[indent |-> sp.indent * n, text |-> text \o (IF sp.comments THEN Comment ELSE <<>>)]>>
Raw(sp, n, text) == <<[indent |-> sp.indent * n, text |-> text]>>

Shared(sp) ==
    IF sp.env \notin {"merge", "alias"} THEN <<>>
    ELSE L(sp, 0, Key("x-env") \o Mark("anchor", "common")) \o L(sp, 1, Key("MODE") \o P(Mode(sp)))
         \o L(sp, 1, Key("LIMIT") \o Number(sp))
Environment(sp) ==
    CASE sp.env = "map"   -> L(sp, 2, Key("environment")) \o L(sp, 3, Key("MODE") \o P(Mode(sp)))
                             \o L(sp, 3, Key("LIMIT") \o Number(sp))
      [] sp.env = "list"  -> L(sp, 2, Key("environment")) \o L(sp, 3, Dash \o P(<<"MODE", "=">> \o Mode(sp)))
                             \o L(sp, 3, Dash \o P(<<"LIMIT", "=", "3306">>))
      [] sp.env = "merge" -> L(sp, 2, Key("environment")) \o L(sp, 3, Key("LIMIT") \o Number(sp))
                             \o L(sp, 3, Key("<<") \o Mark("alias", "common"))
      [] sp.env = "alias" -> L(sp, 2, Key("environment") \o Mark("alias", "common"))
DependsOn(sp) ==
    CASE sp.deps = "list" -> L(sp, 2, Key("depends_on")) \o L(sp, 3, Dash \o P(<<"db">>)) \o L(sp, 3, Dash \o Q(<<"cache">>))
      [] sp.deps = "flow" -> L(sp, 2, Key("depends_on") \o Punct("[") \o P(<<"db">>) \o Punct(","))
                             \o L(sp, 3, P(<<"cache">>) \o Punct("]"))
      [] sp.deps = "map"  -> L(sp, 2, Key("depends_on")) \o L(sp, 3, Key("db")) \o L(sp, 4, Key("condition") \o P(<<"started">>))
                             \o L(sp, 3, Key("cache") \o Punct("{") \o Key("condition") \o P(<<"started">>) \o Punct("}"))
CommandLines(sp) ==
    CASE sp.command = "line"   -> L(sp, 2, Key("command") \o P(<<"run", " ", "app">>))
      [] sp.command = "folded" -> L(sp, 2, Key("command") \o Block(TRUE)) \o Raw(sp, 3, P(<<"run">>)) \o Raw(sp, 3, P(<<"app">>))
      [] sp.command = "stepped" -> L(sp, 2, Key("command") \o Block(FALSE)) \o Raw(sp, 3, P(<<"run">>)) \o Raw(sp, 4, P(<<"app">>))
      [] sp.command = "literal" -> L(sp, 2, Key("command") \o Block(FALSE)) \o Raw(sp, 3, P(<<"run", " ", "app">>)) \o Raw(sp, 0, <<>>)
VolumeLines(sp) ==
    IF sp.volume = "short" THEN L(sp, 3, Dash \o P(<<"./", "src", ":", "/", "app", ":", "ro">>))
    ELSE L(sp, 3, Dash \o Key("type") \o P(<<"bind">>))
         \o <<[indent |-> 3 * sp.indent + 2, text |-> Key("src") \o P(<<"src">>)],
              [indent |-> 3 * sp.indent + 2, text |-> Key("target") \o P(<<"/", "app">>)],
              [indent |-> 3 * sp.indent + 2, text |-> Key("read_only") \o P(<<"true">>)]>>
Build(sp) ==
    IF sp.build = "path" THEN L(sp, 2, Key("build") \o P(<<"./", "web">>))
    ELSE L(sp, 2, Key("build") \o Punct("{") \o Key("context") \o Q(<<"x/", "../", "web">>) \o Punct("}"))

(* The cache needs the database; when they are mutual, also the other way  *)
(* round.  A dependency on a service that is not there counts for nothing. *)
Cache(sp) ==
    L(sp, 1, Key("cache")) \o L(sp, 2, Key("image") \o P(<<"redis">>))
    \o L(sp, 2, Key("depends_on") \o Punct("[") \o P(<<"db">>) \o Punct("]"))
Written(sp, mutual, cached) ==
    L(sp, 0, Mark("---", "")) \o Shared(sp) \o L(sp, 0, Key("services"))
    \o L(sp, 1, Key("web")) \o Build(sp) \o DependsOn(sp) \o Environment(sp) \o CommandLines(sp)
    \o L(sp, 2, Key("labels")) \o L(sp, 3, Key("dip.host") \o P(<<"web.test", ":", "3000">>))
    \o L(sp, 2, Key("ports")) \o L(sp, 3, Dash \o Q(<<"8080", ":", "80">>)) \o L(sp, 3, Dash \o Number(sp))
    \o L(sp, 2, Key("volumes")) \o VolumeLines(sp)
    \o (IF cached THEN Cache(sp) ELSE <<>>)
    \o L(sp, 1, Key("db")) \o L(sp, 2, Key("image") \o P(<<"postgres">>))
    \o (IF mutual THEN L(sp, 2, Key("depends_on") \o Punct("[") \o P(<<"cache">>) \o Punct("]")) ELSE <<>>)
    \o L(sp, 2, Key("labels")) \o L(sp, 3, Key("dip.db") \o P(<<"postgres">>))
    \o L(sp, 2, Key("environment")) \o L(sp, 3, Key("POSTGRES_DB") \o P(<<"app">>))
    \o L(sp, 3, Key("POSTGRES_PASSWORD") \o Number(sp))
    \o L(sp, 0, Mark("...", ""))

ASSUME ProjectIsPlain == HookKeepsRuntime /\ \A file \in Files : DomainsDiffer(file)

------------------------------------------------------------------------------
(* A compose file here is [spelling, mutual, first]; first if the behaviour *)
(* is about nothing but its first start.                                   *)
MCLines(file) == Written(file.spelling, file.mutual, file.first)

DbFirst(mutual) ==
    [web |-> {"db", "cache"}, cache |-> {"db"}, db |-> IF mutual THEN {"cache"} ELSE {}]
ModeMeant(file, expr) ==
    LET value == file[1]["MODE"]
    IN  IF "MODE" \in DOMAIN file[1] /\ (value # <<>> \/ expr # ":-") THEN value
        ELSE IF expr = "" THEN <<>> ELSE <<"dev">>
Kept(sp) == IF sp.quoted \/ sp.env = "list" THEN {"MODE", "LIMIT"} ELSE {"MODE"}
ScriptMeant(sp) ==
    IF sp.command = "stepped" THEN <<"run", "\n">> \o [i \in 1 .. sp.indent |-> " "] \o <<"app">>
    ELSE <<"run", " ", "app">>
WebMeant(sp, file) ==
    [image |-> <<"dip-shop-web", ":", "latest">>, labels |-> [x \in {"dip.host"} |-> <<"web.test", ":", "3000">>],
     env |-> [x \in Kept(sp) |-> IF x = "LIMIT" THEN <<"3306">> ELSE ModeMeant(file, sp.expr)],
     envFiles |-> <<>>,
     ports |-> <<<<"8080", ":", "80">>>> \o (IF sp.quoted THEN <<<<"3306">>>> ELSE <<>>),
     volumes |-> <<<<"/", "shop", "src", ":", "/", "app", ":", "ro">>>>,
     workdir |-> <<>>, entrypoint |-> <<>>,
     command |-> <<<<"/bin/sh">>, <<"-lc">>, ScriptMeant(sp)>>,
     service |-> "web", project |-> "shop"]

(* A compose file means the same however it is written: a container run on *)
(* the Apple runtime has the variables, labels, ports, volumes and command *)
(* the file gives it, with the project's variables filled in: in every     *)
(* spelling listed here but for numbers without quotes, which the reader   *)
(* drops.  Not among the spellings, and so not claimed: booleans, $NAME    *)
(* without braces, variables of `environment` that are a bare name,        *)
(* sequences no deeper than their key, folded blocks with deeper lines.    *)
ReadAsWritten ==
    LET cs == containers["apple"]
        web == "dip-shop-web"
        made == [file |-> <<"/", "shop", "web", "Dockerfile">>, target |-> <<>>, context |-> <<"/", "shop", "web">>, args |-> <<>>]
    IN  result.status = "ok" /\ result.backend = "apple" /\ result.cmd = Cmd("start", All, "") /\ result.cmd \in Commands =>
            /\ web \in DOMAIN cs /\ cs[web].args = WebMeant(compose.spelling, dotEnv)
            /\ images[cs[web].args.image] = made

(* The Apple runtime starts a service after those it depends on, as far as *)
(* they do not depend on it in turn, whichever services are asked for.     *)
DependenciesFirst ==
    \A i \in DOMAIN started :
        \A d \in DbFirst(compose.mutual)[started[i]] \ (IF compose.first THEN {} ELSE {"cache"}) :
            \/ \E j \in 1 .. i - 1 : started[j] = d
            \/ started[i] \in DbFirst(compose.mutual)[d]

------------------------------------------------------------------------------
Env(file) == [x \in {"PROJECT_NAME"} |-> <<"shop">>] @@ file
MCDotEnvs == {Env(<<>>), Env([MODE |-> <<>>]), Env([MODE |-> <<"live">>])}
MCScripts == {<<[stream |-> "out", text |-> TRUE], [stream |-> "err", text |-> TRUE], [stream |-> "out", text |-> TRUE]>>,
              <<[stream |-> "out", text |-> FALSE], [stream |-> "out", text |-> TRUE]>>}
MCDbEnv == [s \in {"db", "cache", "web"} |->
              IF s = "db" THEN [POSTGRES_DB |-> <<"app">>, POSTGRES_PASSWORD |-> <<"3306">>] ELSE <<>>]
MCSanitize == [n \in {"shop", "web", "db", "cache"} |-> n]
MCNumerals == {<<"3306">>}
MCBaseDir == <<"/", "shop">>
MCDefaultEnv == Some(Env(<<>>))
MCHostLabels == {"dip.host"}
MCSystemEnv == <<>>
MCHookExports == [TOKEN |-> <<"secret">>]
MCCommands ==
    {Cmd(name, All, "") : name \in {"start", "stop", "restart", "remove", "reset", "cleanup", "build", "pull"}}
    \cup {Cmd(name, "web", "") : name \in {"start", "stop", "restart", "remove"}}
    \cup {Cmd("dump", All, arg) : arg \in {"", "gz"}} \cup {Cmd("import", "db", arg) : arg \in {"", "gz"}}
MCUseChoices == {<<"project", "apple">>, <<"project", "auto">>, <<"global", "docker">>}

NoSettings == [process |-> "", project |-> "", global |-> ""]
ShopFile == [spelling |-> Usual, mutual |-> FALSE, first |-> FALSE]
MCFiles == [spelling : NearUsual, mutual : BOOLEAN, first : {TRUE}] \cup {ShopFile}
MCEnvironments == MCDotEnvs \cup {Over(env, MCHookExports) : env \in MCDotEnvs}

MCLoaded == LET table == Reading IN table
Shop ==
    /\ compose = ShopFile
    /\ dotEnv = None /\ given = 0 /\ faults = 0
    /\ settings \in {NoSettings, [NoSettings EXCEPT !.global = "apple"]}
FirstStart ==
    /\ compose \in MCFiles \ {ShopFile}
    /\ dotEnv \in {Some(file) : file \in MCDotEnvs} /\ given = MaxCommands - 1 /\ faults = MaxFaults
    /\ settings = [NoSettings EXCEPT !.process = "apple"]
MCInit == (Shop \/ FirstStart) /\ Init
(* To keep the instance small: a behaviour begins with a start (or `use`), *)
(* and ends with a command that changes no container; its two containers   *)
(* share two addresses, so that they get each other's.                     *)
Passive == {"build", "pull", "dump", "import"}
Focus ==
    /\ compose.first => cmd'.name \in {"none", "start"}
    /\ given = 0 => cmd'.name \in {"none", "start"}
    /\ given' < MaxCommands => cmd'.name \notin Passive
    /\ ~compose.first => \A b \in BackendNames : "ip3" \notin InUse(containers[b])'
MCNext == Next /\ Focus
MCSpec == MCInit /\ [][MCNext]_vars /\ WF_vars(Step)
=============================================================================
