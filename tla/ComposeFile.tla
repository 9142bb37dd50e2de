----------------------------- MODULE ComposeFile -----------------------------
(***************************************************************************)
(* The compose file as the Apple runtime reads it                          *)
(* (src/runtime/compose_file.rs): parsed, interpolated with the project's  *)
(* environment, and normalised into one record per service.                *)
(***************************************************************************)
EXTENDS Yaml

CONSTANT BaseDir      \* the words of the path of the compose file's directory

(* The value of the first of keys that is there; null where none is. *)
Field(m, keys) ==
    LET i == SelectInSeq(keys, LAMBDA key : key \in DOMAIN m) IN IF i = 0 THEN Null ELSE m[keys[i]]
(* scalar_to_string is as_str: a number or a boolean is no string. *)
ScalarToString(v) == IF v.k = "str" THEN Some(v.v) ELSE None
Texts(v) == FlattenSeq([i \in DOMAIN v.v |-> ScalarToString(v.v[i])])

(* str::split at a word. *)
RECURSIVE Split(_, _)
Split(text, word) ==
    IF Find(text, word) = 0 THEN <<text>> ELSE <<Before(text, word)>> \o Split(After(text, word), word)

------------------------------------------------------------------------------
(* Interpolation: ${K}, ${K-default} if K is not set, ${K:-default} also if *)
(* it is empty.  What is not closed stays as it is.                        *)

DefaultUnset(env, key, default, emptyToo) ==     (* Mutation: ":-" takes an empty variable *)
    IF key \in DOMAIN env THEN env[key] ELSE default

Default(env, key, default, emptyToo) ==
    IF key \in DOMAIN env /\ (emptyToo => env[key] # <<>>) THEN env[key] ELSE default
ResolveEnvExpr(expr, env) ==
    CASE Find(expr, ":-") # 0 -> Default(env, Name(Before(expr, ":-")), After(expr, ":-"), TRUE)
      [] Find(expr, ":-") = 0 /\ Find(expr, "-") # 0 ->
           Default(env, Name(Before(expr, "-")), After(expr, "-"), FALSE)
      [] OTHER -> Default(env, Name(expr), <<>>, FALSE)

RECURSIVE InterpolateString(_, _), InterpolateValue(_, _)
InterpolateString(text, env) ==
    LET rest == After(text, "${")
    IN  IF Find(text, "${") = 0 \/ Find(rest, "}") = 0 THEN text
        ELSE Before(text, "${") \o ResolveEnvExpr(Before(rest, "}"), env)
                                \o InterpolateString(After(rest, "}"), env)
InterpolateValue(v, env) ==
    CASE v.k = "str"  -> Str(InterpolateString(v.v, env))
      [] v.k = "list" -> List([i \in DOMAIN v.v |-> InterpolateValue(v.v[i], env)])
      [] v.k = "map"  -> Map([key \in DOMAIN v.v |-> InterpolateValue(v.v[key], env)])
      [] OTHER        -> v

------------------------------------------------------------------------------
(* Paths: relative ones are joined to the directory; "./" and "../" go. *)

NormalizePath(path) ==
    FoldLeft(LAMBDA out, w : CASE w = "./" -> out
                               [] w = "../" -> IF Len(out) > 1 THEN Front(out) ELSE out
                               [] OTHER -> Append(out, w), <<>>, path)
ResolvePath(path) == NormalizePath(IF Absolute(path) THEN path ELSE BaseDir \o path)

IsBindSource(source) == source # <<>> /\ Head(source) \in {"/", "./", "../", "~"}
Volume(kind, source, target, readOnly) ==
    [kind |-> kind, source |-> source, target |-> target, readOnly |-> readOnly]
ParseShortVolume(text) ==
    LET parts == Split(text, ":")
        bind == IsBindSource(parts[1])
    IN  CASE Len(parts) = 1 -> Some(Volume("volume", None, Some(parts[1]), FALSE))
          [] Len(parts) \in {2, 3} ->
               Some(Volume(IF bind THEN "bind" ELSE "volume",
                           Some(IF bind THEN ResolvePath(parts[1]) ELSE parts[1]),
                           Some(parts[2]), Len(parts) = 3 /\ Find(parts[3], "ro") # 0))
          [] OTHER -> None
ParseLongVolume(m) ==
    LET kind == OrElse(ScalarToString(Field(m, <<"type">>)), <<"volume">>)
        source == ScalarToString(Field(m, <<"source", "src">>))
    IN  Volume(Name(kind),
               IF kind = <<"bind">> /\ source # None THEN Some(ResolvePath(source[1])) ELSE source,
               ScalarToString(Field(m, <<"target", "dst", "destination">>)),
               LET r == Field(m, <<"read_only", "readonly">>) IN r.k = "bool" /\ r.v = <<"true">>)
ParseVolume(v) ==
    CASE v.k = "str" -> ParseShortVolume(v.v) [] v.k = "map" -> Some(ParseLongVolume(v.v)) [] OTHER -> None
ParseVolumes(v) ==
    IF v.k = "list" THEN FlattenSeq([i \in DOMAIN v.v |-> ParseVolume(v.v[i])]) ELSE <<>>

------------------------------------------------------------------------------
(* parse_environment and parse_labels: a map of strings, or a list of      *)
(* KEY=VALUE.  Everything else in them is dropped.                         *)
ParseEntries(v) ==
    CASE v.k = "map"  -> [key \in {x \in DOMAIN v.v : v.v[x].k = "str"} |-> v.v[key].v]
      [] v.k = "list" ->
           FoldLeft(LAMBDA m, raw : IF Find(raw, "=") = 0 THEN m
                                    ELSE Set(m, Name(Before(raw, "=")), After(raw, "=")), <<>>, Texts(v))
      [] OTHER        -> <<>>
ParseStringList(v) ==
    CASE v.k = "str" -> <<v.v>> [] v.k = "list" -> Texts(v) [] OTHER -> <<>>
ParsePathList(v) == LET paths == ParseStringList(v) IN [i \in DOMAIN paths |-> ResolvePath(paths[i])]
(* The short list of names, or the map whose keys they are. *)
ParseDependsOn(v) ==
    CASE v.k = "list" -> [i \in DOMAIN Texts(v) |-> Name(Texts(v)[i])]
      [] v.k = "map"  -> SetToSeq(DOMAIN v.v)
      [] OTHER        -> <<>>
ParseBuild(v) ==
    LET Build(context, dockerfile, target, args) ==
            Some([context |-> context, dockerfile |-> dockerfile, target |-> target, args |-> args])
        args == Field(v.v, <<"args">>)
        context == ScalarToString(Field(v.v, <<"context">>))
    IN  CASE v.k = "str" -> Build(ResolvePath(v.v), None, None, <<>>)
          [] v.k = "map" -> Build(IF context = None THEN BaseDir ELSE ResolvePath(context[1]),
                                  ScalarToString(Field(v.v, <<"dockerfile">>)),
                                  ScalarToString(Field(v.v, <<"target">>)),
                                  IF args.k = "map" THEN args.v ELSE <<>>)
          [] OTHER       -> None

(* A "<<" the reader left, in a flow mapping, is merged here. *)
RECURSIVE MergeValue(_, _)
MergeValue(target, v) ==
    CASE v.k = "map"  -> MergeInto(target, v.v)
      [] v.k = "list" -> FoldLeft(MergeValue, target, v.v)
      [] OTHER        -> target
MergeServiceMap(m) ==
    MergeInto([key \in DOMAIN m \ {"<<"} |-> m[key]], MergeValue(<<>>, Field(m, <<"<<">>)))

ParseService(v) ==
    LET service == MergeServiceMap(v.v)
        F(key) == Field(service, <<key>>)
    IN  [build |-> ParseBuild(F("build")), image |-> ScalarToString(F("image")),
         labels |-> ParseEntries(F("labels")), volumes |-> ParseVolumes(F("volumes")),
         ports |-> ParseStringList(F("ports")), environment |-> ParseEntries(F("environment")),
         envFile |-> ParsePathList(F("env_file")), command |-> F("command"), entrypoint |-> F("entrypoint"),
         workingDir |-> ScalarToString(Field(service, <<"working_dir", "workdir">>)),
         dependsOn |-> ParseDependsOn(F("depends_on")), healthcheck |-> F("healthcheck")]

(* load_project_compose: an error if the file is no YAML that the reader   *)
(* takes or has no services; a service that is no mapping is left out.     *)
LoadProjectCompose(lines, env) ==
    LET document == Document(lines)
        value == InterpolateValue(document.v, env)
        services == IF value.k = "map" THEN Field(value.v, <<"services">>) ELSE Null
        named == {name \in DOMAIN services.v : services.v[name].k = "map"}
    IN  IF ~document.ok \/ services.k # "map" THEN [ok |-> FALSE, services |-> <<>>]
        ELSE [ok |-> TRUE, services |-> [name \in named |-> ParseService(services.v[name])]]
=============================================================================
