------------------------------ MODULE DbAccess ------------------------------
(***************************************************************************)
(* `dip db dump` and `dip db import` (src/commands/db.rs, src/db/mod.rs,   *)
(* mysql.rs, postgres.rs): the database service is found by its label, or  *)
(* is the service db with the credentials of .env; its client runs in the  *)
(* container with the file as its output or its input.                     *)
(***************************************************************************)
EXTENDS DockerCompose

CONSTANT DbEnv     \* DbEnv[s]: the environment Docker gives the container of service s

VARIABLES
    dump,          \* the file on the host
    data,          \* data[s]: what the database of service s holds
    dbTarget         \* the service the command in progress works on

dbVars == <<dump, data, dbTarget>>

Lookup(env, keys) == LET i == SelectInSeq(keys, LAMBDA key : key \in DOMAIN env)
                     IN  IF i = 0 THEN None ELSE Some(env[keys[i]])
Given(env, keys) == Lookup(env, keys) \notin {None, Some(<<>>)}
MysqlKeys == [name |-> <<"MYSQL_DATABASE">>, password |-> <<"MYSQL_ROOT_PASSWORD">>]
PostgresKeys == [name |-> <<"POSTGRES_DB", "PGDATABASE">>, password |-> <<"POSTGRES_PASSWORD", "PGPASSWORD">>]

(* The credentials db_service_from_parts and detect return.  The first     *)
(* wants them not empty, the second only to be there.                      *)
MysqlConfig(env) ==
    [backend |-> "mysql", name |-> env["MYSQL_DATABASE"], password |-> env["MYSQL_ROOT_PASSWORD"], user |-> <<"root">>]
PostgresConfig(env) ==
    [backend |-> "postgres", name |-> Lookup(env, PostgresKeys.name)[1],
     password |-> Lookup(env, PostgresKeys.password)[1],
     user |-> OrElse(Lookup(env, <<"POSTGRES_USER", "PGUSER">>), <<"postgres">>)]
DbServiceFromParts(type, env) ==
    CASE type = <<"mysql">> /\ Given(env, MysqlKeys.name) /\ Given(env, MysqlKeys.password) -> Some(MysqlConfig(env))
      [] type = <<"postgres">> /\ Given(env, PostgresKeys.name) /\ Given(env, PostgresKeys.password) ->
           Some(PostgresConfig(env))
      [] OTHER -> None
Detect(env) ==
    CASE Lookup(env, MysqlKeys.name) # None /\ Lookup(env, MysqlKeys.password) # None -> Some(MysqlConfig(env))
      [] (Lookup(env, MysqlKeys.name) = None \/ Lookup(env, MysqlKeys.password) = None)
         /\ Lookup(env, PostgresKeys.name) # None /\ Lookup(env, PostgresKeys.password) # None -> Some(PostgresConfig(env))
      [] OTHER -> None

(* db_services of the two runtimes: the running containers of the project  *)
(* with a dip.db label and usable credentials.  Docker is asked for the    *)
(* ids compose knows and inspects them, which shows the environment of the *)
(* image's service; the Apple listing holds what the container was run     *)
(* with.                                                                   *)
DbService(c, env) ==
    LET config == IF "dip.db" \in DOMAIN c.args.labels
                  THEN DbServiceFromParts(c.args.labels["dip.db"], env) ELSE None
    IN  {[service |-> c.args.service, config |-> config[i]] : i \in DOMAIN config}
DockerDbServices ==
    LET inspected == {containers.docker[id] : id \in Running(containers.docker)}
    IN  UNION {DbService(c, DbEnv[c.args.service]) : c \in inspected}
AppleDbServices ==
    LET listed == {containers.apple[n] : n \in DOMAIN containers.apple}
    IN  UNION {DbService(c, c.args.env) : c \in {d \in listed : d.state = "running"}}
DbServices(b) == IF b = "docker" THEN DockerDbServices ELSE AppleDbServices

(* get_container_id: `ps -q` for a service.  On Docker the engine answers   *)
(* over its socket, by the labels of the project and the service, and the  *)
(* CLI where the socket does not; the Apple runtime looks for the          *)
(* service's container, if the compose file has the service.               *)
DockerPs(svc) ==
    LET labeled == {id \in DOMAIN containers.docker : containers.docker[id].args.service = svc}
    IN  labeled \cap Running(containers.docker)
ApplePsQuiet(svc) ==
    IF Config.ok /\ svc \in DOMAIN Config.services
    THEN {ContainerName(svc)} \cap Running(containers.apple) ELSE {}
ContainerIds(b, svc) == IF b = "docker" THEN DockerPs(svc) ELSE ApplePsQuiet(svc)

(* resolve_service: the only one, or the named one; and the legacy way if  *)
(* no container has the label.                                             *)
NoTarget == [service |-> "", backend |-> ""]
Resolved(b, asked) ==
    LET labeled == DbServices(b)
        chosen == IF Cardinality(labeled) = 1 THEN labeled ELSE {s \in labeled : s.service = asked}
    IN  IF labeled # {} THEN {[service |-> s.service, backend |-> s.config.backend] : s \in chosen}
        ELSE IF ContainerIds(b, "db") # {} /\ Detect(projEnv) # None
             THEN {[service |-> "db", backend |-> Detect(projEnv)[1].backend]} ELSE {}

------------------------------------------------------------------------------
(* exec_dump: the file is created or truncated first, or the dump fails    *)
(* there; a dump that fails takes it away, unless the client could not be  *)
(* started at all; what cannot be taken away is left ("kept").  With gzip   *)
(* behind it the status is that of gzip.                                   *)
CreateOutput(status) ==
    \/ NoFault /\ dump' = "empty" /\ status = "ok"
    \/ Fault /\ UNCHANGED dump /\ status = "failed"
ExecDumpKeeps(gz, status) ==     (* Mutation: what a failed dump wrote is kept *)
    \/ NoFault /\ dump' = "full" /\ status = "ok"
    \/ Fault /\ dump' \in {"empty", "partial"} /\ status \in {"failed", "ok"}

ExecDump(gz, status) ==
    \/ NoFault /\ dump' = "full" /\ status = "ok"
    \/ Fault /\ dump' \in {"absent", "kept"} /\ status = "failed"
    \/ Fault /\ gz /\ dump' \in {"empty", "partial"} /\ status = "ok"
    \/ Fault /\ UNCHANGED dump /\ status = "failed"

(* exec_import.  mysql stops at the first error, what came before it stays; *)
(* psql goes on after errors and reports success; a gunzip that fails      *)
(* before the client is not noticed.                                       *)
Imported(content) == data' = [data EXCEPT ![dbTarget.service] = content]
MysqlImport(gz, status) ==
    \/ Imported("partial") /\ status = "failed"
    \/ gz /\ Imported("partial") /\ status = "ok"
PostgresImport(gz, status) == Imported("partial") /\ status = "ok"
ExecImport(gz, status) ==
    \/ NoFault /\ Imported("full") /\ status = "ok"
    \/ Fault /\ UNCHANGED data /\ status = "failed"
    \/ Fault /\ dbTarget.backend = "mysql" /\ MysqlImport(gz, status)
    \/ Fault /\ dbTarget.backend = "postgres" /\ PostgresImport(gz, status)
=============================================================================
