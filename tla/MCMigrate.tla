------------------------------ MODULE MCMigrate ------------------------------
(***************************************************************************)
(* Instances of Migrate: a MySQL service and two PostgreSQL services.  The *)
(* "related" databases have two tables with a foreign key in either        *)
(* direction, or one of two columns, and no unusual values; each of the    *)
(* "typed" ones has one table of one column type, with an index and one    *)
(* row of one of the values the conversions tell apart.                    *)
(***************************************************************************)
EXTENDS Migrate, SequencesExt

CONSTANTS my, pg, pg2

MCServices == {my, pg, pg2}
MCKind == [s \in MCServices |-> IF s = my THEN "mysql" ELSE "postgres"]
MCDetected == SetToSeqs(MCServices)
MCTables == 1 .. 2
MCIndexNames == {"u"}
MCFilters == {{1, 2}, {1}, {2}}

Column(type, auto, null) == [type |-> type, auto |-> auto, null |-> null]
Nothing == [def |-> [t \in MCTables |-> NoTable], rows |-> [t \in MCTables |-> {}], fks |-> {}, idx |-> {}, seq |-> [t \in MCTables |-> 1]]
With(s, d) == [x \in MCServices |-> IF x = s THEN d ELSE Nothing]
Row(id, ref, v) == [id |-> Value("int", id), ref |-> ref, val |-> v]

Linked(parent, columns) ==
    LET child == CHOOSE t \in MCTables : t # parent
    IN  With(my,
          [def  |-> [t \in MCTables |-> [key |-> "id", id |-> Column("bigint", TRUE, FALSE), val |-> Column("varchar", FALSE, FALSE)]],
           rows |-> [t \in MCTables |-> IF t = parent THEN {Row(2, 0, Value("text", 0))}
                                     ELSE {Row(1, 0, Value("text", 0)), Row(2, 2, Value("text", 0))}],
           fks  |-> {<<child, parent, columns>>},
           idx  |-> {},
           seq  |-> [t \in MCTables |-> 3]])
Related == {Linked(1, "one"), Linked(2, "one"), Linked(1, "several")}

Kinds ==
    [my |-> {<<"tinyint(1)", {Value("int", 0), Value("int", 1), Value("int", 7)}>>,
             <<"smallint", {Value("int", 15)}>>, <<"smallint unsigned", {Value("int", 15), Value("int", 16)}>>,
             <<"mediumint", {Value("int", 23)}>>, <<"int", {Value("int", 31)}>>, <<"int unsigned", {Value("int", 32)}>>,
             <<"bigint", {Value("int", 63)}>>, <<"bigint unsigned", {Value("int", 64)}>>,
             <<"float", {Value("float", 0)}>>, <<"double", {Value("float", 0)}>>,
             <<"decimal", {Value("decimal", 20), Value("decimal", 30), Value("fraction", 0)}>>,
             <<"char", {Value("text", 0)}>>, <<"varchar", {Value("text", 0), Value("text", 1)}>>,
             <<"longtext", {Value("text", 0)}>>, <<"blob", {Value("bytes", 0)}>>, <<"bit", {Value("bits", 0)}>>,
             <<"date", {Value("date", 0), Value("zero date", 0)}>>, <<"time", {Value("time", 0), Value("split second", 0), Value("long time", 0)}>>,
             <<"datetime", {Value("datetime", 0), Value("zero date", 0), Value("subsecond", 0)}>>,
             <<"timestamp", {Value("datetime", 0)}>>, <<"year", {Value("int", 12)}>>,
             <<"json", {Value("json", 0)}>>, <<"point", {Value("opaque", 0)}>>},
     pg |-> {<<"boolean", {Value("bool", 0), Value("bool", 1)}>>, <<"smallint", {Value("int", 15)}>>,
             <<"integer", {Value("int", 31)}>>, <<"bigint", {Value("int", 63)}>>,
             <<"real", {Value("float", 0), Value("nan", 0)}>>, <<"double precision", {Value("float", 0)}>>,
             <<"numeric", {Value("decimal", 20), Value("fraction", 0)}>>,
             <<"numeric free", {Value("decimal", 10), Value("decimal", 20), Value("decimal", 30), Value("fraction", 0)}>>,
             <<"character", {Value("text", 0)}>>, <<"character varying", {Value("text", 0)}>>, <<"text", {Value("text", 0)}>>,
             <<"bytea", {Value("bytes", 0)}>>, <<"date", {Value("date", 0)}>>, <<"time without time zone", {Value("time", 0), Value("split second", 0)}>>,
             <<"timestamp without time zone", {Value("datetime", 0), Value("subsecond", 0)}>>,
             <<"timestamp with time zone", {Value("datetime", 0), Value("subsecond", 0)}>>,
             <<"jsonb", {Value("json", 0)}>>, <<"uuid", {Value("uuid", 0)}>>, <<"bit", {Value("bits", 0)}>>,
             <<"ARRAY", {Value("opaque", 0)}>>}]

Single(s, type, v, auto, key, null) ==
    With(s, [def  |-> [t \in MCTables |->
                         IF t = 1 THEN [key |-> key, id |-> Column(IF s = my THEN "int unsigned" ELSE "integer", auto, FALSE),
                                        val |-> Column(type, FALSE, null)]
                                  ELSE NoTable],
             rows |-> [t \in MCTables |-> IF t = 1 THEN {Row(1, 0, v)} ELSE {}],
             fks  |-> {}, idx |-> {[name |-> "u", table |-> 1, unique |-> TRUE]}, seq |-> [t \in MCTables |-> 2]])

Typed ==
    UNION {{Single(my, k[1], v, TRUE, "id", null) : v \in k[2], null \in BOOLEAN} : k \in Kinds.my}
      \cup UNION {{Single(pg, k[1], v, FALSE, "val", FALSE) : v \in k[2]} : k \in Kinds.pg}
      \cup UNION {{Single(pg, k[1], v, TRUE, key, TRUE) : v \in k[2], key \in {"id", "none"}} : k \in Kinds.pg}

MCDatabases == Related \cup Typed

(* The instances meet what the theorems of MigrateProofs assume; of the    *)
(* last, the tables without a key and those keyed by another column do not. *)
ASSUME DatabasesAssumption ==
    /\ \A d \in MCDatabases : SameIds(d) /\ Fresh(d)
    /\ \A d \in Related : KeyedById(d)
    /\ \A s \in {my, pg} : \E d \in Typed : Existing(d[s]) # {} /\ KeyedById(d)
=============================================================================
