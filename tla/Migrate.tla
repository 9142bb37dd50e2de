------------------------------- MODULE Migrate -------------------------------
(***************************************************************************)
(* `dip db migrate` (src/db/migrate.rs): tables of one database service    *)
(* are created, emptied and copied in another, MySQL to PostgreSQL with    *)
(* indexes, sequences and foreign keys, PostgreSQL to MySQL without.       *)
(*                                                                         *)
(* Tables are numbered in the order of their names.  A table has an id     *)
(* column, a column that may refer to a parent's id, and a column val.  A  *)
(* foreign key is <<child, parent, columns>>: ref refers to id, or ref and *)
(* val together to id and val, in the parent unique only together with the *)
(* id.  A row is [id, ref, val], ref 0 for NULL.  Whoever may run a        *)
(* statement that fails without the command noticing, or interrupt it, is  *)
(* given by Faults; the source's own application writes while the copy     *)
(* runs.                                                                   *)
(***************************************************************************)
EXTENDS MigrateTypes, Sequences, FiniteSets, FiniteSetsExt

CONSTANTS
    Services,      \* the database services of the project
    Kind,          \* [Services -> {"mysql", "postgres"}]
    Detected,      \* the orders in which detect_by_labels may list them
    Tables,        \* 1 .. n, in the order of the tables' names
    Databases,     \* the contents the services may start with
    IndexNames,    \* what an index may be called
    Filters,       \* the values of --tables: sets of tables
    Chunk,         \* CHUNK_SIZE
    Conns,         \* connections of the pool to a MySQL target
    Faults,        \* what may go wrong: "interrupt", "truncate", "setval"
    MaxRuns,       \* bound on the migrations
    MaxWrites      \* bound on the source application's writes

(* A column is nullable or not and may have an AUTO_INCREMENT or a         *)
(* sequence; key names the column of the primary key.                      *)
ColumnDefs == [type : ColumnTypes, auto : BOOLEAN, null : BOOLEAN]
TableDefs == [key : {"id", "val", "none", "no table"}, id : ColumnDefs, val : ColumnDefs]
NoColumn == [type |-> "none", auto |-> FALSE, null |-> FALSE]
NoTable == [key |-> "no table", id |-> NoColumn, val |-> NoColumn]
ForeignKeys == Tables \X Tables \X {"one", "several"}
Indexes == [name : IndexNames, table : Tables, unique : BOOLEAN]
Cells == [k : CellKinds, n : Nat]
Rows == [id : Cells, ref : Nat, val : Cells]

(* A table that does not exist has no rows, and a foreign key links tables *)
(* that do.                                                                *)
Contents ==
    [def : [Tables -> TableDefs], rows : [Tables -> SUBSET Rows], fks : SUBSET ForeignKeys, idx : SUBSET Indexes, seq : [Tables -> Nat]]
Existing(d) == {t \in Tables : d.def[t].key # "no table"}
Consistent(d) ==
    /\ \A t \in Tables : IsFiniteSet(d.rows[t]) /\ (d.rows[t] # {} => t \in Existing(d))
    /\ \A t \in Tables : \A r \in d.rows[t] : Refused \notin {r.id, r.val}
    /\ \A e \in d.fks : {e[1], e[2]} \subseteq Existing(d)

ASSUME MigrateAssumption ==
    /\ Services # {} /\ IsFiniteSet(Services)
    /\ Kind \in [Services -> {"mysql", "postgres"}]
    /\ Detected \subseteq Seq(Services)
    /\ Tables \subseteq Nat /\ IsFiniteSet(Tables)
    /\ Databases \subseteq [Services -> Contents]
    /\ \A d \in Databases, s \in Services : Consistent(d[s])
    /\ Filters \subseteq SUBSET Tables
    /\ Chunk \in Nat \ {0}
    /\ MaxRuns \in Nat /\ MaxWrites \in Nat

VARIABLES
    db,        \* per service: def, rows, fks, idx, seq
    mig,       \* the migration under way, or the last one
    runs,      \* migrations begun
    writes     \* writes of the source's application

vars == <<db, mig, runs, writes>>

------------------------------------------------------------------------------
(* What the engines do.                                                    *)

Referrers(fks, t) == {e[1] : e \in {f \in fks : f[2] = t}}
(* The tables TRUNCATE t CASCADE empties with t: the least set with t that *)
(* has the referrers of its tables.                                        *)
Reaching(fks, t) ==
    {u \in Tables : \A S \in SUBSET Tables :
        t \in S /\ (\A w \in S : Referrers(fks, w) \subseteq S) => u \in S}

Violates(d, t, new) ==
    \/ \E r \in new : \/ Refused \in {r.id, r.val}
                      \/ r.val = Null /\ ~d.def[t].val.null
    \/ \E r \in new, q \in new \cup d.rows[t] :
          q # r /\ \/ d.def[t].key = "id" /\ q.id = r.id
                   \/ d.def[t].key = "val" /\ q.val = r.val
                   \/ q.val = r.val /\ q.val # Null /\ \E i \in d.idx : i.table = t /\ i.unique
    \/ d.def[t].key # "none" /\ new \cap d.rows[t] # {}

Refers(e, r, p) == p.id = Value("int", r.ref) /\ (e[3] = "several" => p.val = r.val)
Dangling(d, t, new) ==
    \E r \in new, e \in d.fks : /\ e[1] = t /\ r.ref # 0 /\ (e[3] = "several" => r.val # Null)
                                /\ \A p \in d.rows[e[2]] \cup (IF e[2] = t THEN new ELSE {}) : ~Refers(e, r, p)

(* The parent's column has to be unique. *)
CanReference(d, e) ==
    /\ {e[1], e[2]} \subseteq Existing(d)
    /\ d.def[e[2]].key = "id"

------------------------------------------------------------------------------
(* Starting: services.swap_remove for the higher index first.              *)

IndexOf(list, s) == CHOOSE i \in DOMAIN list : list[i] = s
SwapRemove(list, i) ==
    [item |-> list[i],
     rest |-> SubSeq([list EXCEPT ![i] = list[Len(list)]], 1, Len(list) - 1)]
(* Mutation: the lower index is always removed first. *)
PickLowerFirst(list, from, to) ==
    LET f == SwapRemove(list, IndexOf(list, from))
        t == IndexOf(list, to)
    IN  [from |-> f.item, to |-> IF t \in DOMAIN f.rest THEN f.rest[t] ELSE f.rest[1]]
Pick(list, from, to) ==
    LET f == IndexOf(list, from)
        t == IndexOf(list, to)
    IN  IF f > t THEN LET x == SwapRemove(list, f)
                      IN  [from |-> x.item, to |-> SwapRemove(x.rest, t).item]
                 ELSE LET x == SwapRemove(list, t)
                      IN  [from |-> SwapRemove(x.rest, f).item, to |-> x.item]

NoMigration ==
    [pc |-> "idle", from |-> CHOOSE s \in Services : TRUE, to |-> CHOOSE s \in Services : TRUE,
     named |-> <<>>, sel |-> {}, left |-> {}, schema |-> [t \in Tables |-> NoTable], fks |-> {}, idx |-> {}, had |-> {},
     pending |-> {}, off |-> {}, read |-> [t \in Tables |-> {}], refused |-> {}, unset |-> {}, dirty |-> FALSE]

Dir == IF Kind[mig.to] = "postgres" THEN "to_pg" ELSE "to_mysql"
Target == db[mig.to]
Current == Min(mig.left)

Idle == mig.pc \in {"idle", "done", "failed"}

(* run_migrate bails, changing nothing, unless both services are listed,   *)
(* different ones and of different kinds.                                  *)
Start(list, from, to, filter) ==
    LET p == Pick(list, from, to)
    IN  /\ Idle /\ runs < MaxRuns
        /\ \A s \in {from, to} : \E i \in DOMAIN list : list[i] = s
        /\ from # to
        /\ Kind[p.from] # Kind[p.to]
        /\ mig' = [mig EXCEPT !.pc = "introspect", !.from = p.from, !.to = p.to, !.named = <<from, to>>, !.left = filter,
                              !.off = {}, !.read = [t \in Tables |-> {}], !.refused = {}, !.unset = {}, !.dirty = FALSE]
        /\ runs' = runs + 1
        /\ UNCHANGED <<db, writes>>

(* What is read of the source's information_schema: the tables the filter  *)
(* names, with their columns and, of MySQL's, indexes and foreign keys.    *)
Columns(d, sel) == [t \in Tables |-> IF t \in sel THEN d.def[t] ELSE NoTable]
MysqlSchema(d, sel) ==
    [schema |-> Columns(d, sel), fks |-> {e \in d.fks : e[1] \in sel}, idx |-> {i \in d.idx : i.table \in sel}]
PgSchema(d, sel) == [schema |-> Columns(d, sel), fks |-> {}, idx |-> {}]

(* No table of the filter is not an error. *)
Introspect ==
    LET src == db[mig.from]
        sel == Existing(src) \cap mig.left
        found == IF Dir = "to_pg" THEN MysqlSchema(src, sel) ELSE PgSchema(src, sel)
    IN  /\ mig.pc = "introspect"
        /\ mig' = [mig EXCEPT !.pc = IF sel = {} THEN "done" ELSE "create", !.sel = sel, !.left = sel,
                              !.schema = found.schema, !.fks = found.fks, !.idx = found.idx, !.had = db[mig.to].fks]
        /\ UNCHANGED <<db, runs, writes>>

(* The current table is dealt with: the next table of this phase, or the   *)
(* next phase with all tables.                                             *)
(* Mutation: the next phase begins with no tables. *)
AdvanceEmpty(m, phase, next) ==
    LET rest == m.left \ {Current}
    IN  [m EXCEPT !.pc = IF rest # {} THEN phase ELSE next, !.left = rest]
Advance(m, phase, next) ==
    LET rest == m.left \ {Current}
    IN  IF rest # {} THEN [m EXCEPT !.pc = phase, !.left = rest]
                     ELSE [m EXCEPT !.pc = next, !.left = IF next = "done" THEN {} ELSE m.sel]

Failed == mig' = [NoMigration EXCEPT !.pc = "failed"]

------------------------------------------------------------------------------
(* The CREATE TABLE IF NOT EXISTS made for a table of the source.          *)
(* Mutation: the primary key is left out. *)
PgTableNoKey(def) == [key |-> "none", id |-> MysqlToPg(def.id), val |-> MysqlToPg(def.val)]
PgTable(def) == [key |-> def.key, id |-> MysqlToPg(def.id), val |-> MysqlToPg(def.val)]
MysqlTable(def) == [key |-> def.key, id |-> PgToMysql(def.id), val |-> PgToMysql(def.val)]
TargetTable(t) == IF Dir = "to_pg" THEN PgTable(mig.schema[t]) ELSE MysqlTable(mig.schema[t])

(* MySQL wants AUTO_INCREMENT columns to be keys, and no key on a text or  *)
(* blob column without a length.                                           *)
Creatable(d) ==
    \/ Dir = "to_pg"
    \/ /\ d.id.auto => d.key = "id"
       /\ d.key = "val" => d.val.type \notin {"longtext", "longblob", "json"}

Create ==
    LET t == Current
        new == TargetTable(t)
    IN  /\ mig.pc = "create"
        /\ \/ /\ t \in Existing(Target)
              /\ mig' = Advance(mig, "create", "truncate")
              /\ UNCHANGED db
           \/ /\ t \notin Existing(Target) /\ Creatable(new)
              /\ db' = [db EXCEPT ![mig.to].def[t] = new]
              /\ mig' = Advance(mig, "create", "truncate")
           \/ /\ t \notin Existing(Target) /\ ~Creatable(new)
              /\ Failed
              /\ UNCHANGED db
        /\ UNCHANGED <<runs, writes>>

(* SET FOREIGN_KEY_CHECKS is a setting of one connection of the pool, and  *)
(* each statement takes any of them.                                       *)
ChecksOff(c) ==
    /\ mig.pc = "truncate" /\ Dir = "to_mysql"
    /\ mig' = [mig EXCEPT !.pc = "checks off", !.off = @ \cup {c}]
    /\ UNCHANGED <<db, runs, writes>>
ChecksOn(c) ==
    /\ mig.pc = "checks on"
    /\ mig' = [mig EXCEPT !.pc = "open", !.off = @ \ {c}]
    /\ UNCHANGED <<db, runs, writes>>

Emptied(d, ts) ==
    [d EXCEPT !.rows = [t \in Tables |-> IF t \in ts THEN {} ELSE @[t]],
              !.seq = [t \in Tables |-> IF t \in ts THEN 1 ELSE @[t]]]

(* TRUNCATE ... RESTART IDENTITY CASCADE on PostgreSQL.  An error is       *)
(* ignored, here and on MySQL.                                             *)
TruncatePg ==
    /\ mig.pc = "truncate" /\ Dir = "to_pg"
    /\ \/ /\ db' = [db EXCEPT ![mig.to] = Emptied(@, Reaching(@.fks, Current))]
          /\ mig' = [mig EXCEPT !.pc = "open"]
       \/ /\ "truncate" \in Faults
          /\ mig' = [mig EXCEPT !.pc = "open", !.refused = @ \cup {Current}]
          /\ UNCHANGED db
    /\ UNCHANGED <<runs, writes>>

(* MySQL truncates a table other tables refer to only where the checks are *)
(* off.                                                                    *)
TruncateMysql(c) ==
    LET free == c \in mig.off \/ Referrers(Target.fks, Current) \subseteq {Current}
    IN  /\ mig.pc = "checks off"
        /\ \/ /\ free
              /\ db' = [db EXCEPT ![mig.to] = Emptied(@, {Current})]
              /\ mig' = [mig EXCEPT !.pc = "checks on"]
           \/ /\ "truncate" \in Faults \/ ~free
              /\ mig' = [mig EXCEPT !.pc = "checks on", !.refused = @ \cup {Current}]
              /\ UNCHANGED db
        /\ UNCHANGED <<runs, writes>>

(* SELECT * of the source table: what the stream yields is what it held    *)
(* when the statement began.                                               *)
OpenStream ==
    /\ mig.pc = "open"
    /\ mig' = [mig EXCEPT !.pc = "insert", !.pending = db[mig.from].rows[Current],
                          !.read[Current] = db[mig.from].rows[Current]]
    /\ UNCHANGED <<db, runs, writes>>

(* The values of a row of the source's table, as literals, in the columns  *)
(* of the target's; one INSERT has those of a batch.                       *)
PgValues(src, dst, r) ==
    [r EXCEPT !.val = PgStore(dst.val.type, PgLiteral(ExtractMysql(src.val.type, @))),
              !.id = PgStore(dst.id.type, PgLiteral(ExtractMysql(src.id.type, @)))]
MysqlValues(src, dst, r) ==
    [r EXCEPT !.val = MysqlStore(dst.val.type, MysqlLiteral(ExtractPg(src.val.type, @))),
              !.id = MysqlStore(dst.id.type, MysqlLiteral(ExtractPg(src.id.type, @)))]
Converted(t, batch) ==
    {IF Dir = "to_pg" THEN PgValues(mig.schema[t], Target.def[t], r)
                      ELSE MysqlValues(mig.schema[t], Target.def[t], r) : r \in batch}

Unacceptable(c, t, new) ==
    \/ Violates(Target, t, new)
    \/ (Dir = "to_pg" \/ c \notin mig.off) /\ Dangling(Target, t, new)

(* MySQL raises a table's AUTO_INCREMENT above the ids it is given,        *)
(* PostgreSQL leaves its sequence.                                         *)
Inserted(d, t, new) ==
    [d EXCEPT !.rows[t] = @ \cup new,
              !.seq[t] = IF Dir = "to_mysql" THEN Max({@} \cup {r.id.n + 1 : r \in new}) ELSE @]

(* A full batch, or what is left. *)
Batches == {b \in SUBSET mig.pending : b # {} /\ Cardinality(b) = Min({Chunk, Cardinality(mig.pending)})}

(* Mutation: an error of the INSERT is ignored. *)
InsertBatchSwallows(c) ==
    /\ mig.pc = "insert"
    /\ \E batch \in Batches :
         LET new == Converted(Current, batch)
         IN  \/ /\ Unacceptable(c, Current, new)
                /\ mig' = [mig EXCEPT !.pending = @ \ batch]
                /\ UNCHANGED db
             \/ /\ ~Unacceptable(c, Current, new)
                /\ db' = [db EXCEPT ![mig.to] = Inserted(@, Current, new)]
                /\ mig' = [mig EXCEPT !.pending = @ \ batch]
    /\ UNCHANGED <<runs, writes>>

(* Mutation: a failed INSERT is tried again. *)
InsertBatchRetries(c) ==
    /\ mig.pc = "insert"
    /\ \E batch \in Batches :
         LET new == Converted(Current, batch)
         IN  \/ /\ Unacceptable(c, Current, new)
                /\ UNCHANGED mig
                /\ UNCHANGED db
             \/ /\ ~Unacceptable(c, Current, new)
                /\ db' = [db EXCEPT ![mig.to] = Inserted(@, Current, new)]
                /\ mig' = [mig EXCEPT !.pending = @ \ batch]
    /\ UNCHANGED <<runs, writes>>

(* An error of an INSERT ends the migration. *)
InsertBatch(c) ==
    /\ mig.pc = "insert"
    /\ \E batch \in Batches :
         LET new == Converted(Current, batch)
         IN  \/ /\ Unacceptable(c, Current, new)
                /\ Failed
                /\ UNCHANGED db
             \/ /\ ~Unacceptable(c, Current, new)
                /\ db' = [db EXCEPT ![mig.to] = Inserted(@, Current, new)]
                /\ mig' = [mig EXCEPT !.pending = @ \ batch]
    /\ UNCHANGED <<runs, writes>>

EndOfStream ==
    /\ mig.pc = "insert" /\ mig.pending = {}
    /\ mig' = Advance(mig, "truncate", IF Dir = "to_pg" THEN "index" ELSE "done")
    /\ UNCHANGED <<db, runs, writes>>

------------------------------------------------------------------------------
(* After the data, on PostgreSQL only; errors of these statements are      *)
(* ignored.  CREATE INDEX IF NOT EXISTS does nothing where the schema has  *)
(* an index of that name, on whatever table.                               *)
PgIndex(d, i) ==
    /\ i.unique => \A q, r \in d.rows[i.table] : q # r => q.val # r.val \/ q.val = Null
    /\ \A j \in d.idx : j.name # i.name
CreateIndexes ==
    /\ mig.pc = "index"
    /\ db' = [db EXCEPT ![mig.to].idx = @ \cup {i \in mig.idx : i.table = Current /\ PgIndex(Target, i)}]
    /\ mig' = Advance(mig, "index", "setval")
    /\ UNCHANGED <<runs, writes>>

(* Mutation: setval(..., false): the next value is MAX(id) itself. *)
SetSequenceToMax ==
    LET t == Current
        ids == {r.id.n : r \in Target.rows[t]}
    IN  /\ mig.pc = "setval"
        /\ db' = IF mig.schema[t].id.auto /\ Target.def[t].id.auto
                 THEN [db EXCEPT ![mig.to].seq[t] = (IF ids = {} THEN 1 ELSE Max(ids))]
                 ELSE db
        /\ mig' = Advance(mig, "setval", "fks")
        /\ UNCHANGED <<runs, writes>>

(* setval(sequence, COALESCE(MAX(id), 1)): the next value is one more.  An *)
(* error is dropped, and the sequence stays where it was.                  *)
SetSequence ==
    LET t == Current
        ids == {r.id.n : r \in Target.rows[t]}
    IN  /\ mig.pc = "setval"
        /\ \/ /\ db' = IF mig.schema[t].id.auto /\ Target.def[t].id.auto
                       THEN [db EXCEPT ![mig.to].seq[t] = (IF ids = {} THEN 1 ELSE Max(ids)) + 1]
                       ELSE db
              /\ mig' = Advance(mig, "setval", "fks")
           \/ /\ "setval" \in Faults
              /\ mig' = Advance([mig EXCEPT !.unset = @ \cup {t}], "setval", "fks")
              /\ UNCHANGED db
        /\ UNCHANGED <<runs, writes>>

(* A key is read column by column, and each column makes a constraint of   *)
(* the key's name: of a key of several columns, the one on ref can be      *)
(* accepted, the others are refused for the parent's column is not unique. *)
ByColumn(keys) == {<<e[1], e[2], "one">> : e \in keys}
PgForeignKey(d, e) ==
    /\ CanReference(d, e)
    /\ ~Dangling([d EXCEPT !.fks = {e}], e[1], d.rows[e[1]])
AddForeignKeys ==
    /\ mig.pc = "fks"
    /\ db' = [db EXCEPT ![mig.to].fks =
                 @ \cup {e \in ByColumn(mig.fks) : e[1] = Current /\ PgForeignKey(Target, e)}]
    /\ mig' = Advance(mig, "fks", "done")
    /\ UNCHANGED <<runs, writes>>

------------------------------------------------------------------------------
(* Ctrl-C, or a statement whose error is not ignored.                      *)
Interrupt ==
    /\ ~Idle /\ "interrupt" \in Faults
    /\ Failed
    /\ UNCHANGED <<db, runs, writes>>

(* The source's application adds a row, or deletes one nobody refers to.   *)
SourceWrite ==
    /\ ~Idle /\ writes < MaxWrites
    /\ \E t \in Existing(db[mig.from]) :
         LET d == db[mig.from]
         IN  \/ \E r \in d.rows[t] :
                  /\ \A e \in d.fks : e[2] = t => \A q \in d.rows[e[1]] : q.ref # r.id.n
                  /\ db' = [db EXCEPT ![mig.from].rows[t] = @ \ {r}]
             \/ \E r \in d.rows[t], ref \in {0} \cup UNION {{p.id.n : p \in d.rows[e[2]]} : e \in {f \in d.fks : f[1] = t}} :
                  LET new == [id |-> Value("int", d.seq[t]), ref |-> ref, val |-> r.val]
                  IN  /\ ~Violates(d, t, {new}) /\ ~Dangling(d, t, {new})
                      /\ db' = [db EXCEPT ![mig.from].rows[t] = @ \cup {new}, ![mig.from].seq[t] = @ + 1]
    /\ mig' = [mig EXCEPT !.dirty = TRUE]
    /\ writes' = writes + 1
    /\ UNCHANGED runs

Init == db \in Databases /\ mig = NoMigration /\ runs = 0 /\ writes = 0

MigrationStep ==
    \/ Introspect \/ Create \/ TruncatePg \/ OpenStream \/ EndOfStream
    \/ \E c \in Conns : ChecksOff(c) \/ TruncateMysql(c) \/ InsertBatch(c) \/ ChecksOn(c)
    \/ CreateIndexes \/ SetSequence \/ AddForeignKeys

Next ==
    \/ \E list \in Detected, from, to \in Services, filter \in Filters : Start(list, from, to, filter)
    \/ MigrationStep
    \/ Interrupt
    \/ SourceWrite

Spec == Init /\ [][Next]_vars
FairSpec == Spec /\ WF_vars(MigrationStep)
------------------------------------------------------------------------------
Phases == {"idle", "introspect", "create", "truncate", "checks off", "checks on", "open", "insert",
           "index", "setval", "fks", "done", "failed"}
Migrations ==
    [pc : Phases, from : Services, to : Services, named : {<<>>} \cup (Services \X Services), sel : SUBSET Tables,
     left : SUBSET Tables, schema : [Tables -> TableDefs], fks : SUBSET ForeignKeys, idx : SUBSET Indexes, had : SUBSET ForeignKeys,
     pending : SUBSET Rows, off : SUBSET Conns, read : [Tables -> SUBSET Rows], refused : SUBSET Tables,
     unset : SUBSET Tables, dirty : BOOLEAN]

(* Every variable has its type; the rows of a service are those of its     *)
(* tables, and a migration under way works on tables of its own selection, *)
(* which the target has from "truncate" on (db/migrate.rs:123-306).        *)
MigrateTypeOK ==
    /\ db \in [Services -> Contents]
    /\ \A s \in Services : Consistent(db[s])
    /\ mig \in Migrations
    /\ IsFiniteSet(mig.pending) /\ \A t \in Tables : IsFiniteSet(mig.read[t])
    /\ ~Idle /\ mig.pc # "introspect" => /\ mig.left # {} /\ mig.left \subseteq mig.sel
                                        /\ \A t \in mig.sel : mig.schema[t].key # "no table"
    /\ mig.pc \notin {"idle", "failed", "introspect", "create"} => mig.sel \subseteq Existing(Target)
    /\ mig.pc = "create" => mig.sel \ mig.left \subseteq Existing(Target)
    /\ runs \in 0 .. MaxRuns /\ writes \in 0 .. MaxWrites

(* A migration changes no service but the one --to names, whatever order   *)
(* the services were listed in, and takes rows only from tables it was     *)
(* told to copy and from those that refer to them (swap_remove and         *)
(* TRUNCATE ... CASCADE, db/migrate.rs:75-84, 755).                        *)
TouchesOnlyItsTables ==
    [][\A s \in Services :
         writes' = writes /\ db'[s] # db[s] =>
           /\ s = mig.named[2]
           /\ \A t \in Tables : db[s].rows[t] \subseteq db'[s].rows[t]
                                 \/ \E u \in mig.sel : t \in Reaching(mig.had, u)]_vars

(* The tables whose rows a later TRUNCATE of this run took away again,     *)
(* because foreign keys from before the run lead there.                    *)
Wiped(t) == Dir = "to_pg" /\ \E u \in mig.sel \ mig.refused : u > t /\ t \in Reaching(mig.had, u)

(* When a migration reports its rows and tables as done, each table that   *)
(* was emptied holds exactly what its stream yielded, in batches of        *)
(* whatever size, after whatever failed runs before (db/migrate.rs:746-905: *)
(* transfer_mysql_to_pg and transfer_pg_to_mysql).  The exceptions are     *)
(* children that sort before a parent and refer to it since an earlier run *)
(* (Wiped) and tables whose TRUNCATE was refused.                          *)
DoneComplete ==
    mig.pc = "done" =>
      \A t \in mig.sel :
        LET copied == Converted(t, mig.read[t])
        IN  IF Wiped(t) THEN Target.rows[t] = {}
            ELSE /\ copied \subseteq Target.rows[t]
                 /\ t \notin mig.refused => Target.rows[t] = copied

(* After a migration the next value of a sequence is above every id of its *)
(* table, so that the application can go on inserting                      *)
(* (db/migrate.rs:198-214; AUTO_INCREMENT on MySQL).  The exception is a   *)
(* table whose setval failed: the migration succeeds all the same.         *)
NextIdFree ==
    mig.pc = "done" =>
      \A t \in mig.sel \ mig.unset : Target.def[t].id.auto => \A r \in Target.rows[t] : r.id.n < Target.seq[t]

(* The values a migration changes without an error are these and no        *)
(* others: NULL for what cannot be decoded or is not a number, TRUE for    *)
(* every other value of a tinyint(1), and what DECIMAL, TIME and DATETIME  *)
(* columns without precision round (db/migrate.rs:562-660, 926-1215).      *)
SameValue(v, w) ==
    \/ v = w
    \/ {v.k, w.k} \subseteq {"int", "bool"} /\ v.n = w.n
    \/ v.k = "bytes" /\ w.k = "bits"
ListedLoss(t, v, w) ==
    \/ w = Null /\ (Undecodable(v) \/ v.k = "nan")
    \/ mig.schema[t].val.type = "tinyint(1)" /\ v.n > 1 /\ w = Value("bool", 1)
    \/ v.k = "fraction" /\ Target.def[t].val.type = "decimal(10,0)"
    \/ v.k = "subsecond" /\ Target.def[t].val.type \in {"datetime", "timestamp"}
    \/ v.k = "split second" /\ Target.def[t].val.type = "time"
LossesAreListed ==
    mig.pc = "done" =>
      \A t \in mig.sel \ mig.refused : \A r \in mig.read[t], q \in Target.rows[t] :
        q.id = r.id => SameValue(r.val, q.val) \/ ListedLoss(t, r.val, q.val)

(* A first migration to PostgreSQL of a source nobody writes to ends with  *)
(* every foreign key of one column between selected tables in place, in    *)
(* whatever order parents and children sort: constraints come after the    *)
(* data (db/migrate.rs:216-227).  The exception is a key of several        *)
(* columns: it is taken apart into constraints of one column, which fail.  *)
FksKept ==
    mig.pc = "done" /\ runs = 1 /\ ~mig.dirty /\ Dir = "to_pg" =>
      \A e \in mig.fks : e[2] \in mig.sel /\ e[3] = "one" => e \in Target.fks

(* A migration ends: every loop over tables, batches and constraints is    *)
(* finite, and no statement is retried.                                    *)
MigrationEnds == mig.pc = "introspect" ~> mig.pc \in {"done", "failed"}
-----------------------------------------------------------------------------
(* Databases of which more can be said than of all.                        *)

(* The same tables have an automatic id in every service, it is no         *)
(* tinyint(1), and MySQL's next id is free, as InnoDB keeps it.            *)
IdsFree(d, t) == d.def[t].id.auto => \A r \in d.rows[t] : r.id.n < d.seq[t]
SameIds(d) ==
  /\ \A s, u \in Services : \A t \in Existing(d[s]) \cap Existing(d[u]) : d[s].def[t].id.auto = d[u].def[t].id.auto
  /\ \A s \in Services, t \in Tables : d[s].def[t].id.auto => d[s].def[t].id.type # "tinyint(1)"
  /\ \A s \in Services, t \in Tables : Kind[s] = "mysql" => IdsFree(d[s], t)

(* Before a first migration: MySQL and PostgreSQL share no table, and the  *)
(* keys of MySQL of one column hold and refer to primary keys.             *)
Sound(d) ==
  \A e \in {f \in d.fks : f[3] = "one"} :
    /\ d.def[e[2]].key = "id" /\ d.def[e[2]].id.type # "tinyint(1)"
    /\ \A r \in d.rows[e[1]] : r.ref = 0 \/ \E p \in d.rows[e[2]] : p.id = Value("int", r.ref)
Fresh(d) == \A s, u \in Services : Kind[s] = "mysql" /\ Kind[u] = "postgres" =>
  Sound(d[s]) /\ Existing(d[s]) \cap Existing(d[u]) = {}

(* A row of the target can be told to be a copy of one of the source:      *)
(* tables are keyed by integer ids, and a tinyint(1) holds integers.       *)
IntIds(rows) == \A r \in rows : r.id.k = "int" /\ \A q \in rows : q.id = r.id => q = r
Fits(def, rows) == def.val.type = "tinyint(1)" => \A r \in rows : r.val = Null \/ r.val.k = "int"
KeyedById(d) ==
  \A s \in Services, t \in Tables :
    /\ d[s].def[t].key \in {"id", "no table"} /\ d[s].def[t].id.type \notin {"tinyint(1)", "boolean"}
    /\ IntIds(d[s].rows[t]) /\ Fits(d[s].def[t], d[s].rows[t])
=============================================================================
