---------------------------- MODULE MigrateProofs ----------------------------
(* `dip db migrate`, for every set of services and tables, every content    *)
(* of the databases, every bound and every fault: the types; that the       *)
(* service named by --to is the only one a migration changes; that a table  *)
(* reported as copied holds what its stream yielded; and, of databases that *)
(* SameIds, Fresh and KeyedById of Migrate describe, that the next id is    *)
(* free, that a first migration keeps the foreign keys, and which values    *)
(* change.                                                                  *)
EXTENDS Migrate, FiniteSetTheorems, WellFoundedInduction, SequenceTheorems, TLAPS

(* The phases in which data is copied, and those after them.                *)
Copying == {"truncate", "checks off", "checks on", "open", "insert"}
Copied == {"index", "setval", "fks", "done"}

(* The two services are of different kinds, are the ones that were named,   *)
(* and the target's foreign keys are those it had before, until new ones    *)
(* are added.                                                               *)
Aimed ==
  /\ mig.pc \notin {"idle", "failed"} =>
       /\ mig.from # mig.to
       /\ mig.named = <<mig.from, mig.to>>
  /\ mig.pc \in {"create", "index", "setval"} \cup Copying => Target.fks = mig.had

(* The tables whose TRUNCATE has been tried.                                *)
Begun ==
  IF mig.pc \in {"truncate", "checks off"} THEN mig.sel \ mig.left
  ELSE IF mig.pc \in Copying THEN mig.sel \ (mig.left \ {Current}) ELSE mig.sel
WipedSoFar(t) == Dir = "to_pg" /\ \E u \in Begun \ mig.refused : u > t /\ t \in Reaching(mig.had, u)

(* The table holds what was read of it, unless it was emptied afterwards.   *)
Complete(t) ==
  LET copied == Converted(t, mig.read[t])
  IN  IF WipedSoFar(t) THEN Target.rows[t] = {}
      ELSE copied \subseteq Target.rows[t] /\ (t \notin mig.refused => Target.rows[t] = copied)

(* Tables are copied in their order; the current one holds the batches      *)
(* that were inserted.                                                      *)
CopyInv ==
  /\ mig.pc \in {"introspect", "create"} => mig.refused = {}
  /\ mig.pc \in {"checks off", "checks on"} => Dir = "to_mysql"
  /\ mig.pc \in Copying =>
       /\ \A t \in mig.left, u \in mig.sel : u > t => u \in mig.left
       /\ \A t \in mig.sel \ mig.left : Complete(t)
       /\ mig.refused \subseteq Begun
  /\ mig.pc \in {"checks on", "open"} /\ Current \notin mig.refused => Target.rows[Current] = {}
  /\ mig.pc = "insert" =>
       LET copied == Converted(Current, mig.read[Current] \ mig.pending)
       IN  /\ mig.pending \subseteq mig.read[Current]
           /\ copied \subseteq Target.rows[Current]
           /\ Current \notin mig.refused => Target.rows[Current] = copied
  /\ mig.pc \in Copied => \A t \in mig.sel : Complete(t)

(* What was introspected is what the source still has.                      *)
SchemaRead == mig.pc \notin {"idle", "failed", "introspect"} =>
  \A t \in mig.sel : t \in Existing(db[mig.from]) /\ mig.schema[t] = db[mig.from].def[t]

(* MySQL's next ids are free, and the target's once their sequences are set, *)
(* those whose setval failed excepted.                                      *)
IdInv ==
  /\ SameIds(db)
  /\ mig.pc = "setval" => \A t \in (mig.sel \ mig.left) \ mig.unset : IdsFree(Target, t)
  /\ mig.pc = "fks" \/ (mig.pc = "done" /\ Dir = "to_pg") => \A t \in mig.sel \ mig.unset : IdsFree(Target, t)

(* A first migration to PostgreSQL.                                        *)
First == mig.pc \notin {"idle", "failed"} /\ runs = 1 /\ ~mig.dirty /\ Dir = "to_pg"
Source == db[mig.from]

(* The foreign keys in hand are the source's, and TRUNCATE reaches no other *)
(* table.                                                                   *)
FirstSchema ==
  /\ Sound(Source)
  /\ mig.pc = "introspect" => Existing(Source) \cap Existing(Target) = {}
  /\ mig.pc # "introspect" =>
       /\ mig.fks = {e \in Source.fks : e[1] \in mig.sel}
       /\ \A e \in mig.had : e[1] \notin mig.sel /\ e[2] \notin mig.sel

(* The selected tables are those the migration made.                        *)
FirstTables ==
  mig.pc # "introspect" =>
    \A t \in mig.sel : IF mig.pc = "create" /\ t \in mig.left THEN t \notin Existing(Target)
                       ELSE Target.def[t] = PgTable(mig.schema[t])

(* The rows that are stored for a batch, of a direction and two tables.     *)
Stored(dir, src, dst, batch) ==
  {IF dir = "to_pg" THEN PgValues(src, dst, r) ELSE MysqlValues(src, dst, r) : r \in batch}

(* They hold the rows copied so far, whatever TRUNCATE did.                 *)
CopyOf(t, batch) == Stored("to_pg", mig.schema[t], Target.def[t], batch)
FirstRows ==
  /\ mig.pc = "create" => \A t \in mig.sel : Target.rows[t] = {}
  /\ mig.pc \in Copying =>
       /\ \A t \in mig.left : t # Current \/ mig.pc # "insert" => Target.rows[t] = {}
       /\ \A t \in mig.sel \ mig.left : Target.rows[t] = CopyOf(t, Source.rows[t])
  /\ mig.pc = "insert" =>
       /\ mig.pending \subseteq Source.rows[Current]
       /\ Target.rows[Current] = CopyOf(Current, Source.rows[Current] \ mig.pending)
  /\ mig.pc \in Copied => \A t \in mig.sel : Target.rows[t] = CopyOf(t, Source.rows[t])

FirstFks ==
  mig.pc \in {"fks", "done"} =>
    \A e \in mig.fks : e[2] \in mig.sel /\ e[3] = "one" /\ (mig.pc = "fks" => e[1] \notin mig.left) => e \in Target.fks

FirstInv ==
  /\ runs = 0 => db \in Databases /\ Idle
  /\ First => FirstSchema /\ FirstTables /\ FirstRows /\ FirstFks

(* The ids read are integers, and a tinyint(1) was read as one.             *)
ReadInv ==
  mig.pc \notin {"idle", "failed"} =>
    /\ mig.pc \in {"introspect", "create"} => \A t \in Tables : mig.read[t] = {}
    /\ \A t \in Tables : IntIds(mig.read[t])
    /\ \A t \in mig.sel : Fits(mig.schema[t], mig.read[t])
------------------------------------------------------------------------------
(* Sets of numbers and finite sets.                                         *)

(* A set of naturals that is not empty has a least element, which Min is.   *)
LEMMA MinIsLeast ==
  ASSUME NEW S \in SUBSET Nat, S # {}
  PROVE  Min(S) \in S /\ \A y \in S : Min(S) <= y
<1>1. \E x \in S : \A y \in S : ~ (<<y, x>> \in OpToRel(<, Nat))
  BY NatLessThanWellFounded, WFMin
<1>2. PICK x \in S : \A y \in S : ~ (<<y, x>> \in OpToRel(<, Nat))
  BY <1>1
<1>3. \A y \in S : ~ (y < x)
  BY <1>2 DEF OpToRel
<1>4. \A y \in S : x =< y
  BY <1>3
<1> QED
  BY <1>4 DEF Min

(* A finite one has a greatest element, which Max is: a smallest set        *)
(* without one would still have none without one of its elements.           *)
LEMMA MaxIsGreatest ==
  ASSUME NEW S \in SUBSET Nat, IsFiniteSet(S), S # {}
  PROVE  Max(S) \in S /\ \A y \in S : y <= Max(S)
<1> DEFINE Top(T) == \E x \in T : \A y \in T : x >= y
           Bad == {T \in SUBSET S : T # {} /\ ~Top(T)}
           Sizes == {Cardinality(T) : T \in Bad}
<1>1. \A T \in SUBSET S : IsFiniteSet(T) /\ Cardinality(T) \in Nat
  BY FS_Subset, FS_CardinalityType
<1>2. ASSUME Bad # {} PROVE FALSE
  <2>1. Sizes # {} /\ Sizes \in SUBSET Nat
    BY <1>1, <1>2
  <2>2. Min(Sizes) \in Sizes /\ \A n \in Sizes : Min(Sizes) <= n
    BY <2>1, MinIsLeast
  <2>3. PICK T \in Bad : Cardinality(T) = Min(Sizes)
    BY <2>2
  <2>4. PICK x \in T : TRUE
    BY <2>3
  <2> DEFINE U == T \ {x}
  <2>5. Cardinality(U) = Cardinality(T) - 1 /\ Cardinality(T) \in Nat
    BY <1>1, <2>3, <2>4, FS_RemoveElement
  <2>6. U # {}
    <3>1. SUFFICES ASSUME U = {} PROVE FALSE
      OBVIOUS
    <3>2. T = {x} /\ x \in Nat
      BY <3>1, <2>3, <2>4
    <3> QED
      BY <3>2, <2>3
  <2>7. U \notin Bad
    <3>1. SUFFICES ASSUME U \in Bad PROVE FALSE
      OBVIOUS
    <3>2. Cardinality(U) \in Sizes
      BY <3>1
    <3>3. Min(Sizes) <= Cardinality(U)
      BY <2>2, <3>2
    <3> HIDE DEF Sizes, U
    <3> QED
      BY <2>3, <2>5, <3>3
  <2>8. PICK m \in U : \A y \in U : m >= y
    BY <2>6, <2>7, <2>3
  <2>9. m \in Nat /\ x \in Nat
    BY <2>8, <2>3, <2>4
  <2>10. Top(T)
    <3>1. CASE m >= x
      BY <3>1, <2>8
    <3>2. CASE x >= m
      <4>1. \A y \in U : y \in Nat /\ x >= y
        BY <3>2, <2>3, <2>8, <2>9
      <4> QED
        BY <4>1, <2>4, <2>9
    <3> QED
      BY <3>1, <3>2, <2>9
  <2> QED
    BY <2>10, <2>3
<1>3. Top(S)
  BY <1>2
<1> QED
  BY <1>3 DEF Max

(* What Max exceeds does not depend on the set being written as a union.    *)
LEMMA MaxOfOneMore ==
  ASSUME NEW n \in Nat, NEW S \in SUBSET Nat, IsFiniteSet(S)
  PROVE  /\ Max({n} \cup S) \in Nat
         /\ n <= Max({n} \cup S) /\ \A y \in S : y <= Max({n} \cup S)
<1>1. IsFiniteSet({n} \cup S)
  BY FS_Union, FS_Singleton
<1> QED
  BY <1>1, MaxIsGreatest

(* The image of a finite set is finite: of the rows' ids ...                *)
LEMMA IdsFinite ==
  ASSUME NEW S \in SUBSET Rows, IsFiniteSet(S)
  PROVE  /\ {r.id.n : r \in S} \in SUBSET Nat /\ IsFiniteSet({r.id.n : r \in S})
         /\ {r.id.n + 1 : r \in S} \in SUBSET Nat /\ IsFiniteSet({r.id.n + 1 : r \in S})
<1>1. \A r \in S : r.id.n \in Nat
  BY DEF Rows, Cells
<1> DEFINE A == {r.id.n : r \in S}
           B == {r.id.n + 1 : r \in S}
           f == [r \in S |-> r.id.n]
           g == [r \in S |-> r.id.n + 1]
<1>2. f \in Surjection(S, A) /\ g \in Surjection(S, B)
  BY DEF Surjection
<1>3. IsFiniteSet(A) /\ IsFiniteSet(B)
  BY <1>2, FS_Surjection DEF ExistsSurjection
<1> QED
  BY <1>1, <1>3
------------------------------------------------------------------------------
(* What the conversions return.                                             *)

(* A cell that was read, spelled out and stored is a cell.                  *)
LEMMA StoredCell ==
  ASSUME NEW v \in Cells, NEW from, NEW to
  PROVE  /\ PgStore(to, PgLiteral(ExtractMysql(from, v))) \in Cells
         /\ MysqlStore(to, MysqlLiteral(ExtractPg(from, v))) \in Cells
<1>0. \A k \in CellKinds, n \in Nat : Value(k, n) \in Cells
  BY DEF Value, Cells
<1>1. Null \in Cells /\ Refused \in Cells /\ v.n \in Nat
  BY <1>0 DEF Null, Refused, Cells, CellKinds
<1>2. ExtractMysql(from, v) \in Cells
  BY <1>0, <1>1 DEF ExtractMysql, CellKinds, Undecodable
<1>3. ExtractPg(from, v) \in Cells
  BY <1>0, <1>1 DEF ExtractPg, CellKinds, Undecodable
<1>4. \A c \in Cells : PgLiteral(c) \in Cells /\ MysqlLiteral(c) \in Cells
  <2> TAKE c \in Cells
  <2>1. c.n \in Nat
    BY DEF Cells
  <2> QED
    BY <1>0, <1>1, <2>1 DEF PgLiteral, MysqlLiteral, CellKinds
<1>5. \A c \in Cells : PgStore(to, c) \in Cells
  BY <1>1 DEF PgStore
<1>6. \A c \in Cells : MysqlStore(to, c) \in Cells
  BY <1>0, <1>1 DEF MysqlStore, CellKinds
<1> QED
  BY <1>2, <1>3, <1>4, <1>5, <1>6

(* A column made for a column is a column.                                  *)
LEMMA MadeColumn ==
  ASSUME NEW c \in ColumnDefs
  PROVE  MysqlToPg(c) \in ColumnDefs /\ PgToMysql(c) \in ColumnDefs
<1>1. \A t \in ColumnTypes, a \in BOOLEAN : [c EXCEPT !.type = t, !.auto = a] \in ColumnDefs /\ [c EXCEPT !.type = t] \in ColumnDefs
  BY DEF ColumnDefs
<1>2. c.type \in ColumnTypes
  BY DEF ColumnDefs
<1>0. \A t : PlainPg(t) \in ColumnTypes /\ PlainMysql(t) \in ColumnTypes
  BY DEF PlainPg, PlainMysql, ColumnTypes
<1>3. MysqlToPg(c) \in ColumnDefs
  <2>1. CASE c.type = "tinyint(1)"
    BY <2>1, <1>1, <1>2 DEF MysqlToPg, ColumnTypes
  <2>2. CASE c.type # "tinyint(1)" /\ c.auto
    BY <2>2, <1>1, <1>2 DEF MysqlToPg, ColumnTypes
  <2>3. CASE c.type # "tinyint(1)" /\ ~c.auto
    BY <2>3, <1>0, <1>1, <1>2 DEF MysqlToPg
  <2> QED
    BY <2>1, <2>2, <2>3
<1>4. PgToMysql(c) \in ColumnDefs
  <2>1. CASE c.auto
    BY ZenonT(60), <2>1, <1>1, <1>2 DEF PgToMysql, ColumnTypes
  <2>2. CASE ~c.auto
    BY <2>2, <1>0, <1>1, <1>2 DEF PgToMysql
  <2> QED
    BY <2>1, <2>2
<1> QED
  BY <1>3, <1>4

(* CREATE TABLE makes a table with the primary key of the source's.         *)
LEMMA MadeTable ==
  ASSUME NEW d \in TableDefs
  PROVE  /\ PgTable(d) \in TableDefs /\ PgTable(d).key = d.key
         /\ MysqlTable(d) \in TableDefs /\ MysqlTable(d).key = d.key
BY MadeColumn DEF PgTable, MysqlTable, TableDefs

(* That is what a batch is converted to.                                    *)
LEMMA ConvertedIsStored ==
  ASSUME NEW t, NEW batch
  PROVE  Converted(t, batch) = Stored(Dir, mig.schema[t], Target.def[t], batch)
BY DEF Converted, Stored

(* A row that is stored is a row with the same reference.                   *)
LEMMA StoredRow ==
  ASSUME NEW r \in Rows, NEW src, NEW dst
  PROVE  /\ PgValues(src, dst, r) \in Rows /\ PgValues(src, dst, r).ref = r.ref
         /\ PgValues(src, dst, r).id = PgStore(dst.id.type, PgLiteral(ExtractMysql(src.id.type, r.id)))
         /\ MysqlValues(src, dst, r) \in Rows /\ MysqlValues(src, dst, r).ref = r.ref
<1>1. r.id \in Cells /\ r.val \in Cells
  BY DEF Rows
<1> QED
  BY <1>1, StoredCell DEF PgValues, MysqlValues, Rows

(* A batch is stored as finitely many rows, and batches one by one as their *)
(* union at once.                                                           *)
LEMMA StoredRows ==
  ASSUME NEW dir, NEW src, NEW dst, NEW B \in SUBSET Rows
  PROVE  /\ Stored(dir, src, dst, B) \in SUBSET Rows
         /\ IsFiniteSet(B) => IsFiniteSet(Stored(dir, src, dst, B))
         /\ Stored(dir, src, dst, {}) = {}
         /\ \A C : Stored(dir, src, dst, B \cup C) = Stored(dir, src, dst, B) \cup Stored(dir, src, dst, C)
<1> DEFINE V(r) == IF dir = "to_pg" THEN PgValues(src, dst, r) ELSE MysqlValues(src, dst, r)
           f == [r \in B |-> V(r)]
<1>1. \A r \in B : V(r) \in Rows
  BY StoredRow
<1>2. \A C : Stored(dir, src, dst, C) = {V(r) : r \in C}
  BY DEF Stored
<1> HIDE DEF V
<1>3. f \in Surjection(B, {V(r) : r \in B})
  BY DEF Surjection
<1>4. IsFiniteSet(B) => IsFiniteSet({V(r) : r \in B})
  BY <1>3, FS_Surjection DEF ExistsSurjection
<1>5. Stored(dir, src, dst, B) \in SUBSET Rows
  BY <1>1, <1>2
<1>6. IsFiniteSet(B) => IsFiniteSet(Stored(dir, src, dst, B))
  BY <1>2, <1>4
<1>7. Stored(dir, src, dst, {}) = {}
  <2>1. Stored(dir, src, dst, {}) = {V(r) : r \in {}}
    BY <1>2
  <2> QED
    BY <2>1
<1>8. ASSUME NEW C
      PROVE  Stored(dir, src, dst, B \cup C) = Stored(dir, src, dst, B) \cup Stored(dir, src, dst, C)
  <2>1. {V(r) : r \in B \cup C} = {V(r) : r \in B} \cup {V(r) : r \in C}
    OBVIOUS
  <2> QED
    BY <1>2, <2>1
<1> QED
  BY <1>5, <1>6, <1>7, <1>8

------------------------------------------------------------------------------
(* Starting.                                                                *)

(* Taking an element out of a list puts the last one in its place.          *)
LEMMA SwapRemoved ==
  ASSUME NEW S, NEW list \in Seq(S), NEW i \in DOMAIN list
  PROVE  /\ SwapRemove(list, i).item = list[i]
         /\ SwapRemove(list, i).rest \in Seq(S) /\ DOMAIN SwapRemove(list, i).rest = 1 .. Len(list) - 1
         /\ \A j \in 1 .. Len(list) - 1 :
              SwapRemove(list, i).rest[j] = IF j = i THEN list[Len(list)] ELSE list[j]
<1> DEFINE n == Len(list)
           swapped == [list EXCEPT ![i] = list[n]]
<1>1. n \in Nat /\ DOMAIN list = 1 .. n /\ i \in 1 .. n /\ n >= 1
  BY LenProperties
<1>2. swapped \in Seq(S) /\ Len(swapped) = n
  BY <1>1, ExceptSeq
<1>3. \A j \in 1 .. n : swapped[j] = IF j = i THEN list[n] ELSE list[j]
  BY <1>1
<1> HIDE DEF swapped
<1>4. SubSeq(swapped, 1, n - 1) \in Seq(S) /\ Len(SubSeq(swapped, 1, n - 1)) = n - 1
  BY <1>1, <1>2, SubSeqProperties
<1>5. \A j \in 1 .. n - 1 : SubSeq(swapped, 1, n - 1)[j] = swapped[j]
  BY <1>1, <1>2, SubSeqProperties
<1>6. DOMAIN SubSeq(swapped, 1, n - 1) = 1 .. n - 1
  BY <1>4, LenProperties
<1> QED
  BY <1>1, <1>3, <1>4, <1>5, <1>6 DEF SwapRemove, swapped

(* So the two services that are taken out are the ones that were named, in  *)
(* whatever order they are listed (run_migrate, db/migrate.rs:74-84).       *)
LEMMA PickedAsNamed ==
  ASSUME NEW list \in Seq(Services), NEW from \in Services, NEW to \in Services, from # to,
         \A s \in {from, to} : \E i \in DOMAIN list : list[i] = s
  PROVE  Pick(list, from, to) = [from |-> from, to |-> to]
<1> DEFINE f == IndexOf(list, from)
           t == IndexOf(list, to)
           n == Len(list)
<1>1. f \in DOMAIN list /\ list[f] = from /\ t \in DOMAIN list /\ list[t] = to
  BY DEF IndexOf
<1>2. n \in Nat /\ DOMAIN list = 1 .. n
  BY LenProperties
<1>3. f \in 1 .. n /\ t \in 1 .. n /\ f # t
  BY <1>1, <1>2
<1> HIDE DEF f, t, n
<1>4. CASE f > t
  <2> DEFINE y == SwapRemove(list, f).rest
  <2>1. SwapRemove(list, f).item = from /\ y \in Seq(Services) /\ DOMAIN y = 1 .. n - 1
    BY <1>1, SwapRemoved DEF n
  <2>2. t \in 1 .. n - 1
    BY <1>2, <1>3, <1>4
  <2>3. \A j \in 1 .. n - 1 : y[j] = IF j = f THEN list[n] ELSE list[j]
    BY <1>1, SwapRemoved DEF n
  <2>4. y[t] = to
    BY <1>1, <1>3, <2>2, <2>3
  <2> HIDE DEF y
  <2>5. SwapRemove(y, t).item = to
    BY <2>4 DEF SwapRemove
  <2> QED
    BY <1>4, <2>1, <2>5 DEF Pick, f, t, y
<1>5. CASE ~(f > t)
  <2> DEFINE y == SwapRemove(list, t).rest
  <2>1. SwapRemove(list, t).item = to /\ y \in Seq(Services) /\ DOMAIN y = 1 .. n - 1
    BY <1>1, SwapRemoved DEF n
  <2>2. f \in 1 .. n - 1
    BY <1>2, <1>3, <1>5
  <2>3. \A j \in 1 .. n - 1 : y[j] = IF j = t THEN list[n] ELSE list[j]
    BY <1>1, SwapRemoved DEF n
  <2>4. y[f] = from
    BY <1>1, <1>3, <2>2, <2>3
  <2> HIDE DEF y
  <2>5. SwapRemove(y, f).item = from
    BY <2>4 DEF SwapRemove
  <2> QED
    BY <1>5, <2>1, <2>5 DEF Pick, f, t, y
<1> QED
  BY <1>4, <1>5
------------------------------------------------------------------------------
(* Types.                                                                   *)

(* The current table is the least of those left.                            *)
LEMMA CurrentIsLeft ==
  ASSUME MigrateTypeOK, ~Idle, mig.pc # "introspect"
  PROVE  /\ Current \in mig.left /\ Current \in mig.sel /\ Current \in Tables
         /\ \A t \in mig.left : Current <= t
<1>1. mig.left # {} /\ mig.left \subseteq mig.sel /\ mig.sel \subseteq Tables
  BY DEF MigrateTypeOK, Migrations
<1>2. mig.left \in SUBSET Nat
  BY <1>1, MigrateAssumption
<1> QED
  BY <1>1, <1>2, MinIsLeast DEF Current

(* A failed migration is nobody's.                                          *)
LEMMA FailedTyped ==
  ASSUME Failed
  PROVE  /\ mig' \in Migrations /\ mig'.pc = "failed"
         /\ mig'.pending = {} /\ mig'.read = [t \in Tables |-> {}]
<1>1. (CHOOSE s \in Services : TRUE) \in Services
  BY MigrateAssumption
<1>2. NoTable \in TableDefs
  BY DEF NoTable, NoColumn, TableDefs, ColumnDefs, ColumnTypes
<1>3. NoMigration \in Migrations
  BY <1>1, <1>2 DEF NoMigration, Migrations, Phases
<1>4. NoMigration.pending = {} /\ NoMigration.read = [t \in Tables |-> {}]
  BY DEF NoMigration
<1>5. mig' = [NoMigration EXCEPT !.pc = "failed"]
  BY DEF Failed
<1> HIDE DEF NoMigration
<1> QED
  BY <1>3, <1>4, <1>5 DEF Migrations, Phases

(* Where a phase goes on after the current table.                           *)
LEMMA Advanced ==
  ASSUME mig \in Migrations, NEW phase, NEW next, mig' = Advance(mig, phase, next)
  PROVE  LET rest == mig.left \ {Current}
         IN  \/ rest # {} /\ mig' = [mig EXCEPT !.pc = phase, !.left = rest]
             \/ rest = {} /\ mig' = [mig EXCEPT !.pc = next, !.left = IF next = "done" THEN {} ELSE mig.sel]
BY DEF Advance

(* The part of the type invariant about the databases.                      *)
DbTyped == db \in [Services -> Contents] /\ \A s \in Services : Consistent(db[s])
(* The part about the migration; it does not depend on the rows.            *)
MigTyped ==
  /\ mig \in Migrations
  /\ IsFiniteSet(mig.pending) /\ \A t \in Tables : IsFiniteSet(mig.read[t])
  /\ ~Idle /\ mig.pc # "introspect" => /\ mig.left # {} /\ mig.left \subseteq mig.sel
                                       /\ \A t \in mig.sel : mig.schema[t].key # "no table"
  /\ mig.pc \notin {"idle", "failed", "introspect", "create"} => mig.sel \subseteq Existing(Target)
  /\ mig.pc = "create" => mig.sel \ mig.left \subseteq Existing(Target)

(* One service's contents are replaced.                                     *)
LEMMA ServiceReplaced ==
  ASSUME DbTyped, NEW s \in Services, NEW e \in Contents, Consistent(e), db' = [db EXCEPT ![s] = e]
  PROVE  DbTyped'
<1>1. \A u \in Services : db'[u] = IF u = s THEN e ELSE db[u]
  BY DEF DbTyped
<1>2. db' \in [Services -> Contents]
  BY DEF DbTyped
<1>3. \A u \in Services : Consistent(db'[u])
  BY <1>1 DEF DbTyped
<1> QED
  BY <1>2, <1>3 DEF DbTyped

(* Rows and sequences may change in any way that leaves the rows finite and *)
(* acceptable, and gives none to a table that does not exist.               *)
RowsFit(d, rows) ==
  \A t \in Tables : /\ IsFiniteSet(rows[t]) /\ (rows[t] # {} => t \in Existing(d))
                    /\ \A r \in rows[t] : Refused \notin {r.id, r.val}
WithRows(d, rows, seq) == [d EXCEPT !.rows = rows, !.seq = seq]
LEMMA RowsReplaced ==
  ASSUME NEW d \in Contents, Consistent(d), NEW rows \in [Tables -> SUBSET Rows], NEW seq \in [Tables -> Nat],
         RowsFit(d, rows)
  PROVE  /\ WithRows(d, rows, seq) \in Contents /\ Consistent(WithRows(d, rows, seq))
         /\ WithRows(d, rows, seq).rows = rows /\ WithRows(d, rows, seq).seq = seq
         /\ WithRows(d, rows, seq).fks = d.fks /\ WithRows(d, rows, seq).def = d.def
<1> DEFINE e == WithRows(d, rows, seq)
<1>1. e \in Contents /\ e.rows = rows /\ e.seq = seq /\ e.fks = d.fks /\ e.def = d.def
  BY DEF Contents, WithRows
<1> HIDE DEF e
<1>2. Existing(e) = Existing(d)
  BY <1>1 DEF Existing
<1>3. Consistent(e)
  BY <1>1, <1>2 DEF Consistent, RowsFit
<1> QED
  BY <1>1, <1>3 DEF e

(* TRUNCATE and INSERT keep a database consistent, and change what they say. *)
LEMMA EmptiedTyped ==
  ASSUME NEW d \in Contents, Consistent(d), NEW ts \in SUBSET Tables
  PROVE  /\ Emptied(d, ts) \in Contents /\ Consistent(Emptied(d, ts))
         /\ Emptied(d, ts).fks = d.fks /\ Emptied(d, ts).def = d.def
         /\ \A t \in Tables : Emptied(d, ts).rows[t] = IF t \in ts THEN {} ELSE d.rows[t]
         /\ \A t \in Tables : Emptied(d, ts).seq[t] = IF t \in ts THEN 1 ELSE d.seq[t]
<1> DEFINE rows == [t \in Tables |-> IF t \in ts THEN {} ELSE d.rows[t]]
           seq == [t \in Tables |-> IF t \in ts THEN 1 ELSE d.seq[t]]
<1>1. rows \in [Tables -> SUBSET Rows] /\ seq \in [Tables -> Nat]
  BY DEF Contents
<1>2. Emptied(d, ts) = WithRows(d, rows, seq)
  BY DEF Emptied, Contents, WithRows
<1>3. IsFiniteSet({})
  BY FS_EmptySet
<1>4. RowsFit(d, rows)
  BY <1>3 DEF Consistent, RowsFit
<1>5. (\A t \in Tables : rows[t] = IF t \in ts THEN {} ELSE d.rows[t]) /\ (\A t \in Tables : seq[t] = IF t \in ts THEN 1 ELSE d.seq[t])
  OBVIOUS
<1> HIDE DEF rows, seq
<1>6. /\ Emptied(d, ts) \in Contents /\ Consistent(Emptied(d, ts))
      /\ Emptied(d, ts).rows = rows /\ Emptied(d, ts).seq = seq
      /\ Emptied(d, ts).fks = d.fks /\ Emptied(d, ts).def = d.def
  BY <1>1, <1>2, <1>4, RowsReplaced
<1> QED
  BY <1>5, <1>6

LEMMA InsertedTyped ==
  ASSUME NEW d \in Contents, Consistent(d), NEW t \in Existing(d), NEW new \in SUBSET Rows, IsFiniteSet(new),
         \A r \in new : Refused \notin {r.id, r.val}
  PROVE  /\ Inserted(d, t, new) \in Contents /\ Consistent(Inserted(d, t, new))
         /\ Inserted(d, t, new).fks = d.fks /\ Inserted(d, t, new).def = d.def
         /\ \A u \in Tables : Inserted(d, t, new).rows[u] = IF u = t THEN d.rows[t] \cup new ELSE d.rows[u]
         /\ \A u \in Tables : d.seq[u] <= Inserted(d, t, new).seq[u]
         /\ Dir = "to_mysql" => \A r \in new : r.id.n < Inserted(d, t, new).seq[t]
<1> DEFINE next == IF Dir = "to_mysql" THEN Max({d.seq[t]} \cup {r.id.n + 1 : r \in new}) ELSE d.seq[t]
           rows == [d.rows EXCEPT ![t] = @ \cup new]
           seq == [d.seq EXCEPT ![t] = next]
<1>0. d.rows \in [Tables -> SUBSET Rows] /\ d.seq \in [Tables -> Nat] /\ t \in Tables
  BY DEF Contents, Existing
<1>1. next \in Nat /\ d.seq[t] <= next /\ (Dir = "to_mysql" => \A r \in new : r.id.n + 1 <= next)
  <2> DEFINE A == {r.id.n + 1 : r \in new}
  <2>1. A \in SUBSET Nat /\ IsFiniteSet(A) /\ \A r \in new : r.id.n + 1 \in A
    BY IdsFinite
  <2> HIDE DEF A
  <2>2. Max({d.seq[t]} \cup A) \in Nat /\ d.seq[t] <= Max({d.seq[t]} \cup A) /\ \A y \in A : y <= Max({d.seq[t]} \cup A)
    BY <1>0, <2>1, MaxOfOneMore
  <2> QED
    BY <1>0, <2>1, <2>2 DEF A
<1>2. \A r \in new : r.id.n \in Nat
  BY DEF Rows, Cells
<1>3. rows \in [Tables -> SUBSET Rows] /\ seq \in [Tables -> Nat]
  BY <1>0, <1>1
<1>4. Inserted(d, t, new) = WithRows(d, rows, seq)
  BY <1>0 DEF Inserted, Contents, WithRows
<1>5. /\ \A u \in Tables : rows[u] = IF u = t THEN d.rows[t] \cup new ELSE d.rows[u]
      /\ \A u \in Tables : seq[u] = IF u = t THEN next ELSE d.seq[u]
  BY <1>0
<1>6. IsFiniteSet(d.rows[t] \cup new)
  BY <1>0, FS_Union DEF Consistent
<1> HIDE DEF rows, seq, next
<1>7. RowsFit(d, rows)
  BY <1>0, <1>5, <1>6 DEF Consistent, RowsFit
<1>8. /\ Inserted(d, t, new) \in Contents /\ Consistent(Inserted(d, t, new))
      /\ Inserted(d, t, new).rows = rows /\ Inserted(d, t, new).seq = seq
      /\ Inserted(d, t, new).fks = d.fks /\ Inserted(d, t, new).def = d.def
  BY <1>3, <1>4, <1>7, RowsReplaced
<1>9. \A u \in Tables : d.seq[u] <= seq[u]
  BY <1>0, <1>1, <1>5
<1>10. Dir = "to_mysql" => \A r \in new : r.id.n < seq[t]
  BY <1>0, <1>1, <1>2, <1>5
<1> QED
  BY <1>5, <1>8, <1>9, <1>10
(* Starting keeps the types, and takes the services that were named.        *)
LEMMA StartTyped ==
  ASSUME DbTyped, MigTyped, NEW list \in Detected, NEW from \in Services, NEW to \in Services, NEW filter \in Filters,
         Start(list, from, to, filter)
  PROVE  /\ DbTyped' /\ MigTyped'
         /\ mig'.pc = "introspect" /\ mig'.from = from /\ mig'.to = to /\ mig'.named = <<from, to>>
         /\ mig'.refused = {} /\ mig'.dirty = FALSE
         /\ from # to /\ Kind[from] # Kind[to]
<1>1. list \in Seq(Services) /\ filter \in SUBSET Tables
  BY MigrateAssumption
<1>2. from # to /\ \A s \in {from, to} : \E i \in DOMAIN list : list[i] = s
  BY DEF Start
<1>3. Pick(list, from, to) = [from |-> from, to |-> to]
  BY <1>1, <1>2, PickedAsNamed
<1>4. /\ mig' = [mig EXCEPT !.pc = "introspect", !.from = from, !.to = to, !.named = <<from, to>>, !.left = filter,
                            !.off = {}, !.read = [t \in Tables |-> {}], !.refused = {}, !.unset = {}, !.dirty = FALSE]
      /\ Kind[from] # Kind[to]
      /\ db' = db
  BY <1>3 DEF Start
<1>5. mig' \in Migrations /\ mig'.pc = "introspect" /\ mig'.read = [t \in Tables |-> {}] /\ mig'.pending = mig.pending
  BY ZenonT(60), <1>1, <1>4 DEF MigTyped, Migrations, Phases
<1>6. mig'.from = from /\ mig'.to = to /\ mig'.named = <<from, to>> /\ mig'.refused = {} /\ mig'.dirty = FALSE
  BY <1>4 DEF MigTyped, Migrations
<1>7. MigTyped'
  BY <1>5, FS_EmptySet DEF MigTyped, Idle
<1>8. DbTyped'
  BY <1>4 DEF DbTyped
<1> QED
  BY <1>2, <1>4, <1>5, <1>6, <1>7, <1>8

(* A step that only moves on in the migration, keeping the target's tables; *)
(* a sequence may be noted as not set.                                      *)
Moved(p, l) == \E un \in SUBSET Tables : mig' = [mig EXCEPT !.pc = p, !.left = l, !.unset = un]
LEMMA MovedOn ==
  ASSUME mig \in Migrations, NEW phase, NEW next,
         \/ mig' = Advance(mig, phase, next)
         \/ \E un \in SUBSET Tables : mig' = Advance([mig EXCEPT !.unset = un], phase, next)
  PROVE  \/ mig.left \ {Current} # {} /\ Moved(phase, mig.left \ {Current})
         \/ mig.left \ {Current} = {} /\ Moved(next, IF next = "done" THEN {} ELSE mig.sel)
<1> DEFINE C == Current
<1>1. mig.unset \in SUBSET Tables /\ mig = [mig EXCEPT !.unset = mig.unset]
  BY DEF Migrations
<1>2. PICK un \in SUBSET Tables : mig' = Advance([mig EXCEPT !.unset = un], phase, next)
  BY <1>1
<1> DEFINE m == [mig EXCEPT !.unset = un]
<1>3. m.left = mig.left /\ m.sel = mig.sel
  BY DEF Migrations
<1>4. \A q, l : [m EXCEPT !.pc = q, !.left = l] = [mig EXCEPT !.pc = q, !.left = l, !.unset = un]
  BY DEF Migrations
<1>5. /\ mig.left \ {C} # {} => mig' = [m EXCEPT !.pc = phase, !.left = mig.left \ {C}]
      /\ mig.left \ {C} = {} => mig' = [m EXCEPT !.pc = next, !.left = IF next = "done" THEN {} ELSE mig.sel]
  BY <1>2, <1>3 DEF Advance
<1> HIDE DEF m, C
<1>6. CASE mig.left \ {C} # {}
  BY <1>4, <1>5, <1>6 DEF Moved, C
<1>7. CASE mig.left \ {C} = {}
  BY <1>4, <1>5, <1>7 DEF Moved, C
<1> QED
  BY <1>6, <1>7
LEMMA MovedTyped ==
  ASSUME MigTyped, NEW p \in Phases \ {"idle", "failed", "introspect"}, NEW l \in SUBSET mig.sel, Moved(p, l),
         ~Idle, mig.pc # "introspect",
         Existing(Target) \subseteq Existing(Target)',
         p # "done" => l # {},
         mig.sel \ l \subseteq Existing(Target)',
         p # "create" => mig.sel \subseteq Existing(Target)'
  PROVE  MigTyped'
<1>0. PICK un \in SUBSET Tables : mig' = [mig EXCEPT !.pc = p, !.left = l, !.unset = un]
  BY DEF Moved
<1>1. mig' \in Migrations /\ mig'.sel = mig.sel /\ mig'.left = l /\ mig'.pc = p /\ mig'.schema = mig.schema
      /\ mig'.pending = mig.pending /\ mig'.read = mig.read
  <2>1. mig \in Migrations /\ l \in SUBSET Tables /\ p \in Phases
    BY DEF MigTyped, Migrations
  <2> QED
    BY <1>0, <2>1 DEF Migrations
<1> QED
  BY <1>1 DEF MigTyped, Idle
LEMMA IntrospectTyped ==
  ASSUME DbTyped, MigTyped, Introspect
  PROVE  /\ DbTyped' /\ MigTyped' /\ UNCHANGED db
         /\ mig'.from = mig.from /\ mig'.to = mig.to /\ mig'.named = mig.named /\ mig'.dirty = mig.dirty
         /\ mig'.refused = mig.refused
         /\ mig'.sel = Existing(db[mig.from]) \cap mig.left /\ mig'.left = mig'.sel
         /\ mig'.pc = IF mig'.sel = {} THEN "done" ELSE "create"
         /\ \A t \in mig'.sel : mig'.schema[t] = db[mig.from].def[t]
         /\ mig'.had = Target.fks
         /\ Dir = "to_pg" => mig'.fks = {e \in db[mig.from].fks : e[1] \in mig'.sel}
<1> DEFINE src == db[mig.from]
           sel == Existing(src) \cap mig.left
           found == IF Dir = "to_pg" THEN MysqlSchema(src, sel) ELSE PgSchema(src, sel)
<1>1. src \in Contents /\ db[mig.to] \in Contents /\ sel \in SUBSET Tables
  BY DEF DbTyped, MigTyped, Migrations
<1>2. NoTable \in TableDefs
  BY DEF NoTable, NoColumn, TableDefs, ColumnDefs, ColumnTypes
<1>3. /\ found.schema = [t \in Tables |-> IF t \in sel THEN src.def[t] ELSE NoTable]
      /\ found.fks \in SUBSET ForeignKeys /\ found.idx \in SUBSET Indexes
      /\ Dir = "to_pg" => found.fks = {e \in src.fks : e[1] \in sel}
  BY <1>1 DEF MysqlSchema, PgSchema, Columns, Contents
<1>4. found.schema \in [Tables -> TableDefs] /\ \A t \in sel : found.schema[t] = src.def[t]
  <2> HIDE DEF found, src, sel
  <2>1. src.def \in [Tables -> TableDefs]
    BY <1>1 DEF Contents
  <2> QED
    BY <1>1, <1>2, <1>3, <2>1
<1>5. /\ mig' = [mig EXCEPT !.pc = IF sel = {} THEN "done" ELSE "create", !.sel = sel, !.left = sel,
                            !.schema = found.schema, !.fks = found.fks, !.idx = found.idx, !.had = db[mig.to].fks]
      /\ db' = db
  BY DEF Introspect
<1>6. \A t \in sel : src.def[t].key # "no table"
  BY ZenonT(60) DEF Existing
<1> HIDE DEF found, src, sel
<1>7. /\ mig' \in Migrations
      /\ mig'.from = mig.from /\ mig'.to = mig.to /\ mig'.named = mig.named /\ mig'.dirty = mig.dirty
      /\ mig'.refused = mig.refused /\ mig'.pending = mig.pending /\ mig'.read = mig.read
      /\ mig'.sel = sel /\ mig'.left = sel /\ mig'.schema = found.schema /\ mig'.fks = found.fks
      /\ mig'.pc = (IF sel = {} THEN "done" ELSE "create") /\ mig'.had = db[mig.to].fks
  BY ZenonT(60), <1>1, <1>3, <1>4, <1>5 DEF MigTyped, Migrations, Phases, Contents
<1>8. MigTyped'
  BY ZenonT(60), <1>4, <1>6, <1>7 DEF MigTyped, Idle
<1>9. DbTyped'
  BY <1>5 DEF DbTyped
<1> QED
  BY <1>3, <1>4, <1>5, <1>7, <1>8, <1>9 DEF src, sel, Target

(* The table made for one of the source's is one, with its primary key.     *)
LEMMA TargetTableTyped ==
  ASSUME MigTyped, NEW t \in Tables
  PROVE  TargetTable(t) \in TableDefs /\ TargetTable(t).key = mig.schema[t].key
<1>1. mig.schema[t] \in TableDefs
  BY DEF MigTyped, Migrations
<1> QED
  BY <1>1, MadeTable DEF TargetTable

LEMMA CreateTyped ==
  ASSUME MigrateTypeOK, DbTyped, MigTyped, Create
  PROVE  /\ DbTyped' /\ MigTyped'
         /\ \/ Failed /\ UNCHANGED db
            \/ /\ \/ Moved("create", mig.left \ {Current})
                  \/ Moved("truncate", mig.sel) /\ mig.left = {Current}
               /\ Current \in Existing(Target) => UNCHANGED db
               /\ Current \notin Existing(Target) => db' = [db EXCEPT ![mig.to].def[Current] = TargetTable(Current)]
<1>0. ~Idle /\ mig.pc # "introspect" /\ mig.pc = "create"
  BY DEF Create, Idle
<1>1. Current \in mig.left /\ Current \in mig.sel /\ Current \in Tables
  BY <1>0, CurrentIsLeft
<1>2. Target \in Contents /\ Consistent(Target) /\ mig.to \in Services
  BY DEF DbTyped, MigTyped, Migrations, Target
<1>3. mig.left \subseteq mig.sel /\ mig.left # {} /\ (\A t \in mig.sel : mig.schema[t].key # "no table")
      /\ mig.sel \ mig.left \subseteq Existing(Target)
  BY <1>0 DEF MigTyped
<1>4. CASE Failed /\ UNCHANGED db
  BY <1>4, FailedTyped, FS_EmptySet DEF DbTyped, MigTyped, Idle
<1>5. CASE mig' = Advance(mig, "create", "truncate") /\ Current \in Existing(Target) /\ UNCHANGED db
  <2>1. \/ mig.left \ {Current} # {} /\ Moved("create", mig.left \ {Current})
        \/ mig.left \ {Current} = {} /\ Moved("truncate", mig.sel)
    BY <1>5, MovedOn DEF MigTyped
  <2>2. Existing(Target)' = Existing(Target)
    BY <1>5, <2>1 DEF Target, Existing, Moved, MigTyped, Migrations
  <2>3. MigTyped'
    BY <1>0, <1>1, <1>3, <1>5, <2>1, <2>2, MovedTyped DEF Phases
  <2>4. DbTyped'
    BY <1>5 DEF DbTyped
  <2> QED
    BY <1>1, <1>5, <2>1, <2>3, <2>4
<1>6. CASE /\ mig' = Advance(mig, "create", "truncate") /\ Current \notin Existing(Target)
           /\ db' = [db EXCEPT ![mig.to].def[Current] = TargetTable(Current)]
  <2> DEFINE d == Target
             e == [d EXCEPT !.def[Current] = TargetTable(Current)]
  <2>1. TargetTable(Current) \in TableDefs /\ TargetTable(Current).key # "no table"
    BY <1>1, <1>3, TargetTableTyped
  <2>2. e \in Contents /\ e.rows = d.rows /\ e.fks = d.fks
        /\ \A t \in Tables : e.def[t] = IF t = Current THEN TargetTable(Current) ELSE d.def[t]
    BY <1>2, <2>1 DEF Contents
  <2>3. db' = [db EXCEPT ![mig.to] = e]
    BY <1>2, <1>6 DEF DbTyped, Target
  <2> HIDE DEF d, e
  <2>4. Existing(e) = Existing(d) \cup {Current}
    BY <1>1, <2>1, <2>2 DEF Existing
  <2>5. Consistent(e)
    BY <1>2, <2>2, <2>4 DEF Consistent, d
  <2>6. DbTyped'
    BY <1>2, <2>2, <2>3, <2>5, ServiceReplaced
  <2>7. \/ mig.left \ {Current} # {} /\ Moved("create", mig.left \ {Current})
        \/ mig.left \ {Current} = {} /\ Moved("truncate", mig.sel)
    BY ZenonT(60), <1>6, MovedOn DEF MigTyped
  <2>8. Target' = e
    BY <1>2, <2>3, <2>7 DEF Target, Moved, MigTyped, Migrations, DbTyped
  <2>9. Existing(Target)' = Existing(Target) \cup {Current}
    <3>1. Existing(Target)' = Existing(Target')
      BY DEF Existing
    <3> QED
      BY <2>4, <2>8, <3>1 DEF d
  <2>10. MigTyped'
    BY <1>0, <1>1, <1>3, <2>7, <2>9, MovedTyped DEF Phases
  <2> QED
    BY <1>1, <1>6, <2>6, <2>7, <2>10
<1> QED
  BY <1>4, <1>5, <1>6 DEF Create
(* The target's contents are replaced, not its tables.                      *)
LEMMA TargetReplaced ==
  ASSUME DbTyped, mig.to \in Services, mig'.to = mig.to, NEW e \in Contents, Consistent(e), e.def = Target.def,
         db' = [db EXCEPT ![mig.to] = e]
  PROVE  /\ DbTyped' /\ Target' = e /\ Existing(Target)' = Existing(Target)
         /\ \A s \in Services : s # mig.to => db'[s] = db[s]
<1>1. DbTyped'
  BY ServiceReplaced
<1>2. Target' = e /\ \A s \in Services : s # mig.to => db'[s] = db[s]
  BY DEF DbTyped, Target
<1>3. Existing(Target)' = Existing(e)
  BY <1>2 DEF Existing
<1> QED
  BY <1>1, <1>2, <1>3 DEF Existing

(* The phases of one table: the connections' checks.                        *)
LEMMA ChecksTyped ==
  ASSUME DbTyped, MigTyped, NEW c \in Conns, ChecksOff(c) \/ ChecksOn(c)
  PROVE  /\ DbTyped' /\ MigTyped' /\ UNCHANGED db
         /\ \E o \in SUBSET Conns, p \in {"checks off", "open"} :
              mig' = [mig EXCEPT !.pc = p, !.off = o] /\ (p = "open" => mig.pc = "checks on")
                                                      /\ (p = "checks off" => mig.pc = "truncate" /\ Dir = "to_mysql")
<1>1. \E o \in SUBSET Conns, p \in {"checks off", "open"} :
              mig' = [mig EXCEPT !.pc = p, !.off = o] /\ (p = "open" => mig.pc = "checks on")
                                                      /\ (p = "checks off" => mig.pc = "truncate" /\ Dir = "to_mysql")
  BY ZenonT(60) DEF ChecksOff, ChecksOn, MigTyped, Migrations
<1>2. db' = db
  BY DEF ChecksOff, ChecksOn
<1>3. /\ mig' \in Migrations /\ mig'.to = mig.to /\ mig'.sel = mig.sel /\ mig'.left = mig.left /\ mig'.schema = mig.schema
      /\ mig'.pending = mig.pending /\ mig'.read = mig.read /\ mig'.pc \in {"checks off", "open"}
      /\ mig.pc \in {"checks on", "truncate"}
  BY ZenonT(60), <1>1 DEF MigTyped, Migrations, Phases
<1>4. Existing(Target)' = Existing(Target)
  BY <1>2, <1>3 DEF Existing, Target
<1>5. MigTyped'
  BY <1>3, <1>4 DEF MigTyped, Idle
<1>6. DbTyped'
  BY <1>2 DEF DbTyped
<1> QED
  BY <1>1, <1>2, <1>5, <1>6

(* A TRUNCATE empties tables, or is refused.                                *)
LEMMA TruncateTyped ==
  ASSUME DbTyped, MigTyped, NEW ts \in SUBSET Tables, NEW p \in {"open", "checks on"}, mig.pc \in {"truncate", "checks off"},
         \/ /\ db' = [db EXCEPT ![mig.to] = Emptied(@, ts)]
            /\ mig' = [mig EXCEPT !.pc = p]
         \/ /\ UNCHANGED db
            /\ mig' = [mig EXCEPT !.pc = p, !.refused = @ \cup {Current}],
         Current \in Tables
  PROVE  /\ DbTyped' /\ MigTyped'
         /\ \A s \in Services : s # mig.to => db'[s] = db[s]
         /\ Target'.def = Target.def /\ Target'.fks = Target.fks
         /\ mig'.pc = p
         /\ \/ /\ mig'.refused = mig.refused
               /\ \A t \in Tables : Target'.rows[t] = IF t \in ts THEN {} ELSE Target.rows[t]
               /\ \A t \in Tables : Target'.seq[t] = IF t \in ts THEN 1 ELSE Target.seq[t]
            \/ /\ mig'.refused = mig.refused \cup {Current}
               /\ UNCHANGED db /\ Target' = Target
<1>0. mig.to \in Services /\ Target \in Contents /\ Consistent(Target)
  BY DEF DbTyped, MigTyped, Migrations, Target
<1>1. /\ mig' \in Migrations /\ mig'.to = mig.to /\ mig'.sel = mig.sel /\ mig'.left = mig.left /\ mig'.schema = mig.schema
      /\ mig'.pending = mig.pending /\ mig'.read = mig.read /\ mig'.pc = p
  <2>1. CASE mig' = [mig EXCEPT !.pc = p]
    BY <2>1 DEF MigTyped, Migrations, Phases
  <2>2. CASE mig' = [mig EXCEPT !.pc = p, !.refused = @ \cup {Current}]
    BY ZenonT(60), <2>2 DEF MigTyped, Migrations, Phases
  <2> QED
    BY <2>1, <2>2
<1>2. CASE db' = [db EXCEPT ![mig.to] = Emptied(@, ts)] /\ mig' = [mig EXCEPT !.pc = p]
  <2> DEFINE d == Target
             e == Emptied(d, ts)
  <2>0. d \in Contents /\ Consistent(d)
    BY <1>0
  <2> HIDE DEF d
  <2>1. /\ e \in Contents /\ Consistent(e) /\ e.fks = d.fks /\ e.def = d.def
        /\ \A t \in Tables : e.rows[t] = IF t \in ts THEN {} ELSE d.rows[t]
        /\ \A t \in Tables : e.seq[t] = IF t \in ts THEN 1 ELSE d.seq[t]
    BY ZenonT(60), <2>0, EmptiedTyped
  <2>2. db' = [db EXCEPT ![mig.to] = e]
    BY <1>0, <1>2 DEF DbTyped, Target, d
  <2> HIDE DEF e
  <2>3. /\ DbTyped' /\ Target' = e /\ Existing(Target)' = Existing(Target)
        /\ \A s \in Services : s # mig.to => db'[s] = db[s]
    BY <1>0, <1>1, <2>1, <2>2, TargetReplaced DEF d
  <2>4. MigTyped'
    BY <1>1, <2>3 DEF MigTyped, Idle
  <2>5. mig'.refused = mig.refused
    BY <1>2 DEF MigTyped, Migrations
  <2> QED
    BY <1>1, <2>1, <2>3, <2>4, <2>5 DEF d
<1>3. CASE UNCHANGED db /\ mig' = [mig EXCEPT !.pc = p, !.refused = @ \cup {Current}]
  <2>1. Target' = Target
    BY <1>1, <1>3 DEF Target
  <2>2. Existing(Target)' = Existing(Target)
    BY <2>1 DEF Existing
  <2>3. MigTyped'
    BY <1>1, <2>2 DEF MigTyped, Idle
  <2>4. DbTyped' /\ mig'.refused = mig.refused \cup {Current}
    BY <1>3 DEF DbTyped, MigTyped, Migrations
  <2> QED
    BY <1>1, <1>3, <2>1, <2>3, <2>4
<1> QED
  BY <1>2, <1>3

LEMMA OpenStreamTyped ==
  ASSUME DbTyped, MigTyped, OpenStream, Current \in Tables
  PROVE  /\ DbTyped' /\ MigTyped' /\ UNCHANGED db
         /\ mig'.pc = "insert" /\ mig'.pending = db[mig.from].rows[Current]
         /\ \A t \in Tables : mig'.read[t] = IF t = Current THEN db[mig.from].rows[Current] ELSE mig.read[t]
<1> DEFINE rows == db[mig.from].rows[Current]
<1>0. db[mig.from] \in Contents /\ Consistent(db[mig.from]) /\ db' = db
  BY DEF DbTyped, MigTyped, Migrations, OpenStream
<1>1. rows \in SUBSET Rows /\ IsFiniteSet(rows)
  BY <1>0 DEF Contents, Consistent
<1>2. mig.pc = "open" /\ mig' = [mig EXCEPT !.pc = "insert", !.pending = rows, !.read[Current] = rows]
  BY DEF OpenStream
<1> HIDE DEF rows
<1>3. /\ mig' \in Migrations /\ mig'.to = mig.to /\ mig'.sel = mig.sel /\ mig'.left = mig.left /\ mig'.schema = mig.schema
      /\ mig'.pending = rows /\ mig'.pc = "insert"
      /\ \A t \in Tables : mig'.read[t] = IF t = Current THEN rows ELSE mig.read[t]
  BY <1>1, <1>2 DEF MigTyped, Migrations, Phases
<1>4. Existing(Target)' = Existing(Target)
  BY <1>0, <1>3 DEF Existing, Target
<1>5. MigTyped'
  BY <1>1, <1>2, <1>3, <1>4 DEF MigTyped, Idle
<1>6. DbTyped'
  BY <1>0 DEF DbTyped
<1> QED
  BY <1>0, <1>3, <1>5, <1>6 DEF rows
(* A batch is inserted whole, or its error ends the migration.              *)
LEMMA InsertTyped ==
  ASSUME DbTyped, MigTyped, NEW c, InsertBatch(c), Current \in Tables, Current \in mig.sel
  PROVE  /\ DbTyped' /\ MigTyped'
         /\ \/ Failed /\ UNCHANGED db
            \/ \E batch \in SUBSET mig.pending :
                 LET new == Converted(Current, batch)
                 IN  /\ new \in SUBSET Rows
                     /\ \A s \in Services : s # mig.to => db'[s] = db[s]
                     /\ mig' = [mig EXCEPT !.pending = @ \ batch]
                     /\ Target'.def = Target.def /\ Target'.fks = Target.fks
                     /\ \A t \in Tables : Target'.rows[t] = IF t = Current THEN Target.rows[t] \cup new ELSE Target.rows[t]
                     /\ \A t \in Tables : Target.seq[t] <= Target'.seq[t]
                     /\ Dir = "to_mysql" => \A r \in new : r.id.n < Target'.seq[Current]
<1>0. mig.to \in Services /\ Target \in Contents /\ Consistent(Target) /\ mig.pc = "insert"
  BY DEF DbTyped, MigTyped, Migrations, Target, InsertBatch
<1>1. PICK batch \in Batches :
        \/ Failed /\ UNCHANGED db
        \/ /\ ~Unacceptable(c, Current, Converted(Current, batch))
           /\ db' = [db EXCEPT ![mig.to] = Inserted(@, Current, Converted(Current, batch))]
           /\ mig' = [mig EXCEPT !.pending = @ \ batch]
  BY DEF InsertBatch
<1>2. CASE Failed /\ UNCHANGED db
  BY <1>2, FailedTyped, FS_EmptySet DEF DbTyped, MigTyped, Idle
<1>3. CASE /\ ~Unacceptable(c, Current, Converted(Current, batch))
           /\ db' = [db EXCEPT ![mig.to] = Inserted(@, Current, Converted(Current, batch))]
           /\ mig' = [mig EXCEPT !.pending = @ \ batch]
  <2> DEFINE new == Converted(Current, batch)
             d == Target
             e == Inserted(d, Current, new)
  <2>1. batch \in SUBSET mig.pending /\ mig.pending \in SUBSET Rows /\ IsFiniteSet(mig.pending)
    BY DEF Batches, MigTyped, Migrations
  <2>2. IsFiniteSet(batch) /\ batch \in SUBSET Rows /\ IsFiniteSet(mig.pending \ batch)
    BY <2>1, FS_Subset
  <2>3. new \in SUBSET Rows /\ IsFiniteSet(new)
    BY <2>2, ConvertedIsStored, StoredRows
  <2>4. \A r \in new : Refused \notin {r.id, r.val}
    BY <1>3 DEF Unacceptable, Violates
  <2>5. d \in Contents /\ Consistent(d) /\ Current \in Existing(d)
    BY <1>0 DEF MigTyped
  <2> HIDE DEF new, d
  <2>6. /\ e \in Contents /\ Consistent(e) /\ e.fks = d.fks /\ e.def = d.def
        /\ \A u \in Tables : e.rows[u] = IF u = Current THEN d.rows[Current] \cup new ELSE d.rows[u]
        /\ \A u \in Tables : d.seq[u] <= e.seq[u]
        /\ Dir = "to_mysql" => \A r \in new : r.id.n < e.seq[Current]
    BY ZenonT(60), <2>3, <2>4, <2>5, InsertedTyped
  <2>7. db' = [db EXCEPT ![mig.to] = e]
    BY <1>0, <1>3 DEF DbTyped, Target, d, new
  <2> HIDE DEF e
  <2>8. /\ mig' \in Migrations /\ mig'.to = mig.to /\ mig'.sel = mig.sel /\ mig'.left = mig.left
        /\ mig'.schema = mig.schema /\ mig'.pending = mig.pending \ batch /\ mig'.read = mig.read /\ mig'.pc = mig.pc
    BY <1>3, <2>1 DEF MigTyped, Migrations
  <2>9. /\ DbTyped' /\ Target' = e /\ Existing(Target)' = Existing(Target)
        /\ \A s \in Services : s # mig.to => db'[s] = db[s]
    BY <1>0, <2>6, <2>7, <2>8, TargetReplaced DEF d
  <2>10. MigTyped'
    BY <1>0, <2>2, <2>8, <2>9 DEF MigTyped, Idle
  <2>11. \E b \in SUBSET mig.pending :
           LET n == Converted(Current, b)
           IN  /\ n \in SUBSET Rows
               /\ \A s \in Services : s # mig.to => db'[s] = db[s]
               /\ mig' = [mig EXCEPT !.pending = @ \ b]
               /\ Target'.def = Target.def /\ Target'.fks = Target.fks
               /\ \A t \in Tables : Target'.rows[t] = IF t = Current THEN Target.rows[t] \cup n ELSE Target.rows[t]
               /\ \A t \in Tables : Target.seq[t] <= Target'.seq[t]
               /\ Dir = "to_mysql" => \A r \in n : r.id.n < Target'.seq[Current]
    <3> batch \in SUBSET mig.pending
      BY <2>1
    <3> WITNESS batch \in SUBSET mig.pending
    <3> QED
      BY <1>3, <2>1, <2>3, <2>6, <2>9 DEF new, d
  <2> QED
    BY <2>9, <2>10, <2>11
<1> QED
  BY <1>1, <1>2, <1>3

(* The next phase begins with all tables, in the order of their names.      *)
LEMMA PhaseTyped ==
  ASSUME DbTyped, DbTyped', MigTyped, NEW phase \in Phases \ {"idle", "failed", "introspect", "create", "done"},
         NEW next \in Phases \ {"idle", "failed", "introspect", "create"},
         mig.pc \in {"insert", "index", "setval", "fks"},
         \/ mig' = Advance(mig, phase, next)
         \/ \E un \in SUBSET Tables : mig' = Advance([mig EXCEPT !.unset = un], phase, next),
         Existing(Target)' = Existing(Target)
  PROVE  /\ MigTyped'
         /\ \/ mig.left \ {Current} # {} /\ Moved(phase, mig.left \ {Current})
            \/ mig.left \ {Current} = {} /\ Moved(next, IF next = "done" THEN {} ELSE mig.sel)
<1>1. \/ mig.left \ {Current} # {} /\ Moved(phase, mig.left \ {Current})
      \/ mig.left \ {Current} = {} /\ Moved(next, IF next = "done" THEN {} ELSE mig.sel)
  BY MovedOn DEF MigTyped
<1>2. mig.left \subseteq mig.sel /\ mig.left # {} /\ mig.sel \subseteq Existing(Target)
  BY DEF MigTyped, Idle
<1>3. MigTyped'
  BY <1>1, <1>2, MovedTyped DEF Idle
<1> QED
  BY <1>1, <1>3
(* What an end of a phase's table leaves alone.                             *)
LEMMA MovedKeeps ==
  ASSUME MigTyped, NEW p \in Phases, NEW l \in SUBSET Tables, Moved(p, l)
  PROVE  /\ mig'.pc = p /\ mig'.left = l /\ mig'.from = mig.from /\ mig'.to = mig.to /\ mig'.named = mig.named
         /\ mig'.sel = mig.sel /\ mig'.schema = mig.schema /\ mig'.fks = mig.fks /\ mig'.had = mig.had
         /\ mig'.read = mig.read /\ mig'.pending = mig.pending /\ mig'.refused = mig.refused /\ mig'.dirty = mig.dirty
BY DEF Moved, MigTyped, Migrations

LEMMA EndOfStreamTyped ==
  ASSUME DbTyped, MigTyped, EndOfStream
  PROVE  /\ DbTyped' /\ MigTyped' /\ UNCHANGED db
         /\ \/ mig.left \ {Current} # {} /\ Moved("truncate", mig.left \ {Current})
            \/ mig.left \ {Current} = {} /\ Dir = "to_pg" /\ Moved("index", mig.sel)
            \/ mig.left \ {Current} = {} /\ Dir = "to_mysql" /\ Moved("done", {})
<1> DEFINE next == IF Dir = "to_pg" THEN "index" ELSE "done"
<1>1. db' = db /\ mig.pc = "insert" /\ mig' = Advance(mig, "truncate", next) /\ mig \in Migrations
  BY DEF EndOfStream, MigTyped
<1>2. mig'.to = mig.to
  BY <1>1 DEF Advance, Migrations
<1>3. DbTyped' /\ Existing(Target)' = Existing(Target)
  BY <1>1, <1>2 DEF DbTyped, Existing, Target
<1>4. next \in {"index", "done"} /\ (next = "index" <=> Dir = "to_pg") /\ Dir \in {"to_pg", "to_mysql"}
  BY DEF Dir
<1> HIDE DEF next
<1>5. next \in Phases \ {"idle", "failed", "introspect", "create"}
      /\ "truncate" \in Phases \ {"idle", "failed", "introspect", "create", "done"}
  BY <1>4 DEF Phases
<1>6. /\ MigTyped'
      /\ \/ mig.left \ {Current} # {} /\ Moved("truncate", mig.left \ {Current})
         \/ mig.left \ {Current} = {} /\ Moved(next, IF next = "done" THEN {} ELSE mig.sel)
  BY <1>1, <1>3, <1>5, PhaseTyped
<1> QED
  BY <1>1, <1>3, <1>4, <1>6

LEMMA CreateIndexesTyped ==
  ASSUME DbTyped, MigTyped, CreateIndexes
  PROVE  /\ DbTyped' /\ MigTyped'
         /\ \A s \in Services : s # mig.to => db'[s] = db[s]
         /\ Target'.def = Target.def /\ Target'.fks = Target.fks /\ Target'.rows = Target.rows /\ Target'.seq = Target.seq
         /\ \/ mig.left \ {Current} # {} /\ Moved("index", mig.left \ {Current})
            \/ mig.left \ {Current} = {} /\ Moved("setval", mig.sel)
<1> DEFINE idx == Target.idx \cup {i \in mig.idx : i.table = Current /\ PgIndex(Target, i)}
           e == [Target EXCEPT !.idx = idx]
<1>0. mig.to \in Services /\ Target \in Contents /\ Consistent(Target) /\ mig \in Migrations
  BY DEF DbTyped, MigTyped, Migrations, Target
<1>1. idx \in SUBSET Indexes
  BY <1>0 DEF Contents, Migrations
<1>2. mig.pc = "index" /\ mig' = Advance(mig, "index", "setval") /\ db' = [db EXCEPT ![mig.to] = e]
  BY <1>0 DEF CreateIndexes, DbTyped, Target
<1> HIDE DEF idx
<1>3. /\ e \in Contents /\ e.def = Target.def /\ e.fks = Target.fks /\ e.rows = Target.rows /\ e.seq = Target.seq
  BY <1>0, <1>1 DEF Contents
<1> HIDE DEF e
<1>4. Consistent(e)
  BY <1>0, <1>3 DEF Consistent, Existing
<1>5. mig'.to = mig.to
  BY <1>0, <1>2 DEF Advance, Migrations
<1>6. /\ DbTyped' /\ Target' = e /\ Existing(Target)' = Existing(Target)
      /\ \A s \in Services : s # mig.to => db'[s] = db[s]
  BY <1>0, <1>2, <1>3, <1>4, <1>5, TargetReplaced
<1>7. "index" \in Phases \ {"idle", "failed", "introspect", "create", "done"}
      /\ "setval" \in Phases \ {"idle", "failed", "introspect", "create"}
  BY DEF Phases
<1>8. /\ MigTyped'
      /\ \/ mig.left \ {Current} # {} /\ Moved("index", mig.left \ {Current})
         \/ mig.left \ {Current} = {} /\ Moved("setval", IF "setval" = "done" THEN {} ELSE mig.sel)
  BY <1>2, <1>6, <1>7, PhaseTyped
<1> QED
  BY <1>3, <1>6, <1>8

(* After setval the next id is above those of the table.                    *)
LEMMA SequenceSet ==
  ASSUME DbTyped, MigTyped, mig.pc = "setval", Current \in Tables, mig' = Advance(mig, "setval", "fks"),
         LET ids == {r.id.n : r \in Target.rows[Current]}
         IN  db' = IF mig.schema[Current].id.auto /\ Target.def[Current].id.auto
                   THEN [db EXCEPT ![mig.to].seq[Current] = (IF ids = {} THEN 1 ELSE Max(ids)) + 1]
                   ELSE db
  PROVE  /\ DbTyped' /\ MigTyped'
         /\ \A s \in Services : s # mig.to => db'[s] = db[s]
         /\ Target'.def = Target.def /\ Target'.fks = Target.fks /\ Target'.rows = Target.rows
         /\ \A t \in Tables : t # Current => Target'.seq[t] = Target.seq[t]
         /\ mig.schema[Current].id.auto /\ Target.def[Current].id.auto =>
              \A r \in Target.rows[Current] : r.id.n < Target'.seq[Current]
         /\ ~(mig.schema[Current].id.auto /\ Target.def[Current].id.auto) => UNCHANGED db
         /\ mig'.unset = mig.unset
         /\ \/ mig.left \ {Current} # {} /\ Moved("setval", mig.left \ {Current})
            \/ mig.left \ {Current} = {} /\ Moved("fks", mig.sel)
<1> DEFINE t == Current
           ids == {r.id.n : r \in Target.rows[t]}
           n == (IF ids = {} THEN 1 ELSE Max(ids)) + 1
           both == mig.schema[t].id.auto /\ Target.def[t].id.auto
           seq == IF both THEN [Target.seq EXCEPT ![t] = n] ELSE Target.seq
           e == [Target EXCEPT !.seq = seq]
<1>0. mig.to \in Services /\ Target \in Contents /\ Consistent(Target) /\ mig \in Migrations
  BY DEF DbTyped, MigTyped, Migrations, Target
<1>1. n \in Nat /\ \A r \in Target.rows[t] : r.id.n < n
  <2>1. Target.rows[t] \in SUBSET Rows /\ IsFiniteSet(Target.rows[t])
    BY <1>0 DEF Contents, Consistent
  <2>2. ids \in SUBSET Nat /\ IsFiniteSet(ids) /\ \A r \in Target.rows[t] : r.id.n \in ids
    BY <2>1, IdsFinite
  <2> HIDE DEF ids
  <2>3. CASE ids = {}
    BY <2>2, <2>3
  <2>4. CASE ids # {}
    <3>1. Max(ids) \in Nat /\ \A y \in ids : y \in Nat /\ y <= Max(ids)
      BY <2>2, <2>4, MaxIsGreatest
    <3>2. \A r \in Target.rows[t] : r.id.n \in Nat /\ r.id.n <= Max(ids)
      BY <2>2, <3>1
    <3>3. n = Max(ids) + 1
      BY <2>4
    <3> HIDE DEF n
    <3> QED
      BY <3>1, <3>2, <3>3
  <2> QED
    BY <2>3, <2>4
<1>2. mig.pc = "setval" /\ mig' = Advance(mig, "setval", "fks")
      /\ db' = IF both THEN [db EXCEPT ![mig.to].seq[t] = n] ELSE db
  OBVIOUS
<1> HIDE DEF n, t
<1>3. Target.seq \in [Tables -> Nat] /\ t \in Tables
  BY <1>0 DEF Contents, t
<1>4. /\ seq \in [Tables -> Nat] /\ \A u \in Tables : u # t => seq[u] = Target.seq[u]
      /\ both => seq[t] = n
      /\ ~both => seq = Target.seq
  BY <1>1, <1>3
<1>5. db' = [db EXCEPT ![mig.to] = e]
  <2>1. CASE both
    BY <1>0, <1>2, <2>1 DEF DbTyped, Target
  <2>2. CASE ~both
    BY <1>0, <1>2, <2>2 DEF DbTyped, Target, Contents
  <2> QED
    BY <2>1, <2>2
<1> HIDE DEF seq
<1>6. /\ e \in Contents /\ e.def = Target.def /\ e.fks = Target.fks /\ e.rows = Target.rows /\ e.seq = seq
  BY <1>0, <1>4 DEF Contents
<1> HIDE DEF e
<1>7. Consistent(e)
  BY <1>0, <1>6 DEF Consistent, Existing
<1>8. mig'.to = mig.to /\ mig'.unset = mig.unset
  BY <1>0, <1>2 DEF Advance, Migrations
<1>9. /\ DbTyped' /\ Target' = e /\ Existing(Target)' = Existing(Target)
      /\ \A s \in Services : s # mig.to => db'[s] = db[s]
  BY <1>0, <1>5, <1>6, <1>7, <1>8, TargetReplaced
<1>10. "setval" \in Phases \ {"idle", "failed", "introspect", "create", "done"}
      /\ "fks" \in Phases \ {"idle", "failed", "introspect", "create"}
  BY DEF Phases
<1>11. /\ MigTyped'
      /\ \/ mig.left \ {Current} # {} /\ Moved("setval", mig.left \ {Current})
         \/ mig.left \ {Current} = {} /\ Moved("fks", IF "fks" = "done" THEN {} ELSE mig.sel)
  BY <1>2, <1>9, <1>10, PhaseTyped
<1>12. /\ \A u \in Tables : u # t => Target'.seq[u] = Target.seq[u]
       /\ both => \A r \in Target.rows[t] : r.id.n < Target'.seq[t]
  BY <1>1, <1>4, <1>6, <1>9
<1> QED
  BY <1>2, <1>6, <1>8, <1>9, <1>11, <1>12 DEF t

(* If it fails, the table is noted.                                         *)
LEMMA SequenceNotSet ==
  ASSUME DbTyped, MigTyped, mig.pc = "setval", Current \in Tables, db' = db,
         mig' = Advance([mig EXCEPT !.unset = @ \cup {Current}], "setval", "fks")
  PROVE  /\ DbTyped' /\ MigTyped' /\ Target' = Target
         /\ mig'.unset = mig.unset \cup {Current}
         /\ \/ mig.left \ {Current} # {} /\ Moved("setval", mig.left \ {Current})
            \/ mig.left \ {Current} = {} /\ Moved("fks", mig.sel)
<1> DEFINE un == mig.unset \cup {Current}
<1>1. mig \in Migrations /\ un \in SUBSET Tables
  BY DEF MigTyped, Migrations
<1>2. mig' = Advance([mig EXCEPT !.unset = un], "setval", "fks")
  BY <1>1 DEF Migrations
<1>3. mig'.unset = un /\ mig'.to = mig.to
  BY <1>1, <1>2 DEF Advance, Migrations
<1>4. Target' = Target /\ DbTyped'
  BY <1>3 DEF Target, DbTyped
<1>5. Existing(Target)' = Existing(Target)
  BY <1>4 DEF Existing
<1>6. "setval" \in Phases \ {"idle", "failed", "introspect", "create", "done"}
      /\ "fks" \in Phases \ {"idle", "failed", "introspect", "create"}
  BY DEF Phases
<1>7. /\ MigTyped'
      /\ \/ mig.left \ {Current} # {} /\ Moved("setval", mig.left \ {Current})
         \/ mig.left \ {Current} = {} /\ Moved("fks", IF "fks" = "done" THEN {} ELSE mig.sel)
  BY <1>1, <1>2, <1>4, <1>5, <1>6, PhaseTyped
<1> QED
  BY <1>3, <1>4, <1>7

LEMMA SetSequenceTyped ==
  ASSUME DbTyped, MigTyped, SetSequence, Current \in Tables
  PROVE  /\ DbTyped' /\ MigTyped'
         /\ \A s \in Services : s # mig.to => db'[s] = db[s]
         /\ Target'.def = Target.def /\ Target'.fks = Target.fks /\ Target'.rows = Target.rows
         /\ \A t \in Tables : t # Current => Target'.seq[t] = Target.seq[t]
         /\ mig.unset \subseteq mig'.unset
         /\ \/ /\ UNCHANGED db
               /\ mig.schema[Current].id.auto /\ Target.def[Current].id.auto => Current \in mig'.unset
            \/ \A r \in Target.rows[Current] : r.id.n < Target'.seq[Current]
         /\ \/ mig.left \ {Current} # {} /\ Moved("setval", mig.left \ {Current})
            \/ mig.left \ {Current} = {} /\ Moved("fks", mig.sel)
<1> DEFINE set == LET ids == {r.id.n : r \in Target.rows[Current]}
                  IN  db' = IF mig.schema[Current].id.auto /\ Target.def[Current].id.auto
                            THEN [db EXCEPT ![mig.to].seq[Current] = (IF ids = {} THEN 1 ELSE Max(ids)) + 1]
                            ELSE db
<1>1. /\ mig.pc = "setval"
      /\ \/ set /\ mig' = Advance(mig, "setval", "fks")
         \/ db' = db /\ mig' = Advance([mig EXCEPT !.unset = @ \cup {Current}], "setval", "fks")
  BY ZenonT(60) DEF SetSequence
<1>2. CASE set /\ mig' = Advance(mig, "setval", "fks")
  BY <1>1, <1>2, SequenceSet
<1>3. CASE db' = db /\ mig' = Advance([mig EXCEPT !.unset = @ \cup {Current}], "setval", "fks")
  BY <1>1, <1>3, SequenceNotSet
<1> HIDE DEF set
<1> QED
  BY <1>1, <1>2, <1>3
LEMMA AddForeignKeysTyped ==
  ASSUME DbTyped, MigTyped, AddForeignKeys
  PROVE  /\ DbTyped' /\ MigTyped'
         /\ \A s \in Services : s # mig.to => db'[s] = db[s]
         /\ Target'.def = Target.def /\ Target'.rows = Target.rows /\ Target'.seq = Target.seq
         /\ Target'.fks = Target.fks \cup {e \in ByColumn(mig.fks) : e[1] = Current /\ PgForeignKey(Target, e)}
         /\ mig'.unset = mig.unset
         /\ \/ mig.left \ {Current} # {} /\ Moved("fks", mig.left \ {Current})
            \/ mig.left \ {Current} = {} /\ Moved("done", {})
<1> DEFINE new == {f \in ByColumn(mig.fks) : f[1] = Current /\ PgForeignKey(Target, f)}
           e == [Target EXCEPT !.fks = Target.fks \cup new]
<1>0. mig.to \in Services /\ Target \in Contents /\ Consistent(Target) /\ mig \in Migrations
  BY DEF DbTyped, MigTyped, Migrations, Target
<1>1. new \in SUBSET ForeignKeys /\ \A f \in new : {f[1], f[2]} \subseteq Existing(Target)
  <2>1. mig.fks \in SUBSET ForeignKeys
    BY <1>0 DEF Migrations
  <2>2. ByColumn(mig.fks) \in SUBSET ForeignKeys
    BY <2>1 DEF ByColumn, ForeignKeys
  <2> QED
    BY <2>2 DEF PgForeignKey, CanReference
<1>2. mig.pc = "fks" /\ mig' = Advance(mig, "fks", "done") /\ db' = [db EXCEPT ![mig.to] = e]
  BY <1>0 DEF AddForeignKeys, DbTyped, Target
<1> HIDE DEF new
<1>3. /\ e \in Contents /\ e.def = Target.def /\ e.fks = Target.fks \cup new /\ e.rows = Target.rows /\ e.seq = Target.seq
  BY <1>0, <1>1 DEF Contents
<1> HIDE DEF e
<1>4. Consistent(e)
  BY <1>0, <1>1, <1>3 DEF Consistent, Existing
<1>5. mig'.to = mig.to /\ mig'.unset = mig.unset
  BY <1>0, <1>2 DEF Advance, Migrations
<1>6. /\ DbTyped' /\ Target' = e /\ Existing(Target)' = Existing(Target)
      /\ \A s \in Services : s # mig.to => db'[s] = db[s]
  BY <1>0, <1>2, <1>3, <1>4, <1>5, TargetReplaced
<1>7. "fks" \in Phases \ {"idle", "failed", "introspect", "create", "done"}
      /\ "done" \in Phases \ {"idle", "failed", "introspect", "create"}
  BY DEF Phases
<1>8. /\ MigTyped'
      /\ \/ mig.left \ {Current} # {} /\ Moved("fks", mig.left \ {Current})
         \/ mig.left \ {Current} = {} /\ Moved("done", IF "done" = "done" THEN {} ELSE mig.sel)
  BY <1>2, <1>6, <1>7, PhaseTyped
<1> QED
  BY <1>3, <1>5, <1>6, <1>8 DEF new

LEMMA FailedKeepsTypes ==
  ASSUME DbTyped, MigTyped, Failed, UNCHANGED db
  PROVE  DbTyped' /\ MigTyped'
BY FailedTyped, FS_EmptySet DEF DbTyped, MigTyped, Idle

(* What a write of the source's application does beside the write. *)
LEMMA SourceWriteCounts ==
  SourceWrite => /\ writes < MaxWrites /\ writes' = writes + 1 /\ UNCHANGED runs
                 /\ mig' = [mig EXCEPT !.dirty = TRUE]
BY ZenonT(60) DEF SourceWrite

(* A write of the source's application: one table of the source gains or    *)
(* loses a row, and its next id is spent.                                   *)
LEMMA SourceWriteTyped ==
  ASSUME DbTyped, MigTyped, SourceWrite
  PROVE  /\ DbTyped' /\ MigTyped' /\ mig' = [mig EXCEPT !.dirty = TRUE]
         /\ \A s \in Services : s # mig.from => db'[s] = db[s]
         /\ \A s \in Services : db'[s].def = db[s].def /\ db'[s].fks = db[s].fks
         /\ \A s \in Services, t \in Tables : IdsFree(db[s], t) => IdsFree(db'[s], t)
<1> DEFINE d == db[mig.from]
<1>0. mig.from \in Services /\ mig.to \in Services /\ d \in Contents /\ Consistent(d) /\ mig \in Migrations
  BY ZenonT(60) DEF DbTyped, MigTyped, Migrations
<1>1. mig' = [mig EXCEPT !.dirty = TRUE]
  BY SourceWriteCounts
<1>2. PICK t \in Existing(d) :
        \/ \E r \in d.rows[t] : db' = [db EXCEPT ![mig.from].rows[t] = @ \ {r}]
        \/ \E r \in d.rows[t], ref \in {0} \cup UNION {{p.id.n : p \in d.rows[e[2]]} : e \in {f \in d.fks : f[1] = t}} :
             LET new == [id |-> Value("int", d.seq[t]), ref |-> ref, val |-> r.val]
             IN  /\ ~Violates(d, t, {new})
                 /\ db' = [db EXCEPT ![mig.from].rows[t] = @ \cup {new}, ![mig.from].seq[t] = @ + 1]
  BY ZenonT(60) DEF SourceWrite
<1> HIDE DEF d
<1>3. t \in Tables /\ d.rows \in [Tables -> SUBSET Rows] /\ d.seq \in [Tables -> Nat]
  BY <1>0 DEF Existing, Contents
<1>4. \E rows \in [Tables -> SUBSET Rows], seq \in [Tables -> Nat] :
        /\ RowsFit(d, rows) /\ db' = [db EXCEPT ![mig.from] = WithRows(d, rows, seq)]
        /\ \A u \in Tables : \A r \in rows[u] : r \in d.rows[u] \/ r.id.n < seq[u]
        /\ \A u \in Tables : d.seq[u] <= seq[u]
  <2>1. CASE \E r \in d.rows[t] : db' = [db EXCEPT ![mig.from].rows[t] = @ \ {r}]
    <3>1. PICK r \in d.rows[t] : db' = [db EXCEPT ![mig.from].rows[t] = @ \ {r}]
      BY <2>1
    <3> DEFINE rows == [d.rows EXCEPT ![t] = @ \ {r}]
    <3>2. rows \in [Tables -> SUBSET Rows] /\ \A u \in Tables : rows[u] \subseteq d.rows[u]
      BY <1>3
    <3>3. db' = [db EXCEPT ![mig.from] = WithRows(d, rows, d.seq)]
      BY <1>0, <1>3, <3>1 DEF WithRows, d, DbTyped, Contents
    <3> HIDE DEF rows
    <3>4. \A u \in Tables : IsFiniteSet(rows[u])
      BY <1>0, <3>2, FS_Subset DEF Consistent
    <3>5. RowsFit(d, rows)
      BY <1>0, <3>2, <3>4 DEF Consistent, RowsFit
    <3>6. \A u \in Tables : d.seq[u] <= d.seq[u]
      BY <1>3
    <3> QED
      BY <1>3, <3>2, <3>3, <3>5, <3>6
  <2>2. CASE \E r \in d.rows[t], ref \in {0} \cup UNION {{p.id.n : p \in d.rows[e[2]]} : e \in {f \in d.fks : f[1] = t}} :
             LET new == [id |-> Value("int", d.seq[t]), ref |-> ref, val |-> r.val]
             IN  /\ ~Violates(d, t, {new})
                 /\ db' = [db EXCEPT ![mig.from].rows[t] = @ \cup {new}, ![mig.from].seq[t] = @ + 1]
    <3>1. PICK r \in d.rows[t], ref \in {0} \cup UNION {{p.id.n : p \in d.rows[e[2]]} : e \in {f \in d.fks : f[1] = t}} :
             LET new == [id |-> Value("int", d.seq[t]), ref |-> ref, val |-> r.val]
             IN  /\ ~Violates(d, t, {new})
                 /\ db' = [db EXCEPT ![mig.from].rows[t] = @ \cup {new}, ![mig.from].seq[t] = @ + 1]
      BY <2>2
    <3> DEFINE new == [id |-> Value("int", d.seq[t]), ref |-> ref, val |-> r.val]
               rows == [d.rows EXCEPT ![t] = @ \cup {new}]
               seq == [d.seq EXCEPT ![t] = @ + 1]
    <3>2. ref \in Nat
      <4>1. \A e \in d.fks : e[2] \in Tables
        BY <1>0 DEF Contents, ForeignKeys
      <4>2. \A e \in d.fks : \A p \in d.rows[e[2]] : p.id.n \in Nat
        BY <1>3, <4>1 DEF Rows, Cells
      <4> QED
        BY <4>2
    <3>3. new \in Rows /\ new.id.n = d.seq[t] /\ Refused \notin {new.id, new.val}
      BY ZenonT(60), <1>3, <3>1, <3>2 DEF Rows, Cells, CellKinds, Value, Violates
    <3>4. db' = [db EXCEPT ![mig.from] = WithRows(d, rows, seq)]
      BY <1>0, <1>3, <3>1 DEF WithRows, d, DbTyped, Contents
    <3> HIDE DEF new
    <3>5. /\ rows \in [Tables -> SUBSET Rows] /\ seq \in [Tables -> Nat]
          /\ \A u \in Tables : rows[u] = IF u = t THEN d.rows[u] \cup {new} ELSE d.rows[u]
          /\ \A u \in Tables : seq[u] = IF u = t THEN d.seq[u] + 1 ELSE d.seq[u]
      <4>1. rows \in [Tables -> SUBSET Rows] /\ \A u \in Tables : rows[u] = IF u = t THEN d.rows[u] \cup {new} ELSE d.rows[u]
        BY <1>3, <3>3
      <4>2. d.seq[t] + 1 \in Nat
        BY <1>3
      <4>3. seq \in [Tables -> Nat] /\ \A u \in Tables : seq[u] = IF u = t THEN d.seq[u] + 1 ELSE d.seq[u]
        BY <1>3, <4>2
      <4> QED
        BY <4>1, <4>3
    <3> HIDE DEF rows, seq
    <3>6. IsFiniteSet(d.rows[t] \cup {new})
      BY <1>0, <1>3, FS_Union, FS_Singleton DEF Consistent
    <3>7. RowsFit(d, rows)
      BY ZenonT(60), <1>0, <1>2, <3>3, <3>5, <3>6 DEF Consistent, RowsFit
    <3>8. \A u \in Tables : d.seq[u] <= seq[u] /\ d.seq[u] \in Nat
      BY <1>3, <3>5
    <3>9. new.id.n < seq[t]
      BY <1>3, <3>3, <3>5
    <3>10. \A u \in Tables : \A q \in rows[u] : q \in d.rows[u] \/ q.id.n < seq[u]
      BY <3>5, <3>9
    <3> QED
      BY <3>4, <3>5, <3>7, <3>8, <3>10
  <2> QED
    BY ZenonT(60), <1>2, <2>1, <2>2
<1>5. PICK rows \in [Tables -> SUBSET Rows], seq \in [Tables -> Nat] :
        /\ RowsFit(d, rows) /\ db' = [db EXCEPT ![mig.from] = WithRows(d, rows, seq)]
        /\ \A u \in Tables : \A r \in rows[u] : r \in d.rows[u] \/ r.id.n < seq[u]
        /\ \A u \in Tables : d.seq[u] <= seq[u]
  BY <1>4
<1> DEFINE e == WithRows(d, rows, seq)
<1>6. e \in Contents /\ Consistent(e) /\ e.rows = rows /\ e.seq = seq /\ e.fks = d.fks /\ e.def = d.def
  BY <1>0, <1>5, RowsReplaced
<1> HIDE DEF e
<1>7. db' = [db EXCEPT ![mig.from] = e]
  BY <1>5 DEF e
<1>8. DbTyped'
  BY <1>0, <1>6, <1>7, ServiceReplaced
<1>9. db' \in [Services -> Contents] /\ \A s \in Services : db'[s] = IF s = mig.from THEN e ELSE db[s]
  BY <1>7, <1>8 DEF DbTyped
<1>10. \A s \in Services : db'[s].def = db[s].def /\ db'[s].fks = db[s].fks
  BY <1>6, <1>9 DEF d
<1>11. /\ mig' \in Migrations /\ mig'.to = mig.to /\ mig'.sel = mig.sel /\ mig'.left = mig.left
       /\ mig'.schema = mig.schema /\ mig'.pending = mig.pending /\ mig'.read = mig.read /\ mig'.pc = mig.pc
  BY <1>0, <1>1 DEF Migrations
<1>12. Existing(Target)' = Existing(Target)
  BY <1>0, <1>10, <1>11 DEF Existing, Target
<1>13. MigTyped'
  BY <1>11, <1>12 DEF MigTyped, Idle
<1>14. \A u \in Tables : IdsFree(d, u) => IdsFree(e, u)
  <2> SUFFICES ASSUME NEW u \in Tables, IdsFree(d, u), e.def[u].id.auto, NEW r \in e.rows[u]
               PROVE  r.id.n < e.seq[u]
    BY DEF IdsFree
  <2>1. d.seq[u] \in Nat /\ seq[u] \in Nat /\ d.seq[u] <= seq[u] /\ r \in Rows /\ r.id.n \in Nat
    BY <1>3, <1>5, <1>6 DEF Rows, Cells
  <2>2. r \in d.rows[u] => r.id.n < d.seq[u]
    BY <1>6 DEF IdsFree
  <2> QED
    BY <1>5, <1>6, <2>1, <2>2
<1>15. \A s \in Services, u \in Tables : IdsFree(db[s], u) => IdsFree(db'[s], u)
  BY <1>9, <1>14 DEF d
<1> QED
  BY <1>1, <1>8, <1>9, <1>10, <1>13, <1>15
LEMMA TypeParts == MigrateTypeOK <=> DbTyped /\ MigTyped /\ runs \in 0 .. MaxRuns /\ writes \in 0 .. MaxWrites
BY DEF MigrateTypeOK, DbTyped, MigTyped

LEMMA ReachedTables ==
  ASSUME NEW fks, NEW t \in Tables
  PROVE  Reaching(fks, t) \in SUBSET Tables /\ t \in Reaching(fks, t)
BY DEF Reaching

(* The steps of TRUNCATE, as TruncateTyped has them.                        *)
LEMMA TruncateSteps ==
  ASSUME TruncatePg \/ \E c \in Conns : TruncateMysql(c), Current \in Tables
  PROVE  \E ts \in SUBSET Tables, p \in {"open", "checks on"} :
           /\ \/ mig.pc = "truncate" /\ Dir = "to_pg" /\ ts = Reaching(Target.fks, Current) /\ p = "open"
              \/ mig.pc = "checks off" /\ ts = {Current} /\ p = "checks on"
           /\ \/ /\ db' = [db EXCEPT ![mig.to] = Emptied(@, ts)]
                 /\ mig' = [mig EXCEPT !.pc = p]
              \/ /\ UNCHANGED db
                 /\ mig' = [mig EXCEPT !.pc = p, !.refused = @ \cup {Current}]
<1>1. CASE TruncatePg
  <2>1. Reaching(Target.fks, Current) \in SUBSET Tables
    BY ReachedTables
  <2> QED
    BY <1>1, <2>1 DEF TruncatePg, Target
<1>2. CASE \E c \in Conns : TruncateMysql(c)
  BY <1>2 DEF TruncateMysql
<1> QED
  BY <1>1, <1>2

LEMMA NextTyped ==
  ASSUME MigrateTypeOK, [Next]_vars
  PROVE  MigrateTypeOK'
<1>0. DbTyped /\ MigTyped /\ runs \in 0 .. MaxRuns /\ writes \in 0 .. MaxWrites /\ MaxRuns \in Nat /\ MaxWrites \in Nat
  BY TypeParts, MigrateAssumption
<1>1. ASSUME NEW list \in Detected, NEW from \in Services, NEW to \in Services, NEW filter \in Filters,
             Start(list, from, to, filter)
      PROVE  DbTyped' /\ MigTyped' /\ runs' \in 0 .. MaxRuns /\ writes' \in 0 .. MaxWrites
  <2>1. runs' \in 0 .. MaxRuns /\ writes' \in 0 .. MaxWrites
    BY <1>0, <1>1 DEF Start
  <2> QED
    BY <1>0, <1>1, <2>1, StartTyped
<1>2. ASSUME MigrationStep
      PROVE  DbTyped' /\ MigTyped' /\ UNCHANGED <<runs, writes>>
  <2>1. CASE Introspect
    BY <1>0, <2>1, IntrospectTyped DEF Introspect
  <2>2. CASE Create
    BY <1>0, <2>2, CreateTyped DEF Create
  <2>3. CASE OpenStream
    <3>1. Current \in Tables
      BY <2>3, CurrentIsLeft DEF OpenStream, Idle
    <3> QED
      BY <1>0, <2>3, <3>1, OpenStreamTyped DEF OpenStream
  <2>4. CASE EndOfStream
    BY SMTT(60), <1>0, <2>4, EndOfStreamTyped DEF EndOfStream
  <2>5. CASE \E c \in Conns : ChecksOff(c) \/ ChecksOn(c)
    BY ZenonT(60), <1>0, <2>5, ChecksTyped DEF ChecksOff, ChecksOn
  <2>6. CASE TruncatePg \/ \E c \in Conns : TruncateMysql(c)
    <3>1. Current \in Tables
      BY <2>6, CurrentIsLeft DEF TruncatePg, TruncateMysql, Idle
    <3>2. PICK ts \in SUBSET Tables, p \in {"open", "checks on"} :
            /\ \/ mig.pc = "truncate" /\ Dir = "to_pg" /\ ts = Reaching(Target.fks, Current) /\ p = "open"
               \/ mig.pc = "checks off" /\ ts = {Current} /\ p = "checks on"
            /\ \/ /\ db' = [db EXCEPT ![mig.to] = Emptied(@, ts)]
                  /\ mig' = [mig EXCEPT !.pc = p]
               \/ /\ UNCHANGED db
                  /\ mig' = [mig EXCEPT !.pc = p, !.refused = @ \cup {Current}]
      BY <2>6, <3>1, TruncateSteps
    <3>3. DbTyped' /\ MigTyped'
      BY <1>0, <3>1, <3>2, TruncateTyped
    <3>4. UNCHANGED <<runs, writes>>
      BY <2>6 DEF TruncatePg, TruncateMysql
    <3> QED
      BY <3>3, <3>4
  <2>7. CASE \E c \in Conns : InsertBatch(c)
    <3>1. PICK c \in Conns : InsertBatch(c)
      BY <2>7
    <3>2. Current \in Tables /\ Current \in mig.sel
      BY <3>1, CurrentIsLeft DEF InsertBatch, Idle
    <3> QED
      BY <1>0, <3>1, <3>2, InsertTyped DEF InsertBatch
  <2>8. CASE CreateIndexes
    BY <1>0, <2>8, CreateIndexesTyped DEF CreateIndexes
  <2>9. CASE SetSequence
    <3>1. Current \in Tables
      BY <2>9, CurrentIsLeft DEF SetSequence, Idle
    <3> QED
      BY <1>0, <2>9, <3>1, SetSequenceTyped DEF SetSequence
  <2>10. CASE AddForeignKeys
    BY <1>0, <2>10, AddForeignKeysTyped DEF AddForeignKeys
  <2> QED
    BY <1>2, <2>1, <2>2, <2>3, <2>4, <2>5, <2>6, <2>7, <2>8, <2>9, <2>10 DEF MigrationStep
<1>3. ASSUME Interrupt
      PROVE  DbTyped' /\ MigTyped' /\ runs' \in 0 .. MaxRuns /\ writes' \in 0 .. MaxWrites
  BY <1>0, <1>3, FailedKeepsTypes DEF Interrupt
<1>4. ASSUME SourceWrite
      PROVE  DbTyped' /\ MigTyped' /\ runs' \in 0 .. MaxRuns /\ writes' \in 0 .. MaxWrites
  <2>1. runs' \in 0 .. MaxRuns /\ writes' \in 0 .. MaxWrites
    BY <1>0, <1>4, SourceWriteCounts
  <2> QED
    BY SMTT(60), <1>0, <1>4, <2>1, SourceWriteTyped
<1>5. ASSUME UNCHANGED vars
      PROVE  DbTyped' /\ MigTyped' /\ runs' \in 0 .. MaxRuns /\ writes' \in 0 .. MaxWrites
  <2>1. db' = db /\ mig' = mig /\ runs' = runs /\ writes' = writes
    BY <1>5 DEF vars
  <2>2. Existing(Target)' = Existing(Target)
    BY <2>1 DEF Existing, Target
  <2>3. DbTyped' /\ MigTyped'
    BY <1>0, <2>1, <2>2 DEF DbTyped, MigTyped, Idle
  <2> QED
    BY <1>0, <2>1, <2>3
<1>6. DbTyped' /\ MigTyped' /\ runs' \in 0 .. MaxRuns /\ writes' \in 0 .. MaxWrites
  BY <1>0, <1>1, <1>2, <1>3, <1>4, <1>5 DEF Next
<1> QED
  BY <1>6 DEF MigrateTypeOK, DbTyped, MigTyped

LEMMA InitTyped ==
  ASSUME Init
  PROVE  MigrateTypeOK
<1>1. DbTyped
  BY MigrateAssumption DEF Init, DbTyped
<1>2. (CHOOSE s \in Services : TRUE) \in Services
  BY MigrateAssumption
<1>3. NoTable \in TableDefs
  BY DEF NoTable, NoColumn, TableDefs, ColumnDefs, ColumnTypes
<1>4. mig \in Migrations /\ mig.pc = "idle" /\ mig.pending = {} /\ mig.read = [t \in Tables |-> {}]
  BY <1>2, <1>3 DEF Init, NoMigration, Migrations, Phases
<1>5. MigTyped
  BY <1>4, FS_EmptySet DEF MigTyped, Idle
<1>6. runs \in 0 .. MaxRuns /\ writes \in 0 .. MaxWrites
  BY MigrateAssumption DEF Init
<1> QED
  BY <1>1, <1>5, <1>6, TypeParts

(* Every variable has its type; rows belong to tables that exist, and a     *)
(* migration under way works on tables of its own selection, which the      *)
(* target has from its first TRUNCATE on (db/migrate.rs:123-306).           *)
THEOREM MigrateTypeCorrect == Spec => []MigrateTypeOK
<1>1. Init => MigrateTypeOK
  BY InitTyped
<1>2. MigrateTypeOK /\ [Next]_vars => MigrateTypeOK'
  BY NextTyped
<1> QED
  BY <1>1, <1>2, PTL DEF Spec
------------------------------------------------------------------------------
(* What a migration touches.                                                *)

(* A step of a migration either ends it in an error with the databases as   *)
(* they were, or keeps its services, its selection and what it knows of the *)
(* schema, and changes the target only: its tables while they are created,  *)
(* its rows by TRUNCATE and INSERT, its foreign keys last.                  *)
Kept ==
  /\ mig'.from = mig.from /\ mig'.to = mig.to /\ mig'.named = mig.named /\ mig'.dirty = mig.dirty
  /\ mig.pc \notin {"idle", "failed", "done"} /\ mig'.pc \notin {"idle", "failed", "introspect"}
  /\ mig.pc # "introspect" =>
       /\ mig'.sel = mig.sel /\ mig'.schema = mig.schema /\ mig'.had = mig.had /\ mig'.fks = mig.fks
  /\ mig.pc = "fks" => mig'.pc \in {"fks", "done"}
  /\ \A s \in Services : s # mig.to => db'[s] = db[s]
  /\ mig.pc # "create" => Target'.def = Target.def
  /\ mig.pc # "fks" => Target'.fks = Target.fks
  /\ \/ \A t \in Tables : Target.rows[t] \subseteq Target'.rows[t]
     \/ /\ mig.pc \in {"truncate", "checks off"}
        /\ \A t \in Tables : t \notin Reaching(Target.fks, Current) => Target'.rows[t] = Target.rows[t]
LEMMA StepKeeps ==
  ASSUME MigrateTypeOK, MigrationStep
  PROVE  (Failed /\ UNCHANGED db) \/ Kept
<1>0. DbTyped /\ MigTyped
  BY TypeParts
<1>1. mig \in Migrations /\ mig.to \in Services /\ mig.sel \in SUBSET Tables /\ mig.left \in SUBSET Tables /\ db \in [Services -> Contents]
  BY <1>0 DEF MigTyped, Migrations, DbTyped
<1>2. CASE Introspect
  <2>1. mig.pc = "introspect" /\ mig'.pc \in {"done", "create"} /\ mig'.to = mig.to /\ db' = db
    BY <1>0, <1>2, IntrospectTyped DEF Introspect
  <2>2. Target' = Target
    BY <2>1 DEF Target
  <2> QED
    BY <1>0, <1>2, <2>1, <2>2, IntrospectTyped DEF Kept
<1>3. CASE Create
  <2>1. mig.pc = "create"
    BY <1>3 DEF Create
  <2>2. CASE Failed /\ UNCHANGED db
    BY <2>2
  <2>3. CASE /\ \/ Moved("create", mig.left \ {Current})
                \/ Moved("truncate", mig.sel) /\ mig.left = {Current}
             /\ Current \in Existing(Target) => UNCHANGED db
             /\ Current \notin Existing(Target) => db' = [db EXCEPT ![mig.to].def[Current] = TargetTable(Current)]
    <3>1. PICK p \in {"create", "truncate"}, l \in SUBSET Tables : Moved(p, l)
      BY <1>1, <2>3
    <3>2. p \in Phases
      BY DEF Phases
    <3>3. /\ mig'.pc = p /\ mig'.left = l /\ mig'.from = mig.from /\ mig'.to = mig.to /\ mig'.named = mig.named
          /\ mig'.sel = mig.sel /\ mig'.schema = mig.schema /\ mig'.fks = mig.fks /\ mig'.had = mig.had
          /\ mig'.dirty = mig.dirty
      BY <1>0, <3>1, <3>2, MovedKeeps
    <3>4. /\ \A s \in Services : s # mig.to => db'[s] = db[s]
          /\ Target'.fks = Target.fks /\ Target'.rows = Target.rows
      <4>1. CASE UNCHANGED db
        BY <3>3, <4>1 DEF Target
      <4>2. CASE db' = [db EXCEPT ![mig.to].def[Current] = TargetTable(Current)]
        BY <1>1, <3>3, <4>2 DEF Target, Contents
      <4> QED
        BY <2>3, <4>1, <4>2
    <3> QED
      BY <2>1, <3>3, <3>4 DEF Kept
  <2> QED
    BY <1>0, <1>3, <2>2, <2>3, CreateTyped
<1>4. CASE OpenStream
  <2>1. mig' = [mig EXCEPT !.pc = "insert", !.pending = db[mig.from].rows[Current], !.read[Current] = db[mig.from].rows[Current]]
        /\ mig.pc = "open" /\ db' = db
    BY <1>4 DEF OpenStream
  <2>2. Target' = Target
    BY <1>1, <2>1 DEF Target, Migrations
  <2> QED
    BY <1>1, <2>1, <2>2 DEF Kept, Migrations
<1>5. CASE EndOfStream
  <2>1. mig.pc = "insert" /\ db' = db
    BY <1>5 DEF EndOfStream
  <2>2. PICK p \in {"truncate", "index", "done"}, l \in SUBSET Tables : Moved(p, l)
    BY <1>0, <1>1, <1>5, EndOfStreamTyped
  <2>3. p \in Phases
    BY DEF Phases
  <2>4. /\ mig'.pc = p /\ mig'.left = l /\ mig'.from = mig.from /\ mig'.to = mig.to /\ mig'.named = mig.named
        /\ mig'.sel = mig.sel /\ mig'.schema = mig.schema /\ mig'.fks = mig.fks /\ mig'.had = mig.had
        /\ mig'.dirty = mig.dirty
    BY <1>0, <2>2, <2>3, MovedKeeps
  <2>5. Target' = Target
    BY <2>1, <2>4 DEF Target
  <2> QED
    BY <2>1, <2>4, <2>5 DEF Kept
<1>6. CASE \E c \in Conns : ChecksOff(c) \/ ChecksOn(c)
  <2>1. PICK o \in SUBSET Conns, p \in {"checks off", "open"} :
          /\ mig' = [mig EXCEPT !.pc = p, !.off = o] /\ mig.pc \in {"truncate", "checks on"}
          /\ db' = db
    BY ZenonT(60), <1>0, <1>6, ChecksTyped
  <2>2. Target' = Target
    BY <1>1, <2>1 DEF Target, Migrations
  <2> QED
    BY ZenonT(60), <1>1, <2>1, <2>2 DEF Kept, Migrations
<1>7. CASE TruncatePg \/ \E c \in Conns : TruncateMysql(c)
  <2>1. Current \in Tables /\ mig.pc \in {"truncate", "checks off"}
    BY <1>7, CurrentIsLeft DEF TruncatePg, TruncateMysql, Idle
  <2>2. PICK ts \in SUBSET Tables, p \in {"open", "checks on"} :
          /\ \/ mig.pc = "truncate" /\ Dir = "to_pg" /\ ts = Reaching(Target.fks, Current) /\ p = "open"
             \/ mig.pc = "checks off" /\ ts = {Current} /\ p = "checks on"
          /\ \/ /\ db' = [db EXCEPT ![mig.to] = Emptied(@, ts)]
                /\ mig' = [mig EXCEPT !.pc = p]
             \/ /\ UNCHANGED db
                /\ mig' = [mig EXCEPT !.pc = p, !.refused = @ \cup {Current}]
    BY <1>7, <2>1, TruncateSteps
  <2>3. /\ \A s \in Services : s # mig.to => db'[s] = db[s]
        /\ Target'.def = Target.def /\ Target'.fks = Target.fks
        /\ mig'.pc = p
        /\ \A t \in Tables : t \notin ts => Target'.rows[t] = Target.rows[t]
    BY ZenonT(60), <1>0, <2>1, <2>2, TruncateTyped
  <2>4. ts \subseteq Reaching(Target.fks, Current)
    <3>1. Current \in Reaching(Target.fks, Current)
      BY <2>1, ReachedTables
    <3> QED
      BY <2>2, <3>1
  <2>5. /\ mig'.from = mig.from /\ mig'.to = mig.to /\ mig'.named = mig.named /\ mig'.dirty = mig.dirty
        /\ mig'.sel = mig.sel /\ mig'.schema = mig.schema /\ mig'.had = mig.had /\ mig'.fks = mig.fks
    <3>1. CASE mig' = [mig EXCEPT !.pc = p]
      BY <1>1, <3>1 DEF Migrations
    <3>2. CASE mig' = [mig EXCEPT !.pc = p, !.refused = @ \cup {Current}]
      BY <1>1, <3>2 DEF Migrations
    <3> QED
      BY <2>2, <3>1, <3>2
  <2> QED
    BY <2>1, <2>3, <2>4, <2>5 DEF Kept
<1>8. CASE \E c \in Conns : InsertBatch(c)
  <2>1. PICK c \in Conns : InsertBatch(c)
    BY <1>8
  <2>2. mig.pc = "insert"
    BY <2>1 DEF InsertBatch
  <2>3. Current \in Tables /\ Current \in mig.sel
    BY <2>2, CurrentIsLeft DEF Idle
  <2>4. CASE Failed /\ UNCHANGED db
    BY <2>4
  <2>5. CASE \E batch \in SUBSET mig.pending :
               LET new == Converted(Current, batch)
               IN  /\ new \in SUBSET Rows
                   /\ \A s \in Services : s # mig.to => db'[s] = db[s]
                   /\ mig' = [mig EXCEPT !.pending = @ \ batch]
                   /\ Target'.def = Target.def /\ Target'.fks = Target.fks
                   /\ \A t \in Tables : Target'.rows[t] = IF t = Current THEN Target.rows[t] \cup new ELSE Target.rows[t]
                   /\ \A t \in Tables : Target.seq[t] <= Target'.seq[t]
                   /\ Dir = "to_mysql" => \A r \in new : r.id.n < Target'.seq[Current]
    <3>1. /\ mig'.from = mig.from /\ mig'.to = mig.to /\ mig'.named = mig.named /\ mig'.dirty = mig.dirty
          /\ mig'.sel = mig.sel /\ mig'.schema = mig.schema /\ mig'.had = mig.had /\ mig'.fks = mig.fks
          /\ mig'.pc = mig.pc
      BY <1>1, <2>5 DEF Migrations
    <3>2. \A t \in Tables : Target.rows[t] \subseteq Target'.rows[t]
      BY <2>5
    <3>3. /\ \A s \in Services : s # mig.to => db'[s] = db[s]
          /\ Target'.def = Target.def /\ Target'.fks = Target.fks
      BY <2>5
    <3> QED
      BY <2>2, <3>1, <3>2, <3>3 DEF Kept
  <2> QED
    BY <1>0, <2>1, <2>3, <2>4, <2>5, InsertTyped
<1>9. CASE CreateIndexes \/ SetSequence \/ AddForeignKeys
  <2>1. mig.pc \in {"index", "setval", "fks"} /\ Current \in Tables
    BY <1>9, CurrentIsLeft DEF CreateIndexes, SetSequence, AddForeignKeys, Idle
  <2>2. /\ \A s \in Services : s # mig.to => db'[s] = db[s]
        /\ Target'.def = Target.def /\ Target'.rows = Target.rows
        /\ mig.pc # "fks" => Target'.fks = Target.fks
        /\ \E p \in {"index", "setval", "fks", "done"}, l \in SUBSET Tables :
             Moved(p, l) /\ (mig.pc = "fks" => p \in {"fks", "done"})
    <3>1. CASE CreateIndexes
      BY <1>0, <1>1, <3>1, CreateIndexesTyped DEF CreateIndexes
    <3>2. CASE SetSequence
      BY <1>0, <1>1, <2>1, <3>2, SetSequenceTyped DEF SetSequence
    <3>3. CASE AddForeignKeys
      BY <1>0, <1>1, <3>3, AddForeignKeysTyped DEF AddForeignKeys
    <3> QED
      BY <1>9, <3>1, <3>2, <3>3
  <2>3. PICK p \in {"index", "setval", "fks", "done"}, l \in SUBSET Tables :
          Moved(p, l) /\ (mig.pc = "fks" => p \in {"fks", "done"})
    BY <2>2
  <2>4. p \in Phases
    BY DEF Phases
  <2>5. /\ mig'.pc = p /\ mig'.left = l /\ mig'.from = mig.from /\ mig'.to = mig.to /\ mig'.named = mig.named
        /\ mig'.sel = mig.sel /\ mig'.schema = mig.schema /\ mig'.fks = mig.fks /\ mig'.had = mig.had
        /\ mig'.dirty = mig.dirty
    BY <1>0, <2>3, <2>4, MovedKeeps
  <2> QED
    BY <2>1, <2>2, <2>3, <2>5 DEF Kept
<1> QED
  BY <1>2, <1>3, <1>4, <1>5, <1>6, <1>7, <1>8, <1>9 DEF MigrationStep
LEMMA AimedNext ==
  ASSUME MigrateTypeOK, Aimed, [Next]_vars
  PROVE  Aimed'
<1>0. DbTyped /\ MigTyped
  BY TypeParts
<1>1. ASSUME NEW list \in Detected, NEW from \in Services, NEW to \in Services, NEW filter \in Filters,
             Start(list, from, to, filter)
      PROVE  Aimed'
  BY ZenonT(60), <1>0, <1>1, StartTyped DEF Aimed, Copying
<1>2. ASSUME Failed
      PROVE  Aimed'
  BY <1>2, FailedTyped DEF Aimed, Copying
<1>3. ASSUME MigrationStep
      PROVE  Aimed'
  <2>1. CASE Failed
    BY <1>2, <2>1
  <2>2. CASE Kept /\ mig.pc # "introspect"
    <3>1. mig.pc \in Phases \ {"idle", "failed", "done", "introspect"}
      BY <1>0, <2>2 DEF MigTyped, Migrations, Kept
    <3>2. mig'.pc \in {"create", "index", "setval"} \cup Copying =>
            mig.pc \in {"create", "index", "setval"} \cup Copying /\ mig.pc # "fks"
      BY <2>2, <3>1 DEF Kept, Phases, Copying
    <3>3. mig'.pc \in {"create", "index", "setval"} \cup Copying => Target'.fks = mig'.had
      BY <2>2, <3>2 DEF Kept, Aimed
    <3> QED
      BY <2>2, <3>3 DEF Kept, Aimed
  <2>3. CASE Kept /\ mig.pc = "introspect"
    <3>1. Introspect
      BY <1>3, <2>3 DEF MigrationStep, Create, TruncatePg, OpenStream, EndOfStream, ChecksOff, TruncateMysql, InsertBatch,
            ChecksOn, CreateIndexes, SetSequence, AddForeignKeys
    <3>2. mig'.had = Target.fks
      BY <1>0, <3>1, IntrospectTyped
    <3> QED
      BY <2>3, <3>2 DEF Kept, Aimed, Copying
  <2> QED
    BY <1>3, <2>1, <2>2, <2>3, StepKeeps
<1>4. ASSUME SourceWrite
      PROVE  Aimed'
  <2>1. mig' = [mig EXCEPT !.dirty = TRUE] /\ mig \in Migrations /\ \A s \in Services : db'[s].fks = db[s].fks
    BY <1>0, <1>4, SourceWriteTyped DEF MigTyped
  <2>2. /\ mig'.pc = mig.pc /\ mig'.from = mig.from /\ mig'.to = mig.to /\ mig'.named = mig.named /\ mig'.had = mig.had
        /\ mig.to \in Services
    BY <2>1 DEF Migrations
  <2>3. Target'.fks = Target.fks
    BY <2>1, <2>2 DEF Target
  <2> QED
    BY <2>2, <2>3 DEF Aimed
<1>5. ASSUME UNCHANGED vars
      PROVE  Aimed'
  BY <1>5 DEF vars, Aimed, Target
<1> QED
  BY <1>1, <1>2, <1>3, <1>4, <1>5 DEF Next, Interrupt

(* The services of a migration are the two that were named, whatever order  *)
(* they were listed in, and the target's foreign keys stay as they were     *)
(* until the data is in (run_migrate, db/migrate.rs:60-110).                *)
THEOREM MigrationAimed == Spec => [](MigrateTypeOK /\ Aimed)
<1>1. Init => MigrateTypeOK /\ Aimed
  BY InitTyped DEF Init, NoMigration, Aimed, Copying
<1>2. MigrateTypeOK /\ Aimed /\ [Next]_vars => MigrateTypeOK' /\ Aimed'
  BY NextTyped, AimedNext
<1> QED
  BY <1>1, <1>2, PTL DEF Spec

(* A migration changes no service but the one --to names, in whatever order *)
(* the services were listed; and takes rows only from tables it was told to *)
(* copy and from tables that refer to them (swap_remove and TRUNCATE ...    *)
(* CASCADE, db/migrate.rs:75-84, 755).                                      *)
THEOREM TargetOnly == Spec => TouchesOnlyItsTables
<1> DEFINE Touch ==
      \A s \in Services :
         writes' = writes /\ db'[s] # db[s] =>
           /\ s = mig.named[2]
           /\ \A t \in Tables : db[s].rows[t] \subseteq db'[s].rows[t]
                                 \/ \E u \in mig.sel : t \in Reaching(mig.had, u)
<1>1. ASSUME MigrateTypeOK, Aimed, [Next]_vars
      PROVE  Touch
  <2>0. DbTyped /\ MigTyped /\ writes \in Nat
    BY <1>1, TypeParts, MigrateAssumption
  <2>1. CASE UNCHANGED db
    BY <2>1
  <2>2. CASE SourceWrite
    BY <2>0, <2>2, SourceWriteCounts
  <2>3. CASE MigrationStep /\ Kept
    <3> SUFFICES ASSUME NEW s \in Services, db'[s] # db[s]
                 PROVE  /\ s = mig.named[2]
                        /\ \A t \in Tables : db[s].rows[t] \subseteq db'[s].rows[t]
                                              \/ \E u \in mig.sel : t \in Reaching(mig.had, u)
      OBVIOUS
    <3>1. s = mig.to /\ mig'.to = mig.to
      BY <2>3 DEF Kept
    <3>2. mig.named = <<mig.from, mig.to>>
      BY <1>1, <2>3 DEF Aimed, Kept
    <3>3. db[s] = Target /\ db'[s] = Target'
      BY <3>1 DEF Target
    <3>4. CASE \A t \in Tables : Target.rows[t] \subseteq Target'.rows[t]
      BY <3>1, <3>2, <3>3, <3>4
    <3>5. CASE /\ mig.pc \in {"truncate", "checks off"}
               /\ \A t \in Tables : t \notin Reaching(Target.fks, Current) => Target'.rows[t] = Target.rows[t]
      <4>1. Current \in mig.sel
        BY <1>1, <3>5, CurrentIsLeft DEF Idle
      <4>2. Target.fks = mig.had
        BY <1>1, <3>5 DEF Aimed, Copying
      <4>3. \A t \in Tables : db[s].rows[t] \subseteq db'[s].rows[t] \/ \E u \in mig.sel : t \in Reaching(mig.had, u)
        BY <3>3, <3>5, <4>1, <4>2
      <4> QED
        BY <3>1, <3>2, <4>3
    <3> QED
      BY <2>3, <3>4, <3>5 DEF Kept
  <2> QED
    BY ZenonT(60), <1>1, <2>1, <2>2, <2>3, StepKeeps DEF Next, Start, Interrupt, vars
<1>2. MigrateTypeOK /\ Aimed /\ [Next]_vars => [Touch]_vars
  BY <1>1
<1> QED
  BY <1>2, MigrationAimed, PTL DEF Spec, TouchesOnlyItsTables
------------------------------------------------------------------------------
(* What a table holds when it is reported as copied.                        *)

(* Of two different tables one is the later.                                *)
LEMMA Later == \A a, b \in Nat : a # b /\ ~(a > b) => b > a
OBVIOUS

(* Complete(t) speaks of these only.                                        *)
LEMMA CompleteSame ==
  ASSUME NEW t, Complete(t), mig'.to = mig.to, mig'.had = mig.had, Begun' = Begun, mig'.refused = mig.refused,
         mig'.schema = mig.schema, mig'.read[t] = mig.read[t], Target'.def = Target.def, Target'.rows[t] = Target.rows[t]
  PROVE  Complete(t)'
<1>1. Dir' = Dir
  BY DEF Dir
<1>2. Converted(t, mig.read[t])' = Converted(t, mig.read[t])
  BY <1>1 DEF Converted
<1>3. WipedSoFar(t)' <=> WipedSoFar(t)
  BY <1>1 DEF WipedSoFar
<1> QED
  BY <1>2, <1>3 DEF Complete

(* TRUNCATE of the current table, refused or not.                           *)
LEMMA CopyTruncate ==
  ASSUME MigrateTypeOK, Aimed, CopyInv, TruncatePg \/ \E c \in Conns : TruncateMysql(c)
  PROVE  CopyInv'
<1> DEFINE C == Current
<1>0. DbTyped /\ MigTyped
  BY TypeParts
<1>1. C \in Tables /\ C \in mig.left /\ C \in mig.sel /\ mig.pc \in {"truncate", "checks off"}
  BY CurrentIsLeft DEF TruncatePg, TruncateMysql, Idle
<1>2. PICK ts \in SUBSET Tables, p \in {"open", "checks on"} :
        /\ \/ mig.pc = "truncate" /\ Dir = "to_pg" /\ ts = Reaching(Target.fks, C) /\ p = "open"
           \/ mig.pc = "checks off" /\ ts = {C} /\ p = "checks on"
        /\ \/ /\ db' = [db EXCEPT ![mig.to] = Emptied(@, ts)]
              /\ mig' = [mig EXCEPT !.pc = p]
           \/ /\ UNCHANGED db
              /\ mig' = [mig EXCEPT !.pc = p, !.refused = @ \cup {C}]
  BY <1>1, TruncateSteps
<1>3. /\ Target'.def = Target.def /\ Target'.fks = Target.fks
      /\ mig'.pc = p
      /\ \/ /\ mig'.refused = mig.refused
            /\ \A t \in Tables : Target'.rows[t] = IF t \in ts THEN {} ELSE Target.rows[t]
         \/ /\ mig'.refused = mig.refused \cup {C}
            /\ UNCHANGED db /\ Target' = Target
  BY ZenonT(60), <1>0, <1>1, <1>2, TruncateTyped
<1>4. /\ mig'.from = mig.from /\ mig'.to = mig.to /\ mig'.sel = mig.sel /\ mig'.left = mig.left
      /\ mig'.schema = mig.schema /\ mig'.had = mig.had /\ mig'.read = mig.read /\ mig'.pending = mig.pending
  <2>0. mig \in Migrations
    BY <1>0 DEF MigTyped
  <2>1. CASE mig' = [mig EXCEPT !.pc = p]
    BY <2>0, <2>1 DEF Migrations
  <2>2. CASE mig' = [mig EXCEPT !.pc = p, !.refused = @ \cup {C}]
    BY <2>0, <2>2 DEF Migrations
  <2> QED
    BY <1>2, <2>1, <2>2
<1>5. Target.fks = mig.had
  BY <1>1 DEF Aimed, Copying
<1>6. C \in ts /\ (Dir = "to_pg" => ts = Reaching(mig.had, C)) /\ (Dir # "to_pg" => ts = {C})
      /\ (p = "checks on" => Dir = "to_mysql")
  <2>1. C \in Reaching(Target.fks, C)
    BY <1>1, ReachedTables
  <2>2. mig.pc = "checks off" => Dir = "to_mysql"
    BY DEF CopyInv
  <2> QED
    BY <1>2, <1>5, <2>1, <2>2
<1>7. /\ Begun = mig.sel \ mig.left /\ Begun' = Begun \cup {C} /\ C \notin Begun
      /\ C' = C
  <2>1. C' = C
    BY <1>4 DEF Current
  <2>2. Begun = mig.sel \ mig.left
    BY <1>1 DEF Begun
  <2>3. Begun' = mig.sel \ (mig.left \ {C})
    BY <1>2, <1>3, <1>4, <2>1 DEF Begun, Copying
  <2> HIDE DEF C
  <2> QED
    BY <1>1, <2>1, <2>2, <2>3
<1> HIDE DEF C
<1>8. /\ \A t \in mig.left, u \in mig.sel : u > t => u \in mig.left
      /\ \A t \in mig.sel \ mig.left : Complete(t)
      /\ mig.refused \subseteq Begun
  BY <1>1 DEF CopyInv, Copying
<1>9. mig.sel \in SUBSET Nat /\ mig.sel \subseteq Tables
  BY <1>0, MigrateAssumption DEF MigTyped, Migrations
<1>10. ASSUME NEW t \in mig.sel \ mig.left
       PROVE  Complete(t)'
  <2>1. t \in Tables /\ t # C /\ C > t
    <3>1. t \in Nat /\ C \in Nat /\ t \in Tables /\ t # C
      BY <1>1, <1>9
    <3>2. ~(t > C)
      BY <1>1, <1>8
    <3> QED
      BY <3>1, <3>2, Later
  <2>2. Converted(t, mig.read[t])' = Converted(t, mig.read[t]) /\ Dir' = Dir
    BY <1>3, <1>4 DEF Converted, Dir
  <2>3. t \in mig.refused' <=> t \in mig.refused
    BY <1>3, <2>1
  <2>4. Complete(t)
    BY <1>8
  <2>5. CASE /\ mig'.refused = mig.refused
             /\ \A u \in Tables : Target'.rows[u] = IF u \in ts THEN {} ELSE Target.rows[u]
    <3>1. WipedSoFar(t)' <=> WipedSoFar(t) \/ (Dir = "to_pg" /\ t \in ts)
      <4>1. Begun' \ mig'.refused = (Begun \ mig.refused) \cup {C}
        BY <1>7, <1>8, <2>5
      <4> QED
        BY <1>4, <1>6, <2>1, <2>2, <4>1 DEF WipedSoFar
    <3>2. Target'.rows[t] = IF t \in ts THEN {} ELSE Target.rows[t]
      BY <2>1, <2>5
    <3>3. t \in ts => Dir = "to_pg"
      BY <1>6, <2>1
    <3> QED
      BY <2>2, <2>3, <2>4, <3>1, <3>2, <3>3 DEF Complete
  <2>6. CASE mig'.refused = mig.refused \cup {C} /\ Target' = Target
    <3>1. Begun' \ mig'.refused = Begun \ mig.refused
      BY <1>7, <2>6
    <3>2. WipedSoFar(t)' <=> WipedSoFar(t)
      BY <1>4, <2>2, <3>1 DEF WipedSoFar
    <3> QED
      BY <2>2, <2>3, <2>4, <2>6, <3>2 DEF Complete
  <2> QED
    BY <1>3, <2>5, <2>6
<1>11. mig'.refused \subseteq Begun'
  BY <1>3, <1>7, <1>8
<1>12. C \notin mig'.refused => Target'.rows[C] = {}
  BY <1>1, <1>3, <1>6
<1>13. Dir' = Dir
  BY <1>4 DEF Dir
<1>14. mig'.pc \in {"open", "checks on"}
  BY <1>2, <1>3
<1> QED
  BY <1>3, <1>4, <1>6, <1>7, <1>8, <1>10, <1>11, <1>12, <1>13, <1>14 DEF CopyInv, Copied, C
LEMMA CopyOpen ==
  ASSUME MigrateTypeOK, CopyInv, OpenStream
  PROVE  CopyInv'
<1> DEFINE C == Current
<1>0. DbTyped /\ MigTyped /\ mig.pc = "open"
  BY TypeParts DEF OpenStream
<1>1. C \in Tables /\ C \in mig.left
  BY <1>0, CurrentIsLeft DEF Idle
<1>2. /\ db' = db /\ mig'.pc = "insert" /\ mig'.pending = db[mig.from].rows[C]
      /\ \A t \in Tables : mig'.read[t] = IF t = C THEN db[mig.from].rows[C] ELSE mig.read[t]
  BY <1>0, <1>1, OpenStreamTyped
<1>3. /\ mig'.to = mig.to /\ mig'.sel = mig.sel /\ mig'.left = mig.left /\ mig'.schema = mig.schema
      /\ mig'.had = mig.had /\ mig'.refused = mig.refused
  BY <1>0 DEF OpenStream, MigTyped, Migrations
<1>4. C' = C /\ Target' = Target /\ mig.sel \subseteq Tables
  BY <1>0, <1>2, <1>3 DEF Current, Target, MigTyped, Migrations
<1>5. Begun' = Begun
  BY <1>0, <1>2, <1>3, <1>4 DEF Begun, Copying
<1>6. /\ \A t \in mig.left, u \in mig.sel : u > t => u \in mig.left
      /\ \A t \in mig.sel \ mig.left : Complete(t)
      /\ mig.refused \subseteq Begun
      /\ C \notin mig.refused => Target.rows[C] = {}
  BY <1>0 DEF CopyInv, Copying
<1> HIDE DEF C
<1>7. ASSUME NEW t \in mig.sel \ mig.left PROVE Complete(t)'
  <2>1. mig'.read[t] = mig.read[t] /\ Complete(t)
    BY <1>1, <1>2, <1>4, <1>6
  <2> QED
    BY <1>3, <1>4, <1>5, <2>1, CompleteSame
<1>8. mig'.read[C] = mig'.pending
  BY <1>1, <1>2
<1>9. Converted(C, mig.read[C] \ mig.pending)' = {}
  <2>1. Converted(C, mig.read[C] \ mig.pending)' = {IF Dir = "to_pg" THEN PgValues(mig.schema[C], Target.def[C], r)
                      ELSE MysqlValues(mig.schema[C], Target.def[C], r) : r \in mig.read[C] \ mig.pending}'
    BY DEF Converted
  <2>2. (mig.read[C] \ mig.pending)' = {}
    BY <1>4, <1>8
  <2> QED
    BY <2>1, <2>2
<1>10. Converted(Current, mig.read[Current] \ mig.pending)' = {} /\ Current' = C
  BY <1>4, <1>9 DEF C
<1>11. mig'.pc \notin Copied \cup {"introspect", "create", "checks off", "checks on", "open"} /\ mig'.pc = "insert"
  BY <1>2 DEF Copied
<1> QED
  BY <1>3, <1>4, <1>5, <1>6, <1>7, <1>8, <1>10, <1>11 DEF CopyInv

LEMMA CopyInsert ==
  ASSUME MigrateTypeOK, CopyInv, NEW c \in Conns, InsertBatch(c)
  PROVE  CopyInv'
<1> DEFINE C == Current
<1>0. DbTyped /\ MigTyped /\ mig.pc = "insert"
  BY TypeParts DEF InsertBatch
<1>1. C \in Tables /\ C \in mig.left /\ C \in mig.sel /\ mig.sel \subseteq Tables /\ mig \in Migrations
  BY <1>0, CurrentIsLeft DEF Idle, MigTyped, Migrations
<1>2. CASE Failed
  BY <1>2, FailedTyped DEF CopyInv, Copying, Copied
<1>3. CASE \E batch \in SUBSET mig.pending :
               LET new == Converted(C, batch)
               IN  /\ new \in SUBSET Rows
                   /\ \A s \in Services : s # mig.to => db'[s] = db[s]
                   /\ mig' = [mig EXCEPT !.pending = @ \ batch]
                   /\ Target'.def = Target.def /\ Target'.fks = Target.fks
                   /\ \A t \in Tables : Target'.rows[t] = IF t = C THEN Target.rows[t] \cup new ELSE Target.rows[t]
                   /\ \A t \in Tables : Target.seq[t] <= Target'.seq[t]
                   /\ Dir = "to_mysql" => \A r \in new : r.id.n < Target'.seq[C]
  <2>1. PICK batch \in SUBSET mig.pending :
               /\ mig' = [mig EXCEPT !.pending = @ \ batch]
               /\ Target'.def = Target.def
               /\ \A t \in Tables : Target'.rows[t] = IF t = C THEN Target.rows[t] \cup Converted(C, batch) ELSE Target.rows[t]
    BY <1>3
  <2>2. /\ mig'.to = mig.to /\ mig'.sel = mig.sel /\ mig'.left = mig.left /\ mig'.schema = mig.schema /\ mig'.pc = "insert"
        /\ mig'.had = mig.had /\ mig'.refused = mig.refused /\ mig'.read = mig.read /\ mig'.pending = mig.pending \ batch
    BY <1>0, <1>1, <2>1 DEF Migrations
  <2>3. C' = C
    BY <2>2 DEF Current
  <2>4. Begun' = Begun
    BY <1>0, <2>2, <2>3 DEF Begun
  <2>5. /\ \A t \in mig.left, u \in mig.sel : u > t => u \in mig.left
        /\ \A t \in mig.sel \ mig.left : Complete(t)
        /\ mig.refused \subseteq Begun
        /\ mig.pending \subseteq mig.read[C]
        /\ Converted(C, mig.read[C] \ mig.pending) \subseteq Target.rows[C]
        /\ C \notin mig.refused => Target.rows[C] = Converted(C, mig.read[C] \ mig.pending)
    BY <1>0 DEF CopyInv, Copying
  <2> HIDE DEF C
  <2>6. ASSUME NEW t \in mig.sel \ mig.left PROVE Complete(t)'
    <3>1. Target'.rows[t] = Target.rows[t] /\ Complete(t)
      BY <1>1, <2>1, <2>5
    <3> QED
      BY <2>1, <2>2, <2>4, <3>1, CompleteSame
  <2> DEFINE before == mig.read[C] \ mig.pending
             after == mig.read[C] \ (mig.pending \ batch)
             V(b) == Stored(Dir, mig.schema[C], Target.def[C], b)
  <2>7. V(after) = V(before) \cup V(batch)
    <3>1. after = before \cup batch /\ before \in SUBSET Rows
      BY <1>1, <2>5 DEF Migrations
    <3> QED
      BY <3>1, StoredRows
  <2>8. Converted(C, before) = V(before) /\ Converted(C, batch) = V(batch)
    BY ConvertedIsStored
  <2>9. Converted(Current, mig.read[Current] \ mig.pending)' = V(after)
    <3>1. Dir' = Dir
      BY <2>2 DEF Dir
    <3>2. (mig.read[Current] \ mig.pending)' = after
      BY <2>2, <2>3 DEF C
    <3> QED
      BY <2>1, <2>2, <2>3, <3>1, <3>2 DEF Converted, Stored, C
  <2>10. Target'.rows[C] = Target.rows[C] \cup V(batch)
    BY <1>1, <2>1, <2>8
  <2> HIDE DEF V, after
  <2>11. /\ V(after) \subseteq Target'.rows[C]
         /\ C \notin mig.refused => Target'.rows[C] = V(after)
    BY <2>5, <2>7, <2>8, <2>10
  <2>12. mig'.pending \subseteq mig'.read[C] /\ Current' = C
    BY <2>2, <2>3, <2>5 DEF C
  <2>13. mig'.pc \notin Copied \cup {"introspect", "create", "checks off", "checks on", "open"} /\ mig'.pc = "insert"
    BY <2>2 DEF Copied
  <2> QED
    BY <2>2, <2>4, <2>5, <2>6, <2>9, <2>11, <2>12, <2>13 DEF CopyInv
<1> QED
  BY <1>0, <1>1, <1>2, <1>3, InsertTyped

(* The last batch is in, and no later table has been emptied yet.           *)
LEMMA CopyEnd ==
  ASSUME MigrateTypeOK, CopyInv, EndOfStream
  PROVE  CopyInv'
<1> DEFINE C == Current
<1>0. DbTyped /\ MigTyped /\ mig.pc = "insert" /\ mig.pending = {} /\ db' = db
  BY TypeParts DEF EndOfStream
<1>1. C \in Tables /\ C \in mig.left /\ C \in mig.sel /\ mig.sel \subseteq Tables /\ mig.left \subseteq mig.sel
      /\ \A t \in mig.left : C <= t
  BY <1>0, CurrentIsLeft DEF Idle, MigTyped, Migrations
<1>2. PICK p \in {"truncate", "index", "done"}, l \in SUBSET Tables :
        /\ Moved(p, l)
        /\ p = "truncate" => l = mig.left \ {C}
        /\ p # "truncate" => mig.left = {C}
  BY <1>0, <1>1, EndOfStreamTyped
<1>3. /\ mig'.pc = p /\ mig'.left = l /\ mig'.to = mig.to /\ mig'.had = mig.had /\ mig'.refused = mig.refused
      /\ mig'.sel = mig.sel /\ mig'.schema = mig.schema /\ mig'.read = mig.read
  BY <1>0, <1>2, MovedKeeps DEF Phases
<1>4. Target' = Target
  BY <1>0, <1>3 DEF Target
<1>5. Begun = mig.sel \ (mig.left \ {C})
  BY <1>0 DEF Begun, Copying
<1>6. Begun' = Begun
  <2>1. Begun' = IF p = "truncate" THEN mig.sel \ l ELSE mig.sel
    BY <1>3 DEF Begun, Copying
  <2> HIDE DEF C
  <2> QED
    BY <1>2, <1>5, <2>1
<1>7. /\ \A t \in mig.left, u \in mig.sel : u > t => u \in mig.left
      /\ \A t \in mig.sel \ mig.left : Complete(t)
      /\ mig.refused \subseteq Begun
      /\ Converted(C, mig.read[C] \ mig.pending) \subseteq Target.rows[C]
      /\ C \notin mig.refused => Target.rows[C] = Converted(C, mig.read[C] \ mig.pending)
  BY <1>0 DEF CopyInv, Copying
<1> HIDE DEF C
<1>8. mig.read[C] \ mig.pending = mig.read[C]
  BY <1>0
<1>9. mig.sel \subseteq Nat
  BY <1>1, MigrateAssumption
<1>10. ~WipedSoFar(C)
  <2>1. \A u \in Begun : ~(u > C)
    <3> SUFFICES ASSUME NEW u \in Begun, u > C PROVE FALSE
      OBVIOUS
    <3>1. u \in mig.left /\ u \in mig.sel
      BY <1>1, <1>5, <1>7
    <3>2. u = C
      BY <1>5, <3>1
    <3>3. C \in Nat
      BY <1>1, <1>9
    <3> QED
      BY <3>2, <3>3
  <2> QED
    BY <2>1 DEF WipedSoFar
<1>11. Complete(C)
  BY <1>7, <1>8, <1>10 DEF Complete
<1>12. ASSUME NEW t \in mig.sel \ (mig.left \ {C}) PROVE Complete(t)'
  <2>1. Complete(t)
    BY <1>7, <1>11
  <2> QED
    BY <1>3, <1>4, <1>6, <2>1, CompleteSame
<1>13. CASE p = "truncate"
  <2>1. ASSUME NEW t \in l, NEW u \in mig.sel, u > t PROVE u \in l
    <3>1. t \in mig.left /\ t # C /\ C <= t /\ u \in mig.left
      BY <1>1, <1>2, <1>7, <1>13, <2>1
    <3>2. t \in Nat /\ u \in Nat /\ C \in Nat
      BY <1>1, <1>9, <3>1
    <3>3. u # C
      BY <2>1, <3>1, <3>2
    <3> QED
      BY <1>2, <1>13, <3>1, <3>3
  <2>2. \A t \in mig.sel \ l : Complete(t)'
    BY <1>2, <1>12, <1>13
  <2>3. mig'.pc = "truncate" /\ mig'.pc \notin Copied
    BY <1>3, <1>13 DEF Copied
  <2> QED
    BY <1>3, <1>6, <1>7, <2>1, <2>2, <2>3 DEF CopyInv
<1>14. CASE p # "truncate"
  <2>1. \A t \in mig.sel : Complete(t)'
    BY <1>2, <1>12, <1>14
  <2>2. mig'.pc \in {"index", "done"}
    BY <1>2, <1>3, <1>14
  <2> QED
    BY <1>3, <2>1, <2>2 DEF CopyInv, Copying, Copied
<1> QED
  BY <1>13, <1>14
(* Indexes, sequences and foreign keys leave what was copied.               *)
LEMMA CopyAfter ==
  ASSUME MigrateTypeOK, CopyInv, CreateIndexes \/ SetSequence \/ AddForeignKeys
  PROVE  CopyInv'
<1>0. DbTyped /\ MigTyped /\ mig.pc \in {"index", "setval", "fks"}
  BY TypeParts DEF CreateIndexes, SetSequence, AddForeignKeys
<1>1. Current \in Tables /\ mig.sel \subseteq Tables
  BY <1>0, CurrentIsLeft DEF Idle, MigTyped, Migrations
<1>2. /\ Target'.def = Target.def /\ Target'.rows = Target.rows
      /\ \E p \in Phases, l \in SUBSET Tables : Moved(p, l) /\ p \in Copied
  <2>1. /\ mig.left \ {Current} \in SUBSET Tables /\ mig.sel \in SUBSET Tables /\ {} \in SUBSET Tables
        /\ \A p \in Copied : p \in Phases
    BY <1>0 DEF MigTyped, Migrations, Phases, Copied
  <2>2. \A p \in Copied, l \in SUBSET Tables : Moved(p, l) => \E q \in Phases, k \in SUBSET Tables : Moved(q, k) /\ q \in Copied
    BY <2>1
  <2>3. "index" \in Copied /\ "setval" \in Copied /\ "fks" \in Copied /\ "done" \in Copied
    BY DEF Copied
  <2>4. CASE CreateIndexes
    BY <1>0, <2>1, <2>2, <2>3, <2>4, CreateIndexesTyped
  <2>5. CASE SetSequence
    BY <1>0, <1>1, <2>1, <2>2, <2>3, <2>5, SetSequenceTyped
  <2>6. CASE AddForeignKeys
    BY <1>0, <2>1, <2>2, <2>3, <2>6, AddForeignKeysTyped
  <2> QED
    BY <2>4, <2>5, <2>6
<1>3. PICK p \in Phases, l \in SUBSET Tables : Moved(p, l) /\ p \in Copied
  BY <1>2
<1>4. /\ mig'.pc = p /\ mig'.to = mig.to /\ mig'.had = mig.had /\ mig'.refused = mig.refused
      /\ mig'.sel = mig.sel /\ mig'.schema = mig.schema /\ mig'.read = mig.read
  BY <1>0, <1>3, MovedKeeps
<1>5. Begun' = Begun
  BY <1>0, <1>3, <1>4 DEF Begun, Copying, Copied
<1>6. \A t \in mig.sel : Complete(t)
  BY <1>0 DEF CopyInv, Copied
<1>7. \A t \in mig.sel : Complete(t)'
  BY <1>2, <1>4, <1>5, <1>6, CompleteSame
<1> QED
  BY <1>3, <1>4, <1>7 DEF CopyInv, Copying, Copied

(* No table has been emptied when the last one has been created.            *)
LEMMA CopyCreate ==
  ASSUME MigrateTypeOK, CopyInv, Create
  PROVE  CopyInv'
<1>0. DbTyped /\ MigTyped /\ mig.pc = "create" /\ mig.refused = {} /\ mig.sel \in SUBSET Tables
      /\ mig.left \in SUBSET Tables
  BY TypeParts DEF Create, CopyInv, MigTyped, Migrations
<1>1. CASE Failed
  BY <1>1, FailedTyped DEF CopyInv, Copying, Copied
<1>2. CASE Moved("create", mig.left \ {Current})
  <2>1. mig'.pc = "create" /\ mig'.refused = {}
    BY <1>0, <1>2, MovedKeeps DEF Phases
  <2> QED
    BY <2>1 DEF CopyInv, Copying, Copied
<1>3. CASE Moved("truncate", mig.sel)
  <2>1. mig'.pc = "truncate" /\ mig'.refused = {} /\ mig'.left = mig.sel /\ mig'.sel = mig.sel
    BY ZenonT(60), <1>0, <1>3, MovedKeeps DEF Phases
  <2> QED
    BY <2>1 DEF CopyInv, Copying, Copied
<1> QED
  BY <1>0, <1>1, <1>2, <1>3, CreateTyped

(* A setting of a connection leaves the tables alone.                       *)
LEMMA CopyChecks ==
  ASSUME MigrateTypeOK, CopyInv, NEW c \in Conns, ChecksOff(c) \/ ChecksOn(c)
  PROVE  CopyInv'
<1>0. DbTyped /\ MigTyped /\ mig \in Migrations
  BY TypeParts DEF MigTyped
<1>1. PICK o \in SUBSET Conns, p \in {"checks off", "open"} :
        /\ mig' = [mig EXCEPT !.pc = p, !.off = o]
        /\ p = "open" => mig.pc = "checks on"
        /\ p = "checks off" => mig.pc = "truncate" /\ Dir = "to_mysql"
  BY ZenonT(60), <1>0, ChecksTyped
<1>2. /\ mig'.pc = p /\ mig'.to = mig.to /\ mig'.had = mig.had /\ mig'.refused = mig.refused /\ mig'.left = mig.left
      /\ mig'.sel = mig.sel /\ mig'.schema = mig.schema /\ mig'.read = mig.read /\ mig'.pending = mig.pending
  BY ZenonT(60), <1>0, <1>1 DEF Migrations
<1>3. Target' = Target /\ Dir' = Dir /\ Current' = Current
  <2>1. UNCHANGED db
    BY <1>0, ChecksTyped
  <2> QED
    BY <1>2, <2>1 DEF Target, Dir, Current
<1>4. Begun' = Begun
  BY <1>1, <1>2, <1>3 DEF Begun, Copying
<1>5. /\ \A t \in mig.left, u \in mig.sel : u > t => u \in mig.left
      /\ \A t \in mig.sel \ mig.left : Complete(t)
      /\ mig.refused \subseteq Begun
      /\ mig.pc = "checks on" /\ Current \notin mig.refused => Target.rows[Current] = {}
  BY <1>1 DEF CopyInv, Copying
<1>6. \A t \in mig.sel \ mig.left : Complete(t)'
  BY <1>2, <1>3, <1>4, <1>5, CompleteSame
<1>7. p = "checks off" => Dir' = "to_mysql"
  BY <1>1, <1>3
<1>8. p = "open" /\ Current' \notin mig'.refused => Target'.rows[Current'] = {}
  BY <1>1, <1>2, <1>3, <1>5
<1> QED
  BY <1>2, <1>4, <1>5, <1>6, <1>7, <1>8 DEF CopyInv, Copying, Copied

(* The application writes to the other service.                             *)
LEMMA CopyWrite ==
  ASSUME MigrateTypeOK, Aimed, CopyInv, SourceWrite
  PROVE  CopyInv'
<1>0. DbTyped /\ MigTyped /\ mig \in Migrations /\ mig.pc \notin {"idle", "failed"} /\ mig.to \in Services
  BY TypeParts DEF MigTyped, Migrations, SourceWrite, Idle
<1>1. /\ mig'.pc = mig.pc /\ mig'.to = mig.to /\ mig'.had = mig.had /\ mig'.refused = mig.refused /\ mig'.left = mig.left
      /\ mig'.sel = mig.sel /\ mig'.schema = mig.schema /\ mig'.read = mig.read /\ mig'.pending = mig.pending
  <2>1. mig' = [mig EXCEPT !.dirty = TRUE]
    BY <1>0, SourceWriteTyped
  <2> QED
    BY <1>0, <2>1 DEF Migrations
<1>2. Target' = Target /\ Dir' = Dir /\ Current' = Current
  <2>1. \A s \in Services : s # mig.from => db'[s] = db[s]
    BY <1>0, SourceWriteTyped
  <2>2. mig.to # mig.from
    BY <1>0 DEF Aimed
  <2> QED
    BY <1>0, <1>1, <2>1, <2>2 DEF Target, Dir, Current
<1>3. Begun' = Begun
  BY <1>1, <1>2 DEF Begun
<1>4. \A t : Complete(t) => Complete(t)'
  BY <1>1, <1>2, <1>3, CompleteSame
<1>5. Converted(Current, mig.read[Current] \ mig.pending)' = Converted(Current, mig.read[Current] \ mig.pending)
  BY <1>1, <1>2 DEF Converted
<1> QED
  BY ZenonT(60), <1>1, <1>2, <1>3, <1>4, <1>5 DEF CopyInv

(* A run begins with no table that was refused to be emptied.               *)
LEMMA CopyStart ==
  ASSUME MigrateTypeOK, CopyInv,
         Introspect \/ \E list \in Detected, from, to \in Services, filter \in Filters : Start(list, from, to, filter)
  PROVE  CopyInv'
<1>0. DbTyped /\ MigTyped
  BY TypeParts
<1>1. CASE Introspect
  <2>1. mig.refused = {}
    BY <1>1 DEF Introspect, CopyInv
  <2>2. mig'.refused = {} /\ mig'.pc = IF mig'.sel = {} THEN "done" ELSE "create"
    BY <1>0, <1>1, <2>1, IntrospectTyped
  <2> QED
    BY <2>2 DEF CopyInv, Copying, Copied
<1>2. CASE \E list \in Detected, from, to \in Services, filter \in Filters : Start(list, from, to, filter)
  <2>1. mig'.refused = {} /\ mig'.pc = "introspect"
    BY <1>0, <1>2, StartTyped
  <2> QED
    BY <2>1 DEF CopyInv, Copying, Copied
<1> QED
  BY <1>1, <1>2

LEMMA CopyNext ==
  ASSUME MigrateTypeOK, Aimed, CopyInv, [Next]_vars
  PROVE  CopyInv'
<1>1. CASE UNCHANGED vars
  <2>1. mig' = mig /\ Target' = Target /\ Dir' = Dir /\ Current' = Current
    BY <1>1 DEF vars, Target, Dir, Current
  <2>2. Begun' = Begun
    BY <2>1 DEF Begun
  <2>3. \A t : Complete(t) => Complete(t)'
    BY <2>1, <2>2, CompleteSame
  <2>4. Converted(Current, mig.read[Current] \ mig.pending)' = Converted(Current, mig.read[Current] \ mig.pending)
    BY <2>1 DEF Converted
  <2> QED
    BY <2>1, <2>2, <2>3, <2>4 DEF CopyInv
<1>2. CASE Interrupt
  <2>1. mig'.pc = "failed"
    BY <1>2, FailedTyped DEF Interrupt
  <2> QED
    BY <2>1 DEF CopyInv, Copying, Copied
<1>3. CASE SourceWrite
  BY <1>3, CopyWrite
<1>4. CASE MigrationStep
  BY <1>4, CopyStart, CopyCreate, CopyTruncate, CopyOpen, CopyEnd, CopyAfter, CopyChecks, CopyInsert DEF MigrationStep
<1>5. CASE \E list \in Detected, from, to \in Services, filter \in Filters : Start(list, from, to, filter)
  BY <1>5, CopyStart
<1> QED
  BY <1>1, <1>2, <1>3, <1>4, <1>5 DEF Next

(* At every moment of a migration, the tables done so far hold what their   *)
(* streams yielded, and the current one the batches inserted.               *)
THEOREM CopiedSoFar == Spec => [](MigrateTypeOK /\ Aimed /\ CopyInv)
<1>1. Init => CopyInv
  BY DEF Init, NoMigration, CopyInv, Copying, Copied
<1>2. MigrateTypeOK /\ Aimed /\ CopyInv /\ [Next]_vars => CopyInv'
  BY CopyNext
<1> QED
  BY <1>1, <1>2, MigrationAimed, PTL DEF Spec

(* When a migration reports its tables as done, each holds exactly what its *)
(* stream yielded, whatever the batches, the failures before and the        *)
(* connections taken, except children emptied again by a later TRUNCATE     *)
(* (transfer_mysql_to_pg, transfer_pg_to_mysql, db/migrate.rs:746-905).     *)
THEOREM CopiedComplete == Spec => []DoneComplete
<1>1. CopyInv => DoneComplete
  <2> SUFFICES ASSUME CopyInv, mig.pc = "done" PROVE \A t \in mig.sel : Complete(t) /\ (WipedSoFar(t) <=> Wiped(t))
    BY DEF DoneComplete, Complete
  <2>1. Begun = mig.sel
    BY DEF Begun, Copying
  <2> QED
    BY <2>1 DEF CopyInv, Copied, WipedSoFar, Wiped
<1> QED
  BY <1>1, CopiedSoFar, PTL
------------------------------------------------------------------------------
(* The ids that sequences and AUTO_INCREMENT hand out.                      *)

(* Only CREATE TABLE changes what tables there are and their columns.       *)
LEMMA DefsKept ==
  ASSUME MigrateTypeOK, [Next]_vars, ~Create
  PROVE  \A s \in Services : db'[s].def = db[s].def
<1>0. DbTyped /\ MigTyped /\ mig.to \in Services
  BY TypeParts DEF MigTyped, Migrations
<1>1. CASE UNCHANGED db
  BY <1>1
<1>2. CASE SourceWrite
  BY <1>0, <1>2, SourceWriteTyped
<1>3. CASE MigrationStep /\ Kept
  <2>1. mig.pc # "create"
    BY <1>3 DEF MigrationStep, Introspect, TruncatePg, OpenStream, EndOfStream, ChecksOff, TruncateMysql, InsertBatch,
                ChecksOn, CreateIndexes, SetSequence, AddForeignKeys
  <2>2. \A s \in Services : s # mig.to => db'[s] = db[s]
    BY <1>3 DEF Kept
  <2>3. db'[mig.to].def = db[mig.to].def
    BY <1>3, <2>1 DEF Kept, Target
  <2> QED
    BY <1>0, <2>2, <2>3
<1> QED
  BY ZenonT(60), <1>1, <1>2, <1>3, StepKeeps DEF Next, Start, Interrupt, vars

(* The schema in hand is the source's, whose tables nothing changes.        *)
LEMMA SchemaNext ==
  ASSUME MigrateTypeOK, Aimed, SchemaRead, [Next]_vars
  PROVE  SchemaRead'
<1>0. DbTyped /\ MigTyped /\ mig \in Migrations /\ mig.from \in Services
  BY TypeParts DEF MigTyped, Migrations
<1>1. CASE UNCHANGED vars
  BY <1>1 DEF vars, SchemaRead, Existing
<1>2. CASE Failed
  BY <1>2, FailedTyped DEF SchemaRead
<1>3. CASE SourceWrite
  <2>1. mig'.pc = mig.pc /\ mig'.sel = mig.sel /\ mig'.schema = mig.schema /\ mig'.from = mig.from
    <3>1. mig' = [mig EXCEPT !.dirty = TRUE]
      BY <1>0, <1>3, SourceWriteTyped
    <3> QED
      BY <1>0, <3>1 DEF Migrations
  <2>2. db'[mig.from].def = db[mig.from].def
    BY <1>0, <1>3, SourceWriteTyped
  <2> QED
    BY <2>1, <2>2 DEF SchemaRead, Existing
<1>4. CASE Introspect
  BY <1>0, <1>4, IntrospectTyped DEF SchemaRead, Existing
<1>5. CASE Kept /\ mig.pc # "introspect"
  <2>1. mig'.sel = mig.sel /\ mig'.schema = mig.schema /\ mig'.from = mig.from /\ mig.pc \notin {"idle", "failed", "introspect"}
    BY <1>5 DEF Kept
  <2>2. db'[mig.from] = db[mig.from]
    BY <1>0, <1>5, <2>1 DEF Kept, Aimed
  <2> QED
    BY <2>1, <2>2 DEF SchemaRead, Existing
<1>6. CASE \E list \in Detected, from, to \in Services, filter \in Filters : Start(list, from, to, filter)
  <2>1. mig'.pc = "introspect"
    BY <1>0, <1>6, StartTyped
  <2> QED
    BY <2>1 DEF SchemaRead
<1>7. CASE MigrationStep /\ ~Introspect
  <2>1. mig.pc # "introspect"
    BY <1>7 DEF MigrationStep, Create, TruncatePg, OpenStream, EndOfStream, ChecksOff, TruncateMysql, InsertBatch,
                ChecksOn, CreateIndexes, SetSequence, AddForeignKeys
  <2> QED
    BY <1>2, <1>5, <1>7, <2>1, StepKeeps
<1> QED
  BY <1>1, <1>2, <1>3, <1>4, <1>6, <1>7 DEF Next, Interrupt

(* A step of the migration leaves the next id of MySQL's tables free, and   *)
(* after the data that of PostgreSQL's.                                     *)
LEMMA IdsKept ==
  ASSUME MigrateTypeOK, MigrationStep, Kept, ~Create, NEW t \in Tables, IdsFree(Target, t),
         Kind[mig.to] = "mysql" \/ mig.pc \in {"index", "setval", "fks"}
  PROVE  IdsFree(db'[mig.to], t)
<1>0. DbTyped /\ MigTyped /\ mig.to \in Services /\ mig'.to = mig.to /\ db'[mig.to] = Target'
  BY TypeParts DEF MigTyped, Migrations, Kept, Target
<1>1. mig.pc # "introspect" => Current \in Tables /\ Current \in mig.sel
  BY CurrentIsLeft DEF Kept, Idle
<1>2. /\ Target \in Contents /\ Target.seq[t] \in Nat
      /\ \A r \in Target.rows[t] : r.id.n \in Nat
  BY <1>0 DEF DbTyped, Contents, Target, Rows, Cells
<1>3. CASE UNCHANGED db
  BY <1>3 DEF IdsFree, Target
<1>4. CASE TruncatePg \/ \E c \in Conns : TruncateMysql(c)
  <2>1. Current \in Tables /\ mig.pc \in {"truncate", "checks off"}
    BY <1>1, <1>4 DEF TruncatePg, TruncateMysql
  <2>2. PICK ts \in SUBSET Tables, p \in {"open", "checks on"} :
          \/ /\ db' = [db EXCEPT ![mig.to] = Emptied(@, ts)]
             /\ mig' = [mig EXCEPT !.pc = p]
          \/ /\ UNCHANGED db
             /\ mig' = [mig EXCEPT !.pc = p, !.refused = @ \cup {Current}]
    BY <1>4, <2>1, TruncateSteps
  <2>3. /\ Target'.def = Target.def
        /\ \/ /\ \A u \in Tables : Target'.rows[u] = IF u \in ts THEN {} ELSE Target.rows[u]
              /\ \A u \in Tables : Target'.seq[u] = IF u \in ts THEN 1 ELSE Target.seq[u]
           \/ UNCHANGED db
    BY ZenonT(60), <1>0, <2>1, <2>2, TruncateTyped
  <2> QED
    BY <1>0, <1>3, <2>3 DEF IdsFree
<1>5. CASE \E c \in Conns : InsertBatch(c)
  <2>1. PICK c \in Conns : InsertBatch(c)
    BY <1>5
  <2>2. Dir = "to_mysql" /\ mig.pc = "insert"
    BY <2>1 DEF InsertBatch, Dir
  <2>3. CASE \E batch \in SUBSET mig.pending :
               LET new == Converted(Current, batch)
               IN  /\ new \in SUBSET Rows
                   /\ \A s \in Services : s # mig.to => db'[s] = db[s]
                   /\ mig' = [mig EXCEPT !.pending = @ \ batch]
                   /\ Target'.def = Target.def /\ Target'.fks = Target.fks
                   /\ \A u \in Tables : Target'.rows[u] = IF u = Current THEN Target.rows[u] \cup new ELSE Target.rows[u]
                   /\ \A u \in Tables : Target.seq[u] <= Target'.seq[u]
                   /\ Dir = "to_mysql" => \A r \in new : r.id.n < Target'.seq[Current]
    <3>1. PICK batch \in SUBSET mig.pending :
               /\ Target'.def = Target.def
               /\ Target'.rows[t] = IF t = Current THEN Target.rows[t] \cup Converted(Current, batch) ELSE Target.rows[t]
               /\ Target.seq[t] <= Target'.seq[t]
               /\ \A r \in Converted(Current, batch) : r.id.n < Target'.seq[Current]
      BY <2>2, <2>3
    <3>2. DbTyped'
      BY <1>0, <1>1, <2>1, <2>2, InsertTyped
    <3>3. Target'.seq[t] \in Nat
      BY <1>0, <3>2 DEF DbTyped, Contents
    <3>4. \A r \in Target.rows[t] : Target'.def[t].id.auto => r.id.n < Target'.seq[t]
      BY <1>2, <3>1, <3>3 DEF IdsFree
    <3> QED
      BY <1>0, <3>1, <3>4 DEF IdsFree
  <2> QED
    BY <1>0, <1>1, <1>3, <2>1, <2>2, <2>3, InsertTyped
<1>6. CASE CreateIndexes
  BY <1>0, <1>6, CreateIndexesTyped DEF IdsFree
<1>7. CASE AddForeignKeys
  BY <1>0, <1>7, AddForeignKeysTyped DEF IdsFree
<1>8. CASE SetSequence
  <2>1. Current \in Tables
    BY <1>1, <1>8 DEF SetSequence
  <2>2. /\ Target'.def = Target.def /\ Target'.rows = Target.rows
        /\ \A u \in Tables : u # Current => Target'.seq[u] = Target.seq[u]
        /\ UNCHANGED db \/ \A r \in Target.rows[Current] : r.id.n < Target'.seq[Current]
    BY <1>0, <1>8, <2>1, SetSequenceTyped
  <2>3. CASE t = Current
    BY <1>0, <1>3, <2>2, <2>3 DEF IdsFree
  <2>4. CASE t # Current
    BY <1>0, <2>2, <2>4 DEF IdsFree
  <2> QED
    BY <2>3, <2>4
<1>9. CASE Introspect \/ OpenStream \/ EndOfStream \/ \E c \in Conns : ChecksOff(c) \/ ChecksOn(c)
  BY <1>3, <1>9 DEF Introspect, OpenStream, EndOfStream, ChecksOff, ChecksOn
<1> QED
  BY <1>4, <1>5, <1>6, <1>7, <1>8, <1>9 DEF MigrationStep
(* A column made for an AUTO_INCREMENT column or one with a sequence has    *)
(* one too, and the other way round, tinyint(1) apart.                      *)
LEMMA MadeAuto ==
  ASSUME NEW c \in ColumnDefs, c.auto => c.type # "tinyint(1)"
  PROVE  /\ MysqlToPg(c).auto = c.auto /\ (c.auto => MysqlToPg(c).type # "tinyint(1)")
         /\ PgToMysql(c).auto = c.auto /\ (c.auto => PgToMysql(c).type # "tinyint(1)")
<1>1. c.auto \in BOOLEAN
  BY DEF ColumnDefs
<1>2. CASE c.auto = TRUE
  <2>1. MysqlToPg(c).auto = TRUE /\ MysqlToPg(c).type \in {"bigint", "integer"}
    BY <1>2 DEF MysqlToPg, ColumnDefs
  <2>2. PgToMysql(c).auto = TRUE /\ PgToMysql(c).type \in {"bigint", "int"}
    BY <1>2 DEF PgToMysql, ColumnDefs
  <2>3. MysqlToPg(c).type # "tinyint(1)" /\ PgToMysql(c).type # "tinyint(1)"
    BY <2>1, <2>2
  <2> QED
    BY <1>2, <2>1, <2>2, <2>3
<1>3. CASE c.auto = FALSE
  <2>1. MysqlToPg(c).auto = FALSE
    BY <1>3 DEF MysqlToPg, ColumnDefs
  <2>2. PgToMysql(c).auto = FALSE
    BY <1>3 DEF PgToMysql, ColumnDefs
  <2> QED
    BY <1>3, <2>1, <2>2
<1> QED
  BY <1>1, <1>2, <1>3

(* CREATE TABLE agrees with the source about the ids, and the new table has *)
(* no rows.                                                                 *)
LEMMA IdCreate ==
  ASSUME MigrateTypeOK, Aimed, SchemaRead, SameIds(db), Create
  PROVE  SameIds(db')
<1> DEFINE C == Current
           new == TargetTable(C)
<1>0. /\ DbTyped /\ MigTyped /\ mig \in Migrations /\ mig.pc = "create"
      /\ mig.to \in Services /\ mig.from \in Services /\ mig.from # mig.to
  BY TypeParts DEF MigTyped, Migrations, Create, Aimed
<1>1. C \in Tables /\ C \in mig.sel
  BY <1>0, CurrentIsLeft DEF Idle
<1>2. CASE UNCHANGED db
  BY <1>2
<1>3. CASE C \notin Existing(Target) /\ db' = [db EXCEPT ![mig.to].def[C] = new]
  <2>1. C \in Existing(db[mig.from]) /\ mig.schema[C] = db[mig.from].def[C]
    BY <1>0, <1>1 DEF SchemaRead
  <2>2. mig.schema[C] \in TableDefs /\ mig.schema[C].id \in ColumnDefs
    BY <1>0, <1>1 DEF Migrations, TableDefs
  <2>3. mig.schema[C].id.auto => mig.schema[C].id.type # "tinyint(1)"
    BY <1>0, <1>1, <2>1 DEF SameIds
  <2>4. new.id = MysqlToPg(mig.schema[C].id) \/ new.id = PgToMysql(mig.schema[C].id)
    BY DEF TargetTable, PgTable, MysqlTable
  <2>5. new.id.auto = db[mig.from].def[C].id.auto /\ (new.id.auto => new.id.type # "tinyint(1)")
    BY <2>1, <2>2, <2>3, <2>4, MadeAuto
  <2> HIDE DEF new
  <2>6. \A s \in Services : /\ db'[s].rows = db[s].rows /\ db'[s].seq = db[s].seq
                            /\ s # mig.to => db'[s].def = db[s].def
                            /\ s = mig.to => \A t \in Tables : db'[s].def[t] = IF t = C THEN new ELSE db[s].def[t]
    <3>1. db \in [Services -> Contents]
      BY <1>0 DEF DbTyped
    <3>2. \A s \in Services : db'[s] = IF s = mig.to THEN [db[s] EXCEPT !.def[C] = new] ELSE db[s]
      BY <1>3, <3>1
    <3>3. [db[mig.to] EXCEPT !.def[C] = new].rows = db[mig.to].rows /\ [db[mig.to] EXCEPT !.def[C] = new].seq = db[mig.to].seq
          /\ [db[mig.to] EXCEPT !.def[C] = new].def = [db[mig.to].def EXCEPT ![C] = new]
      BY <1>0, <3>1 DEF Contents
    <3>4. db[mig.to].def \in [Tables -> TableDefs]
      BY <1>0, <3>1 DEF Contents
    <3>5. \A t \in Tables : [db[mig.to].def EXCEPT ![C] = new][t] = IF t = C THEN new ELSE db[mig.to].def[t]
      BY <1>1, <3>4
    <3>6. db'[mig.to] = [db[mig.to] EXCEPT !.def[C] = new]
      BY <1>0, <3>2
    <3>7. /\ db'[mig.to].rows = db[mig.to].rows /\ db'[mig.to].seq = db[mig.to].seq
          /\ \A t \in Tables : db'[mig.to].def[t] = IF t = C THEN new ELSE db[mig.to].def[t]
      BY <3>3, <3>5, <3>6
    <3> TAKE s \in Services
    <3>8. CASE s = mig.to
      BY <3>7, <3>8
    <3>9. CASE s # mig.to
      BY <3>2, <3>9
    <3> QED
      BY <3>8, <3>9
  <2>7. \A s \in Services, t \in Tables : \/ db'[s].def[t] = db[s].def[t]
                                          \/ s = mig.to /\ t = C /\ db'[s].def[t] = new
    BY <2>6
  <2>8. ASSUME NEW s \in Services, NEW t \in Existing(db'[s])
        PROVE  \E v \in Services : /\ t \in Existing(db[v]) /\ db'[s].def[t].id.auto = db[v].def[t].id.auto
    <3>1. CASE db'[s].def[t] = db[s].def[t]
      BY <3>1 DEF Existing
    <3>2. CASE t = C /\ db'[s].def[t] = new
      BY <1>0, <2>1, <2>5, <3>2
    <3> QED
      BY <2>7, <3>1, <3>2 DEF Existing
  <2>9. ASSUME NEW s \in Services, NEW u \in Services, NEW t \in Existing(db'[s]) \cap Existing(db'[u])
        PROVE  db'[s].def[t].id.auto = db'[u].def[t].id.auto
    <3>1. PICK v \in Services : t \in Existing(db[v]) /\ db'[s].def[t].id.auto = db[v].def[t].id.auto
      BY <2>8
    <3>2. PICK w \in Services : t \in Existing(db[w]) /\ db'[u].def[t].id.auto = db[w].def[t].id.auto
      BY <2>8
    <3> QED
      BY <3>1, <3>2 DEF SameIds
  <2>10. \A s \in Services, t \in Tables : db'[s].def[t].id.auto => db'[s].def[t].id.type # "tinyint(1)"
    BY <2>5, <2>7 DEF SameIds
  <2>11. ASSUME NEW s \in Services, NEW t \in Tables, Kind[s] = "mysql" PROVE IdsFree(db'[s], t)
    <3>1. CASE db'[s].def[t] = db[s].def[t]
      BY <2>6, <2>11, <3>1 DEF SameIds, IdsFree
    <3>2. CASE s = mig.to /\ t = C
      <4>1. db[s].rows[t] = {}
        BY <1>0, <1>1, <1>3, <3>2 DEF DbTyped, Consistent, Target
      <4> QED
        BY <2>6, <4>1 DEF IdsFree
    <3> QED
      BY <2>7, <3>1, <3>2
  <2> QED
    BY <2>9, <2>10, <2>11 DEF SameIds
<1> QED
  BY <1>0, <1>2, <1>3, CreateTyped

(* The services agree about the ids after every step, and MySQL's next ids  *)
(* stay free.                                                               *)
LEMMA SameIdsNext ==
  ASSUME MigrateTypeOK, Aimed, SchemaRead, SameIds(db), [Next]_vars
  PROVE  SameIds(db')
<1>0. DbTyped /\ MigTyped /\ mig.to \in Services
  BY TypeParts DEF MigTyped, Migrations
<1>1. CASE Create
  BY <1>1, IdCreate
<1>2. CASE ~Create
  <2>1. \A s \in Services : db'[s].def = db[s].def
    BY <1>2, DefsKept
  <2>2. ASSUME NEW s \in Services, NEW t \in Tables, Kind[s] = "mysql" PROVE IdsFree(db'[s], t)
    <3>1. IdsFree(db[s], t)
      BY <2>2 DEF SameIds
    <3>2. CASE UNCHANGED db
      BY <3>1, <3>2
    <3>3. CASE SourceWrite
      BY <1>0, <3>1, <3>3, SourceWriteTyped
    <3>4. CASE MigrationStep /\ Kept
      <4>1. CASE s # mig.to
        BY <3>1, <3>4, <4>1 DEF Kept
      <4>2. CASE s = mig.to
        BY <1>2, <2>2, <3>1, <3>4, <4>2, IdsKept DEF Target
      <4> QED
        BY <4>1, <4>2
    <3> QED
      BY ZenonT(60), <3>2, <3>3, <3>4, StepKeeps DEF Next, Start, Interrupt, vars
  <2>3. \A s \in Services : Existing(db'[s]) = Existing(db[s])
    BY <2>1 DEF Existing
  <2>4. \A s, u \in Services : \A t \in Existing(db'[s]) \cap Existing(db'[u]) :
           db'[s].def[t].id.auto = db'[u].def[t].id.auto
    <3> SUFFICES ASSUME NEW s \in Services, NEW u \in Services, NEW t \in Existing(db'[s]) \cap Existing(db'[u])
                 PROVE  db'[s].def[t].id.auto = db'[u].def[t].id.auto
      OBVIOUS
    <3>1. t \in Existing(db[s]) \cap Existing(db[u])
      BY <2>3
    <3>2. db'[s].def = db[s].def /\ db'[u].def = db[u].def
      BY <2>1
    <3> QED
      BY <3>1, <3>2 DEF SameIds
  <2>5. \A s \in Services, t \in Tables : db'[s].def[t].id.auto => db'[s].def[t].id.type # "tinyint(1)"
    BY <2>1 DEF SameIds
  <2> QED
    BY <2>2, <2>4, <2>5 DEF SameIds
<1> QED
  BY <1>1, <1>2
(* The steps up to the last batch of a table but the last.                  *)
LEMMA IdPhase ==
  ASSUME MigrateTypeOK,
         \/ Create \/ TruncatePg \/ OpenStream
         \/ \E c \in Conns : ChecksOff(c) \/ TruncateMysql(c) \/ InsertBatch(c) \/ ChecksOn(c)
  PROVE  mig'.pc \notin {"setval", "fks", "done"}
<1>0. DbTyped /\ MigTyped /\ mig \in Migrations
  BY TypeParts DEF MigTyped
<1>1. CASE Create
  <2>1. CASE Failed
    BY <2>1, FailedTyped
  <2>2. CASE Moved("create", mig.left \ {Current}) \/ Moved("truncate", mig.sel)
    BY <1>0, <2>2 DEF Moved, Migrations
  <2> QED
    BY <1>0, <1>1, <2>1, <2>2, CreateTyped
<1>2. CASE TruncatePg \/ OpenStream
  BY ZenonT(60), <1>0, <1>2 DEF TruncatePg, OpenStream, Migrations
<1>3. ASSUME NEW c \in Conns, ChecksOff(c) \/ TruncateMysql(c) \/ ChecksOn(c) PROVE mig'.pc \notin {"setval", "fks", "done"}
  BY ZenonT(60), <1>0, <1>3 DEF ChecksOff, TruncateMysql, ChecksOn, Migrations
<1>4. ASSUME NEW c \in Conns, InsertBatch(c) PROVE mig'.pc \notin {"setval", "fks", "done"}
  BY <1>0, <1>4, FailedTyped DEF InsertBatch, Migrations
<1> QED
  BY <1>1, <1>2, <1>3, <1>4

(* setval leaves the next id of the current table free.                     *)
LEMMA IdSetval ==
  ASSUME MigrateTypeOK, SchemaRead, IdInv, SetSequence, Kept
  PROVE  \A t \in (mig.sel \ (mig.left \ {Current})) \ mig'.unset : IdsFree(Target', t)
<1>0. /\ DbTyped /\ MigTyped /\ mig.pc = "setval" /\ mig.sel \subseteq Tables /\ mig.sel \subseteq Existing(Target)
      /\ mig.to \in Services /\ mig.from \in Services /\ db'[mig.to] = Target'
  BY ZenonT(60), TypeParts DEF MigTyped, Migrations, SetSequence, Kept, Target
<1>1. Current \in Tables /\ Current \in mig.sel
  BY <1>0, CurrentIsLeft DEF Idle
<1>2. ASSUME NEW t \in (mig.sel \ mig.left) \ mig'.unset PROVE IdsFree(Target', t)
  <2>0. t \notin mig.unset
    BY <1>0, <1>1, SetSequenceTyped
  <2>1. IdsFree(Target, t) /\ t \in Tables
    BY <1>0, <2>0 DEF IdInv
  <2>2. MigrationStep /\ ~Create
    BY <1>0 DEF MigrationStep, Create
  <2> QED
    BY <1>0, <2>1, <2>2, IdsKept
<1>3. Current \in mig'.unset \/ IdsFree(Target', Current)
  <2>1. /\ Target'.def = Target.def /\ Target'.rows = Target.rows
        /\ \/ mig.schema[Current].id.auto /\ Target.def[Current].id.auto => Current \in mig'.unset
           \/ \A r \in Target.rows[Current] : r.id.n < Target'.seq[Current]
    BY <1>0, <1>1, SetSequenceTyped
  <2>2. Current \in Existing(db[mig.from]) /\ mig.schema[Current] = db[mig.from].def[Current]
    BY <1>0, <1>1 DEF SchemaRead
  <2>3. mig.schema[Current].id.auto = Target.def[Current].id.auto
    BY <1>0, <1>1, <2>2 DEF IdInv, SameIds, Target
  <2> QED
    BY <2>1, <2>3 DEF IdsFree
<1> QED
  BY <1>2, <1>3

LEMMA IdNext ==
  ASSUME MigrateTypeOK, Aimed, SchemaRead, IdInv, [Next]_vars
  PROVE  IdInv'
<1>0. DbTyped /\ MigTyped /\ mig \in Migrations /\ mig.to \in Services
  BY TypeParts DEF MigTyped, Migrations
<1>1. SameIds(db)'
  BY SameIdsNext DEF IdInv
<1>2. CASE UNCHANGED vars
  <2>1. mig' = mig /\ Target' = Target /\ Dir' = Dir
    BY <1>2 DEF vars, Target, Dir
  <2> QED
    BY <1>1, <2>1 DEF IdInv
<1>3. CASE mig'.pc \notin {"setval", "fks", "done"}
  BY <1>1, <1>3 DEF IdInv
<1>4. CASE SourceWrite
  <2>1. mig'.pc = mig.pc /\ mig'.to = mig.to /\ mig'.left = mig.left /\ mig'.sel = mig.sel /\ mig'.unset = mig.unset
    <3>1. mig' = [mig EXCEPT !.dirty = TRUE]
      BY SMTT(60), <1>0, <1>4, SourceWriteTyped
    <3> QED
      BY <1>0, <3>1 DEF Migrations
  <2>2. mig.to # mig.from
    BY ZenonT(60), <1>4 DEF SourceWrite, Idle, Aimed
  <2>3. \A s \in Services : s # mig.from => db'[s] = db[s]
    BY <1>0, <1>4, SourceWriteTyped
  <2>4. Target' = Target /\ Dir' = Dir
    BY <1>0, <2>1, <2>2, <2>3 DEF Target, Dir
  <2> QED
    BY <1>1, <2>1, <2>4 DEF IdInv
<1>5. CASE Introspect
  <2>1. mig'.pc = "create" \/ (mig'.pc = "done" /\ mig'.sel = {})
    BY <1>0, <1>5, IntrospectTyped
  <2> QED
    BY <1>1, <2>1 DEF IdInv
<1>6. CASE EndOfStream
  <2>1. PICK p \in {"truncate", "index", "done"}, l \in SUBSET Tables : Moved(p, l) /\ (p = "done" => Dir = "to_mysql")
    <3>1. mig.left \ {Current} \in SUBSET Tables /\ mig.sel \in SUBSET Tables /\ {} \in SUBSET Tables
      BY <1>0 DEF Migrations
    <3> QED
      BY <1>0, <1>6, <3>1, EndOfStreamTyped
  <2>2. mig'.pc = p /\ mig'.to = mig.to
    BY <1>0, <2>1, MovedKeeps DEF Phases
  <2>3. CASE p = "done"
    <3>1. Dir' = "to_mysql" /\ mig'.pc = "done"
      BY <2>1, <2>2, <2>3 DEF Dir
    <3> QED
      BY <1>1, <3>1 DEF IdInv
  <2>4. CASE p # "done"
    BY <1>3, <2>1, <2>2, <2>4
  <2> QED
    BY <2>3, <2>4
<1>7. CASE CreateIndexes
  <2>1. mig.left \ {Current} \in SUBSET Tables /\ mig.sel \in SUBSET Tables
    BY <1>0 DEF Migrations
  <2>2. \A p \in {"index", "setval"}, l \in SUBSET Tables : Moved(p, l) => mig'.pc = p /\ mig'.left = l /\ mig'.sel = mig.sel
    BY <1>0, MovedKeeps DEF Phases
  <2>3. mig'.pc = "index" \/ (mig'.pc = "setval" /\ mig'.left = mig'.sel)
    BY <1>0, <1>7, <2>1, <2>2, CreateIndexesTyped
  <2> QED
    BY <1>1, <2>3 DEF IdInv
<1>8. CASE SetSequence /\ Kept
  <2>1. \A t \in (mig.sel \ (mig.left \ {Current})) \ mig'.unset : IdsFree(Target', t)
    BY <1>8, IdSetval
  <2>2. Current \in Tables
    BY <1>0, <1>8, CurrentIsLeft DEF SetSequence, Idle
  <2>3. mig.left \ {Current} \in SUBSET Tables /\ mig.sel \in SUBSET Tables
    BY <1>0 DEF Migrations
  <2>4. \A p \in {"setval", "fks"}, l \in SUBSET Tables : Moved(p, l) => mig'.pc = p /\ mig'.left = l /\ mig'.sel = mig.sel
    BY <1>0, MovedKeeps DEF Phases
  <2>5. CASE Moved("setval", mig.left \ {Current})
    <3>1. mig'.pc = "setval" /\ mig'.left = mig.left \ {Current} /\ mig'.sel = mig.sel
      BY <2>3, <2>4, <2>5
    <3> QED
      BY <1>1, <2>1, <3>1 DEF IdInv
  <2>6. CASE mig.left \ {Current} = {} /\ Moved("fks", mig.sel)
    <3>1. mig'.pc = "fks" /\ mig'.sel = mig.sel
      BY <2>3, <2>4, <2>6
    <3>2. \A t \in mig.sel \ mig'.unset : IdsFree(Target', t)
      BY <2>1, <2>6
    <3> QED
      BY <1>1, <3>1, <3>2 DEF IdInv
  <2> QED
    BY <1>0, <1>8, <2>2, <2>5, <2>6, SetSequenceTyped
<1>9. CASE AddForeignKeys /\ Kept
  <2>1. mig.pc = "fks" /\ mig'.pc \in {"fks", "done"} /\ mig'.sel = mig.sel /\ db'[mig.to] = Target'
    BY <1>9 DEF AddForeignKeys, Kept, Target
  <2>3. mig'.unset = mig.unset
    BY <1>0, <1>9, AddForeignKeysTyped
  <2>2. ASSUME NEW t \in mig.sel \ mig.unset PROVE IdsFree(Target', t)
    <3>1. IdsFree(Target, t) /\ t \in Tables
      BY <1>0, <2>1 DEF IdInv, Migrations
    <3>2. MigrationStep /\ ~Create
      BY <1>9 DEF MigrationStep, Create, AddForeignKeys
    <3> QED
      BY <1>9, <2>1, <3>1, <3>2, IdsKept
  <2> QED
    BY <1>1, <2>1, <2>2, <2>3 DEF IdInv
<1>10. CASE Failed
  BY <1>3, <1>10, FailedTyped
<1>11. CASE \E list \in Detected, from, to \in Services, filter \in Filters : Start(list, from, to, filter)
  <2>1. mig'.pc = "introspect"
    BY <1>0, <1>11, StartTyped
  <2> QED
    BY <1>3, <2>1
<1>12. CASE MigrationStep /\ Kept
  <2>1. CASE Create \/ TruncatePg \/ OpenStream \/ \E c \in Conns : ChecksOff(c) \/ TruncateMysql(c) \/ InsertBatch(c) \/ ChecksOn(c)
    <3>1. mig'.pc \notin {"setval", "fks", "done"}
      BY <2>1, IdPhase
    <3> QED
      BY <1>3, <3>1
  <2> QED
    BY <1>5, <1>6, <1>7, <1>8, <1>9, <1>12, <2>1 DEF MigrationStep
<1> QED
  BY <1>2, <1>4, <1>10, <1>11, <1>12, StepKeeps DEF Next, Interrupt

(* At every moment the services agree about the ids, MySQL's next ids are   *)
(* free, and PostgreSQL's are for the tables whose sequence has been set.   *)
THEOREM IdsAgree ==
  ASSUME \A d \in Databases : SameIds(d)
  PROVE  Spec => [](SchemaRead /\ IdInv)
<1>1. Init => SchemaRead /\ IdInv
  BY DEF Init, NoMigration, SchemaRead, IdInv
<1>2. MigrateTypeOK /\ Aimed /\ SchemaRead /\ IdInv /\ [Next]_vars => (SchemaRead /\ IdInv)'
  BY SchemaNext, IdNext
<1> QED
  BY <1>1, <1>2, MigrationAimed, PTL DEF Spec

(* After a migration every id of a table is below the next one its sequence *)
(* or AUTO_INCREMENT hands out, so that the application can go on           *)
(* inserting: wherever the services agree which ids are automatic, and of   *)
(* every table but those whose setval failed unnoticed (db/migrate.rs:      *)
(* 198-214).                                                                *)
THEOREM NextIdsFree ==
  ASSUME \A d \in Databases : SameIds(d)
  PROVE  Spec => []NextIdFree
<1>1. MigrateTypeOK /\ IdInv => NextIdFree
  <2> SUFFICES ASSUME MigrateTypeOK, IdInv, mig.pc = "done", NEW t \in mig.sel \ mig.unset PROVE IdsFree(Target, t)
    BY DEF NextIdFree, IdsFree
  <2>1. mig.to \in Services /\ t \in Tables
    BY DEF MigrateTypeOK, Migrations
  <2>2. CASE Dir = "to_pg"
    BY <2>2 DEF IdInv
  <2>3. CASE Dir # "to_pg"
    <3>1. Kind[mig.to] = "mysql"
      BY <2>1, <2>3, MigrateAssumption DEF Dir
    <3> QED
      BY <2>1, <3>1 DEF IdInv, SameIds, Target
  <2> QED
    BY <2>2, <2>3
<1> QED
  BY <1>1, IdsAgree, MigrateTypeCorrect, PTL
------------------------------------------------------------------------------
(* A first migration to PostgreSQL.                                         *)

(* An id that a row may refer to is stored as it is or not at all.          *)
LEMMA StoredId ==
  ASSUME NEW n \in Nat, NEW from, from # "tinyint(1)", NEW to
  PROVE  PgStore(to, PgLiteral(ExtractMysql(from, Value("int", n)))) \in {Value("int", n), Refused}
<1> DEFINE v == Value("int", n)
<1>1. v.k = "int" /\ v.n = n
  BY DEF Value
<1>2. ExtractMysql(from, v) = v
  BY <1>1 DEF ExtractMysql, Undecodable
<1>3. PgLiteral(v) = v
  BY <1>1 DEF PgLiteral
<1>4. v # Null
  BY <1>1 DEF Null, Value
<1> HIDE DEF v
<1>5. PgStore(to, v) \in {v, Refused}
  BY <1>1, <1>4 DEF PgStore
<1> QED
  BY <1>2, <1>3, <1>5 DEF v

(* TRUNCATE ... CASCADE stops at a table nothing refers to.                 *)
LEMMA ReachesItself ==
  ASSUME NEW fks \in SUBSET ForeignKeys, NEW t \in Tables, \A e \in fks : e[2] # t
  PROVE  Reaching(fks, t) = {t}
<1>1. Referrers(fks, t) = {}
  BY DEF Referrers
<1>2. \A w \in {t} : Referrers(fks, w) \subseteq {t}
  BY <1>1
<1>3. {t} \in SUBSET Tables
  OBVIOUS
<1>4. Reaching(fks, t) \subseteq {t}
  BY <1>2, <1>3 DEF Reaching
<1> QED
  BY <1>4, ReachedTables

(* What every step after the schema has been read keeps.                    *)
LEMMA FirstKeeps ==
  ASSUME MigrateTypeOK, Aimed, Kept, mig.pc # "introspect", FirstSchema
  PROVE  /\ Source' = Source /\ mig'.schema = mig.schema /\ mig'.sel = mig.sel /\ mig'.fks = mig.fks
         /\ FirstSchema'
<1>1. mig.from \in Services /\ mig.to # mig.from /\ mig'.from = mig.from
  BY DEF MigrateTypeOK, Migrations, Kept, Aimed
<1>2. Source' = Source
  BY <1>1 DEF Source, Kept
<1>3. mig'.schema = mig.schema /\ mig'.sel = mig.sel /\ mig'.fks = mig.fks /\ mig'.had = mig.had /\ mig'.pc # "introspect"
  BY DEF Kept
<1> QED
  BY <1>2, <1>3 DEF FirstSchema

LEMMA FirstTablesKept ==
  ASSUME MigrateTypeOK, Aimed, Kept, mig.pc \notin {"introspect", "create"}, mig'.pc # "create", FirstTables
  PROVE  Target'.def = Target.def /\ FirstTables'
BY DEF Kept, FirstTables

(* Reading the schema: none of the tables exists in the target.             *)
LEMMA FirstIntrospect ==
  ASSUME MigrateTypeOK, Introspect, Dir = "to_pg", FirstSchema
  PROVE  FirstSchema' /\ FirstTables' /\ FirstRows' /\ FirstFks'
<1>0. DbTyped /\ MigTyped /\ mig.to \in Services /\ mig.pc = "introspect"
  BY TypeParts DEF MigTyped, Migrations, Introspect
<1>1. /\ Source' = Source /\ Target' = Target /\ mig'.left = mig'.sel
      /\ mig'.pc = IF mig'.sel = {} THEN "done" ELSE "create"
      /\ mig'.had = Target.fks
      /\ mig'.fks = {e \in Source.fks : e[1] \in mig'.sel}
      /\ mig'.sel = Existing(Source) \cap mig.left
  BY <1>0, IntrospectTyped DEF Source, Target
<1>2. \A t \in mig'.sel : t \notin Existing(Target) /\ t \in Tables
  BY <1>0, <1>1 DEF FirstSchema, Existing
<1>3. \A t \in mig'.sel : Target.rows[t] = {}
  BY <1>0, <1>2 DEF DbTyped, Consistent, Target
<1>4. \A e \in mig'.had : e[1] \notin mig'.sel /\ e[2] \notin mig'.sel
  BY <1>0, <1>1, <1>2 DEF DbTyped, Consistent, Target
<1>5. mig'.pc # "introspect" /\ mig'.pc \notin Copying /\ (mig'.pc \in Copied => mig'.sel = {}) /\ mig'.pc # "fks"
      /\ (mig'.pc # "create" => mig'.sel = {})
  BY <1>1 DEF Copying, Copied
<1>6. FirstSchema'
  BY <1>0, <1>1, <1>4, <1>5 DEF FirstSchema
<1>7. FirstTables'
  BY <1>1, <1>2, <1>5 DEF FirstTables
<1>8. FirstRows'
  BY <1>1, <1>3, <1>5 DEF FirstRows, Copying
<1>9. FirstFks'
  BY <1>1, <1>5 DEF FirstFks
<1> QED
  BY <1>6, <1>7, <1>8, <1>9

(* Creating a table.                                                        *)
LEMMA FirstCreate ==
  ASSUME MigrateTypeOK, Aimed, Create, Kept, Dir = "to_pg", FirstSchema, FirstTables, FirstRows
  PROVE  FirstTables' /\ FirstRows' /\ FirstFks'
<1> DEFINE C == Current
<1>0. /\ DbTyped /\ MigTyped /\ mig.to \in Services /\ mig.pc = "create" /\ mig.sel \in SUBSET Tables
      /\ mig.left \in SUBSET Tables /\ Target \in Contents
  BY TypeParts DEF MigTyped, Migrations, Create, DbTyped, Target
<1>1. C \in Tables /\ C \in mig.left /\ C \in mig.sel
  BY <1>0, CurrentIsLeft DEF Idle
<1>2. C \notin Existing(Target)
  BY <1>0, <1>1 DEF FirstTables
<1>3. ~Failed
  BY FailedTyped DEF Kept
<1>4. db' = [db EXCEPT ![mig.to].def[C] = PgTable(mig.schema[C])]
  <2>1. db' = [db EXCEPT ![mig.to].def[C] = TargetTable(C)]
    BY <1>0, <1>2, <1>3, CreateTyped
  <2> QED
    BY <2>1 DEF TargetTable
<1>5. /\ mig'.sel = mig.sel /\ mig'.schema = mig.schema /\ mig'.to = mig.to
      /\ \/ mig'.pc = "create" /\ mig'.left = mig.left \ {C}
         \/ mig'.pc = "truncate" /\ mig'.left = mig.sel /\ mig.left = {C}
  <2>1. CASE Moved("create", mig.left \ {C})
    BY <1>0, <2>1, MovedKeeps DEF Phases
  <2>2. CASE Moved("truncate", mig.sel) /\ mig.left = {C}
    BY <1>0, <2>2, MovedKeeps DEF Phases
  <2> QED
    BY <1>0, <1>3, <2>1, <2>2, CreateTyped
<1> DEFINE new == PgTable(mig.schema[C])
<1>6. Target' = [Target EXCEPT !.def[C] = new]
  BY <1>0, <1>4, <1>5 DEF Target, DbTyped
<1>7. /\ Target'.rows = Target.rows
      /\ \A t \in Tables : Target'.def[t] = IF t = C THEN new ELSE Target.def[t]
  <2>1. Target.def \in [Tables -> TableDefs]
    BY <1>0 DEF Contents
  <2> HIDE DEF C, new
  <2>2. Target'.rows = Target.rows /\ Target'.def = [Target.def EXCEPT ![C] = new]
    BY <1>0, <1>6 DEF Contents
  <2> QED
    BY <1>1, <2>1, <2>2
<1> HIDE DEF C, new
<1>8. FirstTables'
  <2>1. ASSUME NEW t \in mig.sel, t # C
        PROVE  /\ t \in mig.left => t \notin Existing(Target')
               /\ t \notin mig.left => Target'.def[t] = PgTable(mig.schema[t])
    <3>1. Target'.def[t] = Target.def[t]
      BY <1>0, <1>7, <2>1
    <3> QED
      BY <1>0, <2>1, <3>1 DEF FirstTables, Existing
  <2>2. Target'.def[C] = PgTable(mig.schema[C])
    BY <1>1, <1>7 DEF new
  <2> QED
    BY <1>5, <2>1, <2>2 DEF FirstTables
<1>9. FirstRows'
  BY <1>0, <1>5, <1>7 DEF FirstRows, Copying, Copied
<1> QED
  BY <1>5, <1>8, <1>9 DEF FirstFks

(* Emptying a table, which is empty, and no other.                          *)
LEMMA FirstTruncate ==
  ASSUME MigrateTypeOK, Aimed, Kept, Dir = "to_pg", FirstSchema, FirstTables, FirstRows,
         TruncatePg \/ \E c \in Conns : TruncateMysql(c)
  PROVE  FirstTables' /\ FirstRows' /\ FirstFks'
<1> DEFINE C == Current
<1>0. /\ DbTyped /\ MigTyped /\ mig \in Migrations /\ mig.pc \in {"truncate", "checks off"} /\ mig.sel \in SUBSET Tables
  BY TypeParts DEF MigTyped, Migrations, TruncatePg, TruncateMysql
<1>1. C \in Tables /\ C \in mig.left /\ C \in mig.sel /\ mig.left \subseteq mig.sel
  BY <1>0, CurrentIsLeft DEF Idle, MigTyped
<1>2. Reaching(Target.fks, C) = {C}
  <2>1. Target.fks = mig.had /\ mig.had \in SUBSET ForeignKeys
    BY <1>0 DEF Aimed, Copying, Migrations
  <2>2. \A e \in mig.had : e[2] # C
    BY <1>0, <1>1 DEF FirstSchema
  <2> QED
    BY <1>1, <2>1, <2>2, ReachesItself
<1>3. PICK ts \in SUBSET Tables, p \in {"open", "checks on"} :
        /\ ts = {C}
        /\ \/ /\ db' = [db EXCEPT ![mig.to] = Emptied(@, ts)]
              /\ mig' = [mig EXCEPT !.pc = p]
           \/ /\ UNCHANGED db
              /\ mig' = [mig EXCEPT !.pc = p, !.refused = @ \cup {C}]
  BY <1>1, <1>2, TruncateSteps
<1>4. mig'.pc = p /\ mig'.left = mig.left /\ mig'.sel = mig.sel /\ mig'.schema = mig.schema /\ mig'.to = mig.to
  <2>1. CASE mig' = [mig EXCEPT !.pc = p]
    BY <1>0, <2>1 DEF Migrations
  <2>2. CASE mig' = [mig EXCEPT !.pc = p, !.refused = @ \cup {C}]
    BY <1>0, <2>2 DEF Migrations
  <2> QED
    BY <1>3, <2>1, <2>2
<1>5. \A t \in Tables : Target'.rows[t] = Target.rows[t] \/ (t = C /\ Target'.rows[t] = {})
  <2>1. \/ \A t \in Tables : Target'.rows[t] = IF t \in ts THEN {} ELSE Target.rows[t]
        \/ Target' = Target
    BY ZenonT(60), <1>0, <1>1, <1>3, TruncateTyped
  <2> QED
    BY <1>3, <2>1
<1>6. Target'.def = Target.def /\ FirstTables' /\ Source' = Source
  BY <1>0, <1>3, <1>4, FirstKeeps, FirstTablesKept
<1>7. mig.pc \in Copying /\ mig.pc # "insert" /\ mig'.pc \in Copying /\ mig'.pc \notin {"create", "insert"} \cup Copied
  BY <1>0, <1>3, <1>4 DEF Copying, Copied
<1> HIDE DEF C
<1>8. \A t \in mig.left : Target'.rows[t] = {}
  BY <1>0, <1>1, <1>5, <1>7 DEF FirstRows
<1>9. \A t \in mig.sel \ mig.left : Target'.rows[t] = Target.rows[t]
  BY <1>0, <1>1, <1>5
<1>10. FirstRows'
  BY <1>4, <1>6, <1>7, <1>8, <1>9 DEF FirstRows, CopyOf
<1> QED
  BY <1>6, <1>7, <1>10 DEF FirstFks, Copied
(* Settings of connections, and the query of the source's rows.             *)
LEMMA FirstOpen ==
  ASSUME MigrateTypeOK, Aimed, Kept, Dir = "to_pg", FirstSchema, FirstTables, FirstRows,
         OpenStream \/ \E c \in Conns : ChecksOff(c) \/ ChecksOn(c)
  PROVE  FirstTables' /\ FirstRows' /\ FirstFks'
<1> DEFINE C == Current
<1>0. /\ DbTyped /\ MigTyped /\ mig \in Migrations /\ mig.pc \in {"truncate", "checks on", "open"} /\ mig.sel \in SUBSET Tables
      /\ UNCHANGED db
  BY TypeParts DEF MigTyped, Migrations, OpenStream, ChecksOff, ChecksOn
<1>1. C \in Tables /\ C \in mig.left /\ C \in mig.sel
  BY <1>0, CurrentIsLeft DEF Idle
<1>2. /\ mig'.left = mig.left /\ mig'.sel = mig.sel /\ mig'.schema = mig.schema /\ mig'.to = mig.to
      /\ mig'.pc \in {"checks off", "open", "insert"}
      /\ mig'.pc = "insert" => mig'.pending = Source.rows[C]
  BY ZenonT(60), <1>0 DEF OpenStream, ChecksOff, ChecksOn, Migrations, Source
<1>3. Source' = Source /\ Target' = Target /\ C' = C
  BY <1>0, <1>2, FirstKeeps DEF Target, Current
<1>4. FirstTables'
  BY <1>0, <1>2, FirstTablesKept
<1>5. mig.pc \in Copying /\ mig.pc # "insert" /\ mig'.pc \in Copying /\ mig'.pc \notin {"create", "fks", "done"} \cup Copied
  BY <1>0, <1>2 DEF Copying, Copied
<1>6. CopyOf(C, {}) = {}
  <2>1. {} \in SUBSET Rows
    OBVIOUS
  <2> QED
    BY <2>1, StoredRows DEF CopyOf
<1>7. mig'.pc = "insert" => CopyOf(Current, Source.rows[Current] \ mig.pending)' = {}
  <2> SUFFICES ASSUME mig'.pc = "insert" PROVE CopyOf(Current, Source.rows[Current] \ mig.pending)' = {}
    OBVIOUS
  <2>1. (Source.rows[Current] \ mig.pending)' = {}
    BY <1>2, <1>3 DEF C
  <2>2. Stored("to_pg", mig'.schema[C], Target'.def[C], {}) = {}
    BY <1>2, <1>3, <1>6 DEF CopyOf
  <2> QED
    BY <1>3, <2>1, <2>2 DEF CopyOf, C
<1>8. \A t \in mig.left : Target.rows[t] = {}
  BY <1>5 DEF FirstRows
<1>9. /\ mig'.pc = "insert" => Target'.rows[C'] = {} /\ mig'.pending \subseteq Source'.rows[C']
  BY <1>1, <1>2, <1>3, <1>8
<1> HIDE DEF C
<1>10. \A t \in mig.sel \ mig.left : Target'.rows[t] = CopyOf(t, Source.rows[t])'
  BY <1>2, <1>3, <1>5 DEF FirstRows, CopyOf
<1>11. FirstRows'
  BY <1>2, <1>3, <1>5, <1>7, <1>8, <1>9, <1>10 DEF FirstRows, C
<1> QED
  BY <1>4, <1>5, <1>11 DEF FirstFks

(* Inserting a batch.                                                       *)
LEMMA FirstInsert ==
  ASSUME MigrateTypeOK, Aimed, Kept, Dir = "to_pg", FirstSchema, FirstTables, FirstRows, NEW c \in Conns, InsertBatch(c)
  PROVE  FirstTables' /\ FirstRows' /\ FirstFks'
<1> DEFINE C == Current
<1>0. DbTyped /\ MigTyped /\ mig \in Migrations /\ mig.pc = "insert" /\ mig.sel \in SUBSET Tables /\ mig.from \in Services
  BY TypeParts DEF MigTyped, Migrations, InsertBatch
<1>1. C \in Tables /\ C \in mig.left /\ C \in mig.sel /\ mig.left \subseteq mig.sel
  BY <1>0, CurrentIsLeft DEF Idle, MigTyped
<1>2. ~Failed
  BY FailedTyped DEF Kept
<1>3. PICK batch \in SUBSET mig.pending :
        /\ mig' = [mig EXCEPT !.pending = @ \ batch]
        /\ Target'.def = Target.def
        /\ \A t \in Tables : Target'.rows[t] = IF t = C THEN Target.rows[t] \cup Converted(C, batch) ELSE Target.rows[t]
  BY <1>0, <1>1, <1>2, InsertTyped
<1>4. /\ mig'.pc = "insert" /\ mig'.left = mig.left /\ mig'.sel = mig.sel /\ mig'.schema = mig.schema
      /\ mig'.pending = mig.pending \ batch
  BY <1>0, <1>3 DEF Migrations
<1>5. Source' = Source /\ FirstTables' /\ C' = C
  BY <1>0, <1>4, FirstKeeps, FirstTablesKept DEF Current
<1>6. Converted(C, batch) = CopyOf(C, batch)
  BY ConvertedIsStored DEF CopyOf
<1> HIDE DEF C
<1>7. /\ \A t \in mig.left : t # C => Target.rows[t] = {}
      /\ \A t \in mig.sel \ mig.left : Target.rows[t] = CopyOf(t, Source.rows[t])
      /\ mig.pending \subseteq Source.rows[C]
      /\ Target.rows[C] = CopyOf(C, Source.rows[C] \ mig.pending)
  BY <1>0 DEF FirstRows, Copying, C
<1>8. Source.rows[C] \in SUBSET Rows
  BY <1>0, <1>1 DEF DbTyped, Contents, Source
<1>9. CopyOf(C, Source.rows[C] \ (mig.pending \ batch)) = CopyOf(C, Source.rows[C] \ mig.pending) \cup CopyOf(C, batch)
  <2>1. Source.rows[C] \ (mig.pending \ batch) = (Source.rows[C] \ mig.pending) \cup batch
    BY <1>7
  <2>2. Source.rows[C] \ mig.pending \in SUBSET Rows
    BY <1>8
  <2> QED
    BY <2>1, <2>2, StoredRows DEF CopyOf
<1>10. Target'.rows[C] = CopyOf(C, Source.rows[C] \ (mig.pending \ batch))
  BY <1>1, <1>3, <1>6, <1>7, <1>9
<1>11. Target'.rows[C] = CopyOf(Current, Source.rows[Current] \ mig.pending)'
  BY <1>3, <1>4, <1>5, <1>10 DEF CopyOf, C
<1>12. \A t \in mig.sel \ mig.left : Target'.rows[t] = CopyOf(t, Source.rows[t])'
  BY <1>0, <1>1, <1>3, <1>4, <1>5, <1>7 DEF CopyOf
<1>13. \A t \in mig.left : t # C => Target'.rows[t] = {}
  BY <1>0, <1>1, <1>3, <1>7
<1>14. mig'.pending \subseteq Source'.rows[C]
  BY <1>4, <1>5, <1>7
<1>15. mig'.pc \notin Copied \cup {"create", "fks", "done"}
  BY <1>4 DEF Copied
<1>16. FirstRows'
  BY <1>4, <1>5, <1>11, <1>12, <1>13, <1>14, <1>15 DEF FirstRows, C
<1> QED
  BY <1>5, <1>15, <1>16 DEF FirstFks

(* The stream of a table is at its end.                                     *)
LEMMA FirstEnd ==
  ASSUME MigrateTypeOK, Aimed, Kept, Dir = "to_pg", FirstSchema, FirstTables, FirstRows, EndOfStream
  PROVE  FirstTables' /\ FirstRows' /\ FirstFks'
<1> DEFINE C == Current
<1>0. /\ DbTyped /\ MigTyped /\ mig \in Migrations /\ mig.pc = "insert" /\ mig.pending = {} /\ UNCHANGED db
      /\ mig.sel \in SUBSET Tables /\ mig.left \in SUBSET Tables
  BY TypeParts DEF MigTyped, Migrations, EndOfStream
<1>1. C \in Tables /\ C \in mig.left /\ C \in mig.sel
  BY <1>0, CurrentIsLeft DEF Idle
<1>2. /\ mig'.sel = mig.sel /\ mig'.schema = mig.schema /\ mig'.to = mig.to
      /\ \/ mig'.pc = "truncate" /\ mig'.left = mig.left \ {C}
         \/ mig'.pc = "index" /\ mig.left = {C}
  <2>1. CASE Moved("truncate", mig.left \ {C})
    BY <1>0, <2>1, MovedKeeps DEF Phases
  <2>2. CASE mig.left = {C} /\ Moved("index", mig.sel)
    BY ZenonT(60), <1>0, <2>2, MovedKeeps DEF Phases
  <2> QED
    BY <1>0, <1>1, <2>1, <2>2, EndOfStreamTyped
<1>3. Source' = Source /\ FirstTables' /\ Target' = Target
  BY <1>0, <1>2, FirstKeeps, FirstTablesKept DEF Target
<1> HIDE DEF C
<1>4. /\ \A t \in mig.left : t # C => Target.rows[t] = {}
      /\ \A t \in mig.sel \ mig.left : Target.rows[t] = CopyOf(t, Source.rows[t])
      /\ Target.rows[C] = CopyOf(C, Source.rows[C])
  <2>1. Source.rows[C] \ mig.pending = Source.rows[C]
    BY <1>0
  <2> QED
    BY <1>0, <2>1 DEF FirstRows, Copying, C
<1>5. \A t \in mig.sel \ (mig.left \ {C}) : Target'.rows[t] = CopyOf(t, Source.rows[t])'
  BY <1>2, <1>3, <1>4 DEF CopyOf
<1>6. CASE mig'.pc = "truncate" /\ mig'.left = mig.left \ {C}
  BY <1>2, <1>3, <1>4, <1>5, <1>6 DEF FirstRows, FirstFks, Copied
<1>7. CASE mig'.pc = "index" /\ mig.left = {C}
  <2>1. \A t \in mig'.sel : Target'.rows[t] = CopyOf(t, Source.rows[t])'
    BY <1>2, <1>5, <1>7
  <2> QED
    BY <1>3, <1>7, <2>1 DEF FirstRows, FirstFks, Copying
<1> QED
  BY <1>2, <1>6, <1>7

(* Indexes and sequences come before any foreign key.                       *)
LEMMA FirstAfter ==
  ASSUME MigrateTypeOK, Aimed, Kept, Dir = "to_pg", FirstSchema, FirstTables, FirstRows, CreateIndexes \/ SetSequence
  PROVE  FirstTables' /\ FirstRows' /\ FirstFks'
<1>0. /\ DbTyped /\ MigTyped /\ mig \in Migrations /\ mig.pc \in {"index", "setval"}
      /\ mig.sel \in SUBSET Tables /\ mig.left \in SUBSET Tables
  BY TypeParts DEF MigTyped, Migrations, CreateIndexes, SetSequence
<1>1. Current \in Tables
  BY <1>0, CurrentIsLeft DEF Idle
<1>2. /\ Target'.rows = Target.rows /\ mig'.sel = mig.sel /\ mig'.schema = mig.schema
      /\ mig'.pc \in {"index", "setval"} \/ (mig'.pc = "fks" /\ mig'.left = mig.sel)
  <2>1. CASE CreateIndexes
    <3>1. ASSUME NEW p \in {"index", "setval"}, NEW l \in SUBSET Tables, Moved(p, l)
          PROVE  mig'.sel = mig.sel /\ mig'.schema = mig.schema /\ mig'.pc \in {"index", "setval"}
      BY <1>0, <3>1, MovedKeeps DEF Phases
    <3>2. mig.left \ {Current} \in SUBSET Tables
      BY <1>0
    <3> QED
      BY <1>0, <2>1, <3>1, <3>2, CreateIndexesTyped
  <2>2. CASE SetSequence
    <3>1. ASSUME Moved("setval", mig.left \ {Current})
          PROVE mig'.sel = mig.sel /\ mig'.schema = mig.schema /\ mig'.pc = "setval"
      BY <1>0, <3>1, MovedKeeps DEF Phases
    <3>2. ASSUME Moved("fks", mig.sel)
          PROVE mig'.sel = mig.sel /\ mig'.schema = mig.schema /\ mig'.pc = "fks" /\ mig'.left = mig.sel
      BY <1>0, <3>2, MovedKeeps DEF Phases
    <3> QED
      BY <1>0, <1>1, <2>2, <3>1, <3>2, SetSequenceTyped
  <2> QED
    BY <1>0, <2>1, <2>2
<1>3. Source' = Source /\ mig'.fks = mig.fks /\ FirstSchema
  BY <1>0, FirstKeeps
<1>4. Target'.def = Target.def /\ FirstTables'
  BY <1>0, <1>2, FirstTablesKept
<1>5. \A t \in mig'.sel : Target'.rows[t] = CopyOf(t, Source.rows[t])'
  BY <1>0, <1>2, <1>3, <1>4 DEF FirstRows, Copied, CopyOf
<1>6. FirstRows'
  BY <1>2, <1>5 DEF FirstRows, Copying
<1>7. FirstFks'
  <2>1. \A e \in mig'.fks : e[1] \in mig'.sel
    BY <1>0, <1>2, <1>3 DEF FirstSchema
  <2> QED
    BY <1>2, <2>1 DEF FirstFks
<1> QED
  BY <1>4, <1>6, <1>7
(* A foreign key of the source holds of what was made and copied of it.     *)
LEMMA KeyHolds ==
  ASSUME MigrateTypeOK, SchemaRead, mig.pc = "fks", FirstSchema, FirstTables, FirstRows,
         NEW e \in mig.fks, e[2] \in mig.sel, e[3] = "one"
  PROVE  PgForeignKey(Target, e)
<1> DEFINE c == e[1]
           p == e[2]
<1>0. /\ DbTyped /\ MigTyped /\ mig \in Migrations /\ mig.to \in Services /\ mig.from \in Services
      /\ mig.sel \in SUBSET Tables /\ mig.sel \subseteq Existing(Target)
  BY TypeParts DEF MigTyped, Migrations
<1>1. e \in Source.fks /\ c \in mig.sel /\ p \in mig.sel /\ c \in Tables /\ p \in Tables
  BY <1>0 DEF FirstSchema
<1>2. /\ Source.def[p].key = "id" /\ Source.def[p].id.type # "tinyint(1)"
      /\ \A r \in Source.rows[c] : r.ref = 0 \/ \E q \in Source.rows[p] : q.id = Value("int", r.ref)
  BY <1>1 DEF FirstSchema, Sound
<1>3. mig.schema[p] = Source.def[p] /\ mig.schema[p] \in TableDefs
  BY <1>0, <1>1 DEF SchemaRead, Source, Migrations
<1>4. Target.def[p].key = "id"
  BY <1>1, <1>2, <1>3, MadeTable DEF FirstTables
<1>5. CanReference(Target, e)
  BY <1>0, <1>1, <1>4 DEF CanReference
<1>6. /\ Target.rows[c] = {PgValues(mig.schema[c], Target.def[c], r) : r \in Source.rows[c]}
      /\ Target.rows[p] = {PgValues(mig.schema[p], Target.def[p], r) : r \in Source.rows[p]}
  BY <1>1 DEF FirstRows, Copied, CopyOf, Stored
<1>7. Source.rows[c] \in SUBSET Rows /\ Source.rows[p] \in SUBSET Rows
  BY <1>0, <1>1 DEF DbTyped, Contents, Source
<1> DEFINE d == [Target EXCEPT !.fks = {e}]
<1>8. d.fks = {e} /\ d.rows = Target.rows
  BY <1>0 DEF DbTyped, Contents, Target
<1> HIDE DEF c, p
<1>9. ASSUME NEW r \in Target.rows[c], r.ref # 0
      PROVE  \E q \in Target.rows[p] : q.id = Value("int", r.ref)
  <2>1. PICK r0 \in Source.rows[c] : r = PgValues(mig.schema[c], Target.def[c], r0)
    BY <1>6
  <2>2. r.ref = r0.ref /\ r.ref \in Nat
    BY <1>7, <2>1, StoredRow DEF Rows
  <2>3. PICK q0 \in Source.rows[p] : q0.id = Value("int", r.ref)
    BY <1>2, <1>9, <2>2
  <2> DEFINE q == PgValues(mig.schema[p], Target.def[p], q0)
  <2>4. q \in Target.rows[p]
    BY <1>6
  <2>5. q.id = PgStore(Target.def[p].id.type, PgLiteral(ExtractMysql(mig.schema[p].id.type, q0.id)))
    BY <1>7, StoredRow
  <2>6. q.id \in {Value("int", r.ref), Refused}
    BY <1>2, <1>3, <2>2, <2>3, <2>5, StoredId
  <2>7. q.id # Refused
    BY <1>0, <1>1, <2>4 DEF DbTyped, Consistent, Target
  <2> HIDE DEF q
  <2> QED
    BY <2>4, <2>6, <2>7
<1> HIDE DEF d
<1>10. ~Dangling(d, c, Target.rows[c])
  BY <1>8, <1>9 DEF Dangling, Refers, p
<1> QED
  BY <1>5, <1>10 DEF PgForeignKey, d, c

LEMMA FirstAdd ==
  ASSUME MigrateTypeOK, Aimed, SchemaRead, Kept, Dir = "to_pg", FirstSchema, FirstTables, FirstRows, FirstFks, AddForeignKeys
  PROVE  FirstTables' /\ FirstRows' /\ FirstFks'
<1> DEFINE C == Current
<1>0. /\ DbTyped /\ MigTyped /\ mig \in Migrations /\ mig.pc = "fks" /\ mig.left \in SUBSET Tables
  BY TypeParts DEF MigTyped, Migrations, AddForeignKeys
<1>1. /\ Target'.rows = Target.rows
      /\ Target'.fks = Target.fks \cup {e \in ByColumn(mig.fks) : e[1] = C /\ PgForeignKey(Target, e)}
      /\ Moved("fks", mig.left \ {C}) \/ (mig.left \ {C} = {} /\ Moved("done", {}))
  BY <1>0, AddForeignKeysTyped
<1>2. \/ mig'.pc = "fks" /\ mig'.left = mig.left \ {C}
      \/ mig'.pc = "done" /\ mig.left \ {C} = {}
  <2>1. CASE Moved("fks", mig.left \ {C})
    BY <1>0, <2>1, MovedKeeps DEF Phases
  <2>2. CASE mig.left \ {C} = {} /\ Moved("done", {})
    BY <1>0, <2>2, MovedKeeps DEF Phases
  <2> QED
    BY <1>1, <2>1, <2>2
<1>3. Source' = Source /\ mig'.fks = mig.fks /\ mig'.sel = mig.sel /\ mig'.schema = mig.schema
  BY <1>0, FirstKeeps
<1>4. Target'.def = Target.def /\ FirstTables'
  BY <1>0, <1>2, FirstTablesKept
<1> HIDE DEF C
<1>5. FirstRows'
  <2>1. \A t \in mig'.sel : Target'.rows[t] = CopyOf(t, Source.rows[t])'
    BY <1>0, <1>1, <1>3, <1>4 DEF FirstRows, Copied, CopyOf
  <2> QED
    BY <1>2, <2>1 DEF FirstRows, Copying
<1>6. ASSUME NEW e \in mig.fks, e[2] \in mig.sel, e[3] = "one", mig'.pc = "fks" => e[1] \notin mig.left \ {C}
      PROVE  e \in Target'.fks
  <2>1. e[1] \notin mig.left \ {C}
    BY <1>2, <1>6
  <2>2. CASE e[1] = C
    <3>1. mig.fks \in SUBSET (Tables \X Tables \X {"one", "several"})
      BY <1>0 DEF Migrations, ForeignKeys
    <3>2. e = <<e[1], e[2], "one">>
      BY <1>6, <3>1
    <3>3. e \in ByColumn(mig.fks)
      BY <1>6, <3>2 DEF ByColumn
    <3>4. PgForeignKey(Target, e)
      BY <1>0, <1>6, KeyHolds
    <3> QED
      BY <1>1, <2>2, <3>3, <3>4
  <2>3. CASE e[1] \notin mig.left
    BY <1>0, <1>1, <1>6, <2>3 DEF FirstFks
  <2> QED
    BY <2>1, <2>2, <2>3
<1>7. FirstFks'
  BY <1>2, <1>3, <1>6 DEF FirstFks
<1> QED
  BY <1>4, <1>5, <1>7

LEMMA FirstStep ==
  ASSUME MigrateTypeOK, Aimed, SchemaRead, MigrationStep, Kept, Dir = "to_pg",
         FirstSchema, FirstTables, FirstRows, FirstFks
  PROVE  FirstSchema' /\ FirstTables' /\ FirstRows' /\ FirstFks'
<1>1. CASE Introspect
  BY <1>1, FirstIntrospect
<1>2. CASE ~Introspect
  <2>1. mig.pc # "introspect"
    BY <1>2 DEF MigrationStep, Create, TruncatePg, OpenStream, EndOfStream, ChecksOff, TruncateMysql, InsertBatch,
                ChecksOn, CreateIndexes, SetSequence, AddForeignKeys
  <2>2. FirstSchema'
    BY <2>1, FirstKeeps
  <2>3. FirstTables' /\ FirstRows' /\ FirstFks'
    <3>1. CASE Create
      BY <3>1, FirstCreate
    <3>2. CASE TruncatePg \/ \E c \in Conns : TruncateMysql(c)
      BY <3>2, FirstTruncate
    <3>3. CASE OpenStream \/ \E c \in Conns : ChecksOff(c) \/ ChecksOn(c)
      BY <3>3, FirstOpen
    <3>4. CASE \E c \in Conns : InsertBatch(c)
      BY <3>4, FirstInsert
    <3>5. CASE EndOfStream
      BY <3>5, FirstEnd
    <3>6. CASE CreateIndexes \/ SetSequence
      BY <3>6, FirstAfter
    <3>7. CASE AddForeignKeys
      BY <3>7, FirstAdd
    <3> QED
      BY <1>2, <3>1, <3>2, <3>3, <3>4, <3>5, <3>6, <3>7 DEF MigrationStep
  <2> QED
    BY SMTT(60), <2>2, <2>3
<1> QED
  BY <1>1, <1>2

(* Until the first run the databases are the initial ones; the second is    *)
(* not of a first migration.                                                *)
LEMMA FirstNext ==
  ASSUME \A d \in Databases : Fresh(d), MigrateTypeOK, Aimed, SchemaRead, FirstInv, [Next]_vars
  PROVE  FirstInv'
<1>0. DbTyped /\ MigTyped /\ mig \in Migrations /\ runs \in Nat
  <2>1. DbTyped /\ MigTyped /\ runs \in 0 .. MaxRuns
    BY TypeParts
  <2>2. runs \in Nat
    BY <2>1
  <2> QED
    BY <2>1, <2>2 DEF MigTyped
<1>1. CASE UNCHANGED vars
  <2>1. mig' = mig /\ db' = db /\ runs' = runs /\ Source' = Source /\ Target' = Target /\ Dir' = Dir /\ Current' = Current
    BY <1>1 DEF vars, Source, Target, Dir, Current
  <2>2. Idle' = Idle /\ First' = First
    BY <2>1 DEF Idle, First
  <2>3. FirstSchema' = FirstSchema /\ FirstTables' = FirstTables /\ FirstFks' = FirstFks
    BY <2>1 DEF FirstSchema, FirstTables, FirstFks
  <2>4. FirstRows' = FirstRows
    BY <2>1 DEF FirstRows, CopyOf
  <2> QED
    BY <2>1, <2>2, <2>3, <2>4 DEF FirstInv
<1>2. CASE Failed /\ ~Idle /\ runs' = runs
  <2>1. ~First'
    BY <1>2, FailedTyped DEF First
  <2> QED
    BY <1>2, <2>1 DEF FirstInv
<1>3. CASE SourceWrite
  <2>1. mig' = [mig EXCEPT !.dirty = TRUE] /\ ~Idle /\ runs' = runs
    BY ZenonT(60), <1>0, <1>3, SourceWriteTyped DEF SourceWrite
  <2>2. mig'.dirty
    BY <1>0, <2>1 DEF Migrations
  <2> QED
    BY SMTT(60), <2>1, <2>2 DEF FirstInv, First
<1>4. CASE \E list \in Detected, from, to \in Services, filter \in Filters : Start(list, from, to, filter)
  <2>1. PICK list \in Detected, from \in Services, to \in Services, filter \in Filters : Start(list, from, to, filter)
    BY <1>4
  <2>2. mig'.pc = "introspect" /\ mig'.from = from /\ mig'.to = to /\ Kind[from] # Kind[to]
    BY <1>0, <2>1, StartTyped
  <2>3. runs' = runs + 1 /\ db' = db
    BY <2>1 DEF Start
  <2>4. ASSUME First' PROVE FirstSchema'
    <3>1. runs = 0 /\ db \in Databases
      BY <1>0, <2>3, <2>4 DEF First, FirstInv
    <3>2. Kind[to] = "postgres" /\ Kind[from] = "mysql"
      BY <2>2, <2>4, MigrateAssumption DEF First, Dir
    <3>3. Sound(db[from]) /\ Existing(db[from]) \cap Existing(db[to]) = {}
      BY <3>1, <3>2 DEF Fresh
    <3> QED
      BY <2>2, <2>3, <3>3 DEF FirstSchema, Source, Target
  <2>5. FirstTables' /\ FirstRows' /\ FirstFks'
    BY <2>2 DEF FirstTables, FirstRows, FirstFks, Copying, Copied
  <2> QED
    BY <1>0, <2>3, <2>4, <2>5 DEF FirstInv
<1>5. CASE MigrationStep /\ Kept
  <2>1. runs' = runs /\ ~Idle
    BY <1>5 DEF MigrationStep, Introspect, Create, TruncatePg, OpenStream, EndOfStream, ChecksOff, TruncateMysql, InsertBatch,
                ChecksOn, CreateIndexes, SetSequence, AddForeignKeys, Idle
  <2>2. First' => First
    BY <2>1, <1>5 DEF First, Kept, Dir
  <2>3. First => Dir = "to_pg" /\ FirstSchema /\ FirstTables /\ FirstRows /\ FirstFks
    BY DEF FirstInv, First
  <2> QED
    BY SMTT(60), <1>5, <2>1, <2>2, <2>3, FirstStep DEF FirstInv
<1>6. CASE MigrationStep /\ Failed
  <2>1. runs' = runs /\ ~Idle
    BY <1>6 DEF MigrationStep, Introspect, Create, TruncatePg, OpenStream, EndOfStream, ChecksOff, TruncateMysql, InsertBatch,
                ChecksOn, CreateIndexes, SetSequence, AddForeignKeys, Idle
  <2> QED
    BY SMTT(60), <1>2, <1>6, <2>1
<1> QED
  BY <1>1, <1>2, <1>3, <1>4, <1>5, <1>6, StepKeeps DEF Next, Interrupt

(* A first migration to PostgreSQL ends with every foreign key of a single  *)
(* column between selected tables in place, whatever TRUNCATE, the batches  *)
(* and the order of the tables did: where the target has none of the        *)
(* source's tables and the source's keys hold (ALTER TABLE ... ADD          *)
(* CONSTRAINT after the data, db/migrate.rs:216-227).  Keys of several      *)
(* columns are lost: see AddForeignKeys.                                    *)
THEOREM FirstRunKeepsKeys ==
  ASSUME \A d \in Databases : Fresh(d)
  PROVE  Spec => []FksKept
<1>1. Init => SchemaRead /\ FirstInv
  BY DEF Init, NoMigration, SchemaRead, FirstInv, First, Idle
<1>2. MigrateTypeOK /\ Aimed /\ SchemaRead /\ FirstInv /\ [Next]_vars => (SchemaRead /\ FirstInv)'
  BY SchemaNext, FirstNext
<1>3. FirstInv => FksKept
  BY DEF FirstInv, First, FirstFks, FksKept
<1> QED
  BY <1>1, <1>2, <1>3, MigrationAimed, PTL DEF Spec
------------------------------------------------------------------------------
(* The values a migration changes.                                          *)

(* What a cell of MySQL may become in PostgreSQL.                           *)
LEMMA PgLoss ==
  ASSUME NEW v \in Cells, NEW from, NEW to, from = "tinyint(1)" => v = Null \/ v.k = "int",
         NEW w, w = PgStore(to, PgLiteral(ExtractMysql(from, v))), w # Refused
  PROVE  \/ SameValue(v, w)
         \/ w = Null /\ (Undecodable(v) \/ v.k = "nan")
         \/ from = "tinyint(1)" /\ v.n > 1 /\ w = Value("bool", 1)
<1>0. /\ v.n \in Nat /\ Null.k = "null" /\ Null.n = 0 /\ Refused.k = "refused"
      /\ \A k, n : Value(k, n).k = k /\ Value(k, n).n = n
  BY DEF Cells, Null, Refused, Value
<1>1. \A c : PgStore(to, c) \in {Null, c, Refused}
  BY ZenonT(60) DEF PgStore
<1>2. \A c : c = Null => PgStore(to, c) = Null
  BY DEF PgStore
<1>3. CASE Undecodable(v)
  <2>1. ExtractMysql(from, v) = Null
    BY <1>3 DEF ExtractMysql
  <2>2. PgLiteral(Null) = Null
    BY <1>0 DEF PgLiteral
  <2> QED
    BY <1>2, <1>3, <2>1, <2>2
<1>4. CASE ~Undecodable(v) /\ from = "tinyint(1)"
  <2>1. CASE v = Null
    <3>1. w = Null
      BY <1>0, <1>2, <1>4, <2>1 DEF ExtractMysql, PgLiteral
    <3> QED
      BY <2>1, <3>1 DEF SameValue
  <2>2. CASE v.k = "int" /\ v # Null
    <3> DEFINE b == Value("bool", IF v.n = 0 THEN 0 ELSE 1)
    <3>1. ExtractMysql(from, v) = b /\ PgLiteral(b) = b /\ b # Null
      BY <1>0, <1>4, <2>2 DEF ExtractMysql, PgLiteral
    <3>2. PgStore(to, b) \in {b, Refused}
      BY <1>0, <3>1 DEF PgStore
    <3>3. w = b
      BY <3>1, <3>2
    <3>4. CASE v.n = 0 \/ v.n = 1
      <4>1. w.k = "bool" /\ w.n = v.n
        BY <1>0, <3>3, <3>4
      <4> QED
        BY <2>2, <4>1 DEF SameValue
    <3>5. CASE v.n > 1
      BY <1>4, <3>3, <3>5
    <3> QED
      BY <1>0, <3>4, <3>5
  <2> QED
    BY <1>4, <2>1, <2>2
<1>5. CASE ~Undecodable(v) /\ from # "tinyint(1)"
  <2>1. ExtractMysql(from, v) = v
    BY <1>5 DEF ExtractMysql
  <2>2. CASE v.k = "nan"
    BY <1>2, <2>1, <2>2 DEF PgLiteral
  <2>3. CASE v.k # "nan"
    <3>1. PgLiteral(v) = v
      BY <2>3 DEF PgLiteral
    <3>2. PgStore(to, v) \in {v, Refused}
      BY DEF PgStore
    <3> QED
      BY <2>1, <3>1, <3>2 DEF SameValue
  <2> QED
    BY <2>2, <2>3
<1> QED
  BY <1>3, <1>4, <1>5

(* What a cell of PostgreSQL may become in MySQL.                           *)
MysqlChange(v, to, w) ==
  \/ SameValue(v, w)
  \/ w = Null /\ Undecodable(v)
  \/ v.k = "fraction" /\ to = "decimal(10,0)"
  \/ v.k = "subsecond" /\ to \in {"datetime", "timestamp"}
  \/ v.k = "split second" /\ to = "time"
LEMMA MysqlLoss ==
  ASSUME NEW v \in Cells, NEW from, NEW to,
         NEW w, w = MysqlStore(to, MysqlLiteral(ExtractPg(from, v))), w # Refused
  PROVE  MysqlChange(v, to, w)
<1> USE DEF MysqlChange
<1>0. /\ v.n \in Nat /\ Null.k = "null" /\ Null.n = 0 /\ Refused.k = "refused"
      /\ \A k, n : Value(k, n).k = k /\ Value(k, n).n = n
  BY DEF Cells, Null, Refused, Value
<1>1. CASE Undecodable(v)
  <2>1. ExtractPg(from, v) = Null
    BY <1>1 DEF ExtractPg
  <2>2. MysqlLiteral(Null) = Null
    BY <1>0 DEF MysqlLiteral
  <2>3. MysqlStore(to, Null) = Null
    BY <1>0 DEF MysqlStore
  <2> QED
    BY <1>1, <2>1, <2>2, <2>3
<1>2. CASE ~Undecodable(v) /\ v.k = "bool"
  <2> DEFINE b == Value("int", v.n)
  <2>1. ExtractPg(from, v) = v /\ MysqlLiteral(v) = b /\ b # Null /\ b.k = "int" /\ b.n = v.n
    BY <1>0, <1>2 DEF ExtractPg, MysqlLiteral
  <2> HIDE DEF b
  <2>2. MysqlStore(to, b) \in {b, Refused}
    BY <2>1 DEF MysqlStore
  <2> QED
    BY <1>2, <2>1, <2>2 DEF SameValue
<1>3. CASE ~Undecodable(v) /\ v.k # "bool"
  <2>1. ExtractPg(from, v) = v /\ MysqlLiteral(v) = v
    BY <1>3 DEF ExtractPg, MysqlLiteral
  <2>2. CASE v.k = "fraction" /\ to = "decimal(10,0)"
    BY <2>2
  <2>3. CASE v.k = "subsecond"
    <3>1. MysqlStore(to, v) = Refused \/ to \in {"datetime", "timestamp"}
      BY <1>0, <2>3 DEF MysqlStore
    <3> QED
      BY <2>1, <2>3, <3>1
  <2>4. CASE v.k = "split second"
    <3>1. MysqlStore(to, v) = Refused \/ to = "time"
      BY <1>0, <2>4 DEF MysqlStore
    <3> QED
      BY <2>1, <2>4, <3>1
  <2>5. CASE ~(v.k = "fraction" /\ to = "decimal(10,0)") /\ v.k \notin {"subsecond", "split second"}
    <3>1. MysqlStore(to, v) \in {v, Refused} \/ (v.k = "bytes" /\ MysqlStore(to, v).k = "bits")
      BY <1>0, <2>5 DEF MysqlStore
    <3> QED
      BY <2>1, <3>1 DEF SameValue
  <2> QED
    BY <2>2, <2>3, <2>4, <2>5
<1> QED
  BY <1>1, <1>2, <1>3

(* An integer id is stored as it is or not at all, in either direction.     *)
LEMMA StoredIntId ==
  ASSUME NEW v \in Cells, v.k = "int", NEW from, from # "tinyint(1)", NEW to
  PROVE  /\ PgStore(to, PgLiteral(ExtractMysql(from, v))) \in {v, Refused}
         /\ MysqlStore(to, MysqlLiteral(ExtractPg(from, v))) \in {v, Refused}
<1>1. v.n \in Nat /\ v = Value("int", v.n)
  BY DEF Cells, Value
<1>2. PgStore(to, PgLiteral(ExtractMysql(from, v))) \in {v, Refused}
  BY <1>1, StoredId
<1>3. ExtractPg(from, v) = v /\ MysqlLiteral(v) = v /\ v # Null
  BY DEF ExtractPg, Undecodable, MysqlLiteral, Null, Value
<1>4. MysqlStore(to, v) \in {v, Refused}
  BY <1>3 DEF MysqlStore
<1> QED
  BY <1>2, <1>3, <1>4

(* A tinyint(1) column takes integers.                                      *)
LEMMA TinyintStores ==
  ASSUME NEW c
  PROVE  /\ PgStore("tinyint(1)", c) = Refused \/ PgStore("tinyint(1)", c) = Null \/ PgStore("tinyint(1)", c).k = "int"
         /\ MysqlStore("tinyint(1)", c) = Refused \/ MysqlStore("tinyint(1)", c) = Null
                                                 \/ MysqlStore("tinyint(1)", c).k = "int"
BY DEF PgStore, MysqlStore, Textual
(* Fewer rows, of tables that are as before.                                *)
LEMMA KeyedFewer ==
  ASSUME KeyedById(db), \A s \in Services : db'[s].def = db[s].def,
         \A s \in Services, t \in Tables : db'[s].rows[t] \subseteq db[s].rows[t]
  PROVE  KeyedById(db')
<1> SUFFICES ASSUME NEW s \in Services, NEW t \in Tables
             PROVE  /\ db'[s].def[t].key \in {"id", "no table"} /\ db'[s].def[t].id.type \notin {"tinyint(1)", "boolean"}
                    /\ IntIds(db'[s].rows[t]) /\ Fits(db'[s].def[t], db'[s].rows[t])
  BY DEF KeyedById
<1>1. /\ db[s].def[t].key \in {"id", "no table"} /\ db[s].def[t].id.type \notin {"tinyint(1)", "boolean"}
      /\ IntIds(db[s].rows[t]) /\ Fits(db[s].def[t], db[s].rows[t])
  BY DEF KeyedById
<1>2. db'[s].def = db[s].def /\ db'[s].rows[t] \subseteq db[s].rows[t]
  OBVIOUS
<1> QED
  BY <1>1, <1>2 DEF IntIds, Fits

(* Rows the engine accepts in a table keyed by id.                          *)
LEMMA KeyedRows ==
  ASSUME NEW d, NEW t, d.def[t].key = "id", IntIds(d.rows[t]), Fits(d.def[t], d.rows[t]), NEW new, ~Violates(d, t, new),
         \A r \in new : r.id.k = "int", Fits(d.def[t], new)
  PROVE  IntIds(d.rows[t] \cup new) /\ Fits(d.def[t], d.rows[t] \cup new)
<1>1. \A r \in new, q \in new \cup d.rows[t] : q # r => q.id # r.id
  BY DEF Violates
<1> QED
  BY <1>1 DEF IntIds, Fits

(* CREATE TABLE keeps the primary key.                                      *)
LEMMA KeyedCreate ==
  ASSUME MigrateTypeOK, SchemaRead, KeyedById(db), Create
  PROVE  KeyedById(db')
<1> DEFINE C == Current
           new == TargetTable(C)
<1>0. /\ DbTyped /\ MigTyped /\ mig \in Migrations /\ mig.pc = "create" /\ mig.to \in Services /\ mig.from \in Services
  BY TypeParts DEF MigTyped, Migrations, Create
<1>1. C \in Tables /\ C \in mig.sel
  BY <1>0, CurrentIsLeft DEF Idle
<1>2. CASE UNCHANGED db
  BY <1>2
<1>3. CASE C \notin Existing(Target) /\ db' = [db EXCEPT ![mig.to].def[C] = new]
  <2>1. C \in Existing(db[mig.from]) /\ mig.schema[C] = db[mig.from].def[C] /\ mig.schema[C] \in TableDefs
    BY <1>0, <1>1 DEF SchemaRead, Migrations
  <2>2. mig.schema[C].key = "id" /\ mig.schema[C].id.type \notin {"tinyint(1)", "boolean"}
    BY <1>0, <1>1, <2>1 DEF KeyedById, Existing
  <2>3. new.key = "id"
    BY <1>0, <1>1, <2>2, TargetTableTyped
  <2>4. new.id = MysqlToPg(mig.schema[C].id) \/ new.id = PgToMysql(mig.schema[C].id)
    BY DEF TargetTable, PgTable, MysqlTable
  <2>5. new.id.type \notin {"tinyint(1)", "boolean"}
    <3> DEFINE c == mig.schema[C].id
    <3>1. c \in ColumnDefs /\ c.type \notin {"tinyint(1)", "boolean"}
      BY <2>1, <2>2 DEF TableDefs
    <3> HIDE DEF c
    <3>2. PlainPg(c.type) \notin {"tinyint(1)", "boolean"} /\ PlainMysql(c.type) \notin {"tinyint(1)", "boolean"}
      BY <3>1 DEF PlainPg, PlainMysql
    <3>3. MysqlToPg(c).type \in {"bigint", "integer", PlainPg(c.type)}
      BY <3>1 DEF MysqlToPg, ColumnDefs
    <3>4. PgToMysql(c).type \in {"bigint", "int", PlainMysql(c.type)}
      BY <3>1 DEF PgToMysql, ColumnDefs
    <3> QED
      BY <2>4, <3>2, <3>3, <3>4 DEF c
  <2> HIDE DEF new
  <2>6. db[mig.to].rows[C] = {}
    BY <1>0, <1>1, <1>3 DEF DbTyped, Consistent, Target
  <2>7. \A s \in Services : s # mig.to => db'[s] = db[s]
    BY <1>3
  <2>8. /\ db'[mig.to].rows = db[mig.to].rows
        /\ \A t \in Tables : db'[mig.to].def[t] = IF t = C THEN new ELSE db[mig.to].def[t]
    <3>1. db[mig.to] \in Contents /\ db[mig.to].def \in [Tables -> TableDefs] /\ db \in [Services -> Contents]
      BY <1>0 DEF DbTyped, Contents
    <3>2. db'[mig.to] = [db[mig.to] EXCEPT !.def[C] = new]
      BY <1>0, <1>3, <3>1
    <3> HIDE DEF C
    <3>3. db'[mig.to].rows = db[mig.to].rows /\ db'[mig.to].def = [db[mig.to].def EXCEPT ![C] = new]
      BY <3>1, <3>2 DEF Contents
    <3> QED
      BY <1>1, <3>1, <3>3
  <2> HIDE DEF C
  <2>9. ASSUME NEW t \in Tables
        PROVE  /\ db'[mig.to].def[t].key \in {"id", "no table"} /\ db'[mig.to].def[t].id.type \notin {"tinyint(1)", "boolean"}
               /\ IntIds(db'[mig.to].rows[t]) /\ Fits(db'[mig.to].def[t], db'[mig.to].rows[t])
    <3>1. CASE t = C
      <4>1. db'[mig.to].rows[t] = {} /\ db'[mig.to].def[t] = new
        BY <2>6, <2>8, <3>1
      <4> QED
        BY <2>3, <2>5, <4>1 DEF IntIds, Fits
    <3>2. CASE t # C
      <4>1. db'[mig.to].rows[t] = db[mig.to].rows[t] /\ db'[mig.to].def[t] = db[mig.to].def[t]
        BY <2>8, <3>2
      <4> QED
        BY <1>0, <4>1 DEF KeyedById
    <3> QED
      BY <3>1, <3>2
  <2> QED
    BY <2>7, <2>9 DEF KeyedById
<1> QED
  BY <1>0, <1>2, <1>3, CreateTyped

(* A batch the engine takes.                                                *)
LEMMA KeyedInsert ==
  ASSUME MigrateTypeOK, CopyInv, SchemaRead, KeyedById(db), ReadInv, NEW c \in Conns, InsertBatch(c)
  PROVE  KeyedById(db')
<1> DEFINE C == Current
<1>0. /\ DbTyped /\ MigTyped /\ mig \in Migrations /\ mig.pc = "insert" /\ mig.to \in Services /\ mig.from \in Services
      /\ mig.sel \subseteq Existing(Target)
  BY TypeParts DEF MigTyped, Migrations, InsertBatch
<1>1. C \in Tables /\ C \in mig.sel
  BY <1>0, CurrentIsLeft DEF Idle
<1>2. CASE UNCHANGED db
  BY <1>2
<1>3. CASE ~UNCHANGED db
  <2>1. PICK batch \in SUBSET mig.pending :
          /\ ~Unacceptable(c, C, Converted(C, batch)) /\ mig' = [mig EXCEPT !.pending = @ \ batch]
    BY <1>3 DEF InsertBatch, Batches
  <2>2. ~Failed
    BY <1>0, <2>1, FailedTyped DEF Migrations
  <2>3. PICK b \in SUBSET mig.pending :
          /\ \A s \in Services : s # mig.to => db'[s] = db[s]
          /\ mig' = [mig EXCEPT !.pending = @ \ b]
          /\ Target'.def = Target.def
          /\ \A t \in Tables : Target'.rows[t] = IF t = C THEN Target.rows[t] \cup Converted(C, b) ELSE Target.rows[t]
    BY <1>0, <1>1, <2>2, InsertTyped
  <2>4. batch = b
    <3>1. mig'.pending = mig.pending \ batch /\ mig'.pending = mig.pending \ b
      BY <1>0, <2>1, <2>3 DEF Migrations
    <3> QED
      BY <3>1
  <2>5. Target' = db'[mig.to]
    BY <1>0, <2>1 DEF Target, Migrations
  <2> DEFINE new == Converted(C, batch)
  <2>6. ~Violates(Target, C, new) /\ \A r \in new : Refused \notin {r.id, r.val}
    BY <2>1 DEF Unacceptable, Violates
  <2>7. /\ Target.def[C].key = "id" /\ IntIds(Target.rows[C]) /\ Fits(Target.def[C], Target.rows[C])
        /\ mig.schema[C].id.type # "tinyint(1)"
    <3>1. Target.def[C].key # "no table" /\ mig.schema[C] = db[mig.from].def[C]
      BY <1>0, <1>1 DEF Existing, SchemaRead
    <3>2. /\ Target.def[C].key \in {"id", "no table"} /\ IntIds(Target.rows[C]) /\ Fits(Target.def[C], Target.rows[C])
          /\ db[mig.from].def[C].id.type # "tinyint(1)"
      BY <1>0, <1>1 DEF KeyedById, Target
    <3> QED
      BY <3>1, <3>2
  <2>8. \A r \in batch : r \in Rows /\ r.id \in Cells /\ r.id.k = "int"
    <3>1. mig.pending \subseteq mig.read[C] /\ mig.read[C] \in SUBSET Rows /\ IntIds(mig.read[C])
      BY <1>0, <1>1 DEF CopyInv, Migrations, ReadInv
    <3> QED
      BY <3>1 DEF IntIds, Rows
  <2>9. ASSUME NEW r \in new
        PROVE  r.id.k = "int" /\ (Target.def[C].val.type = "tinyint(1)" => r.val = Null \/ r.val.k = "int")
    <3>1. PICK r0 \in batch : r = IF Dir = "to_pg" THEN PgValues(mig.schema[C], Target.def[C], r0)
                                                   ELSE MysqlValues(mig.schema[C], Target.def[C], r0)
      BY DEF Converted
    <3>2. \/ /\ r.id = PgStore(Target.def[C].id.type, PgLiteral(ExtractMysql(mig.schema[C].id.type, r0.id)))
             /\ r.val = PgStore(Target.def[C].val.type, PgLiteral(ExtractMysql(mig.schema[C].val.type, r0.val)))
          \/ /\ r.id = MysqlStore(Target.def[C].id.type, MysqlLiteral(ExtractPg(mig.schema[C].id.type, r0.id)))
             /\ r.val = MysqlStore(Target.def[C].val.type, MysqlLiteral(ExtractPg(mig.schema[C].val.type, r0.val)))
      BY <2>8, <3>1 DEF PgValues, MysqlValues, Rows
    <3>3. r.id # Refused /\ r.val # Refused
      BY <2>6
    <3>4. r.id = r0.id
      BY <2>7, <2>8, <3>2, <3>3, StoredIntId
    <3> QED
      BY <2>8, <3>2, <3>3, <3>4, TinyintStores
  <2> HIDE DEF new
  <2>10. Fits(Target.def[C], new)
    BY <2>9 DEF Fits
  <2>11. IntIds(Target.rows[C] \cup new) /\ Fits(Target.def[C], Target.rows[C] \cup new)
    BY <2>6, <2>7, <2>9, <2>10, KeyedRows
  <2> HIDE DEF C
  <2>12. ASSUME NEW t \in Tables
         PROVE  /\ Target'.def[t].key \in {"id", "no table"} /\ Target'.def[t].id.type \notin {"tinyint(1)", "boolean"}
                /\ IntIds(Target'.rows[t]) /\ Fits(Target'.def[t], Target'.rows[t])
    <3>1. /\ Target.def[t].key \in {"id", "no table"} /\ Target.def[t].id.type \notin {"tinyint(1)", "boolean"}
          /\ IntIds(Target.rows[t]) /\ Fits(Target.def[t], Target.rows[t])
      BY <1>0 DEF KeyedById, Target
    <3>2. CASE t = C
      BY <1>1, <2>3, <2>4, <2>11, <3>1, <3>2 DEF new
    <3>3. CASE t # C
      <4>1. Target'.rows[t] = Target.rows[t]
        BY <2>3, <3>3
      <4> QED
        BY <2>3, <3>1, <4>1
    <3> QED
      BY <3>2, <3>3
  <2> QED
    BY <2>3, <2>5, <2>12 DEF KeyedById
<1> QED
  BY <1>2, <1>3
(* A row the source's application adds is one its engine takes.             *)
LEMMA KeyedWrite ==
  ASSUME MigrateTypeOK, KeyedById(db), SourceWrite
  PROVE  KeyedById(db')
<1>0. DbTyped /\ MigTyped /\ mig.from \in Services
  BY TypeParts DEF MigTyped, Migrations
<1> DEFINE d == db[mig.from]
<1>1. \A s \in Services : db'[s].def = db[s].def
  BY <1>0, SourceWriteTyped
<1>2. PICK t \in Existing(d) :
        \/ \E r \in d.rows[t] : db' = [db EXCEPT ![mig.from].rows[t] = @ \ {r}]
        \/ \E r \in d.rows[t] : \E ref :
             LET new == [id |-> Value("int", d.seq[t]), ref |-> ref, val |-> r.val]
             IN  /\ ~Violates(d, t, {new})
                 /\ db' = [db EXCEPT ![mig.from].rows[t] = @ \cup {new}, ![mig.from].seq[t] = @ + 1]
  BY ZenonT(60) DEF SourceWrite
<1>3. t \in Tables /\ d.def[t].key = "id"
  BY <1>0, <1>2 DEF Existing, KeyedById
<1>4. db \in [Services -> Contents] /\ d \in Contents /\ d.rows \in [Tables -> SUBSET Rows] /\ d.seq \in [Tables -> Nat]
  BY <1>0 DEF DbTyped, Contents
<1>5. CASE \E r \in d.rows[t] : db' = [db EXCEPT ![mig.from].rows[t] = @ \ {r}]
  <2>1. PICK r \in d.rows[t] : db' = [db EXCEPT ![mig.from].rows[t] = @ \ {r}]
    BY <1>5
  <2>2. \A s \in Services : s # mig.from => db'[s] = db[s]
    BY <2>1
  <2>3. db'[mig.from].rows = [d.rows EXCEPT ![t] = @ \ {r}]
    BY <1>0, <1>4, <2>1 DEF Contents
  <2>4. \A u \in Tables : db'[mig.from].rows[u] \subseteq d.rows[u]
    BY <1>4, <2>3
  <2>5. \A s \in Services, u \in Tables : db'[s].rows[u] \subseteq db[s].rows[u]
    BY <2>2, <2>4
  <2> QED
    BY <1>1, <2>5, KeyedFewer
<1>6. CASE \E r \in d.rows[t] : \E ref :
             LET new == [id |-> Value("int", d.seq[t]), ref |-> ref, val |-> r.val]
             IN  /\ ~Violates(d, t, {new})
                 /\ db' = [db EXCEPT ![mig.from].rows[t] = @ \cup {new}, ![mig.from].seq[t] = @ + 1]
  <2>0. PICK r \in d.rows[t] : \E ref :
             LET new == [id |-> Value("int", d.seq[t]), ref |-> ref, val |-> r.val]
             IN  /\ ~Violates(d, t, {new})
                 /\ db' = [db EXCEPT ![mig.from].rows[t] = @ \cup {new}, ![mig.from].seq[t] = @ + 1]
    BY <1>6
  <2>1. PICK ref :
             LET new == [id |-> Value("int", d.seq[t]), ref |-> ref, val |-> r.val]
             IN  /\ ~Violates(d, t, {new})
                 /\ db' = [db EXCEPT ![mig.from].rows[t] = @ \cup {new}, ![mig.from].seq[t] = @ + 1]
    BY <2>0
  <2> DEFINE new == [id |-> Value("int", d.seq[t]), ref |-> ref, val |-> r.val]
  <2>2. new.id.k = "int" /\ new.val = r.val
    BY DEF Value
  <2>3. ~Violates(d, t, {new}) /\ db' = [db EXCEPT ![mig.from].rows[t] = @ \cup {new}, ![mig.from].seq[t] = @ + 1]
    BY <2>1
  <2> HIDE DEF new
  <2>4. \A s \in Services : s # mig.from => db'[s] = db[s]
    BY <1>0, SourceWriteTyped
  <2>5. db'[mig.from].rows = [d.rows EXCEPT ![t] = @ \cup {new}]
    BY <1>0, <1>4, <2>3 DEF Contents
  <2>6. \A u \in Tables : db'[mig.from].rows[u] = IF u = t THEN d.rows[t] \cup {new} ELSE d.rows[u]
    BY <1>4, <2>5
  <2>7. IntIds(d.rows[t]) /\ Fits(d.def[t], d.rows[t])
    BY <1>0, <1>3 DEF KeyedById
  <2>8. Fits(d.def[t], {new})
    BY <2>1, <2>2, <2>7 DEF Fits
  <2> HIDE DEF d
  <2>9. IntIds(d.rows[t] \cup {new}) /\ Fits(d.def[t], d.rows[t] \cup {new})
    BY <1>3, <2>2, <2>3, <2>7, <2>8, KeyedRows
  <2>10. ASSUME NEW u \in Tables
         PROVE  /\ db'[mig.from].def[u].key \in {"id", "no table"} /\ db'[mig.from].def[u].id.type \notin {"tinyint(1)", "boolean"}
                /\ IntIds(db'[mig.from].rows[u]) /\ Fits(db'[mig.from].def[u], db'[mig.from].rows[u])
    <3>1. /\ d.def[u].key \in {"id", "no table"} /\ d.def[u].id.type \notin {"tinyint(1)", "boolean"}
          /\ IntIds(d.rows[u]) /\ Fits(d.def[u], d.rows[u]) /\ db'[mig.from].def = d.def
      BY <1>0, <1>1 DEF KeyedById, d
    <3>2. CASE u = t
      BY <1>3, <2>6, <2>9, <3>1, <3>2
    <3>3. CASE u # t
      <4>1. db'[mig.from].rows[u] = d.rows[u]
        BY <2>6, <3>3
      <4> QED
        BY <3>1, <4>1
    <3> QED
      BY <3>2, <3>3
  <2> QED
    BY ZenonT(60), <2>4, <2>10 DEF KeyedById
<1> QED
  BY ZenonT(60), <1>2, <1>5, <1>6

LEMMA KeyedNext ==
  ASSUME MigrateTypeOK, Aimed, CopyInv, SchemaRead, KeyedById(db), ReadInv, [Next]_vars
  PROVE  KeyedById(db')
<1>0. DbTyped /\ MigTyped /\ mig.to \in Services
  BY TypeParts DEF MigTyped, Migrations
<1>1. CASE UNCHANGED db
  BY <1>1
<1>2. CASE SourceWrite
  BY <1>2, KeyedWrite
<1>3. CASE MigrationStep /\ Kept
  <2>1. CASE Create
    BY <2>1, KeyedCreate
  <2>2. CASE \E c \in Conns : InsertBatch(c)
    BY <2>2, KeyedInsert
  <2>3. ASSUME \A t \in Tables : Target'.rows[t] \subseteq Target.rows[t], ~Create
        PROVE  KeyedById(db')
    <3>1. \A s \in Services : db'[s].def = db[s].def
      BY <2>3, DefsKept
    <3>2. \A s \in Services, t \in Tables : db'[s].rows[t] \subseteq db[s].rows[t]
      BY <1>3, <2>3 DEF Kept, Target
    <3> QED
      BY <3>1, <3>2, KeyedFewer
  <2>4. CASE TruncatePg \/ \E c \in Conns : TruncateMysql(c)
    <3>1. Current \in Tables /\ mig.pc \in {"truncate", "checks off"}
      BY <2>4, CurrentIsLeft DEF TruncatePg, TruncateMysql, Idle
    <3>2. PICK ts \in SUBSET Tables, p \in {"open", "checks on"} :
            \/ /\ db' = [db EXCEPT ![mig.to] = Emptied(@, ts)]
               /\ mig' = [mig EXCEPT !.pc = p]
            \/ /\ UNCHANGED db
               /\ mig' = [mig EXCEPT !.pc = p, !.refused = @ \cup {Current}]
      BY <2>4, <3>1, TruncateSteps
    <3>3. \/ \A t \in Tables : Target'.rows[t] = IF t \in ts THEN {} ELSE Target.rows[t]
          \/ Target' = Target
      BY ZenonT(60), <1>0, <3>1, <3>2, TruncateTyped
    <3>4. ~Create
      BY <3>1 DEF Create
    <3> QED
      BY <2>3, <3>3, <3>4
  <2>5. CASE CreateIndexes \/ AddForeignKeys
    <3>1. Target'.rows = Target.rows /\ ~Create
      BY <1>0, <2>5, CreateIndexesTyped, AddForeignKeysTyped DEF CreateIndexes, AddForeignKeys, Create
    <3> QED
      BY <2>3, <3>1
  <2>6. CASE SetSequence
    <3>1. Current \in Tables
      BY <2>6, CurrentIsLeft DEF SetSequence, Idle
    <3>2. Target'.rows = Target.rows
      BY <1>0, <2>6, <3>1, SetSequenceTyped
    <3>3. ~Create
      BY <2>6 DEF SetSequence, Create
    <3> QED
      BY <2>3, <3>2, <3>3
  <2> QED
    BY <1>1, <1>3, <2>1, <2>2, <2>4, <2>5, <2>6
    DEF MigrationStep, Introspect, OpenStream, EndOfStream, ChecksOff, ChecksOn
<1> QED
  BY ZenonT(60), <1>1, <1>2, <1>3, StepKeeps DEF Next, Start, Interrupt, vars

(* Only the query of a table's rows reads any.                              *)
LEMMA ReadKept ==
  ASSUME MigrateTypeOK, MigrationStep, ~OpenStream, ~Introspect, ~Failed
  PROVE  mig'.read = mig.read /\ (mig'.pc = "create" => mig.pc = "create") /\ mig'.pc # "introspect"
<1>0. mig \in Migrations
  BY DEF MigrateTypeOK
<1>1. ASSUME NEW phase \in Phases \ {"introspect"}, NEW next \in Phases \ {"introspect", "create"},
             phase = "create" => mig.pc = "create", mig' = Advance(mig, phase, next)
      PROVE  mig'.read = mig.read /\ (mig'.pc = "create" => mig.pc = "create") /\ mig'.pc # "introspect"
  <2>1. CASE mig' = [mig EXCEPT !.pc = phase, !.left = mig.left \ {Current}]
    BY <1>0, <1>1, <2>1 DEF Migrations
  <2>2. CASE mig' = [mig EXCEPT !.pc = next, !.left = IF next = "done" THEN {} ELSE mig.sel]
    BY <1>0, <1>1, <2>2 DEF Migrations
  <2> QED
    BY <1>0, <1>1, <2>1, <2>2, Advanced
<1>2. CASE Create
  <2>1. mig' = Advance(mig, "create", "truncate") /\ mig.pc = "create"
    BY <1>2 DEF Create
  <2> QED
    BY <1>1, <2>1 DEF Phases
<1>3. CASE TruncatePg
  BY <1>0, <1>3 DEF TruncatePg, Migrations
<1>4. ASSUME NEW c \in Conns, ChecksOff(c) \/ TruncateMysql(c) \/ ChecksOn(c)
      PROVE  mig'.read = mig.read /\ (mig'.pc = "create" => mig.pc = "create") /\ mig'.pc # "introspect"
  BY ZenonT(60), <1>0, <1>4 DEF ChecksOff, TruncateMysql, ChecksOn, Migrations
<1>5. ASSUME NEW c \in Conns, InsertBatch(c)
      PROVE  mig'.read = mig.read /\ (mig'.pc = "create" => mig.pc = "create") /\ mig'.pc # "introspect"
  BY <1>0, <1>5 DEF InsertBatch, Migrations
<1>6. CASE EndOfStream
  <2>1. mig' = Advance(mig, "truncate", IF Dir = "to_pg" THEN "index" ELSE "done")
    BY <1>6 DEF EndOfStream
  <2> QED
    BY <1>1, <2>1 DEF Phases
<1>7. CASE CreateIndexes
  <2>1. mig' = Advance(mig, "index", "setval")
    BY <1>7 DEF CreateIndexes
  <2> QED
    BY <1>1, <2>1 DEF Phases
<1>8. CASE SetSequence
  <2>1. \/ mig' = Advance(mig, "setval", "fks")
        \/ mig' = Advance([mig EXCEPT !.unset = @ \cup {Current}], "setval", "fks")
    BY ZenonT(60), <1>8 DEF SetSequence
  <2>2. CASE mig' = Advance([mig EXCEPT !.unset = @ \cup {Current}], "setval", "fks")
    BY <1>0, <2>2 DEF Advance, Migrations
  <2> QED
    BY <1>1, <2>1, <2>2 DEF Phases
<1>9. CASE AddForeignKeys
  <2>1. mig' = Advance(mig, "fks", "done")
    BY <1>9 DEF AddForeignKeys
  <2> QED
    BY <1>1, <2>1 DEF Phases
<1> QED
  BY <1>2, <1>3, <1>4, <1>5, <1>6, <1>7, <1>8, <1>9 DEF MigrationStep
LEMMA ReadNext ==
  ASSUME MigrateTypeOK, SchemaRead, KeyedById(db), ReadInv, [Next]_vars
  PROVE  ReadInv'
<1>0. DbTyped /\ MigTyped /\ mig \in Migrations /\ mig.sel \subseteq Tables /\ mig.from \in Services
  BY TypeParts DEF MigTyped, Migrations
<1>1. CASE UNCHANGED vars
  BY <1>1 DEF vars, ReadInv
<1>2. CASE Failed
  BY <1>2, FailedTyped DEF ReadInv
<1>3. CASE SourceWrite
  <2>1. mig' = [mig EXCEPT !.dirty = TRUE]
    BY <1>0, <1>3, SourceWriteTyped
  <2>2. mig'.pc = mig.pc /\ mig'.read = mig.read /\ mig'.sel = mig.sel /\ mig'.schema = mig.schema
    BY <1>0, <2>1 DEF Migrations
  <2> QED
    BY <2>2 DEF ReadInv
<1>4. CASE \E list \in Detected, from, to \in Services, filter \in Filters : Start(list, from, to, filter)
  <2>1. mig'.read = [t \in Tables |-> {}] /\ mig'.sel = mig.sel
    BY <1>0, <1>4 DEF Start, Migrations
  <2> QED
    BY <1>0, <2>1 DEF ReadInv, IntIds, Fits
<1>5. CASE Introspect
  <2>1. mig.pc = "introspect" /\ mig'.read = mig.read
    BY <1>0, <1>5 DEF Introspect, Migrations
  <2>2. \A t \in Tables : mig'.read[t] = {}
    BY <2>1 DEF ReadInv
  <2>3. mig'.sel \subseteq Tables
    BY <1>0, <1>5, IntrospectTyped DEF MigTyped, Migrations
  <2> QED
    BY <2>2, <2>3 DEF ReadInv, IntIds, Fits
<1>6. CASE OpenStream
  <2> DEFINE C == Current
  <2>1. mig.pc = "open"
    BY <1>6 DEF OpenStream
  <2>2. C \in Tables /\ C \in mig.sel
    BY <2>1, CurrentIsLeft DEF Idle
  <2>3. /\ mig'.pc = "insert"
        /\ \A t \in Tables : mig'.read[t] = IF t = C THEN db[mig.from].rows[C] ELSE mig.read[t]
    BY <1>0, <1>6, <2>2, OpenStreamTyped
  <2>4. mig'.sel = mig.sel /\ mig'.schema = mig.schema
    BY <1>0, <1>6 DEF OpenStream, Migrations
  <2>5. mig.schema[C] = db[mig.from].def[C]
    BY <2>1, <2>2 DEF SchemaRead
  <2>6. IntIds(db[mig.from].rows[C]) /\ Fits(mig.schema[C], db[mig.from].rows[C])
    BY <1>0, <2>2, <2>5 DEF KeyedById
  <2>7. (\A t \in Tables : IntIds(mig.read[t])) /\ \A t \in mig.sel : Fits(mig.schema[t], mig.read[t])
    BY <2>1 DEF ReadInv
  <2> HIDE DEF C
  <2>8. ASSUME NEW t \in Tables PROVE IntIds(mig'.read[t]) /\ (t \in mig.sel => Fits(mig.schema[t], mig'.read[t]))
    <3>1. CASE t = C
      BY <2>3, <2>6, <3>1
    <3>2. CASE t # C
      <4>1. mig'.read[t] = mig.read[t]
        BY <2>3, <3>2
      <4> QED
        BY <2>7, <4>1
    <3> QED
      BY <3>1, <3>2
  <2> QED
    BY <1>0, <2>3, <2>4, <2>8 DEF ReadInv
<1>7. CASE MigrationStep /\ Kept /\ ~OpenStream /\ ~Introspect
  <2>1. ~Failed
    BY <1>7, FailedTyped DEF Kept
  <2>2. mig'.read = mig.read /\ (mig'.pc = "create" => mig.pc = "create") /\ mig'.pc # "introspect"
    BY SMTT(60), <1>7, <2>1, ReadKept
  <2>3. mig.pc \notin {"idle", "failed", "introspect"}
    BY <1>7 DEF Kept, MigrationStep, Create, TruncatePg, EndOfStream, ChecksOff, TruncateMysql, InsertBatch,
                ChecksOn, CreateIndexes, SetSequence, AddForeignKeys
  <2>4. mig'.sel = mig.sel /\ mig'.schema = mig.schema
    BY <1>7, <2>3 DEF Kept
  <2> QED
    BY <2>2, <2>3, <2>4 DEF ReadInv
<1> QED
  BY <1>1, <1>2, <1>3, <1>4, <1>5, <1>6, <1>7, StepKeeps DEF Next, Interrupt

(* The rows of two keyed databases are compared by their ids.               *)
LEMMA LossOfRow ==
  ASSUME MigrateTypeOK, SchemaRead, KeyedById(db), ReadInv, mig.pc = "done", NEW t \in mig.sel,
         NEW r \in mig.read[t], NEW q \in Target.rows[t], q \in Converted(t, mig.read[t]), q.id = r.id
  PROVE  SameValue(r.val, q.val) \/ ListedLoss(t, r.val, q.val)
<1>0. /\ DbTyped /\ MigTyped /\ mig \in Migrations /\ t \in Tables /\ mig.to \in Services /\ mig.from \in Services
      /\ mig.read[t] \in SUBSET Rows
  BY TypeParts DEF MigTyped, Migrations
<1>1. q.id # Refused /\ q.val # Refused
  BY <1>0 DEF DbTyped, Consistent, Target
<1>2. /\ IntIds(mig.read[t]) /\ Fits(mig.schema[t], mig.read[t])
      /\ mig.schema[t].id.type # "tinyint(1)"
  BY <1>0 DEF ReadInv, SchemaRead, KeyedById
<1>3. PICK r0 \in mig.read[t] : q = IF Dir = "to_pg" THEN PgValues(mig.schema[t], Target.def[t], r0)
                                                     ELSE MysqlValues(mig.schema[t], Target.def[t], r0)
  BY DEF Converted
<1>4. r0 \in Rows /\ r0.id \in Cells /\ r0.val \in Cells /\ r0.id.k = "int"
  BY <1>0, <1>2 DEF Rows, IntIds
<1>5. \/ /\ q.id = PgStore(Target.def[t].id.type, PgLiteral(ExtractMysql(mig.schema[t].id.type, r0.id)))
         /\ q.val = PgStore(Target.def[t].val.type, PgLiteral(ExtractMysql(mig.schema[t].val.type, r0.val)))
      \/ /\ q.id = MysqlStore(Target.def[t].id.type, MysqlLiteral(ExtractPg(mig.schema[t].id.type, r0.id)))
         /\ q.val = MysqlStore(Target.def[t].val.type, MysqlLiteral(ExtractPg(mig.schema[t].val.type, r0.val)))
  BY <1>3, <1>4 DEF PgValues, MysqlValues, Rows
<1>6. q.id = r0.id
  BY <1>1, <1>2, <1>4, <1>5, StoredIntId
<1>7. r0 = r
  BY <1>2, <1>6 DEF IntIds
<1>8. mig.schema[t].val.type = "tinyint(1)" => r0.val = Null \/ r0.val.k = "int"
  BY <1>2 DEF Fits
<1>9. CASE q.val = PgStore(Target.def[t].val.type, PgLiteral(ExtractMysql(mig.schema[t].val.type, r0.val)))
  <2>1. \/ SameValue(r0.val, q.val)
        \/ q.val = Null /\ (Undecodable(r0.val) \/ r0.val.k = "nan")
        \/ mig.schema[t].val.type = "tinyint(1)" /\ r0.val.n > 1 /\ q.val = Value("bool", 1)
    BY <1>1, <1>4, <1>8, <1>9, PgLoss
  <2> QED
    BY <1>7, <2>1 DEF ListedLoss
<1>10. CASE q.val = MysqlStore(Target.def[t].val.type, MysqlLiteral(ExtractPg(mig.schema[t].val.type, r0.val)))
  <2> DEFINE to == Target.def[t].val.type
             from == mig.schema[t].val.type
             v == r0.val
             w == q.val
  <2>0. v \in Cells /\ w # Refused /\ w = MysqlStore(to, MysqlLiteral(ExtractPg(from, v)))
    BY <1>1, <1>4, <1>10
  <2> HIDE DEF to, from, v, w
  <2>1. MysqlChange(v, to, w)
    BY <2>0, MysqlLoss
  <2> QED
    BY <1>7, <2>1 DEF MysqlChange, ListedLoss, to, v, w
<1> QED
  BY <1>5, <1>9, <1>10

(* The values a migration changes without an error are those of ListedLoss, *)
(* in either direction, whatever tables of whatever column types the target *)
(* had: where tables are keyed by integer ids, by which rows can be told    *)
(* (extract_mysql_cell to cell_to_mysql_literal, db/migrate.rs:926-1215).   *)
THEOREM LossesListed ==
  ASSUME \A d \in Databases : KeyedById(d)
  PROVE  Spec => []LossesAreListed
<1> DEFINE Keyed == KeyedById(db)
<1>1. Init => SchemaRead /\ Keyed /\ ReadInv
  BY DEF Init, NoMigration, SchemaRead, ReadInv
<1>2. MigrateTypeOK /\ Aimed /\ CopyInv /\ SchemaRead /\ Keyed /\ ReadInv /\ [Next]_vars => (SchemaRead /\ Keyed /\ ReadInv)'
  BY SchemaNext, KeyedNext, ReadNext
<1>3. MigrateTypeOK /\ DoneComplete /\ SchemaRead /\ Keyed /\ ReadInv => LossesAreListed
  <2> SUFFICES ASSUME MigrateTypeOK, DoneComplete, SchemaRead, Keyed, ReadInv, mig.pc = "done",
                      NEW t \in mig.sel \ mig.refused, NEW r \in mig.read[t], NEW q \in Target.rows[t], q.id = r.id
               PROVE  SameValue(r.val, q.val) \/ ListedLoss(t, r.val, q.val)
    BY DEF LossesAreListed
  <2>1. q \in Converted(t, mig.read[t])
    BY DEF DoneComplete
  <2> QED
    BY <2>1, LossOfRow
<1> HIDE DEF Keyed
<1> QED
  BY <1>1, <1>2, <1>3, CopiedSoFar, CopiedComplete, PTL DEF Spec
=============================================================================
