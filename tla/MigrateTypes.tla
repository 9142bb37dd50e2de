---------------------------- MODULE MigrateTypes ----------------------------
(***************************************************************************)
(* The column types and values of db/migrate.rs: the type maps that build  *)
(* the target's tables, the extraction of a cell from a source row, and    *)
(* the literal that is sent to the target.                                 *)
(*                                                                         *)
(* A type is the name information_schema has for it.  A value is           *)
(* [k |-> kind, n |-> size]: of an "int", n is the number of bits it needs *)
(* beside its sign; of a "decimal", its digits; of a "bool" and of the     *)
(* rest, n tells apart the values the conversions treat differently.       *)
(***************************************************************************)
EXTENDS Naturals

Value(k, n) == [k |-> k, n |-> n]
Null == Value("null", 0)
(* What an engine answers to a literal its column cannot hold. *)
Refused == Value("refused", 0)

(* The columns' types, of either engine; "none" is no type.                *)
ColumnTypes ==
    {"none", "tinyint(1)", "tinyint", "tinyint unsigned", "smallint", "smallint unsigned", "mediumint", "int",
     "int unsigned", "bigint", "bigint unsigned", "float", "double", "decimal", "decimal(10,0)", "char", "varchar",
     "longtext", "enum", "blob", "longblob", "varbinary", "bit", "date", "time", "datetime", "timestamp", "year",
     "json", "point", "boolean", "integer", "real", "double precision", "numeric", "numeric free", "character",
     "character varying", "text", "bytea", "time without time zone", "timestamp without time zone",
     "timestamp with time zone", "jsonb", "uuid", "ARRAY"}
CellKinds ==
    {"null", "refused", "int", "bool", "float", "nan", "decimal", "fraction", "text", "bytes", "bits", "date",
     "zero date", "time", "split second", "long time", "datetime", "subsecond", "json", "uuid", "opaque"}

(* mysql_type_to_pg: the type of the PostgreSQL column made for a MySQL    *)
(* column.  SERIAL and BIGSERIAL are integer columns with a sequence; auto *)
(* says whether there is one.                                              *)
PlainPg(t) ==
    CASE t \in {"tinyint", "tinyint unsigned", "smallint", "smallint unsigned", "year"} -> "smallint"
      [] t = "int unsigned"               -> "bigint"
      [] t \in {"mediumint", "int"}       -> "integer"
      [] t = "bigint unsigned"            -> "numeric"
      [] t = "bigint"                     -> "bigint"
      [] t = "float"                      -> "real"
      [] t = "double"                     -> "double precision"
      [] t = "decimal"                    -> "numeric"
      [] t = "char"                       -> "character"
      [] t = "varchar"                    -> "character varying"
      [] t \in {"blob", "longblob", "varbinary"} -> "bytea"
      [] t = "bit"                        -> "bit"
      [] t = "date"                       -> "date"
      [] t = "time"                       -> "time without time zone"
      [] t = "datetime"                   -> "timestamp without time zone"
      [] t = "timestamp"                  -> "timestamp with time zone"
      [] t = "json"                       -> "jsonb"
      [] OTHER                            -> "text"
MysqlToPg(col) ==
    IF col.type = "tinyint(1)" THEN [col EXCEPT !.type = "boolean", !.auto = FALSE]
    ELSE IF col.auto
    THEN [col EXCEPT !.type = IF @ \in {"bigint", "bigint unsigned"} THEN "bigint" ELSE "integer"]
    ELSE [col EXCEPT !.type = PlainPg(@)]

(* pg_type_to_mysql.  "numeric" is NUMERIC(p,s), "numeric free" a NUMERIC  *)
(* without precision, which becomes DECIMAL, that is DECIMAL(10,0).        *)
PlainMysql(t) ==
    CASE t = "boolean"                    -> "tinyint(1)"
      [] t = "smallint"                   -> "smallint"
      [] t = "integer"                    -> "int"
      [] t = "bigint"                     -> "bigint"
      [] t = "real"                       -> "float"
      [] t = "double precision"           -> "double"
      [] t = "numeric"                    -> "decimal"
      [] t = "numeric free"               -> "decimal(10,0)"
      [] t \in {"character", "uuid"}      -> "char"
      [] t = "character varying"          -> "varchar"
      [] t = "bytea"                      -> "longblob"
      [] t = "date"                       -> "date"
      [] t = "time without time zone"     -> "time"
      [] t \in {"timestamp without time zone", "timestamp with time zone"} -> "datetime"
      [] t \in {"json", "jsonb"}          -> "json"
      [] t = "bit"                        -> "bit"
      [] OTHER                            -> "longtext"
PgToMysql(col) ==
    IF col.auto THEN [col EXCEPT !.type = IF @ = "bigint" THEN "bigint" ELSE "int"]
    ELSE [col EXCEPT !.type = PlainMysql(@)]

(* Values the client library cannot give as the Rust type asked for: a     *)
(* decimal of more than 28 digits, MySQL's zero date and times of more     *)
(* than a day, what PostgreSQL has no textual wire form for, and BIT,      *)
(* asked for as bytes, which the library takes from BLOB and BYTEA only.   *)
Undecodable(v) ==
    \/ v.k = "decimal" /\ v.n > 28
    \/ v.k \in {"zero date", "long time", "uuid", "bits", "opaque"}

(* Mutation: an unsigned bigint is read `as i64`. *)
ExtractMysqlSigned(type, v) ==
    IF Undecodable(v) \/ v = Null THEN Null
    ELSE IF type = "tinyint(1)" THEN Value("bool", IF v.n = 0 THEN 0 ELSE 1)
    ELSE IF v.k = "int" /\ v.n = 64 THEN Value("int", 63) ELSE v

(* extract_mysql_cell: the cell of a MySQL column as a CellValue; a value  *)
(* that cannot be decoded becomes NULL, in the function itself or at its   *)
(* caller (unwrap_or(CellValue::Null)).                                    *)
ExtractMysql(type, v) ==
    IF Undecodable(v) \/ v = Null THEN Null
    ELSE IF type = "tinyint(1)" THEN Value("bool", IF v.n = 0 THEN 0 ELSE 1) ELSE v

(* extract_pg_cell: uuid, arrays and unknown types are read as strings,    *)
(* which the library refuses; a time zone is converted to UTC.             *)
ExtractPg(type, v) == IF Undecodable(v) THEN Null ELSE v

(* cell_to_pg_literal and cell_to_mysql_literal: a float that is not a     *)
(* number is NULL for PostgreSQL; for MySQL it is spelled out.             *)
PgLiteral(c) == IF c.k = "nan" THEN Null ELSE c
MysqlLiteral(c) == IF c.k = "bool" THEN Value("int", c.n) ELSE c

(* The bits a column type holds beside the sign. *)
Bits(type) ==
    CASE type \in {"tinyint", "tinyint(1)"}                           -> 7
      [] type = "tinyint unsigned"                                    -> 8
      [] type \in {"smallint", "year"}                                -> 15
      [] type = "smallint unsigned"                                   -> 16
      [] type = "mediumint"                                           -> 23
      [] type \in {"int", "integer"}                                  -> 31
      [] type = "int unsigned"                                        -> 32
      [] type = "bigint"                                              -> 63
      [] type \in {"bigint unsigned", "decimal", "numeric", "numeric free"} -> 64
      [] type = "decimal(10,0)"                                       -> 33
      [] OTHER                                                        -> 0

(* How the two engines take a literal into a column. *)
Textual == {"char", "varchar", "text", "longtext", "enum", "character", "character varying", "point"}
PgStore(type, v) ==
    CASE v = Null                                               -> Null
      [] v.k = "int" /\ v.n <= Bits(type)                       -> v
      [] v.k = "bool" /\ type = "boolean"                       -> v
      [] v.k \in {"float", "decimal", "fraction"} /\ type \in {"real", "double precision", "numeric"} -> v
      [] v.k = "text" /\ type \in Textual /\ v.n = 0            -> v
      [] v.k = "bytes" /\ type = "bytea"                        -> v
      [] v.k = "json" /\ type = "jsonb"                         -> v
      [] v.k = "date" /\ type = "date"                          -> v
      [] v.k \in {"time", "split second"} /\ type = "time without time zone" -> v
      [] v.k \in {"datetime", "subsecond"} /\ type \in {"timestamp without time zone", "timestamp with time zone"} -> v
      [] OTHER                                                  -> Refused
MysqlStore(type, v) ==
    CASE v = Null                                               -> Null
      [] v.k = "int" /\ v.n <= Bits(type)                       -> v
      [] v.k \in {"float", "decimal"} /\ type \in {"float", "double", "decimal"} -> v
      [] v.k = "decimal" /\ type = "decimal(10,0)" /\ v.n <= 10 -> v
      [] v.k = "fraction" /\ type \in {"float", "double", "decimal"} -> v
      [] v.k = "fraction" /\ type = "decimal(10,0)"             -> Value("decimal", 1)
      [] v.k = "text" /\ type \in Textual                       -> v
      [] v.k = "bytes" /\ type \in {"longblob", "blob"}         -> v
      [] v.k = "bytes" /\ type = "bit"                          -> Value("bits", 0)
      [] v.k = "json" /\ type = "json"                          -> v
      [] v.k = "date" /\ type = "date"                          -> v
      [] v.k = "time" /\ type = "time"                          -> v
      [] v.k = "split second" /\ type = "time"                  -> Value("time", 0)
      [] v.k = "datetime" /\ type \in {"datetime", "timestamp"} -> v
      [] v.k = "subsecond" /\ type \in {"datetime", "timestamp"} -> Value("datetime", 0)
      [] OTHER                                                  -> Refused
=============================================================================
