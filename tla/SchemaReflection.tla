--------------------------- MODULE SchemaReflection ---------------------------
(***************************************************************************)
(* Schema reflection: the two readers of the gateway's GET /schema         *)
(* document, the SQLAlchemy dialect (sqlalchemy/dialect.py) and the Django *)
(* introspection (django/introspection.py), and the type tables of the     *)
(* Django backend (django/base.py).                                        *)
(*                                                                         *)
(* Every reflection method does its own GET, parses the document and      *)
(* answers; any exception (transport, status, JSON) is swallowed and the   *)
(* method answers as if the table were absent.  A document is a sequence  *)
(* of entities [name, fields, relations]; a key the gateway leaves out     *)
(* holds the default the code's .get gives it ("" for a name, "string"    *)
(* for a field type, FALSE for a flag, None for a default, "" for a        *)
(* relation's target, "none" for its type).  Names are strings, so the     *)
(* f-string names of constraints are concatenations.                       *)
(***************************************************************************)
EXTENDS Integers, Sequences, SequencesExt

CONSTANTS
  Schemas,      \* the documents the gateway may serve
  Tables,       \* the table names the readers are asked about
  Lower(_),     \* str.lower() on the field types of the model
  None

VARIABLES
  schema,       \* the document the gateway serves now
  last          \* the latest reflection call: [call, table, ok, answer]

vars == <<schema, last>>

\* The first entity called t, <<>> when none (the loops return at the first).
Entity(doc, t) ==
  LET i == SelectInSeq(doc, LAMBDA e : e.name = t) IN IF i = 0 THEN <<>> ELSE <<doc[i]>>

IsKey(rel) == rel.type \in {"many_to_one", "one_to_one"}

KeyRels(e) == SelectSeq(e.relations, IsKey)

FkField(rel) == rel.name \o "_id"

Names(doc) == SelectSeq([i \in DOMAIN doc |-> doc[i].name], LAMBDA n : n # "")

(***************************************************************************)
(* OrmdbDialect (dialect.py 109-330).                                      *)
(***************************************************************************)
\* _map_ormdb_type (313-330): type_map.get(ormdb_type.lower(), String)
TypeMap ==
  [t \in {"uuid", "string", "text", "int32", "int64", "float32", "float64", "bool",
          "bytes", "timestamp", "date", "time", "json"} |->
     CASE t = "uuid" -> "String(32)" [] t = "string" -> "String" [] t = "text" -> "Text"
       [] t = "int32" -> "Integer" [] t = "int64" -> "BigInteger"
       [] t \in {"float32", "float64"} -> "Float" [] t = "bool" -> "Boolean"
       [] t = "bytes" -> "LargeBinary" [] t = "timestamp" -> "DateTime"
       [] t = "date" -> "Date" [] t = "time" -> "Time" [] t = "json" -> "JSON"]

map_ormdb_type(ft) == IF Lower(ft) \in DOMAIN TypeMap THEN TypeMap[Lower(ft)] ELSE "String"

get_table_names(doc) == Names(doc)

has_table(doc, t) == t \in ToSet(get_table_names(doc))

get_columns(doc, t) ==
  IF Entity(doc, t) = <<>> THEN <<>>
  ELSE LET fs == Entity(doc, t)[1].fields IN
       [i \in DOMAIN fs |-> [autoincrement |-> FALSE, default |-> fs[i].default,
                             name |-> fs[i].name, nullable |-> ~fs[i].required,
                             type |-> map_ormdb_type(fs[i].field_type)]]

get_pk_constraint(doc, t) ==
  IF Entity(doc, t) = <<>> THEN [constrained_columns |-> <<>>, name |-> None]
  ELSE [constrained_columns |-> <<"id">>, name |-> t \o "_pkey"]

get_foreign_keys(doc, t) ==
  IF Entity(doc, t) = <<>> THEN <<>>
  ELSE LET rs == KeyRels(Entity(doc, t)[1]) IN
       [i \in DOMAIN rs |-> [constrained_columns |-> <<FkField(rs[i])>>,
                             name |-> "fk_" \o t \o "_" \o rs[i].name,
                             referred_columns |-> <<"id">>, referred_schema |-> None,
                             referred_table |-> rs[i].target]]

get_indexes(doc, t) ==
  IF Entity(doc, t) = <<>> THEN <<>>
  ELSE LET fs == SelectSeq(Entity(doc, t)[1].fields, LAMBDA f : f.indexed) IN
       [i \in DOMAIN fs |-> [column_names |-> <<fs[i].name>>,
                             name |-> "idx_" \o t \o "_" \o fs[i].name,
                             unique |-> fs[i].unique]]

get_unique_constraints(doc, t) ==
  IF Entity(doc, t) = <<>> THEN <<>>
  ELSE LET fs == SelectSeq(Entity(doc, t)[1].fields, LAMBDA f : f.unique) IN
       [i \in DOMAIN fs |-> [column_names |-> <<fs[i].name>>,
                             name |-> "uq_" \o t \o "_" \o fs[i].name]]

(***************************************************************************)
(* DatabaseIntrospection (introspection.py 17-237).                       *)
(***************************************************************************)
\* Mutant: int64 read back as IntegerField, Django's int32 field.
data_types_reverse_int64 ==
  ("uuid" :> "UUIDField") @@ ("string" :> "CharField") @@ ("text" :> "TextField")
  @@ ("int32" :> "IntegerField") @@ ("int64" :> "IntegerField")
  @@ ("float32" :> "FloatField") @@ ("float64" :> "FloatField")
  @@ ("bool" :> "BooleanField") @@ ("bytes" :> "BinaryField")
  @@ ("timestamp" :> "DateTimeField") @@ ("date" :> "DateField")
  @@ ("time" :> "TimeField") @@ ("json" :> "JSONField")

data_types_reverse ==
  ("uuid" :> "UUIDField") @@ ("string" :> "CharField") @@ ("text" :> "TextField")
  @@ ("int32" :> "IntegerField") @@ ("int64" :> "BigIntegerField")
  @@ ("float32" :> "FloatField") @@ ("float64" :> "FloatField")
  @@ ("bool" :> "BooleanField") @@ ("bytes" :> "BinaryField")
  @@ ("timestamp" :> "DateTimeField") @@ ("date" :> "DateField")
  @@ ("time" :> "TimeField") @@ ("json" :> "JSONField")

get_table_list(doc) == [i \in DOMAIN Names(doc) |-> [name |-> Names(doc)[i], type |-> "t"]]

\* _get_field_size: sizes.get(field_type), no lower-casing
FieldSizes == ("uuid" :> 16) @@ ("int32" :> 4) @@ ("int64" :> 8) @@ ("float32" :> 4)
              @@ ("float64" :> 8) @@ ("bool" :> 1)
get_field_size(ft) == IF ft \in DOMAIN FieldSizes THEN FieldSizes[ft] ELSE None

get_table_description(doc, t) ==
  IF Entity(doc, t) = <<>> THEN <<>>
  ELSE LET fs == Entity(doc, t)[1].fields IN
       [i \in DOMAIN fs |-> [default |-> fs[i].default, internal_size |-> get_field_size(fs[i].field_type),
                             name |-> fs[i].name, null_ok |-> ~fs[i].required,
                             type_code |-> fs[i].field_type]]

\* Mutant: the position counted from 1 (enumerate(fields, 1)).
get_relations_from_one(doc, t) ==
  IF Entity(doc, t) = <<>> THEN <<>>
  ELSE LET e   == Entity(doc, t)[1]
           Idx(rel) == SelectInSeq(e.fields, LAMBDA f : f.name = FkField(rel))
       IN FoldLeft(LAMBDA acc, rel : IF Idx(rel) = 0 THEN acc
                                     ELSE (Idx(rel) :> <<rel.target, "id">>) @@ acc,
                   <<>>, KeyRels(e))

\* relations[idx] = (target, "id") for the first field named <rel>_id;
\* idx counts from 0 (enumerate), a later relation overwrites an earlier.
get_relations(doc, t) ==
  IF Entity(doc, t) = <<>> THEN <<>>
  ELSE LET e   == Entity(doc, t)[1]
           Idx(rel) == SelectInSeq(e.fields, LAMBDA f : f.name = FkField(rel))
       IN FoldLeft(LAMBDA acc, rel : IF Idx(rel) = 0 THEN acc
                                     ELSE ((Idx(rel) - 1) :> <<rel.target, "id">>) @@ acc,
                   <<>>, KeyRels(e))

get_key_columns(doc, t) ==
  IF Entity(doc, t) = <<>> THEN <<>>
  ELSE LET rs == KeyRels(Entity(doc, t)[1]) IN
       [i \in DOMAIN rs |-> <<FkField(rs[i]), rs[i].target, "id">>]

Constraint(cols, pk, unique, fk) ==
  [check |-> FALSE, columns |-> cols, foreign_key |-> fk, index |-> TRUE,
   primary_key |-> pk, unique |-> unique]

\* The dict of get_constraints, filled in the code's order: primary key,
\* unique fields, foreign keys, indexed non-unique fields; a later entry of
\* the same name replaces an earlier one.
\* Mutant: the _idx filter without "and not unique".
get_constraints_unique_idx(doc, t) ==
  IF Entity(doc, t) = <<>> THEN <<>>
  ELSE LET e  == Entity(doc, t)[1]
           uq == SelectSeq(e.fields, LAMBDA f : f.unique)
           ix == SelectSeq(e.fields, LAMBDA f : f.indexed)
           fk == KeyRels(e)
           entries ==
             << <<t \o "_pkey", Constraint(<<"id">>, TRUE, TRUE, None)>> >>
             \o [i \in DOMAIN uq |-> <<t \o "_" \o uq[i].name \o "_key",
                                      Constraint(<<uq[i].name>>, FALSE, TRUE, None)>>]
             \o [i \in DOMAIN fk |-> <<t \o "_" \o FkField(fk[i]) \o "_fkey",
                                      Constraint(<<FkField(fk[i])>>, FALSE, FALSE,
                                                 <<fk[i].target, "id">>)>>]
             \o [i \in DOMAIN ix |-> <<t \o "_" \o ix[i].name \o "_idx",
                                      Constraint(<<ix[i].name>>, FALSE, FALSE, None)>>]
       IN FoldLeft(LAMBDA acc, en : (en[1] :> en[2]) @@ acc, <<>>, entries)

get_constraints(doc, t) ==
  IF Entity(doc, t) = <<>> THEN <<>>
  ELSE LET e  == Entity(doc, t)[1]
           uq == SelectSeq(e.fields, LAMBDA f : f.unique)
           ix == SelectSeq(e.fields, LAMBDA f : f.indexed /\ ~f.unique)
           fk == KeyRels(e)
           entries ==
             << <<t \o "_pkey", Constraint(<<"id">>, TRUE, TRUE, None)>> >>
             \o [i \in DOMAIN uq |-> <<t \o "_" \o uq[i].name \o "_key",
                                      Constraint(<<uq[i].name>>, FALSE, TRUE, None)>>]
             \o [i \in DOMAIN fk |-> <<t \o "_" \o FkField(fk[i]) \o "_fkey",
                                      Constraint(<<FkField(fk[i])>>, FALSE, FALSE,
                                                 <<fk[i].target, "id">>)>>]
             \o [i \in DOMAIN ix |-> <<t \o "_" \o ix[i].name \o "_idx",
                                      Constraint(<<ix[i].name>>, FALSE, FALSE, None)>>]
       IN FoldLeft(LAMBDA acc, en : (en[1] :> en[2]) @@ acc, <<>>, entries)

(***************************************************************************)
(* DatabaseWrapper.data_types (django/base.py 53-83): the ORMDB type       *)
(* Django writes for each model field class.                               *)
(***************************************************************************)
data_types ==
  [f \in {"AutoField", "BigAutoField", "OneToOneField", "SmallAutoField", "UUIDField"} |-> "uuid"]
  @@ [f \in {"CharField", "FileField", "FilePathField", "IPAddressField",
             "GenericIPAddressField", "SlugField"} |-> "string"]
  @@ [f \in {"IntegerField", "PositiveIntegerField", "PositiveSmallIntegerField",
             "SmallIntegerField"} |-> "int32"]
  @@ [f \in {"BigIntegerField", "DurationField", "PositiveBigIntegerField"} |-> "int64"]
  @@ [f \in {"DecimalField", "FloatField"} |-> "float64"]
  @@ [f \in {"BooleanField", "NullBooleanField"} |-> "bool"]
  @@ ("BinaryField" :> "bytes") @@ ("DateField" :> "date") @@ ("DateTimeField" :> "timestamp")
  @@ ("JSONField" :> "json") @@ ("TextField" :> "text") @@ ("TimeField" :> "time")

-----------------------------------------------------------------------------
(***************************************************************************)
(* The reflection calls.  Each is one GET of /schema; when it raises, the  *)
(* except clause answers what an empty entity list gives: [], {}, False,   *)
(* or a primary key of no columns named None.                              *)
(***************************************************************************)
Answer(call, doc, t) ==
  CASE call = "get_table_names"        -> get_table_names(doc)
    [] call = "has_table"              -> has_table(doc, t)
    [] call = "get_columns"            -> get_columns(doc, t)
    [] call = "get_pk_constraint"      -> get_pk_constraint(doc, t)
    [] call = "get_foreign_keys"       -> get_foreign_keys(doc, t)
    [] call = "get_indexes"            -> get_indexes(doc, t)
    [] call = "get_unique_constraints" -> get_unique_constraints(doc, t)
    [] call = "get_table_list"         -> get_table_list(doc)
    [] call = "get_table_description"  -> get_table_description(doc, t)
    [] call = "get_relations"          -> get_relations(doc, t)
    [] call = "get_key_columns"        -> get_key_columns(doc, t)
    [] call = "get_constraints"        -> get_constraints(doc, t)

DialectCalls == {"get_table_names", "has_table", "get_columns", "get_pk_constraint",
                 "get_foreign_keys", "get_indexes", "get_unique_constraints"}
DjangoCalls  == {"get_table_list", "get_table_description", "get_relations",
                 "get_key_columns", "get_constraints"}

Init ==
  /\ schema \in Schemas
  /\ last = [answer |-> None, call |-> "none", ok |-> TRUE, table |-> None]

\* Mutant: the call's table is not recorded.
Reflect_no_table(call, t) ==
  /\ UNCHANGED schema
  /\ last' = [answer |-> Answer(call, schema, t), call |-> call, ok |-> TRUE, table |-> None]

\* A call whose GET succeeds reads the document the gateway serves now.
Reflect(call, t) ==
  /\ UNCHANGED schema
  /\ last' = [answer |-> Answer(call, schema, t), call |-> call, ok |-> TRUE, table |-> t]

\* A call whose GET raises (transport error, error status, bad JSON).
ReflectFailed(call, t) ==
  /\ UNCHANGED schema
  /\ last' = [answer |-> Answer(call, <<>>, t), call |-> call, ok |-> FALSE, table |-> t]

\* The gateway is given another schema between two calls.
SchemaChange ==
  /\ UNCHANGED last
  /\ \E d \in Schemas \ {schema} : schema' = d

Next ==
  \/ \E c \in DialectCalls, t \in Tables : Reflect(c, t)
  \/ \E c \in DjangoCalls, t \in Tables : Reflect(c, t)
  \/ \E c \in DialectCalls \cup DjangoCalls, t \in Tables : ReflectFailed(c, t)
  \/ SchemaChange

Spec == Init /\ [][Next]_vars
-----------------------------------------------------------------------------
TypeOK ==
  /\ schema \in Schemas
  /\ last.call \in DialectCalls \cup DjangoCalls \cup {"none"}
  /\ last.ok \in BOOLEAN
  /\ last.call # "none" => last.table \in Tables

(***************************************************************************)
(* The SQLAlchemy dialect and the Django introspection, reading the same   *)
(* document, describe every table alike: the same tables, the same        *)
(* columns in order with the same nullability and default, the same       *)
(* foreign keys in order, the same unique columns, the same non-unique    *)
(* indexed columns, and a primary key exactly when the table exists.  The *)
(* two readers are separate code over the same document (dialect.py      *)
(* 109-305, introspection.py 33-237).                                     *)
(***************************************************************************)
ReadersAgree ==
  \A t \in Tables :
    LET cols == get_columns(schema, t)
        desc == get_table_description(schema, t)
        fks  == get_foreign_keys(schema, t)
        keys == get_key_columns(schema, t)
        cons == get_constraints(schema, t)
        names == get_table_list(schema)
        ConsCols(Kind(_)) == {cons[n].columns[1] : n \in {m \in DOMAIN cons : Kind(cons[m])}}
    IN /\ get_table_names(schema) = [i \in DOMAIN names |-> names[i].name]
       /\ has_table(schema, t) = (DOMAIN cons # {})
       /\ [i \in DOMAIN cols |-> <<cols[i].name, cols[i].nullable, cols[i].default>>]
          = [i \in DOMAIN desc |-> <<desc[i].name, desc[i].null_ok, desc[i].default>>]
       /\ [i \in DOMAIN fks |-> <<fks[i].constrained_columns[1], fks[i].referred_table>>]
          = [i \in DOMAIN keys |-> <<keys[i][1], keys[i][2]>>]
       /\ {u.column_names[1] : u \in ToSet(get_unique_constraints(schema, t))}
          = ConsCols(LAMBDA c : c.unique /\ ~c.primary_key)
       /\ {x.column_names[1] : x \in {y \in ToSet(get_indexes(schema, t)) : ~y.unique}}
          = ConsCols(LAMBDA c : ~c.unique /\ c.foreign_key = None)
       /\ (get_pk_constraint(schema, t).constrained_columns = <<"id">>)
          = (t \o "_pkey" \in DOMAIN cons)

(***************************************************************************)
(* get_relations (introspection.py 97-126) maps the 0-based position of    *)
(* each foreign-key field to the relation's target, and agrees with        *)
(* get_key_columns: every position it names holds a key column with that  *)
(* target, and every key column the entity has as a field has a position. *)
(***************************************************************************)
RelationsAreKeyColumns ==
  \A t \in Tables :
    LET e    == Entity(schema, t)
        rel  == get_relations(schema, t)
        keys == ToSet(get_key_columns(schema, t))
    IN e # <<>> =>
       /\ \A i \in DOMAIN rel : <<e[1].fields[i + 1].name, rel[i][1], "id">> \in keys
       /\ \A k \in keys : (\E j \in DOMAIN e[1].fields : e[1].fields[j].name = k[1])
                            => \E i \in DOMAIN rel : e[1].fields[i + 1].name = k[1]

(***************************************************************************)
(* A column Django wrote survives inspectdb: for every field of the served *)
(* document whose type is one DatabaseWrapper.data_types writes, the field *)
(* class data_types_reverse reads it as is written back as the same ORMDB  *)
(* type, and the SQLAlchemy dialect maps it to a type of its own rather   *)
(* than its String fallback (only "string" itself maps to String).        *)
(***************************************************************************)
TypeRoundTrip ==
  \A e \in ToSet(schema) : \A i \in DOMAIN e.fields :
    LET ot == e.fields[i].field_type IN
    ot \in Range(data_types) =>
      /\ ot \in DOMAIN data_types_reverse
      /\ data_types[data_types_reverse[ot]] = ot
      /\ map_ormdb_type(ot) = "String" => ot = "string"
====
