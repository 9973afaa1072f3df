--------------------------- MODULE DjangoOperations ---------------------------
(***************************************************************************)
(* The SQL the Django backend (src/clients/python/ormdb/django) hands to   *)
(* the DBAPI cursor, over the token abstraction of SqlValue.               *)
(*                                                                         *)
(* DatabaseOperations (operations.py) supplies the pieces Django's          *)
(* compiler puts in a statement: quote_name for every table name and        *)
(* limit_offset_sql for the tail of a sliced queryset.  sql_flush builds   *)
(* whole statements.  Django's compiler writes a sliced queryset           *)
(* Entity.objects.all()[low:high] as SELECT <columns> FROM                  *)
(* quote_name(table) followed by limit_offset_sql(low_mark, high_mark); the *)
(* column list, which the pagination does not depend on, is written "*".   *)
(* high is <<>> for None and <<h>> otherwise.                              *)
(***************************************************************************)
EXTENDS SqlValue

\* quote_name (operations.py 21-25): a name that starts and ends with '"'
\* (a quoted name, or the lone character '"') is returned as it is.
quote_name(name) ==
  IF IsQuote(name, "\"") THEN name ELSE Quoted("\"", name)

\* limit_offset_sql (operations.py 31-40); LIMIT -1 is written for "no
\* limit" when only an offset is set.
limit_offset_sql(low, high) ==
  LET limit == IF high # <<>> THEN <<Word("LIMIT"), IntTok(high[1] - low)>> ELSE <<>>
  IN IF low = 0 THEN limit
     ELSE (IF high = <<>> THEN <<Word("LIMIT"), IntTok(-1)>> ELSE limit)
          \o <<Word("OFFSET"), IntTok(low)>>

\* sql_flush (operations.py 92-103): one DELETE FROM per table
sql_flush(tables) ==
  [i \in DOMAIN tables |-> <<Word("DELETE"), Word("FROM"), quote_name(tables[i])>>]

\* The statement of Entity.objects.all()[low:high].
DjangoSliceSql(entity, low, high) ==
  <<Word("SELECT"), Sym("*"), Word("FROM"), quote_name(Word(entity))>>
  \o limit_offset_sql(low, high)

\* What the queryset asks for: an entity and a slice [low:high].
DjangoSlice(entity, low, high) ==
  [spec |-> [entity |-> entity, high |-> high, kind |-> "django_slice", low |-> low],
   text |-> DjangoSliceSql(entity, low, high)]
====
