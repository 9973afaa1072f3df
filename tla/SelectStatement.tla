--------------------------- MODULE SelectStatement ---------------------------
(***************************************************************************)
(* The SELECT path of the DBAPI cursor (sqlalchemy/dbapi.py): the parser  *)
(* _parse_select, _parse_where, _parse_order_by and the query payload      *)
(* _execute_query posts.  Statement text is a token sequence (SqlValue).   *)
(* A Python str.find(" KW ") on stripped text finds a keyword that has a   *)
(* token before and after it: FindKw.  Slices text[a:b] are SubSeq, empty *)
(* when b <= a, as in Python.                                              *)
(*                                                                         *)
(* The second part is the reference: the grammar of spec.md 4.1 rendered  *)
(* to tokens and the payload spec.md 4.3 says the statement produces.     *)
(***************************************************************************)
EXTENDS SqlValue, SequencesExt

\* The first of the positions hits in 2..Len(text)-1, 0 when none (str.find).
FindAt(text, hits) ==
  LET I == hits \cap 2..Len(text) - 1 IN IF I = {} THEN 0 ELSE Min(I)

FindKw(text, up) == FindAt(text, {i \in DOMAIN text : IsWord(text[i], up)})

FindOrderBy(text) ==
  FindAt(text, {i \in DOMAIN text : IsWord(text[i], "ORDER") /\ i + 1 < Len(text)
                                    /\ IsWord(text[i + 1], "BY")})

\* min(found positions, default); positions are 0 when not found.
FirstOf(positions, default) ==
  IF positions \ {0} = {} THEN default ELSE Min(positions \ {0})

\* text.split(sep) with every part stripped
RECURSIVE SplitOn(_, _)
SplitOn(text, sep) ==
  LET i == SelectInSeq(text, LAMBDA t : t = sep)
  IN IF i = 0 THEN <<text>>
     ELSE <<SubSeq(text, 1, i - 1)>> \o SplitOn(SubSeq(text, i + 1, Len(text)), sep)

\* int(text): a single numeral, otherwise ValueError
IntOf(text) ==
  IF Len(text) = 1 /\ text[1].k = "int" THEN [ok |-> TRUE, v |-> text[1].n]
  ELSE [ok |-> FALSE, v |-> 0]

UpperTok(t) ==
  CASE t.k = "word" -> Word(Upper(t.w))
    [] t.k \in {"quoted", "cutl", "cutr"} /\ t.t.k = "word"
                    -> [t EXCEPT !.t = Word(Upper(t.t.w))]
    [] OTHER        -> t

(***************************************************************************)
(* _parse_where (dbapi.py 405-444): re.match(r"(\w+)\s*(op)\s*(.+)") and  *)
(* op_map.get(op, "eq").                                                   *)
(***************************************************************************)
\* Mutant: op_map lacks "<>", which op_map.get then maps to "eq".
op_map_no_ne == [o \in {"=", "!=", "<", ">", "<=", ">=", "LIKE", "IN"} |->
                   CASE o = "=" -> "eq" [] o = "!=" -> "ne"
                     [] o = "<" -> "lt" [] o = ">" -> "gt" [] o = "<=" -> "le"
                     [] o = ">=" -> "ge" [] o = "LIKE" -> "like" [] o = "IN" -> "in"]

op_map == [o \in {"=", "!=", "<>", "<", ">", "<=", ">=", "LIKE", "IN"} |->
             CASE o = "=" -> "eq" [] o \in {"!=", "<>"} -> "ne"
               [] o = "<" -> "lt" [] o = ">" -> "gt" [] o = "<=" -> "le"
               [] o = ">=" -> "ge" [] o = "LIKE" -> "like" [] o = "IN" -> "in"]

\* Mutant: any word passes for an operator.
IsOpTok_any_word(t) ==
  \/ t.k = "sym" /\ t.s \in {"=", "!=", "<>", "<", ">", "<=", ">="}
  \/ t.k = "word"

IsOpTok(t) ==
  \/ t.k = "sym" /\ t.s \in {"=", "!=", "<>", "<", ">", "<=", ">="}
  \/ t.k = "word" /\ Upper(t.w) \in {"LIKE", "IN"}

parse_where(clause) ==
  IF Len(clause) >= 3 /\ clause[1].k = "word" /\ IsOpTok(clause[2])
  THEN LET op == IF clause[2].k = "word" THEN Upper(clause[2].w) ELSE clause[2].s
       IN [expr |-> [field |-> <<clause[1]>>,
                     op    |-> IF op \in DOMAIN op_map THEN op_map[op] ELSE "eq",
                     value |-> ToJson(parse_sql_value(SubSeq(clause, 3, Len(clause))))],
           ok |-> TRUE]
  ELSE [ok |-> FALSE]

(***************************************************************************)
(* _parse_order_by (dbapi.py 446-459): a part whose upper-cased text holds *)
(* " DESC" (" ASC") loses that word and is upper-cased; a part without a  *)
(* direction keeps its own casing.                                         *)
(***************************************************************************)
HasDir(part, up) == \E i \in 2..Len(part) : IsWord(part[i], up)

DropDir(part, up) ==
  LET keep == {i \in DOMAIN part : ~(i >= 2 /\ IsWord(part[i], up))}
  IN [j \in 1..Cardinality(keep) |-> UpperTok(part[CHOOSE i \in keep :
         Cardinality({m \in keep : m <= i}) = j])]

OrderItem(part) ==
  IF HasDir(part, "DESC") THEN [direction |-> "desc", field |-> DropDir(part, "DESC")]
  ELSE IF HasDir(part, "ASC") THEN [direction |-> "asc", field |-> DropDir(part, "ASC")]
  ELSE [direction |-> "asc", field |-> part]

parse_order_by(clause) ==
  LET parts == SplitOn(clause, Sym(",")) IN [i \in DOMAIN parts |-> OrderItem(parts[i])]

(***************************************************************************)
(* _parse_select (dbapi.py 329-403).  stmt starts with the SELECT token.   *)
(* err is the exception raised, "none" when parsing succeeds; limit and   *)
(* offset are <<>> for None.                                              *)
(***************************************************************************)
parse_select(stmt) ==
  LET sql  == Tail(stmt)
      from == FindKw(sql, "FROM")
      rem  == SubSeq(sql, from + 1, Len(sql))
      end  == Len(rem) + 1
      w    == FindKw(rem, "WHERE")
      o    == FindOrderBy(rem)
      l    == FindKw(rem, "LIMIT")
      off  == FindKw(rem, "OFFSET")
      where == parse_where(SubSeq(rem, w + 1, FirstOf({o, l}, end) - 1))
      limitStr == SubSeq(rem, l + 1, Len(rem))
      offIn    == FindKw(limitStr, "OFFSET")
      limitVal == IF offIn # 0 THEN IntOf(SubSeq(limitStr, 1, offIn - 1))
                  ELSE IntOf(<<limitStr[1]>>)
      offInVal == IntOf(SubSeq(limitStr, offIn + 1, Len(limitStr)))
      offVal   == IntOf(<<rem[off + 1]>>)
      hasOffIn == l # 0 /\ offIn # 0
  IN
  CASE from = 0 -> [err |-> "ProgrammingError"]
    [] w # 0 /\ ~where.ok -> [err |-> "ProgrammingError"]
    [] l # 0 /\ ~limitVal.ok -> [err |-> "ValueError"]
    [] hasOffIn /\ ~offInVal.ok -> [err |-> "ValueError"]
    [] ~hasOffIn /\ off # 0 /\ ~offVal.ok -> [err |-> "ValueError"]
    [] OTHER ->
       [entity |-> SubSeq(rem, 1, FirstOf({w, o, l}, end) - 1),
        err    |-> "none",
        fields |-> SplitOn(SubSeq(sql, 1, from - 1), Sym(",")),
        filter |-> IF w = 0 THEN <<>> ELSE <<where.expr>>,
        limit  |-> IF l = 0 THEN <<>> ELSE <<limitVal.v>>,
        offset |-> IF hasOffIn THEN <<offInVal.v>>
                   ELSE IF off # 0 THEN <<offVal.v>> ELSE <<>>,
        order  |-> IF o = 0 THEN <<>>
                   ELSE parse_order_by(SubSeq(rem, o + 2,
                                              (IF l # 0 THEN l ELSE end) - 1))]

\* `limit or 100`: None and 0 are both falsy
OrDefault(opt, default) == IF opt = <<>> \/ opt[1] = 0 THEN default ELSE opt[1]

(***************************************************************************)
(* The query payload _execute_query posts (dbapi.py 216-228).  Optional   *)
(* keys are <<>> when absent and <<value>> when present.                  *)
(***************************************************************************)
query_payload(q) ==
  [fields      |-> IF q.fields # << <<Sym("*")>> >> THEN <<q.fields>> ELSE <<>>,
   filter      |-> IF q.filter # <<>> THEN <<[expression |-> q.filter[1]]>> ELSE <<>>,
   order_by    |-> IF q.order # <<>> THEN <<q.order>> ELSE <<>>,
   pagination  |-> IF q.limit # <<>> \/ q.offset # <<>>
                   THEN <<[limit  |-> OrDefault(q.limit, 100),
                           offset |-> OrDefault(q.offset, 0)]>>
                   ELSE <<>>,
   root_entity |-> q.entity]

-----------------------------------------------------------------------------
(***************************************************************************)
(* Reference.  An abstract SELECT of the grammar of spec.md 4.1:           *)
(*   [entity, star (a "*" field list), fields (a sequence of names),       *)
(*    where (<<>> or <<[field, op, lit]>>),                                *)
(*    order (sequence of [field, dir], dir "" when unspecified),           *)
(*    limit, offset (<<>> or <<n>>)]                                       *)
(***************************************************************************)
OpTok(o) == IF o \in {"LIKE", "IN"} THEN Word(o) ELSE Sym(o)

Joined(parts) ==
  IF parts = <<>> THEN <<>>
  ELSE FoldLeft(LAMBDA acc, p : acc \o <<Sym(",")>> \o p, Head(parts), Tail(parts))

RenderSelect(s) ==
  <<Word("SELECT")>>
  \o (IF s.star THEN <<Sym("*")>>
      ELSE Joined([i \in DOMAIN s.fields |-> <<Word(s.fields[i])>>]))
  \o <<Word("FROM"), Word(s.entity)>>
  \o (IF s.where = <<>> THEN <<>>
      ELSE <<Word("WHERE"), Word(s.where[1].field), OpTok(s.where[1].op),
             s.where[1].lit>>)
  \o (IF s.order = <<>> THEN <<>>
      ELSE <<Word("ORDER"), Word("BY")>>
           \o Joined([i \in DOMAIN s.order |->
                       <<Word(s.order[i].field)>>
                       \o (IF s.order[i].dir = "" THEN <<>> ELSE <<Word(s.order[i].dir)>>)]))
  \o (IF s.limit = <<>> THEN <<>> ELSE <<Word("LIMIT"), IntTok(s.limit[1])>>)
  \o (IF s.offset = <<>> THEN <<>> ELSE <<Word("OFFSET"), IntTok(s.offset[1])>>)

SpecOp(o) ==
  CASE o = "=" -> "eq" [] o \in {"!=", "<>"} -> "ne" [] o = "<" -> "lt"
    [] o = ">" -> "gt" [] o = "<=" -> "le" [] o = ">=" -> "ge"
    [] o = "LIKE" -> "like" [] o = "IN" -> "in"

\* spec.md 4.3 and 9: pagination only when limit or offset is given, the
\* other defaulting to 100 / 0; an explicit ORDER BY direction upper-cases
\* the field name (the documented quirk).
SpecQueryPayload(s, value) ==
  [fields      |-> IF s.star THEN <<>>
                   ELSE << [i \in DOMAIN s.fields |-> <<Word(s.fields[i])>>] >>,
   filter      |-> IF s.where = <<>> THEN <<>>
                   ELSE <<[expression |-> [field |-> <<Word(s.where[1].field)>>,
                                           op    |-> SpecOp(s.where[1].op),
                                           value |-> value]]>>,
   order_by    |-> IF s.order = <<>> THEN <<>>
                   ELSE << [i \in DOMAIN s.order |->
                             [direction |-> IF s.order[i].dir = "DESC"
                                            THEN "desc" ELSE "asc",
                              field |-> IF s.order[i].dir = ""
                                        THEN <<Word(s.order[i].field)>>
                                        ELSE <<Word(Upper(s.order[i].field))>>]] >>,
   pagination  |-> IF s.limit = <<>> /\ s.offset = <<>> THEN <<>>
                   ELSE <<[limit  |-> IF s.limit = <<>> THEN 100 ELSE s.limit[1],
                           offset |-> IF s.offset = <<>> THEN 0 ELSE s.offset[1]]>>,
   root_entity |-> <<Word(s.entity)>>]
=============================================================================
