-------------------------- MODULE MutationStatement --------------------------
(***************************************************************************)
(* The INSERT, UPDATE and DELETE paths of the DBAPI cursor                 *)
(* (sqlalchemy/dbapi.py): _parse_insert, _parse_update, _parse_delete,     *)
(* _parse_value_list, _hex_to_uuid and the mutation payloads of            *)
(* _execute_insert/_update/_delete.  A parse result is a record whose err  *)
(* is the exception raised, "none" on success.  An assignment list is a    *)
(* sequence of [field, value] in the order a Python dict keeps its keys.  *)
(***************************************************************************)
EXTENDS SelectStatement

Comma == Sym(",")

\* A token holding a ")" character: the bracket, or a quoted span around one.
HasCloseParen(t) == t = Sym(")") \/ (t.k = "quoted" /\ t.t = Sym(")"))

\* The text that [^)]+ takes from a token holding ")": a quoted span
\* leaves its opening quote, a bare ")" nothing.
BeforeParen(t) == IF t.k = "quoted" THEN <<QChar(t.q)>> ELSE <<>>

\* The first index from `from` on whose token holds ")", 0 when none.
CloseAt(text, from) == SelectInSubSeq(text, from, Len(text), HasCloseParen)

(***************************************************************************)
(* dict(zip(fields, values)) and data[field] = value: a repeated key keeps *)
(* the position of its first occurrence and takes the last value.          *)
(***************************************************************************)
Assign(data, field, value) ==
  LET j == SelectInSeq(data, LAMBDA a : a.field = field)
  IN IF j = 0 THEN Append(data, [field |-> field, value |-> value])
     ELSE [data EXCEPT ![j].value = value]

AsDict(fields, values) ==
  FoldLeft(LAMBDA d, kv : Assign(d, kv[1], kv[2]), <<>>, Zip(fields, values))

(***************************************************************************)
(* _parse_value_list (dbapi.py 560-585): commas outside quotes split; a   *)
(* quoted span is one token, so the quote-aware scan is a split on bare   *)
(* commas.  Every part before a comma is parsed, the last only when it is *)
(* not blank.                                                              *)
(***************************************************************************)
parse_value_list(text) ==
  LET parts == SplitOn(text, Comma)
      n     == Len(parts)
  IN [i \in 1..n - 1 |-> parse_sql_value(parts[i])]
     \o (IF parts[n] # <<>> THEN <<parse_sql_value(parts[n])>> ELSE <<>>)

(***************************************************************************)
(* _parse_insert (dbapi.py 461-484):                                      *)
(*   INSERT\s+INTO\s+(\w+)\s*\(([^)]+)\)\s*VALUES\s*\(([^)]+)\)            *)
(* matched at the start of the text; [^)]+ stops at the first ")" even    *)
(* inside a quoted value.                                                  *)
(***************************************************************************)
\* Mutant: the field and value counts are not compared.
CountsMatch_unchecked(fields, values) == TRUE

CountsMatch(fields, values) == Len(fields) = Len(values)

parse_insert(text) ==
  LET c1     == CloseAt(text, 5)
      c2     == CloseAt(text, c1 + 3)
      fields == SplitOn(SubSeq(text, 5, c1 - 1), Comma)
      values == parse_value_list(SubSeq(text, c1 + 3, c2 - 1) \o BeforeParen(text[c2]))
      match  == /\ Len(text) >= 8 /\ IsWord(text[2], "INTO") /\ text[3].k = "word"
                /\ text[4] = Sym("(") /\ c1 > 5 /\ text[c1] = Sym(")")
                /\ c1 + 3 <= Len(text) /\ IsWord(text[c1 + 1], "VALUES")
                /\ text[c1 + 2] = Sym("(")
                /\ c2 > 0 /\ (c2 > c1 + 3 \/ text[c2].k = "quoted")
  IN CASE ~match                   -> [err |-> "ProgrammingError"]
       [] ~CountsMatch(fields, values) -> [err |-> "ProgrammingError"]
       [] OTHER -> [data |-> AsDict(fields, values), entity |-> <<text[3]>>, err |-> "none"]

(***************************************************************************)
(* The id group ['"]?([^'"]+)['"]? of the UPDATE and DELETE patterns,    *)
(* stripped: the content of a quoted identifier (what follows it is       *)
(* ignored, re.match is not anchored at the end), or a lone unquoted      *)
(* identifier.  Several unquoted tokens run together with their spaces;   *)
(* the model's identifiers are single tokens, so that text is never 32    *)
(* characters long and stands as <<"?">>.                                 *)
(***************************************************************************)
IdText(rest) ==
  CASE rest[1].k = "quoted" /\ rest[1].t.k = "hex" -> rest[1].t.c
    [] Len(rest) = 1 /\ rest[1].k = "hex"          -> rest[1].c
    [] OTHER                                       -> <<"?">>

IsIdEq(text, i) ==
  /\ i + 3 <= Len(text) /\ IsWord(text[i], "WHERE") /\ IsWord(text[i + 1], "ID")
  /\ text[i + 2] = Sym("=")

(***************************************************************************)
(* _parse_update (dbapi.py 486-509):                                      *)
(*   UPDATE\s+(\w+)\s+SET\s+(.+)\s+WHERE\s+id\s*=\s*...                   *)
(* the greedy (.+) ends at the last WHERE id =.  The SET clause is split  *)
(* on every comma, quoted or not, and each part once on "=": a part with  *)
(* no "=" raises ValueError from the tuple unpacking.                      *)
(***************************************************************************)
\* set_clause.split(","): a quoted comma splits its span into two quotes
RawCommas(text) ==
  FlattenSeq([i \in DOMAIN text |->
    IF text[i].k = "quoted" /\ text[i].t = Comma
    THEN <<QChar(text[i].q), Comma, QChar(text[i].q)>> ELSE <<text[i]>>])

EqAt(part) == SelectInSeq(part, LAMBDA t : t = Sym("="))

parse_update(text) ==
  LET ends  == {i \in 5..Len(text) : IsIdEq(text, i)}
      w     == IF ends = {} THEN 0 ELSE Max(ends)
      parts == SplitOn(RawCommas(SubSeq(text, 4, w - 1)), Comma)
  IN CASE ~(/\ Len(text) >= 7 /\ text[2].k = "word" /\ IsWord(text[3], "SET")
            /\ w # 0)                          -> [err |-> "ProgrammingError"]
       [] \E i \in DOMAIN parts : EqAt(parts[i]) = 0 -> [err |-> "ValueError"]
       [] OTHER ->
          [data |-> FoldLeft(LAMBDA d, part :
                      Assign(d, SubSeq(part, 1, EqAt(part) - 1),
                             parse_sql_value(SubSeq(part, EqAt(part) + 1, Len(part)))),
                      <<>>, parts),
           entity |-> <<text[2]>>,
           err |-> "none",
           id |-> IdText(SubSeq(text, w + 3, Len(text)))]

\* _parse_delete (dbapi.py 511-527): DELETE\s+FROM\s+(\w+)\s+WHERE\s+id\s*=...
parse_delete(text) ==
  IF Len(text) >= 7 /\ IsWord(text[2], "FROM") /\ text[3].k = "word" /\ IsIdEq(text, 4)
  THEN [entity |-> <<text[3]>>, err |-> "none", id |-> IdText(SubSeq(text, 7, Len(text)))]
  ELSE [err |-> "ProgrammingError"]

(***************************************************************************)
(* _hex_to_uuid (dbapi.py 605-610): hyphens removed, 32 characters        *)
(* required, then int(pair, 16) for each of the 16 pairs.  int() accepts  *)
(* a leading "+" ("+f" is 15) and raises ValueError on a non-hex digit.   *)
(***************************************************************************)
HexValue == [c \in {"0", "1", "2", "3", "4", "5", "6", "7", "8", "9",
                    "a", "b", "c", "d", "e", "f"} |->
               CHOOSE n \in 0..15 :
                 <<"0", "1", "2", "3", "4", "5", "6", "7", "8", "9",
                   "a", "b", "c", "d", "e", "f">>[n + 1] = c]

IsHex(c) == c \in DOMAIN HexValue
PairOk(a, b)    == IsHex(b) /\ (IsHex(a) \/ a = "+")
PairValue(a, b) == IF a = "+" THEN HexValue[b] ELSE 16 * HexValue[a] + HexValue[b]

hex_to_uuid(chars) ==
  LET h == SelectSeq(chars, LAMBDA c : c # "-")
  IN CASE Len(h) # 32                                   -> [err |-> "ProgrammingError"]
       [] \E i \in 1..16 : ~PairOk(h[2 * i - 1], h[2 * i]) -> [err |-> "ValueError"]
       [] OTHER -> [bytes |-> [i \in 1..16 |-> PairValue(h[2 * i - 1], h[2 * i])],
                    err |-> "none"]

\* The data list of a mutation payload: every value through _convert_value.
WireData(data) ==
  [i \in DOMAIN data |-> [field |-> data[i].field, value |-> convert_value(data[i].value)]]

-----------------------------------------------------------------------------
(***************************************************************************)
(* Reference.  Abstract statements of the grammar of spec.md 4.1:          *)
(*   insert [entity, assigns]       assigns a sequence of [field, lit]    *)
(*   update [entity, idq, id, assigns]                                     *)
(*   delete [entity, idq, id]       id the identifier's characters, idq   *)
(*                                  whether it is written quoted          *)
(***************************************************************************)
IdTok(s) == IF s.idq THEN Quoted("'", HexTok(s.id)) ELSE HexTok(s.id)

WhereId(s) == <<Word("WHERE"), Word("id"), Sym("="), IdTok(s)>>

RenderInsert(s) ==
  <<Word("INSERT"), Word("INTO"), Word(s.entity), Sym("(")>>
  \o Joined([i \in DOMAIN s.assigns |-> <<Word(s.assigns[i].field)>>])
  \o <<Sym(")"), Word("VALUES"), Sym("(")>>
  \o Joined([i \in DOMAIN s.assigns |-> <<s.assigns[i].lit>>])
  \o <<Sym(")")>>

RenderUpdate(s) ==
  <<Word("UPDATE"), Word(s.entity), Word("SET")>>
  \o Joined([i \in DOMAIN s.assigns |->
               <<Word(s.assigns[i].field), Sym("="), s.assigns[i].lit>>])
  \o WhereId(s)

RenderDelete(s) == <<Word("DELETE"), Word("FROM"), Word(s.entity)>> \o WhereId(s)

\* spec.md 3: the tag of a literal's value; Int32 iff in [-2^31, 2^31).
SpecWire(p) ==
  CASE p.t = "none"  -> [tag |-> "Null"]
    [] p.t = "bool"  -> [b |-> p.b, tag |-> "Bool"]
    [] p.t = "int" /\ Int32Min <= p.i /\ p.i < Int32End -> [i |-> p.i, tag |-> "Int32"]
    [] p.t = "int" /\ ~(Int32Min <= p.i /\ p.i < Int32End) -> [i |-> p.i, tag |-> "Int64"]
    [] p.t = "float" -> [f |-> p.f, tag |-> "Float64"]
    [] p.t = "str"   -> [s |-> p.s, tag |-> "String"]

\* spec.md 4.2: hyphens stripped, consecutive hex digits paired into 16
\* bytes, most significant digit first.
SpecId(chars) ==
  LET d == SelectSeq(chars, LAMBDA c : c # "-")
  IN [i \in 1..16 |-> 16 * HexValue[d[2 * i - 1]] + HexValue[d[2 * i]]]
=============================================================================
