------------------------------ MODULE SqlValue ------------------------------
(***************************************************************************)
(* Literal text and the value codec of the DBAPI layer                    *)
(* (src/clients/python/ormdb/sqlalchemy/dbapi.py).                         *)
(*                                                                         *)
(* Statement text is abstracted to a sequence of whitespace-separated      *)
(* tokens.  A token says what its text looks like, which is all that      *)
(* _parse_sql_value, int() and float() tell apart:                         *)
(*   word    a \w+ word: identifier, keyword, bare value ("User", "NULL")  *)
(*   sym     punctuation: an operator, "*", ","                           *)
(*   int     a numeral int() accepts                  ("42", "-7")        *)
(*   dec     a float numeral containing "."           ("1.5")             *)
(*   exp     a float numeral without "."              ("1e+20", "inf")    *)
(*   quoted  a quoted span 'x' or "x" around one token                     *)
(*   qchar   a lone quote character, what is left of a quoted span that a  *)
(*           split cuts in two                                             *)
(*   hex     an identifier: its characters, hex digits, "-", "+", "g"      *)
(* Keywords are case-insensitive in the code (it compares .upper()):       *)
(* Upper is the upper-casing of a word, given by the model.                *)
(***************************************************************************)
EXTENDS Integers, Sequences

CONSTANTS
  Upper(_),     \* str.upper() on the words of the model
  Int32Bound    \* 2^31; TLC's own integers are 32-bit, so a model scales it

\* Tokens of the tokenizer and the Python values a caller passes.
Word(s)      == [k |-> "word", w |-> s]
Sym(s)       == [k |-> "sym", s |-> s]
IntTok(n)    == [k |-> "int", n |-> n]
DecTok(f)    == [f |-> f, k |-> "dec"]
ExpTok(f)    == [f |-> f, k |-> "exp"]
Quoted(q, t) == [k |-> "quoted", q |-> q, t |-> t]
QChar(q)     == [k |-> "qchar", q |-> q]
HexTok(cs)   == [c |-> cs, k |-> "hex"]
\* What remains of a quoted token once its first (LeftCut) or last
\* (RightCut) character, the quote, is sliced off.
LeftCut(t)   == [k |-> "cutl", q |-> t.q, t |-> t.t]
RightCut(t)  == [k |-> "cutr", q |-> t.q, t |-> t.t]

IsWord(t, up) == t.k = "word" /\ Upper(t.w) = up

(***************************************************************************)
(* Python values.  A str is the text it holds, a sequence of tokens; a    *)
(* float is named by its repr, a dec or exp token.                        *)
(***************************************************************************)
PyNone      == [t |-> "none"]
PyBool(b)   == [b |-> b, t |-> "bool"]
PyInt(n)    == [i |-> n, t |-> "int"]
PyFloat(f)  == [f |-> f, t |-> "float"]
PyStr(text) == [s |-> text, t |-> "str"]

\* isinstance(value, int) holds for a bool as well in Python.
IsInstanceInt(p) == p.t \in {"int", "bool"}

(***************************************************************************)
(* _parse_sql_value (dbapi.py 529-558): quoted span, NULL, TRUE/FALSE,    *)
(* then a number: float() when the text contains "." else int(), and a     *)
(* bare string when that conversion raises ValueError.                     *)
(***************************************************************************)
IsQuote(t, q) == t.k \in {"quoted", "qchar"} /\ t.q = q
StartsWithQuote(text, q) == Len(text) >= 1 /\ IsQuote(text[1], q)
EndsWithQuote(text, q)   == Len(text) >= 1 /\ IsQuote(text[Len(text)], q)

\* value_str[1:-1]: a lone quote character leaves "", a quoted token its
\* content, a longer text loses the quote of its first and last token.
Unquoted(t)  == IF t.k = "qchar" THEN <<>> ELSE <<t.t>>
CutFirst(t)  == IF t.k = "qchar" THEN <<>> ELSE <<LeftCut(t)>>
CutLast(t)   == IF t.k = "qchar" THEN <<>> ELSE <<RightCut(t)>>
StripQuotes(text) ==
  IF Len(text) = 1 THEN Unquoted(text[1])
  ELSE CutFirst(text[1]) \o SubSeq(text, 2, Len(text) - 1) \o CutLast(text[Len(text)])

parse_sql_value(text) ==
  CASE \E q \in {"'", "\""} : StartsWithQuote(text, q) /\ EndsWithQuote(text, q)
                                  -> PyStr(StripQuotes(text))
    [] Len(text) = 0                             -> PyStr(text)
    [] Len(text) = 1 /\ IsWord(text[1], "NULL")  -> PyNone
    [] Len(text) = 1 /\ IsWord(text[1], "TRUE")  -> PyBool(TRUE)
    [] Len(text) = 1 /\ IsWord(text[1], "FALSE") -> PyBool(FALSE)
    [] Len(text) = 1 /\ text[1].k = "dec"        -> PyFloat(text[1])
    [] Len(text) = 1 /\ text[1].k = "int"        -> PyInt(text[1].n)
    [] OTHER                                     -> PyStr(text)

(***************************************************************************)
(* str(value), used when execute() formats parameters into the operation *)
(* text (dbapi.py 190-191): the text Python prints for the value.         *)
(***************************************************************************)
PyText(p) ==
  CASE p.t = "none"  -> <<Word("None")>>
    [] p.t = "bool"  -> <<Word(IF p.b THEN "True" ELSE "False")>>
    [] p.t = "int"   -> <<IntTok(p.i)>>
    [] p.t = "float" -> <<p.f>>
    [] p.t = "str"   -> p.s

(***************************************************************************)
(* _convert_value (dbapi.py 587-603): the tagged wire value.               *)
(***************************************************************************)
Int32Min == -Int32Bound
Int32End == Int32Bound

\* The isinstance tests run in this order; IF keeps that order, since a
\* bool passes both the bool and the int test.
\* Mutant: the Int32 range check includes 2^31.
convert_value_inclusive(p) ==
  IF p.t = "none" THEN [tag |-> "Null"]
  ELSE IF p.t = "bool" THEN [b |-> p.b, tag |-> "Bool"]
  ELSE IF IsInstanceInt(p)
       THEN IF Int32Min <= p.i /\ p.i <= Int32End
              THEN [i |-> p.i, tag |-> "Int32"]
              ELSE [i |-> p.i, tag |-> "Int64"]
  ELSE IF p.t = "float" THEN [f |-> p.f, tag |-> "Float64"]
  ELSE [s |-> p.s, tag |-> "String"]

convert_value(p) ==
  IF p.t = "none" THEN [tag |-> "Null"]
  ELSE IF p.t = "bool" THEN [b |-> p.b, tag |-> "Bool"]
  ELSE IF IsInstanceInt(p)
       THEN IF Int32Min <= p.i /\ p.i < Int32End
              THEN [i |-> p.i, tag |-> "Int32"]
              ELSE [i |-> p.i, tag |-> "Int64"]
  ELSE IF p.t = "float" THEN [f |-> p.f, tag |-> "Float64"]
  ELSE [s |-> p.s, tag |-> "String"]

\* json.dumps of a Python value (the WHERE value is sent untagged).
ToJson(p) ==
  CASE p.t = "none"  -> [json |-> "null"]
    [] p.t = "bool"  -> [b |-> p.b, json |-> "bool"]
    [] p.t = "int"   -> [i |-> p.i, json |-> "number"]
    [] p.t = "float" -> [f |-> p.f, json |-> "number"]
    [] p.t = "str"   -> [json |-> "string", s |-> p.s]

-----------------------------------------------------------------------------
(***************************************************************************)
(* Reference: literal classification as spec.md 4.1 states it: quoted     *)
(* string, NULL, TRUE/FALSE, "attempt integer parse, then floating-point  *)
(* parse", else a bare string.                                             *)
(***************************************************************************)
SpecLiteral(tok) ==
  CASE tok.k = "quoted"         -> PyStr(<<tok.t>>)
    [] IsWord(tok, "NULL")      -> PyNone
    [] IsWord(tok, "TRUE")      -> PyBool(TRUE)
    [] IsWord(tok, "FALSE")     -> PyBool(FALSE)
    [] tok.k = "int"            -> PyInt(tok.n)
    [] tok.k \in {"dec", "exp"} -> PyFloat(tok)
    [] OTHER                    -> PyStr(<<tok>>)
=============================================================================
