------------------------------ MODULE MCMutation ------------------------------
(***************************************************************************)
(* Model of DbapiCursor for INSERT, UPDATE and DELETE: assignment lists    *)
(* that cross the Int32 boundary on both sides, a quoted comma in a value  *)
(* list, a bound parameter, and identifiers bare, quoted and hyphenated.  *)
(***************************************************************************)
EXTENDS MCDbapiCursor, MCIds

Assigns ==
  { <<[field |-> "name", lit |-> MCPlaceholder], [field |-> "age", lit |-> IntTok(MCInt32Bound - 1)]>>,
    <<[field |-> "age", lit |-> IntTok(MCInt32Bound)], [field |-> "flag", lit |-> Word("TRUE")]>>,
    <<[field |-> "age", lit |-> IntTok(-MCInt32Bound)], [field |-> "note", lit |-> Word("NULL")]>>,
    <<[field |-> "age", lit |-> IntTok(-MCInt32Bound - 1)],
      [field |-> "note", lit |-> Quoted("'", Sym(","))]>>,
    <<[field |-> "name", lit |-> Quoted("'", Word("Bob"))], [field |-> "age", lit |-> DecTok("1.5")]>> }

Ids == { [id |-> Id1, idq |-> TRUE], [id |-> Id2, idq |-> FALSE],
         [id |-> Hyphenated(Id2), idq |-> TRUE] }

Op(render, s) == [spec |-> s, text |-> render]

InsertOps ==
  { Op(RenderInsert([assigns |-> a, entity |-> "User", kind |-> "insert"]),
       [assigns |-> a, entity |-> "User", kind |-> "insert"]) : a \in Assigns }

\* the quoted comma is left out: UPDATE splits its SET clause on every comma
UpdateOps ==
  { Op(RenderUpdate([assigns |-> a, entity |-> "User", id |-> i.id, idq |-> i.idq,
                     kind |-> "update"]),
       [assigns |-> a, entity |-> "User", id |-> i.id, idq |-> i.idq, kind |-> "update"])
    : a \in Assigns \ {a2 \in Assigns : \E j \in DOMAIN a2 : a2[j].lit = Quoted("'", Sym(","))},
      i \in Ids }

DeleteOps ==
  { Op(RenderDelete([entity |-> "User", id |-> i.id, idq |-> i.idq, kind |-> "delete"]),
       [entity |-> "User", id |-> i.id, idq |-> i.idq, kind |-> "delete"]) : i \in Ids }

\* statements outside the grammar: a field and value count that differ,
\* an identifier of 31 characters, an UPDATE without WHERE id
MutRejected ==
  { Malformed(<<Word("INSERT"), Word("INTO"), Word("User"), Sym("("), Word("name"),
                Sym(","), Word("age"), Sym(")"), Word("VALUES"), Sym("("), IntTok(1),
                Sym(")")>>),
    Malformed(RenderDelete([entity |-> "User", id |-> ShortId, idq |-> TRUE])),
    Malformed(<<Word("UPDATE"), Word("User"), Word("SET"), Word("age"), Sym("="), IntTok(1)>>) }

\* one query, so that mutations follow and precede a result set
MCMutOps ==
  InsertOps \cup UpdateOps \cup DeleteOps \cup MutRejected
  \cup { [spec |-> Select(<<>>, <<>>, <<>>, <<>>, <<>>),
          text |-> RenderSelect(Select(<<>>, <<>>, <<>>, <<>>, <<>>))] }

\* Django's flush: DELETE FROM "User", outside the grammar (no WHERE id)
MCFlushOps == { Malformed(sql_flush(<<Word("User")>>)[1]) }

\* every SELECT form, the statements the parser rejects, and Django's flush
MCSelectOps == MCOps \cup MCFlushOps
=============================================================================
