----------------------------- MODULE MCViolations -----------------------------
(***************************************************************************)
(* Statements on which the code and spec.md disagree, one set per run.    *)
(* Each is a statement of the grammar of spec.md 4.1 (or one outside it,  *)
(* kind "malformed") together with what the spec says of it.              *)
(***************************************************************************)
EXTENDS MCMutation

SelOp(s) == [spec |-> s, text |-> RenderSelect(s)]

\* SELECT * FROM User LIMIT 0
LimitZeroOps == { SelOp(Select(<<>>, <<>>, <<>>, <<0>>, <<>>)) }

\* SELECT * FROM User WHERE name LIKE %(v)s, run with v = None
MCNoneParams == {NoParams, PyNone}

ParamOps ==
  { SelOp(Select(<<>>, <<[field |-> "name", lit |-> MCPlaceholder, op |-> "LIKE"]>>,
                 <<>>, <<>>, <<>>)) }

\* SELECT * FROM User WHERE status = 'active' AND age = 1
ConjunctionOps ==
  { Malformed(<<Word("SELECT"), Sym("*"), Word("FROM"), Word("User"), Word("WHERE"),
                Word("status"), Sym("="), Quoted("'", Word("active")), Word("and"),
                Word("age"), Sym("="), IntTok(1)>>) }

DeleteText(id) == RenderDelete([entity |-> "User", id |-> id, idq |-> TRUE])

\* DELETE FROM User WHERE id = '0123...' AND name = 'Bob'
DeleteConjunctionOps ==
  { Malformed(DeleteText(Id1) \o <<Word("and"), Word("name"), Sym("="),
                                  Quoted("'", Word("Bob"))>>) }

\* User.objects.all()[5:], as Django's compiler writes it
DjangoSliceOps == { DjangoSlice("User", 5, <<>>) }

\* both conjunctions: the WHERE of a SELECT and of a DELETE
TrailingConjunctionOps == ConjunctionOps \cup DeleteConjunctionOps

=============================================================================
