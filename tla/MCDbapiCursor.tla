---------------------------- MODULE MCDbapiCursor ----------------------------
(***************************************************************************)
(* Model of DbapiCursor: one connection, one cursor, a small statement    *)
(* space built from the grammar of spec.md 4.1, and gateway responses     *)
(* with zero, one and two entity blocks.                                  *)
(***************************************************************************)
EXTENDS DjangoCursor, TLC

MCUpperTable ==
  ("User" :> "USER") @@ ("id" :> "ID") @@ ("name" :> "NAME")
  @@ ("status" :> "STATUS") @@ ("is" :> "IS") @@ ("active" :> "ACTIVE") @@ ("Alice" :> "ALICE")
  @@ ("None" :> "NONE") @@ ("True" :> "TRUE") @@ ("False" :> "FALSE")
  @@ ("and" :> "AND") @@ ("ten" :> "TEN") @@ ("age" :> "AGE")
  @@ ("flag" :> "FLAG") @@ ("note" :> "NOTE") @@ ("Bob" :> "BOB")

\* keywords are written upper-case in the statements of the model
MCUpper(s) == IF s \in DOMAIN MCUpperTable THEN MCUpperTable[s] ELSE s

\* the 32-bit boundary scaled to a value TLC's integers hold on both sides
MCInt32Bound == 2^8

MCPlaceholder == [k |-> "param", p |-> "%(v)s"]

\* rows of the gateway response: an id and the key order of the row dict
R1 == [id |-> "r1", keys |-> <<"id", "name">>]
R2 == [id |-> "r2", keys |-> <<"id", "name">>]
R3 == [id |-> "r3", keys |-> <<"id", "name">>]
MCRespBlocks == { <<>>, << <<R1, R2>>, <<R3>> >>, << <<>>, <<R2>> >> }

\* mutation responses: one row with two inserted ids, none affected
MCMutResps == { [affected |-> <<1>>, inserted_ids |-> <<"u1", "u2">>],
                [affected |-> <<0>>, inserted_ids |-> <<>>] }

Wheres ==
  { <<>>,
    <<[field |-> "status", lit |-> Quoted("'", Word("active")), op |-> "="]>>,
    <<[field |-> "id", lit |-> IntTok(MCInt32Bound), op |-> ">="]>>,
    <<[field |-> "name", lit |-> MCPlaceholder, op |-> "LIKE"]>>,
    <<[field |-> "status", lit |-> Word("NULL"), op |-> "<>"]>> }

Orders ==
  { <<>>,
    <<[dir |-> "", field |-> "name"]>>,
    <<[dir |-> "DESC", field |-> "name"], [dir |-> "ASC", field |-> "id"]>> }

Select(fields, where, order, limit, offset) ==
  [entity |-> "User", fields |-> fields, kind |-> "select", limit |-> limit,
   offset |-> offset, order |-> order, star |-> fields = <<>>, where |-> where]

\* LIMIT n and LIMIT n OFFSET m
MCPages == { <<<<>>, <<>>>>, <<<<10>>, <<>>>>, <<<<10>>, <<5>>>> }

\* every WHERE form with every page form, every ORDER BY with a field list
SelectOps(pages) ==
  { [spec |-> Select(<<>>, w, <<>>, pg[1], pg[2]),
     text |-> RenderSelect(Select(<<>>, w, <<>>, pg[1], pg[2]))] : w \in Wheres, pg \in pages }
  \cup
  { [spec |-> Select(<<"id", "name">>, <<>>, o, pg[1], pg[2]),
     text |-> RenderSelect(Select(<<"id", "name">>, <<>>, o, pg[1], pg[2]))] : o \in Orders, pg \in pages }

Malformed(text) == [spec |-> [kind |-> "malformed"], text |-> text]

\* statements the code rejects: no FROM, a WHERE clause without an operator, DDL
MCRejected ==
  { Malformed(<<Word("SELECT"), Sym("*"), Word("User")>>),
    Malformed(<<Word("SELECT"), Sym("*"), Word("FROM"), Word("User"),
                Word("WHERE"), Word("status"), Word("is"), Word("active")>>),
    Malformed(<<Word("DROP"), Word("User")>>) }

MCComment == [spec |-> [kind |-> "comment"], text |-> <<Sym("--"), Word("User")>>]

MCOps == SelectOps(MCPages) \cup MCRejected \cup {MCComment}

MCParams == {NoParams, PyStr(<<Word("Alice")>>), PyInt(7)}

\* executemany with two dicts
MCBatches == { <<PyStr(<<Word("Alice")>>), PyInt(7)>> }

\* the caller of most runs never loops; MCCursorLoops enters both loops
MCNoLoops == {}
=============================================================================
