---------------------------- MODULE MCCursorLoops ----------------------------
(***************************************************************************)
(* Model of DbapiCursor whose caller also enters the two loops of the      *)
(* cursor: executemany over two parameter dicts, and a for loop over the  *)
(* cursor.  The statements are the mutations of MCMutation, a query with  *)
(* a parameter (rows to iterate over), and DROP, which the parser         *)
(* rejects, so that executemany meets every outcome of execute.           *)
(***************************************************************************)
EXTENDS MCMutation

\* SELECT * FROM User WHERE name LIKE %(v)s
LikeSelect == Select(<<>>, <<[field |-> "name", lit |-> MCPlaceholder, op |-> "LIKE"]>>,
                     <<>>, <<>>, <<>>)

\* INSERT INTO User (name, age) VALUES (%(v)s, 255)
ParamInsert == [assigns |-> <<[field |-> "name", lit |-> MCPlaceholder],
                              [field |-> "age", lit |-> IntTok(MCInt32Bound - 1)]>>,
                entity |-> "User", kind |-> "insert"]

MCLoopOps ==
  { [spec |-> LikeSelect, text |-> RenderSelect(LikeSelect)],
    Op(RenderInsert(ParamInsert), ParamInsert),
    Malformed(<<Word("DROP"), Word("User")>>) }

MCLoops == {"iter", "many"}

\* the loop statements and every mutation statement of MCMutation
MCLoopAllOps == MCLoopOps \cup MCMutOps
=============================================================================
