------------------------- MODULE MCAsyncOrmdbClient -------------------------
(***************************************************************************)
(* Model of AsyncOrmdbClient: two coroutines sharing the client, query     *)
(* arguments with neither, one or both of limit and offset, and the       *)
(* gateway bodies of MCOrmdbClient.                                        *)
(***************************************************************************)
EXTENDS AsyncOrmdbClient, MCOrmdbClient

MCTasks == {"t1", "t2"}

MCAsyncQueryArgs ==
  { [entity |-> "User", fields |-> <<>>, filter |-> <<>>, includes |-> <<>>,
     limit |-> l, offset |-> n, order_by |-> <<>>] :
      <<l, n>> \in {<<<<>>, <<>>>>, <<<<10>>, <<>>>>, <<<<>>, <<5>>>>} }
====
