----------------------------- MODULE DbapiCursor -----------------------------
(***************************************************************************)
(* The DBAPI Connection and Cursor (sqlalchemy/dbapi.py 96-663).          *)
(*                                                                         *)
(* execute() runs as one step: reset, parameter formatting, dispatch on    *)
(* the leading keyword, parse, one POST to the gateway, and the handling  *)
(* of its response.  The gateway is the environment: for every POST it may *)
(* answer with any response of the model's sets, fail with an HTTP status *)
(* or a transport error, or send a body that is not JSON.  The caller may *)
(* interleave execute, fetchone, fetchmany, fetchall, setting arraysize,  *)
(* closing the cursor and closing the connection in any order.  Two calls *)
(* are loops the caller stays in until they return: executemany, which    *)
(* calls execute once per parameter dict, and iteration over the cursor   *)
(* (for row in cursor), which calls fetchone until it returns None.       *)
(***************************************************************************)
EXTENDS MutationStatement

CONSTANTS
  Ops,          \* operations the caller executes: [text, spec]
  Params,       \* parameter dicts the caller passes, NoParams for None
  NoParams,
  Placeholder,  \* the %(v)s token of an operation
  RespBlocks,   \* data.entities of a query response: Seq(Seq(row))
  MutResps,     \* mutation responses [affected: <<>> or <<n>>, inserted_ids]
  Sizes,        \* sizes passed to fetchmany and assigned to arraysize
  Loops,        \* the loops the caller enters: a subset of {"iter", "many"}
  Batches,      \* the seq_of_parameters passed to executemany (non-empty)
  HttpFailures, \* how a POST may fail: "status" a non-2xx answer
                \* (raise_for_status), "neterr" an httpx transport error or
                \* timeout, "badjson" a 2xx body response.json() cannot decode
  None

VARIABLES
  connClosed,     \* Connection._closed
  closed,         \* Cursor._closed
  description,    \* Cursor.description: None or the column names
  rowcount,       \* Cursor.rowcount
  arraysize,      \* Cursor.arraysize
  rows,           \* Cursor._rows
  rowIndex,       \* Cursor._row_index
  lastInsertedId, \* Cursor._last_inserted_id
  loop,           \* the loop the caller is in: none, iter, or many with the
                  \* operation and the parameter dicts still to execute
  \* history, not program state:
  last,           \* the latest execute: op, params, what it posted, what it
                  \* raised, the query (resp) or mutation (outcome) response
  fetched,        \* rows fetch* returned since the latest execute
  returned,       \* rows returned by the latest fetch call
  asked           \* that call: [call |-> "one" | "many" | "all" | "none", n]

cursorVars == <<connClosed, closed, description, rowcount, arraysize, rows,
                rowIndex, lastInsertedId>>
vars == <<cursorVars, loop, last, fetched, returned, asked>>

Idle == [kind |-> "none"]

NoCall == [call |-> "none", n |-> 0]

\* exceptions execute() lets escape; "none" when it returns
DbapiErrors == {"InterfaceError", "ProgrammingError", "OperationalError"}
Raised == DbapiErrors \cup {"none", "ValueError", "RuntimeError"}

Request(path, body) == [body |-> body, path |-> path]

(***************************************************************************)
(* operation % parameters (dbapi.py 190-191): each placeholder becomes    *)
(* str() of the value.                                                     *)
(***************************************************************************)
Format(text, p) ==
  IF p = NoParams THEN text
  ELSE FlattenSeq([i \in DOMAIN text |->
                     IF text[i] = Placeholder THEN PyText(p) ELSE <<text[i]>>])

Init ==
  /\ connClosed = FALSE
  /\ closed = FALSE
  /\ description = None
  /\ rowcount = -1
  /\ arraysize = 1
  /\ rows = <<>>
  /\ rowIndex = 0
  /\ lastInsertedId = None
  /\ loop = Idle
  /\ last = [op |-> None, outcome |-> <<>>, params |-> NoParams, posted |-> <<>>,
             raised |-> "none", resp |-> <<>>]
  /\ fetched = <<>>
  /\ returned = <<>>
  /\ asked = NoCall

(***************************************************************************)
(* execute (dbapi.py 171-208).  The reset of lines 182-186 comes first;   *)
(* a handler that succeeds then assigns the result state.  Finish sets    *)
(* the cursor to st and records the call; Reset leaves the reset state.   *)
(***************************************************************************)
ResetState == [description |-> None, lastid |-> None, rowcount |-> -1, rows |-> <<>>]

Finish(op, p, posted, raised, resp, outcome, st) ==
  /\ description' = st.description
  /\ rowcount' = st.rowcount
  /\ rows' = st.rows
  /\ rowIndex' = 0
  /\ lastInsertedId' = st.lastid
  /\ last' = [op |-> op, outcome |-> outcome, params |-> p, posted |-> posted,
              raised |-> raised, resp |-> resp]
  /\ fetched' = <<>>
  /\ returned' = <<>>
  /\ asked' = NoCall
  /\ UNCHANGED <<connClosed, closed, arraysize>>

\* Mutant: the reset forgets _rows.
Reset_keeps_rows(op, p, posted, raised) ==
  Finish(op, p, posted, raised, <<>>, <<>>, [ResetState EXCEPT !.rows = rows])

Reset(op, p, posted, raised) == Finish(op, p, posted, raised, <<>>, <<>>, ResetState)

\* A POST of body to path: the closed httpx client raises RuntimeError
\* before sending; an HTTP failure becomes OperationalError (line 207-208);
\* a body that is not JSON raises ValueError from response.json().
PostFails(op, p, req) ==
  IF connClosed THEN Reset(op, p, <<>>, "RuntimeError")
  ELSE \E t \in HttpFailures :
         Reset(op, p, <<req>>, IF t = "badjson" THEN "ValueError" ELSE "OperationalError")

(***************************************************************************)
(* _execute_query (dbapi.py 210-254): the rows of all entity blocks in    *)
(* block order, the description from the keys of the first row.           *)
(***************************************************************************)
\* Mutant: only the first entity block is read.
Materialize_first_block(blocks) == IF blocks = <<>> THEN <<>> ELSE blocks[1]

\* entities.extend(block["rows"]) for every block, in order
Materialize(blocks) == FlattenSeq(blocks)

\* the column names of the first row, None without rows
Describe(entities) == IF entities = <<>> THEN None ELSE entities[1].keys

\* The POST of _execute_query and the result state it leaves.
QueryAnswered(op, p, req) ==
  \/ PostFails(op, p, req)
  \/ /\ ~connClosed
     /\ \E blocks \in RespBlocks :
          LET entities == Materialize(blocks) IN
          Finish(op, p, <<req>>, "none", blocks, <<>>,
                 [ResetState EXCEPT !.description = Describe(entities),
                                    !.rows = entities, !.rowcount = Len(entities)])

(***************************************************************************)
(* The POST of _execute_insert/_update/_delete (dbapi.py 256-327): the    *)
(* rowcount is result.get("affected", 0); an INSERT also keeps the first  *)
(* of the inserted ids.                                                    *)
(***************************************************************************)
\* Mutant: the count is read from a key the gateway does not send.
Affected_wrong_key(r) == 0

Affected(r) == IF r.affected = <<>> THEN 0 ELSE r.affected[1]

FirstInserted(r) == IF r.inserted_ids # <<>> THEN r.inserted_ids[1] ELSE None

Mutate(op, p, req, isInsert) ==
  \/ PostFails(op, p, req)
  \/ /\ ~connClosed
     /\ \E r \in MutResps :
          Finish(op, p, <<req>>, "none", <<>>, <<r>>,
                 [ResetState EXCEPT
                    !.rowcount = Affected(r),
                    !.lastid = IF isInsert THEN FirstInserted(r) ELSE None])

(***************************************************************************)
(* What execute does before its POST is a pure function of the operation  *)
(* and the parameters: format, dispatch on the upper-cased leading        *)
(* keyword ("--" is a comment), parse, and build the request.  A Plan is  *)
(* the exception raised before the POST, or the kind of call and the      *)
(* request it posts.                                                       *)
(***************************************************************************)
Rejected(err) == [err |-> err, kind |-> "none", req |-> None]
Planned(kind, req) == [err |-> "none", kind |-> kind, req |-> req]

\* _execute_query up to its POST (dbapi.py 214-228)
execute_query(text) ==
  LET q == parse_select(text) IN
  IF q.err # "none" THEN Rejected(q.err)
  ELSE Planned("query", Request("/query", query_payload(q)))

\* _execute_insert up to its POST (dbapi.py 256-270)
execute_insert(text) ==
  LET m == parse_insert(text) IN
  IF m.err # "none" THEN Rejected(m.err)
  ELSE Planned("insert", Request("/mutate", [Insert |-> [data |-> WireData(m.data),
                                                         entity |-> m.entity]]))

\* UPDATE and DELETE decode the id while building the payload, before the POST.
execute_update(text) ==
  LET m == parse_update(text)
      u == hex_to_uuid(m.id)
  IN CASE m.err # "none" -> Rejected(m.err)
       [] u.err # "none" -> Rejected(u.err)
       [] OTHER -> Planned("mutate", Request("/mutate",
                     [Update |-> [data |-> WireData(m.data), entity |-> m.entity,
                                  id |-> u.bytes]]))

execute_delete(text) ==
  LET m == parse_delete(text)
      u == hex_to_uuid(m.id)
  IN CASE m.err # "none" -> Rejected(m.err)
       [] u.err # "none" -> Rejected(u.err)
       [] OTHER -> Planned("mutate", Request("/mutate",
                     [Delete |-> [entity |-> m.entity, id |-> u.bytes]]))

Plan(op, p) ==
  LET text == Format(op.text, p) IN
  CASE IsWord(text[1], "SELECT") -> execute_query(text)
    [] IsWord(text[1], "INSERT") -> execute_insert(text)
    [] IsWord(text[1], "UPDATE") -> execute_update(text)
    [] IsWord(text[1], "DELETE") -> execute_delete(text)
    [] text[1] = Sym("--")       -> Planned("comment", None)
    [] OTHER                     -> Rejected("ProgrammingError")

\* Parameters change nothing in a text without a placeholder: such an
\* operation is executed with None only.
ParamsOf(op) == IF \E i \in DOMAIN op.text : op.text[i] = Placeholder THEN Params
                ELSE {NoParams}

(***************************************************************************)
(* execute (dbapi.py 171-208) after the reset: a rejected statement       *)
(* raises; a comment returns; otherwise the one POST, whose answer the    *)
(* query or mutation handler turns into the result state.                 *)
(***************************************************************************)
ExecutePlanned(op, p, pl) ==
  /\ ~closed
  /\ CASE pl.err # "none"      -> Reset(op, p, <<>>, pl.err)
       [] pl.kind = "comment"  -> Reset(op, p, <<>>, "none")
       [] pl.kind = "query"    -> QueryAnswered(op, p, pl.req)
       [] pl.kind = "insert"   -> Mutate(op, p, pl.req, TRUE)
       [] pl.kind = "mutate"   -> Mutate(op, p, pl.req, FALSE)

\* The plan is bound once as a value, so that TLC does not parse the
\* statement again for every use of it.
Execute(op, p) == \E pl \in {Plan(op, p)} : ExecutePlanned(op, p, pl)

\* execute on a closed cursor raises InterfaceError before the reset
ExecuteClosed(op, p) ==
  /\ closed
  /\ last' = [last EXCEPT !.op = op, !.params = p, !.posted = <<>>,
                          !.raised = "InterfaceError"]
  /\ UNCHANGED <<cursorVars, fetched, returned, asked>>

(***************************************************************************)
(* fetchone, fetchmany, fetchall (dbapi.py 619-640).  fetchmany slices    *)
(* _rows[i : i + size] with Python semantics: a negative end counts from   *)
(* the end of the list.                                                    *)
(***************************************************************************)
\* Python lst[i:j] for 0 <= i
PySlice(lst, i, j) ==
  LET e == IF j < 0 THEN Len(lst) + j ELSE j
  IN SubSeq(lst, i + 1, IF e > Len(lst) THEN Len(lst) ELSE e)

Fetch(call, got, index) ==
  /\ asked' = call
  /\ returned' = got
  /\ fetched' = fetched \o got
  /\ rowIndex' = index
  /\ UNCHANGED <<connClosed, closed, description, rowcount, arraysize, rows,
                 lastInsertedId, last>>

\* Mutant: fetchone returns the row without advancing _row_index.
fetchone_no_advance ==
  LET call == [call |-> "one", n |-> 1] IN
  IF rowIndex < Len(rows) THEN Fetch(call, <<rows[rowIndex + 1]>>, rowIndex)
  ELSE Fetch(call, <<>>, rowIndex)

fetchone ==
  LET call == [call |-> "one", n |-> 1] IN
  IF rowIndex < Len(rows) THEN Fetch(call, <<rows[rowIndex + 1]>>, rowIndex + 1)
  ELSE Fetch(call, <<>>, rowIndex)

fetchmany(size) ==
  LET got == PySlice(rows, rowIndex, rowIndex + size)
  IN Fetch([call |-> "many", n |-> size], got, rowIndex + Len(got))

\* Mutant: fetchall leaves _row_index where it was.
fetchall_keeps_index == Fetch([call |-> "all", n |-> 0], PySlice(rows, rowIndex, Len(rows)), rowIndex)

fetchall == Fetch([call |-> "all", n |-> 0], PySlice(rows, rowIndex, Len(rows)), Len(rows))

SetArraysize(n) ==
  /\ arraysize' = n
  /\ UNCHANGED <<connClosed, closed, description, rowcount, rows, rowIndex,
                 lastInsertedId, last, fetched, returned, asked>>

\* Cursor.close (dbapi.py 166-169): _row_index and description stay.
CloseCursor ==
  /\ closed' = TRUE
  /\ rows' = <<>>
  /\ UNCHANGED <<connClosed, description, rowcount, arraysize, rowIndex,
                 lastInsertedId, last, fetched, returned, asked>>

\* Connection.close (dbapi.py 113-117) closes the shared httpx client.
CloseConnection ==
  /\ ~connClosed
  /\ connClosed' = TRUE
  /\ UNCHANGED <<closed, description, rowcount, arraysize, rows, rowIndex,
                 lastInsertedId, last, fetched, returned, asked>>

(***************************************************************************)
(* The loops.  executemany (dbapi.py 612-617) runs execute for each dict   *)
(* in turn; an exception leaves the loop at once, and the dicts after it  *)
(* are never executed.  iter(cursor) is the cursor itself (650-651), and  *)
(* __next__ (653-657) is fetchone, with None turned into StopIteration.   *)
(***************************************************************************)
\* Plan is a function of the operation and the dict alone, so each dict's
\* plan is computed when the loop starts and read by the step that runs it.
StartExecuteMany(op, b) ==
  /\ "many" \in Loops
  /\ loop.kind = "none"
  /\ loop' = [done |-> 0, kind |-> "many", op |-> op,
               todo |-> [i \in DOMAIN b |-> [p |-> b[i], plan |-> Plan(op, b[i])]]]
  /\ UNCHANGED <<cursorVars, last, fetched, returned, asked>>

ExecuteManyStep ==
  /\ loop.kind = "many"
  /\ UNCHANGED connClosed
  /\ \/ ExecutePlanned(loop.op, Head(loop.todo).p, Head(loop.todo).plan)
     \/ ExecuteClosed(loop.op, Head(loop.todo).p)
  /\ loop' = IF last'.raised # "none" \/ Len(loop.todo) = 1 THEN Idle
             ELSE [loop EXCEPT !.todo = Tail(loop.todo), !.done = @ + 1]

StartIter ==
  /\ "iter" \in Loops
  /\ loop.kind = "none"
  /\ loop' = [kind |-> "iter"]
  /\ UNCHANGED <<cursorVars, last, fetched, returned, asked>>

\* Mutant: __next__ returns None instead of raising StopIteration.
IterNext_no_stop ==
  /\ loop.kind = "iter"
  /\ fetchone
  /\ UNCHANGED loop

IterNext ==
  /\ loop.kind = "iter"
  /\ fetchone
  /\ loop' = IF rowIndex < Len(rows) THEN loop ELSE Idle

\* A call the caller makes outside any loop.
Call ==
  \* executing never closes the connection
  \/ UNCHANGED connClosed /\ \E op \in Ops : \E p \in ParamsOf(op) : Execute(op, p)
  \/ UNCHANGED connClosed /\ \E op \in Ops : \E p \in ParamsOf(op) : ExecuteClosed(op, p)
  \/ fetchone
  \/ \E n \in Sizes : fetchmany(n) \/ SetArraysize(n)
  \* fetchmany() with size None uses arraysize
  \/ fetchmany(arraysize)
  \/ fetchall
  \/ CloseCursor
  \/ CloseConnection

\* executemany is called with a statement that takes parameters
Next ==
  \/ loop.kind = "none" /\ UNCHANGED loop /\ Call
  \/ UNCHANGED connClosed /\ \E op \in Ops : \E b \in Batches :
        ParamsOf(op) = Params /\ StartExecuteMany(op, b)
  \/ ExecuteManyStep
  \/ StartIter
  \/ IterNext

Spec == Init /\ [][Next]_vars

(***************************************************************************)
(* The caller is not fair: it may stop calling at any time.  A loop the   *)
(* caller has entered is: Python runs the loop's next step, and the one   *)
(* blocking call in it, the POST of execute, returns or raises within the *)
(* httpx client's timeout (Connection.timeout, dbapi.py 106-110).         *)
(***************************************************************************)
FairSpec == Spec /\ WF_vars(ExecuteManyStep) /\ WF_vars(IterNext)

-----------------------------------------------------------------------------
RespRows == Range(FlattenSeq(last.resp))

TypeOK ==
  /\ connClosed \in BOOLEAN /\ closed \in BOOLEAN
  /\ description = None \/ description \in Seq(STRING)
  /\ rowcount \in Int /\ arraysize \in Sizes \cup {1}
  /\ rows \in Seq(RespRows) /\ rowIndex \in Nat
  /\ lastInsertedId = None \/ \E r \in MutResps : lastInsertedId \in Range(r.inserted_ids)
  /\ last.op \in Ops \cup {None} /\ last.params \in Params
  /\ last.raised \in Raised /\ last.outcome \in Seq(MutResps)
  /\ fetched \in Seq(RespRows) /\ IsSuffix(returned, fetched)
  /\ asked.call \in {"one", "many", "all", "none"}
  /\ loop.kind \in {"none", "iter", "many"}
  /\ loop.kind = "many" => /\ loop.todo # <<>>
                           /\ \A i \in DOMAIN loop.todo : loop.todo[i].p \in Params

(***************************************************************************)
(* The rows a caller receives across any interleaving of fetchone,        *)
(* fetchmany (any size, arraysize changes included) and fetchall are the  *)
(* rows the latest query materialized, in order, each at most once.       *)
(***************************************************************************)
FetchedIsPrefix ==
  IsPrefix(fetched, FlattenSeq(last.resp))

(***************************************************************************)
(* After an execute that raised, the cursor exposes nothing of an earlier *)
(* result: spec.md 7 "a cursor's result state is never left partially     *)
(* populated after a failed execute" (the reset at dbapi.py 182-186).     *)
(***************************************************************************)
NoStaleResultAfterFailure ==
  last.raised \notin {"none", "InterfaceError"} =>
    /\ rows = <<>> /\ description = None /\ rowcount = -1
    /\ lastInsertedId = None /\ fetched = <<>>

(***************************************************************************)
(* What spec.md 4.2 and 4.3 say a statement of the grammar posts.  A      *)
(* bound parameter in a literal position stands for its Python value.     *)
(***************************************************************************)
SpecValue(lit, p) == IF lit = Placeholder /\ p # NoParams THEN p ELSE SpecLiteral(lit)

SpecData(s, p) ==
  [i \in DOMAIN s.assigns |-> [field |-> <<Word(s.assigns[i].field)>>,
                               value |-> SpecWire(SpecValue(s.assigns[i].lit, p))]]

SpecRequest(s, p) ==
  CASE s.kind = "select" ->
         Request("/query", SpecQueryPayload(s, IF s.where = <<>> THEN None
                                 ELSE ToJson(SpecValue(s.where[1].lit, p))))
    [] s.kind = "insert" ->
         Request("/mutate", [Insert |-> [data |-> SpecData(s, p), entity |-> <<Word(s.entity)>>]])
    [] s.kind = "update" ->
         Request("/mutate", [Update |-> [data |-> SpecData(s, p),
                                         entity |-> <<Word(s.entity)>>, id |-> SpecId(s.id)]])
    [] s.kind = "delete" ->
         Request("/mutate", [Delete |-> [entity |-> <<Word(s.entity)>>, id |-> SpecId(s.id)]])

(***************************************************************************)
(* A statement of the grammar of spec.md 4.1 posts exactly the request    *)
(* spec.md 4.2/4.3 describe (the query payload with its pagination        *)
(* defaults, the mutation payload with its wire tags and identifier       *)
(* bytes), unless the connection is closed and httpx refuses to send.     *)
(***************************************************************************)
PayloadMatchesSpec ==
  (last.op # None /\ last.op.spec.kind \in {"select", "insert", "update", "delete"}
     /\ last.raised # "InterfaceError")
    => \/ last.raised = "RuntimeError"
       \/ last.posted = <<SpecRequest(last.op.spec, last.params)>>

(***************************************************************************)
(* spec.md 4.4: after a query the cursor holds the rows of all entity     *)
(* blocks in block-then-row order, described by the key order of the     *)
(* first row (None without rows); after a mutation it holds no rows, the  *)
(* affected count and, for an INSERT, the first inserted id.               *)
(***************************************************************************)
ResultMatchesResponse ==
  (last.raised = "none" /\ last.posted # <<>> /\ ~closed) =>
    IF last.posted[1].path = "/query"
    THEN LET entities == FlattenSeq(last.resp) IN
         /\ rows = entities /\ rowcount = Len(entities) /\ lastInsertedId = None
         /\ description = IF entities = <<>> THEN None ELSE entities[1].keys
    ELSE LET r == last.outcome[1] IN
         /\ rows = <<>> /\ description = None /\ rowcount = r.affected[1]
         /\ lastInsertedId = IF "Insert" \in DOMAIN last.posted[1].body
                                /\ r.inserted_ids # <<>>
                             THEN r.inserted_ids[1] ELSE None

(***************************************************************************)
(* Every exception execute() raises is one of the DBAPI classes the       *)
(* module defines (PEP 249, which the module claims to implement).        *)
(***************************************************************************)
ExecuteRaisesDbapiError ==
  last.raised \in DbapiErrors \cup {"none"}

(***************************************************************************)
(* A statement outside the grammar of spec.md 4.1 fails with a            *)
(* SyntaxError (ProgrammingError) before any request is made.             *)
(***************************************************************************)
MalformedRejected ==
  (last.op # None /\ last.op.spec.kind = "malformed") =>
    /\ last.raised \in {"ProgrammingError", "InterfaceError"}
    /\ last.posted = <<>>

(***************************************************************************)
(* The cursor implements the state machine of spec.md 4.5: the result is  *)
(* _rows, the position _row_index, and a closed cursor is a destroyed     *)
(* session with nothing to read.                                           *)
(***************************************************************************)
Abstract == INSTANCE CursorAbstract
              WITH result <- rows, pos <- IF closed THEN 0 ELSE rowIndex,
                   out <- returned, call <- asked, open <- ~closed,
                   RowValues <- UNION {Range(FlattenSeq(b)) : b \in RespBlocks},
                   FetchSizes <- Sizes \cup {1}

(***************************************************************************)
(* Every loop the caller enters returns: executemany after its last dict  *)
(* or its first exception, and a for loop over the cursor when fetchone   *)
(* has returned every row and then None.                                  *)
(***************************************************************************)
LoopsReturn == loop.kind # "none" ~> loop.kind = "none"

\* Every step of the cursor is a step of the spec.md 4.5 state machine.
ImplementsCursorAbstract == Abstract!Spec
=============================================================================
