# TLA+ models of the ORMDB Python client

These modules model the Python client of ORMDB (`src/clients/python/ormdb/`) and check it with TLC
against `spec.md`. The client has three layers, and each translates a caller's request into an HTTP
request to the ORMDB gateway and the answer back into Python objects:

* **`OrmdbClient`** (`client.py`, `types.py`) is the native client. It has one method per gateway
  operation: `health`, `query`, `insert`, `update`, `delete`, `upsert`, `get_schema`,
  `get_replication_status`, `stream_changes` and `close`. Its helpers are `_convert_value`, which
  tags a Python value for the wire, and `_hex_to_uuid`, which turns 32 hex digits into 16 bytes.
  The `*.from_response` constructors in `types.py` decode the answers. `AsyncOrmdbClient` has
  `health`, `query` and `close` only, awaited on an `httpx.AsyncClient`.
* **The DBAPI 2.0 module** (`sqlalchemy/dbapi.py`) is a `Connection` plus a `Cursor`.
  `Cursor.execute` parses a small SQL subset with regular expressions:
  * `SELECT` becomes a `/query` payload;
  * `INSERT`, `UPDATE` and `DELETE` become a `/mutate` payload.

  The cursor posts the payload on the connection's shared `httpx.Client`. It then materializes the
  answer into `_rows`, `description`, `rowcount` and `lastrowid`, which `fetchone`, `fetchmany` and
  `fetchall` read through `_row_index`.
* **The SQLAlchemy dialect** (`sqlalchemy/dialect.py`) and **the Django backend** (`django/`) sit
  on top of the DBAPI. Django's `DatabaseOperations` (`operations.py`) supplies the table quoting
  and the LIMIT/OFFSET tail of the SQL that the cursor parses; `create_cursor` (`base.py`) hands
  that SQL to a DBAPI cursor. Both the dialect and Django's `DatabaseIntrospection`
  (`introspection.py`) reflect the schema: each method does its own `GET /schema` and swallows
  any exception into an "absent table" answer.

No code in the repository starts a thread. So the concurrency a model can find has two sources:
* the order of the caller's calls on shared objects: a cursor whose connection is closed under it,
  or fetches interleaved with a failed `execute`;
* the coroutines that share one `AsyncOrmdbClient` and interleave at their awaits, with a close
  between a request and its answer.
 The other
hazards are in the data: regular expressions, numeric boundaries, and error paths that escape the
`except` clauses.

## Modules

| module | models | source |
|---|---|---|
| `SqlValue` | The token abstraction of SQL text. `_parse_sql_value` (a literal becomes a Python value), `_convert_value` (a Python value becomes a wire tag, with the Int32/Int64 split), and parameter formatting (`operation % parameters`) | dbapi.py 190-191, 230-233, 529-603 |
| `SelectStatement` | `_parse_select`, `_parse_where`, `_parse_order_by`, and the query payload of `_execute_query` (pagination defaults `limit or 100`, `offset or 0`) | dbapi.py 214-228, 329-459 |
| `MutationStatement` | `_parse_insert`, `_parse_update`, `_parse_delete`, `_parse_value_list`, `_hex_to_uuid`, and the mutation data lists | dbapi.py 261-268, 461-527, 560-610 |
| `DbapiCursor` | The cursor as a state machine (including `executemany` and iteration), plus `Connection.close` | dbapi.py 113-117, 146-657 |
| `CursorAbstract` | The cursor state machine of spec.md 4.5: execute, fetch one, fetch many, fetch all, close | spec.md 4.5 |
| `DjangoOperations` | `quote_name`, `limit_offset_sql` and `sql_flush`, and the statement Django's compiler writes for `Entity.objects.all()[low:high]` (columns written `*`) | operations.py 21-40, 92-103 |
| `DjangoCursor` | `DbapiCursor` fed with Django's statements (`create_cursor` returns a DBAPI cursor), and the property that a slice reaches the gateway as asked | base.py 117-120 |
| `SchemaReflection` | The dialect's seven reflection methods and `_map_ormdb_type`; the introspection's `get_table_list`, `get_table_description`, `_get_field_size`, `get_relations`, `get_key_columns`, `get_constraints` and `data_types_reverse`; `DatabaseWrapper.data_types` | dialect.py 109-330, introspection.py 17-237, base.py 53-83 |
| `AsyncOrmdbClient` | `AsyncOrmdbClient`'s `health`, `query` and `close` over coroutines that share it, each call split at its await; its payload and answer handling are its own copy of the synchronous code | client.py 337-403 |
| `OrmdbClient` | Every public operation of `OrmdbClient`, with its payload, its response decoding through `types.py`, and its `except` clauses. Also `_convert_value` and `_hex_to_uuid` | client.py 29-328, types.py |

**SQL text** is a sequence of tokens (`Word`, `Sym`, `IntTok`, `DecTok`, `ExpTok`, `Quoted`,
`HexTok`). It is never a string of characters.
* Each regular expression of the parser is modelled by what it matches on such sequences:
  * the greedy `(.+)` of WHERE;
  * the `[^)]+` of INSERT, which stops at a `)` inside a quoted value;
  * the unanchored `re.match` of DELETE;
  * the `split(",")` of UPDATE, which splits inside quotes.
* `.upper()` of a word is a constant `Upper`.

**Python values** are records: `PyNone`, `PyBool`, `PyInt`, `PyFloat`, `PyStr`, and in the client
`PyBytes` and `PyList`.
* An optional argument is `<<>>` (absent) or `<<v>>`.
* `dict.get` is `DictGet`.
* The Python `x or d` is `PyOr` in the client and `OrDefault` in the DBAPI.

**`DbapiCursor`** has these variables:
* the cursor's own fields: `description`, `rowcount`, `arraysize`, `rows` (`_rows`), `rowIndex`
  (`_row_index`), `closed` (`_closed`) and `lastInsertedId`;
* `connClosed`, the connection's `_closed`;
* `last`, the statement, the parameters, the request posted, the answer, and the exception raised
  by the latest `execute`;
* `fetched`, `returned` and `asked`, the history of fetch calls that the refinement and the
  properties read;
* `loop`, the Python loop the caller is inside: none, `for row in cursor`, or `executemany` with
  its operation, the parameter dicts still to run (`todo`) and how many have run (`done`).

Its actions:
* `Execute` is the whole `execute` call: the closed check, the reset, formatting, parsing, the
  POST, and materialization or failure. `ExecuteClosed` is the same call on a closed cursor.
  `Next` states that neither one closes the connection.
  `Plan(op, p)` is the pure part of `execute`, up to the POST: formatting, the
  `startswith` dispatch, parsing, and the request or the `ProgrammingError`.
  `ExecutePlanned` is the dispatch on the plan, and `Execute` binds the plan once as a value.
  `QueryAnswered` and `Mutate` are the POST and what follows it.
* The other actions are `fetchone`, `fetchmany(n)`, `fetchall`, `SetArraysize`, `CloseCursor` and
  `CloseConnection`. `Call` gathers them, and the caller makes one only outside a loop.
* `StartExecuteMany(op, b)` enters `executemany` with a statement that takes parameters.
  `ExecuteManyStep` is one iteration: the whole `execute` with the next dict. The loop ends after the
  last dict or at the first exception, which propagates out of the `for`.
* `StartIter` is `iter(cursor)`. `IterNext` is `__next__`, which is `fetchone` and leaves the loop
  when it returned `None` (`StopIteration`).

The gateway answers nondeterministically:
* success with any response in `RespBlocks` or `MutResps`;
* a non-2xx status;
* a transport error;
* a 2xx answer whose body is not JSON.

If the connection is closed, httpx raises `RuntimeError`.

**`OrmdbClient`** has two variables:
* `closed`, the `httpx.Client` state;
* `last`, the call, the request posted, the answer, the exception with its message and code, and
  the decoded result.

Each operation is one action over small sets of arguments. `Next` adds `UNCHANGED closed` to
every method but `close`, because no other method touches `self._client`. `Call` gives all five
outcomes of one HTTP exchange:
* the client is closed (`RuntimeError`);
* success;
* a 2xx answer that is not JSON;
* an error status, decoded by the `except httpx.HTTPStatusError` clause;
* a transport error (`ConnectionError`).

**`AsyncOrmdbClient`** extends `OrmdbClient`. `closed` is the `AsyncClient` state, and `last` is
the latest call that returned or raised. The variable `task` gives, for each coroutine of `Tasks`,
whether it is idle or suspended on a request, and which one.
* `Send(t, call, req)` runs a method up to its await. On a closed client it raises
  `RuntimeError` at once. Otherwise it suspends the coroutine.
* `Resume(t)` is the answer arriving. `AsyncAnswered` turns it into the result or the exception:
  * the `except` clauses of `health` and `query`;
  * `async_query_payload`, `async_pagination` and `AsyncDecode`, translated from the async
    method's own lines.
* `aclose` closes the client. Coroutines suspended on it still get an answer. What httpx does to
  a request whose client closes under it is outside this code, so the model lets any answer
  arrive, a transport error included.

**`SchemaReflection`** has two variables: `schema`, the document the gateway serves now, and
`last`, the latest reflection call with its table, whether its GET succeeded, and its answer.
* Each reflection method is a pure operator of the document, translated from its loop over
  `entities` (the first entity of the name wins, `.get` defaults are the document's values).
* `Reflect(call, t)` is one method call whose GET succeeds; `ReflectFailed(call, t)` is one whose
  GET raises, and it answers what the method's `except` clause returns, which is what the empty
  document gives.
* `SchemaChange` is another process (a migration) changing the served document between two
  calls.

### Refinement

`DbapiCursor` instantiates `CursorAbstract` with this mapping:
* `result <- rows`;
* `pos <- rowIndex` (0 once the cursor is closed);
* `open <- ~closed`.

The abstract specification is checked as the temporal property `ImplementsCursorAbstract`: every
step of the cursor must be a step of the spec.md 4.5 state machine.

## Runs

Pass runs (all properties hold):

| run | cfg | what it checks |
|---|---|---|
| `cursor_loops` | `MCCursorLoops.cfg` | The mutation statements through one cursor: INSERT, UPDATE and DELETE with quoted, unquoted and hyphenated ids, values at both ends of the Int32 range, a bound parameter, and the rejected shapes (a count mismatch, a short id, UPDATE without WHERE). Also `SELECT * FROM User`, a SELECT with a `LIKE %(v)s` parameter, and DROP. Every gateway outcome, query and mutation responses, every fetch size, and closing the cursor or the connection in any order, by a caller that may enter `for row in cursor` and `executemany` over two dicts (a str and an int). Checked under `FairSpec` |
| `cursor_select` | `MCCursorSelect.cfg` | The SELECT translation through one cursor: WHERE with `=`, `>=`, `LIKE` on a `%(v)s` parameter (unbound, a str or an int) and `<>`, each with no pagination, `LIMIT 10` and `LIMIT 10 OFFSET 5`; three ORDER BY forms (none, a bare field, `DESC` then `ASC`) over a field list with the same three pagination forms; a statement without FROM, a WHERE without an operator, DROP, a comment line, and Django's `sql_flush` statement. Every gateway outcome and fetch, no loops. Checked under `Spec` |
| `http_client` | `MCOrmdbClient.cfg` | Every `OrmdbClient` operation against every answer |
| `async_client` | `MCAsyncOrmdbClient.cfg` | Two coroutines sharing an `AsyncOrmdbClient`, calling `health` and `query` (with no pagination, a limit, or an offset) while either may close it, against every answer. Checked under `AsyncSpec` |
| `reflection` | `MCSchemaReflection.cfg` | Every reflection call of the dialect and of Django, for two tables, over three documents that change between calls, with GETs that fail |

The properties:

* `FetchedIsPrefix`: whatever interleaving of `fetchone`, `fetchmany(n)`, `fetchall` and
  `arraysize` changes, the caller receives the rows of the latest query in order, each at most once.
* `NoStaleResultAfterFailure`: after an `execute` that raised, nothing of an earlier result is
  visible. This is spec.md 7, and it relies on the reset at dbapi.py 182-186 running before
  anything that can fail.
* `PayloadMatchesSpec`: a statement of the grammar of spec.md 4.1 posts exactly the request of
  spec.md 4.2/4.3. In `cursor_select` that covers the operator table, the ORDER BY directions and
  the pagination defaults; in `cursor_loops` the wire tags, the Int32 boundary and the id bytes. In the client, the payload must be the one the spec builds from the method's arguments.
* `ResultMatchesResponse`: the cursor's rows, description, rowcount and lastrowid, and the
  client's `QueryResult`/`MutationResult`, are what spec.md 4.4 derives from the gateway response.
* `MalformedRejected`: a statement outside the grammar raises `ProgrammingError` and posts nothing.
  `cursor_select` gives it the SELECT shapes and Django's `sql_flush`, `cursor_loops` the
  mutation shapes.
* `ImplementsCursorAbstract`: the refinement described above.
* `ErrorsAsSpecified`: the client maps each failure to the exception of spec.md 6/7, with the
  message and code of a structured error body.
* `IdDecodedAsSpecified`: the client never posts an invalid id, never refuses a valid one, and
  sends the 16 bytes that spec.md 4.2 derives from it.
* `ReadersAgree`: the dialect and the Django introspection, reading the same document, give
  every table the same columns (name, nullability, default, in order), the same foreign keys in
  order, the same unique columns, the same non-unique indexed columns, and a primary key exactly
  when the table exists. They are separate code over the same document.
* `RelationsAreKeyColumns`: `get_relations`' 0-based field positions and `get_key_columns` name
  the same foreign-key fields and targets, whatever the order of fields and relations.
* `TypeRoundTrip`: a column of a type Django writes is read back by `data_types_reverse` as a
  field class that Django writes as the same type, and the dialect does not fall back to String.
* `LoopsReturn`: every `for row in cursor` and every `executemany` the caller enters returns,
  under the fairness below. It relies on `fetchone` advancing `_row_index` and on `__next__`
  turning `None` into `StopIteration`.
* `CallsAsSync`: spec.md 5 says the asynchronous form's results are those of the synchronous
  one. So every async call that returns or raises must leave what `OrmdbClient.health` or
  `OrmdbClient.query` leaves for the same arguments and answer. A resumed call is compared with
  the synchronous client open, as it was when the request was sent, even if another coroutine
  closed it since. A call made on a closed client is compared with the synchronous client closed.
  The two classes are separate copies of the same code, and this property compares them.
* `TypeOK` (`AsyncTypeOK` for the async client): each module's type invariant.

Each property has a mutant in `PROJECT.json`. A mutant is a plausible bug in the mapped definition,
and TLC finds the property violated under the run's configuration. Examples:
* the reset that forgets `_rows`;
* `fetchone` without the index increment;
* a WHERE operator table that is missing `<>`;
* an inclusive Int32 upper bound;
* a `_hex_to_uuid` that swaps the nibbles;
* a `_mutate` that raises `QueryError`;
* `get_relations` counting positions from 1;
* Django's `_idx` constraints without `and not unique`;
* a `__next__` that returns `None` instead of raising `StopIteration`;
* an async `query` that sends pagination only when a limit is given;
* any word accepted as a WHERE operator.

Violation runs. Each checks one property, and TLC finds it violated by what the code does:

| run | cfg | disagreement |
|---|---|---|
| `limit_zero` | `V_limit_zero.cfg` | `LIMIT 0` is sent as limit 100 (`limit or 100`). `OrmdbClient.query` has the same expression |
| `param_none` | `V_param_none.cfg` | A `None` parameter is formatted as the word `None` and sent as the String "None", not Null |
| `trailing_conjunction` | `V_trailing_conjunction.cfg` | A trailing AND is never rejected: `WHERE a = 'x' AND b = 1` is one condition whose value is `'x' AND b = 1`, and `DELETE ... WHERE id = '...' AND name = 'Bob'` deletes by id alone |
| `conn_closed` | `V_conn_closed.cfg` | `execute` after `Connection.close` raises httpx's `RuntimeError`, which is not a DBAPI error |
| `client_text_error_body` | `V_client_text_error_body.cfg` | A non-JSON error body makes the `except` clause raise `JSONDecodeError` |
| `client_id_hyphenated` | `V_client_id_hyphenated.cfg` | `OrmdbClient` rejects a hyphenated UUID, which the DBAPI and spec.md 4.2 accept |
| `django_offset_slice` | `V_django_offset_slice.cfg` | `User.objects.all()[5:]` is sent with `root_entity` `"User"`, quotes included (`quote_name`), and pagination limit -1 (`limit_offset_sql`) |

The input sets of the pass runs leave out the inputs of these violation runs. For example, the
client's `query` arguments have no `limit=0`, its error bodies are never text, its lists never
mix element types, the
DBAPI parameters are never `None`, and the quoted comma is left out of UPDATE. Without that,
each pass run would stop at one of the known disagreements instead of checking everything else.
Most left-out inputs are the subject of a violation run above, which PROJECT.json lists as a
finding; the others are in the list below.

While modelling, several more disagreements were met that have no run of their own:
* a standalone `OFFSET` is left in the entity name;
* `1e5` is sent as a String;
* a non-integer `LIMIT` raises `ValueError`;
* a repeated INSERT column keeps only the last value;
* a quoted comma in UPDATE raises `ValueError`;
* `+`/`-` signs and non-hex digits reach `int(pair, 16)`;
* a 2xx non-JSON body raises `JSONDecodeError`;
* an empty error body raises `QueryError` instead of `ConnectionError`;
* `[7, True]` is tagged `Int64Array` and `[True, 7]` `BoolArray`, each holding a value of the
  other type, against the typed arrays of spec.md 3;
* `VALUES (')')` sends the String `""`: `[^)]+` captures only the opening quote, and
  `_parse_sql_value` strips it to `"'"[1:-1]`, the empty string;
* `fetchmany(-1)` at index 0 returns every row but the last and moves the index, which the
  abstract cursor does not allow. PEP 249 leaves a negative size undefined, so this is caller
  misuse, and the pass runs use sizes 0 to 2.

The hazards in PROJECT.json name them.

## Bounds

* **`Int32Bound`** is `2^8` in the MC modules, because TLC's integers are 32-bit. Only the split
  at the bound matters, and the values `-Int32Bound-1`, `-Int32Bound`, `Int32Bound-1` and
  `Int32Bound` cover both sides of both ends.
* **Responses:**
  * query responses with no blocks, with two blocks of two rows and one row, and with an empty
    block followed by a one-row block (row order across blocks);
  * mutation responses with two inserted ids and with none.
* **Fetch sizes** are `{0, 2}` plus the default `arraysize` of 1. Size 2 against three rows
  reaches a short last batch, and 0 reaches the empty batch.
* **Statements:**
  * in `cursor_select`, each of five WHERE forms and each of three ORDER BY forms, paired with
    each of three pagination forms;
  * one statement of each rejected shape;
  * in `cursor_loops`, five assignment lists: the Int32 ends, a bool, NULL, a quoted string, a decimal and a
    parameter;
  * three ids: bare, quoted, and hyphenated. The client's arguments are all 64 combinations of present and
  absent optional query arguments.
* **Schema documents** (`MCSchemaReflection`), three of them: a User whose foreign-key field is
  not its last field, with a field both unique and indexed and a one-to-many relation, plus a
  Team; the User after a migration, with a one-to-one relation whose `_id` field is missing,
  capitalized types and a default, behind an entity with no name; and a document listing User
  twice. Two tables, User and Team, are asked about. These reach every branch of the readers:
  first-match lookup, skipped nameless entities, relations that are not keys, fields a relation
  names but the entity lacks, and constraint names that collide.
* **Loops** (`MCCursorLoops`): one `executemany` batch of two dicts, `PyStr("Alice")` and
  `PyInt(7)`. Over three parameterised statements this reaches a batch that fails at its first
  dict, one that fails at its second, and one that completes. Iteration runs over results of
  zero to three rows. The violation runs and `cursor_select` set `Loops` to `{}`. The loops multiply the
  state space by three: the SELECT forms and the loops together reach 656,475 states and take
  nine minutes, so the SELECT forms have a run of their own.
* **Coroutines** (`MCAsyncOrmdbClient`): two of them. That is enough for one to close the client
  while the other is suspended, and for both to be suspended at once. The query arguments
  differ only in pagination, the one part of the payload that has a default.
* **No counters:** every action replaces `last`, so the state space is finite. No counter grows,
  and no bound hides a longer history.

## Fairness and liveness

The caller is not fair: it may stop calling at any time, so `Spec` has no fairness, and the runs
that use it check deadlock. Every state has an enabled action, because a closed cursor or client
still accepts calls and raises.

A loop the caller has entered is different. `executemany` (dbapi.py 616-617) and
`for row in cursor` (650-657) are Python loops that keep calling until they end. Each call returns,
because the POST is bounded by the httpx timeout (`Connection.timeout`, dbapi.py 106-110) and
every other step is local computation. So `FairSpec` adds weak fairness on `ExecuteManyStep` and
`IterNext`, and on nothing else. `LoopsReturn` is checked under it.

`async_client` states no liveness property. In the model a suspended coroutine's `Resume` is
enabled in every state, whatever the code does, so "every await returns" would follow from the
fairness assumption alone and say nothing about `client.py`.

Nothing else in the code waits. The client starts no thread and retries nothing. `next_lsn`
(types.py) is decoded from `stream_changes`, but no code in the repository resumes from it, so no
liveness property is stated about it.

## Not modelled

* **`setinputsizes`/`setoutputsize`, `commit`/`rollback`, `Connection.cursor`, `connect`:**
  no-ops, a write of `_in_transaction` that nothing reads, or object construction. Each run's
  cursor is built on an open connection (`Init`).
* **A consumer of `next_lsn`:** the repository has none.
* **`do_ping` and `is_usable`:** each runs `SELECT 1 FROM _health` on a fresh cursor and turns
  any exception into False. No state of the modelled cursor changes. The answer depends on how
  the gateway treats the entity `_health`, which neither the repository nor spec.md defines. The
  hazard is listed in PROJECT.json.
* **The rest of `AsyncOrmdbClient`'s promised interface:** the class comment promises the
  methods of `OrmdbClient`, but only `health`, `query` and `close` exist (client.py 405-406).
* **One refinement of `OrmdbClient` by `AsyncOrmdbClient`:** a close between a request and its
  answer gives an order that no behaviour of the synchronous client has. So the comparison is made
  per call (`CallsAsSync`), not as one refinement of the whole behaviour.
* **`exceptions.py`:** class declarations.
* **The dialect's constant methods** (`get_schema_names`, `get_view_names`, `has_sequence`,
  isolation level) and `create_connect_args`: constants or argument building.
* **Django's `schema.py`, `features.py`, `creation.py` and `client.py`:** the schema editor's
  statements are no-ops, the features are constant flags, and the rest sets up the test database
  and the shell. `sql_flush`'s statement is in the `cursor_select` run, where it is rejected.
* **Django's compiler:** only the statement shape it gives a sliced queryset is modelled; its
  column lists and lookups are Django code.
* **Callers that combine reflection answers** (inspectdb, SQLAlchemy's `Inspector`): the
  properties hold per document, and a mix of answers from two documents is not checked.

## Plan

1. A gateway store behind `executemany`, to relate the rows it applied before a failure to what the
   caller can observe.
2. Several cursors on one connection, to place `do_ping`/`is_usable` beside a cursor in use.
