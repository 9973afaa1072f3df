----------------------------- MODULE OrmdbClient -----------------------------
(***************************************************************************)
(* The HTTP client OrmdbClient (src/clients/python/ormdb/client.py) and    *)
(* the result types it builds (types.py).  Each public method is one       *)
(* action: it builds a payload, makes one call to the gateway and turns    *)
(* the answer into a result or an exception.  The gateway's answer is a   *)
(* nondeterministic choice: a JSON body, a body that is not JSON, a        *)
(* non-success status with a JSON, empty or non-JSON body, or a transport *)
(* failure (connect error, timeout).  The client keeps no state between    *)
(* calls but whether its httpx.Client is closed; `last` records the latest *)
(* call, what it sent, what came back and what the caller got.             *)
(***************************************************************************)
EXTENDS MutationStatement

CONSTANTS
  QueryArgs,    \* the keyword arguments of query() the model passes
  Datas,        \* the data dicts of insert, update and upsert
  Ids,          \* the id strings of update and delete, as characters
  UpsertIds,    \* upsert's id: <<>> for None, <<chars>> otherwise
  StreamArgs,   \* [from_lsn, limit, entities] of stream_changes
  QueryBodies,  \* JSON bodies of a successful /query
  MutBodies,    \* JSON bodies of a successful /mutate
  ReplBodies,   \* JSON bodies of /replication/status
  ChangeBodies, \* JSON bodies of /replication/changes
  JsonBodies,   \* JSON bodies of /health and /schema
  ErrorBodies,  \* bodies of a non-success status
  Transports,   \* httpx transport failures (ConnectError, TimeoutException, ...)
  None

VARIABLES
  closed,  \* self._client has been closed
  last     \* [call, posted, answer, raised, message, code, result]

vars == <<closed, last>>

PyBytes(bs) == [t |-> "bytes", y |-> bs]
PyList(xs)  == [l |-> xs, t |-> "list"]

\* d.get(key, default) of a key given as <<>> (absent) or <<value>>
DictGet(opt, default) == IF opt = <<>> THEN default ELSE opt[1]
\* `x or default` on an optional number
PyOr(opt, default) == IF opt = <<>> \/ opt[1] = 0 THEN default ELSE opt[1]

NoCall == [op |-> "none"]

Init ==
  /\ closed = FALSE
  /\ last = [answer |-> [k |-> "none"], call |-> NoCall, code |-> None, message |-> None,
             posted |-> <<>>, raised |-> "none", result |-> None]

(***************************************************************************)
(* _convert_value (client.py 288-322).  A list is tagged by its first     *)
(* element alone; a bool is tested before an int since Python's bool is   *)
(* an int.  Other element types turn into their str().                     *)
(***************************************************************************)
ArrayTag(first) ==
  CASE first.t = "bool"  -> "BoolArray"
    [] first.t = "int"   -> "Int64Array"
    [] first.t = "float" -> "Float64Array"
    [] first.t = "str"   -> "StringArray"
    [] OTHER             -> "str"

client_convert_value(v) ==
  CASE v.t = "bytes" -> [tag |-> "Bytes", y |-> v.y]
    [] v.t = "list" /\ v.l = <<>> -> [a |-> <<>>, tag |-> "StringArray"]
    [] v.t = "list" /\ ArrayTag(v.l[1]) = "str" ->
         [a |-> [i \in DOMAIN v.l |-> PyStr(PyText(v.l[i]))], tag |-> "StringArray"]
    [] v.t = "list" -> [a |-> v.l, tag |-> ArrayTag(v.l[1])]
    [] OTHER -> convert_value(v)

\* [{"field": k, "value": self._convert_value(v)} for k, v in data.items()]
WireFields(data) ==
  [i \in DOMAIN data |-> [field |-> data[i].field, value |-> client_convert_value(data[i].value)]]

(***************************************************************************)
(* _hex_to_uuid (client.py 324-328): the length must be 32, hyphens       *)
(* included; int(pair, 16) takes a sign, so "+f" is 15 and "-f" is -15.   *)
(***************************************************************************)
ClientPairOk(a, b)    == IsHex(b) /\ (IsHex(a) \/ a \in {"+", "-"})
ClientPairValue(a, b) ==
  CASE a = "+" -> HexValue[b] [] a = "-" -> -HexValue[b] [] OTHER -> 16 * HexValue[a] + HexValue[b]

\* Mutant: the two digits of a pair are combined in the wrong order.
client_hex_to_uuid_swapped(chars) ==
  CASE Len(chars) # 32 -> [err |-> "ValueError"]
    [] \E i \in 1..16 : ~ClientPairOk(chars[2 * i - 1], chars[2 * i]) -> [err |-> "ValueError"]
    [] OTHER -> [bytes |-> [i \in 1..16 |->
                   ClientPairValue(chars[2 * i], chars[2 * i - 1])],
                 err |-> "none"]

client_hex_to_uuid(chars) ==
  CASE Len(chars) # 32 -> [err |-> "ValueError"]
    [] \E i \in 1..16 : ~ClientPairOk(chars[2 * i - 1], chars[2 * i]) -> [err |-> "ValueError"]
    [] OTHER -> [bytes |-> [i \in 1..16 |->
                   ClientPairValue(chars[2 * i - 1], chars[2 * i])],
                 err |-> "none"]

(***************************************************************************)
(* types.py: the result objects built from a JSON body, every missing key *)
(* taking its default.                                                     *)
(***************************************************************************)
\* Mutant: total_entities is always the number of flattened rows.
QueryResult_from_response_count(b) ==
  LET entities == FlattenSeq(b.entities) IN
  [edges |-> FlattenSeq(b.edges), entities |-> entities,
   has_more |-> DictGet(b.has_more, FALSE),
   total_edges |-> DictGet(b.total_edges, Len(FlattenSeq(b.edges))),
   total_entities |-> Len(entities)]

QueryResult_from_response(b) ==
  LET entities == FlattenSeq(b.entities)
      edges    == FlattenSeq(b.edges)
  IN [edges |-> edges, entities |-> entities, has_more |-> DictGet(b.has_more, FALSE),
      total_edges |-> DictGet(b.total_edges, Len(edges)),
      total_entities |-> DictGet(b.total_entities, Len(entities))]

MutationResult_from_response(b) ==
  [affected |-> DictGet(b.affected, 0), inserted_ids |-> DictGet(b.inserted_ids, <<>>),
   success |-> DictGet(b.success, FALSE)]

ReplicationStatus_from_response(b) ==
  [current_lsn |-> DictGet(b.current_lsn, 0), lag_entries |-> DictGet(b.lag_entries, 0),
   lag_ms |-> DictGet(b.lag_ms, 0), primary_addr |-> DictGet(b.primary_addr, None),
   role |-> DictGet(b.role, "unknown")]

ChangeLogEntry_from_dict(e) ==
  [change_type |-> DictGet(e.change_type, ""),
   changed_fields |-> DictGet(e.changed_fields, <<>>),
   entity_id |-> DictGet(e.entity_id, ""), entity_type |-> DictGet(e.entity_type, ""),
   lsn |-> DictGet(e.lsn, 0), schema_version |-> DictGet(e.schema_version, 0),
   timestamp |-> DictGet(e.timestamp, 0)]

StreamChangesResult_from_response(b) ==
  [entries |-> [i \in DOMAIN b.entries |-> ChangeLogEntry_from_dict(b.entries[i])],
   has_more |-> DictGet(b.has_more, FALSE), next_lsn |-> DictGet(b.next_lsn, 0)]

\* the JSON itself, for /health and /schema
AsIs(b) == b

(***************************************************************************)
(* One call to the gateway and what the method makes of the answer.       *)
(* A closed httpx.Client raises RuntimeError before sending.  After        *)
(* raise_for_status() a non-success status is an HTTPStatusError; on the  *)
(* POST paths (client.py 117-122, 220-225) its body is read with           *)
(* e.response.json() when it has content, so a non-JSON body raises        *)
(* JSONDecodeError (a ValueError) out of the handler.  Other httpx errors *)
(* become ConnectionError.  response.json() on a success that is not JSON *)
(* raises JSONDecodeError as well, outside any handler.                    *)
(***************************************************************************)
Outcome(call, posted, answer, raised, message, code, result) ==
  /\ last' = [answer |-> answer, call |-> call, code |-> code, message |-> message,
              posted |-> posted, raised |-> raised, result |-> result]

\* Mutant: message and code are passed to the exception in swapped order.
DomainError_swapped(call, posted, answer, cls) ==
  LET eb == answer.body IN
  IF eb.content = "empty" THEN Outcome(call, posted, answer, cls, None, "str(e)", None)
  ELSE Outcome(call, posted, answer, cls, DictGet(eb.code, None), DictGet(eb.message, "str(e)"), None)

\* raise QueryError/MutationError(error_body.get("message", str(e)), error_body.get("code"))
DomainError(call, posted, answer, cls) ==
  LET eb == answer.body IN
  CASE eb.content = "empty" -> Outcome(call, posted, answer, cls, "str(e)", None, None)
    [] eb.content = "json"  -> Outcome(call, posted, answer, cls,
                                       DictGet(eb.message, "str(e)"), DictGet(eb.code, None), None)
    [] eb.content = "text"  -> Outcome(call, posted, answer, "ValueError", None, None, None)

\* decode: the success bodies of the endpoint, each mapped to what its
\* from_response constructor returns (response.json() then from_response)
\* cls: what a non-success status raises, QueryError or MutationError on the
\* POST paths, ConnectionError on the GET paths
Call(call, req, decode, cls) ==
  \/ closed /\ Outcome(call, <<>>, [k |-> "none"], "RuntimeError", None, None, None)
  \/ ~closed /\ \E b \in DOMAIN decode :
        Outcome(call, <<req>>, [body |-> b, k |-> "ok"], "none", None, None, decode[b])
  \/ ~closed /\ Outcome(call, <<req>>, [k |-> "text"], "ValueError", None, None, None)
  \/ ~closed /\ \E eb \in ErrorBodies :
        IF cls = "ConnectionError"
        THEN Outcome(call, <<req>>, [body |-> eb, k |-> "status"], "ConnectionError", "str(e)", None, None)
        ELSE DomainError(call, <<req>>, [body |-> eb, k |-> "status"], cls)
  \/ ~closed /\ \E t \in Transports :
        Outcome(call, <<req>>, [k |-> "transport", t |-> t], "ConnectionError", "str(e)", None, None)

Post(path, body) == [body |-> body, path |-> path]

(***************************************************************************)
(* query (client.py 63-124)                                                *)
(***************************************************************************)
\* Mutant: pagination is sent only when a limit is given.
Pagination_limit_only(limit, offset) ==
  IF limit = <<>> THEN <<>> ELSE <<[limit |-> PyOr(limit, 100), offset |-> PyOr(offset, 0)]>>

Pagination(limit, offset) ==
  IF limit = <<>> /\ offset = <<>> THEN <<>>
  ELSE <<[limit |-> PyOr(limit, 100), offset |-> PyOr(offset, 0)]>>

\* the payload; an absent key is <<>>, `if fields:` drops an empty list
QueryPayload(a) ==
  [fields |-> IF a.fields = <<>> THEN <<>> ELSE <<a.fields>>,
   filter |-> [i \in DOMAIN a.filter |-> [expression |-> a.filter[i]]],
   includes |-> a.includes, order_by |-> a.order_by,
   pagination |-> Pagination(a.limit, a.offset), root_entity |-> a.entity]

query(a) ==
  Call([args |-> a, op |-> "query"], Post("/query", QueryPayload(a)),
    [b \in QueryBodies |-> QueryResult_from_response(b)], "QueryError")

(***************************************************************************)
(* insert, update, delete, upsert (client.py 126-212) and _mutate          *)
(* (214-227).  An id is decoded while the payload is built, so a bad id   *)
(* raises ValueError before anything is sent.                             *)
(***************************************************************************)
\* the answers of /mutate, decoded
MutResults == [b \in MutBodies |-> MutationResult_from_response(b)]

\* Mutant: a failed mutation raises QueryError, as query() does.
mutate_query_error(call, payload) ==
  Call(call, Post("/mutate", payload), MutResults, "QueryError")

mutate(call, payload) ==
  Call(call, Post("/mutate", payload), MutResults, "MutationError")

\* Python raises the decoding error; the payload is never built
BadId(call) == Outcome(call, <<>>, [k |-> "none"], "ValueError", None, None, None)

insert(e, data) ==
  mutate([data |-> data, entity |-> e, op |-> "insert"],
         [data |-> WireFields(data), entity |-> e, tag |-> "Insert"])

update(e, id, data) ==
  LET u == client_hex_to_uuid(id) IN
  IF u.err # "none" THEN BadId([data |-> data, entity |-> e, id |-> id, op |-> "update"])
  ELSE mutate([data |-> data, entity |-> e, id |-> id, op |-> "update"],
              [data |-> WireFields(data), entity |-> e, id |-> u.bytes, tag |-> "Update"])

delete(e, id) ==
  LET u == client_hex_to_uuid(id) IN
  IF u.err # "none" THEN BadId([entity |-> e, id |-> id, op |-> "delete"])
  ELSE mutate([entity |-> e, id |-> id, op |-> "delete"],
              [entity |-> e, id |-> u.bytes, tag |-> "Delete"])

\* "id": self._hex_to_uuid(id) if id else None
upsert(e, data, optid) ==
  LET call == [data |-> data, entity |-> e, op |-> "upsert", optid |-> optid]
      u    == IF optid = <<>> THEN [bytes |-> <<>>, err |-> "none"] ELSE client_hex_to_uuid(optid[1])
  IN IF u.err # "none" THEN BadId(call)
     ELSE mutate(call, [data |-> WireFields(data), entity |-> e,
                        optid |-> IF optid = <<>> THEN <<>> ELSE <<u.bytes>>,
                        tag |-> "Upsert"])

(***************************************************************************)
(* The GET endpoints (client.py 47-61, 229-286): every httpx error,        *)
(* a non-success status included, becomes ConnectionError.                 *)
(***************************************************************************)
health ==
  Call([op |-> "health"], [path |-> "/health"], [b \in JsonBodies |-> AsIs(b)],
       "ConnectionError")

get_schema ==
  Call([op |-> "get_schema"], [path |-> "/schema"], [b \in JsonBodies |-> AsIs(b)],
       "ConnectionError")

get_replication_status ==
  Call([op |-> "get_replication_status"], [path |-> "/replication/status"],
    [b \in ReplBodies |-> ReplicationStatus_from_response(b)], "ConnectionError")

\* params: from_lsn and limit, and ",".join(entities) when entities is non-empty
stream_changes(s) ==
  Call([args |-> s, op |-> "stream_changes"],
    [entities |-> IF s.entities = <<>> THEN <<>>
                  ELSE <<Joined([i \in DOMAIN s.entities |-> <<Word(s.entities[i])>>])>>,
     from_lsn |-> s.from_lsn,
     limit |-> s.limit,
     path |-> "/replication/changes"],
    [b \in ChangeBodies |-> StreamChangesResult_from_response(b)], "ConnectionError")

close ==
  /\ closed' = TRUE
  /\ UNCHANGED last

\* Every method but close leaves the client as open or closed as it was.
Next ==
  \/ UNCHANGED closed /\ \E a \in QueryArgs : query(a)
  \/ UNCHANGED closed /\ \E d \in Datas : insert("User", d)
  \/ UNCHANGED closed /\ \E d \in Datas, id \in Ids : update("User", id, d)
  \/ UNCHANGED closed /\ \E id \in Ids : delete("User", id)
  \/ UNCHANGED closed /\ \E d \in Datas, o \in UpsertIds : upsert("User", d, o)
  \/ UNCHANGED closed /\ health
  \/ UNCHANGED closed /\ get_schema
  \/ UNCHANGED closed /\ get_replication_status
  \/ UNCHANGED closed /\ \E s \in StreamArgs : stream_changes(s)
  \/ close

Spec == Init /\ [][Next]_vars

-----------------------------------------------------------------------------
(***************************************************************************)
(* Reference: what spec.md says of the request builder (4.3), the value   *)
(* codec (3, 4.2), identifiers (3, 4.2), the materializer (4.4) and error *)
(* classification (6, 7).                                                  *)
(***************************************************************************)
PostOps   == {"query", "insert", "update", "delete", "upsert"}
ElemKind  == [BoolArray |-> "bool", Float64Array |-> "float", Int64Array |-> "int",
              StringArray |-> "str"]

\* an array is tagged by the one kind all its elements share; an empty or
\* mixed array falls back to StringArray of the elements' text
SpecArray(xs) ==
  LET kinds == {xs[i].t : i \in DOMAIN xs} IN
  CASE xs = <<>> -> [a |-> <<>>, tag |-> "StringArray"]
    [] \E tag \in DOMAIN ElemKind : kinds = {ElemKind[tag]} ->
         [a |-> xs, tag |-> CHOOSE tag \in DOMAIN ElemKind : kinds = {ElemKind[tag]}]
    [] OTHER -> [a |-> [i \in DOMAIN xs |-> PyStr(PyText(xs[i]))], tag |-> "StringArray"]

SpecClientWire(v) ==
  CASE v.t = "bytes" -> [tag |-> "Bytes", y |-> v.y]
    [] v.t = "list"  -> SpecArray(v.l)
    [] OTHER         -> SpecWire(v)

SpecData(data) == [i \in DOMAIN data |-> [field |-> data[i].field,
                                           value |-> SpecClientWire(data[i].value)]]

\* <<the 16 bytes>> of a valid identifier, <<>> of an invalid one
SpecIdBytes(chars) ==
  LET d == SelectSeq(chars, LAMBDA c : c # "-") IN
  IF Len(d) = 32 /\ \A i \in 1..32 : IsHex(d[i]) THEN <<SpecId(chars)>> ELSE <<>>

CallId(call) ==
  CASE call.op \in {"update", "delete"} -> <<call.id>>
    [] call.op = "upsert"               -> call.optid
    [] OTHER                            -> <<>>

SpecPayload(call) ==
  CASE call.op = "query" ->
         LET a == call.args IN
         [fields |-> IF a.fields = <<>> THEN <<>> ELSE <<a.fields>>,
          filter |-> [i \in DOMAIN a.filter |-> [expression |-> a.filter[i]]],
          includes |-> a.includes,
          order_by |-> a.order_by,
          pagination |-> IF a.limit = <<>> /\ a.offset = <<>> THEN <<>>
                         ELSE <<[limit |-> DictGet(a.limit, 100), offset |-> DictGet(a.offset, 0)]>>,
          root_entity |-> a.entity]
    [] call.op = "insert" -> [data |-> SpecData(call.data), entity |-> call.entity, tag |-> "Insert"]
    [] call.op = "update" -> [data |-> SpecData(call.data), entity |-> call.entity,
                              id |-> SpecIdBytes(call.id)[1], tag |-> "Update"]
    [] call.op = "delete" -> [entity |-> call.entity, id |-> SpecIdBytes(call.id)[1], tag |-> "Delete"]
    [] call.op = "upsert" -> [data |-> SpecData(call.data), entity |-> call.entity,
                              optid |-> IF call.optid = <<>> THEN <<>> ELSE SpecIdBytes(call.optid[1]),
                              tag |-> "Upsert"]

SpecRows(blocks) == FoldLeft(LAMBDA acc, b : acc \o b, <<>>, blocks)

-----------------------------------------------------------------------------
Messages == UNION {Range(eb.message) : eb \in {e \in ErrorBodies : e.content = "json"}}
Codes    == UNION {Range(eb.code) : eb \in {e \in ErrorBodies : e.content = "json"}}

TypeOK ==
  /\ closed \in BOOLEAN
  /\ last.raised \in {"none", "RuntimeError", "ValueError", "ConnectionError",
                      "QueryError", "MutationError"}
  /\ last.message \in Messages \cup {"str(e)", None}
  /\ last.code \in Codes \cup {None}
  /\ Len(last.posted) <= 1

(***************************************************************************)
(* spec.md 6 and 7: a failed query or mutation raises QueryError or       *)
(* MutationError carrying the message and code of a structured error      *)
(* body, and ConnectionError for a transport failure or an error body     *)
(* that is empty or not JSON (the except clauses of query and _mutate).   *)
(***************************************************************************)
DomainErrorOf(op) == IF op = "query" THEN "QueryError" ELSE "MutationError"

ErrorsAsSpecified ==
  last.call.op \in PostOps =>
    /\ last.answer.k = "transport" => last.raised = "ConnectionError"
    /\ last.answer.k = "status" =>
         IF last.answer.body.content = "json"
         THEN /\ last.raised = DomainErrorOf(last.call.op)
              /\ last.message = DictGet(last.answer.body.message, "str(e)")
              /\ last.code = DictGet(last.answer.body.code, None)
         ELSE last.raised = "ConnectionError"

(***************************************************************************)
(* spec.md 4.3 and 3: what query, insert, update, delete and upsert send  *)
(* is the payload the spec builds from their arguments: pagination only   *)
(* when limit or offset is given, each defaulting when absent, and every  *)
(* value under the tag of its type.                                        *)
(***************************************************************************)
PayloadMatchesSpec ==
  (last.call.op \in PostOps /\ last.posted # <<>>) =>
    last.posted[1].body = SpecPayload(last.call)

(***************************************************************************)
(* spec.md 3 and 4.2: an identifier is valid iff it has 32 hex digits     *)
(* once its hyphens are removed.  update, delete and upsert send nothing  *)
(* for an invalid one, never refuse a valid one, and send its 16 bytes.   *)
(***************************************************************************)
\* the id a posted mutation payload carries, as a sequence of 0 or 1
PostedId(body) == IF body.tag = "Upsert" THEN body.optid ELSE <<body.id>>

IdDecodedAsSpecified ==
  \A c \in Range(CallId(last.call)) :
    /\ SpecIdBytes(c) = <<>> => last.posted = <<>> /\ last.raised # "none"
    /\ SpecIdBytes(c) # <<>> => last.posted # <<>> \/ last.raised = "RuntimeError"
    /\ \A r \in Range(last.posted) : PostedId(r.body) = SpecIdBytes(c)

(***************************************************************************)
(* spec.md 4.4 through QueryResult and MutationResult.from_response: the  *)
(* rows of all blocks in order, the totals of meta when it has them       *)
(* (independent of the row count), and the mutation's own counts.         *)
(***************************************************************************)
ResultMatchesResponse ==
  last.answer.k = "ok" =>
    /\ last.call.op = "query" =>
         LET b == last.answer.body IN
         /\ last.result.entities = SpecRows(b.entities)
         /\ last.result.edges = SpecRows(b.edges)
         /\ \A t \in Range(b.total_entities) : last.result.total_entities = t
         /\ \A h \in Range(b.has_more) : last.result.has_more = h
    /\ last.call.op \in PostOps \ {"query"} =>
         /\ \A n \in Range(last.answer.body.affected) : last.result.affected = n
         /\ \A ids \in Range(last.answer.body.inserted_ids) : last.result.inserted_ids = ids
====
