---------------------------- MODULE MCOrmdbClient ----------------------------
(***************************************************************************)
(* Model of OrmdbClient: every combination of the optional arguments of   *)
(* query(), data dicts that cross the Int32 boundary and hold every list  *)
(* branch of _convert_value, valid and invalid identifiers, and gateway   *)
(* bodies with and without the keys from_response defaults.               *)
(***************************************************************************)
EXTENDS OrmdbClient, MCIds, TLC

MCUpper(w) == w
MCInt32Bound == 2^8

MCQueryArgs ==
  { [entity |-> "User", fields |-> f, filter |-> w, includes |-> i, limit |-> l,
     offset |-> n, order_by |-> o] :
      f \in {<<>>, <<"id", "name">>},
      w \in {<<>>, <<[field |-> "status", op |-> "eq", value |-> "active"]>>},
      i \in {<<>>, <<[relation |-> "posts"]>>},
      o \in {<<>>, <<[direction |-> "asc", field |-> "name"]>>},
      l \in {<<>>, <<10>>}, n \in {<<>>, <<5>>} }

MCDatas ==
  { <<[field |-> "age", value |-> PyInt(MCInt32Bound)], [field |-> "active", value |-> PyBool(TRUE)]>>,
    <<[field |-> "age", value |-> PyInt(-MCInt32Bound)], [field |-> "tags", value |-> PyList(<<>>)],
      [field |-> "blob", value |-> PyBytes(<<0, 255>>)]>>,
    <<[field |-> "flags", value |-> PyList(<<PyBool(FALSE), PyBool(TRUE)>>)],
      [field |-> "scores", value |-> PyList(<<PyInt(1), PyInt(-MCInt32Bound - 1)>>)]>>,
    <<[field |-> "names", value |-> PyList(<<PyStr(<<Word("Alice")>>)>>)],
      [field |-> "misc", value |-> PyList(<<PyNone, PyInt(3)>>)],
      [field |-> "ratio", value |-> PyList(<<PyFloat(DecTok("1.5"))>>)],
      [field |-> "note", value |-> PyNone]>> }

MCIdSet       == {Id1, Id2, ShortId, NonHexId}
MCUpsertIds   == {<<>>, <<Id2>>, <<ShortId>>}
MCStreamArgs  == { [entities |-> <<>>, from_lsn |-> 0, limit |-> 1000],
                   [entities |-> <<"User", "Post">>, from_lsn |-> 7, limit |-> 10] }

NoKeys == [edges |-> <<>>, entities |-> <<>>, has_more |-> <<>>,
           total_edges |-> <<>>, total_entities |-> <<>>]
MCQueryBodies ==
  { [edges |-> <<<<"e1">>>>, entities |-> <<<<"r1", "r2">>, <<"r3">>>>,
     has_more |-> <<TRUE>>, total_edges |-> <<>>, total_entities |-> <<40>>],
    [NoKeys EXCEPT !.entities = <<<<"r1">>>>] }
MCMutBodies ==
  { [affected |-> <<1>>, inserted_ids |-> <<<<"u1", "u2">>>>, success |-> <<TRUE>>],
    [affected |-> <<>>, inserted_ids |-> <<>>, success |-> <<>>] }
MCReplBodies ==
  { [current_lsn |-> <<12>>, lag_entries |-> <<3>>, lag_ms |-> <<>>,
     primary_addr |-> <<"db1:9000">>, role |-> <<"replica">>],
    [current_lsn |-> <<>>, lag_entries |-> <<>>, lag_ms |-> <<>>,
     primary_addr |-> <<>>, role |-> <<>>] }
MCChangeBodies ==
  { [entries |-> <<[change_type |-> <<"Insert">>, changed_fields |-> <<<<"name">>>>,
                    entity_id |-> <<>>, entity_type |-> <<"User">>, lsn |-> <<3>>,
                    schema_version |-> <<>>, timestamp |-> <<>>]>>,
     has_more |-> <<FALSE>>, next_lsn |-> <<4>>],
    [entries |-> <<>>, has_more |-> <<>>, next_lsn |-> <<>>] }
MCJsonBodies == { [status |-> "healthy"] }

\* structured error bodies, with and without message and code
MCErrorBodies ==
  { [code |-> <<"NOT_FOUND">>, content |-> "json", message |-> <<"no such entity">>],
    [code |-> <<>>, content |-> "json", message |-> <<>>] }

(***************************************************************************)
(* Inputs and answers on which the code and spec.md disagree.              *)
(***************************************************************************)
TextErrorBodies  == { [content |-> "text"] }
HyphenatedIds    == { Hyphenated(Id2) }
====
