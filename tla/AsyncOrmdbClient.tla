--------------------------- MODULE AsyncOrmdbClient ---------------------------
(***************************************************************************)
(* AsyncOrmdbClient (client.py 331-404): health, query and close over one *)
(* httpx.AsyncClient shared by several coroutines (Tasks).  A method runs *)
(* up to its await at once; the coroutine is then suspended until the     *)
(* gateway's answer arrives, and other coroutines run meanwhile, closing  *)
(* the client included.  `closed` is the AsyncClient's state, `last` the  *)
(* latest call that returned or raised (the variables of OrmdbClient), and *)
(* `task` what each coroutine is suspended on.                             *)
(*                                                                         *)
(* A request in flight when aclose runs is given any answer of the         *)
(* gateway, a transport error included: what httpx does to it is outside  *)
(* this code, which only sees the answer or the exception.                *)
(***************************************************************************)
EXTENDS OrmdbClient

CONSTANTS
  Tasks   \* the coroutines that share the client

VARIABLES
  task    \* task[t]: idle, or awaiting the answer to call with request req

avars == <<closed, last, task>>

Idle == [pc |-> "idle"]

\* __init__ (client.py 337-343): an open AsyncClient, no coroutine suspended
AsyncInit ==
  /\ Init
  /\ task = [t \in Tasks |-> Idle]

(***************************************************************************)
(* query's payload (client.py 376-390), its own copy of the synchronous    *)
(* code.                                                                   *)
(***************************************************************************)
\* Mutant: pagination is sent only when a limit is given.
async_pagination_limit_only(limit, offset) ==
  IF limit = <<>> THEN <<>> ELSE <<[limit |-> PyOr(limit, 100), offset |-> PyOr(offset, 0)]>>

async_pagination(limit, offset) ==
  IF limit = <<>> /\ offset = <<>> THEN <<>>
  ELSE <<[limit |-> PyOr(limit, 100), offset |-> PyOr(offset, 0)]>>

async_query_payload(a) ==
  [fields |-> IF a.fields = <<>> THEN <<>> ELSE <<a.fields>>,
   filter |-> [i \in DOMAIN a.filter |-> [expression |-> a.filter[i]]],
   includes |-> a.includes, order_by |-> a.order_by,
   pagination |-> async_pagination(a.limit, a.offset), root_entity |-> a.entity]

(***************************************************************************)
(* The coroutine runs to its await.  A closed AsyncClient raises           *)
(* RuntimeError at once, which no except clause catches; otherwise the    *)
(* request is sent and the coroutine suspended.                            *)
(***************************************************************************)
Send(t, call, req) ==
  /\ task[t] = Idle
  /\ \/ /\ closed
        /\ Outcome(call, <<>>, [k |-> "none"], "RuntimeError", None, None, None)
        /\ UNCHANGED task
     \/ /\ ~closed
        /\ task' = [task EXCEPT ![t] = [call |-> call, pc |-> "awaiting", req |-> req]]
        /\ UNCHANGED last
  /\ UNCHANGED closed

\* what response.json() and from_response make of a success body
AsyncDecode(op) ==
  IF op = "query" THEN [b \in QueryBodies |-> QueryResult_from_response(b)]
  ELSE [b \in JsonBodies |-> b]

(***************************************************************************)
(* The answer arrives and the method returns or raises: health maps every *)
(* httpx error to ConnectionError (357-362); query reads a non-success    *)
(* body with e.response.json() into QueryError, and other httpx errors    *)
(* into ConnectionError (392-403).  A success body that is not JSON       *)
(* raises JSONDecodeError out of both.                                     *)
(***************************************************************************)
AsyncAnswered(call, posted) ==
  \/ \E b \in DOMAIN AsyncDecode(call.op) :
       Outcome(call, posted, [body |-> b, k |-> "ok"], "none", None, None, AsyncDecode(call.op)[b])
  \/ Outcome(call, posted, [k |-> "text"], "ValueError", None, None, None)
  \/ \E eb \in ErrorBodies :
       IF call.op = "health"
       THEN Outcome(call, posted, [body |-> eb, k |-> "status"], "ConnectionError", "str(e)", None, None)
       ELSE DomainError(call, posted, [body |-> eb, k |-> "status"], "QueryError")
  \/ \E tr \in Transports :
       Outcome(call, posted, [k |-> "transport", t |-> tr], "ConnectionError", "str(e)", None, None)

Resume(t) ==
  /\ task[t].pc = "awaiting"
  /\ AsyncAnswered(task[t].call, <<task[t].req>>)
  /\ task' = [task EXCEPT ![t] = Idle]
  /\ UNCHANGED closed

\* close and __aexit__ (345-353): aclose marks the client closed; the
\* coroutines suspended on it are left to their answers
aclose ==
  /\ closed' = TRUE
  /\ UNCHANGED <<last, task>>

AsyncNext ==
  \/ \E t \in Tasks : Send(t, [op |-> "health"], [path |-> "/health"])
  \/ \E t \in Tasks, a \in QueryArgs :
       Send(t, [args |-> a, op |-> "query"], Post("/query", async_query_payload(a)))
  \/ \E t \in Tasks : Resume(t)
  \/ aclose

AsyncSpec == AsyncInit /\ [][AsyncNext]_avars

-----------------------------------------------------------------------------
AsyncTypeOK ==
  /\ TypeOK
  /\ \A t \in Tasks :
       \/ task[t] = Idle
       \/ /\ task[t].pc = "awaiting"
          /\ task[t].call.op \in {"health", "query"}

\* the synchronous client's code, on a client open when the request was sent
\* and on a closed one
Open == INSTANCE OrmdbClient WITH closed <- FALSE
Shut == INSTANCE OrmdbClient WITH closed <- TRUE

Resumes(t) == task[t].pc = "awaiting" /\ task'[t] = Idle

(***************************************************************************)
(* spec.md 5: the asynchronous form suspends only at the call, and its     *)
(* results are those of the synchronous one.  Every call that returns or  *)
(* raises leaves what OrmdbClient.health or OrmdbClient.query leaves for   *)
(* the same arguments and answer: for a resumed call, the synchronous      *)
(* client open, as the AsyncClient was when the request was sent, even if  *)
(* another coroutine closed it since; for a call made on a closed client,  *)
(* the synchronous client closed.                                         *)
(***************************************************************************)
CallsAsSync ==
  [][ /\ \A t \in Tasks :
           Resumes(t) => Open!health \/ \E a \in QueryArgs : Open!query(a)
      /\ (last' # last /\ \A t \in Tasks : ~Resumes(t)) =>
           Shut!health \/ \E a \in QueryArgs : Shut!query(a)
    ]_avars

=============================================================================
