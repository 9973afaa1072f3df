--------------------------- MODULE CursorAbstract ---------------------------
(***************************************************************************)
(* The cursor state machine of spec.md 4.5, independent of any code: a    *)
(* result set, a read position into it, and what the caller asked for and *)
(* received last.  Idle is the empty result, Executed a position below    *)
(* its length, Exhausted the position at its length.                      *)
(***************************************************************************)
EXTENDS Integers, Sequences

CONSTANTS
  RowValues,   \* the rows a result set may hold
  FetchSizes   \* the sizes a caller passes to fetchMany

VARIABLES
  result,  \* the live result set
  pos,     \* the read position
  out,     \* the rows the latest fetch returned
  call,    \* the latest fetch: [call |-> "one" | "many" | "all" | "none", n]
  open     \* FALSE once the session is closed

vars == <<result, pos, out, call, open>>

NoCall == [call |-> "none", n |-> 0]

Init ==
  /\ result = <<>> /\ pos = 0 /\ out = <<>> /\ call = NoCall /\ open = TRUE

\* execute: any outcome discards the prior result; a failure or a mutation
\* leaves an empty one.
Execute ==
  /\ open
  /\ result' \in Seq(RowValues)
  /\ pos' = 0 /\ out' = <<>> /\ call' = NoCall
  /\ UNCHANGED open

Remaining == Len(result) - pos

\* fetchOne: the row at the position, or "no more rows" (an empty out).
FetchOne ==
  /\ out' = IF Remaining > 0 THEN <<result[pos + 1]>> ELSE <<>>
  /\ pos' = pos + Len(out')
  /\ call' = [call |-> "one", n |-> 1]
  /\ UNCHANGED <<result, open>>

\* fetchMany(n): up to n rows from the position; never fewer than the
\* rows remaining when n is larger, never more than n.
FetchMany(n) ==
  LET k == IF n < 0 THEN 0 ELSE IF n < Remaining THEN n ELSE Remaining
  IN /\ out' = SubSeq(result, pos + 1, pos + k)
     /\ pos' = pos + k
     /\ call' = [call |-> "many", n |-> n]
     /\ UNCHANGED <<result, open>>

FetchAll ==
  /\ out' = SubSeq(result, pos + 1, Len(result))
  /\ pos' = Len(result)
  /\ call' = [call |-> "all", n |-> 0]
  /\ UNCHANGED <<result, open>>

\* close destroys the session's result
Close ==
  /\ open' = FALSE /\ result' = <<>> /\ pos' = 0
  /\ UNCHANGED <<out, call>>

Next ==
  \/ Execute
  \/ FetchOne
  \/ \E n \in FetchSizes : FetchMany(n)
  \/ FetchAll
  \/ Close

Spec == Init /\ [][Next]_vars
=============================================================================
