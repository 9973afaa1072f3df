----------------------------- MODULE DjangoCursor -----------------------------
(***************************************************************************)
(* The Django backend over the DBAPI cursor: DatabaseWrapper.create_cursor *)
(* (django/base.py 117-120) returns a DbapiCursor, and every statement the *)
(* backend writes (DjangoOperations) is an Execute of that cursor.          *)
(***************************************************************************)
EXTENDS DbapiCursor, DjangoOperations

(***************************************************************************)
(* A queryset slice [low:high] on an entity reaches the gateway as a query *)
(* of that entity that skips low rows and returns high - low of them, or   *)
(* all the rest when high is None: the root entity is the entity's name,   *)
(* the offset is low, and the limit is high - low, or when high is None a  *)
(* limit the gateway can serve (spec.md 2: limits are non-negative).  The  *)
(* composition of quote_name and limit_offset_sql with _parse_select is    *)
(* what is checked.                                                        *)
(***************************************************************************)
DjangoSliceAsRequested ==
  (last.op # None /\ last.op.spec.kind = "django_slice" /\ last.posted # <<>>) =>
    LET s == last.op.spec
        q == last.posted[1].body
    IN /\ q.root_entity = <<Word(s.entity)>>
       /\ IF s.low = 0 /\ s.high = <<>> THEN q.pagination = <<>>
          ELSE /\ q.pagination # <<>>
               /\ q.pagination[1].offset = s.low
               /\ q.pagination[1].limit >= 0
               /\ s.high # <<>> => q.pagination[1].limit = s.high[1] - s.low
====
