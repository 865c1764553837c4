------------------------------- MODULE Nested -------------------------------
(* What std.db computes along the nesting of its arguments: filters within  *)
(* filters, and values within arrays. Documents takes both as constants,    *)
(* for what it says of rows holds whatever a filter selects.                *)
EXTENDS Documents

RECURSIVE MatchFilter(_, _)
MatchFilter(doc, filter) ==
    \A e \in filter.entries :
        CASE e.key = "$and" -> \A i \in DOMAIN e.args : MatchFilter(doc, e.args[i])
          [] e.key = "$or" -> \E i \in DOMAIN e.args : MatchFilter(doc, e.args[i])
          [] e.key = "$nor" -> ~\E i \in DOMAIN e.args : MatchFilter(doc, e.args[i])
          [] e.key = "$not" -> ~MatchFilter(doc, e.args[1])
          [] OTHER -> \A t \in e.tests : MatchOp(FieldOf(doc, e.key), t.op, t.val)

(* A value on its way to the file and back: undefined becomes null.         *)
RECURSIVE Native(_)
Native(v) ==
    IF IsNullish(v) THEN Null
    ELSE [v EXCEPT !.items = [i \in DOMAIN v.items |-> Native(v.items[i])]]
=============================================================================
