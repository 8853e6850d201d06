---------------------------- MODULE MCSourceFeed ----------------------------
(* The source feed on small instances. *)
EXTENDS SourceFeed

\* The first content has two identical rows, the others one.
TwoThenOne == [k \in Contents |-> IF k = 1 THEN 2 ELSE 1]
=============================================================================
