------------------------------ MODULE Amounts -------------------------------
(***************************************************************************)
(* Three operators on amounts that the standard modules lack.              *)
(***************************************************************************)
EXTENDS Integers

AbsOf(x)        == IF x < 0 THEN -x ELSE x
LesserOf(x, y)  == IF x <= y THEN x ELSE y
GreaterOf(x, y) == IF x >= y THEN x ELSE y
=============================================================================
