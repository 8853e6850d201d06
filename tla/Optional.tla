------------------------------ MODULE Optional ------------------------------
(***************************************************************************)
(* What may be left out: a level, a stamp, a variable of the environment.  *)
(***************************************************************************)
CONSTANT None

Given(x, default) == IF x = None THEN default ELSE x
=============================================================================
