----------------------------- MODULE MCBookFeed -----------------------------
(***************************************************************************)
(* One book that changes, with frames and answers in every order; and      *)
(* three tokens of which two can be followed, without frames.              *)
(***************************************************************************)
EXTENDS BookFeed

CONSTANTS t1, t2, t3

MCScopes == {[tokens |-> {t1}, changes |-> 2, frames |-> 2],
             [tokens |-> {t1, t2, t3}, changes |-> 0, frames |-> 0]}
=============================================================================
