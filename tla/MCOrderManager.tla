--------------------------- MODULE MCOrderManager ---------------------------
(***************************************************************************)
(* The order manager on small instances: a GTC order g and an IOC order i  *)
(* under one book feed, and g alone under two.                             *)
(***************************************************************************)
EXTENDS OrderManager

CONSTANTS g, i, f1, f2

Whole    == {[orders |-> Orders, feeds |-> Feeders]}
MCScopes == {[orders |-> {g, i}, feeds |-> {f1}], [orders |-> {g}, feeds |-> {f1, f2}]}
=============================================================================
