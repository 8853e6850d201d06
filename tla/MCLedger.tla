------------------------------ MODULE MCLedger ------------------------------
(***************************************************************************)
(* Two pipelines that are alike, prices whose averages are whole, and one  *)
(* set of bounds for each question: three fills of two pipelines; fills    *)
(* around midnight and marks; restarts around the saves of one pipeline    *)
(* and of two; failing writes.                                             *)
(***************************************************************************)
EXTENDS Ledger, TLC

CONSTANTS p1, p2, m1, m2

MCPrices     == {12, 24}
MCQuantities == {-2, -1, 1}
Alike        == Permutations(Pipelines) \cup Permutations(Markers)

Nothing == [pipelines |-> 2, trades |-> {-2, 1} \X MCPrices, fills |-> 2,
            saves |-> 0, upsets |-> 0, marks |-> {}, days |-> {0},
            database |-> "none"]

MCBudgets ==
  {[Nothing EXCEPT !.pipelines = 1, !.fills = 3,
                   !.trades = {<<1, 12>>, <<1, 24>>, <<-2, 24>>}],
   [Nothing EXCEPT !.trades = {<<1, 12>>, <<-2, 24>>}],
   [Nothing EXCEPT !.trades = {<<1, 12>>}, !.days = {0, 1}],
   [Nothing EXCEPT !.pipelines = 1, !.trades = {<<1, 12>>, <<-2, 24>>},
                   !.fills = 1, !.upsets = 1, !.marks = MCPrices],
   [Nothing EXCEPT !.pipelines = 1, !.trades = {<<1, 12>>, <<-1, 24>>},
                   !.saves = 1, !.upsets = 2, !.database = "sound"],
   [Nothing EXCEPT !.trades = {<<1, 12>>}, !.upsets = 1, !.database = "sound"],
   [Nothing EXCEPT !.trades = {<<1, 12>>}, !.fills = 1, !.saves = 1,
                   !.upsets = 1, !.marks = {24}, !.database = "failing"]}
=============================================================================
