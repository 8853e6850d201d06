------------------------------ MODULE Matching ------------------------------
(***************************************************************************)
(* What the simulated venue does with an order, given the book it has.     *)
(*                                                                         *)
(*   order   side, type, force (time in force), quantity, limit            *)
(*   params  slippage in basis points, partial (fills allowed)             *)
(*   roll    what the random numbers came to: reject, and the quarters of  *)
(*           the size that queue risk leaves, four of them or fewer        *)
(*                                                                         *)
(* The fraction that queue risk leaves is anywhere from 0.2 to 0.8; one to *)
(* three quarters stand for it.  A fill has the value of its quantity at   *)
(* its price, the share it is of all that was swept; the fee, which only   *)
(* the ledger sees, is left out.                                           *)
(***************************************************************************)
EXTENDS Books

IsMarketable(order, book) ==
  \/ order.type = "market"
  \/ LET levels == TakingSide(book, order.side)
     IN  levels # <<>> /\ Within(order.side, levels[1].price, order.limit)

\* The price is worsened, clamped into the tradable range, and never beyond
\* the limit of the order.
Charged(order, swept, bps) ==
  LET slipped == IF bps = 0 THEN swept.value
                   ELSE LesserOf(GreaterOf(Worsened(swept.value, order.side, bps),
                                           swept.taken),
                                 swept.taken * (Dollar - 1))
      atLimit == swept.taken * order.limit
  IN  IF order.side = "buy" THEN LesserOf(slipped, atLimit)
                            ELSE GreaterOf(slipped, atLimit)

Outcome(kind) == [kind |-> kind, quantity |-> 0, value |-> 0]

MatchOrder(order, book, params, roll) ==
  LET swept   == Sweep(book, order.side, order.quantity, order.limit)
      charged == Charged(order, swept, params.slippage)
      short   == swept.taken < order.quantity
      got     == (swept.taken * roll.quarters) \div 4
  IN  IF roll.reject
        THEN Outcome("rejected")
      ELSE IF ~IsMarketable(order, book)
        THEN Outcome(IF order.force = "gtc" THEN "resting" ELSE "no_liquidity")
      ELSE IF \/ got = 0
              \/ short /\ (order.force = "fok" \/ ~params.partial)
              \/ roll.quarters < 4 /\ ~params.partial
        THEN Outcome("no_liquidity")
      ELSE [kind |-> "filled", quantity |-> got,
              value |-> (charged * got) \div swept.taken]
=============================================================================
