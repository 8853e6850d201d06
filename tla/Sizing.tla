------------------------------- MODULE Sizing -------------------------------
(***************************************************************************)
(* How much of a source trade is copied: the raw notional of the wallet's  *)
(* sizing mode, then caps that can only reduce it, then the floors, then   *)
(* whole size increments at the worst acceptable price.                    *)
(*                                                                         *)
(* Money is counted in ticks of a share: a quantity at a price is worth    *)
(* their product.  Ratios are in percent.  The inputs are multiples of 100 *)
(* wherever a percentage is taken, so that the division is exact as the    *)
(* decimal arithmetic of the code is.                                      *)
(*                                                                         *)
(*   wallet  mode, ratio or amount, liquidityCap, maxTrade, maxExposure,   *)
(*           minTrade                                                      *)
(*   ctx     equity, marketExposure, maxPosition, maxTrade, minTrade,      *)
(*           liquidity, remainingRisk, increment                           *)
(***************************************************************************)
EXTENDS Amounts, FiniteSetsExt

\* Convex de-risking: the percentage of the position cap that is still free.
FreeShare(ctx) ==
  IF ctx.maxPosition > 0
    THEN LET used == LesserOf(GreaterOf(ctx.marketExposure, 0), ctx.maxPosition)
         IN  100 - (used * 100) \div ctx.maxPosition
    ELSE 0

RawNotional(wallet, source, ctx) ==
  CASE wallet.mode = "fixed_ratio"       -> (source * wallet.ratio) \div 100
    [] wallet.mode = "fixed_usd"         -> wallet.amount
    [] wallet.mode = "portfolio_percent" -> (ctx.equity * wallet.ratio) \div 100
    [] wallet.mode = "risk_adjusted"     ->
         (((source * wallet.ratio) \div 100) * FreeShare(ctx)) \div 100

BudgetSpent(ctx) == ctx.remainingRisk <= 0

Headroom(ctx) == GreaterOf(ctx.maxPosition - ctx.marketExposure, 0)

LiquidityCap(wallet, ctx) == (ctx.liquidity * wallet.liquidityCap) \div 100

\* Every cap that applies to the wallet's mode.
Caps(wallet, ctx) ==
  {wallet.maxTrade, ctx.maxTrade, Headroom(ctx), wallet.maxExposure,
   ctx.remainingRisk}
    \cup (IF wallet.mode = "risk_adjusted" THEN {LiquidityCap(wallet, ctx)} ELSE {})

Floor(wallet, ctx) == GreaterOf(wallet.minTrade, ctx.minTrade)

Capped(wallet, source, ctx) ==
  Min({RawNotional(wallet, source, ctx)} \cup Caps(wallet, ctx))

\* Faulty variant: the increment is rounded to the nearest instead of down.
SharesNearest(notional, price, increment) ==
  ((notional + (price * increment) \div 2) \div (price * increment)) * increment

\* Shares at the worst price, rounded down to the size increment.
Shares(notional, price, increment) ==
  IF increment > 0 THEN (notional \div (price * increment)) * increment
                   ELSE notional \div price

Size(wallet, source, price, ctx) ==
  LET refused(why) == [refusal |-> why, quantity |-> 0]
      notional == Capped(wallet, source, ctx)
      quantity == Shares(notional, price, ctx.increment)
  IN  IF BudgetSpent(ctx)
        THEN refused("daily_risk_exhausted")
      ELSE IF Headroom(ctx) <= 0
        THEN refused("no_position_headroom")
      ELSE IF wallet.mode = "risk_adjusted" /\ ctx.liquidity <= 0
        THEN refused("no_liquidity")
      ELSE IF notional < Floor(wallet, ctx) \/ quantity = 0
        THEN refused("below_minimum")
      ELSE [refusal |-> "none", quantity |-> quantity]
=============================================================================
