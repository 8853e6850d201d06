------------------------------ MODULE Pricing -------------------------------
(***************************************************************************)
(* Prices and the worst price an order may trade at.                       *)
(*                                                                         *)
(* A price is counted in hundredths of a cent, the distance of MIN and MAX *)
(* from the ends of the range, so that a dollar and one in basis points    *)
(* are the same number, Dollar.  A percentage of a price, exact in the     *)
(* decimal arithmetic of the code, is rounded to a whole price on the less *)
(* aggressive side; the rounding to a tick goes the same way, so that the  *)
(* limit price is that of the code.                                        *)
(***************************************************************************)
EXTENDS Amounts

Dollar == 10000

IsPrice(p) == 0 < p /\ p < Dollar

\* Clamped into MIN..MAX, the tradable range.
Saturating(p) == LesserOf(GreaterOf(p, 1), Dollar - 1)

Worsened(value, side, bps) ==
  IF side = "buy" THEN (value * (Dollar + bps)) \div Dollar
                  ELSE (value * (Dollar - bps) + Dollar - 1) \div Dollar

\* To the tick on the less aggressive side.  Near the ends of the range the
\* clamp leaves the grid again.
RoundToTick(p, tick, side) ==
  IF tick <= 0
    THEN p
    ELSE Saturating((IF side = "buy" THEN p \div tick
                                     ELSE (p + tick - 1) \div tick) * tick)

LimitPrice(reference, side, bps, tick) ==
  RoundToTick(Saturating(Worsened(reference, side, bps)), tick, side)
=============================================================================
