------------------------------ MODULE Position ------------------------------
(***************************************************************************)
(* Weighted-average-cost accounting of one token: what a fill does to a    *)
(* position, and what it realises.  Quantities are signed, a fill by its   *)
(* side.  The integers stand for the code's decimals, so prices must be    *)
(* chosen such that every average is whole.                                *)
(***************************************************************************)
EXTENDS Amounts

Flat == [qty |-> 0, avg |-> 0]

\* A fill in the direction of the position, or the first of one.
Increases(position, signed) ==
  position.qty = 0 \/ (position.qty > 0) = (signed > 0)

Crosses(position, signed) ==
  LET left == position.qty + signed IN left # 0 /\ (left > 0) # (position.qty > 0)

\* The average over both, which have the same sign.
RolledAverage(position, signed, price) ==
  (AbsOf(position.qty) * position.avg + AbsOf(signed) * price)
    \div (AbsOf(position.qty) + AbsOf(signed))

\* Faulty variant: the residue of a fill that crosses zero keeps the old price.
EntryAfterUncrossed(position, signed, price) ==
  LET left == position.qty + signed
  IN  IF left = 0 THEN 0
      ELSE IF Increases(position, signed)
        THEN RolledAverage(position, signed, price)
      ELSE position.avg

\* Faulty variant: a closed position keeps its entry price.
EntryAfterUnreset(position, signed, price) ==
  LET left == position.qty + signed
  IN  IF left # 0 /\ Increases(position, signed)
        THEN RolledAverage(position, signed, price)
      ELSE IF left # 0 /\ Crosses(position, signed) THEN price
      ELSE position.avg

\* Only an increase moves the average; what is left of a fill that crosses zero
\* is a new position at its price.
EntryAfter(position, signed, price) ==
  LET left == position.qty + signed
  IN  IF left = 0 THEN 0
      ELSE IF Increases(position, signed)
        THEN RolledAverage(position, signed, price)
      ELSE IF Crosses(position, signed) THEN price
      ELSE position.avg

PositionAfter(position, signed, price) ==
  [qty |-> position.qty + signed, avg |-> EntryAfter(position, signed, price)]

\* What the fill realises, net of its fee: the part that closes something, at
\* the difference to the average.
Realized(position, signed, price, fee) ==
  LET closing == LesserOf(AbsOf(signed), AbsOf(position.qty))
      gain    == IF position.qty > 0 THEN price - position.avg
                                     ELSE position.avg - price
  IN  (IF Increases(position, signed) THEN 0 ELSE closing * gain) - fee

\* Cash moves by the signed value of the fill; a fee always costs.
CashDelta(signed, price, fee) == -(signed * price) - fee

CostOf(position) == position.qty * position.avg
=============================================================================
