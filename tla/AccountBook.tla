---------------------------- MODULE AccountBook -----------------------------
(***************************************************************************)
(* What the portfolio promises: an account that changes by whole trades.   *)
(* A trade moves the cash, the position and the realised profit together   *)
(* and by exactly what it is worth.  Only an upset, which is counted, may  *)
(* do anything else: a restart, or a reset of the paper account.           *)
(***************************************************************************)
EXTENDS Position

CONSTANTS
  Start,         (* Cash an account starts with.                           *)
  Prices,        (* Prices of trades.                                      *)
  Quantities,    (* Signed quantities of trades.                           *)
  Fee            (* Fee of a trade.                                        *)

VARIABLES
  cash,          (* Free cash.                                             *)
  position,      (* The position, with its average price.                  *)
  realized,      (* Profit realised so far, net of fees.                   *)
  upsets         (* Restarts and resets so far.                            *)

bookVars == <<cash, position, realized, upsets>>

BookInit == cash = Start /\ position = Flat /\ realized = 0 /\ upsets = 0

Trade(signed, price) ==
  /\ cash' = cash + CashDelta(signed, price, Fee)
  /\ position' = PositionAfter(position, signed, price)
  /\ realized' = realized + Realized(position, signed, price, Fee)
  /\ UNCHANGED upsets

Upset == upsets' = upsets + 1

BookNext ==
  \/ \E signed \in Quantities, price \in Prices : Trade(signed, price)
  \/ Upset

BookSpec == BookInit /\ [][BookNext]_bookVars
=============================================================================
