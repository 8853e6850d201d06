------------------------------- MODULE Venue --------------------------------
(***************************************************************************)
(* The venue side of the execution seam: the orders resting there and the  *)
(* quantity executed for each, as the paper adapter keeps them and as the  *)
(* live exchange is assumed to.                                            *)
(*                                                                         *)
(* All orders are for one token and for the same quantity.  The paper      *)
(* adapter's `positions' map is the signed sum of `executed' over the      *)
(* orders of a token; what is kept here is each order's contribution.      *)
(***************************************************************************)
EXTENDS Integers

CONSTANTS
  Orders,      (* Order ids.                                               *)
  Gtc,         (* The orders whose remainder rests; the others are IOC.    *)
  Quantity     (* Quantity every order asks for.                           *)

ASSUME GtcAssumption      == Gtc \subseteq Orders
ASSUME QuantityAssumption == Quantity \in Nat \ {0}

VARIABLES
  resting,     (* Remaining quantity of each resting order, 0 if none.     *)
  executed     (* Quantity the venue has executed for each order.          *)

venueVars == <<resting, executed>>

VenueTypeOK ==
  /\ resting  \in [Orders -> 0..Quantity]
  /\ executed \in [Orders -> Nat]

VenueInit ==
  /\ resting  = [o \in Orders |-> 0]
  /\ executed = [o \in Orders |-> 0]

(***************************************************************************)
(* The venue takes a new order: it executes q of it now and lets the rest  *)
(* of a GTC order rest.                                                    *)
(***************************************************************************)
VenueTakes(o, q) ==
  /\ executed' = [executed EXCEPT ![o] = @ + q]
  /\ resting'  = IF o \in Gtc /\ q < Quantity
                   THEN [resting EXCEPT ![o] = Quantity - q]
                   ELSE resting

(***************************************************************************)
(* The venue acts on a cancel: the order leaves the book if it is there.   *)
(***************************************************************************)
VenueRemoves(o) ==
  /\ resting' = [resting EXCEPT ![o] = 0]
  /\ UNCHANGED executed

\* Faulty variant: an order that left the book meanwhile is not recorded as
\* executed, although its fill is handed on.
PaperMatchesUnrecorded(o, seen, q) ==
  /\ executed' = IF resting[o] > 0 THEN [executed EXCEPT ![o] = @ + q] ELSE executed
  /\ resting'  = IF resting[o] > 0 THEN [resting EXCEPT ![o] = seen - q] ELSE resting

(***************************************************************************)
(* The paper adapter executes q of a candidate of a book update.  `seen'   *)
(* is the remaining quantity in the snapshot the loop works from: the      *)
(* entry is rewritten from it if it still exists, and the fill is recorded *)
(* whether it does or not.                                                 *)
(***************************************************************************)
PaperMatches(o, seen, q) ==
  /\ executed' = [executed EXCEPT ![o] = @ + q]
  /\ resting'  = IF seen = q \/ resting[o] > 0
                   THEN [resting EXCEPT ![o] = seen - q]
                   ELSE resting

(***************************************************************************)
(* The exchange trades q of a resting order.                               *)
(***************************************************************************)
ExchangeTrades(o, q) ==
  /\ q \in 1..resting[o]
  /\ executed' = [executed EXCEPT ![o] = @ + q]
  /\ resting'  = [resting EXCEPT ![o] = @ - q]
=============================================================================
