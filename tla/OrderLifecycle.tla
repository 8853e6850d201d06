--------------------------- MODULE OrderLifecycle ---------------------------
(***************************************************************************)
(* The order state machine of the domain crate: which states an order can  *)
(* be in, which transitions are legal, and what applying a fill does.      *)
(*                                                                         *)
(* An order is what the rest of the system reasons about: its state, the   *)
(* quantity filled so far, and whether the venue's own id for it is known. *)
(* Prices, fees, latency stamps and timestamps play no part in any         *)
(* transition and are left out.                                            *)
(***************************************************************************)
EXTENDS Integers

States ==
  {"Created", "Validated", "Submitted", "Acknowledged", "PartiallyFilled",
   "Filled", "CancelRequested", "Cancelled", "Rejected", "Failed", "Unknown"}

IsTerminal(s) == s \in {"Filled", "Cancelled", "Rejected", "Failed"}

\* Still holding an open-order slot.
IsOpen(s) ==
  s \in {"Created", "Validated", "Submitted", "Acknowledged",
         "PartiallyFilled", "CancelRequested", "Unknown"}

\* May have traded at the venue, so a fill for it can be believed.
MayHaveExecuted(s) ==
  s \in {"Submitted", "Acknowledged", "PartiallyFilled", "Filled",
         "CancelRequested", "Unknown"}

\* The states the transition table lists after each state, Unknown aside:
\* every state that is not terminal can degrade into Unknown.
Successors(s) ==
  CASE s = "Created"         -> {"Validated", "Rejected", "Failed"}
    [] s = "Validated"       -> {"Submitted", "Rejected", "Failed"}
    [] s = "Submitted"       -> {"Acknowledged", "PartiallyFilled", "Filled",
                                 "Rejected", "Failed", "Cancelled"}
    [] s = "Acknowledged"    -> {"PartiallyFilled", "Filled",
                                 "CancelRequested", "Cancelled", "Rejected"}
    [] s = "PartiallyFilled" -> {"PartiallyFilled", "Filled",
                                 "CancelRequested", "Cancelled"}
    [] s = "CancelRequested" -> {"Cancelled", "Filled", "PartiallyFilled"}
    [] s = "Unknown"         -> {"Acknowledged", "PartiallyFilled", "Filled",
                                 "Cancelled", "Rejected", "Failed"}
    [] OTHER                 -> {}

\* Faulty variant: any open order can be asked to cancel, as if in-flight and
\* doubtful orders were working orders.
CanTransitionAnyCancel(s, t) ==
  /\ ~IsTerminal(s)
  /\ \/ t = "Unknown" \/ t \in Successors(s)
     \/ t = "CancelRequested" /\ IsOpen(s)

CanTransition(s, t) ==
  /\ ~IsTerminal(s)
  /\ t = "Unknown" \/ t \in Successors(s)

(***************************************************************************)
(* Orders.  `quantity' is the requested quantity, a parameter of the       *)
(* request that no operation changes.                                      *)
(***************************************************************************)
NewOrder == [state |-> "Created", filled |-> 0, venueId |-> FALSE]

Remaining(o, quantity) ==
  IF o.filled >= quantity THEN 0 ELSE quantity - o.filled

\* Order::transition: an illegal transition is an error and changes nothing.
Transition(o, t) == IF CanTransition(o.state, t) THEN [o EXCEPT !.state = t] ELSE o

\* Faulty variant: the overfill check is missing.
FillAcceptedUnchecked(o, q, quantity) == MayHaveExecuted(o.state)

\* Order::apply_fill succeeds: the order may have executed, no overfill.
FillAccepted(o, q, quantity) ==
  /\ MayHaveExecuted(o.state)
  /\ q <= Remaining(o, quantity)

\* The order after a successful apply_fill.  The state is set directly, by
\* what is left, without asking the transition table.
Fill(o, q, quantity) ==
  LET filled == o.filled + q
  IN  [o EXCEPT !.filled = filled,
                !.state = IF filled >= quantity THEN "Filled"
                                                ELSE "PartiallyFilled"]
=============================================================================
