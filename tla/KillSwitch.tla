----------------------------- MODULE KillSwitch -----------------------------
(***************************************************************************)
(* The kill switch: one record behind a lock, shared by the risk check of  *)
(* every pipeline, the API, the reconciler and startup.  It lives in       *)
(* memory only.                                                            *)
(*                                                                         *)
(* A reason and the party that gave it are set together, so the party      *)
(* stands for both.  The time stamp, the activation counter and the        *)
(* cancel_open_orders flag are displayed and never read back.              *)
(***************************************************************************)

VARIABLE halt        (* Whether orders are halted, and who spoke last.     *)

Parties == {"nobody", "api", "risk-engine", "reconciler", "startup"}

HaltTypeOK == halt \in [engaged : BOOLEAN, by : Parties]

Released == [engaged |-> FALSE, by |-> "nobody"]

\* Faulty variant: engaging answers, but leaves an idle switch as it was.
EngageIgnored(by) == UNCHANGED halt

\* engage: idempotent, the first cause is kept.
Engage(by) ==
  halt' = IF halt.engaged THEN halt ELSE [engaged |-> TRUE, by |-> by]

\* reset: whoever engaged the switch and for whatever reason, it is released.
ResetSwitch(by) == halt' = [engaged |-> FALSE, by |-> by]
=============================================================================
