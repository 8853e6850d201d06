------------------------------- MODULE Wallets -------------------------------
(***************************************************************************)
(* The traders that are followed: a wallet as it is before anything is     *)
(* known of it but its address, and which of its trades are looked at.     *)
(* Amounts are in dollars, ratios in percent.                              *)
(***************************************************************************)
EXTENDS Naturals

NewWallet(address) ==
  [address |-> address, enabled |-> TRUE, mode |-> "fixed_ratio", ratio |-> 25,
   maxTrade |-> 100, maxExposure |-> 1000, minTrade |-> 5,
   allowed |-> {}, blocked |-> {}, minSource |-> 50]

\* Why a trade of the wallet is passed over.  A market that is both allowed and
\* blocked is blocked; without any allowed market all of them are.
Admission(wallet, market, notional) ==
  IF ~wallet.enabled
    THEN "wallet_disabled"
  ELSE IF market \in wallet.blocked
    THEN "market_blocked"
  ELSE IF wallet.allowed # {} /\ market \notin wallet.allowed
    THEN "market_not_allowed"
  ELSE IF notional < wallet.minSource
    THEN "below_min_notional"
  ELSE "admitted"
=============================================================================
