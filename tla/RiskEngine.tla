----------------------------- MODULE RiskEngine -----------------------------
(***************************************************************************)
(* The pre-trade risk check, as a function of what it is given.  An order  *)
(* is approved when none of the conditions below holds; otherwise it is    *)
(* refused for the first that does, in the order the engine tests them.    *)
(*                                                                         *)
(* The arguments:                                                          *)
(*   limits  the configured limits                                         *)
(*   gate    halted, live, armed, feeds (the first three health flags      *)
(*           together), duplicate, enabled (the wallet), tradable          *)
(*   snap    pnl of the day, open orders, exposures: token, market, gross  *)
(*   order   its notional                                                  *)
(*   book    known, age, available (notional within the limit price),      *)
(*           sweeps (whether a sweep fills any of it), slippage            *)
(***************************************************************************)
EXTENDS Integers, Sequences

\* Faulty variant: the open-order limit is tested one too late.
SlotsFullLate(limits, snap) == snap.open > limits.maxOpen

SlotsFull(limits, snap) == snap.open >= limits.maxOpen

\* Projections assume that the order is filled whole.
GrossExceeded(limits, snap, order) ==
  snap.gross + order.notional > limits.maxPortfolio

\* Every condition that refuses an order.  The engine reports max_live_size as
\* max_trade_size, nothing_to_sweep as insufficient_liquidity and
\* no_market_data as stale_market_data.
Breaches(limits, gate, snap, order, book) ==
  [kill_switch         |-> gate.halted,
   live_not_armed      |-> gate.live /\ ~gate.armed,
   system_unhealthy    |-> ~gate.feeds,
   duplicate_order     |-> gate.duplicate,
   wallet_disabled     |-> ~gate.enabled,
   market_not_tradable |-> ~gate.tradable,
   daily_loss_limit    |-> snap.pnl < -limits.maxDailyLoss,
   max_open_orders     |-> SlotsFull(limits, snap),
   below_min_order_size   |-> order.notional < limits.minTrade,
   max_trade_size         |-> order.notional > limits.maxTrade,
   max_live_size          |-> gate.live /\ order.notional > limits.liveCap,
   max_position           |-> snap.token  + order.notional > limits.maxPosition,
   max_market_exposure    |-> snap.market + order.notional > limits.maxMarket,
   max_portfolio_exposure |-> GrossExceeded(limits, snap, order),
   stale_market_data      |-> book.known /\ book.age > limits.maxAge,
   insufficient_liquidity |-> book.known /\ book.available < limits.minLiquidity,
   slippage_too_wide      |-> book.known /\ book.sweeps
                                         /\ book.slippage > limits.maxSlippage,
   nothing_to_sweep       |-> book.known /\ ~book.sweeps,
   no_market_data         |-> ~book.known /\ limits.requireBook]

CheckOrder ==
  <<"kill_switch", "live_not_armed", "system_unhealthy", "duplicate_order",
    "wallet_disabled", "market_not_tradable", "daily_loss_limit",
    "max_open_orders", "below_min_order_size", "max_trade_size",
    "max_live_size", "max_position", "max_market_exposure",
    "max_portfolio_exposure", "stale_market_data", "insufficient_liquidity",
    "slippage_too_wide", "nothing_to_sweep", "no_market_data">>

Approved(breaches) == \A c \in DOMAIN breaches : ~breaches[c]

\* The condition an order is refused for: the first that holds.
IsVerdict(breaches, i) ==
  /\ breaches[CheckOrder[i]]
  /\ \A j \in 1..(i - 1) : ~breaches[CheckOrder[j]]

Verdict(breaches) ==
  IF Approved(breaches)
    THEN "approved"
    ELSE CheckOrder[CHOOSE i \in 1..Len(CheckOrder) : IsVerdict(breaches, i)]

\* The one refusal that halts everything.
AutoEngages(verdict) == verdict = "daily_loss_limit"
=============================================================================
