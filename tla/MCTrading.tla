----------------------------- MODULE MCTrading ------------------------------
(* The pipelines on a small instance. *)
EXTENDS Trading

CONSTANTS feed, demo, h1, h2

TightLimits ==
  [maxTrade |-> 2, minTrade |-> 1, maxPosition |-> 2, maxMarket |-> 2,
   maxPortfolio |-> 2, maxDailyLoss |-> 2, maxOpen |-> 1, maxSlippage |-> 100,
   minLiquidity |-> 1, maxAge |-> 1, liveCap |-> 2, requireBook |-> FALSE]

\* Live mode, which has no demo generator; paper mode with the generator; and
\* paper mode without it, with the kill switch or with the wallets in use.
FourWays ==
  {[live |-> TRUE,  demo |-> FALSE, halters |-> {h1}, editors |-> {}],
   [live |-> FALSE, demo |-> TRUE,  halters |-> {h1}, editors |-> {}],
   [live |-> FALSE, demo |-> FALSE, halters |-> {h1}, editors |-> {}],
   [live |-> FALSE, demo |-> FALSE, halters |-> {},   editors |-> {h1, h2}]}

CopyAll == [mode |-> "fixed_ratio", ratio |-> 100, maxTrade |-> 2,
            maxExposure |-> 2, minTrade |-> 1]
=============================================================================
