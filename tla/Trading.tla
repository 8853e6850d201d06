------------------------------ MODULE Trading -------------------------------
(***************************************************************************)
(* The copy pipelines and everything that may stop them, concurrently:     *)
(*                                                                         *)
(*   - on_source_trade, run by the source feed task and, outside live      *)
(*     mode, by the demo generator too: the wallet is looked up, the order *)
(*     sized from the portfolio, checked by the risk engine, registered,   *)
(*     sent and booked, with an await after most of these;                 *)
(*   - the API: kill switch and wallet registry;                           *)
(*   - the reconciler of live mode;                                        *)
(*   - a restart of the process, which keeps only what the database has.   *)
(*                                                                         *)
(* All trades are of one wallet and one token.  Money is counted in units, *)
(* and a share is worth at least one of them.  What the position is valued *)
(* at is drawn whenever its exposure is read, for the market-data tasks    *)
(* mark it between any two reads.  A side, a book and an execution are     *)
(* drawn where they first matter.                                          *)
(***************************************************************************)
EXTENDS KillSwitch, RiskEngine, Sizing, FiniteSets

CONSTANTS
  Pipelines,     (* Tasks that run on_source_trade.                        *)
  Feed,          (* The one of them that always runs.                      *)
  Handlers,      (* API requests that can be in progress together.         *)
  Reconcilers,   (* The reconciliation task, a set of one.                 *)
  Limits,        (* The risk limits.                                       *)
  Wallet,        (* The wallet's sizing mode and limits.                   *)
  Sources,       (* Notionals of source trades.                            *)
  Prices,        (* What a share may be worth: limit prices, marks, costs. *)
  MaxLost,       (* Bound on the loss of a day.                            *)
  Deployments    (* How the process may be run: live, with the demo        *)
                 (* generator, and who uses which part of the API.         *)

ASSUME FeedAssumption   == Feed \in Pipelines
ASSUME CountAssumption  == IsFiniteSet(Pipelines)
ASSUME DeploymentsAssumption ==
  Deployments \subseteq [live : BOOLEAN, demo : BOOLEAN,
                        halters : SUBSET Handlers, editors : SUBSET Handlers]
ASSUME LimitsAssumption ==
  Limits \in [maxTrade : Nat, minTrade : Nat, maxPosition : Nat, maxMarket : Nat,
              maxPortfolio : Nat, maxDailyLoss : Nat, maxOpen : Nat,
              maxSlippage : Nat, minLiquidity : Nat, maxAge : Nat,
              liveCap : Nat, requireBook : BOOLEAN]
ASSUME WalletAssumption ==
  /\ {Wallet.maxTrade, Wallet.maxExposure, Wallet.minTrade} \subseteq Nat
  /\ Wallet.mode \in {"fixed_ratio", "fixed_usd", "portfolio_percent",
                      "risk_adjusted"}
  /\ IF Wallet.mode = "fixed_usd" THEN Wallet.amount \in Nat
                                  ELSE Wallet.ratio \in Nat
  /\ Wallet.mode = "risk_adjusted" => Wallet.liquidityCap \in Nat
ASSUME SourcesAssumption == Sources \subseteq Nat
ASSUME PricesAssumption  == Prices \subseteq Nat \ {0}
ASSUME BoundsAssumption  == MaxLost \in Nat

VARIABLES
  deployment,    (* How the process is run.                                *)
  flow,          (* The pipeline tasks.                                    *)
  requests,      (* The API handlers.                                      *)
  recon,         (* Where the reconciler is.                               *)
  working,       (* Open orders of finished pipelines that can be cancelled. *)
  doubtful,      (* Open orders of finished pipelines in state Unknown.    *)
  net,           (* Shares held, signed.                                   *)
  lost,          (* Realised loss of the day.                              *)
  wallet,        (* The wallet in the tracker.                             *)
  row,           (* The wallet's row in the database.                      *)
  venue,         (* What the live exchange holds and the book lacks.       *)
  revoked,       (* The wallet was deleted and has not been added again.   *)
  late,          (* Orders each pipeline sent since each cause to stop.    *)
  raced          (* What concurrent wallet requests have made possible.    *)

tradeVars == <<flow, working, doubtful, net, lost>>
apiVars   == <<requests, wallet, row, raced, revoked>>
worldVars == <<deployment, venue>>
vars == <<deployment, halt, flow, requests, recon, working, doubtful, net, lost,
          wallet, row, venue, late, raced, revoked>>

Causes  == {"halted", "removed", "spent"}
Entries == {"absent", "enabled", "disabled"}

NoRead == [open |-> 0, lost |-> 0, held |-> 0]

FlowRecord ==
  [pc : {"idle", "recorded", "found", "signalled", "read", "approved",
         "refused", "sent", "answered"},
   enabled : BOOLEAN,          \* of the wallet as it was cloned
   quantity : Nat,             \* of the order; once answered, executed
   price : Nat,                \* the order's limit, until it is checked
   read : [open : Nat, lost : Nat, held : Int],
   alarms : BOOLEAN]           \* whether the refusal halts everything

IdleFlow == [pc |-> "idle", enabled |-> FALSE, quantity |-> 0, price |-> 0,
             read |-> NoRead, alarms |-> FALSE]

RequestRecord ==
  [pc : {"idle", "cancelling", "editing", "saving"}, entry : Entries,
   adds : BOOLEAN]

IdleRequest == [pc |-> "idle", entry |-> "absent", adds |-> FALSE]

NoneLate == [p \in Pipelines |-> [c \in Causes |-> 0]]
NoRace   == [edited |-> FALSE, unsaved |-> FALSE]

\* Startup halts a live process whose adapter lacks something it needs.
HaltAtStart ==
  {Released} \cup
  (IF deployment.live THEN {[engaged |-> TRUE, by |-> "startup"]} ELSE {})

\* The orders that hold a slot.
InFlight == {p \in Pipelines : flow[p].pc = "sent"}
OpenCount == working + doubtful + Cardinality(InFlight)

TypeOK ==
  /\ HaltTypeOK
  /\ deployment \in Deployments
  /\ flow \in [Pipelines -> FlowRecord]
  /\ requests \in [Handlers -> RequestRecord]
  /\ recon \in [Reconcilers -> {"idle", "cancelling"}]
  /\ working \in Nat /\ doubtful \in Nat
  /\ net \in Int /\ lost \in Nat
  /\ wallet \in Entries /\ row \in Entries
  /\ venue \in {"nothing", "maybe", "held"}
  /\ late \in [Pipelines -> [Causes -> 0..2]]
  /\ raced \in [edited : BOOLEAN, unsaved : BOOLEAN] /\ revoked \in BOOLEAN

Init ==
  /\ deployment \in Deployments
  /\ halt \in HaltAtStart
  /\ flow = [p \in Pipelines |-> IdleFlow]
  /\ requests = [h \in Handlers |-> IdleRequest]
  /\ recon = [r \in Reconcilers |-> "idle"]
  /\ working = 0 /\ doubtful = 0 /\ net = 0 /\ lost = 0
  /\ wallet = "enabled" /\ row = "enabled"
  /\ venue = "nothing"
  /\ late = NoneLate
  /\ raced = NoRace /\ revoked = FALSE

-----------------------------------------------------------------------------
(***************************************************************************)
(* One source trade through a pipeline.                                    *)
(***************************************************************************)
GoTo(p, pc) == flow' = [flow EXCEPT ![p].pc = pc]
Finish(p)   == flow' = [flow EXCEPT ![p] = IdleFlow]

\* The demo generator has a pipeline of its own, if it is switched on.
Runs(p) == p = Feed \/ deployment.demo

\* The tracker has admitted a trade of the wallet; the event is recorded, with
\* an await on the database.
Detect(p) ==
  /\ flow[p].pc = "idle"
  /\ Runs(p)
  /\ wallet = "enabled"
  /\ GoTo(p, "recorded")
  /\ UNCHANGED <<halt, recon, working, doubtful, net, lost, apiVars, worldVars>>

\* get_wallet: the trade of a wallet removed meanwhile is dropped; otherwise
\* the wallet is cloned and the book fetched, with an await on the venue.
LookUpWallet(p) ==
  /\ flow[p].pc = "recorded"
  /\ \/ wallet = "absent" /\ Finish(p)
     \/ /\ wallet # "absent"
        /\ flow' = [flow EXCEPT ![p] = [@ EXCEPT !.pc = "found",
                                                 !.enabled = (wallet = "enabled")]]
  /\ UNCHANGED <<halt, recon, working, doubtful, net, lost, apiVars, worldVars>>

\* Faulty variant: a short position offsets instead of adding up.
ExposuresSigned(shares) == {shares * price : price \in Prices}

\* What gross_exposure, market_exposure or token_exposure may return of the one
\* token: the shares held, long or short, at the mark or, before one, at cost.
Exposures(shares) == {AbsOf(shares) * price : price \in Prices}

\* Faulty variant: the budget of a trade is the whole budget of the day.
SizingContextWholeBudget(exposure) ==
  [equity        |-> 0,
   marketExposure |-> exposure,
   maxPosition   |-> Limits.maxPosition,
   maxTrade      |-> Limits.maxTrade,
   minTrade      |-> Limits.minTrade,
   liquidity     |-> 0,
   remainingRisk |-> Limits.maxDailyLoss,
   increment     |-> 1]

\* The remaining budget of the day is the limit less what is lost already.
SizingContext(exposure) ==
  [equity        |-> 0,
   marketExposure |-> exposure,
   maxPosition   |-> Limits.maxPosition,
   maxTrade      |-> Limits.maxTrade,
   minTrade      |-> Limits.minTrade,
   liquidity     |-> 0,
   remainingRisk |-> GreaterOf(Limits.maxDailyLoss - lost, 0),
   increment     |-> 1]

\* The strategy sizes the copy from the portfolio as it is now, or refuses:
\* by size, and in live mode also when there is no book.  The signal is
\* recorded, with an await on the database.
SizeCopy(p) ==
  /\ flow[p].pc = "found"
  /\ \E source \in Sources, price \in Prices, exposure \in Exposures(net) :
       LET sized == Size(Wallet, source, price, SizingContext(exposure))
       IN  \/ sized.refusal # "none" /\ Finish(p)
           \/ /\ sized.refusal = "none"
              /\ flow' = [flow EXCEPT ![p] =
                            [@ EXCEPT !.pc = "signalled",
                                      !.quantity = sized.quantity,
                                      !.price = price]]
  /\ UNCHANGED <<halt, recon, working, doubtful, net, lost, apiVars, worldVars>>

NoBookNoCopy(p) ==
  /\ flow[p].pc = "found"
  /\ deployment.live
  /\ Finish(p)
  /\ UNCHANGED <<halt, recon, working, doubtful, net, lost, apiVars, worldVars>>

\* The portfolio and the open-order count are read for the risk check.
ReadPortfolio(p) ==
  /\ flow[p].pc = "signalled"
  /\ flow' = [flow EXCEPT ![p] =
                [@ EXCEPT !.pc = "read",
                          !.read = [open |-> OpenCount, lost |-> lost,
                                    held |-> net]]]
  /\ UNCHANGED <<halt, recon, working, doubtful, net, lost, apiVars, worldVars>>

\* Faulty variant: the risk engine is given a switch of its own.
GateOfOwnSwitch(p) ==
  [halted |-> FALSE, live |-> deployment.live, armed |-> TRUE, feeds |-> TRUE,
   duplicate |-> FALSE, enabled |-> flow[p].enabled, tradable |-> TRUE]

\* What pipeline p gives the risk engine.  The health flags are hard-coded
\* healthy, and neither the market nor the source event is passed on.  A live
\* process is taken to be armed: one that is not sends nothing at all.
GateOf(p) == [halted |-> halt.engaged, live |-> deployment.live, armed |-> TRUE,
              feeds |-> TRUE, duplicate |-> FALSE, enabled |-> flow[p].enabled,
              tradable |-> TRUE]

\* The exposures are read one after the other, each under a lock of its own: a
\* mark may come in between, so that the three may differ.
SnapsOf(p) ==
  [pnl : {-flow[p].read.lost}, open : {flow[p].read.open},
   token  : Exposures(flow[p].read.held),
   market : Exposures(flow[p].read.held),
   gross  : Exposures(flow[p].read.held)]

\* Books the risk engine may be given: usable, too old, or none.
Books == {[known |-> TRUE,  age |-> 0, available |-> Limits.minLiquidity,
           sweeps |-> TRUE, slippage |-> 0],
          [known |-> TRUE,  age |-> Limits.maxAge + 1, available |-> 0,
           sweeps |-> FALSE, slippage |-> 0],
          [known |-> FALSE, age |-> 0, available |-> 0,
           sweeps |-> FALSE, slippage |-> 0]}

\* A book is required in live mode.
BreachesOf(p, snap, book) ==
  LET limits == [Limits EXCEPT !.requireBook = deployment.live]
      order  == [notional |-> flow[p].quantity * flow[p].price]
  IN  Breaches(limits, GateOf(p), snap, order, book)

\* The risk check.  A refusal is recorded with an await on the database.
CheckRisk(p) ==
  /\ flow[p].pc = "read"
  /\ \E snap \in SnapsOf(p), book \in Books :
       LET verdict == Verdict(BreachesOf(p, snap, book))
       IN  flow' = [flow EXCEPT ![p] =
                      IF verdict = "approved"
                        THEN [IdleFlow EXCEPT !.pc = "approved",
                                              !.quantity = flow[p].quantity]
                        ELSE [IdleFlow EXCEPT !.pc = "refused",
                                              !.alarms = AutoEngages(verdict)]]
  /\ UNCHANGED <<halt, recon, working, doubtful, net, lost, apiVars, worldVars>>

\* The refusal is on record; a daily loss beyond the limit halts everything.
AfterRefusal(p) ==
  /\ flow[p].pc = "refused"
  /\ IF flow[p].alarms THEN Engage("risk-engine") ELSE UNCHANGED halt
  /\ Finish(p)
  /\ UNCHANGED <<recon, working, doubtful, net, lost, apiVars, worldVars>>

\* register_validated and the first half of submit: the order takes a slot and
\* is handed to the adapter.  Nothing asks the kill switch again.
Send(p) ==
  /\ flow[p].pc = "approved"
  /\ GoTo(p, "sent")
  /\ UNCHANGED <<halt, recon, working, doubtful, net, lost, apiVars, worldVars>>

\* The adapter refuses the order; its slot is free again.
Refused(p) ==
  /\ flow[p].pc = "sent"
  /\ Finish(p)
  /\ UNCHANGED <<halt, recon, working, doubtful, net, lost, apiVars, worldVars>>

\* The paper adapter executes q of the order.  What is left of it keeps its
\* slot, though the order is immediate-or-cancel.
Executed(p, q) ==
  /\ flow[p].pc = "sent"
  /\ ~deployment.live
  /\ q \in 1..flow[p].quantity
  /\ flow' = [flow EXCEPT ![p] = [@ EXCEPT !.pc = "answered", !.quantity = q]]
  /\ working' = working + (IF q < flow[p].quantity THEN 1 ELSE 0)
  /\ UNCHANGED <<halt, recon, doubtful, net, lost, apiVars, worldVars>>

\* The exchange acknowledges, or the answer is lost.  Either way no fill is
\* reported, now or later, and the order may execute at any time.
Acknowledged(p) ==
  /\ flow[p].pc = "sent"
  /\ deployment.live
  /\ Finish(p)
  /\ \/ working' = working + 1 /\ UNCHANGED doubtful
     \/ doubtful' = doubtful + 1 /\ UNCHANGED working
  /\ venue' = IF venue = "nothing" THEN "maybe" ELSE venue
  /\ UNCHANGED <<halt, recon, net, lost, apiVars, deployment>>

\* Faulty variant: a gain is booked as a negative loss.
LossAfterUnfloored(signed) == {lost - 1, lost}

\* The loss of the day after a signed execution: an opening one costs at most
\* a fee, a closing one realises whatever the price has become.
LossAfter(signed) ==
  IF net = 0 \/ (net > 0) = (signed > 0)
    THEN {l \in lost..(lost + 1) : l <= MaxLost}
    ELSE 0..MaxLost

\* The order row and its latencies are stored; then the execution is booked, a
\* purchase or a sale.
BookFill(p) ==
  /\ flow[p].pc = "answered"
  /\ \E signed \in {flow[p].quantity, -flow[p].quantity} :
       /\ net' = net + signed
       /\ lost' \in LossAfter(signed)
  /\ Finish(p)
  /\ UNCHANGED <<halt, recon, working, doubtful, apiVars, worldVars>>

PipelineStep(p) ==
  \/ LookUpWallet(p) \/ SizeCopy(p) \/ NoBookNoCopy(p) \/ ReadPortfolio(p)
  \/ CheckRisk(p) \/ AfterRefusal(p) \/ Send(p) \/ Refused(p)
  \/ \E q \in 1..flow[p].quantity : Executed(p, q)
  \/ Acknowledged(p) \/ BookFill(p)

-----------------------------------------------------------------------------
(***************************************************************************)
(* The API.                                                                *)
(***************************************************************************)

\* cancel_all: the paper adapter cancels what it is asked to, at the exchange a
\* cancel may fail.  Orders in flight or in doubt are refused by the manager.
CancelAll ==
  /\ working' \in IF deployment.live THEN 0..working ELSE {0}
  /\ UNCHANGED <<flow, doubtful, net, lost>>

\* kill_switch_engage: the switch first, then an await on the audit row, then
\* cancel_all if the request asks for it.
EngageByApi(h) ==
  /\ requests[h].pc = "idle" /\ h \in deployment.halters
  /\ Engage("api")
  /\ \/ requests' = [requests EXCEPT ![h].pc = "cancelling"]
     \/ UNCHANGED requests
  /\ UNCHANGED <<recon, wallet, row, raced, revoked, tradeVars, worldVars>>

CancelByApi(h) ==
  /\ requests[h].pc = "cancelling"
  /\ CancelAll
  /\ requests' = [requests EXCEPT ![h] = IdleRequest]
  /\ UNCHANGED <<halt, recon, wallet, row, raced, revoked, worldVars>>

ResetByApi(h) ==
  /\ requests[h].pc = "idle" /\ h \in deployment.halters
  /\ ResetSwitch("api")
  /\ UNCHANGED <<recon, apiVars, tradeVars, worldVars>>

\* update_wallet clones the tracked wallet, add_wallet finds none.
EditWallet(h) ==
  /\ requests[h].pc = "idle" /\ h \in deployment.editors
  /\ requests' = [requests EXCEPT ![h] =
                    [IdleRequest EXCEPT !.pc = "editing",
                                        !.adds = (wallet = "absent")]]
  /\ UNCHANGED <<halt, recon, wallet, row, raced, revoked, tradeVars, worldVars>>

\* Other requests whose row is not written yet.
Unsaved(h) == \E g \in Handlers \ {h} : requests[g].pc = "saving"

\* The edited wallet, which the body may disable, replaces whatever the
\* tracker holds now.
UpsertWallet(h, entry) ==
  /\ requests[h].pc = "editing"
  /\ wallet' = entry
  /\ requests' = [requests EXCEPT ![h] =
                    [pc |-> "saving", entry |-> entry, adds |-> FALSE]]
  /\ revoked' = (revoked /\ ~requests[h].adds)
  /\ raced' = [edited  |-> raced.edited /\ revoked', unsaved |-> Unsaved(h)]
  /\ UNCHANGED <<halt, recon, row, tradeVars, worldVars>>

\* Faulty variant: only the row is deleted, the tracker keeps the wallet.
RemoveRowOnly(h) ==
  /\ requests[h].pc = "idle" /\ h \in deployment.editors
  /\ wallet # "absent"
  /\ requests' = [requests EXCEPT ![h] = [IdleRequest EXCEPT !.pc = "saving"]]
  /\ revoked' = TRUE
  /\ raced' = [edited  |-> \/ \E g \in Handlers : requests[g].pc = "editing"
                           \/ raced.edited,
               unsaved |-> Unsaved(h)]
  /\ UNCHANGED <<halt, recon, wallet, row, tradeVars, worldVars>>

\* delete_wallet: the tracker first, then the row.
RemoveWallet(h) ==
  /\ requests[h].pc = "idle" /\ h \in deployment.editors
  /\ wallet # "absent"
  /\ wallet' = "absent"
  /\ requests' = [requests EXCEPT ![h] = [IdleRequest EXCEPT !.pc = "saving"]]
  /\ revoked' = TRUE
  /\ raced' = [edited  |-> \/ \E g \in Handlers : requests[g].pc = "editing"
                           \/ raced.edited,
               unsaved |-> Unsaved(h)]
  /\ UNCHANGED <<halt, recon, row, tradeVars, worldVars>>

\* The row is written or deleted.
SaveWallet(h) ==
  /\ requests[h].pc = "saving"
  /\ row' = requests[h].entry
  /\ requests' = [requests EXCEPT ![h] = IdleRequest]
  /\ UNCHANGED <<halt, recon, wallet, raced, revoked, tradeVars, worldVars>>

\* The write fails; its result is discarded.
SaveFails(h) ==
  /\ requests[h].pc = "saving"
  /\ requests' = [requests EXCEPT ![h] = IdleRequest]
  /\ raced' = [raced EXCEPT !.unsaved = TRUE]
  /\ UNCHANGED <<halt, recon, wallet, row, revoked, tradeVars, worldVars>>

ApiStep(h) ==
  \/ EngageByApi(h) \/ CancelByApi(h) \/ ResetByApi(h)
  \/ EditWallet(h) \/ RemoveWallet(h) \/ SaveWallet(h) \/ SaveFails(h)
  \/ \E entry \in {"enabled", "disabled"} : UpsertWallet(h, entry)

-----------------------------------------------------------------------------
(***************************************************************************)
(* The reconciler, the world and the process.                              *)
(***************************************************************************)

\* A tick of the reconciler whose query is answered: a position that the book
\* does not have halts everything.  A query that fails changes nothing, and
\* outside live mode what is found is only reported.
Reconcile(r) ==
  /\ recon[r] = "idle" /\ deployment.live
  /\ venue = "held"
  /\ Engage("reconciler")
  /\ recon' = [recon EXCEPT ![r] = "cancelling"]
  /\ UNCHANGED <<tradeVars, apiVars, worldVars>>

CancelByReconciler(r) ==
  /\ recon[r] = "cancelling"
  /\ CancelAll
  /\ recon' = [recon EXCEPT ![r] = "idle"]
  /\ UNCHANGED <<halt, apiVars, worldVars>>

\* An order that was sent executes at the exchange; nothing reports it.
ExchangeExecutes ==
  /\ venue = "maybe"
  /\ venue' = "held"
  /\ UNCHANGED <<halt, recon, tradeVars, apiVars, deployment>>

NewDay ==
  /\ lost > 0
  /\ lost' = 0
  /\ UNCHANGED <<halt, recon, flow, working, doubtful, net, apiVars, worldVars>>

\* Faulty variant: the wallets that are tracked at startup are not written back.
WalletsAtStartUnwritten ==
  /\ wallet' = IF row = "absent" THEN "enabled" ELSE row
  /\ UNCHANGED row

\* The configured wallet is tracked again unless the database knows it
\* otherwise; what is tracked is then written to the database.
WalletsAtStart ==
  /\ wallet' = IF row = "absent" THEN "enabled" ELSE row
  /\ row' = wallet'

\* The process stops anywhere and starts again.  The kill switch, the orders
\* and the loss of the day are not kept; the configured wallet is tracked again
\* unless the database knows it otherwise, and is then written back.
Restart ==
  /\ halt' \in HaltAtStart
  /\ flow' = [p \in Pipelines |-> IdleFlow]
  /\ requests' = [h \in Handlers |-> IdleRequest]
  /\ recon' = [r \in Reconcilers |-> "idle"]
  /\ working' = 0 /\ doubtful' = 0 /\ lost' = 0
  /\ WalletsAtStart
  /\ venue' \in IF deployment.live /\ InFlight # {} /\ venue = "nothing"
                  THEN {"nothing", "maybe"} ELSE {venue}
  /\ revoked' = FALSE /\ raced' = NoRace
  /\ UNCHANGED <<deployment, net>>

-----------------------------------------------------------------------------
(***************************************************************************)
(* What stands in the way of an order, and how many orders each pipeline   *)
(* has sent since it does, two for two or more: a history variable that    *)
(* every step writes.                                                      *)
(***************************************************************************)
Stands(c) == \/ c = "halted"  /\ halt.engaged
             \/ c = "removed" /\ revoked
             \/ c = "spent"   /\ lost >= Limits.maxDailyLoss

SentNow(p) == flow[p].pc = "approved" /\ flow'[p].pc = "sent"

Chronicle ==
  late' = [p \in Pipelines |-> [c \in Causes |->
             IF Stands(c)'
               THEN LesserOf(late[p][c] + (IF SentNow(p) THEN 1 ELSE 0), 2)
               ELSE 0]]

Step ==
  \/ \E p \in Pipelines : Detect(p) \/ PipelineStep(p)
  \/ \E h \in Handlers : ApiStep(h)
  \/ \E r \in Reconcilers : Reconcile(r) \/ CancelByReconciler(r)
  \/ ExchangeExecutes \/ NewDay \/ Restart

Next == Step /\ Chronicle

Spec == Init /\ [][Next]_vars

(***************************************************************************)
(* The reconciler ticks for ever.  Its query may fail, but not every time. *)
(***************************************************************************)
Fairness ==
  \A r \in Reconcilers :
    WF_vars((Reconcile(r) \/ CancelByReconciler(r)) /\ Chronicle)

FairSpec == Spec /\ Fairness

-----------------------------------------------------------------------------
(***************************************************************************)
(* Properties.                                                             *)
(***************************************************************************)

\* An order can be sent after the kill switch was engaged, for the switch is
\* read once and before the order is registered; but at most one by each
\* pipeline until the switch is released (pipeline.rs, RiskEngine::check).
AtMostOneAfterHalt == \A p \in Pipelines : late[p]["halted"] <= 1

\* Likewise for the daily budget: once the loss of the day has reached the
\* limit each pipeline sends at most one more order, whether or not the kill
\* switch is engaged or released meanwhile (SizingEngine::size, check 7).
AtMostOneAfterBudget == \A p \in Pipelines : late[p]["spent"] <= 1

\* Likewise for a deleted wallet, unless an update that had read the wallet
\* before puts it back (update_wallet, delete_wallet).
AtMostOneAfterRemoval ==
  \A p \in Pipelines : late[p]["removed"] <= 1 \/ raced.edited

Deployed == {p \in Pipelines : Runs(p)}

\* The open-order limit is exceeded at most by the pipelines that read the
\* count before the others registered: by none when there is one pipeline.
SlotsOverrunOnlyByOverlap ==
  OpenCount <= Limits.maxOpen + Cardinality(Deployed) - 1

\* The shares each pipeline may still add to the position.
Pending ==
  [p \in Pipelines |-> IF flow[p].pc \in {"approved", "sent", "answered"}
                         THEN flow[p].quantity ELSE 0]

\* A mark alone can take the exposure past its limit, for positions are valued
\* anew at every read; but whatever the marks in between, the shares held and
\* pending never exceed what the limit buys at the lowest price, but for one
\* largest trade of each other pipeline (check 10, Portfolio::apply_fill).
SharesOverrunOnlyByOverlap ==
  AbsOf(net) + SumFunctionOnSet(Pending, Pipelines) <=
    Limits.maxPortfolio + (Cardinality(Deployed) - 1) * Limits.maxTrade

\* With no request in progress the database holds the wallet as the tracker
\* does, unless requests overlapped or a write failed (handlers.rs).
RegistryAgrees ==
  \/ wallet = row
  \/ raced.unsaved
  \/ \E h \in Handlers : requests[h].pc = "saving"

\* A position that the exchange holds and nothing reported halts trading in
\* the end, whatever an operator releases before (run_reconciliation).
UnreportedPositionHalts == venue = "held" ~> halt.engaged
=============================================================================
