--------------------------- MODULE TradingProofs ----------------------------
(***************************************************************************)
(* Proofs about Trading, for any pipelines, handlers, limits, wallet and   *)
(* deployments: the variables keep their types; at most one order of each  *)
(* pipeline passes a cause to stop; the wallet that is tracked is the one  *)
(* that is saved; overlapping pipelines alone exceed the limit on open     *)
(* orders, and hold more shares than the limit on exposure buys.           *)
(***************************************************************************)
EXTENDS Trading, SumTheorems

(***************************************************************************)
(* The risk check.                                                         *)
(***************************************************************************)
LEMMA LeastNatural ==
  ASSUME NEW K \in SUBSET Nat, K # {}
  PROVE  \E i \in K : \A j \in K : i <= j
<1> DEFINE R == OpToRel(<, Nat)
<1>1. IsWellFoundedOn(R, Nat)
  BY NatLessThanWellFounded
<1>2. \A x, y \in Nat : y < x => <<y, x>> \in R
  BY DEF OpToRel
<1> HIDE DEF R
<1>3. PICK x \in K : \A y \in K : <<y, x>> \notin R
  BY <1>1, WFMin
<1>4. \A y \in K : ~(y < x)
  BY <1>2, <1>3
<1> QED
  BY <1>4

\* An order that is approved breaches nothing, and one that is not is refused
\* for something it breaches.
LEMMA VerdictIsBreached ==
  ASSUME NEW limits, NEW gate, NEW snap, NEW order, NEW book,
         NEW b, b = Breaches(limits, gate, snap, order, book)
  PROVE  /\ Verdict(b) = "approved" => Approved(b)
         /\ ~Approved(b) => Verdict(b) \in DOMAIN b /\ b[Verdict(b)]
<1> SUFFICES ASSUME ~Approved(b)
             PROVE  Verdict(b) \in DOMAIN b \ {"approved"} /\ b[Verdict(b)]
  OBVIOUS
<1>1. /\ Len(CheckOrder) = 19
      /\ \A i \in 1..19 : CheckOrder[i] \in DOMAIN b \ {"approved"}
      /\ \A c \in DOMAIN b : \E i \in 1..19 : CheckOrder[i] = c
  BY DEF CheckOrder, Breaches
<1> DEFINE K == {i \in 1..19 : b[CheckOrder[i]]}
<1>2. K # {} /\ K \in SUBSET Nat
  BY <1>1 DEF Approved
<1> HIDE DEF K
<1>3. PICK i \in K : \A j \in K : i <= j
  BY <1>2, LeastNatural
<1>4. i \in 1..19 /\ IsVerdict(b, i)
  BY <1>3 DEF IsVerdict, K
<1>5. \E k \in 1..Len(CheckOrder) : IsVerdict(b, k)
  BY <1>1, <1>4
<1>6. PICK k \in 1..19 : Verdict(b) = CheckOrder[k] /\ IsVerdict(b, k)
  BY <1>1, <1>5 DEF Verdict
<1> QED
  BY <1>1, <1>6 DEF IsVerdict

\* What an approval and the automatic halt tell of what was read.
LEMMA CheckedFacts ==
  ASSUME TypeOK, NEW p \in Pipelines, NEW snap \in SnapsOf(p), NEW book,
         NEW verdict, verdict = Verdict(BreachesOf(p, snap, book))
  PROVE  /\ verdict = "approved" =>
              ~halt.engaged /\ flow[p].read.open < Limits.maxOpen
         /\ AutoEngages(verdict) => flow[p].read.lost > Limits.maxDailyLoss
<1> DEFINE b == BreachesOf(p, snap, book)
           limits == [Limits EXCEPT !.requireBook = deployment.live]
<1>1. /\ limits.maxOpen = Limits.maxOpen
      /\ limits.maxDailyLoss = Limits.maxDailyLoss
      /\ {Limits.maxOpen, Limits.maxDailyLoss} \subseteq Nat
  BY LimitsAssumption
<1>2. /\ snap.open = flow[p].read.open /\ snap.open \in Nat
      /\ snap.pnl = -flow[p].read.lost /\ flow[p].read.lost \in Nat
  BY DEF SnapsOf, TypeOK, FlowRecord
<1>3. /\ "kill_switch" \in DOMAIN b /\ (b["kill_switch"] <=> halt.engaged)
      /\ "max_open_orders" \in DOMAIN b
      /\ b["max_open_orders"] <=> flow[p].read.open >= Limits.maxOpen
      /\ b["daily_loss_limit"] <=> -flow[p].read.lost < -Limits.maxDailyLoss
  BY <1>1, <1>2 DEF BreachesOf, Breaches, GateOf, SlotsFull, TypeOK, HaltTypeOK
<1>4. /\ verdict = "approved" => Approved(b)
      /\ ~Approved(b) => b[verdict]
  BY VerdictIsBreached DEF BreachesOf
<1>5. verdict = "approved" => ~halt.engaged /\ flow[p].read.open < Limits.maxOpen
  BY <1>1, <1>2, <1>3, <1>4 DEF Approved
<1>6. ASSUME AutoEngages(verdict) PROVE flow[p].read.lost > Limits.maxDailyLoss
  <2>1. verdict = "daily_loss_limit" /\ ~Approved(b)
    BY <1>6 DEF AutoEngages, Verdict
  <2> QED
    BY <2>1, <1>1, <1>2, <1>3, <1>4
<1> QED
  BY <1>5, <1>6

(***************************************************************************)
(* The size of a copy.                                                     *)
(***************************************************************************)
LEMMA PriceType == \A price \in Prices : price \in Nat /\ price >= 1
BY PricesAssumption

LEMMA ProductAtLeast ==
  ASSUME NEW m \in Nat, NEW n \in Nat, n >= 1
  PROVE  m * n \in Nat /\ m * n >= m
<1>1. PICK k \in Nat : n = k + 1
  <2>1. n - 1 \in Nat /\ n = (n - 1) + 1
    OBVIOUS
  <2> QED
    BY <2>1
<1>2. m * n = m * k + m /\ m * k \in Nat
  BY <1>1
<1> QED
  BY <1>2

\* However a position is valued, its exposure is at least the shares it holds.
LEMMA ExposureType ==
  ASSUME NEW shares \in Int, NEW exposure \in Exposures(shares)
  PROVE  exposure \in Nat /\ AbsOf(shares) \in Nat /\ exposure >= AbsOf(shares)
<1>1. PICK price \in Prices : exposure = AbsOf(shares) * price
  BY DEF Exposures
<1>2. AbsOf(shares) \in Nat
  BY DEF AbsOf
<1> QED
  BY <1>1, <1>2, PriceType, ProductAtLeast

LEMMA SharesType ==
  ASSUME NEW notional \in Nat, NEW price \in Prices
  PROVE  Shares(notional, price, 1) \in Nat
<1>1. price * 1 = price /\ price \in Nat \ {0}
  BY PriceType
<1>2. \A x \in Nat, y \in Nat \ {0} : x \div y \in Nat
  OBVIOUS
<1>3. notional \div price \in Nat
  BY <1>1, <1>2
<1>4. Shares(notional, price, 1) = (notional \div price) * 1
  BY <1>1 DEF Shares
<1> QED
  BY <1>3, <1>4

\* A copy is sized only while some of the day's budget is left, and what is
\* sized is a quantity.
LEMMA SizedFacts ==
  ASSUME TypeOK, NEW source \in Sources, NEW price \in Prices,
         NEW exposure \in Exposures(net),
         NEW sized, sized = Size(Wallet, source, price, SizingContext(exposure)),
         sized.refusal = "none"
  PROVE  sized.quantity \in Nat /\ lost < Limits.maxDailyLoss
<1> DEFINE ctx == SizingContext(exposure)
           notional == Capped(Wallet, source, ctx)
<1> USE LimitsAssumption, WalletAssumption
<1>1. /\ ctx.remainingRisk \in Nat
      /\ ctx.remainingRisk > 0 => lost < Limits.maxDailyLoss
      /\ ctx.maxTrade \in Nat /\ ctx.maxPosition \in Nat /\ ctx.minTrade \in Nat
      /\ ctx.marketExposure \in Nat
      /\ ctx.equity = 0 /\ ctx.liquidity = 0 /\ ctx.increment = 1
  <2>1. exposure \in Nat
    BY ExposureType DEF TypeOK
  <2> QED
    BY <2>1 DEF SizingContext, GreaterOf, TypeOK
<1> HIDE DEF ctx
<1>2. /\ ~BudgetSpent(ctx)
      /\ ~(Wallet.mode = "risk_adjusted" /\ ctx.liquidity <= 0)
      /\ ~(notional < Floor(Wallet, ctx))
      /\ sized.quantity = Shares(notional, price, ctx.increment)
  BY DEF Size, ctx
<1>3. Wallet.mode # "risk_adjusted"
  BY <1>1, <1>2
<1>4. RawNotional(Wallet, source, ctx) \in Nat
  <2>1. source \in Nat
    BY SourcesAssumption
  <2>2. CASE Wallet.mode = "fixed_usd"
    BY <2>2 DEF RawNotional
  <2>3. CASE Wallet.mode = "fixed_ratio"
    <3>1. source * Wallet.ratio \in Nat
      BY <2>1, <2>3
    <3> QED
      BY <2>3, <3>1 DEF RawNotional
  <2>4. CASE Wallet.mode = "portfolio_percent"
    <3>1. ctx.equity * Wallet.ratio = 0
      BY <1>1, <2>4
    <3> QED
      BY <2>4, <3>1 DEF RawNotional
  <2> QED
    BY <1>3, <2>2, <2>3, <2>4
<1>5. Headroom(ctx) \in Nat
  BY <1>1 DEF Headroom, GreaterOf
<1>6. Caps(Wallet, ctx) \subseteq Nat
  BY <1>1, <1>3, <1>5 DEF Caps
<1> DEFINE S == {RawNotional(Wallet, source, ctx)} \cup Caps(Wallet, ctx)
<1>7. notional \in Nat
  <2>1. S \in SUBSET Nat /\ S # {} /\ notional = Min(S)
    BY <1>4, <1>6 DEF Capped
  <2> HIDE DEF S, notional
  <2>2. \E x \in S : \A y \in S : x <= y
    BY <2>1, LeastNatural
  <2> QED
    BY <2>1, <2>2 DEF Min
<1>8. sized.quantity \in Nat
  <2> HIDE DEF notional
  <2> QED
    BY <1>1, <1>2, <1>7, SharesType
<1>9. lost < Limits.maxDailyLoss
  BY <1>1, <1>2 DEF BudgetSpent
<1> QED
  BY <1>8, <1>9

(***************************************************************************)
(* Types.                                                                  *)
(***************************************************************************)
LEMMA StartTypes == HaltAtStart \subseteq [engaged : BOOLEAN, by : Parties]
<1>1. /\ Released \in [engaged : BOOLEAN, by : Parties]
      /\ [engaged |-> TRUE, by |-> "startup"] \in [engaged : BOOLEAN, by : Parties]
  BY DEF Released, Parties
<1> QED
  BY <1>1 DEF HaltAtStart

\* A flow that is written is one of the flows.
LEMMA FlowWritten ==
  ASSUME flow \in [Pipelines -> FlowRecord], NEW p \in Pipelines,
         NEW f \in FlowRecord, flow' = [flow EXCEPT ![p] = f]
  PROVE  flow' \in [Pipelines -> FlowRecord]
OBVIOUS

LEMMA InitType == Init => TypeOK
<1> SUFFICES ASSUME Init PROVE TypeOK
  OBVIOUS
<1>1. HaltTypeOK
  BY StartTypes DEF Init, HaltTypeOK
<1>2. /\ flow \in [Pipelines -> FlowRecord]
      /\ requests \in [Handlers -> RequestRecord]
  BY DEF Init, IdleFlow, NoRead, FlowRecord, IdleRequest, RequestRecord, Entries
<1>3. late \in [Pipelines -> [Causes -> 0..2]]
  BY DEF Init, NoneLate, Causes
<1>4. recon \in [Reconcilers -> {"idle", "cancelling"}]
  BY DEF Init
<1>5. raced \in [edited : BOOLEAN, unsaved : BOOLEAN] /\ revoked \in BOOLEAN
  BY DEF Init, NoRace
<1> QED
  BY <1>1, <1>2, <1>3, <1>4, <1>5 DEF Init, TypeOK, Entries

LEMMA IdleTypes == IdleFlow \in FlowRecord /\ IdleRequest \in RequestRecord
BY DEF IdleFlow, NoRead, FlowRecord, IdleRequest, RequestRecord, Entries

\* A pipeline changes its own flow, the orders, the switch, the position, the
\* loss and what the exchange holds; nothing of the wallets and the requests.
LEMMA PipelineType ==
  ASSUME TypeOK, NEW p \in Pipelines, Detect(p) \/ PipelineStep(p)
  PROVE  /\ HaltTypeOK' /\ flow' \in [Pipelines -> FlowRecord]
         /\ working' \in Nat /\ doubtful' \in Nat /\ net' \in Int /\ lost' \in Nat
         /\ venue' \in {"nothing", "maybe", "held"}
         /\ UNCHANGED <<requests, recon, wallet, row, raced, revoked, deployment>>
<1> USE DEF TypeOK, apiVars, worldVars, GoTo, Finish
<1> USE IdleTypes
<1>1. CASE Detect(p)
  BY ZenonT(40), <1>1 DEF Detect, FlowRecord, HaltTypeOK
<1>2. CASE LookUpWallet(p)
  <2>1. (wallet = "enabled") \in BOOLEAN
    OBVIOUS
  <2>2. CASE Finish(p)
    BY <1>2, <2>2 DEF LookUpWallet, HaltTypeOK
  <2>3. CASE ~Finish(p)
    <3> DEFINE f == [flow[p] EXCEPT !.pc = "found", !.enabled = (wallet = "enabled")]
    <3>1. f \in FlowRecord
      BY <2>1 DEF FlowRecord
    <3>2. flow' = [flow EXCEPT ![p] = f]
      BY <1>2, <2>3 DEF LookUpWallet
    <3> HIDE DEF f
    <3> QED
      BY <1>2, <3>1, <3>2, FlowWritten DEF LookUpWallet, HaltTypeOK
  <2> QED
    BY <2>2, <2>3
<1>3. CASE SizeCopy(p)
  <2>1. PICK source \in Sources, price \in Prices, exposure \in Exposures(net) :
          \/ Finish(p)
          \/ LET sized == Size(Wallet, source, price, SizingContext(exposure))
             IN  /\ sized.refusal = "none"
                 /\ flow' = [flow EXCEPT ![p] = [@ EXCEPT !.pc = "signalled",
                                                          !.quantity = sized.quantity,
                                                          !.price = price]]
    BY ONLY <1>3 DEF SizeCopy, Finish
  <2>2. flow' \in [Pipelines -> FlowRecord]
    <3>1. CASE Finish(p)
      BY <3>1
    <3>2. CASE ~Finish(p)
      <4> DEFINE sized == Size(Wallet, source, price, SizingContext(exposure))
                 f == [flow[p] EXCEPT !.pc = "signalled", !.quantity = sized.quantity,
                                      !.price = price]
      <4>1. sized.quantity \in Nat /\ flow' = [flow EXCEPT ![p] = f]
        BY <2>1, <3>2, SizedFacts
      <4> HIDE DEF sized
      <4>2. f \in FlowRecord
        BY <4>1, PriceType DEF FlowRecord
      <4> HIDE DEF f
      <4> QED
        BY <4>1, <4>2, FlowWritten
    <3> QED
      BY <3>1, <3>2
  <2> QED
    BY <1>3, <2>2 DEF SizeCopy, HaltTypeOK
<1>4. CASE NoBookNoCopy(p)
  BY <1>4 DEF NoBookNoCopy, HaltTypeOK
<1>5. CASE ReadPortfolio(p)
  <2>1. OpenCount \in Nat
    <3>1. IsFiniteSet(InFlight)
      BY CountAssumption, FS_Subset DEF InFlight
    <3> QED
      BY <3>1, FS_CardinalityType DEF OpenCount
  <2> QED
    BY ZenonT(40), <1>5, <2>1 DEF ReadPortfolio, FlowRecord, HaltTypeOK
<1>6. CASE CheckRisk(p)
  <2>1. PICK snap \in SnapsOf(p), book \in Books :
          LET verdict == Verdict(BreachesOf(p, snap, book))
          IN  flow' = [flow EXCEPT ![p] =
                         IF verdict = "approved"
                           THEN [IdleFlow EXCEPT !.pc = "approved",
                                                 !.quantity = flow[p].quantity]
                           ELSE [IdleFlow EXCEPT !.pc = "refused",
                                                 !.alarms = AutoEngages(verdict)]]
    BY <1>6 DEF CheckRisk
  <2> DEFINE alarms == AutoEngages(Verdict(BreachesOf(p, snap, book)))
             f == [IdleFlow EXCEPT !.pc = "approved", !.quantity = flow[p].quantity]
             g == [IdleFlow EXCEPT !.pc = "refused", !.alarms = alarms]
  <2>2. flow' = [flow EXCEPT ![p] = f] \/ flow' = [flow EXCEPT ![p] = g]
    BY <2>1
  <2>3. alarms \in BOOLEAN
    BY DEF AutoEngages
  <2> HIDE DEF alarms
  <2>4. f \in FlowRecord /\ g \in FlowRecord
    BY <2>3 DEF FlowRecord
  <2> HIDE DEF f, g
  <2>5. flow' \in [Pipelines -> FlowRecord]
    BY <2>2, <2>4, FlowWritten
  <2> QED
    BY <1>6, <2>5 DEF CheckRisk, HaltTypeOK
<1>7. CASE AfterRefusal(p)
  <2>1. [engaged |-> TRUE, by |-> "risk-engine"] \in [engaged : BOOLEAN, by : Parties]
    BY DEF Parties
  <2>2. HaltTypeOK'
    BY <1>7, <2>1 DEF AfterRefusal, Engage, HaltTypeOK
  <2> QED
    BY <1>7, <2>2 DEF AfterRefusal
<1>8. CASE Send(p)
  BY ZenonT(40), <1>8 DEF Send, FlowRecord, HaltTypeOK
<1>9. CASE Refused(p)
  BY <1>9 DEF Refused, HaltTypeOK
<1>10. ASSUME NEW q \in 1..flow[p].quantity, Executed(p, q)
       PROVE  /\ HaltTypeOK' /\ flow' \in [Pipelines -> FlowRecord]
              /\ working' \in Nat /\ doubtful' \in Nat /\ net' \in Int /\ lost' \in Nat
              /\ venue' \in {"nothing", "maybe", "held"}
              /\ UNCHANGED <<requests, recon, wallet, row, raced, revoked, deployment>>
  <2> DEFINE f == [flow[p] EXCEPT !.pc = "answered", !.quantity = q]
  <2>0. flow[p] \in FlowRecord /\ q \in Nat
    <3>1. flow[p].quantity \in Nat
      BY DEF FlowRecord
    <3> QED
      BY <3>1
  <2>1. f \in FlowRecord
    BY <2>0 DEF FlowRecord
  <2>2. flow' = [flow EXCEPT ![p] = f]
    BY <1>10 DEF Executed
  <2> HIDE DEF f
  <2>3. flow' \in [Pipelines -> FlowRecord]
    BY <2>1, <2>2, FlowWritten
  <2> QED
    BY <1>10, <2>3 DEF Executed, HaltTypeOK
<1>11. CASE Acknowledged(p)
  BY <1>11 DEF Acknowledged, HaltTypeOK
<1>12. CASE BookFill(p)
  <2>1. flow[p].quantity \in Nat
    BY DEF FlowRecord
  <2>2. net' \in Int /\ lost' \in Nat
    BY <1>12, <2>1, BoundsAssumption DEF BookFill, LossAfter
  <2> QED
    BY <1>12, <2>2 DEF BookFill, HaltTypeOK
<1> QED
  BY <1>1, <1>2, <1>3, <1>4, <1>5, <1>6, <1>7, <1>8, <1>9, <1>10, <1>11, <1>12
     DEF PipelineStep

\* A request changes its own record, the switch, the orders and the wallet.
LEMMA RequestWritten ==
  ASSUME requests \in [Handlers -> RequestRecord], NEW h \in Handlers,
         NEW r \in RequestRecord, requests' = [requests EXCEPT ![h] = r]
  PROVE  requests' \in [Handlers -> RequestRecord]
OBVIOUS

LEMMA EngagedType ==
  ASSUME HaltTypeOK, NEW by \in Parties, Engage(by) \/ ResetSwitch(by)
  PROVE  HaltTypeOK'
<1>1. /\ [engaged |-> TRUE, by |-> by] \in [engaged : BOOLEAN, by : Parties]
      /\ [engaged |-> FALSE, by |-> by] \in [engaged : BOOLEAN, by : Parties]
  OBVIOUS
<1> QED
  BY <1>1 DEF Engage, ResetSwitch, HaltTypeOK

LEMMA CancelledType == ASSUME TypeOK, CancelAll PROVE working' \in Nat
BY DEF TypeOK, CancelAll

LEMMA ApiType ==
  ASSUME TypeOK, NEW h \in Handlers, ApiStep(h)
  PROVE  /\ HaltTypeOK' /\ requests' \in [Handlers -> RequestRecord]
         /\ working' \in Nat
         /\ wallet' \in Entries /\ row' \in Entries /\ revoked' \in BOOLEAN
         /\ raced' \in [edited : BOOLEAN, unsaved : BOOLEAN]
         /\ UNCHANGED <<flow, doubtful, net, lost, recon, deployment, venue>>
<1> USE IdleTypes DEF TypeOK, tradeVars, worldVars
<1> "api" \in Parties
  BY DEF Parties
<1>1. CASE EngageByApi(h)
  <2>1. requests' \in [Handlers -> RequestRecord]
    BY <1>1 DEF EngageByApi, RequestRecord
  <2> QED
    BY <1>1, <2>1, EngagedType DEF EngageByApi
<1>2. CASE CancelByApi(h)
  <2>1. requests' \in [Handlers -> RequestRecord] /\ working' \in Nat
    BY <1>2, RequestWritten, CancelledType DEF CancelByApi
  <2> QED
    BY <1>2, <2>1 DEF CancelByApi, CancelAll, HaltTypeOK
<1>3. CASE ResetByApi(h)
  BY <1>3, EngagedType DEF ResetByApi, apiVars
<1>4. CASE EditWallet(h)
  <2> DEFINE adds == (wallet = "absent")
             r == [IdleRequest EXCEPT !.pc = "editing", !.adds = adds]
  <2>1. adds \in BOOLEAN /\ requests' = [requests EXCEPT ![h] = r]
    BY <1>4 DEF EditWallet
  <2> HIDE DEF adds
  <2>2. r \in RequestRecord
    BY <2>1 DEF RequestRecord
  <2> HIDE DEF r
  <2>3. requests' \in [Handlers -> RequestRecord]
    BY <2>1, <2>2, RequestWritten
  <2> QED
    BY <1>4, <2>3 DEF EditWallet, HaltTypeOK
<1>5. CASE RemoveWallet(h)
  <2>1. [IdleRequest EXCEPT !.pc = "saving"] \in RequestRecord
    BY DEF RequestRecord
  <2>2. requests' \in [Handlers -> RequestRecord]
    BY <1>5, <2>1, RequestWritten DEF RemoveWallet
  <2>3. raced' \in [edited : BOOLEAN, unsaved : BOOLEAN]
    <3> DEFINE edited == (\E g \in Handlers : requests[g].pc = "editing") \/ raced.edited
               unsaved == Unsaved(h)
    <3>1. edited \in BOOLEAN /\ unsaved \in BOOLEAN
      BY DEF Unsaved
    <3>2. raced' = [edited |-> edited, unsaved |-> unsaved]
      BY <1>5 DEF RemoveWallet
    <3> HIDE DEF edited, unsaved
    <3> QED
      BY <3>1, <3>2
  <2> QED
    BY <1>5, <2>2, <2>3 DEF RemoveWallet, HaltTypeOK, Entries
<1>6. CASE SaveWallet(h)
  <2>1. requests' \in [Handlers -> RequestRecord] /\ row' \in Entries
    BY <1>6, RequestWritten DEF SaveWallet, RequestRecord
  <2> QED
    BY <1>6, <2>1 DEF SaveWallet, HaltTypeOK
<1>7. CASE SaveFails(h)
  <2>1. requests' \in [Handlers -> RequestRecord]
    BY <1>7, RequestWritten DEF SaveFails
  <2>2. raced' \in [edited : BOOLEAN, unsaved : BOOLEAN]
    BY <1>7 DEF SaveFails
  <2> QED
    BY <1>7, <2>1, <2>2 DEF SaveFails, HaltTypeOK
<1>8. ASSUME NEW entry \in {"enabled", "disabled"}, UpsertWallet(h, entry)
      PROVE  /\ HaltTypeOK' /\ requests' \in [Handlers -> RequestRecord]
             /\ working' \in Nat
             /\ wallet' \in Entries /\ row' \in Entries /\ revoked' \in BOOLEAN
             /\ raced' \in [edited : BOOLEAN, unsaved : BOOLEAN]
             /\ UNCHANGED <<flow, doubtful, net, lost, recon, deployment, venue>>
  <2>1. [pc |-> "saving", entry |-> entry, adds |-> FALSE] \in RequestRecord
    BY DEF RequestRecord, Entries
  <2>2. requests' \in [Handlers -> RequestRecord]
    BY <1>8, <2>1, RequestWritten DEF UpsertWallet
  <2>3. revoked' \in BOOLEAN /\ wallet' \in Entries
    BY <1>8 DEF UpsertWallet, Entries
  <2>4. raced' \in [edited : BOOLEAN, unsaved : BOOLEAN]
    <3> DEFINE edited == raced.edited /\ revoked'
               unsaved == Unsaved(h)
    <3>1. edited \in BOOLEAN /\ unsaved \in BOOLEAN
      BY DEF Unsaved
    <3>2. raced' = [edited |-> edited, unsaved |-> unsaved]
      BY <1>8 DEF UpsertWallet
    <3> HIDE DEF edited, unsaved
    <3> QED
      BY <3>1, <3>2
  <2> QED
    BY <1>8, <2>2, <2>3, <2>4 DEF UpsertWallet, HaltTypeOK
<1> QED
  BY <1>1, <1>2, <1>3, <1>4, <1>5, <1>6, <1>7, <1>8 DEF ApiStep

WorldStep ==
  \/ \E r \in Reconcilers : Reconcile(r) \/ CancelByReconciler(r)
  \/ ExchangeExecutes \/ NewDay \/ Restart

LEMMA RestartType ==
  ASSUME TypeOK, Restart
  PROVE  /\ HaltTypeOK' /\ flow' = [p \in Pipelines |-> IdleFlow]
         /\ flow' \in [Pipelines -> FlowRecord]
         /\ requests' \in [Handlers -> RequestRecord]
         /\ recon' \in [Reconcilers -> {"idle", "cancelling"}]
         /\ working' = 0 /\ doubtful' = 0 /\ lost' = 0 /\ net' \in Int
         /\ wallet' \in Entries /\ row' = wallet'
         /\ venue' \in {"nothing", "maybe", "held"}
         /\ ~revoked' /\ revoked' \in BOOLEAN
         /\ raced' = NoRace /\ raced' \in [edited : BOOLEAN, unsaved : BOOLEAN]
         /\ deployment' = deployment
<1> USE IdleTypes DEF TypeOK, Restart
<1>1. HaltTypeOK'
  <2>1. halt' \in HaltAtStart
    OBVIOUS
  <2> QED
    BY <2>1, StartTypes DEF HaltTypeOK
<1>2. /\ flow' \in [Pipelines -> FlowRecord]
      /\ requests' \in [Handlers -> RequestRecord]
      /\ recon' \in [Reconcilers -> {"idle", "cancelling"}]
  OBVIOUS
<1>3. wallet' \in Entries /\ row' = wallet'
  BY DEF WalletsAtStart, Entries
<1>4. raced' \in [edited : BOOLEAN, unsaved : BOOLEAN]
  BY DEF NoRace
<1> QED
  BY <1>1, <1>2, <1>3, <1>4

LEMMA WorldType ==
  ASSUME TypeOK, WorldStep
  PROVE  /\ HaltTypeOK' /\ flow' \in [Pipelines -> FlowRecord]
         /\ requests' \in [Handlers -> RequestRecord]
         /\ recon' \in [Reconcilers -> {"idle", "cancelling"}]
         /\ working' \in Nat /\ doubtful' \in Nat /\ net' \in Int /\ lost' \in Nat
         /\ wallet' \in Entries /\ row' \in Entries
         /\ venue' \in {"nothing", "maybe", "held"}
         /\ raced' \in [edited : BOOLEAN, unsaved : BOOLEAN] /\ revoked' \in BOOLEAN
         /\ deployment' = deployment
<1> USE DEF tradeVars, apiVars, worldVars
<1>1. ASSUME NEW r \in Reconcilers, Reconcile(r)
      PROVE  HaltTypeOK' /\ recon' \in [Reconcilers -> {"idle", "cancelling"}]
  <2>1. "reconciler" \in Parties
    BY DEF Parties
  <2> QED
    BY <1>1, <2>1, EngagedType DEF Reconcile, TypeOK
<1>2. ASSUME NEW r \in Reconcilers, CancelByReconciler(r)
      PROVE  working' \in Nat /\ recon' \in [Reconcilers -> {"idle", "cancelling"}]
  BY <1>2, CancelledType DEF CancelByReconciler, TypeOK
<1>3. CASE \E r \in Reconcilers : Reconcile(r)
  BY <1>1, <1>3 DEF Reconcile, TypeOK
<1>4. CASE \E r \in Reconcilers : CancelByReconciler(r)
  BY <1>2, <1>4 DEF CancelByReconciler, CancelAll, TypeOK, HaltTypeOK
<1>5. CASE ExchangeExecutes
  BY <1>5 DEF ExchangeExecutes, TypeOK, HaltTypeOK
<1>6. CASE NewDay
  BY <1>6 DEF NewDay, TypeOK, HaltTypeOK
<1>7. CASE Restart
  BY <1>7, RestartType DEF Entries
<1> QED
  BY <1>3, <1>4, <1>5, <1>6, <1>7 DEF WorldStep

\* Steps by who takes them.
LEMMA StepCases ==
  Step <=> \/ \E p \in Pipelines : Detect(p) \/ PipelineStep(p)
           \/ \E h \in Handlers : ApiStep(h)
           \/ WorldStep
BY DEF Step, WorldStep

LEMMA LateType ==
  ASSUME TypeOK, Chronicle
  PROVE  late' \in [Pipelines -> [Causes -> 0..2]]
<1> DEFINE f(p, c) == IF Stands(c)'
               THEN LesserOf(late[p][c] + (IF SentNow(p) THEN 1 ELSE 0), 2)
               ELSE 0
<1>1. ASSUME NEW p \in Pipelines, NEW c \in Causes PROVE f(p, c) \in 0..2
  <2>1. late[p][c] \in 0..2
    BY DEF TypeOK
  <2> QED
    BY <2>1 DEF LesserOf
<1>2. late' = [p \in Pipelines |-> [c \in Causes |-> f(p, c)]]
  BY DEF Chronicle
<1> HIDE DEF f
<1> QED
  BY <1>1, <1>2

LEMMA NextType == TypeOK /\ [Next]_vars => TypeOK'
<1> SUFFICES ASSUME TypeOK, [Next]_vars PROVE TypeOK'
  OBVIOUS
<1>1. CASE UNCHANGED vars
  BY <1>1 DEF vars, TypeOK, HaltTypeOK
<1>2. CASE Step /\ Chronicle
  <2> late' \in [Pipelines -> [Causes -> 0..2]]
    BY <1>2, LateType
  <2>1. ASSUME NEW p \in Pipelines, Detect(p) \/ PipelineStep(p) PROVE TypeOK'
    BY <2>1, PipelineType DEF TypeOK
  <2>2. ASSUME NEW h \in Handlers, ApiStep(h) PROVE TypeOK'
    BY <2>2, ApiType DEF TypeOK
  <2>3. CASE WorldStep
    BY <2>3, WorldType DEF TypeOK
  <2> QED
    BY <1>2, <2>1, <2>2, <2>3, StepCases
<1> QED
  BY <1>1, <1>2 DEF Next

(***************************************************************************)
(* Counters and positions keep their types through every await of a        *)
(* pipeline, request, tick and restart: in particular no count of open     *)
(* orders (OrderManager::open_order_count) goes below zero.                *)
(***************************************************************************)
THEOREM TypeCorrect == Spec => []TypeOK
<1> QED
  BY InitType, NextType, PTL DEF Spec

(***************************************************************************)
(* How a pipeline gets from one point to the next, and on what condition.  *)
(***************************************************************************)
Move(p) ==
  \/ flow[p].pc = "idle" /\ flow'[p].pc = "recorded" /\ wallet = "enabled" /\ Runs(p)
  \/ flow[p].pc = "recorded" /\ flow'[p].pc \in {"idle", "found"}
  \/ flow[p].pc = "found" /\ flow'[p].pc = "idle"
  \/ /\ flow[p].pc = "found" /\ flow'[p].pc = "signalled"
     /\ lost < Limits.maxDailyLoss /\ flow'[p].price \in Prices
  \/ /\ flow[p].pc = "signalled" /\ flow'[p].pc = "read"
     /\ flow'[p].read.lost = lost /\ flow'[p].read.open = OpenCount
     /\ flow'[p].price = flow[p].price
  \/ /\ flow[p].pc = "read" /\ flow'[p].pc = "approved"
     /\ ~halt.engaged /\ flow[p].read.open < Limits.maxOpen
  \/ /\ flow[p].pc = "read" /\ flow'[p].pc = "refused"
     /\ flow'[p].alarms => flow[p].read.lost > Limits.maxDailyLoss
  \/ flow[p].pc = "refused" /\ flow'[p].pc = "idle"
  \/ flow[p].pc = "approved" /\ flow'[p].pc = "sent"
  \/ flow[p].pc = "sent" /\ flow'[p].pc \in {"idle", "answered"}
  \/ flow[p].pc = "answered" /\ flow'[p].pc = "idle"

LEMMA PipelineMoves ==
  ASSUME TypeOK, NEW p \in Pipelines, Detect(p) \/ PipelineStep(p)
  PROVE  Move(p) /\ \A q \in Pipelines \ {p} : flow'[q] = flow[q]
<1> USE DEF GoTo, Finish
<1> p \in DOMAIN flow /\ flow \in [Pipelines -> FlowRecord]
  BY DEF TypeOK
<1> IdleFlow.pc = "idle"
  BY DEF IdleFlow
<1>1. CASE Detect(p)
  BY <1>1 DEF Detect, Move, FlowRecord
<1>2. CASE LookUpWallet(p)
  BY ZenonT(40), <1>2 DEF LookUpWallet, Move, FlowRecord
<1>3. CASE SizeCopy(p)
  <2>1. PICK source \in Sources, price \in Prices, exposure \in Exposures(net) :
          LET sized == Size(Wallet, source, price, SizingContext(exposure))
          IN  \/ Finish(p)
              \/ /\ sized.refusal = "none"
                 /\ flow' = [flow EXCEPT ![p] = [@ EXCEPT !.pc = "signalled",
                                                          !.quantity = sized.quantity,
                                                          !.price = price]]
    BY <1>3 DEF SizeCopy
  <2> DEFINE sized == Size(Wallet, source, price, SizingContext(exposure))
  <2>2. CASE Finish(p)
    BY <1>3, <2>2 DEF SizeCopy, Move
  <2>3. CASE ~Finish(p)
    <3>1. lost < Limits.maxDailyLoss
      BY <2>1, <2>3, SizedFacts
    <3>2. flow' = [flow EXCEPT ![p] = [@ EXCEPT !.pc = "signalled",
                                                !.quantity = sized.quantity,
                                                !.price = price]]
      BY <2>1, <2>3
    <3> HIDE DEF sized
    <3>3. flow[p].pc = "found" /\ flow[p] \in FlowRecord
      BY <1>3 DEF SizeCopy
    <3>4. flow'[p] = [flow[p] EXCEPT !.pc = "signalled",
                                     !.quantity = sized.quantity,
                                     !.price = price]
      BY <3>2
    <3>5. flow'[p].pc = "signalled" /\ flow'[p].price = price
      BY <3>3, <3>4 DEF FlowRecord
    <3>6. \A q \in Pipelines \ {p} : flow'[q] = flow[q]
      BY <3>2
    <3>7. Move(p)
      BY <3>1, <3>3, <3>5 DEF Move
    <3> QED
      BY <3>6, <3>7
  <2> QED
    BY <2>2, <2>3
<1>4. CASE NoBookNoCopy(p)
  BY <1>4 DEF NoBookNoCopy, Move
<1>5. CASE ReadPortfolio(p)
  BY <1>5 DEF ReadPortfolio, Move, FlowRecord
<1>6. CASE CheckRisk(p)
  <2>1. PICK snap \in SnapsOf(p), book \in Books :
          LET verdict == Verdict(BreachesOf(p, snap, book))
          IN  flow' = [flow EXCEPT ![p] =
                         IF verdict = "approved"
                           THEN [IdleFlow EXCEPT !.pc = "approved",
                                                 !.quantity = flow[p].quantity]
                           ELSE [IdleFlow EXCEPT !.pc = "refused",
                                                 !.alarms = AutoEngages(verdict)]]
    BY <1>6 DEF CheckRisk
  <2> DEFINE verdict == Verdict(BreachesOf(p, snap, book))
  <2>2. /\ verdict = "approved" => ~halt.engaged /\ flow[p].read.open < Limits.maxOpen
        /\ AutoEngages(verdict) => flow[p].read.lost > Limits.maxDailyLoss
    BY CheckedFacts
  <2> HIDE DEF verdict
  <2>3. CASE verdict = "approved"
    BY <1>6, <2>1, <2>2, <2>3 DEF CheckRisk, Move, IdleFlow, verdict
  <2>4. CASE verdict # "approved"
    <3>1. flow'[p].pc = "refused" /\ (flow'[p].alarms = AutoEngages(verdict))
      BY <2>1, <2>4 DEF IdleFlow, verdict
    <3> QED
      BY <1>6, <2>1, <2>2, <3>1 DEF CheckRisk, Move
  <2> QED
    BY <2>3, <2>4
<1>7. CASE AfterRefusal(p)
  BY <1>7 DEF AfterRefusal, Move
<1>8. CASE Send(p)
  BY <1>8 DEF Send, Move, FlowRecord
<1>9. CASE Refused(p)
  BY <1>9 DEF Refused, Move
<1>10. ASSUME NEW q \in 1..flow[p].quantity, Executed(p, q)
       PROVE  Move(p) /\ \A r \in Pipelines \ {p} : flow'[r] = flow[r]
  BY <1>10 DEF Executed, Move, FlowRecord
<1>11. CASE Acknowledged(p)
  BY <1>11 DEF Acknowledged, Move
<1>12. CASE BookFill(p)
  BY <1>12 DEF BookFill, Move
<1> QED
  BY <1>1, <1>2, <1>3, <1>4, <1>5, <1>6, <1>7, <1>8, <1>9, <1>10, <1>11, <1>12
     DEF PipelineStep

\* Nothing else moves a pipeline, but a restart.
LEMMA FlowSteps ==
  ASSUME TypeOK, Step, NEW p \in Pipelines
  PROVE  Move(p) \/ flow'[p] = flow[p] \/ (flow'[p] = IdleFlow /\ Restart)
<1>1. ASSUME NEW q \in Pipelines, Detect(q) \/ PipelineStep(q)
      PROVE  Move(p) \/ flow'[p] = flow[p]
  BY <1>1, PipelineMoves
<1>2. ASSUME NEW h \in Handlers, ApiStep(h) PROVE flow'[p] = flow[p]
  BY <1>2, ApiType
<1>3. CASE WorldStep
  <2>1. CASE Restart
    BY <2>1, RestartType
  <2>2. CASE ~Restart
    BY <1>3, <2>2 DEF WorldStep, Reconcile, CancelByReconciler, CancelAll,
       ExchangeExecutes, NewDay, tradeVars
  <2> QED
    BY <2>1, <2>2
<1> QED
  BY <1>1, <1>2, <1>3, StepCases

LEMMA LateCount ==
  ASSUME TypeOK, Chronicle, NEW p \in Pipelines, NEW c \in Causes
  PROVE  /\ late[p][c] \in Nat /\ late'[p][c] \in Nat
         /\ late'[p][c] > 0 => Stands(c)'
         /\ ~SentNow(p) => late'[p][c] <= late[p][c]
         /\ late'[p][c] <= late[p][c] + 1
<1>1. late[p][c] \in 0..2
  BY DEF TypeOK
<1>2. late'[p][c] = IF Stands(c)'
                      THEN LesserOf(late[p][c] + (IF SentNow(p) THEN 1 ELSE 0), 2)
                      ELSE 0
  BY DEF Chronicle
<1> QED
  BY <1>1, <1>2 DEF LesserOf

(***************************************************************************)
(* At most one order of a pipeline passes a cause to stop.                 *)
(***************************************************************************)

\* A pipeline that sent one while halted has none that is approved, and while
\* the halt lasts none is approved again.
HaltCount ==
  \A p \in Pipelines :
    /\ late[p]["halted"] <= 1
    /\ late[p]["halted"] > 0 => halt.engaged /\ flow[p].pc # "approved"

LEMMA HaltCountNext == TypeOK /\ HaltCount /\ [Next]_vars => HaltCount'
<1> SUFFICES ASSUME TypeOK, HaltCount, [Next]_vars PROVE HaltCount'
  OBVIOUS
<1>1. CASE UNCHANGED vars
  BY <1>1 DEF vars, HaltCount
<1>2. CASE Step /\ Chronicle
  <2> SUFFICES ASSUME NEW p \in Pipelines
               PROVE  /\ late'[p]["halted"] <= 1
                      /\ late'[p]["halted"] > 0 =>
                           halt'.engaged /\ flow'[p].pc # "approved"
    BY DEF HaltCount
  <2>0. Move(p) \/ flow'[p] = flow[p] \/ flow'[p].pc = "idle"
    BY <1>2, FlowSteps DEF IdleFlow
  <2>1. /\ late[p]["halted"] \in Nat /\ late'[p]["halted"] \in Nat
        /\ late'[p]["halted"] > 0 => halt'.engaged
        /\ ~SentNow(p) => late'[p]["halted"] <= late[p]["halted"]
        /\ late'[p]["halted"] <= late[p]["halted"] + 1
    BY <1>2, LateCount DEF Causes, Stands
  <2>2. CASE late[p]["halted"] = 0
    BY <2>1, <2>2 DEF SentNow
  <2>3. CASE late[p]["halted"] > 0
    <3>1. halt.engaged /\ flow[p].pc # "approved" /\ late[p]["halted"] <= 1
      BY <2>3 DEF HaltCount
    <3>2. flow'[p].pc # "approved"
      BY <3>1, <2>0 DEF Move
    <3> QED
      BY <2>1, <3>1, <3>2 DEF SentNow
  <2> QED
    BY <2>1, <2>2, <2>3
<1> QED
  BY <1>1, <1>2 DEF Next

(***************************************************************************)
(* The kill switch is read in RiskEngine::check and not again before       *)
(* submit.  However often it is engaged and reset, each on_source_trade    *)
(* task sends at most one order after a halt and before the next reset:    *)
(* the one approved before it.                                             *)
(***************************************************************************)
THEOREM HaltLetsOneThrough == Spec => []AtMostOneAfterHalt
<1>1. Init => HaltCount
  BY DEF Init, HaltCount, NoneLate, Causes
<1>2. HaltCount => AtMostOneAfterHalt
  BY DEF HaltCount, AtMostOneAfterHalt
<1> QED
  BY <1>1, <1>2, HaltCountNext, TypeCorrect, PTL DEF Spec

\* A pipeline that sent one with the budget spent has none that was sized
\* before, and until the next day none is sized again.
BudgetCount ==
  \A p \in Pipelines :
    /\ late[p]["spent"] <= 1
    /\ late[p]["spent"] > 0 => /\ lost >= Limits.maxDailyLoss
                               /\ flow[p].pc \notin {"signalled", "read", "approved"}

LEMMA BudgetCountNext == TypeOK /\ BudgetCount /\ [Next]_vars => BudgetCount'
<1> SUFFICES ASSUME TypeOK, BudgetCount, [Next]_vars PROVE BudgetCount'
  OBVIOUS
<1>1. CASE UNCHANGED vars
  BY <1>1 DEF vars, BudgetCount
<1>2. CASE Step /\ Chronicle
  <2> SUFFICES ASSUME NEW p \in Pipelines
               PROVE  /\ late'[p]["spent"] <= 1
                      /\ late'[p]["spent"] > 0 =>
                           /\ lost' >= Limits.maxDailyLoss
                           /\ flow'[p].pc \notin {"signalled", "read", "approved"}
    BY DEF BudgetCount
  <2>0. Move(p) \/ flow'[p] = flow[p] \/ flow'[p].pc = "idle"
    BY <1>2, FlowSteps DEF IdleFlow
  <2>1. /\ late[p]["spent"] \in Nat /\ late'[p]["spent"] \in Nat
        /\ late'[p]["spent"] > 0 => lost' >= Limits.maxDailyLoss
        /\ ~SentNow(p) => late'[p]["spent"] <= late[p]["spent"]
        /\ late'[p]["spent"] <= late[p]["spent"] + 1
    BY <1>2, LateCount DEF Causes, Stands
  <2>2. CASE late[p]["spent"] = 0
    BY <2>1, <2>2 DEF SentNow
  <2>3. CASE late[p]["spent"] > 0
    <3>1. /\ ~(lost < Limits.maxDailyLoss) /\ late[p]["spent"] <= 1
          /\ flow[p].pc \notin {"signalled", "read", "approved"}
      BY <2>3, LimitsAssumption DEF BudgetCount, TypeOK
    <3>2. flow'[p].pc \notin {"signalled", "read", "approved"}
      BY <3>1, <2>0 DEF Move
    <3> QED
      BY <2>1, <3>1, <3>2 DEF SentNow
  <2> QED
    BY <2>1, <2>2, <2>3
<1> QED
  BY <1>1, <1>2 DEF Next

(***************************************************************************)
(* SizingEngine::size refuses when the budget of the day is spent.  So     *)
(* each on_source_trade task sends at most one order more on a day whose   *)
(* loss limit is reached, kill switch reset or not: the one sized before.  *)
(***************************************************************************)
THEOREM BudgetLetsOneThrough == Spec => []AtMostOneAfterBudget
<1>1. Init => BudgetCount
  BY DEF Init, BudgetCount, NoneLate, Causes
<1>2. BudgetCount => AtMostOneAfterBudget
  BY DEF BudgetCount, AtMostOneAfterBudget
<1> QED
  BY <1>1, <1>2, BudgetCountNext, TypeCorrect, PTL DEF Spec

(***************************************************************************)
(* Wallets.                                                                *)
(***************************************************************************)

\* A wallet that was deleted, with no update under way that read it before, is
\* not tracked, and an edit under way adds it.
RemovedIsAbsent ==
  revoked /\ ~raced.edited =>
    /\ wallet = "absent"
    /\ \A h \in Handlers : requests[h].pc = "editing" => requests[h].adds

LEMMA RemovedIsAbsentNext ==
  ASSUME TypeOK, Step
  PROVE  /\ raced.edited /\ revoked' => raced'.edited
         /\ RemovedIsAbsent => RemovedIsAbsent'
<1> DEFINE Goal == /\ raced.edited /\ revoked' => raced'.edited
                   /\ RemovedIsAbsent => RemovedIsAbsent'
<1> USE DEF RemovedIsAbsent, TypeOK, apiVars
<1>0. ASSUME UNCHANGED <<wallet, requests, raced, revoked>> PROVE Goal
  BY <1>0
<1>1. ASSUME NEW p \in Pipelines, Detect(p) \/ PipelineStep(p) PROVE Goal
  BY <1>0, <1>1, PipelineType
<1>2. ASSUME NEW h \in Handlers, ApiStep(h) PROVE Goal
  <2> requests \in [Handlers -> RequestRecord]
    OBVIOUS
  <2>1. CASE EngageByApi(h)
    BY SMTT(30), <2>1 DEF EngageByApi, RequestRecord
  <2>2. CASE CancelByApi(h)
    BY <2>2 DEF CancelByApi, IdleRequest
  <2>3. CASE ResetByApi(h)
    BY <2>3 DEF ResetByApi
  <2>4. CASE EditWallet(h)
    <3> DEFINE adds == (wallet = "absent")
    <3>1. requests' = [requests EXCEPT ![h] = [IdleRequest EXCEPT !.pc = "editing",
                                                                  !.adds = adds]]
      BY <2>4 DEF EditWallet
    <3>2. wallet = "absent" => adds = TRUE
      OBVIOUS
    <3> HIDE DEF adds
    <3>3. wallet = "absent" => requests'[h].adds
      BY <3>1, <3>2 DEF IdleRequest
    <3>4. \A g \in Handlers \ {h} : requests'[g] = requests[g]
      BY <3>1
    <3> QED
      BY <2>4, <3>3, <3>4 DEF EditWallet
  <2>5. CASE RemoveWallet(h)
    <3> DEFINE edited == (\E g \in Handlers : requests[g].pc = "editing") \/ raced.edited
               unsaved == Unsaved(h)
    <3>1. raced' = [edited |-> edited, unsaved |-> unsaved]
      BY <2>5 DEF RemoveWallet
    <3> HIDE DEF unsaved
    <3>2. raced'.edited <=> edited
      BY <3>1
    <3>3. \A g \in Handlers : requests'[g].pc = "editing" => requests[g].pc = "editing"
      BY <2>5 DEF RemoveWallet, IdleRequest
    <3> QED
      BY <2>5, <3>2, <3>3 DEF RemoveWallet
  <2>6. CASE SaveWallet(h)
    BY <2>6 DEF SaveWallet, IdleRequest
  <2>7. CASE SaveFails(h)
    BY <2>7 DEF SaveFails, IdleRequest
  <2>8. ASSUME NEW entry \in {"enabled", "disabled"}, UpsertWallet(h, entry)
        PROVE  Goal
    <3> DEFINE edited == raced.edited /\ revoked'
               unsaved == Unsaved(h)
    <3>1. raced' = [edited |-> edited, unsaved |-> unsaved]
      BY <2>8 DEF UpsertWallet
    <3> HIDE DEF unsaved
    <3>2. raced'.edited <=> raced.edited /\ revoked'
      BY <3>1
    <3>3. requests[h].pc = "editing" /\ (revoked' <=> revoked /\ ~requests[h].adds)
      BY <2>8 DEF UpsertWallet
    <3> QED
      BY <3>2, <3>3
  <2> QED
    BY <1>2, <2>1, <2>2, <2>3, <2>4, <2>5, <2>6, <2>7, <2>8 DEF ApiStep
<1>3. CASE WorldStep
  <2>1. CASE Restart
    BY <2>1, RestartType
  <2>2. CASE ~Restart
    BY <1>0, <1>3, <2>2 DEF WorldStep, Reconcile, CancelByReconciler, ExchangeExecutes,
       NewDay
  <2> QED
    BY <2>1, <2>2
<1> QED
  BY <1>1, <1>2, <1>3, StepCases

\* A pipeline that sent an order of a deleted wallet holds no trade of it.
RemovalCount ==
  \A p \in Pipelines :
    late[p]["removed"] > 0 =>
      /\ revoked
      /\ ~raced.edited =>
           /\ late[p]["removed"] <= 1
           /\ flow[p].pc \notin {"recorded", "found", "signalled", "read", "approved"}

LEMMA RemovalCountNext ==
  TypeOK /\ RemovedIsAbsent /\ RemovalCount /\ [Next]_vars => RemovalCount'
<1> SUFFICES ASSUME TypeOK, RemovedIsAbsent, RemovalCount, [Next]_vars
             PROVE  RemovalCount'
  OBVIOUS
<1>1. CASE UNCHANGED vars
  BY <1>1 DEF vars, RemovalCount
<1>2. CASE Step /\ Chronicle
  <2> SUFFICES ASSUME NEW p \in Pipelines, late'[p]["removed"] > 0
               PROVE  /\ revoked'
                      /\ ~raced'.edited =>
                           /\ late'[p]["removed"] <= 1
                           /\ flow'[p].pc \notin {"recorded", "found", "signalled",
                                                  "read", "approved"}
    BY DEF RemovalCount
  <2>0. Move(p) \/ flow'[p] = flow[p] \/ flow'[p].pc = "idle"
    BY <1>2, FlowSteps DEF IdleFlow
  <2>1. /\ late[p]["removed"] \in Nat /\ late'[p]["removed"] \in Nat
        /\ revoked'
        /\ ~SentNow(p) => late'[p]["removed"] <= late[p]["removed"]
        /\ late'[p]["removed"] <= late[p]["removed"] + 1
    BY <1>2, LateCount DEF Causes, Stands
  <2> SUFFICES ASSUME ~raced'.edited
               PROVE  /\ late'[p]["removed"] <= 1
                      /\ flow'[p].pc \notin {"recorded", "found", "signalled",
                                             "read", "approved"}
    BY <2>1
  <2>2. ~raced.edited
    BY <1>2, <2>1, RemovedIsAbsentNext
  <2>3. CASE late[p]["removed"] = 0
    BY <2>1, <2>3 DEF SentNow
  <2>4. CASE late[p]["removed"] > 0
    <3>1. /\ late[p]["removed"] <= 1 /\ wallet = "absent"
          /\ flow[p].pc \notin {"recorded", "found", "signalled", "read", "approved"}
      BY <2>2, <2>4 DEF RemovalCount, RemovedIsAbsent
    <3>2. flow'[p].pc \notin {"recorded", "found", "signalled", "read", "approved"}
      BY <3>1, <2>0 DEF Move
    <3> QED
      BY <2>1, <3>1, <3>2 DEF SentNow
  <2> QED
    BY <2>1, <2>3, <2>4
<1> QED
  BY <1>1, <1>2 DEF Next

LEMMA RemovedStaysAbsent == TypeOK /\ RemovedIsAbsent /\ [Next]_vars => RemovedIsAbsent'
<1>1. TypeOK /\ RemovedIsAbsent /\ UNCHANGED vars => RemovedIsAbsent'
  BY DEF vars, RemovedIsAbsent
<1> QED
  BY <1>1, RemovedIsAbsentNext DEF Next

(***************************************************************************)
(* After delete_wallet each on_source_trade task sends at most one more    *)
(* copy of the wallet, unless an update_wallet that had cloned it before   *)
(* puts it back with its upsert.                                           *)
(***************************************************************************)
THEOREM RemovalLetsOneThrough == Spec => []AtMostOneAfterRemoval
<1>1. Init => RemovedIsAbsent /\ RemovalCount
  BY DEF Init, RemovedIsAbsent, RemovalCount, NoneLate, Causes
<1>2. TypeOK /\ RemovalCount => AtMostOneAfterRemoval
  <2> SUFFICES ASSUME TypeOK, RemovalCount, NEW p \in Pipelines, ~raced.edited
               PROVE  late[p]["removed"] <= 1
    BY DEF AtMostOneAfterRemoval
  <2>1. late[p]["removed"] \in 0..2
    BY DEF TypeOK, Causes
  <2> QED
    BY <2>1 DEF RemovalCount
<1> QED
  BY <1>1, <1>2, RemovedStaysAbsent, RemovalCountNext, TypeCorrect, PTL DEF Spec

\* With no write lost, the one request that is saving saves what is tracked.
SavesWhatIsTracked ==
  ~raced.unsaved =>
    /\ \A h, g \in Handlers :
         requests[h].pc = "saving" /\ requests[g].pc = "saving" => h = g
    /\ \A h \in Handlers : requests[h].pc = "saving" => requests[h].entry = wallet
    /\ wallet = row \/ \E h \in Handlers : requests[h].pc = "saving"

LEMMA SavesWhatIsTrackedNext ==
  TypeOK /\ SavesWhatIsTracked /\ [Next]_vars => SavesWhatIsTracked'
<1> SUFFICES ASSUME TypeOK, SavesWhatIsTracked, [Next]_vars PROVE SavesWhatIsTracked'
  OBVIOUS
<1> USE DEF SavesWhatIsTracked, TypeOK, apiVars
<1>0. CASE UNCHANGED <<wallet, row, requests, raced>>
  BY <1>0
<1>1. ASSUME NEW p \in Pipelines, Detect(p) \/ PipelineStep(p)
      PROVE  SavesWhatIsTracked'
  BY <1>0, <1>1, PipelineType
<1>2. ASSUME NEW h \in Handlers, ApiStep(h) PROVE SavesWhatIsTracked'
  <2> requests \in [Handlers -> RequestRecord]
    OBVIOUS
  <2>1. CASE EngageByApi(h)
    <3>1. requests' = [requests EXCEPT ![h].pc = "cancelling"] \/ requests' = requests
      BY <2>1 DEF EngageByApi
    <3>2. \A g \in Handlers : /\ requests'[g].pc = "saving" <=> requests[g].pc = "saving"
                              /\ requests'[g].entry = requests[g].entry
      BY <2>1, <3>1 DEF EngageByApi, RequestRecord
    <3> QED
      BY <2>1, <3>2 DEF EngageByApi
  <2>2. CASE CancelByApi(h)
    BY <2>2 DEF CancelByApi, IdleRequest
  <2>3. CASE ResetByApi(h)
    BY <2>3 DEF ResetByApi
  <2>4. CASE EditWallet(h)
    <3> DEFINE r == [IdleRequest EXCEPT !.pc = "editing", !.adds = (wallet = "absent")]
    <3>1. requests' = [requests EXCEPT ![h] = r] /\ r.pc = "editing"
      BY <2>4 DEF EditWallet, IdleRequest
    <3> HIDE DEF r
    <3>2. \A g \in Handlers : /\ requests'[g].pc = "saving" <=> requests[g].pc = "saving"
                              /\ requests'[g].pc = "saving" =>
                                   requests'[g].entry = requests[g].entry
      BY <2>4, <3>1 DEF EditWallet
    <3> QED
      BY <2>4, <3>2 DEF EditWallet
  <2>5. CASE RemoveWallet(h)
    <3> DEFINE edited == (\E g \in Handlers : requests[g].pc = "editing") \/ raced.edited
    <3>0. raced' = [edited |-> edited, unsaved |-> Unsaved(h)]
      BY <2>5 DEF RemoveWallet
    <3> HIDE DEF edited
    <3>1. /\ requests'[h].pc = "saving" /\ requests'[h].entry = "absent"
          /\ \A g \in Handlers \ {h} : requests'[g] = requests[g]
          /\ wallet' = "absent" /\ (raced'.unsaved <=> Unsaved(h))
      BY <2>5, <3>0 DEF RemoveWallet, IdleRequest
    <3> QED
      BY <3>1 DEF Unsaved
  <2>6. CASE SaveWallet(h)
    <3>1. /\ requests[h].pc = "saving" /\ requests'[h].pc = "idle"
          /\ \A g \in Handlers \ {h} : requests'[g] = requests[g]
          /\ row' = requests[h].entry /\ UNCHANGED <<wallet, raced>>
      BY <2>6 DEF SaveWallet, IdleRequest
    <3> QED
      BY <3>1
  <2>7. CASE SaveFails(h)
    BY <2>7 DEF SaveFails
  <2>8. ASSUME NEW entry \in {"enabled", "disabled"}, UpsertWallet(h, entry)
        PROVE  SavesWhatIsTracked'
    <3> DEFINE edited == raced.edited /\ revoked'
    <3>0. raced' = [edited |-> edited, unsaved |-> Unsaved(h)]
      BY <2>8 DEF UpsertWallet
    <3> HIDE DEF edited
    <3>1. /\ requests'[h].pc = "saving" /\ requests'[h].entry = entry
          /\ \A g \in Handlers \ {h} : requests'[g] = requests[g]
          /\ wallet' = entry /\ (raced'.unsaved <=> Unsaved(h))
      BY <2>8, <3>0 DEF UpsertWallet
    <3> QED
      BY <3>1 DEF Unsaved
  <2> QED
    BY <1>2, <2>1, <2>2, <2>3, <2>4, <2>5, <2>6, <2>7, <2>8 DEF ApiStep
<1>3. CASE WorldStep
  <2>1. CASE Restart
    <3>1. row' = wallet' /\ \A h \in Handlers : requests'[h].pc = "idle"
      BY <2>1, RestartType DEF Restart, IdleRequest
    <3> QED
      BY <3>1
  <2>2. CASE ~Restart
    BY <1>0, <1>3, <2>2 DEF WorldStep, Reconcile, CancelByReconciler, ExchangeExecutes,
       NewDay
  <2> QED
    BY <2>1, <2>2
<1>4. CASE UNCHANGED vars
  BY <1>0, <1>4 DEF vars
<1> QED
  BY <1>1, <1>2, <1>3, <1>4, StepCases DEF Next

(***************************************************************************)
(* The wallet in the tracker and its row in wallets agree once no request  *)
(* is saving, across restarts too, unless a write failed or a request      *)
(* began to save while another one was saving (handlers.rs, main.rs).      *)
(***************************************************************************)
THEOREM RegistryIsSaved == Spec => []RegistryAgrees
<1>1. Init => SavesWhatIsTracked
  BY DEF Init, SavesWhatIsTracked, IdleRequest
<1>2. SavesWhatIsTracked => RegistryAgrees
  BY DEF SavesWhatIsTracked, RegistryAgrees
<1> QED
  BY <1>1, <1>2, SavesWhatIsTrackedNext, TypeCorrect, PTL DEF Spec

(***************************************************************************)
(* The limit on open orders.                                               *)
(***************************************************************************)

\* Only pipelines that run are at work.
OnlyDeployedWork == \A p \in Pipelines : flow[p].pc # "idle" => p \in Deployed

LEMMA OnlyDeployedWorkNext ==
  TypeOK /\ OnlyDeployedWork /\ [Next]_vars
    => OnlyDeployedWork' /\ Deployed' = Deployed
<1> SUFFICES ASSUME TypeOK, OnlyDeployedWork, [Next]_vars
             PROVE  OnlyDeployedWork' /\ Deployed' = Deployed
  OBVIOUS
<1>1. CASE UNCHANGED vars
  BY <1>1 DEF vars, OnlyDeployedWork, Deployed, Runs
<1>2. CASE Step
  <2>1. deployment' = deployment
    BY <1>2, PipelineType, ApiType, WorldType, StepCases
  <2>2. Deployed' = Deployed
    BY <2>1 DEF Deployed, Runs
  <2>3. ASSUME NEW p \in Pipelines, flow'[p].pc # "idle" PROVE p \in Deployed
    <3>1. Move(p) \/ flow'[p] = flow[p]
      BY <1>2, <2>3, FlowSteps DEF IdleFlow
    <3>2. flow[p].pc # "idle" \/ Runs(p)
      BY <2>3, <3>1 DEF Move
    <3> QED
      BY <3>2 DEF OnlyDeployedWork, Deployed
  <2> QED
    BY <2>2, <2>3 DEF OnlyDeployedWork
<1> QED
  BY <1>1, <1>2 DEF Next

\* The pipelines that hold a slot or read that there was one.
Claims ==
  {p \in Pipelines : \/ flow[p].pc \in {"approved", "sent"}
                     \/ flow[p].pc = "read" /\ flow[p].read.open < Limits.maxOpen}

SlotsAreClaimed ==
  working + doubtful + Cardinality(Claims)
    <= Limits.maxOpen + Cardinality(Deployed) - 1

LEMMA NatSumType == \A a, b \in Nat : a + b \in Nat
OBVIOUS

LEMMA SumGrows == \A a, b, c \in Nat : a <= b => a + c <= b + c
OBVIOUS

\* An order leaves its pipeline with at most the one slot it had in flight.
LEMMA SlotHandedOver ==
  ASSUME TypeOK, Step
  PROVE  \/ working' + doubtful' <= working + doubtful
         \/ /\ working' + doubtful' <= working + doubtful + 1
            /\ \E p \in Pipelines : /\ flow[p].pc = "sent"
                                    /\ flow'[p].pc \in {"idle", "answered"}
<1> USE DEF TypeOK, apiVars, worldVars, tradeVars
<1>1. ASSUME NEW p \in Pipelines, Detect(p) \/ PipelineStep(p),
             UNCHANGED <<working, doubtful>>
      PROVE  working' + doubtful' <= working + doubtful
  BY <1>1
<1>2. ASSUME NEW p \in Pipelines, Detect(p) \/ PipelineStep(p),
             ~UNCHANGED <<working, doubtful>>
      PROVE  /\ working' + doubtful' <= working + doubtful + 1
             /\ flow[p].pc = "sent" /\ flow'[p].pc \in {"idle", "answered"}
  <2>1. Acknowledged(p) \/ \E q \in 1..flow[p].quantity : Executed(p, q)
    BY <1>2 DEF Detect, PipelineStep, LookUpWallet, SizeCopy, NoBookNoCopy,
       ReadPortfolio, CheckRisk, AfterRefusal, Send, Refused, BookFill
  <2>2. flow[p].pc = "sent"
    BY <2>1 DEF Acknowledged, Executed
  <2>3. flow'[p].pc \in {"idle", "answered"}
    BY <1>2, <2>2, PipelineMoves DEF Move
  <2>4. CASE Acknowledged(p)
    BY <2>2, <2>3, <2>4 DEF Acknowledged
  <2>5. CASE \E q \in 1..flow[p].quantity : Executed(p, q)
    BY <2>2, <2>3, <2>5 DEF Executed
  <2> QED
    BY <2>1, <2>4, <2>5
<1>3. CancelAll => working' <= working
  BY DEF CancelAll
<1>4. ASSUME NEW h \in Handlers, ApiStep(h)
      PROVE  working' + doubtful' <= working + doubtful
  <2>1. CASE CancelByApi(h)
    BY <1>3, <1>4, <2>1, ApiType DEF CancelByApi
  <2>2. CASE ~CancelByApi(h)
    BY <1>4, <2>2 DEF ApiStep, EngageByApi, ResetByApi, EditWallet, RemoveWallet,
       SaveWallet, SaveFails, UpsertWallet
  <2> QED
    BY <2>1, <2>2
<1>5. CASE WorldStep
  <2>1. CASE Restart
    <3>1. working \in Nat /\ doubtful \in Nat
      OBVIOUS
    <3>2. working' = 0 /\ doubtful' = 0
      BY <2>1 DEF Restart
    <3> QED
      BY <3>1, <3>2
  <2>2. CASE \E r \in Reconcilers : CancelByReconciler(r)
    <3>1. CancelAll
      BY <2>2 DEF CancelByReconciler
    <3>2. working \in Nat /\ doubtful \in Nat
      OBVIOUS
    <3>3. working' \in Nat /\ working' <= working /\ doubtful' = doubtful
      BY <1>3, <3>1, CancelledType DEF CancelAll
    <3>4. working' + doubtful' <= working + doubtful
      BY <3>2, <3>3, SumGrows
    <3> QED
      BY <3>4
  <2>3. CASE ~Restart /\ ~\E r \in Reconcilers : CancelByReconciler(r)
    BY <1>5, <2>3 DEF WorldStep, Reconcile, ExchangeExecutes, NewDay
  <2> QED
    BY <2>1, <2>2, <2>3
<1> QED
  BY <1>1, <1>2, <1>4, <1>5, StepCases

\* The orders that are open and have left their pipelines.
Left == working + doubtful

\* A claim begins with a read that found a slot, and ends when the order leaves
\* the pipeline or before.
LEMMA ClaimBegins ==
  ASSUME TypeOK, Step, NEW p \in Claims', p \notin Claims
  PROVE  OpenCount < Limits.maxOpen /\ flow[p].pc = "signalled"
<1> p \in Pipelines
  BY DEF Claims
<1>1. \/ flow'[p].pc \in {"approved", "sent"}
      \/ flow'[p].pc = "read" /\ flow'[p].read.open < Limits.maxOpen
  BY DEF Claims
<1>2. /\ flow[p].pc \notin {"approved", "sent"}
      /\ ~(flow[p].pc = "read" /\ flow[p].read.open < Limits.maxOpen)
  BY DEF Claims
<1>3. Move(p)
  <2>1. flow'[p] # flow[p]
    BY <1>1, <1>2
  <2>2. flow'[p] # IdleFlow
    BY <1>1 DEF IdleFlow
  <2> QED
    BY <2>1, <2>2, FlowSteps
<1> QED
  BY <1>1, <1>2, <1>3 DEF Move

LEMMA SlotsAreClaimedNext ==
  TypeOK /\ OnlyDeployedWork /\ SlotsAreClaimed /\ [Next]_vars => SlotsAreClaimed'
<1> SUFFICES ASSUME TypeOK, OnlyDeployedWork, SlotsAreClaimed, [Next]_vars
             PROVE  SlotsAreClaimed'
  OBVIOUS
<1>0. Deployed' = Deployed /\ OnlyDeployedWork'
  BY OnlyDeployedWorkNext
<1>1. /\ Left \in Nat /\ Left' \in Nat /\ Limits.maxOpen \in Nat
      /\ IsFiniteSet(Claims) /\ Cardinality(Claims) \in Nat
      /\ IsFiniteSet(Claims') /\ Cardinality(Claims') \in Nat
      /\ IsFiniteSet(Deployed) /\ Cardinality(Deployed) \in Nat
      /\ IsFiniteSet(InFlight) /\ Cardinality(InFlight) \in Nat
  <2>1. TypeOK'
    BY NextType
  <2>2. /\ Claims \subseteq Pipelines /\ Claims' \subseteq Pipelines
        /\ Deployed \subseteq Pipelines /\ InFlight \subseteq Pipelines
    BY DEF Claims, Deployed, InFlight
  <2>3. Left \in Nat /\ Left' \in Nat
    <3>1. working \in Nat /\ doubtful \in Nat
      BY DEF TypeOK
    <3>2. working' \in Nat /\ doubtful' \in Nat
      BY <2>1 DEF TypeOK
    <3> QED
      BY <3>1, <3>2, NatSumType DEF Left
  <2>4. Limits.maxOpen \in Nat
    BY LimitsAssumption
  <2> QED
    BY <2>2, <2>3, <2>4, CountAssumption, FS_Subset, FS_CardinalityType
<1>2. SlotsAreClaimed => Left + Cardinality(Claims) <= Limits.maxOpen + Cardinality(Deployed) - 1
  BY DEF SlotsAreClaimed, Left
<1>3. Left' + Cardinality(Claims') <= Limits.maxOpen + Cardinality(Deployed) - 1
        => SlotsAreClaimed'
  BY <1>0 DEF SlotsAreClaimed, Left
<1>4. CASE UNCHANGED vars
  <2>1. Claims' = Claims /\ Left' = Left
    BY <1>4 DEF vars, Claims, Left
  <2> QED
    BY <1>2, <1>3, <2>1
<1>5. CASE Step /\ ~(Claims' \subseteq Claims)
  <2>1. PICK p \in Claims' : p \notin Claims
    BY <1>5
  <2>2. OpenCount < Limits.maxOpen /\ flow[p].pc = "signalled" /\ p \in Pipelines
    BY <1>5, <2>1, ClaimBegins DEF Claims
  <2>3. flow'[p].pc \in {"read", "approved", "sent"}
    BY <2>1 DEF Claims
  <2>4. PICK r \in Pipelines : Detect(r) \/ PipelineStep(r)
    <3>1. ASSUME NEW h \in Handlers, ApiStep(h) PROVE FALSE
      BY <2>2, <2>3, <3>1, ApiType
    <3>2. CASE WorldStep
      BY <2>2, <2>3, <3>2, RestartType DEF WorldStep, Reconcile, CancelByReconciler,
         CancelAll, ExchangeExecutes, NewDay, tradeVars, IdleFlow
    <3> QED
      BY <1>5, <3>1, <3>2, StepCases
  <2>5. r = p /\ \A q \in Pipelines \ {p} : flow'[q] = flow[q]
    BY <2>2, <2>3, <2>4, PipelineMoves
  <2>6. Left' <= Left
    <3>1. ~\E q \in Pipelines : flow[q].pc = "sent" /\ flow'[q].pc \in {"idle", "answered"}
      BY <2>2, <2>5
    <3> QED
      BY <1>5, <3>1, SlotHandedOver DEF Left
  <2>7. Claims' \subseteq InFlight \cup Deployed
    <3>1. \A q \in Claims' : q \in Pipelines /\ flow'[q].pc # "idle"
      BY DEF Claims
    <3> QED
      BY <1>0, <3>1 DEF OnlyDeployedWork
  <2>8. Cardinality(Claims') <= Cardinality(InFlight) + Cardinality(Deployed)
    <3>1. IsFiniteSet(InFlight \cup Deployed)
      BY <1>1, FS_Union
    <3>2. Cardinality(InFlight \cup Deployed)
            = Cardinality(InFlight) + Cardinality(Deployed)
                - Cardinality(InFlight \cap Deployed)
      BY <1>1, FS_Union
    <3>3. Cardinality(InFlight \cap Deployed) \in Nat
      BY <1>1, FS_Intersection, FS_CardinalityType
    <3>4. Cardinality(Claims') <= Cardinality(InFlight \cup Deployed)
      BY <2>7, <3>1, FS_Subset
    <3> QED
      BY <1>1, <3>1, <3>2, <3>3, <3>4, FS_CardinalityType
  <2>9. Left + Cardinality(InFlight) < Limits.maxOpen
    BY <2>2 DEF OpenCount, Left
  <2> QED
    BY <1>1, <1>3, <2>6, <2>8, <2>9
<1>6. CASE Step /\ Claims' \subseteq Claims
  <2>1. Cardinality(Claims') <= Cardinality(Claims)
    BY <1>1, <1>6, FS_Subset
  <2>2. CASE Left' <= Left
    <3> QED
      BY <1>1, <1>2, <1>3, <2>1, <2>2
  <2>3. CASE ~(Left' <= Left)
    <3>1. /\ Left' <= Left + 1
          /\ \E p \in Pipelines : /\ flow[p].pc = "sent"
                                  /\ flow'[p].pc \in {"idle", "answered"}
      BY <1>6, <2>3, SlotHandedOver DEF Left
    <3>2. PICK p \in Claims : p \notin Claims'
      BY <3>1 DEF Claims
    <3>3. Cardinality(Claims \ {p}) = Cardinality(Claims) - 1
          /\ IsFiniteSet(Claims \ {p})
      BY <1>1, FS_RemoveElement
    <3>4. Cardinality(Claims') <= Cardinality(Claims \ {p})
      BY <1>6, <3>2, <3>3, FS_Subset
    <3> QED
      BY <1>1, <1>2, <1>3, <3>1, <3>3, <3>4
  <2> QED
    BY <2>2, <2>3
<1> QED
  BY <1>4, <1>5, <1>6 DEF Next

(***************************************************************************)
(* OrderManager::open_order_count is read before the risk check and the    *)
(* order registered after it, yet max_open_orders is exceeded by at most   *)
(* one order for each pipeline that runs beside the first.                 *)
(***************************************************************************)
THEOREM SlotsAreLimited == Spec => []SlotsOverrunOnlyByOverlap
<1>1. Init => OnlyDeployedWork /\ SlotsAreClaimed
  <2> SUFFICES ASSUME Init PROVE OnlyDeployedWork /\ SlotsAreClaimed
    OBVIOUS
  <2>1. \A p \in Pipelines : flow[p].pc = "idle"
    BY DEF Init, IdleFlow
  <2>2. Claims = {} /\ working + doubtful = 0
    BY <2>1 DEF Claims, Init
  <2>3. Feed \in Deployed /\ Deployed \subseteq Pipelines
    BY FeedAssumption DEF Deployed, Runs
  <2>4. IsFiniteSet(Deployed) /\ Cardinality(Deployed) \in Nat /\ Cardinality(Deployed) # 0
    BY <2>3, CountAssumption, FS_Subset, FS_CardinalityType, FS_EmptySet
  <2>5. Cardinality(Claims) = 0
    BY <2>2, FS_EmptySet
  <2> QED
    BY <2>1, <2>2, <2>4, <2>5, LimitsAssumption DEF OnlyDeployedWork, SlotsAreClaimed
<1>2. TypeOK /\ SlotsAreClaimed => SlotsOverrunOnlyByOverlap
  <2> SUFFICES ASSUME TypeOK, SlotsAreClaimed PROVE SlotsOverrunOnlyByOverlap
    OBVIOUS
  <2>1. InFlight \subseteq Claims /\ Claims \subseteq Pipelines /\ Deployed \subseteq Pipelines
    BY DEF InFlight, Claims, Deployed
  <2>2. IsFiniteSet(Claims)
    BY <2>1, CountAssumption, FS_Subset
  <2>3. /\ Cardinality(Claims) \in Nat /\ Cardinality(InFlight) \in Nat
        /\ Cardinality(InFlight) <= Cardinality(Claims)
        /\ Cardinality(Deployed) \in Nat
    BY <2>1, <2>2, CountAssumption, FS_Subset, FS_CardinalityType
  <2> QED
    BY <2>3, LimitsAssumption
       DEF TypeOK, SlotsAreClaimed, SlotsOverrunOnlyByOverlap, OpenCount
<1> QED
  BY <1>1, <1>2, OnlyDeployedWorkNext, SlotsAreClaimedNext, TypeCorrect, PTL DEF Spec

-----------------------------------------------------------------------------
(***************************************************************************)
(* The shares that the exposure limit buys.                                *)
(***************************************************************************)

\* An order that is pending, or that the check of a read would let through.
Reserves(f) ==
  \/ f.pc \in {"approved", "sent", "answered"}
  \/ /\ f.pc = "read" /\ f.quantity <= Limits.maxTrade
     /\ AbsOf(f.read.held) + f.quantity <= Limits.maxPortfolio

\* What each pipeline may still add to the position, its read considered.
Reserved ==
  [p \in Pipelines |-> IF Reserves(flow[p]) THEN flow[p].quantity ELSE 0]

TradesCapped ==
  \A p \in Pipelines : Reserves(flow[p]) => flow[p].quantity <= Limits.maxTrade

\* An order that waits for its check has a limit price.
OrdersPriced ==
  \A p \in Pipelines : flow[p].pc \in {"signalled", "read"} => flow[p].price \in Prices

LEMMA OrdersPricedNext == TypeOK /\ OrdersPriced /\ [Next]_vars => OrdersPriced'
<1> SUFFICES ASSUME TypeOK, OrdersPriced, [Next]_vars PROVE OrdersPriced'
  OBVIOUS
<1>1. CASE UNCHANGED vars
  BY <1>1 DEF vars, OrdersPriced
<1>2. CASE Step
  <2> SUFFICES ASSUME NEW p \in Pipelines, flow'[p].pc \in {"signalled", "read"}
               PROVE  flow'[p].price \in Prices
    BY DEF OrdersPriced
  <2>1. Move(p) \/ flow'[p] = flow[p] \/ flow'[p].pc = "idle"
    BY <1>2, FlowSteps DEF IdleFlow
  <2> QED
    BY <2>1 DEF Move, OrdersPriced
<1> QED
  BY <1>1, <1>2 DEF Next

SharesAreReserved ==
  AbsOf(net) + SumFunctionOnSet(Reserved, Pipelines) <=
    Limits.maxPortfolio
      + (Cardinality(Deployed) - 1) * Limits.maxTrade

LEMMA LimitConstants ==
  Limits.maxPortfolio \in Nat /\ Limits.maxTrade \in Nat
BY LimitsAssumption

\* What an approval tells of the shares held and ordered, for an exposure is
\* never less than the shares, nor a notional.
LEMMA ApprovedShares ==
  ASSUME TypeOK, NEW p \in Pipelines, flow[p].price \in Prices,
         NEW snap \in SnapsOf(p), NEW book,
         Verdict(BreachesOf(p, snap, book)) = "approved"
  PROVE  /\ flow[p].quantity <= Limits.maxTrade
         /\ AbsOf(flow[p].read.held) + flow[p].quantity <= Limits.maxPortfolio
<1> DEFINE b == BreachesOf(p, snap, book)
           limits == [Limits EXCEPT !.requireBook = deployment.live]
           notional == flow[p].quantity * flow[p].price
<1>1. /\ limits.maxTrade = Limits.maxTrade /\ limits.maxPortfolio = Limits.maxPortfolio
      /\ Limits.maxTrade \in Nat /\ Limits.maxPortfolio \in Nat
  BY LimitsAssumption
<1>2. /\ flow[p].quantity \in Nat /\ flow[p].read.held \in Int
      /\ snap.gross \in Exposures(flow[p].read.held)
  BY DEF SnapsOf, TypeOK, FlowRecord
<1>3. /\ snap.gross \in Nat /\ AbsOf(flow[p].read.held) \in Nat
      /\ snap.gross >= AbsOf(flow[p].read.held)
  BY <1>2, ExposureType
<1>4. notional \in Nat /\ notional >= flow[p].quantity
  BY <1>2, PriceType, ProductAtLeast
<1>5. /\ "max_trade_size" \in DOMAIN b /\ "max_portfolio_exposure" \in DOMAIN b
      /\ b["max_trade_size"] <=> notional > Limits.maxTrade
      /\ b["max_portfolio_exposure"] <=> snap.gross + notional > Limits.maxPortfolio
  BY <1>1 DEF BreachesOf, Breaches, GrossExceeded
<1>6. Approved(b)
  BY VerdictIsBreached DEF BreachesOf
<1> HIDE DEF notional, b
<1>7. ~(notional > Limits.maxTrade) /\ ~(snap.gross + notional > Limits.maxPortfolio)
  BY <1>5, <1>6 DEF Approved
<1> QED
  BY <1>1, <1>2, <1>3, <1>4, <1>7

LEMMA ReservedType ==
  ASSUME TypeOK, TradesCapped, NEW p \in Pipelines
  PROVE  Reserved[p] \in Nat /\ Reserved[p] <= Limits.maxTrade
<1>1. flow[p].quantity \in Nat
  BY DEF TypeOK, FlowRecord
<1> QED
  BY <1>1, LimitConstants DEF Reserved, TradesCapped

\* How a pipeline's reservation changes as it moves.
ReservedMove(p) ==
  /\ Reserves(flow'[p]) => flow'[p].quantity <= Limits.maxTrade
  /\ \/ net' = net /\ Reserved'[p] <= Reserved[p]
     \/ /\ net' = net /\ Reserves(flow'[p])
        /\ AbsOf(net) + Reserved'[p] <= Limits.maxPortfolio
     \/ AbsOf(net') <= AbsOf(net) + Reserved[p] /\ Reserved'[p] = 0

\* A pipeline that keeps the position, and keeps or gives up its reservation.
LEMMA Keeps ==
  ASSUME TypeOK, TradesCapped, NEW p \in Pipelines, net' = net,
         \/ ~Reserves(flow'[p])
         \/ /\ Reserves(flow[p]) /\ flow'[p].quantity \in Nat
            /\ flow'[p].quantity <= flow[p].quantity
  PROVE  ReservedMove(p)
<1>1. flow[p].quantity \in Nat
  BY DEF TypeOK, FlowRecord
<1>2. Reserved[p] \in Nat
  BY ReservedType
<1>3. Reserved'[p] = IF Reserves(flow'[p]) THEN flow'[p].quantity ELSE 0
  BY DEF Reserved
<1>4. CASE ~Reserves(flow'[p])
  BY <1>2, <1>3, <1>4 DEF ReservedMove
<1>5. CASE Reserves(flow'[p])
  <2>1. Reserves(flow[p]) /\ flow'[p].quantity \in Nat
        /\ flow'[p].quantity <= flow[p].quantity
    BY <1>5
  <2>2. Reserved[p] = flow[p].quantity
    BY <2>1 DEF Reserved
  <2>3. flow[p].quantity <= Limits.maxTrade
    BY <2>1 DEF TradesCapped
  <2>4. flow'[p].quantity <= Limits.maxTrade /\ Reserved'[p] <= Reserved[p]
    BY <1>1, <1>3, <1>5, <2>1, <2>2, <2>3, LimitConstants
  <2> QED
    BY <2>4 DEF ReservedMove
<1> QED
  BY <1>4, <1>5

LEMMA PipelineReserves ==
  ASSUME TypeOK, TradesCapped, OrdersPriced,
         NEW p \in Pipelines, Detect(p) \/ PipelineStep(p)
  PROVE  ReservedMove(p)
<1> USE DEF GoTo, Finish
<1>0. /\ flow \in [Pipelines -> FlowRecord] /\ flow[p] \in FlowRecord
      /\ flow[p].quantity \in Nat /\ net \in Int
  BY DEF TypeOK, FlowRecord
<1>1. CASE flow'[p] = IdleFlow /\ net' = net
  <2>1. ~Reserves(flow'[p])
    BY <1>1 DEF Reserves, IdleFlow
  <2> QED
    BY <1>1, <2>1, Keeps
<1>2. CASE Detect(p)
  <2>1. net' = net /\ flow'[p].pc = "recorded"
    BY <1>0, <1>2 DEF Detect, FlowRecord
  <2> QED
    BY <2>1, Keeps DEF Reserves
<1>3. CASE LookUpWallet(p) \/ SizeCopy(p)
  <2>1. net' = net /\ flow[p].pc \in {"recorded", "found"}
    BY <1>3 DEF LookUpWallet, SizeCopy
  <2>2. flow'[p].pc \in {"idle", "found", "signalled"}
    BY <2>1, PipelineMoves DEF Move
  <2> QED
    BY <2>1, <2>2, Keeps DEF Reserves
<1>4. CASE NoBookNoCopy(p) \/ AfterRefusal(p) \/ Refused(p) \/ Acknowledged(p)
  <2>1. flow'[p] = IdleFlow /\ net' = net
    BY <1>0, <1>4 DEF NoBookNoCopy, AfterRefusal, Refused, Acknowledged
  <2> QED
    BY <1>1, <2>1
<1>5. CASE ReadPortfolio(p)
  <2>1. /\ net' = net /\ flow'[p].pc = "read" /\ flow'[p].read.held = net
        /\ flow'[p].quantity = flow[p].quantity
    BY <1>0, <1>5 DEF ReadPortfolio, FlowRecord
  <2>2. CASE ~Reserves(flow'[p])
    BY <2>1, <2>2, Keeps
  <2>3. CASE Reserves(flow'[p])
    <3>1. /\ flow[p].quantity <= Limits.maxTrade
          /\ AbsOf(net) + flow[p].quantity <= Limits.maxPortfolio
      BY <2>1, <2>3 DEF Reserves
    <3>2. Reserved'[p] = flow[p].quantity
      BY <2>1, <2>3 DEF Reserved
    <3>3. AbsOf(net) \in Nat
      BY <1>0 DEF AbsOf
    <3>4. AbsOf(net) + Reserved'[p] <= Limits.maxPortfolio
      BY <1>0, <3>1, <3>2, <3>3, LimitConstants
    <3> QED
      BY <2>1, <2>3, <3>1, <3>4 DEF ReservedMove
  <2> QED
    BY <2>2, <2>3
<1>6. CASE CheckRisk(p)
  <2>1. PICK snap \in SnapsOf(p), book \in Books :
          flow' = [flow EXCEPT ![p] =
                     IF Verdict(BreachesOf(p, snap, book)) = "approved"
                       THEN [IdleFlow EXCEPT !.pc = "approved",
                                             !.quantity = flow[p].quantity]
                       ELSE [IdleFlow EXCEPT !.pc = "refused",
                               !.alarms = AutoEngages(Verdict(BreachesOf(p, snap, book)))]]
    BY <1>6 DEF CheckRisk
  <2>2. net' = net /\ flow[p].pc = "read"
    BY <1>6 DEF CheckRisk
  <2>3. CASE Verdict(BreachesOf(p, snap, book)) = "approved"
    <3>1. /\ flow[p].quantity <= Limits.maxTrade
          /\ AbsOf(flow[p].read.held) + flow[p].quantity <= Limits.maxPortfolio
      BY <2>2, <2>3, ApprovedShares DEF OrdersPriced
    <3>2. Reserves(flow[p])
      BY <2>2, <3>1 DEF Reserves
    <3>3. flow'[p].quantity = flow[p].quantity
      BY <1>0, <2>1, <2>3 DEF IdleFlow
    <3> QED
      BY <1>0, <2>2, <3>2, <3>3, Keeps
  <2>4. CASE Verdict(BreachesOf(p, snap, book)) # "approved"
    <3>1. flow'[p].pc = "refused"
      BY <1>0, <2>1, <2>4 DEF IdleFlow
    <3> QED
      BY <2>2, <3>1, Keeps DEF Reserves
  <2> QED
    BY <2>3, <2>4
<1>7. CASE Send(p)
  <2>1. /\ net' = net /\ flow[p].pc = "approved"
        /\ flow'[p].quantity = flow[p].quantity
    BY <1>0, <1>7 DEF Send, FlowRecord
  <2>2. Reserves(flow[p])
    BY <2>1 DEF Reserves
  <2> QED
    BY <1>0, <2>1, <2>2, Keeps
<1>8. ASSUME NEW q \in 1..flow[p].quantity, Executed(p, q) PROVE ReservedMove(p)
  <2>1. net' = net /\ flow[p].pc = "sent" /\ flow'[p].quantity = q
    BY <1>0, <1>8 DEF Executed, FlowRecord
  <2>2. q \in Nat /\ q <= flow[p].quantity
    BY <1>0
  <2>3. Reserves(flow[p])
    BY <2>1 DEF Reserves
  <2> QED
    BY <2>1, <2>2, <2>3, Keeps
<1>9. CASE BookFill(p)
  <2>1. /\ flow[p].pc = "answered" /\ flow'[p] = IdleFlow
        /\ net' = net + flow[p].quantity \/ net' = net - flow[p].quantity
    BY <1>0, <1>9 DEF BookFill
  <2>2. flow[p].quantity \in Nat
    BY <1>0
  <2>3. AbsOf(net') <= AbsOf(net) + flow[p].quantity
    BY <1>0, <2>1, <2>2 DEF AbsOf
  <2>4. Reserved[p] = flow[p].quantity
    BY <2>1 DEF Reserved, Reserves
  <2>5. ~Reserves(flow'[p])
    BY <2>1 DEF Reserves, IdleFlow
  <2>6. Reserved'[p] = 0
    BY <2>5 DEF Reserved
  <2>8. AbsOf(net') <= AbsOf(net) + Reserved[p]
    BY <2>3, <2>4
  <2> QED
    BY <2>5, <2>6, <2>8 DEF ReservedMove
<1> QED
  BY <1>2, <1>3, <1>4, <1>5, <1>6, <1>7, <1>8, <1>9 DEF PipelineStep

\* What the pipelines beside p reserve is bounded by their number.
LEMMA OthersReserve ==
  ASSUME TypeOK, TradesCapped, OnlyDeployedWork, NEW p \in Deployed
  PROVE  SumFunctionOnSet(Reserved, Pipelines) <=
           Reserved[p] + (Cardinality(Deployed) - 1) * Limits.maxTrade
<1> DEFINE b == Limits.maxTrade
           R == Reserved
           Others == Deployed \ {p}
<1>1. \A q \in Pipelines : R[q] \in Nat /\ R[q] <= b
  BY ReservedType
<1>2. b \in Nat
  BY LimitConstants
<1>3. Deployed \subseteq Pipelines /\ IsFiniteSet(Deployed)
  BY CountAssumption, FS_Subset DEF Deployed
<1>4. \A q \in Pipelines \ Deployed : R[q] = 0
  BY DEF OnlyDeployedWork, Reserved, Reserves
<1> HIDE DEF R, b
<1>5. SumFunctionOnSet(R, Pipelines) = SumFunctionOnSet(R, Deployed)
  BY <1>1, <1>3, <1>4, CountAssumption, SumSupported
<1>6. SumFunctionOnSet(R, Deployed) = R[p] + SumFunctionOnSet(R, Others)
  BY <1>1, <1>3, SumWithout
<1>7. IsFiniteSet(Others) /\ Cardinality(Others) = Cardinality(Deployed) - 1
  BY <1>3, FS_RemoveElement
<1>8. \A q \in Others : R[q] \in Int /\ R[q] <= b
  BY <1>1, <1>3
<1>9. SumFunctionOnSet(R, Others) <= Cardinality(Others) * b
  BY <1>2, <1>7, <1>8, SumAtMost
<1>10. SumFunctionOnSet(R, Others) \in Int
  BY <1>7, <1>8, SumType
<1>11. SumFunctionOnSet(R, Others) <= (Cardinality(Deployed) - 1) * b
  BY <1>7, <1>9
<1>12. R[p] \in Nat /\ (Cardinality(Deployed) - 1) * b \in Int
  BY <1>1, <1>2, <1>3, FS_CardinalityType
<1> QED
  BY <1>5, <1>6, <1>10, <1>11, <1>12 DEF R, b

LEMMA TradesCappedNext ==
  TypeOK /\ TradesCapped /\ OrdersPriced /\ [Next]_vars => TradesCapped'
<1> SUFFICES ASSUME TypeOK, TradesCapped, OrdersPriced, [Next]_vars PROVE TradesCapped'
  OBVIOUS
<1>1. CASE UNCHANGED vars
  BY <1>1 DEF vars, TradesCapped
<1>2. CASE Step
  <2> SUFFICES ASSUME NEW q \in Pipelines, Reserves(flow'[q])
               PROVE  flow'[q].quantity <= Limits.maxTrade
    BY DEF TradesCapped
  <2>1. CASE flow'[q] = flow[q]
    BY <2>1 DEF TradesCapped
  <2>2. CASE flow'[q] = IdleFlow
    BY <2>2 DEF IdleFlow, Reserves
  <2>3. ASSUME NEW p \in Pipelines, Detect(p) \/ PipelineStep(p)
        PROVE  flow'[q] = flow[q] \/ flow'[q].quantity <= Limits.maxTrade
    BY <2>3, PipelineMoves, PipelineReserves DEF ReservedMove
  <2>4. ASSUME NEW h \in Handlers, ApiStep(h) PROVE flow'[q] = flow[q]
    BY <2>4, ApiType
  <2>5. CASE WorldStep
    <3>1. CASE Restart
      BY <2>2, <3>1, RestartType
    <3>2. CASE ~Restart
      BY <2>1, <2>5, <3>2 DEF WorldStep, Reconcile, CancelByReconciler, CancelAll,
         ExchangeExecutes, NewDay, tradeVars
    <3> QED
      BY <3>1, <3>2
  <2> QED
    BY <1>2, <2>1, <2>3, <2>4, <2>5, StepCases
<1> QED
  BY <1>1, <1>2 DEF Next

LEMMA SharesAreReservedNext ==
  TypeOK /\ OnlyDeployedWork /\ TradesCapped /\ OrdersPriced /\ SharesAreReserved
  /\ TypeOK' /\ OnlyDeployedWork' /\ TradesCapped' /\ Deployed' = Deployed
  /\ [Next]_vars
    => SharesAreReserved'
<1> SUFFICES ASSUME TypeOK, OnlyDeployedWork, TradesCapped, OrdersPriced,
                    SharesAreReserved,
                    TypeOK', OnlyDeployedWork', TradesCapped', Deployed' = Deployed,
                    [Next]_vars
             PROVE  SharesAreReserved'
  OBVIOUS
<1> DEFINE Before == SumFunctionOnSet(Reserved, Pipelines)
           After == SumFunctionOnSet(Reserved', Pipelines)
           Beside == (Cardinality(Deployed) - 1) * Limits.maxTrade
<1>1. \A q \in Pipelines : Reserved[q] \in Nat /\ Reserved[q] \in Int
  BY ReservedType
<1>2. \A q \in Pipelines : Reserved'[q] \in Nat /\ Reserved'[q] \in Int
  <2>1. \A q \in Pipelines : flow'[q].quantity \in Nat
    BY DEF TypeOK, FlowRecord
  <2> QED
    BY <2>1, LimitConstants DEF Reserved
<1>3. Before \in Int /\ After \in Int
  BY <1>1, <1>2, CountAssumption, SumType
<1>4. Beside \in Int
  <2>1. Cardinality(Deployed) \in Nat
    BY CountAssumption, FS_Subset, FS_CardinalityType DEF Deployed
  <2> QED
    BY <2>1, LimitConstants
<1>5. AbsOf(net) \in Nat /\ AbsOf(net') \in Nat
  <2>1. net \in Int /\ net' \in Int
    BY DEF TypeOK
  <2>2. \A x \in Int : AbsOf(x) \in Nat
    BY DEF AbsOf
  <2> QED
    BY <2>1, <2>2
<1>6. AbsOf(net) + Before <= Limits.maxPortfolio + Beside
  BY DEF SharesAreReserved
<1>7. SharesAreReserved' <=> AbsOf(net') + After <= Limits.maxPortfolio + Beside
  BY DEF SharesAreReserved
<1> HIDE DEF Beside
<1>8. CASE net' = net /\ \A q \in Pipelines : Reserved'[q] <= Reserved[q]
  <2>1. After <= Before
    BY <1>1, <1>2, <1>8, CountAssumption, SumMonotone
  <2> QED
    BY <1>3, <1>4, <1>5, <1>6, <1>7, <1>8, <2>1, LimitConstants
<1>9. CASE UNCHANGED <<net, flow>>
  BY <1>8, <1>9, <1>1 DEF Reserved
<1>10. ASSUME NEW p \in Pipelines, Detect(p) \/ PipelineStep(p)
       PROVE  SharesAreReserved'
  <2>1. ReservedMove(p)
    BY <1>10, PipelineReserves
  <2>2. \A q \in Pipelines \ {p} : flow'[q] = flow[q]
    BY <1>10, PipelineMoves
  <2>3. \A q \in Pipelines \ {p} : Reserved'[q] = Reserved[q]
    BY <2>2 DEF Reserved
  <2>4. After = Before + (Reserved'[p] - Reserved[p])
    BY <1>1, <1>2, <2>3, CountAssumption, SumChanged
  <2>5. /\ Reserved[p] \in Nat /\ Reserved'[p] \in Nat
    BY <1>1, <1>2
  <2> HIDE DEF Before, After
  <2>6. CASE net' = net /\ Reserved'[p] <= Reserved[p]
    <3>1. After <= Before
      BY <1>3, <2>4, <2>5, <2>6
    <3> QED
      BY <1>3, <1>4, <1>5, <1>6, <1>7, <2>6, <3>1, LimitConstants
  <2>7. CASE /\ net' = net /\ Reserves(flow'[p])
             /\ AbsOf(net) + Reserved'[p] <= Limits.maxPortfolio
    <3>1. p \in Deployed
      BY <2>7 DEF OnlyDeployedWork, Reserves
    <3>2. Before <= Reserved[p] + Beside
      BY <3>1, OthersReserve DEF Before, Beside
    <3> QED
      BY <1>3, <1>4, <1>5, <1>7, <2>4, <2>5, <2>7, <3>2, LimitConstants
  <2>8. CASE AbsOf(net') <= AbsOf(net) + Reserved[p] /\ Reserved'[p] = 0
    BY <1>3, <1>4, <1>5, <1>6, <1>7, <2>4, <2>5, <2>8, LimitConstants
  <2> QED
    BY <2>1, <2>6, <2>7, <2>8 DEF ReservedMove
<1>11. ASSUME NEW h \in Handlers, ApiStep(h) PROVE SharesAreReserved'
  BY <1>9, <1>11, ApiType
<1>12. CASE WorldStep
  <2>1. CASE Restart
    <3>1. net' = net /\ \A q \in Pipelines : flow'[q] = IdleFlow
      BY <2>1, RestartType DEF Restart
    <3>2. \A q \in Pipelines : Reserved'[q] = 0
      BY <3>1 DEF Reserved, Reserves, IdleFlow
    <3> QED
      BY <1>1, <1>8, <3>1, <3>2
  <2>2. CASE ~Restart
    <3>1. UNCHANGED <<net, flow>>
      BY <1>12, <2>2 DEF WorldStep, Reconcile, CancelByReconciler, CancelAll,
         ExchangeExecutes, NewDay, tradeVars
    <3> QED
      BY <1>9, <3>1
  <2> QED
    BY <2>1, <2>2
<1>13. CASE UNCHANGED vars
  BY <1>9, <1>13 DEF vars
<1> QED
  BY <1>10, <1>11, <1>12, <1>13, StepCases DEF Next

(***************************************************************************)
(* The exposure is read before the risk check, at whatever marks the       *)
(* market-data tasks have set, and a fill is booked long after it          *)
(* (on_source_trade, Portfolio::apply_fill); yet the shares that are held  *)
(* and pending exceed what max_portfolio_exposure buys at the lowest price *)
(* by at most one largest trade for each pipeline that runs beside the     *)
(* first, whatever the order in which the pipelines read, send and book.   *)
(***************************************************************************)
THEOREM SharesAreLimited == Spec => []SharesOverrunOnlyByOverlap
<1>1. Init => OnlyDeployedWork /\ TradesCapped /\ OrdersPriced /\ SharesAreReserved
  <2> SUFFICES ASSUME Init
               PROVE  OnlyDeployedWork /\ TradesCapped /\ OrdersPriced /\ SharesAreReserved
    OBVIOUS
  <2>1. \A p \in Pipelines : flow[p] = IdleFlow
    BY DEF Init
  <2>2. \A p \in Pipelines : flow[p].pc = "idle" /\ ~Reserves(flow[p])
    BY <2>1 DEF IdleFlow, Reserves
  <2>3. \A p \in Pipelines : Reserved[p] = 0
    BY <2>2 DEF Reserved
  <2>4. SumFunctionOnSet(Reserved, Pipelines) = 0
    BY <2>3, CountAssumption, SumOfZeros
  <2>5. Feed \in Deployed /\ Deployed \subseteq Pipelines
    BY FeedAssumption DEF Deployed, Runs
  <2>6. /\ IsFiniteSet(Deployed) /\ Cardinality(Deployed) \in Nat
        /\ Cardinality(Deployed) # 0
    BY <2>5, CountAssumption, FS_Subset, FS_CardinalityType, FS_EmptySet
  <2>7. (Cardinality(Deployed) - 1) * Limits.maxTrade \in Nat
    <3> DEFINE n == Cardinality(Deployed) - 1
               b == Limits.maxTrade
    <3>1. n \in Nat /\ b \in Nat
      BY <2>6, LimitConstants
    <3> HIDE DEF n, b
    <3>2. n * b \in Nat
      BY <3>1
    <3> QED
      BY <3>2 DEF n, b
  <2>8. AbsOf(net) = 0
    BY DEF Init, AbsOf
  <2> QED
    BY <2>2, <2>4, <2>7, <2>8, LimitConstants
       DEF OnlyDeployedWork, TradesCapped, OrdersPriced, SharesAreReserved
<1>2. TypeOK /\ TradesCapped /\ SharesAreReserved => SharesOverrunOnlyByOverlap
  <2> SUFFICES ASSUME TypeOK, TradesCapped, SharesAreReserved
               PROVE  SharesOverrunOnlyByOverlap
    OBVIOUS
  <2>1. \A q \in Pipelines : flow[q].quantity \in Nat
    BY DEF TypeOK, FlowRecord
  <2>2. \A q \in Pipelines : /\ Pending[q] \in Int /\ Reserved[q] \in Int
                             /\ Pending[q] <= Reserved[q]
    BY <2>1, LimitConstants DEF Pending, Reserved, Reserves
  <2>3. SumFunctionOnSet(Pending, Pipelines) <= SumFunctionOnSet(Reserved, Pipelines)
    BY <2>2, CountAssumption, SumMonotone
  <2>4. /\ SumFunctionOnSet(Pending, Pipelines) \in Int
        /\ SumFunctionOnSet(Reserved, Pipelines) \in Int
    BY <2>2, CountAssumption, SumType
  <2>5. (Cardinality(Deployed) - 1) * Limits.maxTrade \in Int
    <3>1. Cardinality(Deployed) \in Nat
      BY CountAssumption, FS_Subset, FS_CardinalityType DEF Deployed
    <3> QED
      BY <3>1, LimitConstants
  <2>6. AbsOf(net) \in Nat
    BY DEF TypeOK, AbsOf
  <2> QED
    BY <2>3, <2>4, <2>5, <2>6, LimitConstants
       DEF SharesAreReserved, SharesOverrunOnlyByOverlap
<1> QED
  BY <1>1, <1>2, OnlyDeployedWorkNext, TradesCappedNext, OrdersPricedNext, SharesAreReservedNext,
     TypeCorrect, PTL DEF Spec
=============================================================================
