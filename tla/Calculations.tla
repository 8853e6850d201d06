---------------------------- MODULE Calculations ----------------------------
(***************************************************************************)
(* The calculations of the system, each on whatever it may be given.       *)
(*                                                                         *)
(* A case is chosen and worked out: a source trade that the settings of    *)
(* its wallet admit is made into a copy, which the simulated venue matches *)
(* against the book it has by then; the own positions are compared with    *)
(* those of the venue; an order is signed; a process is started with an    *)
(* environment.                                                            *)
(***************************************************************************)
EXTENDS CopyStrategy, Matching, Reconciliation, OrderSigning, Settings

CONSTANTS
  CopyCases,         (* trade, wallet, wire, ctx, config.                  *)
  LaterBooks,        (* Books that the venue may have instead by then.     *)
  Dealings,          (* order type and force, params, roll of the venue.   *)
  PositionCases,     (* own, answer, tolerance, halt tolerance.            *)
  SigningCases,      (* funder, request.                                   *)
  Environments,
  Tokens,            (* Those that positions can be in.                    *)
  Now                (* The moment of all the cases.                       *)

(***************************************************************************)
(* What the cases are made of: whatever the types of the code admit.       *)
(***************************************************************************)
ASSUME NoneAssumption == None \notin {"", "live", "usable", "funder"} /\ None \notin Int

\* The type of an optional member of a set.
Maybe(S) == S \cup {None}

\* A number that cannot be read, or that is no price, is one that is out of range.
IsWire(wire) ==
  /\ {wire.bids, wire.asks} \subseteq Seq([price : Int, size : Int])
  /\ {wire.tick, wire.minSize} \subseteq Maybe(Int)

IsWallet(wallet) ==
  /\ wallet.mode \in {"fixed_ratio", "fixed_usd", "portfolio_percent", "risk_adjusted"}
  /\ {wallet.maxTrade, wallet.maxExposure} \subseteq Int
  /\ wallet.minTrade \in Nat
  /\ IF wallet.mode = "fixed_usd" THEN wallet.amount \in Int ELSE wallet.ratio \in Int
  /\ wallet.mode = "risk_adjusted" => wallet.liquidityCap \in Int

Contexts == [equity : Int, marketExposure : Int, maxPosition : Int, maxTrade : Int,
             minTrade : Int, liquidity : Int, remainingRisk : Int, increment : Int]

ASSUME CopyCasesAssumption ==
  \A c \in CopyCases :
    /\ c.trade.side \in {"buy", "sell"}
    /\ IsPrice(c.trade.price) /\ {c.trade.price, c.trade.quantity} \subseteq Int
    /\ IsWallet(c.wallet)
    /\ c.wire = None \/ IsWire(c.wire)
    /\ c.ctx \in Contexts
    /\ c.config.maxSlippage \in Nat

ASSUME DealingsAssumption ==
  /\ \A wire \in LaterBooks : IsWire(wire)
  /\ \A d \in Dealings : d.params.slippage \in Nat /\ d.roll.quarters \in 0..4

ASSUME PositionCasesAssumption ==
  /\ None \notin Tokens
  /\ \A c \in PositionCases :
       /\ \E S \in SUBSET Tokens : c.own \in [S -> Int]
       /\ c.answer \in Maybe(Seq([token : Maybe(Tokens), size : Maybe(Int)]))
       /\ {c.tolerance, c.haltTolerance} \subseteq Nat

ASSUME SigningCasesAssumption ==
  \A c \in SigningCases :
    /\ c.request.quantity \in Nat /\ c.request.price \in Nat \ {0}
    /\ c.request.token \in Seq(Nat)

\* An address that is set is a funder's or malformed; a limit is a number.
ASSUME EnvironmentsAssumption ==
  \A env \in Environments :
    /\ env.funder \in Maybe({"", "funder", "malformed"})
    /\ env.limits \in [minTrade : Maybe(Int), maxTrade : Maybe(Int),
                       maxPosition : Maybe(Int), maxPortfolio : Maybe(Int),
                       maxOpen : Maybe(Int), liveCap : Maybe(Int)]

VARIABLES
  case,              (* What there is to work out.                         *)
  signal,            (* The copy that was decided on, or its refusal.      *)
  result             (* What came of it.                                   *)

vars == <<case, signal, result>>

Cases(kind, inputs) == [kind : {kind}, in : inputs]

Init ==
  /\ \/ case \in Cases("copy", CopyCases)
     \/ case \in Cases("positions", PositionCases)
     \/ case \in Cases("signing", SigningCases)
     \/ case \in Cases("settings", Environments)
  /\ signal = None
  /\ result = None

BookOf(wire) == IF wire = None THEN NoBook ELSE ParseBook(wire, Now)

TickOf(book) == IF book.known THEN book.tick ELSE 100

\* The tracker admits the trade or passes it over; the strategy sizes its copy.
SignalFor(in) ==
  LET trade     == in.trade
      book      == BookOf(in.wire)
      admission == Admission(in.wallet, trade.market, trade.price * trade.quantity)
  IN  IF admission # "admitted"
        THEN Refused(admission)
        ELSE CopySignal(trade, in.wallet, book, in.ctx, in.config, TickOf(book), Now)

Decide ==
  /\ case.kind = "copy" /\ signal = None
  /\ signal' = SignalFor(case.in)
  /\ UNCHANGED <<case, result>>

\* The order goes out, and the venue matches it against the book it has then.
Deal ==
  /\ case.kind = "copy" /\ signal # None /\ result = None
  /\ signal.refusal = "none"
  /\ \E d \in Dealings, wire \in {case.in.wire} \cup LaterBooks :
       LET order == [side |-> case.in.trade.side, type |-> d.type, force |-> d.force,
                     quantity |-> signal.quantity, limit |-> signal.limit]
       IN  /\ wire # None
           /\ result' = [wire |-> wire, dealing |-> d,
                         fill |-> MatchOrder(order, BookOf(wire), d.params, d.roll)]
  /\ UNCHANGED <<case, signal>>

Compare ==
  /\ case.kind = "positions" /\ result = None
  /\ LET report == Reconcile(case.in.own, VenuePositions(case.in.answer),
                             case.in.tolerance)
     IN  result' = [report |-> report, clean |-> IsClean(report),
                    halts |-> WarrantsHalt(report, case.in.haltTolerance)]
  /\ UNCHANGED <<case, signal>>

PutSignature ==
  /\ case.kind = "signing" /\ result = None
  /\ result' = Sign(Signer("key", case.in.funder), case.in.request, "salt", Now)
  /\ UNCHANGED <<case, signal>>

Start ==
  /\ case.kind = "settings" /\ result = None
  /\ result' = StartUp(case.in)
  /\ UNCHANGED <<case, signal>>

Next == Decide \/ Deal \/ Compare \/ PutSignature \/ Start

Spec == Init /\ [][Next]_vars
-----------------------------------------------------------------------------
Done(kind) == case.kind = kind /\ result # None

Dealt == Done("copy") /\ result.fill.kind = "filled"

Side == case.in.trade.side

\* The order that is sent trades within its limit price, for no more than was
\* sized, and a purchase spends no more than any cap that applies to it, even
\* when the book has moved since it was sized (strategy/sizing.rs:14 "no
\* configuration of inputs can produce an order larger than every applicable
\* limit").
CopyWithinCaps ==
  Dealt =>
    LET fill == result.fill
    IN  /\ fill.quantity <= signal.quantity
        /\ Within(Side, fill.value, fill.quantity * signal.limit)
        /\ Side = "buy" =>
             LET book == BookOf(case.in.wire)
                 ctx  == CopyContext(case.in.trade, book, case.in.ctx, signal.limit)
             IN  \A cap \in Caps(case.in.wallet, ctx) : fill.value <= cap

\* A copy priced against a book that is quoted on the grid has a limit on the
\* grid, no worse than the slippage budget allows, that still reaches the best
\* price of that book: the copy is not sent only to find nothing.
LimitReachesTouch ==
  signal # None =>
    (signal.refusal = "none" =>
       LET book  == BookOf(case.in.wire)
           touch == TakingSide(book, Side)[1].price
       IN  HasTouch(book, Side) =>
             /\ Within(Side, signal.limit * Dollar,
                       touch * (IF Side = "buy" THEN Dollar + case.in.config.maxSlippage
                                ELSE Dollar - case.in.config.maxSlippage))
             /\ book.tick > 0 /\ touch % book.tick = 0 =>
                  signal.limit % book.tick = 0 /\ Within(Side, touch, signal.limit))

\* What a quantity costs when it is bought from these levels at their best (for
\* a sale: brings).  It is the greatest, over the prices p of the levels, of p
\* for all of it less what the better levels save on p.
BestValue(levels, side, quantity) ==
  LET used     == UsedOf(levels)
      prices   == {levels[i].price : i \in used}
      saved(p) == SumFunctionOnSet(
                    [i \in used |-> levels[i].size *
                       (IF side = "buy" THEN GreaterOf(p - levels[i].price, 0)
                                        ELSE GreaterOf(levels[i].price - p, 0))], used)
  IN  IF side = "buy" THEN Max({p * quantity - saved(p) : p \in prices})
                      ELSE Min({p * quantity + saved(p) : p \in prices})

\* What the whole book of the wire has within the limit.
OnOffer(levels, side, limit) ==
  LET reached == {i \in UsedOf(levels) : Within(side, levels[i].price, limit)}
  IN  SumFunctionOnSet([i \in reached |-> levels[i].size], reached)

\* A simulated fill is never better than the book that the venue sent allows, in
\* whatever order it sent the levels; and when neither slippage nor queue risk
\* strikes it is exactly the best the book allows, for all of the order that the
\* book can serve (simulator/matching.rs:12).
PaperFillIsHonest ==
  Dealt =>
    LET fill   == result.fill
        levels == IF Side = "buy" THEN result.wire.asks ELSE result.wire.bids
        best   == BestValue(levels, Side, fill.quantity)
    IN  /\ IF Side = "buy" THEN fill.value >= best ELSE fill.value <= best
        /\ fill.quantity <= OnOffer(levels, Side, signal.limit)
        /\ result.dealing.params.slippage = 0 /\ result.dealing.roll.quarters = 4 =>
             /\ fill.value = best
             /\ fill.quantity = LesserOf(signal.quantity,
                                         OnOffer(levels, Side, signal.limit))

Held(holdings, t) == IF t \in DOMAIN holdings THEN holdings[t] ELSE 0

\* The rows of the venue's answer that tell something of a token.
RowsFor(answer, t) ==
  {i \in DOMAIN Given(answer, <<>>) : answer[i].token = t /\ answer[i].size # None}

\* What the answer tells last of a token, with its sign: a token it does not list
\* is not held.
Told(answer, t) ==
  LET rows == RowsFor(answer, t) IN IF rows = {} THEN 0 ELSE answer[Max(rows)].size

\* Of the tokens that neither side is short of, each one that the own book and the
\* venue's answer disagree on by more than the tolerance is reported, in exactly
\* one class, whatever rows tell of it, and one that they agree on is in none.
\* Trading is halted if the answer lists one that is unknown here or off by more
\* than the halt tolerance, and never while nothing is off
\* (reconciliation.rs:84 "a difference above it is always reported").
DisagreementReported ==
  Done("positions") =>
    LET own == case.in.own
        told(t) == Told(case.in.answer, t)
        long == {t \in Tokens : Held(own, t) >= 0 /\ told(t) >= 0}
        off(t, by) == Disagree(Held(own, t), told(t), by)
        \* A position of which nothing is known here is off however small it is.
        suspect(t, by) == off(t, IF t \in DOMAIN own THEN by ELSE 0)
        classes == <<DOMAIN result.report.mismatched, result.report.unexpected,
                     result.report.missing>>
        having(t) == {i \in 1..3 : t \in classes[i]}
    IN  /\ \A t \in long :
             /\ off(t, case.in.tolerance) => Cardinality(having(t)) = 1
             /\ having(t) # {} => suspect(t, case.in.tolerance)
             /\ off(t, case.in.tolerance) => ~result.clean
             /\ /\ RowsFor(case.in.answer, t) # {} /\ off(t, case.in.tolerance)
                /\ suspect(t, case.in.haltTolerance)
                => result.halts
        /\ result.halts =>
             \E t \in Tokens : t \notin long \/ suspect(t, case.in.haltTolerance)

\* The number that digits, or the bytes of a word, stand for.
NumberOf(digits, base) == FoldLeft(LAMBDA n, d : n * base + d, 0, digits)

Representable(text) ==
  /\ \A i \in DOMAIN text : text[i] \in 0..9
  /\ NumberOf(text, 10)
       <= NumberOf([i \in 1..WordSize |-> ByteValues - 1], ByteValues)

\* What the exchange can verify as signed for the funds of the wallet is for the
\* token that was asked for, and an order for a token id that is no number of
\* that width is not signed at all.  It never gives more than was intended.  A
\* sale asks at least its limit price, and a purchase of a whole number of base
\* units gets them all for at most its limit price (signing.rs:191 "rounded in
\* our favour").
SignedWithinLimit ==
  (Done("signing") /\ result.refusal = "none") =>
    LET o == result.order
        request == case.in.request
    IN  /\ Recover(Digest(Deployed, o), result.signature) = o.signer
        /\ Representable(request.token)
        /\ NumberOf(StructHash(o)[5], ByteValues) = NumberOf(request.token, 10)
        /\ o.maker = Given(case.in.funder, o.signer)
        /\ IF request.side = "buy"
             THEN /\ o.amounts.maker * 100 <= request.quantity * request.price
                  /\ request.quantity % 10 = 0 =>
                       /\ o.amounts.taker * 10 = request.quantity
                       /\ o.amounts.maker * 10 <= o.amounts.taker * request.price
             ELSE /\ o.amounts.maker * 10 <= request.quantity
                  /\ o.amounts.taker * 10 >= o.amounts.maker * request.price

\* Real orders are sent by exactly those processes whose environment asks for it
\* with both switches and holds every credential, a usable key, a funder, a token
\* for the API and no demo data.  Any other process in live mode does not start
\* or starts halted, and a process that starts has limits that do not contradict
\* each other and no wallet of TARGET_WALLETS that may exceed them; wallets that
\* are recovered or added later are not looked at, nor is the live cap
\* (config/src/lib.rs:5).
RealOrdersOnlyFullyArmed ==
  Done("settings") =>
    LET env == case.in
        armed == /\ env.mode = "live" /\ EnvBool(env.enabled, FALSE)
                 /\ env.key = "usable" /\ env.funder = "funder"
                 /\ env.token \notin {None, ""} /\ ~EnvBool(env.demo, FALSE)
                 /\ \A k \in DOMAIN env.api : env.api[k] \notin {None, ""}
    IN  result.runs =>
          /\ armed <=> result.adapter = "live" /\ result.ready
          /\ result.adapter = "live" /\ ~armed => result.halted
          /\ 0 <= result.risk.of.minTrade
          /\ \A i \in DOMAIN result.wallets :
               result.wallets[i].maxTrade <= result.risk.of.maxTrade
          /\ result.risk.of.maxTrade <= result.risk.of.maxPortfolio
=============================================================================
