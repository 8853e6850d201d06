--------------------------- MODULE MCCalculations ---------------------------
(* The calculations on small sets of cases. *)
EXTENDS Calculations

CONSTANTS t1, t2

Moment == 5

(* Books: asks as listed, bids their mirror image about half a dollar. *)
Level(p, s) == [price |-> p, size |-> s]
Levels == {Level(p, s) : p \in {5100, 5200, 5400}, s \in {4, 8}}
            \cup {Level(Dollar, 8), Level(5300, 0)}
Ladder == <<Level(5100, 4), Level(5200, 8), Level(5400, 4)>>
Ladders == {<<Ladder[i], Ladder[j], Ladder[6 - i - j]>> :
              <<i, j>> \in {q \in (1..3) \X (1..3) : q[1] # q[2]}}
Ends == {<<Level(100, 8)>>, <<Level(9900, 8)>>}
Lists == {<<>>} \cup UNION {[1..n -> Levels] : n \in 1..2} \cup Ladders \cup Ends
           \cup [1..3 -> {Level(5100, 4), Level(5200, 8), Level(5400, 4), Level(Dollar, 8)}]

Wire(asks, tick, stamp) ==
  [asks |-> asks, tick |-> tick, stamp |-> stamp, minSize |-> 4,
   bids |-> [i \in DOMAIN asks |-> [asks[i] EXCEPT !.price = Dollar - @]]]

Wires == {Wire(asks, None, None) : asks \in Lists}
           \cup {Wire(asks, 1000, None) : asks \in Ends \cup {Ladder}}
           \cup {Wire(Ladder, None, 1)}

Moved == {Wire(<<Level(5200, 4), Level(5000, 4)>>, None, None)}

CopyAll == [NewWallet(t1) EXCEPT !.ratio = 100, !.maxTrade = 80000, !.minSource = 0,
                                 !.maxExposure = 90000, !.minTrade = 100]
Careful == [liquidityCap |-> 50] @@
             [CopyAll EXCEPT !.mode = "risk_adjusted", !.ratio = 200]
Choosy  == {[CopyAll EXCEPT !.enabled = FALSE], [CopyAll EXCEPT !.minSource = 50000],
            [CopyAll EXCEPT !.allowed = {t1}],  [CopyAll EXCEPT !.allowed = {t2}],
            [CopyAll EXCEPT !.allowed = {t1, t2}, !.blocked = {t1}]}

Roomy == [equity |-> 1000000, marketExposure |-> 0, maxPosition |-> 90000,
          maxTrade |-> 70000, minTrade |-> 100, liquidity |-> 0,
          remainingRisk |-> 85000, increment |-> 0]
Tight == [Roomy EXCEPT !.marketExposure = 54000, !.increment = 4]
Full  == [Roomy EXCEPT !.marketExposure = 90000]
Spent == [Roomy EXCEPT !.remainingRisk = 0]

CopySet ==
  [trade  : [side : {"buy", "sell"}, price : {5000}, quantity : {4, 8, 16},
             market : {t1}],
   wallet : {CopyAll, Careful}, wire : Wires, ctx : {Roomy, Tight, Full, Spent},
   config : [maxSlippage : {0, 200, 700}, maxBookAge : {3},
             pricesWithoutBook : {TRUE}]]
    \cup
  [trade  : [side : {"buy", "sell"}, price : {5000}, quantity : {4, 16},
             market : {t1}],
   wallet : Choosy, wire : {Wire(Ladder, None, None)}, ctx : {Roomy},
   config : [maxSlippage : {200}, maxBookAge : {3}, pricesWithoutBook : {TRUE}]]
    \cup
  [trade  : [side : {"buy", "sell"}, price : {100, 9900}, quantity : {16},
             market : {t1}],
   wallet : {CopyAll}, wire : {None, Wire(<<>>, None, None)}, ctx : {Tight},
   config : [maxSlippage : {200}, maxBookAge : {3}, pricesWithoutBook : BOOLEAN]]

Deal1(type, force, slippage, partial, quarters, reject) ==
  [type |-> type, force |-> force,
   params |-> [slippage |-> slippage, partial |-> partial],
   roll |-> [quarters |-> quarters, reject |-> reject]]

DealSet ==
  {Deal1("market", "ioc", 0,   TRUE,  4, FALSE),
   Deal1("market", "ioc", 100, TRUE,  4, FALSE),
   Deal1("market", "ioc", 100, TRUE,  3, FALSE),
   Deal1("market", "ioc", 0,   FALSE, 4, FALSE),
   Deal1("market", "ioc", 0,   FALSE, 1, FALSE),
   Deal1("limit",  "gtc", 0,   TRUE,  1, FALSE),
   Deal1("limit",  "fok", 100, TRUE,  4, FALSE),
   Deal1("market", "ioc", 0,   TRUE,  4, TRUE)}

Holdings(amounts) == UNION {[s -> amounts] : s \in SUBSET {t1, t2}}

(* Answers: tokens and sizes that cannot be read, and tokens listed twice. *)
Answers == {None} \cup
           UNION {[1..n -> [token : {t1, t2, None}, size : {None, -3, 0, 1, 2, 3}]] :
                    n \in 0..2}

PositionSet == [own : Holdings(-3..3), answer : Answers, tolerance : {1},
                haltTolerance : {2}]

(* Token ids up to 699 in words of two bytes of 16 values, so up to 255. *)
Digits == {0, 2, 5, 6, 10}

SigningSet ==
  [funder : {None, "proxy"},
   request : [side : {"buy", "sell"}, quantity : 1..45, price : 1..9,
              token : {<<7>>}]]
    \cup
  [funder : {None}, request : [side : {"buy"}, quantity : {20}, price : {5},
                               token : UNION {[1..n -> Digits] : n \in 1..3}]]

NoLimits == [minTrade |-> None, maxTrade |-> None, maxPosition |-> None,
             maxPortfolio |-> None, maxOpen |-> None, liveCap |-> None]
LimitSet == {NoLimits} \cup {[NoLimits EXCEPT ![k] = v] :
                              k \in DOMAIN NoLimits, v \in {-1, 0, 3, 50, 2000, 9000}}
Entry(address, ratio, cap) == [address |-> address, ratio |-> ratio, cap |-> cap]
WalletSet == {<<>>, <<Entry(t1, None, None)>>, <<Entry(t1, 50, 60)>>,
              <<Entry(t1, None, 60), Entry(t2, None, 200)>>,
              <<Entry(t1, None, 10), Entry(t1, None, 10)>>,
              <<Entry("malformed", None, None)>>, <<Entry(t1, 1100, None)>>}

Api(k, s) == [key |-> k, secret |-> s, passphrase |-> "set"]

EnvSet ==
  [mode : {None, "", "paper", "live", "replay", "lives"},
   enabled : {None, "true", "maybe"}, key : {None, "usable", "junk"},
   api : {Api("set", "set"), Api("set", ""), Api(None, None)},
   funder : {None, "funder", "malformed"}, token : {None, "set"},
   demo : {None, "on"}, replay : {None, "file"},
   limits : {NoLimits}, wallets : {<<>>}]
    \cup
  [mode : {"paper", "live"}, enabled : {"true"}, key : {"usable"},
   api : {Api("set", "set")}, funder : {"funder"}, token : {"set"},
   demo : {None}, replay : {None}, limits : LimitSet, wallets : WalletSet]
=============================================================================
