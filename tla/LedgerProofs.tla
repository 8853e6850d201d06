---------------------------- MODULE LedgerProofs ----------------------------
(***************************************************************************)
(* Proofs about Ledger, for any pipelines, prices, quantities, days and    *)
(* budgets: every fill is on record, the day's loss and the peak miss      *)
(* nothing, the portfolio implements the account of AccountBook, cash,     *)
(* position and profit balance, and a restart finds what was saved.        *)
(***************************************************************************)
EXTENDS Ledger, SumTheorems

(***************************************************************************)
(* The types of all variables, as sets.                                    *)
(***************************************************************************)
Snapshots == [at : Nat, cash : Int, realized : Int]
Positions == [qty : Int, avg : Nat]
Holdings  == [known : BOOLEAN, position : Positions, mark : Prices \cup {Unmarked}]
Bookers   == [pc : BookerStages, fill : Nat, signed : Int, price : Nat, day : Days,
              ordered : BOOLEAN, result : Int, snap : Snapshots]

\* The steps in which a pipeline has a fill, and those before its profit is
\* booked, in which it still needs its trade.
WithFill  == {"executed", "ordered", "paid", "moved", "booked"}
WithTrade == {"executed", "ordered", "paid"}

BookerOK(b, n) ==
  /\ b.pc \in WithFill  => b.fill \in 1..n
  /\ b.pc \notin WithFill => b.fill = 0
  /\ b.pc \in WithTrade => b.signed \in Quantities /\ b.price \in Prices

\* One refresh of the peak, and those of all tasks.
Refresh   == [pc : RefreshStages, sum : Int]
Refreshed == [Tasks -> Refresh]

AccountType ==
  /\ refresh \in Refreshed
  /\ cash \in Int /\ realized \in Int /\ peak \in Int /\ today \in Days
  /\ held \in Holdings /\ PositionOK(held.position)
  /\ daily \in [day : Days, profit : Int]

BookersType == /\ booker \in [Pipelines -> Bookers]
               /\ \A p \in Pipelines : BookerOK(booker[p], made)

KeeperType == keeper \in [pc : KeeperStages, snap : Snapshots, quiet : BOOLEAN]

StoredType == /\ stored \in [snap : Snapshots, row : Holdings, fills : SUBSET (1..made)]
              /\ PositionOK(stored.row.position)

CountsType ==
  /\ budget \in Budgets /\ made \in 0..budget.fills
  /\ ticks \in Nat /\ upsets \in 0..budget.upsets

HistoryType ==
  /\ excused \subseteq 1..made /\ saved \in BOOLEAN /\ straddled \in BOOLEAN
  /\ earned \in [Days -> Int]

TypeInv == /\ AccountType /\ BookersType /\ KeeperType
           /\ StoredType /\ CountsType /\ HistoryType

(***************************************************************************)
(* The fills on record.                                                    *)
(***************************************************************************)

\* A fill of which the order is not in the database, so that it cannot be there.
Unordered(b) == b.pc \in {"ordered", "paid", "moved", "booked"} /\ ~b.ordered

UnorderedExcused ==
  \A p \in Pipelines : Unordered(booker[p]) => booker[p].fill \in excused

AuditInv == TypeInv /\ UnorderedExcused /\ AuditComplete

(***************************************************************************)
(* The bucket of the day.                                                  *)
(***************************************************************************)

\* The bucket is of the latest day anything was earned on.
BucketRight ==
  straddled \/ /\ daily.day <= today
               /\ daily.profit = earned[daily.day]
               /\ \A d \in Days : d > daily.day => earned[d] = 0

(***************************************************************************)
(* What is saved.                                                          *)
(***************************************************************************)

\* The snapshots that pipelines have in hand with a later stamp are right.
Fresh(at) ==
  \A p \in Pipelines :
    booker[p].pc \in {"reading", "read"} /\ booker[p].snap.at > at
      => /\ booker[p].snap.cash = cash
         /\ booker[p].pc = "read" => booker[p].snap.realized = realized

IsRight(s) == s.cash = cash /\ s.realized = realized

\* The latest snapshot is right, and none in hand replaces it by a wrong one.
Persisted == IsRight(stored.snap) /\ Fresh(stored.snap.at)

\* The stamp of the snapshot of housekeeping is its own.
Stamped ==
  /\ stored.snap.at <= ticks
  /\ \A p \in Pipelines :
       booker[p].pc \in {"reading", "read"} => booker[p].snap.at <= ticks
  /\ keeper.pc \in {"reading", "read"} =>
       /\ keeper.snap.at <= ticks /\ keeper.snap.at # stored.snap.at
       /\ \A p \in Pipelines :
            booker[p].pc \in {"reading", "read"} => booker[p].snap.at # keeper.snap.at

\* While housekeeping runs undisturbed nothing is half booked, its snapshot is
\* right, and so is every later one.
QuietRight ==
  /\ saved \/ keeper.quiet => ~Booking
  /\ keeper.quiet /\ keeper.pc \in {"reading", "read"} =>
       /\ keeper.snap.cash = cash
       /\ keeper.pc = "read" => keeper.snap.realized = realized
       /\ Fresh(keeper.snap.at)
       /\ stored.snap.at > keeper.snap.at => IsRight(stored.snap)
  /\ keeper.quiet /\ keeper.pc = "inserted" => Persisted
  /\ keeper.pc = "idle" => ~keeper.quiet

SavedRight ==
  saved => /\ Persisted
           /\ held.known => stored.row.position = held.position
           /\ keeper.pc \in {"reading", "read"} => keeper.quiet

KnownRows == /\ ~held.known => held.position = Flat
             /\ stored.row.position.qty # 0 => stored.row.known

Guarded == Stamped /\ QuietRight /\ SavedRight /\ KnownRows

-----------------------------------------------------------------------------
(***************************************************************************)
(* Lemmas: what a fill does to a position.                                 *)
(***************************************************************************)
LEMMA ProductAtLeast ==
  ASSUME NEW m \in Nat, NEW n \in Nat \ {0}
  PROVE  m * n \in Nat /\ m * n >= m
<1>1. PICK k \in Nat : n = k + 1
  <2>1. n - 1 \in Nat /\ n = (n - 1) + 1
    OBVIOUS
  <2> QED
    BY <2>1
<1>2. m * n = m * k + m /\ m * k \in Nat
  BY <1>1
<1> QED
  BY <1>2

LEMMA QuotientAtLeast ==
  ASSUME NEW m \in Nat, NEW n \in Nat \ {0}, m >= n
  PROVE  m \div n \in Nat \ {0}
<1> DEFINE q == m \div n
<1>1. q \in Int /\ m = n * q + (m % n) /\ m % n \in 0..(n - 1)
  OBVIOUS
<1>2. q >= 1
  OBVIOUS
<1> QED
  BY <1>1, <1>2

LEMMA AbsType == ASSUME NEW x \in Int PROVE AbsOf(x) \in Nat /\ (AbsOf(x) = 0 <=> x = 0)
BY DEF AbsOf

LEMMA RolledAverageType ==
  ASSUME NEW h \in Positions, PositionOK(h), NEW s \in Int \ {0}, NEW x \in Nat \ {0}
  PROVE  RolledAverage(h, s, x) \in Nat \ {0}
<1> DEFINE a == AbsOf(h.qty)
           b == AbsOf(s)
           g == h.avg
<1>1. a \in Nat /\ b \in Nat \ {0} /\ g \in Nat /\ (a # 0 => g # 0)
  BY AbsType DEF Positions, PositionOK
<1>2. RolledAverage(h, s, x) = (a * g + b * x) \div (a + b)
  BY DEF RolledAverage
<1> HIDE DEF a, b, g
<1>3. a * g \in Nat /\ a * g >= a
  BY <1>1, ProductAtLeast
<1>4. b * x \in Nat /\ b * x >= b
  BY <1>1, ProductAtLeast
<1> DEFINE m == a * g + b * x
           n == a + b
<1>5. m \in Nat /\ n \in Nat \ {0} /\ m >= n
  <2> DEFINE u == a * g
             v == b * x
  <2>1. u \in Nat /\ u >= a /\ v \in Nat /\ v >= b
    BY <1>3, <1>4
  <2> HIDE DEF u, v
  <2>2. u + v \in Nat /\ u + v >= a + b /\ a + b \in Nat \ {0}
    BY <1>1, <2>1
  <2> QED
    BY <2>2 DEF u, v
<1> HIDE DEF m, n
<1>6. m \div n \in Nat \ {0}
  BY <1>5, QuotientAtLeast
<1> QED
  BY <1>2, <1>6 DEF m, n

\* A position is flat exactly when it has no entry price, after any fill.
LEMMA PositionAfterType ==
  ASSUME NEW h \in Positions, PositionOK(h), NEW s \in Int \ {0}, NEW x \in Nat \ {0}
  PROVE  PositionAfter(h, s, x) \in Positions /\ PositionOK(PositionAfter(h, s, x))
<1>1. RolledAverage(h, s, x) \in Nat \ {0}
  BY RolledAverageType
<1>2. h.qty \in Int /\ h.avg \in Nat /\ (h.avg = 0 <=> h.qty = 0)
  BY DEF PositionOK
<1> DEFINE e == EntryAfter(h, s, x)
<1>3. e \in Nat /\ (e = 0 <=> h.qty + s = 0)
  BY <1>1, <1>2 DEF EntryAfter, Increases, Crosses
<1> HIDE DEF e
<1>4. PositionAfter(h, s, x) = [qty |-> h.qty + s, avg |-> e]
  BY DEF PositionAfter, e
<1> QED
  BY <1>2, <1>3, <1>4 DEF Positions, PositionOK

LEMMA ProductType == ASSUME NEW m \in Int, NEW n \in Int PROVE m * n \in Int
OBVIOUS

LEMMA RealizedType ==
  ASSUME NEW h \in Positions, NEW s \in Int, NEW x \in Nat, NEW fee \in Nat
  PROVE  Realized(h, s, x, fee) \in Int
<1> DEFINE c == LesserOf(AbsOf(s), AbsOf(h.qty))
           g == IF h.qty > 0 THEN x - h.avg ELSE h.avg - x
<1>1. c \in Int /\ g \in Int
  BY DEF LesserOf, AbsOf, Positions
<1>2. Realized(h, s, x, fee) = (IF Increases(h, s) THEN 0 ELSE c * g) - fee
  BY DEF Realized
<1> HIDE DEF c, g
<1>3. c * g \in Int
  BY <1>1, ProductType
<1> QED
  BY <1>2, <1>3

LEMMA CashDeltaType ==
  ASSUME NEW s \in Int, NEW x \in Nat, NEW fee \in Nat
  PROVE  CashDelta(s, x, fee) \in Int
<1>1. s * x \in Int
  BY ProductType
<1> QED
  BY <1>1 DEF CashDelta

LEMMA ValueType ==
  ASSUME NEW h \in Holdings
  PROVE  ValueOf(h) \in Int /\ CostOfHeld(h) \in Int
<1>1. h.position \in Positions /\ h.mark \in Prices \cup {0}
  BY DEF Holdings, Unmarked
<1>2. h.position.qty \in Int /\ h.position.avg \in Int
  BY <1>1 DEF Positions
<1>3. h.mark \in Int
  <2>1. \A m \in Prices \cup {0} : m \in Int
    BY PricesAssumption
  <2> QED
    BY <1>1, <2>1
<1>4. h.position.qty * h.position.avg \in Int /\ h.position.qty * h.mark \in Int
  BY <1>2, <1>3, ProductType
<1> QED
  BY <1>4 DEF ValueOf, CostOfHeld

LEMMA EquityType ==
  ASSUME NEW c \in Int, NEW h \in Holdings
  PROVE  EquityOf(c, h) \in Int
<1>1. ValueOf(h) \in Int
  BY ValueType
<1> QED
  BY <1>1 DEF EquityOf

-----------------------------------------------------------------------------
(***************************************************************************)
(* Type correctness.                                                       *)
(***************************************************************************)
LEMMA BudgetFacts ==
  ASSUME NEW b \in Budgets
  PROVE  /\ b.fills \in Nat /\ b.upsets \in Nat
         /\ \A t \in b.trades : t[1] \in Quantities /\ t[2] \in Prices
         /\ \A m \in b.marks : m \in Prices
         /\ \A d \in b.days : d \in Days
BY BudgetsAssumption

LEMMA ConstantFacts ==
  /\ Start \in Int /\ Fee \in Nat /\ 0 \in Days
  /\ \A x \in Prices : x \in Nat /\ x # 0
  /\ \A s \in Quantities : s \in Int /\ s # 0
  /\ \A d \in Days : d \in Nat
BY StartAssumption, PricesAssumption, QuantitiesAssumption, DaysAssumption

LEMMA NotHeldType == NotHeld \in Holdings /\ PositionOK(NotHeld.position)
BY DEF NotHeld, Holdings, Positions, PositionOK, Flat, Unmarked

LEMMA NoSnapshotType == NoSnapshot \in Snapshots
BY StartAssumption DEF NoSnapshot, Snapshots

LEMMA IdleBookerType ==
  /\ IdleBooker \in Bookers
  /\ \A n \in Nat : BookerOK(IdleBooker, n)
BY NoSnapshotType, DaysAssumption
   DEF IdleBooker, Bookers, BookerStages, BookerOK, WithFill, WithTrade

LEMMA IdleKeeperType ==
  IdleKeeper \in [pc : KeeperStages, snap : Snapshots, quiet : BOOLEAN]
BY NoSnapshotType DEF IdleKeeper, KeeperStages

\* One pipeline changes, and there may be a fill more.
LEMMA BookerChanges ==
  ASSUME BookersType, made \in Nat, made' \in Nat, made' >= made,
         NEW p \in Pipelines, NEW B \in Bookers, BookerOK(B, made'),
         booker' = [booker EXCEPT ![p] = B]
  PROVE  BookersType'
<1>1. booker' \in [Pipelines -> Bookers]
  BY DEF BookersType
<1>2. ASSUME NEW q \in Pipelines PROVE BookerOK(booker'[q], made')
  <2>1. CASE q = p
    BY <2>1 DEF BookersType
  <2>2. CASE q # p
    <3>1. booker'[q] = booker[q] /\ BookerOK(booker[q], made)
      BY <2>2 DEF BookersType
    <3>2. 1..made \subseteq 1..made'
      OBVIOUS
    <3> QED
      BY <3>1, <3>2 DEF BookerOK
  <2> QED
    BY <2>1, <2>2
<1> QED
  BY <1>1, <1>2 DEF BookersType

LEMMA AllRestedType == AllRested \in Refreshed
BY DEF AllRested, NoRefresh, Refreshed, Refresh, RefreshStages

\* One task's refresh goes on.
LEMMA RefreshChanges ==
  ASSUME refresh \in Refreshed, NEW t, NEW pc \in RefreshStages, NEW n \in Int,
         refresh' = [refresh EXCEPT ![t] = [pc |-> pc, sum |-> n]]
  PROVE  refresh' \in Refreshed
<1> DEFINE r == [pc |-> pc, sum |-> n]
<1>1. r \in Refresh
  BY DEF Refresh
<1> HIDE DEF r
<1>2. refresh' = [refresh EXCEPT ![t] = r]
  BY DEF r
<1> QED
  BY <1>1, <1>2 DEF Refreshed

LEMMA RefreshDueType ==
  ASSUME refresh \in Refreshed, NEW t, RefreshDue(t)
  PROVE  refresh' \in Refreshed
<1>1. "due" \in RefreshStages /\ 0 \in Int
  BY DEF RefreshStages
<1>2. refresh' = [refresh EXCEPT ![t] = [pc |-> "due", sum |-> 0]]
  BY DEF RefreshDue
<1> QED
  BY <1>1, <1>2, RefreshChanges

LEMMA TypeInvInit == Init => TypeInv
<1> SUFFICES ASSUME Init PROVE TypeInv
  OBVIOUS
<1> USE DEF Init
<1>1. made = 0 /\ budget.fills \in Nat /\ budget.upsets \in Nat
  BY BudgetFacts
<1>2. AccountType
  BY ConstantFacts, NotHeldType, AllRestedType DEF AccountType
<1>3. BookersType
  BY <1>1, IdleBookerType DEF BookersType
<1>4. KeeperType
  BY IdleKeeperType DEF KeeperType
<1>5. StoredType
  BY NotHeldType, NoSnapshotType DEF StoredType
<1>6. CountsType
  BY <1>1 DEF CountsType
<1>7. HistoryType
  <2>1. earned \in [Days -> Int]
    BY DEF NothingEarned
  <2> QED
    BY <2>1 DEF HistoryType
<1> QED
  BY <1>2, <1>3, <1>4, <1>5, <1>6, <1>7 DEF TypeInv

LEMMA TypeInvImplies == TypeInv => TypeOK
<1> SUFFICES ASSUME TypeInv PROVE TypeOK
  OBVIOUS
<1> USE DEF TypeInv
<1>1. \A s \in Snapshots : SnapOK(s)
  BY DEF Snapshots, SnapOK
<1>2. \A h \in Holdings : PositionOK(h.position) => HeldOK(h)
  BY DEF Holdings, HeldOK
<1>3. HeldOK(held) /\ HeldOK(stored.row)
  BY <1>2 DEF AccountType, StoredType
<1>4. ASSUME NEW p \in Pipelines
      PROVE  /\ booker[p].pc \in BookerStages /\ booker[p].fill \in 0..made
             /\ SnapOK(booker[p].snap)
  <2>1. booker[p] \in Bookers /\ BookerOK(booker[p], made) /\ made \in Nat
    BY BudgetFacts DEF BookersType, CountsType
  <2> QED
    BY <1>1, <2>1 DEF Bookers, BookerOK
<1>5. /\ keeper.pc \in KeeperStages /\ SnapOK(keeper.snap) /\ keeper.quiet \in BOOLEAN
      /\ SnapOK(stored.snap) /\ stored.fills \subseteq 1..made
  BY <1>1 DEF KeeperType, StoredType
<1> QED
  BY <1>3, <1>4, <1>5
     DEF TypeOK, AccountType, CountsType, HistoryType, Refreshed, Refresh

\* What is known of a pipeline at its steps.
LEMMA BookerFacts ==
  ASSUME TypeInv, NEW p \in Pipelines
  PROVE  /\ booker[p] \in Bookers /\ BookerOK(booker[p], made)
         /\ made \in Nat /\ ticks \in Nat
         /\ booker[p].pc \in WithTrade =>
              booker[p].signed \in Int \ {0} /\ booker[p].price \in Nat \ {0}
<1>1. booker[p] \in Bookers /\ BookerOK(booker[p], made)
  BY DEF TypeInv, BookersType
<1>2. made \in Nat /\ ticks \in Nat
  BY BudgetFacts DEF TypeInv, CountsType
<1>3. booker[p].pc \in WithTrade =>
        booker[p].signed \in Int \ {0} /\ booker[p].price \in Nat \ {0}
  BY <1>1, ConstantFacts DEF BookerOK
<1> QED
  BY <1>1, <1>2, <1>3

LEMMA ExecuteType ==
  ASSUME TypeInv, NEW p \in Pipelines, NEW trade \in budget.trades, Execute(p, trade)
  PROVE  TypeInv'
<1> USE DEF TypeInv
<1> DEFINE B == [IdleBooker EXCEPT !.pc = "executed", !.fill = made + 1,
                   !.signed = trade[1], !.price = trade[2], !.day = today]
<1>1. /\ made < budget.fills /\ made' = made + 1
      /\ booker' = [booker EXCEPT ![p] = B]
      /\ UNCHANGED <<portfolioVars, today, keeper, stored, ticks, upsets, historyVars,
                     budget>>
  BY DEF Execute
<1>2. /\ made \in Nat /\ budget.fills \in Nat
      /\ trade[1] \in Quantities /\ trade[2] \in Prices
      /\ trade[1] \in Int /\ trade[2] \in Nat
  BY BudgetFacts, ConstantFacts DEF CountsType
<1>3. B \in Bookers /\ BookerOK(B, made + 1)
  <2> DEFINE s == trade[1]
             x == trade[2]
             n == made + 1
  <2>1. /\ today \in Days /\ n \in Nat /\ n \in 1..n
        /\ s \in Quantities /\ s \in Int /\ x \in Prices /\ x \in Nat
    BY <1>2 DEF AccountType
  <2>2. B = [IdleBooker EXCEPT !.pc = "executed", !.fill = n, !.signed = s,
                               !.price = x, !.day = today]
    OBVIOUS
  <2> HIDE DEF s, x, n, B
  <2>3. B \in Bookers
    BY <2>1, <2>2, IdleBookerType DEF Bookers, BookerStages
  <2>4. B.pc = "executed" /\ B.fill = n /\ B.signed = s /\ B.price = x
    BY <2>2, IdleBookerType DEF Bookers
  <2> QED
    BY <2>1, <2>3, <2>4 DEF BookerOK, WithFill, WithTrade, n
<1> HIDE DEF B
<1>4. BookersType'
  <2>1. made' \in Nat /\ made' >= made /\ BookerOK(B, made')
    BY <1>1, <1>2, <1>3
  <2> QED
    BY <1>1, <1>2, <1>3, <2>1, BookerChanges
<1>5. 1..made \subseteq 1..(made + 1)
  BY <1>2
<1>6. StoredType' /\ HistoryType'
  BY <1>1, <1>5 DEF StoredType, HistoryType, historyVars
<1>7. CountsType'
  BY <1>1, <1>2 DEF CountsType
<1>8. AccountType' /\ KeeperType'
  BY <1>1 DEF AccountType, KeeperType, portfolioVars
<1> QED
  BY <1>4, <1>6, <1>7, <1>8

LEMMA StoreOrderType ==
  ASSUME TypeInv, NEW p \in Pipelines, StoreOrder(p)
  PROVE  TypeInv'
<1> USE DEF TypeInv
<1>1. PICK ok \in Writes :
        /\ booker' = [booker EXCEPT ![p] = [@ EXCEPT !.pc = "ordered", !.ordered = ok]]
        /\ Excuse(p, ok)
  BY DEF StoreOrder
<1>2. /\ booker[p].pc = "executed"
      /\ UNCHANGED <<portfolioVars, today, keeper, stored, countVars, saved, earned,
                     straddled, budget>>
  BY DEF StoreOrder, At
<1>3. ok \in BOOLEAN
  BY BudgetsAssumption DEF Writes, CountsType
<1> DEFINE B == [booker[p] EXCEPT !.pc = "ordered", !.ordered = ok]
<1>4. booker' = [booker EXCEPT ![p] = B] /\ made' = made
  BY <1>1, <1>2 DEF countVars
<1>5. B \in Bookers /\ BookerOK(B, made)
  BY <1>2, <1>3, BookerFacts DEF Bookers, BookerStages, BookerOK, WithFill, WithTrade
<1> HIDE DEF B
<1>6. BookersType'
  <2>1. made \in Nat /\ made' >= made
    BY <1>4, BookerFacts
  <2> QED
    BY <1>4, <1>5, <2>1, BookerChanges
<1>7. booker[p].fill \in 1..made
  BY <1>2, BookerFacts DEF BookerOK, WithFill
<1>8. HistoryType'
  BY <1>1, <1>2, <1>4, <1>7 DEF HistoryType, Excuse
<1>9. AccountType' /\ KeeperType' /\ StoredType' /\ CountsType'
  BY <1>2 DEF AccountType, KeeperType, StoredType, CountsType, portfolioVars, countVars
<1> QED
  BY <1>6, <1>8, <1>9

LEMMA DisturbType ==
  ASSUME KeeperType, Disturb
  PROVE  KeeperType' /\ saved' = FALSE /\ keeper'.quiet = FALSE
         /\ keeper'.pc = keeper.pc /\ keeper'.snap = keeper.snap
BY DEF KeeperType, Disturb

LEMMA PayFillType ==
  ASSUME TypeInv, NEW p \in Pipelines, PayFill(p)
  PROVE  TypeInv'
<1> USE DEF TypeInv
<1> DEFINE B == [booker[p] EXCEPT !.pc = "paid"]
<1>1. /\ booker[p].pc = "ordered"
      /\ cash' = cash + CashDelta(booker[p].signed, booker[p].price, Fee)
      /\ booker' = [booker EXCEPT ![p] = B]
      /\ Disturb
      /\ UNCHANGED <<held, realized, peak, daily, refresh, today, stored, countVars,
                     excused, earned, straddled, budget>>
  BY DEF PayFill, At, GoTo
<1>2. made' = made
  BY <1>1 DEF countVars
<1>3. B \in Bookers /\ BookerOK(B, made)
  BY <1>1, BookerFacts DEF Bookers, BookerStages, BookerOK, WithFill, WithTrade
<1> HIDE DEF B
<1>4. BookersType'
  <2>1. made \in Nat /\ made' >= made
    BY <1>2, BookerFacts
  <2> QED
    BY <1>1, <1>2, <1>3, <2>1, BookerChanges
<1>5. KeeperType' /\ HistoryType'
  BY <1>1, <1>2, DisturbType DEF HistoryType
<1>6. CashDelta(booker[p].signed, booker[p].price, Fee) \in Int
  <2>1. booker[p].signed \in Int /\ booker[p].price \in Nat
    BY <1>1, BookerFacts DEF WithTrade
  <2> QED
    BY <2>1, ConstantFacts, CashDeltaType
<1>7. cash' \in Int
  BY <1>1, <1>6 DEF AccountType
<1>8. AccountType' /\ StoredType' /\ CountsType'
  BY <1>1, <1>7 DEF AccountType, StoredType, CountsType, countVars
<1> QED
  BY <1>4, <1>5, <1>8

LEMMA MovePositionType ==
  ASSUME TypeInv, NEW p \in Pipelines, MovePosition(p)
  PROVE  TypeInv'
<1> USE DEF TypeInv
<1> DEFINE b == booker[p]
           r == Realized(held.position, b.signed, b.price, Fee)
           h == PositionAfter(held.position, b.signed, b.price)
           B == [b EXCEPT !.pc = "moved", !.result = r]
<1>1. /\ b.pc = "paid"
      /\ held' = [held EXCEPT !.known = TRUE, !.position = h]
      /\ booker' = [booker EXCEPT ![p] = B]
      /\ UNCHANGED <<cash, realized, peak, daily, refresh, today, keeper, stored,
                     restVars>>
  BY DEF MovePosition, At
<1>2. made' = made
  BY <1>1 DEF restVars, countVars
<1>3. /\ b \in Bookers /\ BookerOK(b, made) /\ made \in Nat
      /\ b.signed \in Int \ {0} /\ b.price \in Nat \ {0}
  BY <1>1, BookerFacts DEF WithTrade
<1>4. held \in Holdings /\ held.position \in Positions /\ PositionOK(held.position)
  BY DEF AccountType, Holdings
<1>5. r \in Int
  <2>1. b.signed \in Int /\ b.price \in Nat /\ Fee \in Nat
    BY <1>3, ConstantFacts
  <2> QED
    BY <1>4, <2>1, RealizedType
<1>6. h \in Positions /\ PositionOK(h)
  BY <1>3, <1>4, PositionAfterType
<1> HIDE DEF r, h, b
<1>7. B \in Bookers /\ BookerOK(B, made)
  BY <1>1, <1>3, <1>5 DEF Bookers, BookerStages, BookerOK, WithFill, WithTrade
<1> HIDE DEF B
<1>8. BookersType'
  <2>1. made \in Nat /\ made' >= made
    BY <1>2, <1>3
  <2> QED
    BY <1>1, <1>2, <1>7, <2>1, BookerChanges
<1>9. held' \in Holdings /\ held'.position = h
  BY <1>1, <1>4, <1>6 DEF Holdings
<1>10. AccountType'
  BY <1>1, <1>6, <1>9 DEF AccountType
<1>11. KeeperType' /\ StoredType' /\ CountsType' /\ HistoryType'
  BY <1>1 DEF KeeperType, StoredType, CountsType, HistoryType, restVars, countVars,
              historyVars
<1> QED
  BY <1>8, <1>10, <1>11

LEMMA BookProfitType ==
  ASSUME TypeInv, NEW p \in Pipelines, BookProfit(p)
  PROVE  TypeInv'
<1> USE DEF TypeInv
<1> DEFINE b == booker[p]
           B == [IdleBooker EXCEPT !.pc = "booked", !.fill = b.fill,
                                   !.ordered = b.ordered]
<1>1. /\ b.pc = "moved"
      /\ realized' = realized + b.result
      /\ daily' = [day    |-> b.day,
                   profit |-> b.result
                                + IF daily.day = b.day THEN daily.profit ELSE 0]
      /\ RefreshDue(p)
      /\ booker' = [booker EXCEPT ![p] = B]
      /\ earned' = [earned EXCEPT ![b.day] = @ + b.result]
      /\ straddled' = (straddled \/ b.day # today)
      /\ UNCHANGED <<cash, held, peak, today, keeper, stored, countVars, excused,
                     saved, budget>>
  BY DEF BookProfit, At
<1>2. made' = made
  BY <1>1 DEF countVars
<1>3. /\ b \in Bookers /\ BookerOK(b, made) /\ made \in Nat
      /\ b.result \in Int /\ b.day \in Days /\ b.ordered \in BOOLEAN
  BY BookerFacts DEF Bookers
<1>4. b.fill \in 1..made /\ b.fill \in Nat
  BY <1>1, <1>3 DEF BookerOK, WithFill
<1> HIDE DEF b
<1>5. B \in Bookers /\ BookerOK(B, made)
  <2>1. B \in Bookers
    BY <1>3, <1>4, IdleBookerType DEF Bookers, BookerStages
  <2>2. B.pc = "booked" /\ B.fill = b.fill
    BY IdleBookerType DEF Bookers
  <2> HIDE DEF B
  <2> QED
    BY <1>4, <2>1, <2>2 DEF BookerOK, WithFill, WithTrade
<1> HIDE DEF B
<1>6. BookersType'
  <2>1. made \in Nat /\ made' >= made
    BY <1>2, <1>3
  <2> QED
    BY <1>1, <1>2, <1>5, <2>1, BookerChanges
<1>7. refresh' \in Refreshed
  BY <1>1, RefreshDueType DEF AccountType
<1>8. daily' \in [day : Days, profit : Int]
  BY <1>1, <1>3 DEF AccountType
<1>9. realized' \in Int
  BY <1>1, <1>3 DEF AccountType
<1>10. AccountType'
  BY <1>1, <1>7, <1>8, <1>9 DEF AccountType
<1>11. earned' \in [Days -> Int]
  BY <1>1, <1>3 DEF HistoryType
<1>12. HistoryType'
  BY <1>1, <1>2, <1>11 DEF HistoryType
<1>13. KeeperType' /\ StoredType' /\ CountsType'
  BY <1>1 DEF KeeperType, StoredType, CountsType, countVars
<1> QED
  BY <1>6, <1>10, <1>12, <1>13

LEMMA StoreFillType ==
  ASSUME TypeInv, NEW p \in Pipelines, StoreFill(p)
  PROVE  TypeInv'
<1> USE DEF TypeInv
<1> DEFINE B == IF budget.database = "none" THEN IdleBooker
                ELSE [IdleBooker EXCEPT !.pc = "filed"]
<1>1. PICK ok \in Writes :
        /\ stored' = IF ok /\ booker[p].ordered
                       THEN [stored EXCEPT !.fills = @ \cup {booker[p].fill}]
                       ELSE stored
        /\ Excuse(p, ok)
  BY DEF StoreFill
<1>2. /\ booker[p].pc = "booked"
      /\ booker' = [booker EXCEPT ![p] = B]
      /\ UNCHANGED <<portfolioVars, today, keeper, countVars, saved, earned,
                     straddled, budget>>
  BY DEF StoreFill, At
<1>3. made' = made /\ made \in Nat /\ booker[p].fill \in 1..made
  BY <1>2, BookerFacts DEF countVars, BookerOK, WithFill
<1>4. B \in Bookers /\ BookerOK(B, made)
  <2> DEFINE C == [IdleBooker EXCEPT !.pc = "filed"]
  <2>1. C \in Bookers /\ C.pc = "filed" /\ C.fill = IdleBooker.fill
    BY IdleBookerType DEF Bookers, BookerStages
  <2>2. IdleBooker.fill = 0
    BY DEF IdleBooker
  <2>3. BookerOK(C, made)
    BY <2>1, <2>2 DEF BookerOK, WithFill, WithTrade
  <2> QED
    BY <1>3, <2>1, <2>3, IdleBookerType
<1> HIDE DEF B
<1>5. BookersType'
  <2>1. made' >= made
    BY <1>3
  <2> QED
    BY <1>2, <1>3, <1>4, <2>1, BookerChanges
<1>6. StoredType'
  <2>1. stored' \in [snap : Snapshots, row : Holdings, fills : SUBSET (1..made)]
        /\ stored'.row = stored.row
    BY <1>1, <1>3 DEF StoredType
  <2> QED
    BY <1>3, <2>1 DEF StoredType
<1>7. HistoryType'
  BY <1>1, <1>2, <1>3 DEF HistoryType, Excuse
<1>8. AccountType' /\ KeeperType' /\ CountsType'
  BY <1>2 DEF AccountType, KeeperType, CountsType, portfolioVars, countVars
<1> QED
  BY <1>5, <1>6, <1>7, <1>8

LEMMA SnapshotBegunType ==
  ASSUME TypeInv
  PROVE  /\ SnapshotBegun \in Snapshots
         /\ SnapshotBegun.at = ticks + 1 /\ SnapshotBegun.cash = cash
         /\ ticks + 1 \in Nat
<1>1. ticks \in Nat /\ cash \in Int
  BY DEF TypeInv, CountsType, AccountType
<1> QED
  BY <1>1 DEF SnapshotBegun, Snapshots

\* Only the step of a pipeline and its snapshot change.
LEMMA SnapshotStep ==
  ASSUME TypeInv, NEW p \in Pipelines, NEW pc \in BookerStages \ WithFill,
         booker[p].pc \notin WithFill, NEW s \in Snapshots, NEW B,
         B = [booker[p] EXCEPT !.pc = pc, !.snap = s],
         booker' = [booker EXCEPT ![p] = B], made' = made
  PROVE  BookersType'
<1>1. booker[p] \in Bookers /\ BookerOK(booker[p], made) /\ made \in Nat
  BY BookerFacts
<1>2. B \in Bookers /\ B.pc = pc /\ B.fill = booker[p].fill
  BY <1>1 DEF Bookers
<1>3. BookerOK(B, made)
  BY <1>1, <1>2 DEF BookerOK, WithFill, WithTrade
<1>4. made' \in Nat /\ made' >= made
  BY <1>1
<1> QED
  BY <1>1, <1>2, <1>3, <1>4, BookerChanges DEF TypeInv

LEMMA BeginSnapshotType ==
  ASSUME TypeInv, NEW p \in Pipelines, BeginSnapshot(p)
  PROVE  TypeInv'
<1> USE DEF TypeInv
<1> DEFINE s == SnapshotBegun
           B == [booker[p] EXCEPT !.pc = "reading", !.snap = s]
<1>1. /\ booker[p].pc = "filed" /\ ticks' = ticks + 1
      /\ booker' = [booker EXCEPT ![p] = B]
      /\ UNCHANGED <<portfolioVars, today, keeper, stored, made, upsets, historyVars,
                     budget>>
  BY DEF BeginSnapshot, At
<1>2. s \in Snapshots /\ ticks + 1 \in Nat
  BY SnapshotBegunType
<1>3. "reading" \in BookerStages \ WithFill /\ booker[p].pc \notin WithFill
  BY <1>1 DEF BookerStages, WithFill
<1> HIDE DEF s
<1>4. BookersType'
  BY <1>1, <1>2, <1>3, SnapshotStep
<1>5. CountsType'
  BY <1>1, <1>2 DEF CountsType
<1>6. AccountType' /\ KeeperType' /\ StoredType' /\ HistoryType'
  BY <1>1 DEF AccountType, KeeperType, StoredType, HistoryType, portfolioVars,
              historyVars
<1> QED
  BY <1>4, <1>5, <1>6

LEMMA EndSnapshotType ==
  ASSUME TypeInv, NEW p \in Pipelines, EndSnapshot(p)
  PROVE  TypeInv'
<1> USE DEF TypeInv
<1> DEFINE s == [booker[p].snap EXCEPT !.realized = realized]
           B == [booker[p] EXCEPT !.pc = "read", !.snap = s]
<1>1. /\ booker[p].pc = "reading"
      /\ UNCHANGED <<portfolioVars, today, keeper, stored, restVars>>
  BY DEF EndSnapshot, At
<1>2. booker' = [booker EXCEPT ![p] = B]
  BY DEF EndSnapshot
<1>3. s \in Snapshots
  <2>1. booker[p].snap \in Snapshots /\ realized \in Int
    BY BookerFacts DEF Bookers, AccountType
  <2> QED
    BY <2>1 DEF Snapshots
<1>4. "read" \in BookerStages \ WithFill /\ booker[p].pc \notin WithFill
  BY <1>1 DEF BookerStages, WithFill
<1>5. made' = made
  BY <1>1 DEF restVars, countVars
<1> HIDE DEF s
<1>6. BookersType'
  BY <1>2, <1>3, <1>4, <1>5, SnapshotStep
<1>7. AccountType' /\ KeeperType' /\ StoredType' /\ CountsType' /\ HistoryType'
  BY <1>1 DEF AccountType, KeeperType, StoredType, CountsType, HistoryType,
              portfolioVars, restVars, countVars, historyVars
<1> QED
  BY <1>6, <1>7

LEMMA LatestType ==
  ASSUME StoredType, NEW s \in Snapshots
  PROVE  Latest(s) \in Snapshots
BY DEF StoredType, Latest

LEMMA SnapshotStored ==
  ASSUME StoredType, NEW s \in Snapshots, made' = made,
         stored' = stored \/ stored' = [stored EXCEPT !.snap = Latest(s)]
  PROVE  /\ StoredType' /\ stored'.row = stored.row /\ stored'.fills = stored.fills
         /\ stored'.snap = stored.snap \/ stored'.snap = Latest(s)
<1>1. Latest(s) \in Snapshots
  BY LatestType
<1> QED
  BY <1>1 DEF StoredType

LEMMA StoreSnapshotType ==
  ASSUME TypeInv, NEW p \in Pipelines, StoreSnapshot(p)
  PROVE  TypeInv'
<1> USE DEF TypeInv
<1>1. /\ booker' = [booker EXCEPT ![p] = IdleBooker]
      /\ stored' = stored \/ stored' = [stored EXCEPT !.snap = Latest(booker[p].snap)]
      /\ UNCHANGED <<portfolioVars, today, keeper, restVars>>
  BY DEF StoreSnapshot
<1>2. made' = made /\ made \in Nat /\ booker[p].snap \in Snapshots
  BY <1>1, BookerFacts DEF restVars, countVars, Bookers
<1>3. BookersType'
  <2>1. BookerOK(IdleBooker, made') /\ IdleBooker \in Bookers /\ made' >= made
    BY <1>2, IdleBookerType
  <2> QED
    BY <1>1, <1>2, <2>1, BookerChanges
<1>4. StoredType'
  BY <1>1, <1>2, SnapshotStored
<1>5. AccountType' /\ KeeperType' /\ CountsType' /\ HistoryType'
  BY <1>1 DEF AccountType, KeeperType, CountsType, HistoryType, portfolioVars,
              restVars, countVars, historyVars
<1> QED
  BY <1>3, <1>4, <1>5

LEMMA KeeperTickType ==
  ASSUME TypeInv, KeeperTick
  PROVE  TypeInv'
<1> USE DEF TypeInv
<1>1. /\ ticks' = ticks + 1
      /\ keeper' = [pc |-> "reading", snap |-> SnapshotBegun, quiet |-> ~Booking]
      /\ UNCHANGED <<portfolioVars, today, booker, stored, made, upsets, historyVars,
                     budget>>
  BY DEF KeeperTick
<1>2. SnapshotBegun \in Snapshots /\ ticks + 1 \in Nat
  BY SnapshotBegunType
<1>3. KeeperType'
  <2>1. (~Booking) \in BOOLEAN
    BY Zenon
  <2> QED
    BY <1>1, <1>2, <2>1 DEF KeeperType, KeeperStages
<1>4. CountsType'
  BY <1>1, <1>2 DEF CountsType
<1>5. AccountType' /\ BookersType' /\ StoredType' /\ HistoryType'
  BY <1>1 DEF AccountType, BookersType, StoredType, HistoryType, portfolioVars,
              historyVars
<1> QED
  BY <1>3, <1>4, <1>5

LEMMA KeeperReadsType ==
  ASSUME TypeInv, KeeperReads
  PROVE  TypeInv'
<1> USE DEF TypeInv
<1>1. /\ keeper' = [keeper EXCEPT !.pc = "read", !.snap.realized = realized]
      /\ UNCHANGED <<portfolioVars, today, booker, stored, restVars>>
  BY DEF KeeperReads
<1>2. KeeperType'
  BY <1>1 DEF KeeperType, KeeperStages, Snapshots, AccountType
<1>3. /\ AccountType' /\ BookersType' /\ StoredType' /\ CountsType' /\ HistoryType'
  BY <1>1 DEF AccountType, BookersType, StoredType, CountsType, HistoryType,
              portfolioVars, restVars, countVars, historyVars
<1> QED
  BY <1>2, <1>3

LEMMA KeeperInsertsType ==
  ASSUME TypeInv, KeeperInserts
  PROVE  TypeInv'
<1> USE DEF TypeInv
<1>1. PICK ok \in Writes :
        /\ stored' = IF ok THEN [stored EXCEPT !.snap = Latest(keeper.snap)]
                           ELSE stored
        /\ keeper' = [keeper EXCEPT !.pc = "inserted", !.quiet = @ /\ ok]
  BY DEF KeeperInserts
<1>2. UNCHANGED <<portfolioVars, today, booker, restVars>>
  BY DEF KeeperInserts
<1>3. made' = made
  BY <1>2 DEF restVars, countVars
<1>4. KeeperType'
  BY <1>1 DEF KeeperType, KeeperStages
<1>5. keeper.snap \in Snapshots
  BY DEF KeeperType
<1>6. StoredType'
  BY <1>1, <1>3, <1>5, SnapshotStored
<1>7. AccountType' /\ BookersType' /\ CountsType' /\ HistoryType'
  BY <1>2 DEF AccountType, BookersType, CountsType, HistoryType, portfolioVars,
              restVars, countVars, historyVars
<1> QED
  BY <1>4, <1>6, <1>7

LEMMA KeeperStoresType ==
  ASSUME TypeInv, NEW ok \in BOOLEAN, KeeperStores(ok)
  PROVE  TypeInv'
<1> USE DEF TypeInv
<1>1. /\ stored' = IF ok /\ RowsToStore THEN [stored EXCEPT !.row = held] ELSE stored
      /\ keeper' = IdleKeeper
      /\ saved' = (ok /\ keeper.quiet)
      /\ UNCHANGED <<portfolioVars, today, booker, countVars, excused, earned,
                     straddled, budget>>
  BY DEF KeeperStores
<1>2. made' = made
  BY <1>1 DEF countVars
<1>3. KeeperType'
  BY <1>1, IdleKeeperType DEF KeeperType
<1>4. StoredType'
  BY <1>1, <1>2 DEF StoredType, AccountType
<1>5. HistoryType'
  BY <1>1, <1>2 DEF HistoryType, KeeperType
<1>6. AccountType' /\ BookersType' /\ CountsType'
  BY <1>1 DEF AccountType, BookersType, CountsType, portfolioVars, countVars
<1> QED
  BY <1>3, <1>4, <1>5, <1>6

LEMMA MarkType ==
  ASSUME TypeInv, NEW m \in Markers, NEW price \in budget.marks, Mark(m, price)
  PROVE  TypeInv'
<1> USE DEF TypeInv
<1>1. /\ held' = [held EXCEPT !.mark = price]
      /\ RefreshDue(m)
      /\ UNCHANGED <<cash, realized, peak, daily, today, booker, keeper, stored,
                     restVars>>
  BY DEF Mark
<1>2. price \in Prices
  BY BudgetFacts DEF CountsType
<1>3. held' \in Holdings /\ held'.position = held.position
  BY <1>1, <1>2 DEF AccountType, Holdings
<1>4. refresh' \in Refreshed
  BY <1>1, RefreshDueType DEF AccountType
<1>5. AccountType'
  BY <1>1, <1>3, <1>4 DEF AccountType
<1>6. /\ BookersType' /\ KeeperType' /\ StoredType' /\ CountsType' /\ HistoryType'
  BY <1>1 DEF BookersType, KeeperType, StoredType, CountsType, HistoryType,
              restVars, countVars, historyVars
<1> QED
  BY <1>5, <1>6

\* A refresh writes the peak and nothing else that anybody reads.
LEMMA RefreshLeaves ==
  ASSUME NEW t, RefreshStep(t)
  PROVE  UNCHANGED <<cash, held, realized, daily, today, booker, keeper, stored,
                     restVars>>
BY DEF RefreshStep, ReadValue, FindUnmarked, ReadCost, ReadCash, RaisePeak, Refreshes

LEMMA RefreshStepType ==
  ASSUME TypeInv, NEW t \in Tasks, RefreshStep(t)
  PROVE  TypeInv'
<1> USE DEF TypeInv
<1> DEFINE n == refresh[t].sum
<1>1. /\ cash \in Int /\ peak \in Int /\ n \in Int
      /\ ValueOf(held) \in Int /\ CostOfHeld(held) \in Int
  BY ValueType DEF AccountType, Refreshed, Refresh
<1>2. cash + n \in Int /\ GreaterOf(peak, n) \in Int
  BY <1>1 DEF GreaterOf
<1>3. peak' \in Int /\ refresh' \in Refreshed
  <2>1. ASSUME NEW pc \in RefreshStages, NEW k \in Int,
               Refreshes(t, [pc |-> pc, sum |-> k])
        PROVE  peak' \in Int /\ refresh' \in Refreshed
    BY <1>1, <2>1, RefreshChanges DEF Refreshes, AccountType
  <2>2. {"unmarked", "valued", "summed", "none"} \subseteq RefreshStages
    BY DEF RefreshStages
  <2>3. CASE ReadValue(t)
    BY <1>1, <2>1, <2>2, <2>3 DEF ReadValue
  <2>4. CASE FindUnmarked(t)
    BY <2>1, <2>2, <2>4 DEF FindUnmarked
  <2>5. CASE ReadCost(t)
    BY <1>1, <2>1, <2>2, <2>5 DEF ReadCost
  <2>6. CASE ReadCash(t)
    BY <1>2, <2>1, <2>2, <2>6 DEF ReadCash
  <2>7. CASE RaisePeak(t)
    <3>1. peak' = GreaterOf(peak, n) /\ refresh' = [refresh EXCEPT ![t] = [pc |-> "none", sum |-> 0]]
      BY <2>7 DEF RaisePeak, NoRefresh
    <3>2. "none" \in RefreshStages /\ 0 \in Int /\ refresh \in Refreshed
      BY <2>2 DEF AccountType
    <3>3. refresh' \in Refreshed
      BY <3>1, <3>2, RefreshChanges
    <3> QED
      BY <1>2, <3>1, <3>3
  <2> QED
    BY <2>3, <2>4, <2>5, <2>6, <2>7 DEF RefreshStep
<1>4. UNCHANGED <<cash, held, realized, daily, today, booker, keeper, stored, restVars>>
  BY RefreshLeaves
<1>5. AccountType'
  BY <1>3, <1>4 DEF AccountType
<1>6. /\ BookersType' /\ KeeperType' /\ StoredType' /\ CountsType' /\ HistoryType'
  BY <1>4 DEF BookersType, KeeperType, StoredType, CountsType, HistoryType,
              restVars, countVars, historyVars
<1> QED
  BY <1>5, <1>6

LEMMA MidnightType ==
  ASSUME TypeInv, Midnight
  PROVE  TypeInv'
<1> USE DEF TypeInv
<1>1. /\ today' = today + 1 /\ today + 1 \in budget.days
      /\ UNCHANGED <<portfolioVars, booker, keeper, stored, restVars>>
  BY DEF Midnight
<1>2. today' \in Days
  BY <1>1, BudgetFacts DEF CountsType
<1>3. AccountType'
  BY <1>1, <1>2 DEF AccountType, portfolioVars
<1>4. BookersType' /\ KeeperType' /\ StoredType' /\ CountsType' /\ HistoryType'
  BY <1>1 DEF BookersType, KeeperType, StoredType, CountsType, HistoryType,
              restVars, countVars, historyVars
<1> QED
  BY <1>3, <1>4

LEMMA UpsetCounted ==
  ASSUME CountsType, upsets < budget.upsets, upsets' = upsets + 1,
         UNCHANGED <<budget, made, ticks>>
  PROVE  CountsType'
<1>1. budget.upsets \in Nat
  BY BudgetFacts DEF CountsType
<1> QED
  BY <1>1 DEF CountsType

LEMMA NothingEarnedType == NothingEarned \in [Days -> Int]
BY DEF NothingEarned

LEMMA PaperResetType ==
  ASSUME TypeInv, PaperReset
  PROVE  TypeInv'
<1> USE DEF TypeInv
<1>1. /\ upsets < budget.upsets /\ upsets' = upsets + 1
      /\ cash' = Start /\ held' = NotHeld /\ realized' = 0 /\ peak' = Start
      /\ daily' = [day |-> today, profit |-> 0]
      /\ Disturb
      /\ earned' = NothingEarned /\ straddled' = FALSE
      /\ UNCHANGED <<refresh, today, booker, stored, made, ticks, excused, budget>>
  BY DEF PaperReset
<1>2. AccountType'
  BY <1>1, ConstantFacts, NotHeldType DEF AccountType
<1>3. KeeperType' /\ HistoryType'
  BY <1>1, DisturbType, NothingEarnedType DEF HistoryType
<1>4. CountsType'
  BY <1>1, UpsetCounted
<1>5. BookersType' /\ StoredType'
  BY <1>1 DEF BookersType, StoredType
<1> QED
  BY <1>2, <1>3, <1>4, <1>5

LEMMA LoadedRowType ==
  ASSUME StoredType
  PROVE  LoadedRow \in Holdings /\ PositionOK(LoadedRow.position)
BY NotHeldType DEF StoredType, LoadedRow

LEMMA RecoveredType ==
  ASSUME StoredType, Recovered
  PROVE  /\ cash' \in Int /\ realized' \in Int /\ peak' \in Int
         /\ held' \in Holdings /\ PositionOK(held'.position)
         /\ EquityOf(cash', held') <= peak'
<1> DEFINE c == cash'
           h == held'
           e == EquityOf(c, h)
<1>1. c \in Int /\ realized' \in Int /\ h \in Holdings /\ PositionOK(h.position)
  BY LoadedRowType DEF Recovered, StoredType, Snapshots
<1>2. peak' = GreaterOf(Start, e)
  BY DEF Recovered
<1> HIDE DEF c, h
<1>3. e \in Int
  BY <1>1, EquityType
<1> HIDE DEF e
<1>4. peak' \in Int /\ e <= peak'
  BY <1>2, <1>3, ConstantFacts DEF GreaterOf
<1> QED
  BY <1>1, <1>4 DEF c, h, e

LEMMA NotHeldEquity == EquityOf(Start, NotHeld) = Start
BY ConstantFacts DEF EquityOf, ValueOf, CostOfHeld, NotHeld, Flat, Unmarked

LEMMA UnrecoveredType ==
  ASSUME Unrecovered
  PROVE  /\ cash' \in Int /\ realized' \in Int /\ peak' \in Int
         /\ held' \in Holdings /\ PositionOK(held'.position)
         /\ EquityOf(cash', held') <= peak'
BY ConstantFacts, NotHeldType, NotHeldEquity DEF Unrecovered

LEMMA RestartType ==
  ASSUME TypeInv, Restart \/ RestartBlind
  PROVE  TypeInv' /\ EquityOf(cash', held') <= peak'
<1> USE DEF TypeInv
<1>1. /\ upsets < budget.upsets /\ upsets' = upsets + 1
      /\ booker' = [p \in Pipelines |-> IdleBooker]
      /\ keeper' = IdleKeeper /\ refresh' = AllRested
      /\ daily' = [day |-> today, profit |-> 0]
      /\ excused' = excused \cup {i \in 1..made : InProgress(i)}
      /\ earned' = NothingEarned /\ straddled' = FALSE
      /\ UNCHANGED <<today, stored, made, ticks, budget>>
      /\ saved' \in BOOLEAN
  BY DEF Restart, RestartBlind, Restarted
<1>2. /\ cash' \in Int /\ realized' \in Int /\ peak' \in Int
      /\ held' \in Holdings /\ PositionOK(held'.position)
      /\ EquityOf(cash', held') <= peak'
  BY RecoveredType, UnrecoveredType DEF Restart, RestartBlind
<1>3. AccountType'
  BY <1>1, <1>2, AllRestedType DEF AccountType
<1>4. made \in Nat
  BY BudgetFacts DEF CountsType
<1>5. BookersType'
  BY <1>1, <1>4, IdleBookerType DEF BookersType
<1>6. KeeperType'
  BY <1>1, IdleKeeperType DEF KeeperType
<1>7. HistoryType'
  BY <1>1, NothingEarnedType DEF HistoryType
<1>8. CountsType'
  BY <1>1, UpsetCounted
<1>9. StoredType'
  BY <1>1 DEF StoredType
<1> QED
  BY <1>2, <1>3, <1>5, <1>6, <1>7, <1>8, <1>9

LEMMA TypeInvStutter == TypeInv /\ UNCHANGED vars => TypeInv'
BY DEF TypeInv, AccountType, BookersType, KeeperType, StoredType, CountsType,
       HistoryType, vars

LEMMA TypeInvNext == TypeInv /\ [Next]_vars => TypeInv'
<1> SUFFICES ASSUME TypeInv, [Next]_vars PROVE TypeInv'
  OBVIOUS
<1>1. Writes \subseteq BOOLEAN
  BY BudgetsAssumption DEF Writes, TypeInv, CountsType
<1>2. ASSUME NEW p \in Pipelines, NEW trade \in budget.trades, Execute(p, trade)
      PROVE  TypeInv'
  BY <1>2, ExecuteType
<1>3. ASSUME NEW p \in Pipelines, BookerStep(p)
      PROVE  TypeInv'
  BY <1>3, StoreOrderType, PayFillType, MovePositionType, BookProfitType,
     StoreFillType, BeginSnapshotType, EndSnapshotType, StoreSnapshotType
     DEF BookerStep
<1>4. CASE KeeperTick \/ KeeperReads \/ KeeperInserts
  BY <1>4, KeeperTickType, KeeperReadsType, KeeperInsertsType
<1>5. ASSUME NEW ok \in Writes, KeeperStores(ok)
      PROVE  TypeInv'
  BY <1>1, <1>5, KeeperStoresType
<1>6. ASSUME NEW m \in Markers, NEW price \in budget.marks, Mark(m, price)
      PROVE  TypeInv'
  BY <1>6, MarkType
<1>9. ASSUME NEW t \in Tasks, RefreshStep(t)
      PROVE  TypeInv'
  BY <1>9, RefreshStepType
<1>7. CASE Midnight \/ PaperReset \/ Restart \/ RestartBlind
  BY <1>7, MidnightType, PaperResetType, RestartType
<1>8. CASE UNCHANGED vars
  BY <1>8, TypeInvStutter
<1> QED
  BY <1>2, <1>3, <1>4, <1>5, <1>6, <1>7, <1>8, <1>9 DEF Next

LEMMA TypeInvHolds == Spec => []TypeInv
BY TypeInvInit, TypeInvNext, PTL DEF Spec

\* Every variable keeps its type; a position is flat exactly when it has no
\* entry price, whatever its fills (Position::apply).
THEOREM TypeCorrect == Spec => []TypeOK
BY TypeInvHolds, TypeInvImplies, PTL

-----------------------------------------------------------------------------
(***************************************************************************)
(* The fills on record.                                                    *)
(***************************************************************************)
LEMMA AuditInvInit == Init => AuditInv
<1> SUFFICES ASSUME Init PROVE AuditInv
  OBVIOUS
<1>1. UnorderedExcused
  BY DEF Init, UnorderedExcused, Unordered, IdleBooker
<1>2. AuditComplete
  BY DEF Init, AuditComplete
<1> QED
  BY <1>1, <1>2, TypeInvInit DEF AuditInv

\* A step that makes no fill: each pipeline keeps its own, or it is accounted for.
LEMMA AuditStep ==
  ASSUME AuditComplete, UnorderedExcused, made' = made,
         excused \subseteq excused', stored.fills \subseteq stored'.fills,
         \A p \in Pipelines :
           /\ \/ booker'[p].fill = booker[p].fill
              \/ booker[p].fill \notin 1..made
              \/ booker[p].fill \in stored'.fills \cup excused'
           /\ Unordered(booker'[p]) =>
                \/ Unordered(booker[p]) /\ booker'[p].fill = booker[p].fill
                \/ booker'[p].fill \in excused'
  PROVE  AuditComplete' /\ UnorderedExcused'
<1>1. ASSUME NEW i \in 1..made
      PROVE  i \in stored'.fills \/ i \in excused' \/ \E p \in Pipelines : booker'[p].fill = i
  <2>1. CASE i \in stored.fills \/ i \in excused
    BY <2>1
  <2>2. CASE \E p \in Pipelines : booker[p].fill = i
    <3>1. PICK p \in Pipelines : booker[p].fill = i
      BY <2>2
    <3> QED
      BY <3>1
  <2> QED
    BY <2>1, <2>2 DEF AuditComplete, InProgress
<1>2. AuditComplete'
  BY <1>1 DEF AuditComplete, InProgress
<1>3. UnorderedExcused'
  BY DEF UnorderedExcused
<1> QED
  BY <1>2, <1>3

\* Of one pipeline alone.
LEMMA AuditOneMoves ==
  ASSUME TypeInv, AuditComplete, UnorderedExcused, made' = made,
         excused \subseteq excused', stored.fills \subseteq stored'.fills,
         NEW p \in Pipelines, NEW B, booker' = [booker EXCEPT ![p] = B],
         \/ B.fill = booker[p].fill
         \/ booker[p].fill \notin 1..made
         \/ booker[p].fill \in stored'.fills \cup excused',
         Unordered(B) => \/ Unordered(booker[p]) /\ B.fill = booker[p].fill
                         \/ B.fill \in excused'
  PROVE  AuditComplete' /\ UnorderedExcused'
<1>1. booker'[p] = B /\ \A q \in Pipelines \ {p} : booker'[q] = booker[q]
  BY DEF TypeInv, BookersType
<1> QED
  BY <1>1, AuditStep

LEMMA ExecuteAudit ==
  ASSUME TypeInv, AuditComplete, UnorderedExcused,
         NEW p \in Pipelines, NEW trade \in budget.trades, Execute(p, trade)
  PROVE  AuditComplete' /\ UnorderedExcused'
<1> DEFINE B == [IdleBooker EXCEPT !.pc = "executed", !.fill = made + 1,
                   !.signed = trade[1], !.price = trade[2], !.day = today]
<1>1. /\ booker[p].pc = "idle" /\ made' = made + 1
      /\ booker' = [booker EXCEPT ![p] = B]
      /\ stored' = stored /\ excused' = excused
  BY DEF Execute, At, historyVars
<1>2. B.pc = "executed" /\ B.fill = made + 1
  BY IdleBookerType DEF Bookers
<1> HIDE DEF B
<1>3. booker'[p] = B /\ \A q \in Pipelines \ {p} : booker'[q] = booker[q]
  BY <1>1 DEF TypeInv, BookersType
<1>4. booker[p].fill = 0 /\ made \in Nat
  BY <1>1, BookerFacts DEF BookerOK, WithFill
<1>5. ASSUME NEW i \in 1..made'
      PROVE  i \in stored.fills \/ i \in excused \/ \E q \in Pipelines : booker'[q].fill = i
  <2>1. CASE i = made + 1
    BY <1>2, <1>3, <2>1
  <2>2. CASE i # made + 1
    <3>1. i \in 1..made /\ i # 0
      BY <1>1, <1>4, <2>2
    <3>2. CASE \E q \in Pipelines : booker[q].fill = i
      BY <1>3, <1>4, <3>1, <3>2
    <3> QED
      BY <3>1, <3>2 DEF AuditComplete, InProgress
  <2> QED
    BY <2>1, <2>2
<1>6. AuditComplete'
  BY <1>1, <1>5 DEF AuditComplete, InProgress
<1>7. UnorderedExcused'
  BY <1>1, <1>2, <1>3 DEF UnorderedExcused, Unordered
<1> QED
  BY <1>6, <1>7

LEMMA StoreOrderAudit ==
  ASSUME TypeInv, AuditComplete, UnorderedExcused, NEW p \in Pipelines, StoreOrder(p)
  PROVE  AuditComplete' /\ UnorderedExcused'
<1>1. PICK ok \in Writes :
        /\ booker' = [booker EXCEPT ![p] = [@ EXCEPT !.pc = "ordered", !.ordered = ok]]
        /\ Excuse(p, ok)
  BY DEF StoreOrder
<1>2. made' = made /\ stored' = stored
  BY DEF StoreOrder, countVars
<1>3. ok \in BOOLEAN
  BY BudgetsAssumption DEF Writes, TypeInv, CountsType
<1> DEFINE B == [booker[p] EXCEPT !.pc = "ordered", !.ordered = ok]
<1>4. B.fill = booker[p].fill /\ B.ordered = ok
  BY BookerFacts DEF Bookers
<1>5. booker' = [booker EXCEPT ![p] = B]
  BY <1>1
<1> HIDE DEF B
<1>6. excused \subseteq excused' /\ (~ok => booker[p].fill \in excused')
  BY <1>1 DEF Excuse
<1>7. Unordered(B) => B.fill \in excused'
  BY <1>4, <1>6 DEF Unordered
<1> QED
  BY <1>2, <1>4, <1>5, <1>6, <1>7, AuditOneMoves

LEMMA StoreFillAudit ==
  ASSUME TypeInv, AuditComplete, UnorderedExcused, NEW p \in Pipelines, StoreFill(p)
  PROVE  AuditComplete' /\ UnorderedExcused'
<1> DEFINE B == IF budget.database = "none" THEN IdleBooker
                ELSE [IdleBooker EXCEPT !.pc = "filed"]
<1>1. PICK ok \in Writes :
        /\ stored' = IF ok /\ booker[p].ordered
                       THEN [stored EXCEPT !.fills = @ \cup {booker[p].fill}]
                       ELSE stored
        /\ Excuse(p, ok)
  BY DEF StoreFill
<1>2. /\ booker[p].pc = "booked" /\ made' = made
      /\ booker' = [booker EXCEPT ![p] = B]
  BY DEF StoreFill, At, countVars
<1>3. ok \in BOOLEAN
  BY BudgetsAssumption DEF Writes, TypeInv, CountsType
<1>4. ~Unordered(B)
  BY DEF Unordered, IdleBooker
<1> HIDE DEF B
<1>5. /\ excused \subseteq excused' /\ (~ok => booker[p].fill \in excused')
  BY <1>1 DEF Excuse
<1>6. /\ stored.fills \subseteq stored'.fills
      /\ ok /\ booker[p].ordered => booker[p].fill \in stored'.fills
  BY <1>1 DEF TypeInv, StoredType
<1>7. ~booker[p].ordered => booker[p].fill \in excused
  BY <1>2 DEF UnorderedExcused, Unordered
<1>8. booker[p].fill \in stored'.fills \cup excused'
  BY <1>3, <1>5, <1>6, <1>7
<1> QED
  BY <1>2, <1>4, <1>5, <1>6, <1>8, AuditOneMoves

LEMMA BookingAudit ==
  ASSUME TypeInv, AuditComplete, UnorderedExcused, NEW p \in Pipelines,
         PayFill(p) \/ MovePosition(p) \/ BookProfit(p)
  PROVE  AuditComplete' /\ UnorderedExcused'
<1>1. made' = made /\ excused' = excused /\ stored' = stored
  BY DEF PayFill, MovePosition, BookProfit, restVars, countVars, historyVars
<1>2. CASE PayFill(p)
  <2> DEFINE B == [booker[p] EXCEPT !.pc = "paid"]
  <2>1. booker' = [booker EXCEPT ![p] = B] /\ booker[p].pc = "ordered"
    BY <1>2 DEF PayFill, GoTo, At
  <2>2. B.fill = booker[p].fill /\ B.ordered = booker[p].ordered
    BY BookerFacts DEF Bookers
  <2> HIDE DEF B
  <2>3. Unordered(B) => Unordered(booker[p])
    BY <2>1, <2>2 DEF Unordered
  <2> QED
    BY <1>1, <2>1, <2>2, <2>3, AuditOneMoves
<1>3. CASE MovePosition(p)
  <2> DEFINE r == Realized(held.position, booker[p].signed, booker[p].price, Fee)
             B == [booker[p] EXCEPT !.pc = "moved", !.result = r]
  <2>1. booker' = [booker EXCEPT ![p] = B] /\ booker[p].pc = "paid"
    BY <1>3 DEF MovePosition, At
  <2> HIDE DEF r
  <2>2. B.fill = booker[p].fill /\ B.ordered = booker[p].ordered
    BY BookerFacts DEF Bookers
  <2> HIDE DEF B
  <2>3. Unordered(B) => Unordered(booker[p])
    BY <2>1, <2>2 DEF Unordered
  <2> QED
    BY <1>1, <2>1, <2>2, <2>3, AuditOneMoves
<1>4. CASE BookProfit(p)
  <2> DEFINE B == [IdleBooker EXCEPT !.pc = "booked", !.fill = booker[p].fill,
                                     !.ordered = booker[p].ordered]
  <2>1. booker' = [booker EXCEPT ![p] = B] /\ booker[p].pc = "moved"
    BY <1>4 DEF BookProfit, At
  <2>2. B.fill = booker[p].fill /\ B.ordered = booker[p].ordered
    BY IdleBookerType DEF Bookers
  <2> HIDE DEF B
  <2>3. Unordered(B) => Unordered(booker[p])
    BY <2>1, <2>2 DEF Unordered
  <2> QED
    BY <1>1, <2>1, <2>2, <2>3, AuditOneMoves
<1> QED
  BY <1>2, <1>3, <1>4

LEMMA SnapshotAudit ==
  ASSUME TypeInv, AuditComplete, UnorderedExcused, NEW p \in Pipelines,
         BeginSnapshot(p) \/ EndSnapshot(p) \/ StoreSnapshot(p)
  PROVE  AuditComplete' /\ UnorderedExcused'
<1>1. made' = made /\ excused' = excused
  BY DEF BeginSnapshot, EndSnapshot, StoreSnapshot, restVars, countVars, historyVars
<1>2. stored'.fills = stored.fills
  BY DEF BeginSnapshot, EndSnapshot, StoreSnapshot, TypeInv, StoredType
<1>3. booker[p].fill = 0 /\ booker[p].fill \notin 1..made /\ made \in Nat
  BY BookerFacts DEF BeginSnapshot, EndSnapshot, StoreSnapshot, At, BookerOK, WithFill
<1>4. PICK B : booker' = [booker EXCEPT ![p] = B]
               /\ B.pc \in {"idle", "reading", "read"}
  <2>1. booker[p] \in Bookers
    BY BookerFacts
  <2>2. CASE BeginSnapshot(p)
    <3> DEFINE B == [booker[p] EXCEPT !.pc = "reading", !.snap = SnapshotBegun]
    <3>1. booker' = [booker EXCEPT ![p] = B]
      BY <2>2 DEF BeginSnapshot
    <3>2. B.pc = "reading"
      BY <2>1 DEF Bookers
    <3> QED
      BY <3>1, <3>2
  <2>3. CASE EndSnapshot(p)
    <3> DEFINE B == [booker[p] EXCEPT !.pc = "read", !.snap.realized = realized]
    <3>1. booker' = [booker EXCEPT ![p] = B]
      BY <2>3 DEF EndSnapshot
    <3>2. B.pc = "read"
      BY <2>1 DEF Bookers
    <3> QED
      BY <3>1, <3>2
  <2>4. CASE StoreSnapshot(p)
    <3>1. booker' = [booker EXCEPT ![p] = IdleBooker] /\ IdleBooker.pc = "idle"
      BY <2>4 DEF StoreSnapshot, IdleBooker
    <3> QED
      BY <3>1
  <2> QED
    BY <2>2, <2>3, <2>4
<1>5. ~Unordered(B)
  BY <1>4 DEF Unordered
<1> QED
  BY <1>1, <1>2, <1>3, <1>4, <1>5, AuditOneMoves

LEMMA RestartAudit ==
  ASSUME TypeInv, AuditComplete, UnorderedExcused, Restart \/ RestartBlind
  PROVE  AuditComplete' /\ UnorderedExcused'
<1>1. /\ made' = made /\ stored' = stored
      /\ booker' = [p \in Pipelines |-> IdleBooker]
      /\ excused' = excused \cup {i \in 1..made : InProgress(i)}
  BY DEF Restart, RestartBlind, Restarted
<1>2. ASSUME NEW p \in Pipelines
      PROVE  /\ booker[p].fill \notin 1..made \/ booker[p].fill \in excused'
             /\ ~Unordered(booker'[p])
  BY <1>1 DEF InProgress, Unordered, IdleBooker
<1> QED
  BY <1>1, <1>2, AuditStep

LEMMA AuditInvNext == AuditInv /\ [Next]_vars => AuditInv'
<1> SUFFICES ASSUME AuditInv, [Next]_vars PROVE AuditInv'
  OBVIOUS
<1> USE DEF AuditInv
<1>1. SUFFICES AuditComplete' /\ UnorderedExcused'
  BY TypeInvNext
<1>2. ASSUME NEW p \in Pipelines, NEW trade \in budget.trades, Execute(p, trade)
      PROVE  AuditComplete' /\ UnorderedExcused'
  BY <1>2, ExecuteAudit
<1>3. ASSUME NEW p \in Pipelines, BookerStep(p)
      PROVE  AuditComplete' /\ UnorderedExcused'
  BY <1>3, StoreOrderAudit, BookingAudit, StoreFillAudit, SnapshotAudit DEF BookerStep
<1>4. CASE Restart \/ RestartBlind
  BY <1>4, RestartAudit
<1>5. CASE /\ booker' = booker /\ made' = made /\ excused' = excused
           /\ stored'.fills = stored.fills
  BY <1>5 DEF AuditComplete, InProgress, UnorderedExcused
<1>6. CASE UNCHANGED vars
  BY <1>5, <1>6 DEF vars
<1>7. CASE KeeperTick \/ KeeperReads \/ Midnight \/ PaperReset
  <2>1. booker' = booker /\ made' = made /\ excused' = excused /\ stored' = stored
    BY <1>7 DEF KeeperTick, KeeperReads, Midnight, PaperReset, restVars, countVars,
                historyVars
  <2> QED
    BY <1>5, <2>1
<1>8. CASE KeeperInserts
  <2>1. booker' = booker /\ made' = made /\ excused' = excused
    BY <1>8 DEF KeeperInserts, restVars, countVars, historyVars
  <2>2. stored' = stored \/ stored' = [stored EXCEPT !.snap = Latest(keeper.snap)]
    BY <1>8 DEF KeeperInserts
  <2>3. stored'.fills = stored.fills
    BY <2>2 DEF TypeInv, StoredType
  <2> QED
    BY <1>5, <2>1, <2>3
<1>9. ASSUME NEW ok \in Writes, KeeperStores(ok)
      PROVE  AuditComplete' /\ UnorderedExcused'
  <2>1. booker' = booker /\ made' = made /\ excused' = excused
    BY <1>9 DEF KeeperStores, countVars
  <2>2. stored' = stored \/ stored' = [stored EXCEPT !.row = held]
    BY <1>9 DEF KeeperStores
  <2>3. stored'.fills = stored.fills
    BY <2>2 DEF TypeInv, StoredType
  <2> QED
    BY <1>5, <2>1, <2>3
<1>10. ASSUME NEW m \in Markers, NEW price \in budget.marks, Mark(m, price)
       PROVE  AuditComplete' /\ UnorderedExcused'
  <2>1. booker' = booker /\ made' = made /\ excused' = excused /\ stored' = stored
    BY <1>10 DEF Mark, restVars, countVars, historyVars
  <2> QED
    BY <1>5, <2>1
<1>11. ASSUME NEW t \in Tasks, RefreshStep(t)
       PROVE  AuditComplete' /\ UnorderedExcused'
  <2>1. booker' = booker /\ made' = made /\ excused' = excused /\ stored' = stored
    BY <1>11, RefreshLeaves DEF restVars, countVars, historyVars
  <2> QED
    BY <1>5, <2>1
<1> QED
  BY <1>2, <1>3, <1>4, <1>6, <1>7, <1>8, <1>9, <1>10, <1>11 DEF Next

\* A fill that was booked is on record, is still on its way there, or was kept
\* from it by a failed write of its own or by a stop: no interleaving loses one,
\* since its order is stored before it (process_event, insert_fill).
THEOREM FillsAreOnRecord == Spec => []AuditComplete
<1>1. Spec => []AuditInv
  BY AuditInvInit, AuditInvNext, PTL DEF Spec
<1> QED
  BY <1>1, PTL DEF AuditInv

-----------------------------------------------------------------------------
(***************************************************************************)
(* The bucket of the day and the peak.                                     *)
(***************************************************************************)
LEMMA DayFacts ==
  ASSUME TypeInv
  PROVE  /\ today \in Nat /\ today \in Days /\ daily.day \in Nat /\ daily.day \in Days
         /\ daily.profit \in Int /\ earned \in [Days -> Int]
BY ConstantFacts DEF TypeInv, AccountType, HistoryType

LEMMA BookProfitBucket ==
  ASSUME TypeInv, BucketRight, NEW p \in Pipelines, BookProfit(p)
  PROVE  BucketRight'
<1> DEFINE r == booker[p].result
           day == booker[p].day
<1>1. /\ daily' = [day |-> day,
                   profit |-> r + IF daily.day = day THEN daily.profit ELSE 0]
      /\ earned' = [earned EXCEPT ![day] = @ + r]
      /\ straddled' = (straddled \/ day # today)
      /\ today' = today
  BY DEF BookProfit
<1>2. r \in Int /\ day \in Days
  BY BookerFacts DEF Bookers
<1> HIDE DEF r, day
<1>3. SUFFICES ASSUME ~straddled, day = today PROVE BucketRight'
  BY <1>1 DEF BucketRight
<1>4. /\ daily.day <= today /\ daily.profit = earned[daily.day]
      /\ \A d \in Days : d > daily.day => earned[d] = 0
  BY <1>3 DEF BucketRight
<1>5. (IF daily.day = day THEN daily.profit ELSE 0) = earned[today]
  BY <1>3, <1>4, DayFacts
<1>6. earned'[today] = earned[today] + r /\ earned[today] \in Int
  BY <1>1, <1>3, DayFacts
<1>7. daily'.day = today /\ daily'.profit = earned'[today]
  BY <1>1, <1>2, <1>3, <1>5, <1>6
<1>8. \A d \in Days : d > today => earned'[d] = 0
  BY <1>1, <1>3, <1>4, DayFacts, ConstantFacts
<1> QED
  BY <1>1, <1>7, <1>8, DayFacts DEF BucketRight

LEMMA BucketNext ==
  ASSUME TypeInv, BucketRight, [Next]_vars
  PROVE  BucketRight'
<1>1. CASE UNCHANGED <<daily, earned, straddled, today>>
  BY <1>1 DEF BucketRight
<1>2. ASSUME NEW p \in Pipelines, BookerStep(p)
      PROVE  BucketRight'
  <2>1. CASE BookProfit(p)
    BY <2>1, BookProfitBucket
  <2>2. CASE ~BookProfit(p)
    <3>1. UNCHANGED <<daily, earned, straddled, today>>
      BY <1>2, <2>2 DEF BookerStep, StoreOrder, PayFill, MovePosition, StoreFill,
           BeginSnapshot, EndSnapshot, StoreSnapshot, portfolioVars, restVars, historyVars
    <3> QED
      BY <1>1, <3>1
  <2> QED
    BY <2>1, <2>2
<1>3. CASE Midnight
  <2>1. today' = today + 1 /\ UNCHANGED <<daily, earned, straddled>>
    BY <1>3 DEF Midnight, portfolioVars, restVars, historyVars
  <2> QED
    BY <2>1, DayFacts DEF BucketRight
<1>4. CASE PaperReset \/ Restart \/ RestartBlind
  <2>1. /\ daily' = [day |-> today, profit |-> 0] /\ today' = today
        /\ earned' = NothingEarned
    BY <1>4 DEF PaperReset, Restart, RestartBlind, Restarted
  <2> QED
    BY <2>1, DayFacts DEF BucketRight, NothingEarned
<1>5. CASE \/ \E p \in Pipelines, trade \in budget.trades : Execute(p, trade)
           \/ KeeperTick \/ KeeperReads \/ KeeperInserts
           \/ \E ok \in Writes : KeeperStores(ok)
           \/ \E m \in Markers, price \in budget.marks : Mark(m, price)
           \/ UNCHANGED vars
  <2>1. UNCHANGED <<daily, earned, straddled, today>>
    BY <1>5 DEF Execute, KeeperTick, KeeperReads, KeeperInserts, KeeperStores, Mark,
                portfolioVars, restVars, historyVars, vars
  <2> QED
    BY <1>1, <2>1
<1>6. ASSUME NEW t \in Tasks, RefreshStep(t)
      PROVE  BucketRight'
  <2>1. UNCHANGED <<daily, earned, straddled, today>>
    BY <1>6, RefreshLeaves DEF restVars, historyVars
  <2> QED
    BY <1>1, <2>1
<1> QED
  BY <1>2, <1>3, <1>4, <1>5, <1>6 DEF Next

LEMMA BucketMeans ==
  ASSUME TypeInv, BucketRight
  PROVE  DailyLossUnlessStraddled
BY DayFacts DEF BucketRight, DailyLossUnlessStraddled, DailyPnl

\* The profit of the day that the loss limit is held against is what the fills
\* of the day have earned since the start, across midnight, restarts and resets,
\* unless a fill of one day was booked on another (apply_fill, daily_pnl).
THEOREM DailyLossIsRight == Spec => []DailyLossUnlessStraddled
<1>1. Init => BucketRight
  BY ConstantFacts DEF Init, BucketRight, NothingEarned
<1>2. TypeInv /\ BucketRight /\ [Next]_vars => (TypeInv /\ BucketRight)'
  BY TypeInvNext, BucketNext
<1>3. TypeInv /\ BucketRight => DailyLossUnlessStraddled
  BY BucketMeans
<1> QED
  BY <1>1, <1>2, <1>3, TypeInvInit, PTL DEF Spec

\* A refresh that will raise the peak to the equity there is now, or above it.
Underway(r) ==
  \/ r.pc = "due"
  \/ r.pc = "unmarked" /\ held.mark = Unmarked
  \/ r.pc = "valued" /\ r.sum = ValueOf(held)
  \/ r.pc = "summed" /\ r.sum >= EquityOf(cash, held)

Covered == EquityOf(cash, held) <= peak

\* Either the peak is high enough, or somebody is about to see to it.
PeakInv == Covered \/ Booking \/ \E t \in Tasks : Underway(refresh[t])

\* A pipeline that is not half-way through a booking moves on.
LEMMA PeakBookerMoves ==
  ASSUME TypeInv, PeakInv, NEW p \in Pipelines, NEW B, booker' = [booker EXCEPT ![p] = B],
         UNCHANGED <<cash, held, peak, refresh>>, booker[p].pc \notin {"paid", "moved"}
  PROVE  PeakInv'
<1>1. ASSUME NEW q \in Pipelines, booker[q].pc \in {"paid", "moved"}
      PROVE  booker'[q] = booker[q]
  BY <1>1 DEF TypeInv, BookersType
<1>2. Booking => Booking'
  BY <1>1 DEF Booking
<1>3. Covered' <=> Covered
  BY DEF Covered, EquityOf, ValueOf, CostOfHeld
<1>4. ASSUME NEW t \in Tasks, Underway(refresh[t])
      PROVE  Underway(refresh[t])'
  BY <1>4 DEF Underway, EquityOf, ValueOf, CostOfHeld
<1> QED
  BY <1>2, <1>3, <1>4 DEF PeakInv

LEMMA RefreshPeak ==
  ASSUME TypeInv, PeakInv, NEW t \in Tasks, RefreshStep(t)
  PROVE  PeakInv'
<1> DEFINE e == EquityOf(cash, held)
<1>1. /\ UNCHANGED <<cash, held, booker>>
      /\ Booking' = Booking /\ EquityOf(cash', held') = e
      /\ ValueOf(held') = ValueOf(held)
  BY RefreshLeaves DEF Booking
<1>2. /\ e \in Int /\ peak \in Int /\ refresh \in Refreshed
      /\ refresh[t].sum \in Int /\ cash \in Int /\ ValueOf(held) \in Int
  BY EquityType, ValueType DEF TypeInv, AccountType, Refreshed, Refresh
<1>3. peak' = peak \/ (peak' = GreaterOf(peak, refresh[t].sum) /\ RaisePeak(t))
  BY DEF RefreshStep, ReadValue, FindUnmarked, ReadCost, ReadCash, RaisePeak, Refreshes
<1>4. e <= peak => e <= peak'
  BY <1>2, <1>3 DEF GreaterOf
<1>5. \A u \in Tasks \ {t} : refresh'[u] = refresh[u]
  BY <1>2 DEF RefreshStep, ReadValue, FindUnmarked, ReadCost, ReadCash, RaisePeak,
              Refreshes, Refreshed
<1>6. ASSUME NEW u \in Tasks, u # t, Underway(refresh[u])
      PROVE  Underway(refresh[u])'
  BY <1>1, <1>5, <1>6 DEF Underway
<1>7. ASSUME Underway(refresh[t]) PROVE Underway(refresh[t])' \/ e <= peak'
  <2>1. CASE ReadValue(t)
    <3>1. refresh'[t] = [pc |-> "valued", sum |-> ValueOf(held)]
      BY <1>2, <2>1 DEF ReadValue, Refreshes, Refreshed
    <3> QED
      BY <1>1, <3>1 DEF Underway
  <2>2. CASE FindUnmarked(t)
    <3>1. refresh'[t] = [pc |-> "unmarked", sum |-> 0] /\ held.mark = Unmarked
      BY <1>2, <2>2 DEF FindUnmarked, Refreshes, Refreshed
    <3> QED
      BY <1>1, <3>1 DEF Underway
  <2>3. CASE ReadCost(t)
    <3>1. refresh'[t] = [pc |-> "valued", sum |-> CostOfHeld(held)]
      BY <1>2, <2>3 DEF ReadCost, Refreshes, Refreshed
    <3>2. CostOfHeld(held) = ValueOf(held)
      BY <1>7, <2>3 DEF ReadCost, Underway, ValueOf
    <3> QED
      BY <1>1, <3>1, <3>2 DEF Underway
  <2>4. CASE ReadCash(t)
    <3>1. refresh'[t] = [pc |-> "summed", sum |-> cash + refresh[t].sum]
      BY <1>2, <2>4 DEF ReadCash, Refreshes, Refreshed
    <3>2. refresh[t].sum = ValueOf(held)
      BY <1>7, <2>4 DEF ReadCash, Underway
    <3>3. cash + refresh[t].sum = e
      BY <3>2 DEF EquityOf
    <3>4. refresh'[t].sum >= e
      BY <1>2, <3>1, <3>3
    <3> QED
      BY <1>1, <3>1, <3>4 DEF Underway
  <2>5. CASE RaisePeak(t)
    <3>1. refresh[t].sum >= e /\ peak' = GreaterOf(peak, refresh[t].sum)
      BY <1>7, <2>5 DEF RaisePeak, Underway
    <3> HIDE DEF e
    <3> QED
      BY <1>2, <3>1 DEF GreaterOf
  <2> QED
    BY <2>1, <2>2, <2>3, <2>4, <2>5 DEF RefreshStep
<1> HIDE DEF e
<1>8. Covered <=> e <= peak
  BY DEF Covered, e
<1>9. Covered' <=> e <= peak'
  BY <1>1 DEF Covered
<1> QED
  BY <1>1, <1>4, <1>6, <1>7, <1>8, <1>9 DEF PeakInv

LEMMA PeakNext ==
  ASSUME TypeInv, PeakInv, [Next]_vars
  PROVE  PeakInv'
<1>1. CASE UNCHANGED <<cash, held, peak, refresh, booker>>
  BY <1>1 DEF PeakInv, Covered, Booking, Underway, EquityOf, ValueOf, CostOfHeld
<1>2. ASSUME NEW p \in Pipelines, NEW trade \in budget.trades, Execute(p, trade)
      PROVE  PeakInv'
  <2>1. UNCHANGED <<cash, held, peak, refresh>> /\ booker[p].pc = "idle"
    BY <1>2 DEF Execute, portfolioVars, At
  <2>2. \E B : booker' = [booker EXCEPT ![p] = B]
    BY <1>2 DEF Execute
  <2> QED
    BY <2>1, <2>2, PeakBookerMoves
<1>3. ASSUME NEW p \in Pipelines, PayFill(p) \/ MovePosition(p)
      PROVE  PeakInv'
  <2>1. booker'[p].pc \in {"paid", "moved"}
    <3>1. booker[p] \in Bookers /\ booker \in [Pipelines -> Bookers]
      BY BookerFacts DEF TypeInv, BookersType
    <3>2. CASE PayFill(p)
      BY <3>1, <3>2 DEF PayFill, GoTo, Bookers
    <3>3. CASE MovePosition(p)
      <4> DEFINE r == Realized(held.position, booker[p].signed, booker[p].price, Fee)
      <4>1. booker' = [booker EXCEPT ![p] = [@ EXCEPT !.pc = "moved", !.result = r]]
        BY <3>3 DEF MovePosition
      <4> HIDE DEF r
      <4> QED
        BY <3>1, <4>1 DEF Bookers
    <3> QED
      BY <1>3, <3>2, <3>3
  <2> QED
    BY <2>1 DEF PeakInv, Booking
<1>4. ASSUME NEW t \in Tasks, RefreshDue(t)
      PROVE  PeakInv'
  <2>1. refresh'[t].pc = "due"
    BY <1>4 DEF RefreshDue, TypeInv, AccountType, Refreshed
  <2>2. Underway(refresh[t])'
    BY <2>1 DEF Underway
  <2> QED
    BY <2>2 DEF PeakInv
<1>5. ASSUME NEW p \in Pipelines, BookProfit(p)
      PROVE  PeakInv'
  BY <1>4, <1>5 DEF BookProfit, Tasks
<1>6. ASSUME NEW p \in Pipelines,
             \/ StoreOrder(p) \/ StoreFill(p)
             \/ BeginSnapshot(p) \/ EndSnapshot(p) \/ StoreSnapshot(p)
      PROVE  PeakInv'
  <2>1. /\ UNCHANGED <<cash, held, peak, refresh>>
        /\ booker[p].pc \notin {"paid", "moved"}
    BY <1>6 DEF StoreOrder, StoreFill, BeginSnapshot, EndSnapshot, StoreSnapshot, At,
                portfolioVars
  <2>2. \E B : booker' = [booker EXCEPT ![p] = B]
    <3>1. CASE EndSnapshot(p)
      <4> DEFINE B == [booker[p] EXCEPT !.pc = "read", !.snap.realized = realized]
      <4>1. booker' = [booker EXCEPT ![p] = B]
        BY <3>1 DEF EndSnapshot
      <4> QED
        BY <4>1
    <3>2. CASE ~EndSnapshot(p)
      BY <1>6, <3>2 DEF StoreOrder, StoreFill, BeginSnapshot, StoreSnapshot
    <3> QED
      BY <3>1, <3>2
  <2> QED
    BY <2>1, <2>2, PeakBookerMoves
<1>7. ASSUME NEW m \in Markers, NEW price \in budget.marks, Mark(m, price)
      PROVE  PeakInv'
  BY <1>4, <1>7 DEF Mark, Tasks
<1>8. CASE PaperReset
  <2>1. cash' = Start /\ held' = NotHeld /\ peak' = Start
    BY <1>8 DEF PaperReset
  <2>2. EquityOf(cash', held') <= peak'
    BY <2>1, NotHeldEquity, ConstantFacts
  <2> QED
    BY <2>2 DEF PeakInv, Covered
<1>9. CASE Restart \/ RestartBlind
  BY <1>9, RestartType DEF PeakInv, Covered
<1>10. CASE \/ KeeperTick \/ KeeperReads \/ KeeperInserts
            \/ \E ok \in Writes : KeeperStores(ok)
            \/ Midnight \/ UNCHANGED vars
  <2>1. UNCHANGED <<cash, held, peak, refresh, booker>>
    BY <1>10 DEF KeeperTick, KeeperReads, KeeperInserts, KeeperStores, Midnight,
                 portfolioVars, vars
  <2> QED
    BY <1>1, <2>1
<1>11. ASSUME NEW t \in Tasks, RefreshStep(t)
       PROVE  PeakInv'
  BY <1>11, RefreshPeak
<1> QED
  BY <1>2, <1>3, <1>5, <1>6, <1>7, <1>8, <1>9, <1>10, <1>11 DEF Next, BookerStep

\* Whenever nobody is within a booking or a mark, the peak that the drawdown
\* limit is measured from is no less than the equity, although whoever refreshes
\* it adds up the fields one by one while others change them: the last to change
\* one has its own refresh still to come (Portfolio::mark, refresh_peak).
THEOREM PeakIsHighest == Spec => []PeakCoversEquity
<1>1. Init => PeakInv
  BY NotHeldEquity, ConstantFacts DEF Init, PeakInv, Covered
<1>2. TypeInv /\ PeakInv /\ [Next]_vars => (TypeInv /\ PeakInv)'
  BY TypeInvNext, PeakNext
<1>3. PeakInv => PeakCoversEquity
  BY DEF PeakInv, Covered, Underway, PeakCoversEquity, Settled, Refreshing
<1> QED
  BY <1>1, <1>2, <1>3, TypeInvInit, PTL DEF Spec

-----------------------------------------------------------------------------
(***************************************************************************)
(* The account changes by whole trades (AccountBook).                      *)
(***************************************************************************)
LEMMA PaidType ==
  ASSUME TypeInv, NEW p \in Pipelines
  PROVE  Paid[p] \in Int /\ Pending[p] \in Int
<1>1. booker[p].pc = "paid" => CashDelta(booker[p].signed, booker[p].price, Fee) \in Int
  <2>1. booker[p].pc = "paid" => booker[p].signed \in Int /\ booker[p].price \in Nat
    BY BookerFacts DEF WithTrade
  <2> QED
    BY <2>1, ConstantFacts, CashDeltaType
<1>2. booker[p].result \in Int
  BY BookerFacts DEF Bookers
<1> QED
  BY <1>1, <1>2 DEF Paid, Pending, At

LEMMA PaidTypes ==
  TypeInv => \A q \in Pipelines : Paid[q] \in Int /\ Pending[q] \in Int
BY PaidType

LEMMA SettledType ==
  ASSUME TypeInv
  PROVE  SettledCash \in Int /\ SettledRealized \in Int
<1> DEFINE a == SumFunctionOnSet(Paid, Pipelines)
           b == SumFunctionOnSet(Pending, Pipelines)
<1>1. a \in Int /\ b \in Int
  BY PaidType, PipelinesAssumption, SumType
<1>2. SettledCash = cash - a /\ SettledRealized = realized + b
  BY DEF SettledCash, SettledRealized
<1> HIDE DEF a, b
<1> QED
  BY <1>1, <1>2 DEF TypeInv, AccountType

LEMMA SettledSame ==
  ASSUME UNCHANGED <<cash, realized, booker>>
  PROVE  SettledCash' = SettledCash /\ SettledRealized' = SettledRealized
<1>1. Paid' = Paid /\ Pending' = Pending
  BY DEF Paid, Pending, At
<1> QED
  BY <1>1 DEF SettledCash, SettledRealized

\* Where one pipeline moves.
LEMMA SettledMoves ==
  ASSUME TypeInv, TypeInv', NEW p \in Pipelines,
         \A q \in Pipelines \ {p} : booker'[q] = booker[q]
  PROVE  /\ SettledCash' = SettledCash + (cash' - cash) - (Paid'[p] - Paid[p])
         /\ SettledRealized' = SettledRealized + (realized' - realized)
                                 + (Pending'[p] - Pending[p])
<1> DEFINE f == Paid
           g == Paid'
           h == Pending
           k == Pending'
           F == SumFunctionOnSet(f, Pipelines)
           G == SumFunctionOnSet(g, Pipelines)
           H == SumFunctionOnSet(h, Pipelines)
           K == SumFunctionOnSet(k, Pipelines)
<1>1. \A q \in Pipelines : f[q] \in Int /\ h[q] \in Int
  BY PaidType
<1>2. g[p] \in Int /\ k[p] \in Int
  <2>1. (TypeInv => \A q \in Pipelines : Paid[q] \in Int /\ Pending[q] \in Int)'
    BY PaidTypes, PTL
  <2> QED
    BY <2>1
<1>3. \A q \in Pipelines \ {p} : g[q] = f[q] /\ k[q] = h[q]
  BY DEF Paid, Pending, At
<1>4. SettledCash = cash - F /\ SettledCash' = cash' - G
  BY DEF SettledCash
<1>5. SettledRealized = realized + H /\ SettledRealized' = realized' + K
  BY DEF SettledRealized
<1> HIDE DEF f, g, h, k
<1>6. G = F + (g[p] - f[p])
  BY <1>1, <1>2, <1>3, PipelinesAssumption, SumChanged
<1>7. K = H + (k[p] - h[p])
  BY <1>1, <1>2, <1>3, PipelinesAssumption, SumChanged
<1>8. F \in Int /\ H \in Int
  BY <1>1, PipelinesAssumption, SumType
<1>9. cash \in Int /\ cash' \in Int /\ realized \in Int /\ realized' \in Int
  BY DEF TypeInv, AccountType
<1> DEFINE c == cash'
           r == realized'
           sc == SettledCash'
           sr == SettledRealized'
<1>10. sc = c - G /\ sr = r + K /\ c \in Int /\ r \in Int
  BY <1>4, <1>5, <1>9
<1> HIDE DEF F, G, H, K, c, r, sc, sr
<1>11. sc = SettledCash + (c - cash) - (g[p] - f[p])
  BY <1>1, <1>2, <1>4, <1>6, <1>8, <1>9, <1>10
<1>12. sr = SettledRealized + (r - realized) + (k[p] - h[p])
  BY <1>1, <1>2, <1>5, <1>7, <1>8, <1>9, <1>10
<1> QED
  BY <1>11, <1>12 DEF c, r, sc, sr, f, g, h, k

\* Neither half booked before the step nor after it.
LEMMA SettledKept ==
  ASSUME TypeInv, TypeInv', UNCHANGED <<cash, realized>>, NEW p \in Pipelines,
         \A q \in Pipelines \ {p} : booker'[q] = booker[q],
         booker[p].pc \notin {"paid", "moved"}, booker'[p].pc \notin {"paid", "moved"}
  PROVE  SettledCash' = SettledCash /\ SettledRealized' = SettledRealized
<1>1. Paid[p] = 0 /\ Paid'[p] = 0 /\ Pending[p] = 0 /\ Pending'[p] = 0
  BY DEF Paid, Pending, At
<1>2. /\ SettledCash' = SettledCash + (cash' - cash) - (Paid'[p] - Paid[p])
      /\ SettledRealized' = SettledRealized + (realized' - realized)
                              + (Pending'[p] - Pending[p])
  BY SettledMoves
<1>3. cash \in Int /\ realized \in Int /\ SettledCash \in Int /\ SettledRealized \in Int
  BY SettledType DEF TypeInv, AccountType
<1>4. cash' - cash = 0 /\ realized' - realized = 0
  BY <1>3
<1> QED
  BY <1>1, <1>2, <1>3, <1>4

\* What a pipeline leaves alone when it moves.
LEMMA OthersStay ==
  ASSUME TypeInv, NEW p \in Pipelines, NEW B, booker' = [booker EXCEPT ![p] = B]
  PROVE  booker'[p] = B /\ \A q \in Pipelines \ {p} : booker'[q] = booker[q]
BY DEF TypeInv, BookersType

\* The cash that moved first is not settled before the position has moved.
LEMMA PayFillSettles ==
  ASSUME TypeInv, TypeInv', NEW p \in Pipelines, PayFill(p)
  PROVE  SettledCash' = SettledCash /\ SettledRealized' = SettledRealized
<1> DEFINE delta == CashDelta(booker[p].signed, booker[p].price, Fee)
           B == [booker[p] EXCEPT !.pc = "paid"]
<1>1. /\ booker[p].pc = "ordered" /\ cash' = cash + delta /\ realized' = realized
      /\ booker' = [booker EXCEPT ![p] = B]
  BY DEF PayFill, At, GoTo
<1>2. B.pc = "paid" /\ B.signed = booker[p].signed /\ B.price = booker[p].price
  BY BookerFacts DEF Bookers
<1> HIDE DEF B
<1>3. booker'[p] = B /\ \A q \in Pipelines \ {p} : booker'[q] = booker[q]
  BY <1>1, OthersStay
<1>4. Paid[p] = 0 /\ Paid'[p] = delta /\ Pending[p] = 0 /\ Pending'[p] = 0
  BY <1>1, <1>2, <1>3 DEF Paid, Pending, At
<1>5. delta \in Int
  <2>1. booker[p].signed \in Int /\ booker[p].price \in Nat
    BY <1>1, BookerFacts DEF WithTrade
  <2> QED
    BY <2>1, ConstantFacts, CashDeltaType
<1> HIDE DEF delta
<1>6. /\ SettledCash' = SettledCash + (cash' - cash) - (Paid'[p] - Paid[p])
      /\ SettledRealized' = SettledRealized + (realized' - realized)
                              + (Pending'[p] - Pending[p])
  BY <1>3, SettledMoves
<1>7. cash \in Int /\ realized \in Int /\ SettledCash \in Int /\ SettledRealized \in Int
  BY SettledType DEF TypeInv, AccountType
<1>8. cash' - cash = delta /\ realized' - realized = 0
  BY <1>1, <1>5, <1>7
<1>9. Paid'[p] - Paid[p] = delta /\ Pending'[p] - Pending[p] = 0
  BY <1>4, <1>5
<1> QED
  BY <1>5, <1>6, <1>7, <1>8, <1>9

\* Cash and profit are settled with the position, by what the trade is worth.
LEMMA MovePositionSettles ==
  ASSUME TypeInv, TypeInv', NEW p \in Pipelines, MovePosition(p)
  PROVE  \E signed \in Quantities, price \in Prices :
           /\ SettledCash' = SettledCash + CashDelta(signed, price, Fee)
           /\ held'.position = PositionAfter(held.position, signed, price)
           /\ SettledRealized' = SettledRealized
                                   + Realized(held.position, signed, price, Fee)
           /\ upsets' = upsets
           /\ signed = booker[p].signed /\ price = booker[p].price
<1> DEFINE s == booker[p].signed
           x == booker[p].price
           delta == CashDelta(s, x, Fee)
           r == Realized(held.position, s, x, Fee)
           B == [booker[p] EXCEPT !.pc = "moved", !.result = r]
<1>1. /\ booker[p].pc = "paid" /\ cash' = cash /\ realized' = realized
      /\ held' = [held EXCEPT !.known = TRUE,
                              !.position = PositionAfter(held.position, s, x)]
      /\ booker' = [booker EXCEPT ![p] = B] /\ upsets' = upsets
  BY DEF MovePosition, At, restVars, countVars
<1>2. /\ s \in Quantities /\ x \in Prices /\ s \in Int /\ x \in Nat
      /\ held.position \in Positions
  BY <1>1, BookerFacts, ConstantFacts
     DEF BookerOK, WithTrade, TypeInv, AccountType, Holdings
<1>3. delta \in Int
  BY <1>2, ConstantFacts, CashDeltaType
<1>4. r \in Int
  BY <1>2, ConstantFacts, RealizedType
<1>5. held'.position = PositionAfter(held.position, s, x)
  BY <1>1 DEF TypeInv, AccountType, Holdings
<1>6. Paid[p] = delta /\ Pending[p] = 0
  BY <1>1 DEF Paid, Pending, At
<1> HIDE DEF r
<1>7. B.pc = "moved" /\ B.result = r
  BY BookerFacts DEF Bookers
<1> HIDE DEF B, delta
<1>8. booker'[p] = B /\ \A q \in Pipelines \ {p} : booker'[q] = booker[q]
  BY <1>1, OthersStay
<1>9. Paid'[p] = 0 /\ Pending'[p] = r
  BY <1>7, <1>8 DEF Paid, Pending, At
<1>10. /\ SettledCash' = SettledCash + (cash' - cash) - (Paid'[p] - Paid[p])
       /\ SettledRealized' = SettledRealized + (realized' - realized)
                               + (Pending'[p] - Pending[p])
  BY <1>8, SettledMoves
<1>11. cash \in Int /\ realized \in Int /\ SettledCash \in Int /\ SettledRealized \in Int
  BY SettledType DEF TypeInv, AccountType
<1>12. cash' - cash = 0 /\ realized' - realized = 0
  BY <1>1, <1>11
<1>13. SettledCash' = SettledCash + delta
  BY <1>3, <1>6, <1>9, <1>10, <1>11, <1>12
<1>14. SettledRealized' = SettledRealized + r
  BY <1>4, <1>6, <1>9, <1>10, <1>11, <1>12
<1> QED
  BY <1>1, <1>2, <1>5, <1>13, <1>14 DEF delta, r

LEMMA BookProfitSettles ==
  ASSUME TypeInv, TypeInv', NEW p \in Pipelines, BookProfit(p)
  PROVE  SettledCash' = SettledCash /\ SettledRealized' = SettledRealized
<1> DEFINE r == booker[p].result
           B == [IdleBooker EXCEPT !.pc = "booked", !.fill = booker[p].fill,
                                   !.ordered = booker[p].ordered]
<1>1. /\ booker[p].pc = "moved" /\ cash' = cash /\ realized' = realized + r
      /\ booker' = [booker EXCEPT ![p] = B]
  BY DEF BookProfit, At
<1>2. B.pc = "booked"
  BY IdleBookerType DEF Bookers
<1> HIDE DEF B
<1>3. booker'[p] = B /\ \A q \in Pipelines \ {p} : booker'[q] = booker[q]
  BY <1>1, OthersStay
<1>4. Paid[p] = 0 /\ Paid'[p] = 0 /\ Pending[p] = r /\ Pending'[p] = 0
  BY <1>1, <1>2, <1>3 DEF Paid, Pending, At
<1>5. r \in Int
  BY BookerFacts DEF Bookers
<1> HIDE DEF r
<1>6. /\ SettledCash' = SettledCash + (cash' - cash) - (Paid'[p] - Paid[p])
      /\ SettledRealized' = SettledRealized + (realized' - realized)
                              + (Pending'[p] - Pending[p])
  BY <1>3, SettledMoves
<1>7. cash \in Int /\ realized \in Int /\ SettledCash \in Int /\ SettledRealized \in Int
  BY SettledType DEF TypeInv, AccountType
<1>8. cash' - cash = 0 /\ realized' - realized = r
  BY <1>1, <1>5, <1>7
<1>9. Paid'[p] - Paid[p] = 0 /\ Pending'[p] - Pending[p] = 0 - r
  BY <1>4, <1>5
<1> QED
  BY <1>5, <1>6, <1>7, <1>8, <1>9

\* The other steps of a pipeline.
LEMMA OtherStepsSettle ==
  ASSUME TypeInv, TypeInv', NEW p \in Pipelines,
         \/ \E trade \in budget.trades : Execute(p, trade)
         \/ StoreOrder(p) \/ StoreFill(p)
         \/ BeginSnapshot(p) \/ EndSnapshot(p) \/ StoreSnapshot(p)
  PROVE  /\ SettledCash' = SettledCash /\ SettledRealized' = SettledRealized
         /\ UNCHANGED <<held, upsets>>
<1>1. UNCHANGED <<cash, realized, held, upsets>>
  BY DEF Execute, StoreOrder, StoreFill, BeginSnapshot, EndSnapshot, StoreSnapshot,
         portfolioVars, restVars, countVars
<1>2. booker[p].pc \notin {"paid", "moved"}
  BY DEF Execute, StoreOrder, StoreFill, BeginSnapshot, EndSnapshot, StoreSnapshot, At
<1>3. PICK B : booker' = [booker EXCEPT ![p] = B] /\ B.pc \notin {"paid", "moved"}
  <2>1. booker[p] \in Bookers
    BY BookerFacts
  <2>2. ASSUME NEW trade \in budget.trades, Execute(p, trade)
        PROVE  \E B : booker' = [booker EXCEPT ![p] = B] /\ B.pc \notin {"paid", "moved"}
    <3> DEFINE B == [IdleBooker EXCEPT !.pc = "executed", !.fill = made + 1,
                       !.signed = trade[1], !.price = trade[2], !.day = today]
    <3>1. booker' = [booker EXCEPT ![p] = B]
      BY <2>2 DEF Execute
    <3>2. B.pc = "executed"
      BY IdleBookerType DEF Bookers
    <3> QED
      BY <3>1, <3>2
  <2>3. CASE StoreOrder(p)
    <3>1. PICK ok \in Writes :
            booker' = [booker EXCEPT ![p] = [@ EXCEPT !.pc = "ordered", !.ordered = ok]]
      BY <2>3 DEF StoreOrder
    <3> DEFINE B == [booker[p] EXCEPT !.pc = "ordered", !.ordered = ok]
    <3>2. booker' = [booker EXCEPT ![p] = B]
      BY <3>1
    <3>3. B.pc = "ordered"
      BY <2>1 DEF Bookers
    <3> QED
      BY <3>2, <3>3
  <2>4. CASE StoreFill(p)
    <3> DEFINE B == IF budget.database = "none" THEN IdleBooker
                    ELSE [IdleBooker EXCEPT !.pc = "filed"]
    <3>1. booker' = [booker EXCEPT ![p] = B] /\ B.pc \notin {"paid", "moved"}
      BY <2>4 DEF StoreFill, IdleBooker
    <3> QED
      BY <3>1
  <2>5. CASE BeginSnapshot(p)
    <3> DEFINE B == [booker[p] EXCEPT !.pc = "reading", !.snap = SnapshotBegun]
    <3>1. booker' = [booker EXCEPT ![p] = B] /\ B.pc = "reading"
      BY <2>1, <2>5 DEF BeginSnapshot, Bookers
    <3> QED
      BY <3>1
  <2>6. CASE EndSnapshot(p)
    <3> DEFINE B == [booker[p] EXCEPT !.pc = "read", !.snap.realized = realized]
    <3>1. booker' = [booker EXCEPT ![p] = B] /\ B.pc = "read"
      BY <2>1, <2>6 DEF EndSnapshot, Bookers
    <3> QED
      BY <3>1
  <2>7. CASE StoreSnapshot(p)
    <3>1. booker' = [booker EXCEPT ![p] = IdleBooker] /\ IdleBooker.pc = "idle"
      BY <2>7 DEF StoreSnapshot, IdleBooker
    <3> QED
      BY <3>1
  <2> QED
    BY <2>2, <2>3, <2>4, <2>5, <2>6, <2>7
<1>4. booker'[p] = B /\ \A q \in Pipelines \ {p} : booker'[q] = booker[q]
  BY <1>3, OthersStay
<1> QED
  BY <1>1, <1>2, <1>3, <1>4, SettledKept

LEMMA SameArithmetic ==
  ASSUME NEW h, NEW s, NEW x, NEW fee
  PROVE  /\ Account!CashDelta(s, x, fee) = CashDelta(s, x, fee)
         /\ Account!PositionAfter(h, s, x) = PositionAfter(h, s, x)
         /\ Account!Realized(h, s, x, fee) = Realized(h, s, x, fee)
<1>1. Account!CashDelta(s, x, fee) = CashDelta(s, x, fee)
  BY DEF CashDelta, Account!CashDelta
<1>2. Account!PositionAfter(h, s, x) = PositionAfter(h, s, x)
  BY DEF PositionAfter, EntryAfter, RolledAverage, Increases, Crosses, AbsOf,
         Account!PositionAfter, Account!EntryAfter, Account!RolledAverage,
         Account!Increases, Account!Crosses, Account!AbsOf
<1>3. Account!Realized(h, s, x, fee) = Realized(h, s, x, fee)
  BY DEF Realized, Increases, LesserOf, AbsOf,
         Account!Realized, Account!Increases, Account!LesserOf, Account!AbsOf
<1> QED
  BY <1>1, <1>2, <1>3

\* Of each step, what the account has of it: nothing, a whole trade, or an upset.
LEMMA StepSettles ==
  ASSUME TypeInv, TypeInv', [Next]_vars
  PROVE  \/ /\ SettledCash' = SettledCash /\ SettledRealized' = SettledRealized
            /\ held'.position = held.position /\ upsets' = upsets
         \/ \E p \in Pipelines : MovePosition(p)
         \/ upsets' = upsets + 1
<1> DEFINE Kept == /\ SettledCash' = SettledCash /\ SettledRealized' = SettledRealized
                   /\ held'.position = held.position /\ upsets' = upsets
<1>1. ASSUME NEW p \in Pipelines, NEW trade \in budget.trades, Execute(p, trade)
      PROVE  Kept
  BY <1>1, OtherStepsSettle
<1>2. ASSUME NEW p \in Pipelines, BookerStep(p), ~MovePosition(p)
      PROVE  Kept
  <2>1. CASE PayFill(p)
    <3>1. held' = held /\ upsets' = upsets
      BY <2>1 DEF PayFill, countVars
    <3> QED
      BY <2>1, <3>1, PayFillSettles
  <2>2. CASE BookProfit(p)
    <3>1. held' = held /\ upsets' = upsets
      BY <2>2 DEF BookProfit, countVars
    <3> QED
      BY <2>2, <3>1, BookProfitSettles
  <2>3. CASE ~PayFill(p) /\ ~BookProfit(p)
    BY <1>2, <2>3, OtherStepsSettle DEF BookerStep
  <2> QED
    BY <2>1, <2>2, <2>3
<1>3. CASE \/ KeeperTick \/ KeeperReads \/ KeeperInserts
           \/ \E ok \in Writes : KeeperStores(ok)
           \/ Midnight \/ UNCHANGED vars
  <2>1. UNCHANGED <<cash, realized, booker, held, upsets>>
    BY <1>3 DEF KeeperTick, KeeperReads, KeeperInserts, KeeperStores, Midnight,
                portfolioVars, restVars, countVars, vars
  <2> QED
    BY <2>1, SettledSame
<1>4. ASSUME NEW m \in Markers, NEW price \in budget.marks, Mark(m, price)
      PROVE  Kept
  <2>1. UNCHANGED <<cash, realized, booker, upsets>>
    BY <1>4 DEF Mark, restVars, countVars
  <2>2. held'.position = held.position
    BY <1>4 DEF Mark, TypeInv, AccountType, Holdings
  <2> QED
    BY <2>1, <2>2, SettledSame
<1>6. ASSUME NEW t \in Tasks, RefreshStep(t)
      PROVE  Kept
  <2>1. UNCHANGED <<cash, realized, booker, held, upsets>>
    BY <1>6, RefreshLeaves DEF restVars, countVars
  <2> QED
    BY <2>1, SettledSame
<1>5. CASE PaperReset \/ Restart \/ RestartBlind
  BY <1>5 DEF PaperReset, Restart, RestartBlind, Restarted
<1> QED
  BY <1>1, <1>2, <1>3, <1>4, <1>5, <1>6 DEF Next

LEMMA AccountInit == Init => Account!BookInit
<1> SUFFICES ASSUME Init PROVE Account!BookInit
  OBVIOUS
<1> DEFINE f == Paid
           g == Pending
<1>1. \A p \in Pipelines : f[p] = 0 /\ g[p] = 0
  BY DEF Init, Paid, Pending, At, IdleBooker
<1>2. /\ SettledCash = cash - SumFunctionOnSet(f, Pipelines)
      /\ SettledRealized = realized + SumFunctionOnSet(g, Pipelines)
  BY DEF SettledCash, SettledRealized
<1> HIDE DEF f, g
<1>3. SumFunctionOnSet(f, Pipelines) = 0 /\ SumFunctionOnSet(g, Pipelines) = 0
  BY <1>1, PipelinesAssumption, SumOfZeros
<1>4. SettledCash = Start /\ SettledRealized = 0
  BY <1>2, <1>3, ConstantFacts DEF Init
<1> QED
  BY <1>4 DEF Init, NotHeld, Flat, Account!BookInit, Account!Flat

LEMMA AccountNext ==
  TypeInv /\ TypeInv' /\ [Next]_vars => [Account!BookNext]_(Account!bookVars)
<1> SUFFICES ASSUME TypeInv, TypeInv', [Next]_vars
             PROVE  [Account!BookNext]_(Account!bookVars)
  OBVIOUS
<1>1. CASE /\ SettledCash' = SettledCash /\ SettledRealized' = SettledRealized
           /\ held'.position = held.position /\ upsets' = upsets
  BY <1>1 DEF Account!bookVars
<1>2. ASSUME NEW p \in Pipelines, MovePosition(p)
      PROVE  Account!BookNext
  <2>1. PICK signed \in Quantities, price \in Prices :
           /\ SettledCash' = SettledCash + CashDelta(signed, price, Fee)
           /\ held'.position = PositionAfter(held.position, signed, price)
           /\ SettledRealized' = SettledRealized
                                   + Realized(held.position, signed, price, Fee)
           /\ upsets' = upsets
    BY <1>2, MovePositionSettles
  <2>2. Account!Trade(signed, price)
    BY <2>1, SameArithmetic DEF Account!Trade
  <2> QED
    BY <2>2 DEF Account!BookNext
<1>3. CASE upsets' = upsets + 1
  BY <1>3 DEF Account!BookNext, Account!Upset
<1> QED
  BY <1>1, <1>2, <1>3, StepSettles

\* However the pipelines interleave the steps of apply_fill, with housekeeping,
\* marks and midnight among them, the account changes by whole trades and
\* otherwise only in restarts and resets: Ledger implements AccountBook.
THEOREM AccountRefined == Spec => AccountBookSpec
<1>1. Init => Account!BookInit
  BY AccountInit
<1>2. TypeInv /\ TypeInv' /\ [Next]_vars => [Account!BookNext]_(Account!bookVars)
  BY AccountNext
<1> QED
  BY <1>1, <1>2, TypeInvHolds, PTL DEF Spec, AccountBookSpec, Account!BookSpec

-----------------------------------------------------------------------------
(***************************************************************************)
(* The balance of cash, cost and profit.                                   *)
(***************************************************************************)
LEMMA Distribute ==
  ASSUME NEW m \in Int, NEW n \in Int, NEW k \in Int
  PROVE  /\ (m + n) * k = m * k + n * k /\ (m - n) * k = m * k - n * k
         /\ k * (m - n) = k * m - k * n /\ (0 - m) * k = 0 - m * k
         /\ m * k \in Int
OBVIOUS

LEMMA WholeQuotient ==
  ASSUME NEW m \in Nat, NEW n \in Nat \ {0}, m % n = 0
  PROVE  m \div n \in Nat /\ (m \div n) * n = m
OBVIOUS

\* The average of both is whole, as it is in decimals.
WholeAverage(h, s, x) ==
  Increases(h, s) =>
    (AbsOf(h.qty) * h.avg + AbsOf(s) * x) % (AbsOf(h.qty) + AbsOf(s)) = 0

\* What is paid becomes cost or profit, in each of the five cases: opening or
\* increasing, reducing, closing and crossing zero.
LEMMA IncreaseBalances ==
  ASSUME NEW h \in Positions, NEW s \in Int \ {0}, NEW x \in Nat,
         Increases(h, s), WholeAverage(h, s, x)
  PROVE  CostOf(PositionAfter(h, s, x)) = CostOf(h) + s * x
<1> DEFINE q == h.qty
           a == h.avg
           b == AbsOf(q)
           c == AbsOf(s)
           m == b * a + c * x
           n == b + c
           e == m \div n
<1>1. q \in Int /\ a \in Nat
  BY DEF Positions
<1>2. b \in Nat /\ c \in Nat \ {0} /\ n \in Nat \ {0}
  BY <1>1, AbsType
<1>3. b * a \in Nat /\ c * x \in Nat
  BY <1>1, <1>2
<1>4. m % n = 0
  BY DEF WholeAverage
<1>5. m \in Nat
  BY <1>3
<1>6. e = RolledAverage(h, s, x)
  BY DEF RolledAverage
<1>7. e \in Nat /\ e * n = m
  <2> HIDE DEF m, n
  <2> QED
    BY <1>2, <1>4, <1>5, WholeQuotient
<1>8. CASE q >= 0 /\ s > 0
  <2>1. q + s # 0 /\ q + s = n /\ b = q /\ c = s
    BY <1>1, <1>8 DEF AbsOf
  <2>2. CostOf(PositionAfter(h, s, x)) = (q + s) * e
    BY <1>6, <2>1 DEF CostOf, PositionAfter, EntryAfter
  <2>3. (q + s) * e = m
    <3> HIDE DEF n, m, e
    <3> QED
      BY <1>1, <1>2, <1>7, <2>1
  <2>4. m = q * a + s * x
    BY <2>1
  <2>5. CostOf(h) = q * a
    BY DEF CostOf
  <2> QED
    BY <2>2, <2>3, <2>4, <2>5
<1>9. CASE q <= 0 /\ s < 0
  <2>1. q + s # 0 /\ q + s = 0 - n /\ b = 0 - q /\ c = 0 - s
    BY <1>1, <1>9 DEF AbsOf
  <2>2. CostOf(PositionAfter(h, s, x)) = (q + s) * e
    BY <1>6, <2>1 DEF CostOf, PositionAfter, EntryAfter
  <2>3. (q + s) * e = 0 - m
    <3> HIDE DEF n, m, e
    <3>1. (0 - n) * e = 0 - n * e /\ n * e = e * n
      BY <1>2, <1>7, Distribute
    <3> QED
      BY <1>7, <2>1, <3>1
  <2>4. m = (0 - q * a) + (0 - s * x)
    <3>1. (0 - q) * a = 0 - q * a /\ (0 - s) * x = 0 - s * x
      BY <1>1, Distribute
    <3> QED
      BY <2>1, <3>1
  <2>5. CostOf(h) = q * a /\ q * a \in Int /\ s * x \in Int
    BY <1>1, ProductType DEF CostOf
  <2> HIDE DEF m, e
  <2> QED
    BY <2>2, <2>3, <2>4, <2>5
<1> QED
  BY <1>1, <1>8, <1>9 DEF Increases

LEMMA DecreaseBalances ==
  ASSUME NEW h \in Positions, NEW s \in Int \ {0}, NEW x \in Nat, NEW fee \in Nat,
         ~Increases(h, s)
  PROVE  CostOf(PositionAfter(h, s, x))
           = CostOf(h) + s * x + Realized(h, s, x, fee) + fee
<1> DEFINE q == h.qty
           a == h.avg
           r == Realized(h, s, x, fee)
           y == CostOf(PositionAfter(h, s, x))
<1>1. q \in Int /\ a \in Nat
  BY DEF Positions
<1>2. /\ q * a \in Int /\ s * x \in Int /\ q * x \in Int /\ s * a \in Int
      /\ (q + s) * a = q * a + s * a /\ (q + s) * x = q * x + s * x
      /\ q * (x - a) = q * x - q * a /\ s * (x - a) = s * x - s * a
      /\ q * (a - x) = q * a - q * x /\ s * (a - x) = s * a - s * x
      /\ (0 - q) * (a - x) = 0 - q * (a - x) /\ (0 - s) * (x - a) = 0 - s * (x - a)
  <2>1. x \in Int /\ a \in Int /\ s \in Int /\ x - a \in Int /\ a - x \in Int
    BY <1>1
  <2> QED
    BY <1>1, <2>1, Distribute
<1>3. CostOf(h) = q * a
  BY DEF CostOf
<1>4. CASE q > 0
  <2>1. s < 0
    BY <1>1, <1>4 DEF Increases
  <2>2. CASE q + s >= 0
    <3>1. r = (0 - s) * (x - a) - fee
      BY <1>1, <1>4, <2>1, <2>2 DEF Realized, LesserOf, AbsOf
    <3>2. y = (q + s) * a
      <4>1. CASE q + s = 0
        <5>1. y = (q + s) * 0 /\ (q + s) * a = 0
          BY <1>1, <4>1 DEF CostOf, PositionAfter, EntryAfter
        <5> QED
          BY <1>1, <4>1, <5>1
      <4>2. CASE q + s > 0
        BY <1>1, <1>4, <4>2 DEF CostOf, PositionAfter, EntryAfter, Crosses
      <4> QED
        BY <1>1, <2>2, <4>1, <4>2
    <3> HIDE DEF q, a, r, y
    <3> QED
      BY <1>1, <1>2, <1>3, <3>1, <3>2 DEF r, y
  <2>3. CASE q + s < 0
    <3>1. r = q * (x - a) - fee
      BY <1>1, <1>4, <2>1, <2>3 DEF Realized, LesserOf, AbsOf
    <3>2. y = (q + s) * x
      BY <1>1, <1>4, <2>3 DEF CostOf, PositionAfter, EntryAfter, Crosses
    <3> HIDE DEF q, a, r, y
    <3> QED
      BY <1>1, <1>2, <1>3, <3>1, <3>2 DEF r, y
  <2> QED
    BY <1>1, <2>2, <2>3
<1>5. CASE q < 0
  <2>1. s > 0
    BY <1>1, <1>5 DEF Increases
  <2>2. CASE q + s <= 0
    <3>1. r = s * (a - x) - fee
      BY <1>1, <1>5, <2>1, <2>2 DEF Realized, LesserOf, AbsOf
    <3>2. y = (q + s) * a
      <4>1. CASE q + s = 0
        <5>1. y = (q + s) * 0 /\ (q + s) * a = 0
          BY <1>1, <4>1 DEF CostOf, PositionAfter, EntryAfter
        <5> QED
          BY <1>1, <4>1, <5>1
      <4>2. CASE q + s < 0
        BY <1>1, <1>5, <4>2 DEF CostOf, PositionAfter, EntryAfter, Crosses
      <4> QED
        BY <1>1, <2>2, <4>1, <4>2
    <3> HIDE DEF q, a, r, y
    <3> QED
      BY <1>1, <1>2, <1>3, <3>1, <3>2 DEF r, y
  <2>3. CASE q + s > 0
    <3>1. r = (0 - q) * (a - x) - fee
      BY <1>1, <1>5, <2>1, <2>3 DEF Realized, LesserOf, AbsOf
    <3>2. y = (q + s) * x
      BY <1>1, <1>5, <2>3 DEF CostOf, PositionAfter, EntryAfter, Crosses
    <3> HIDE DEF q, a, r, y
    <3> QED
      BY <1>1, <1>2, <1>3, <3>1, <3>2 DEF r, y
  <2> QED
    BY <1>1, <2>2, <2>3
<1>6. q # 0
  BY DEF Increases
<1> QED
  BY <1>1, <1>4, <1>5, <1>6

LEMMA TradeBalances ==
  ASSUME NEW h \in Positions, NEW s \in Int \ {0}, NEW x \in Nat, NEW fee \in Nat,
         WholeAverage(h, s, x)
  PROVE  CostOf(PositionAfter(h, s, x))
           = CostOf(h) + s * x + Realized(h, s, x, fee) + fee
<1>1. CASE Increases(h, s)
  <2>1. CostOf(PositionAfter(h, s, x)) = CostOf(h) + s * x
    BY <1>1, IncreaseBalances
  <2>2. Realized(h, s, x, fee) = 0 - fee
    BY <1>1 DEF Realized
  <2>3. CostOf(h) \in Int /\ s * x \in Int
    BY ProductType DEF CostOf, Positions
  <2> QED
    BY <2>1, <2>2, <2>3
<1> QED
  BY <1>1, DecreaseBalances

\* Every average that is rolled comes out whole, as in the decimals of the code.
AveragesWhole ==
  \A p \in Pipelines :
    MovePosition(p) => WholeAverage(held.position, booker[p].signed, booker[p].price)

LEMMA BalanceNext ==
  TypeInv /\ TypeInv' /\ [Next]_vars /\ (AveragesWhole \/ UNCHANGED vars)
    => Imbalance' = Imbalance \/ upsets' > upsets
<1> SUFFICES ASSUME TypeInv, TypeInv', [Next]_vars, AveragesWhole \/ UNCHANGED vars
             PROVE  Imbalance' = Imbalance \/ upsets' > upsets
  OBVIOUS
<1>1. CASE /\ SettledCash' = SettledCash /\ SettledRealized' = SettledRealized
           /\ held'.position = held.position
  BY <1>1 DEF Imbalance, CostOf
<1>2. CASE UNCHANGED vars
  BY <1>1, <1>2, SettledSame DEF vars
<1>3. ASSUME NEW p \in Pipelines, MovePosition(p), AveragesWhole
      PROVE  Imbalance' = Imbalance
  <2> DEFINE s == booker[p].signed
             x == booker[p].price
             h == held.position
  <2>1. /\ SettledCash' = SettledCash + CashDelta(s, x, Fee)
        /\ held'.position = PositionAfter(h, s, x)
        /\ SettledRealized' = SettledRealized + Realized(h, s, x, Fee)
    BY <1>3, MovePositionSettles
  <2>2. WholeAverage(h, s, x)
    BY <1>3 DEF AveragesWhole
  <2>3. /\ s \in Int \ {0} /\ x \in Nat /\ Fee \in Nat
        /\ h \in Positions
    BY <1>3, BookerFacts, ConstantFacts
       DEF MovePosition, At, WithTrade, TypeInv, AccountType, Holdings
  <2> HIDE DEF s, x, h
  <2>4. CostOf(PositionAfter(h, s, x)) = CostOf(h) + s * x + Realized(h, s, x, Fee) + Fee
    BY <2>2, <2>3, TradeBalances
  <2>5. Realized(h, s, x, Fee) \in Int
    BY <2>3, RealizedType
  <2>6. s * x \in Int /\ CostOf(h) \in Int
    BY <2>3, ProductType DEF CostOf, Positions
  <2>7. CashDelta(s, x, Fee) = -(s * x) - Fee
    BY DEF CashDelta
  <2>8. SettledCash \in Int /\ SettledRealized \in Int /\ Start \in Int
    BY SettledType, ConstantFacts
  <2> DEFINE v == s * x
             r == Realized(h, s, x, Fee)
             d == CashDelta(s, x, Fee)
             c == CostOf(h)
             y == CostOf(PositionAfter(h, s, x))
  <2>9. Imbalance = SettledCash + c - Start - SettledRealized
    BY DEF Imbalance, h
  <2>10. Imbalance' = (SettledCash + d) + y - Start - (SettledRealized + r)
    BY <2>1 DEF Imbalance, CostOf
  <2>11. d = -v - Fee /\ y = c + v + r + Fee /\ v \in Int /\ r \in Int /\ c \in Int
    BY <2>4, <2>5, <2>6, <2>7
  <2> HIDE DEF v, r, d, c, y
  <2> QED
    BY <2>3, <2>8, <2>9, <2>10, <2>11
<1>4. CASE upsets' = upsets + 1
  BY <1>4 DEF TypeInv, CountsType
<1>5. \/ UNCHANGED vars
      \/ /\ SettledCash' = SettledCash /\ SettledRealized' = SettledRealized
         /\ held'.position = held.position
      \/ \E p \in Pipelines : MovePosition(p)
      \/ upsets' = upsets + 1
  BY StepSettles
<1> QED
  BY <1>1, <1>2, <1>3, <1>4, <1>5

\* Whatever the fills and whoever books them, cash plus the cost of the position
\* stays the start plus the profit, until a restart or a reset: what a fill costs
\* turns into cost or profit and nothing is lost at a crossing of zero
\* (Position::apply, Fill::cash_delta).  The averages are whole numbers here.
THEOREM BooksBalance == Spec /\ [][AveragesWhole]_vars => OnlyUpsetsUnbalance
<1>1. TypeInv /\ TypeInv' /\ [Next]_vars /\ [AveragesWhole]_vars
        => [Imbalance' = Imbalance \/ upsets' > upsets]_vars
  BY BalanceNext
<1> QED
  BY <1>1, TypeInvHolds, PTL DEF Spec, OnlyUpsetsUnbalance

-----------------------------------------------------------------------------
(***************************************************************************)
(* What a restart finds.                                                   *)
(***************************************************************************)
LEMMA GuardedInit == Init => Guarded
<1> SUFFICES ASSUME Init PROVE Guarded
  OBVIOUS
<1> USE DEF Init, IdleBooker, IdleKeeper, NoSnapshot
<1>1. Stamped
  BY DEF Stamped
<1>2. QuietRight
  BY DEF QuietRight, Booking
<1>3. SavedRight
  BY DEF SavedRight, Persisted, IsRight, Fresh, NotHeld, Flat
<1>4. KnownRows
  BY DEF KnownRows, NotHeld, Flat
<1> QED
  BY <1>1, <1>2, <1>3, <1>4 DEF Guarded

\* A step that is none of the snapshots' business.
LEMMA Unbothered ==
  ASSUME Guarded, UNCHANGED <<cash, realized, keeper, ticks, saved>>,
         stored'.snap = stored.snap, stored'.row = stored.row,
         held'.known = held.known, held'.position = held.position,
         Booking' => Booking,
         \A p \in Pipelines : booker'[p].pc \in {"reading", "read"}
           => booker'[p].pc = booker[p].pc /\ booker'[p].snap = booker[p].snap
  PROVE  Guarded'
<1> USE DEF Guarded
<1>1. Stamped'
  BY DEF Stamped
<1>3. Persisted => Persisted'
  BY DEF Persisted, IsRight, Fresh
<1>4. Fresh(keeper.snap.at) => Fresh(keeper.snap.at)'
  BY DEF Fresh
<1>5. QuietRight'
  BY <1>3, <1>4 DEF QuietRight, IsRight
<1>6. SavedRight'
  BY <1>3 DEF SavedRight
<1>7. KnownRows'
  BY DEF KnownRows
<1> QED
  BY <1>1, <1>5, <1>6, <1>7

\* A step after which the account is not saved and not being saved.
LEMMA Disturbed ==
  ASSUME Guarded, ~saved', ~keeper'.quiet,
         ticks' = ticks, keeper'.pc = keeper.pc, keeper'.snap = keeper.snap,
         stored'.snap = stored.snap, KnownRows',
         \A p \in Pipelines : booker'[p].pc \in {"reading", "read"}
           => booker'[p].pc = booker[p].pc /\ booker'[p].snap = booker[p].snap
  PROVE  Guarded'
<1> USE DEF Guarded
<1>1. Stamped'
  BY DEF Stamped
<1>2. QuietRight'
  BY DEF QuietRight
<1>3. SavedRight'
  BY DEF SavedRight
<1> QED
  BY <1>1, <1>2, <1>3

LEMMA FillStepsGuarded ==
  ASSUME TypeInv, Guarded, NEW p \in Pipelines,
         \/ \E trade \in budget.trades : Execute(p, trade)
         \/ StoreOrder(p) \/ StoreFill(p)
  PROVE  Guarded'
<1>1. /\ UNCHANGED <<cash, realized, held, keeper, ticks, saved>>
      /\ booker[p].pc \in {"idle", "executed", "booked"}
  BY DEF Execute, StoreOrder, StoreFill, At, portfolioVars, historyVars, countVars
<1>2. stored'.snap = stored.snap /\ stored'.row = stored.row
  <2>1. stored' = stored \/ stored' = [stored EXCEPT !.fills = @ \cup {booker[p].fill}]
    BY DEF Execute, StoreOrder, StoreFill
  <2> QED
    BY <2>1 DEF TypeInv, StoredType
<1>3. PICK B : booker' = [booker EXCEPT ![p] = B]
               /\ B.pc \in {"idle", "executed", "ordered", "filed"}
  <2>1. ASSUME NEW trade \in budget.trades, Execute(p, trade)
        PROVE  \E B : /\ booker' = [booker EXCEPT ![p] = B]
                      /\ B.pc \in {"idle", "executed", "ordered", "filed"}
    <3> DEFINE B == [IdleBooker EXCEPT !.pc = "executed", !.fill = made + 1,
                       !.signed = trade[1], !.price = trade[2], !.day = today]
    <3>1. booker' = [booker EXCEPT ![p] = B]
      BY <2>1 DEF Execute
    <3>2. B.pc = "executed"
      BY IdleBookerType DEF Bookers
    <3> QED
      BY <3>1, <3>2
  <2>2. CASE StoreOrder(p)
    <3>1. PICK ok \in Writes :
            booker' = [booker EXCEPT ![p] = [@ EXCEPT !.pc = "ordered", !.ordered = ok]]
      BY <2>2 DEF StoreOrder
    <3> DEFINE B == [booker[p] EXCEPT !.pc = "ordered", !.ordered = ok]
    <3>2. booker' = [booker EXCEPT ![p] = B]
      BY <3>1
    <3>3. B.pc = "ordered"
      BY BookerFacts DEF Bookers
    <3> QED
      BY <3>2, <3>3
  <2>3. CASE StoreFill(p)
    <3> DEFINE B == IF budget.database = "none" THEN IdleBooker
                    ELSE [IdleBooker EXCEPT !.pc = "filed"]
    <3>1. booker' = [booker EXCEPT ![p] = B] /\ B.pc \in {"idle", "filed"}
      BY <2>3 DEF StoreFill, IdleBooker
    <3> QED
      BY <3>1
  <2> QED
    BY <2>1, <2>2, <2>3
<1>4. booker'[p] = B /\ \A q \in Pipelines \ {p} : booker'[q] = booker[q]
  BY <1>3, OthersStay
<1>5. Booking' => Booking
  BY <1>3, <1>4 DEF Booking
<1> QED
  BY <1>1, <1>2, <1>3, <1>4, <1>5, Unbothered

\* While a fill is half booked nothing counts as saved.
LEMMA BookingGuarded ==
  ASSUME TypeInv, Guarded, NEW p \in Pipelines,
         PayFill(p) \/ MovePosition(p) \/ BookProfit(p)
  PROVE  Guarded'
<1>1. /\ ticks' = ticks /\ stored' = stored
      /\ keeper'.pc = keeper.pc /\ keeper'.snap = keeper.snap
      /\ ~saved' /\ ~keeper'.quiet
  <2>1. CASE PayFill(p)
    <3>1. Disturb /\ ticks' = ticks /\ stored' = stored
      BY <2>1 DEF PayFill, countVars
    <3>2. KeeperType
      BY DEF TypeInv
    <3> QED
      BY <3>1, <3>2, DisturbType
  <2>2. CASE MovePosition(p) \/ BookProfit(p)
    <3>1. ticks' = ticks /\ stored' = stored /\ keeper' = keeper /\ saved' = saved
      BY <2>2 DEF MovePosition, BookProfit, restVars, countVars, historyVars
    <3>2. Booking
      BY <2>2 DEF MovePosition, BookProfit, At, Booking
    <3> QED
      BY <3>1, <3>2 DEF Guarded, QuietRight
  <2> QED
    BY <2>1, <2>2
<1>2. KnownRows'
  <2>1. CASE MovePosition(p)
    <3> DEFINE h == PositionAfter(held.position, booker[p].signed, booker[p].price)
    <3>1. held' = [held EXCEPT !.known = TRUE, !.position = h]
      BY <2>1 DEF MovePosition
    <3> HIDE DEF h
    <3>2. held'.known = TRUE
      BY <3>1 DEF TypeInv, AccountType, Holdings
    <3> QED
      BY <1>1, <3>2 DEF Guarded, KnownRows
  <2>2. CASE PayFill(p) \/ BookProfit(p)
    <3>1. held' = held
      BY <2>2 DEF PayFill, BookProfit
    <3> QED
      BY <1>1, <3>1 DEF Guarded, KnownRows
  <2> QED
    BY <2>1, <2>2
<1>3. PICK B : booker' = [booker EXCEPT ![p] = B] /\ B.pc \in {"paid", "moved", "booked"}
  <2>1. booker[p] \in Bookers
    BY BookerFacts
  <2>2. CASE PayFill(p)
    <3> DEFINE B == [booker[p] EXCEPT !.pc = "paid"]
    <3>1. booker' = [booker EXCEPT ![p] = B] /\ B.pc = "paid"
      BY <2>1, <2>2 DEF PayFill, GoTo, Bookers
    <3> QED
      BY <3>1
  <2>3. CASE MovePosition(p)
    <3> DEFINE r == Realized(held.position, booker[p].signed, booker[p].price, Fee)
               B == [booker[p] EXCEPT !.pc = "moved", !.result = r]
    <3>1. booker' = [booker EXCEPT ![p] = B]
      BY <2>3 DEF MovePosition
    <3> HIDE DEF r
    <3>2. B.pc = "moved"
      BY <2>1 DEF Bookers
    <3> QED
      BY <3>1, <3>2
  <2>4. CASE BookProfit(p)
    <3> DEFINE B == [IdleBooker EXCEPT !.pc = "booked", !.fill = booker[p].fill,
                                       !.ordered = booker[p].ordered]
    <3>1. booker' = [booker EXCEPT ![p] = B]
      BY <2>4 DEF BookProfit
    <3>2. B.pc = "booked"
      BY IdleBookerType DEF Bookers
    <3> QED
      BY <3>1, <3>2
  <2> QED
    BY <2>2, <2>3, <2>4
<1>4. booker'[p] = B /\ \A q \in Pipelines \ {p} : booker'[q] = booker[q]
  BY <1>3, OthersStay
<1> QED
  BY <1>1, <1>2, <1>3, <1>4, Disturbed

LEMMA SnapFacts ==
  ASSUME TypeInv
  PROVE  /\ ticks \in Nat /\ stored.snap \in Snapshots /\ keeper.snap \in Snapshots
         /\ stored.snap.at \in Nat /\ keeper.snap.at \in Nat
         /\ \A p \in Pipelines : booker[p].snap \in Snapshots /\ booker[p].snap.at \in Nat
<1>1. ticks \in Nat /\ stored.snap \in Snapshots /\ keeper.snap \in Snapshots
  BY DEF TypeInv, CountsType, StoredType, KeeperType
<1>2. \A p \in Pipelines : booker[p].snap \in Snapshots
  BY DEF TypeInv, BookersType, Bookers
<1>3. \A s \in Snapshots : s.at \in Nat
  BY DEF Snapshots
<1> QED
  BY <1>1, <1>2, <1>3

\* A snapshot begun now bears the latest stamp, and the cash of now.
LEMMA BeginSnapshotGuarded ==
  ASSUME TypeInv, Guarded, NEW p \in Pipelines, BeginSnapshot(p)
  PROVE  Guarded'
<1> USE DEF Guarded
<1> DEFINE B == [booker[p] EXCEPT !.pc = "reading", !.snap = SnapshotBegun]
<1>1. /\ UNCHANGED <<cash, realized, held, keeper, stored, saved>> /\ ticks' = ticks + 1
      /\ booker' = [booker EXCEPT ![p] = B] /\ booker[p].pc = "filed"
  BY DEF BeginSnapshot, At, portfolioVars, historyVars
<1>2. B.pc = "reading" /\ B.snap = SnapshotBegun
  BY BookerFacts DEF Bookers
<1>3. B.pc = "reading" /\ B.snap.at = ticks + 1 /\ B.snap.cash = cash
  BY <1>2, SnapshotBegunType
<1> HIDE DEF B
<1>4. booker'[p] = B /\ \A q \in Pipelines \ {p} : booker'[q] = booker[q]
  BY <1>1, OthersStay
<1>5. Stamped'
  BY <1>1, <1>3, <1>4, SnapFacts DEF Stamped
<1>6. Booking' => Booking
  BY <1>3, <1>4 DEF Booking
<1>7. Persisted => Persisted'
  BY <1>1, <1>3, <1>4 DEF Persisted, IsRight, Fresh
<1>8. Fresh(keeper.snap.at) => Fresh(keeper.snap.at)'
  BY <1>1, <1>3, <1>4 DEF Fresh
<1>9. QuietRight'
  BY <1>1, <1>6, <1>7, <1>8 DEF QuietRight, IsRight
<1>10. SavedRight' /\ KnownRows'
  BY <1>1, <1>7 DEF SavedRight, KnownRows
<1> QED
  BY <1>5, <1>9, <1>10

LEMMA EndSnapshotGuarded ==
  ASSUME TypeInv, Guarded, NEW p \in Pipelines, EndSnapshot(p)
  PROVE  Guarded'
<1> USE DEF Guarded
<1> DEFINE s == [booker[p].snap EXCEPT !.realized = realized]
           B == [booker[p] EXCEPT !.pc = "read", !.snap = s]
<1>1. /\ UNCHANGED <<cash, realized, held, keeper, stored, saved, ticks>>
      /\ booker[p].pc = "reading"
  BY DEF EndSnapshot, At, portfolioVars, restVars, countVars, historyVars
<1>2. booker' = [booker EXCEPT ![p] = B]
  BY DEF EndSnapshot
<1>3. /\ s.at = booker[p].snap.at /\ s.cash = booker[p].snap.cash
      /\ s.realized = realized
  BY SnapFacts DEF Snapshots
<1> HIDE DEF s
<1>4. B.pc = "read" /\ B.snap = s
  BY BookerFacts DEF Bookers
<1> HIDE DEF B
<1>5. booker'[p] = B /\ \A q \in Pipelines \ {p} : booker'[q] = booker[q]
  BY <1>2, OthersStay
<1>6. Stamped'
  BY <1>1, <1>3, <1>4, <1>5 DEF Stamped
<1>7. Booking' => Booking
  BY <1>4, <1>5 DEF Booking
<1>8. Persisted => Persisted'
  BY <1>1, <1>3, <1>4, <1>5 DEF Persisted, IsRight, Fresh
<1>9. Fresh(keeper.snap.at) => Fresh(keeper.snap.at)'
  BY <1>1, <1>3, <1>4, <1>5 DEF Fresh
<1>10. QuietRight'
  BY <1>1, <1>7, <1>8, <1>9 DEF QuietRight, IsRight
<1>11. SavedRight' /\ KnownRows'
  BY <1>1, <1>8 DEF SavedRight, KnownRows
<1> QED
  BY <1>6, <1>10, <1>11

\* A snapshot that is stored replaces a right one only by another.
LEMMA StoreSnapshotGuarded ==
  ASSUME TypeInv, Guarded, NEW p \in Pipelines, StoreSnapshot(p)
  PROVE  Guarded'
<1> USE DEF Guarded
<1> DEFINE s == booker[p].snap
<1>1. /\ UNCHANGED <<cash, realized, held, keeper, saved, ticks>>
      /\ booker[p].pc = "read" /\ made' = made
      /\ booker' = [booker EXCEPT ![p] = IdleBooker]
      /\ stored' = stored \/ stored' = [stored EXCEPT !.snap = Latest(s)]
  BY DEF StoreSnapshot, At, portfolioVars, restVars, countVars, historyVars
<1>2. /\ stored'.row = stored.row
      /\ stored'.snap = stored.snap \/ stored'.snap = Latest(s)
  <2>1. s \in Snapshots /\ StoredType
    BY SnapFacts DEF TypeInv
  <2> QED
    BY <1>1, <2>1, SnapshotStored
<1>3. \/ stored'.snap = stored.snap
      \/ stored'.snap = s /\ s.at > stored.snap.at
  BY <1>2 DEF Latest
<1>4. /\ booker'[p] = IdleBooker /\ IdleBooker.pc = "idle"
      /\ \A q \in Pipelines \ {p} : booker'[q] = booker[q]
  <2>1. IdleBooker.pc = "idle"
    BY DEF IdleBooker
  <2> QED
    BY <1>1, <2>1, OthersStay
<1> HIDE DEF s
<1>5. s = booker[p].snap /\ s.at \in Nat /\ stored.snap.at \in Nat /\ keeper.snap.at \in Nat
  BY SnapFacts DEF s
<1>6. Stamped'
  BY <1>1, <1>3, <1>4, <1>5, SnapFacts DEF Stamped
<1>7. Booking' => Booking
  BY <1>4 DEF Booking
<1>8. Persisted => Persisted'
  <2> SUFFICES ASSUME Persisted PROVE Persisted'
    OBVIOUS
  <2>1. CASE stored'.snap = stored.snap
    BY <1>1, <1>4, <2>1 DEF Persisted, IsRight, Fresh
  <2>2. CASE stored'.snap = s /\ s.at > stored.snap.at
    <3>1. s.cash = cash /\ s.realized = realized
      BY <1>1, <1>5, <2>2 DEF Persisted, Fresh
    <3>2. IsRight(stored.snap)'
      BY <1>1, <2>2, <3>1 DEF IsRight
    <3>3. Fresh(stored.snap.at)'
      BY <1>1, <1>4, <1>5, <2>2, SnapFacts DEF Persisted, Fresh
    <3> QED
      BY <3>2, <3>3 DEF Persisted
  <2> QED
    BY <1>3, <2>1, <2>2
<1>9. Fresh(keeper.snap.at) => Fresh(keeper.snap.at)'
  BY <1>1, <1>4 DEF Fresh
<1>10. Fresh(keeper.snap.at) /\ s.at > keeper.snap.at => IsRight(s)
  BY <1>1, <1>5 DEF Fresh, IsRight
<1>11. QuietRight'
  <2>1. keeper.quiet /\ keeper.pc \in {"reading", "read"} /\ stored'.snap.at > keeper.snap.at
          => IsRight(stored.snap)'
    BY <1>1, <1>3, <1>10 DEF QuietRight, IsRight
  <2> QED
    BY <1>1, <1>7, <1>8, <1>9, <2>1 DEF QuietRight
<1>12. SavedRight' /\ KnownRows'
  BY <1>1, <1>2, <1>8 DEF SavedRight, KnownRows
<1> QED
  BY <1>6, <1>11, <1>12

LEMMA KeeperTickGuarded ==
  ASSUME TypeInv, Guarded, KeeperTick
  PROVE  Guarded'
<1> USE DEF Guarded
<1>1. /\ UNCHANGED <<cash, realized, held, booker, stored, saved>> /\ ticks' = ticks + 1
      /\ keeper' = [pc |-> "reading", snap |-> SnapshotBegun, quiet |-> ~Booking]
  BY DEF KeeperTick, portfolioVars, historyVars
<1>2. /\ keeper'.pc = "reading" /\ keeper'.snap.at = ticks + 1
      /\ keeper'.snap.cash = cash /\ (keeper'.quiet <=> ~Booking)
  BY <1>1, SnapshotBegunType
<1>3. Booking' <=> Booking
  BY <1>1 DEF Booking
<1>4. Stamped'
  BY <1>1, <1>2, SnapFacts DEF Stamped
<1>5. Fresh(keeper.snap.at)' /\ ~(stored'.snap.at > keeper'.snap.at)
  BY <1>1, <1>2, SnapFacts DEF Fresh, Stamped
<1>6. Persisted => Persisted'
  BY <1>1 DEF Persisted, IsRight, Fresh
<1>7. QuietRight'
  BY <1>1, <1>2, <1>3, <1>5 DEF QuietRight
<1>8. SavedRight' /\ KnownRows'
  BY <1>1, <1>2, <1>6 DEF SavedRight, KnownRows, QuietRight
<1> QED
  BY <1>4, <1>7, <1>8

LEMMA KeeperReadsGuarded ==
  ASSUME TypeInv, Guarded, KeeperReads
  PROVE  Guarded'
<1> USE DEF Guarded
<1>1. /\ UNCHANGED <<cash, realized, held, booker, stored, saved, ticks>>
      /\ keeper.pc = "reading"
      /\ keeper' = [keeper EXCEPT !.pc = "read", !.snap.realized = realized]
  BY DEF KeeperReads, portfolioVars, restVars, countVars, historyVars
<1>2. /\ keeper'.pc = "read" /\ keeper'.snap.at = keeper.snap.at
      /\ keeper'.snap.cash = keeper.snap.cash /\ keeper'.snap.realized = realized
      /\ keeper'.quiet = keeper.quiet
  BY <1>1 DEF TypeInv, KeeperType, Snapshots
<1>3. Booking' <=> Booking
  BY <1>1 DEF Booking
<1>4. Stamped'
  BY <1>1, <1>2 DEF Stamped
<1>5. Fresh(keeper.snap.at) => Fresh(keeper.snap.at)'
  BY <1>1, <1>2 DEF Fresh
<1>6. Persisted => Persisted'
  BY <1>1 DEF Persisted, IsRight, Fresh
<1>7. QuietRight'
  BY <1>1, <1>2, <1>3, <1>5 DEF QuietRight, IsRight
<1>8. SavedRight' /\ KnownRows'
  BY <1>1, <1>2, <1>6 DEF SavedRight, KnownRows
<1> QED
  BY <1>4, <1>7, <1>8

\* Undisturbed, the latest snapshot is then its own or a later one, and right.
LEMMA KeeperInsertsGuarded ==
  ASSUME TypeInv, Guarded, KeeperInserts
  PROVE  Guarded'
<1> USE DEF Guarded
<1> DEFINE s == keeper.snap
<1>1. PICK ok \in Writes :
        /\ stored' = IF ok THEN [stored EXCEPT !.snap = Latest(s)] ELSE stored
        /\ keeper' = [keeper EXCEPT !.pc = "inserted", !.quiet = @ /\ ok]
  BY DEF KeeperInserts
<1>2. /\ UNCHANGED <<cash, realized, held, booker, saved, ticks>>
      /\ keeper.pc = "read" /\ made' = made
  BY DEF KeeperInserts, portfolioVars, restVars, countVars, historyVars
<1>3. /\ stored'.row = stored.row
      /\ stored'.snap = IF ok THEN Latest(s) ELSE stored.snap
  BY <1>1 DEF TypeInv, StoredType
<1>4. keeper'.pc = "inserted" /\ (keeper'.quiet <=> keeper.quiet /\ ok)
  BY <1>1 DEF TypeInv, KeeperType
<1>5. s.at \in Nat /\ stored.snap.at \in Nat /\ s.at # stored.snap.at
  BY <1>2, SnapFacts DEF Stamped
<1>6. \/ stored'.snap = stored.snap
      \/ stored'.snap = s /\ s.at > stored.snap.at
  BY <1>3 DEF Latest
<1>7. Booking' <=> Booking
  BY <1>2 DEF Booking
<1>8. Stamped'
  BY <1>2, <1>4, <1>6, SnapFacts DEF Stamped
<1>9. keeper.quiet => IsRight(s) /\ Fresh(s.at)
  BY <1>2 DEF QuietRight, IsRight
<1>10. keeper.quiet /\ ok => Persisted'
  <2> SUFFICES ASSUME keeper.quiet, ok PROVE Persisted'
    OBVIOUS
  <2>1. CASE s.at > stored.snap.at
    <3>1. stored'.snap = s
      BY <1>3, <2>1 DEF Latest
    <3> QED
      BY <1>2, <1>9, <3>1 DEF Persisted, IsRight, Fresh
  <2>2. CASE stored.snap.at > s.at
    <3>1. stored'.snap = stored.snap
      BY <1>3, <1>5, <2>2 DEF Latest
    <3>2. IsRight(stored.snap)
      BY <1>2, <2>2 DEF QuietRight
    <3>3. Fresh(stored.snap.at)
      BY <1>9, <2>2, SnapFacts DEF Fresh
    <3> QED
      BY <1>2, <3>1, <3>2, <3>3 DEF Persisted, IsRight, Fresh
  <2> QED
    BY <1>5, <2>1, <2>2
<1>11. saved => Persisted'
  <2> SUFFICES ASSUME saved PROVE Persisted'
    OBVIOUS
  <2>1. keeper.quiet /\ Persisted
    BY <1>2 DEF SavedRight
  <2>2. CASE ok
    BY <1>10, <2>1, <2>2
  <2>3. CASE ~ok
    <3>1. stored'.snap = stored.snap
      BY <1>3, <2>3
    <3> QED
      BY <1>2, <2>1, <3>1 DEF Persisted, IsRight, Fresh
  <2> QED
    BY <2>2, <2>3
<1>12. QuietRight'
  BY <1>2, <1>4, <1>7, <1>10 DEF QuietRight
<1>13. SavedRight' /\ KnownRows'
  BY <1>2, <1>3, <1>4, <1>11 DEF SavedRight, KnownRows
<1> QED
  BY <1>8, <1>12, <1>13

\* Undisturbed to the end, the position stored is the one held.
LEMMA KeeperStoresGuarded ==
  ASSUME TypeInv, Guarded, NEW ok \in BOOLEAN, KeeperStores(ok)
  PROVE  Guarded'
<1> USE DEF Guarded
<1>1. /\ UNCHANGED <<cash, realized, held, booker, ticks>>
      /\ keeper.pc = "inserted" /\ keeper' = IdleKeeper
      /\ saved' = (ok /\ keeper.quiet)
      /\ stored' = IF ok /\ RowsToStore THEN [stored EXCEPT !.row = held] ELSE stored
  BY DEF KeeperStores, portfolioVars, countVars
<1>2. /\ stored'.snap = stored.snap
      /\ stored'.row = IF ok /\ held.known THEN held ELSE stored.row
  BY <1>1 DEF TypeInv, StoredType, RowsToStore
<1>3. keeper'.pc = "idle" /\ ~keeper'.quiet
  BY <1>1 DEF IdleKeeper
<1>4. Booking' <=> Booking
  BY <1>1 DEF Booking
<1>5. Stamped'
  BY <1>1, <1>2, <1>3 DEF Stamped
<1>6. Persisted => Persisted'
  BY <1>1, <1>2 DEF Persisted, IsRight, Fresh
<1>7. QuietRight'
  BY <1>1, <1>3, <1>4 DEF QuietRight
<1>8. SavedRight'
  <2> SUFFICES ASSUME saved'
               PROVE  Persisted' /\ (held'.known => stored'.row.position = held'.position)
    BY <1>3 DEF SavedRight
  <2>1. ok /\ keeper.quiet
    BY <1>1
  <2>2. Persisted'
    BY <1>1, <1>6, <2>1 DEF QuietRight
  <2> QED
    BY <1>1, <1>2, <2>1, <2>2
<1>9. KnownRows'
  BY <1>1, <1>2 DEF KnownRows
<1> QED
  BY <1>5, <1>7, <1>8, <1>9

LEMMA OthersGuarded ==
  ASSUME TypeInv, Guarded,
         \/ \E m \in Markers, price \in budget.marks : Mark(m, price)
         \/ \E t \in Tasks : RefreshStep(t)
         \/ Midnight \/ UNCHANGED vars
  PROVE  Guarded'
<1>1. UNCHANGED <<cash, realized, booker, keeper, stored, ticks, saved>>
  BY RefreshLeaves
     DEF Mark, Midnight, portfolioVars, restVars, countVars, historyVars, vars
<1>2. held'.known = held.known /\ held'.position = held.position
  <2>1. ASSUME NEW m \in Markers, NEW price \in budget.marks, Mark(m, price)
        PROVE  held'.known = held.known /\ held'.position = held.position
    BY <2>1 DEF Mark, TypeInv, AccountType, Holdings
  <2>2. CASE (\E t \in Tasks : RefreshStep(t)) \/ Midnight \/ UNCHANGED vars
    BY <2>2, RefreshLeaves DEF Midnight, portfolioVars, vars
  <2> QED
    BY <2>1, <2>2
<1>3. Booking' => Booking
  BY <1>1 DEF Booking
<1> QED
  BY <1>1, <1>2, <1>3, Unbothered

LEMMA PaperResetGuarded ==
  ASSUME TypeInv, Guarded, PaperReset
  PROVE  Guarded'
<1>1. /\ UNCHANGED <<booker, stored, ticks>> /\ held' = NotHeld /\ Disturb
  BY DEF PaperReset
<1>2. ~saved' /\ ~keeper'.quiet /\ keeper'.pc = keeper.pc /\ keeper'.snap = keeper.snap
  BY <1>1, DisturbType DEF TypeInv
<1>3. KnownRows'
  BY <1>1 DEF Guarded, KnownRows, NotHeld
<1> QED
  BY <1>1, <1>2, <1>3, Disturbed

\* After a restart the account is the one of the database.
LEMMA RestartGuarded ==
  ASSUME TypeInv, Guarded, Restart \/ RestartBlind
  PROVE  Guarded'
<1> USE DEF Guarded
<1>1. /\ booker' = [p \in Pipelines |-> IdleBooker] /\ keeper' = IdleKeeper
      /\ UNCHANGED <<stored, ticks>>
  BY DEF Restart, RestartBlind, Restarted
<1>2. /\ \A p \in Pipelines : booker'[p].pc = "idle"
      /\ keeper'.pc = "idle" /\ ~keeper'.quiet
  BY <1>1 DEF IdleBooker, IdleKeeper
<1>3. Stamped'
  BY <1>1, <1>2 DEF Stamped
<1>4. QuietRight'
  BY <1>2 DEF QuietRight, Booking
<1>5. KnownRows'
  <2>1. held' = NotHeld \/ (held' = stored.row /\ stored.row.position.qty # 0)
    BY DEF Restart, RestartBlind, Recovered, Unrecovered, LoadedRow
  <2> QED
    BY <1>1, <2>1 DEF KnownRows, NotHeld
<1>6. SavedRight'
  <2> SUFFICES ASSUME saved'
               PROVE  Persisted' /\ (held'.known => stored'.row.position = held'.position)
    BY <1>2 DEF SavedRight
  <2>1. Recovered
    BY DEF Restart, RestartBlind
  <2>2. cash' = stored.snap.cash /\ realized' = stored.snap.realized
    BY <2>1 DEF Recovered
  <2>3. Persisted'
    BY <1>1, <1>2, <2>2 DEF Persisted, IsRight, Fresh
  <2>4. held'.known => held' = stored.row
    BY <2>1 DEF Recovered, LoadedRow, NotHeld
  <2> QED
    BY <1>1, <2>3, <2>4
<1> QED
  BY <1>3, <1>4, <1>5, <1>6

LEMMA GuardedNext == TypeInv /\ Guarded /\ [Next]_vars => Guarded'
<1> SUFFICES ASSUME TypeInv, Guarded, [Next]_vars PROVE Guarded'
  OBVIOUS
<1>1. ASSUME NEW p \in Pipelines,
             BookerStep(p) \/ \E trade \in budget.trades : Execute(p, trade)
      PROVE  Guarded'
  BY <1>1, FillStepsGuarded, BookingGuarded, BeginSnapshotGuarded, EndSnapshotGuarded,
     StoreSnapshotGuarded DEF BookerStep
<1>2. CASE KeeperTick \/ KeeperReads \/ KeeperInserts
  BY <1>2, KeeperTickGuarded, KeeperReadsGuarded, KeeperInsertsGuarded
<1>3. ASSUME NEW ok \in Writes, KeeperStores(ok)
      PROVE  Guarded'
  <2>1. ok \in BOOLEAN
    BY BudgetsAssumption DEF Writes, TypeInv, CountsType
  <2> QED
    BY <1>3, <2>1, KeeperStoresGuarded
<1>4. CASE \/ \E m \in Markers, price \in budget.marks : Mark(m, price)
           \/ \E t \in Tasks : RefreshStep(t)
           \/ Midnight \/ UNCHANGED vars
  BY <1>4, OthersGuarded
<1>5. CASE PaperReset \/ Restart \/ RestartBlind
  BY <1>5, PaperResetGuarded, RestartGuarded
<1> QED
  BY <1>1, <1>2, <1>3, <1>4, <1>5 DEF Next

\* What a restart finds after the database has had all of the account.
LEMMA RestartFinds ==
  ASSUME TypeInv, Guarded, Restart, saved, ~Residue
  PROVE  cash' = cash /\ realized' = realized /\ held'.position = held.position
<1>1. /\ stored.snap.cash = cash /\ stored.snap.realized = realized
      /\ held.known => stored.row.position = held.position
      /\ ~held.known => held.position = Flat
  BY DEF Guarded, SavedRight, KnownRows, Persisted, IsRight
<1>2. cash' = cash /\ realized' = realized /\ held' = LoadedRow
  BY <1>1 DEF Restart, Recovered
<1>3. stored.row.position = held.position
  BY <1>1 DEF Residue
<1>4. stored.row.position.qty = 0 => stored.row.position = Flat
  <2>1. stored.row.position \in Positions /\ PositionOK(stored.row.position)
    BY DEF TypeInv, StoredType, Holdings
  <2> QED
    BY <2>1 DEF Positions, PositionOK, Flat
<1>5. LoadedRow.position = stored.row.position
  BY <1>4 DEF LoadedRow, NotHeld
<1> QED
  BY <1>2, <1>3, <1>5

\* However snapshots of pipelines and of housekeeping overtake one another on
\* their way to the database, a restart finds cash, profit and position as they
\* were once housekeeping has saved all of the account undisturbed, unless a
\* reset left a position row behind (recover, run_housekeeping).
THEOREM RestartKeepsAll == Spec => RestartLosesNothing
<1>1. TypeInv /\ Guarded /\ [Next]_vars => Guarded'
  BY GuardedNext
<1>2. TypeInv /\ Guarded =>
        [Restart /\ saved /\ ~Residue =>
           cash' = cash /\ realized' = realized /\ held'.position = held.position]_vars
  BY RestartFinds
<1> QED
  BY <1>1, <1>2, GuardedInit, TypeInvHolds, PTL DEF Spec, RestartLosesNothing
=============================================================================
