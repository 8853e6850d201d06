------------------------------- MODULE Ledger -------------------------------
(***************************************************************************)
(* The account of the process and what the database has of it.             *)
(*                                                                         *)
(*   - a pipeline stores the order, books each fill in the portfolio and   *)
(*     stores it, then stores a snapshot of the portfolio;                 *)
(*   - housekeeping, and shutdown after it, store a snapshot and then the  *)
(*     positions;                                                          *)
(*   - market data, from several feeds, marks the position;                *)
(*   - the operator resets the paper account;                              *)
(*   - the process stops anywhere and recovers from the database.          *)
(*                                                                         *)
(* Each field of the portfolio has its own lock, so these meet between any *)
(* two of its steps.  So do the refreshes of the peak that end a fill and  *)
(* a mark: each adds up the equity field by field, and then raises the     *)
(* peak to the sum.                                                        *)
(*                                                                         *)
(* One token, one fill to an order: pipelines send immediate-or-cancel     *)
(* orders only, which the paper adapter fills at once or not at all, so    *)
(* the callbacks of the book feeds have nothing to book.  The results of   *)
(* database writes are discarded and any of them may fail.                 *)
(***************************************************************************)
EXTENDS Position, FiniteSets, Functions

CONSTANTS
  Pipelines,     (* Tasks that book fills.                                 *)
  Markers,       (* Tasks that mark the position.                          *)
  Start,         (* Cash an account starts with.                           *)
  Prices,        (* Prices of fills and marks.                             *)
  Quantities,    (* Signed quantities of fills.                            *)
  Fee,           (* Fee of a fill.                                         *)
  Days,          (* The days there are, from 0.                            *)
  Budgets        (* Bounds to explore, each on all of these: pipelines at  *)
                 (* work together, the fills there can be and their        *)
                 (* number, housekeeping ticks, upsets (restarts and       *)
                 (* resets), the prices of marks, days, and the database:  *)
                 (* none, sound or failing.                                *)

ASSUME PipelinesAssumption == IsFiniteSet(Pipelines)
ASSUME MarkersAssumption == Markers \cap Pipelines = {}
ASSUME DaysAssumption   == Days \subseteq Nat /\ 0 \in Days
ASSUME StartAssumption  == Start \in Int /\ Fee \in Nat
ASSUME PricesAssumption == Prices \subseteq Nat \ {0}
ASSUME QuantitiesAssumption == Quantities \subseteq Int \ {0}
ASSUME BudgetsAssumption ==
  \A b \in Budgets :
    /\ {b.pipelines, b.fills, b.saves, b.upsets} \subseteq Nat
    /\ b.trades \subseteq Quantities \X Prices /\ b.marks \subseteq Prices
    /\ b.days \subseteq Days /\ b.database \in {"none", "sound", "failing"}

VARIABLES
  budget,        (* The bounds of this behaviour.                         *)
  cash,          (* Free cash.                                             *)
  held,          (* The position in the portfolio and its mark.            *)
  realized,      (* Realised profit.                                       *)
  peak,          (* Highest equity noticed.                                *)
  daily,         (* The bucket of the day: its day and its profit.         *)
  refresh,       (* Who is refreshing the peak: how far, with what sum.    *)
  today,         (* The day it is.                                         *)
  booker,        (* The pipelines.                                         *)
  keeper,        (* Housekeeping.                                          *)
  stored,        (* The database: latest snapshot, position, fills.        *)
  made,          (* Fills so far; each is known by its number.             *)
  ticks,         (* Snapshots begun so far: the clock of their time stamps. *)
  upsets,        (* Restarts and resets so far.                            *)
  excused,       (* Fills that a failed write or a restart kept from the   *)
                 (* database.                                              *)
  saved,         (* The database has had all of the account since it last  *)
                 (* changed.                                               *)
  earned,        (* Profit of each day's fills booked since the start.     *)
  straddled      (* A fill of one day was booked on another.               *)

portfolioVars == <<cash, held, realized, peak, daily, refresh>>
historyVars   == <<excused, saved, earned, straddled>>
countVars     == <<made, ticks, upsets>>
restVars      == <<countVars, historyVars, budget>>
vars == <<budget, cash, held, realized, peak, daily, refresh, today, booker, keeper, stored,
          made, ticks, upsets, excused, saved, earned, straddled>>

Tasks == Pipelines \cup Markers

Unmarked == 0

NotHeld == [known |-> FALSE, position |-> Flat, mark |-> Unmarked]

NoSnapshot == [at |-> 0, cash |-> Start, realized |-> 0]

IdleBooker == [pc |-> "idle", fill |-> 0, signed |-> 0, price |-> 0, day |-> 0,
               ordered |-> FALSE, result |-> 0, snap |-> NoSnapshot]
IdleKeeper == [pc |-> "idle", snap |-> NoSnapshot, quiet |-> FALSE]

NoRefresh  == [pc |-> "none", sum |-> 0]
AllRested  == [t \in Tasks |-> NoRefresh]

BookerStages == {"idle", "executed", "ordered", "paid", "moved", "booked",
                 "filed", "reading", "read"}
KeeperStages == {"idle", "reading", "read", "inserted"}
RefreshStages == {"none", "due", "unmarked", "valued", "summed"}

\* A position is flat exactly when it has no entry price.
PositionOK(p) == p.qty \in Int /\ p.avg \in Nat /\ (p.avg = 0 <=> p.qty = 0)

HeldOK(h) == /\ h.known \in BOOLEAN /\ PositionOK(h.position)
             /\ h.mark \in Prices \cup {Unmarked}

SnapOK(s) == s.at \in Nat /\ s.cash \in Int /\ s.realized \in Int

TypeOK ==
  /\ cash \in Int /\ realized \in Int /\ peak \in Int
  /\ HeldOK(held) /\ HeldOK(stored.row)
  /\ daily.day \in Days /\ daily.profit \in Int /\ today \in Days
  /\ \A p \in Pipelines :
       /\ booker[p].pc \in BookerStages /\ booker[p].fill \in 0..made
       /\ SnapOK(booker[p].snap)
  /\ refresh \in [Tasks -> [pc : RefreshStages, sum : Int]]
  /\ keeper.pc \in KeeperStages /\ SnapOK(keeper.snap) /\ keeper.quiet \in BOOLEAN
  /\ SnapOK(stored.snap) /\ stored.fills \subseteq 1..made
  /\ budget \in Budgets
  /\ made \in 0..budget.fills /\ ticks \in Nat /\ upsets \in 0..budget.upsets
  /\ excused \subseteq 1..made
  /\ saved \in BOOLEAN /\ straddled \in BOOLEAN /\ earned \in [Days -> Int]

NothingEarned == [d \in Days |-> 0]

Init ==
  /\ budget \in Budgets
  /\ cash = Start /\ held = NotHeld /\ realized = 0 /\ peak = Start
  /\ today = 0 /\ daily = [day |-> 0, profit |-> 0] /\ refresh = AllRested
  /\ booker = [p \in Pipelines |-> IdleBooker]
  /\ keeper = IdleKeeper
  /\ stored = [snap |-> NoSnapshot, row |-> NotHeld, fills |-> {}]
  /\ made = 0 /\ ticks = 0 /\ upsets = 0
  /\ excused = {} /\ saved = TRUE /\ earned = NothingEarned /\ straddled = FALSE

-----------------------------------------------------------------------------
(***************************************************************************)
(* What the portfolio computes from its fields.                            *)
(***************************************************************************)

\* What a position cost, and what it is worth: at its mark if it has one.
CostOfHeld(h) == h.position.qty * h.position.avg
ValueOf(h)    == IF h.mark = Unmarked THEN CostOfHeld(h)
                                      ELSE h.position.qty * h.mark

EquityOf(c, h) == c + ValueOf(h)

\* Faulty variant: the bucket of an earlier day is reported as today's.
DailyPnlStale == daily.profit

\* The profit of the day: nothing when the bucket is of another day.
DailyPnl == IF daily.day = today THEN daily.profit ELSE 0

-----------------------------------------------------------------------------
(***************************************************************************)
(* refresh_peak, which ends every booking and every mark: the positions,   *)
(* the cash and the peak each have a lock of their own.                    *)
(***************************************************************************)
Refreshing(t) == refresh[t].pc # "none"

RefreshDue(t) == refresh' = [refresh EXCEPT ![t] = [pc |-> "due", sum |-> 0]]

\* Rewrites one task's refresh and leaves all the rest.
Refreshes(t, to) ==
  /\ refresh' = [refresh EXCEPT ![t] = to]
  /\ UNCHANGED <<cash, held, realized, peak, daily, today, booker, keeper, stored,
                 restVars>>

\* position_value, while there is a mark or nothing is held.
ReadValue(t) ==
  /\ refresh[t].pc = "due"
  /\ held.mark # Unmarked \/ held.position.qty = 0
  /\ Refreshes(t, [pc |-> "valued", sum |-> ValueOf(held)])

\* Otherwise equity reads the positions again, now at cost whatever their marks.
FindUnmarked(t) ==
  /\ refresh[t].pc = "due"
  /\ held.mark = Unmarked /\ held.position.qty # 0
  /\ Refreshes(t, [pc |-> "unmarked", sum |-> 0])

ReadCost(t) ==
  /\ refresh[t].pc = "unmarked"
  /\ Refreshes(t, [pc |-> "valued", sum |-> CostOfHeld(held)])

ReadCash(t) ==
  /\ refresh[t].pc = "valued"
  /\ Refreshes(t, [pc |-> "summed", sum |-> cash + refresh[t].sum])

RaisePeak(t) ==
  /\ refresh[t].pc = "summed"
  /\ peak' = GreaterOf(peak, refresh[t].sum)
  /\ refresh' = [refresh EXCEPT ![t] = NoRefresh]
  /\ UNCHANGED <<cash, held, realized, daily, today, booker, keeper, stored,
                 restVars>>

RefreshStep(t) ==
  ReadValue(t) \/ FindUnmarked(t) \/ ReadCost(t) \/ ReadCash(t) \/ RaisePeak(t)

-----------------------------------------------------------------------------
(***************************************************************************)
(* A pipeline, from the answer of the adapter on.                          *)
(***************************************************************************)
At(p, pc)   == booker[p].pc = pc
GoTo(p, pc) == booker' = [booker EXCEPT ![p].pc = pc]

\* The adapter answers with a fill, which bears the day of its execution.
Execute(p, trade) ==
  /\ At(p, "idle") /\ made < budget.fills
  /\ Cardinality({q \in Pipelines : ~At(q, "idle")}) < budget.pipelines
  /\ made' = made + 1
  /\ booker' = [booker EXCEPT ![p] =
                  [IdleBooker EXCEPT !.pc = "executed", !.fill = made + 1,
                     !.signed = trade[1], !.price = trade[2], !.day = today]]
  /\ UNCHANGED <<portfolioVars, today, keeper, stored, ticks, upsets, historyVars,
                 budget>>

\* Whether a write stores something.  Without a database, where the store
\* answers and keeps nothing, none does.
Writes == CASE budget.database = "none"    -> {FALSE}
            [] budget.database = "sound"   -> {TRUE}
            [] budget.database = "failing" -> BOOLEAN

\* A fill that a failed write keeps from the database is excused.
Excuse(p, ok) == excused' = IF ok THEN excused ELSE excused \cup {booker[p].fill}

\* The account changes: what was saved, or is being saved, is not all of it.
Disturb == saved' = FALSE /\ keeper' = [keeper EXCEPT !.quiet = FALSE]

\* Faulty variant: the order is stored after its fills, as it once was.
StoreOrderLater(p) ==
  /\ At(p, "executed")
  /\ GoTo(p, "ordered")
  /\ UNCHANGED <<portfolioVars, today, keeper, stored, restVars>>

\* upsert_order: the row its fills will refer to.  The write may fail.
StoreOrder(p) ==
  /\ At(p, "executed")
  /\ \E ok \in Writes :
       /\ booker' = [booker EXCEPT ![p] =
                       [@ EXCEPT !.pc = "ordered", !.ordered = ok]]
       /\ Excuse(p, ok)
  /\ UNCHANGED <<portfolioVars, today, keeper, stored, countVars, saved, earned,
                 straddled, budget>>

\* Faulty variant: the fee is left out of the cash.
PayFillGross(p) ==
  /\ At(p, "ordered")
  /\ cash' = cash + CashDelta(booker[p].signed, booker[p].price, 0)
  /\ GoTo(p, "paid")
  /\ Disturb
  /\ UNCHANGED <<held, realized, peak, daily, refresh, today, stored, countVars,
                 excused, earned, straddled, budget>>

\* apply_fill, first the cash.
PayFill(p) ==
  /\ At(p, "ordered")
  /\ cash' = cash + CashDelta(booker[p].signed, booker[p].price, Fee)
  /\ GoTo(p, "paid")
  /\ Disturb
  /\ UNCHANGED <<held, realized, peak, daily, refresh, today, stored, countVars,
                 excused, earned, straddled, budget>>

\* apply_fill, then the position, which tells what the fill has realised.
MovePosition(p) ==
  LET b == booker[p]
  IN  /\ At(p, "paid")
      /\ held' = [held EXCEPT
                    !.known = TRUE,
                    !.position = PositionAfter(held.position, b.signed, b.price)]
      /\ booker' = [booker EXCEPT ![p] =
                      [@ EXCEPT !.pc = "moved",
                         !.result = Realized(held.position, b.signed, b.price, Fee)]]
      /\ UNCHANGED <<cash, realized, peak, daily, refresh, today, keeper, stored,
                     restVars>>

\* apply_fill, at last the profit and the bucket of the fill's day.  The peak
\* is refreshed before anything else.
BookProfit(p) ==
  LET b == booker[p]
  IN  /\ At(p, "moved")
      /\ realized' = realized + b.result
      /\ daily' = [day    |-> b.day,
                   profit |-> b.result
                                + IF daily.day = b.day THEN daily.profit ELSE 0]
      /\ RefreshDue(p)
      /\ booker' = [booker EXCEPT ![p] =
                      [IdleBooker EXCEPT !.pc = "booked", !.fill = b.fill,
                                         !.ordered = b.ordered]]
      /\ earned' = [earned EXCEPT ![b.day] = @ + b.result]
      /\ straddled' = (straddled \/ b.day # today)
      /\ UNCHANGED <<cash, held, peak, today, keeper, stored, countVars, excused,
                     saved, budget>>

\* insert_fill: refused by the database without the order's row.  A snapshot
\* that no database keeps is not followed further.
StoreFill(p) ==
  /\ At(p, "booked") /\ ~Refreshing(p)
  /\ \E ok \in Writes :
       /\ stored' = IF ok /\ booker[p].ordered
                      THEN [stored EXCEPT !.fills = @ \cup {booker[p].fill}]
                      ELSE stored
       /\ Excuse(p, ok)
  /\ booker' = [booker EXCEPT ![p] = IF budget.database = "none" THEN IdleBooker
                    ELSE [IdleBooker EXCEPT !.pc = "filed"]]
  /\ UNCHANGED <<portfolioVars, today, keeper, countVars, saved, earned,
                 straddled, budget>>

\* snapshot: the time and the cash are read, the profit under another lock.
SnapshotBegun == [at |-> ticks + 1, cash |-> cash, realized |-> 0]

BeginSnapshot(p) ==
  /\ At(p, "filed")
  /\ ticks' = ticks + 1
  /\ booker' = [booker EXCEPT ![p] =
                  [@ EXCEPT !.pc = "reading", !.snap = SnapshotBegun]]
  /\ UNCHANGED <<portfolioVars, today, keeper, stored, made, upsets, historyVars,
                 budget>>

EndSnapshot(p) ==
  /\ At(p, "reading")
  /\ booker' = [booker EXCEPT ![p] =
                  [@ EXCEPT !.pc = "read", !.snap.realized = realized]]
  /\ UNCHANGED <<portfolioVars, today, keeper, stored, restVars>>

\* Faulty variant: the latest snapshot is the one inserted last.
LatestInserted(snap) == snap

\* The latest snapshot is the one with the latest time stamp.
Latest(snap) == IF snap.at > stored.snap.at THEN snap ELSE stored.snap

StoreSnapshot(p) ==
  /\ At(p, "read")
  /\ \E ok \in Writes :
       stored' = IF ok THEN [stored EXCEPT !.snap = Latest(booker[p].snap)]
                       ELSE stored
  /\ booker' = [booker EXCEPT ![p] = IdleBooker]
  /\ UNCHANGED <<portfolioVars, today, keeper, restVars>>

BookerStep(p) ==
  \/ StoreOrder(p) \/ PayFill(p) \/ MovePosition(p) \/ BookProfit(p)
  \/ StoreFill(p) \/ BeginSnapshot(p) \/ EndSnapshot(p) \/ StoreSnapshot(p)

-----------------------------------------------------------------------------
(***************************************************************************)
(* Housekeeping.  Shutdown does the same once more.                        *)
(***************************************************************************)

\* A fill is half booked.
Booking == \E p \in Pipelines : booker[p].pc \in {"paid", "moved"}

KeeperTick ==
  /\ keeper.pc = "idle" /\ ticks < budget.saves + made
  /\ ticks' = ticks + 1
  /\ keeper' = [pc |-> "reading", snap |-> SnapshotBegun, quiet |-> ~Booking]
  /\ UNCHANGED <<portfolioVars, today, booker, stored, made, upsets, historyVars,
                 budget>>

KeeperReads ==
  /\ keeper.pc = "reading"
  /\ keeper' = [keeper EXCEPT !.pc = "read", !.snap.realized = realized]
  /\ UNCHANGED <<portfolioVars, today, booker, stored, restVars>>

\* A snapshot that is not stored leaves the database without all of the account.
KeeperInserts ==
  /\ keeper.pc = "read"
  /\ \E ok \in Writes :
       /\ stored' = IF ok THEN [stored EXCEPT !.snap = Latest(keeper.snap)]
                          ELSE stored
       /\ keeper' = [keeper EXCEPT !.pc = "inserted", !.quiet = @ /\ ok]
  /\ UNCHANGED <<portfolioVars, today, booker, restVars>>

\* Faulty variant: only what is held is stored.
RowsToStoreHeld == held.known /\ held.position # Flat

\* Every position the portfolio has, a flat one included.
RowsToStore == held.known

\* The positions are read now, after the await of the snapshot, and stored.
KeeperStores(ok) ==
  /\ keeper.pc = "inserted"
  /\ stored' = IF ok /\ RowsToStore THEN [stored EXCEPT !.row = held] ELSE stored
  /\ keeper' = IdleKeeper
  /\ saved' = (ok /\ keeper.quiet)
  /\ UNCHANGED <<portfolioVars, today, booker, countVars, excused, earned,
                 straddled, budget>>

-----------------------------------------------------------------------------
(***************************************************************************)
(* Marks, the clock, the operator and the process.                         *)
(***************************************************************************)

\* Faulty variant: a mark changes the equity unnoticed.
MarkUnnoticed(m, price) ==
  /\ ~Refreshing(m) /\ held.known /\ held.mark # price
  /\ held' = [held EXCEPT !.mark = price]
  /\ UNCHANGED <<cash, realized, peak, daily, refresh, today, booker, keeper,
                 stored, restVars>>

\* mark: a book's mid price for a token the portfolio knows.
Mark(m, price) ==
  /\ ~Refreshing(m) /\ held.known /\ held.mark # price
  /\ held' = [held EXCEPT !.mark = price]
  /\ RefreshDue(m)
  /\ UNCHANGED <<cash, realized, peak, daily, today, booker, keeper, stored,
                 restVars>>

Midnight ==
  /\ today + 1 \in budget.days
  /\ today' = today + 1
  /\ UNCHANGED <<portfolioVars, booker, keeper, stored, restVars>>

\* paper_reset: everything but the database.  What is half booked, or half
\* refreshed, goes on.
PaperReset ==
  /\ upsets < budget.upsets
  /\ upsets' = upsets + 1
  /\ cash' = Start /\ held' = NotHeld /\ realized' = 0 /\ peak' = Start
  /\ daily' = [day |-> today, profit |-> 0]
  /\ Disturb
  /\ earned' = NothingEarned /\ straddled' = FALSE
  /\ UNCHANGED <<refresh, today, booker, stored, made, ticks, excused, budget>>

\* Of the position rows only those that are not flat are loaded.
LoadedRow == IF stored.row.position.qty # 0 THEN stored.row ELSE NotHeld

\* The account after a restart: the latest snapshot and the rows that are
\* loaded.  Neither the bucket of the day nor the peak is stored.
Recovered ==
  /\ cash' = stored.snap.cash /\ realized' = stored.snap.realized
  /\ held' = LoadedRow
  /\ peak' = GreaterOf(Start, EquityOf(cash', held'))

\* The database cannot be read: the process starts with a new account.
Unrecovered ==
  /\ cash' = Start /\ realized' = 0 /\ held' = NotHeld /\ peak' = Start

\* A fill on its way to the database.
InProgress(i) == \E p \in Pipelines : booker[p].fill = i

Restarted ==
  /\ upsets < budget.upsets
  /\ upsets' = upsets + 1
  /\ booker' = [p \in Pipelines |-> IdleBooker]
  /\ keeper' = IdleKeeper
  /\ refresh' = AllRested
  /\ daily' = [day |-> today, profit |-> 0]
  /\ excused' = excused \cup {i \in 1..made : InProgress(i)}
  /\ earned' = NothingEarned /\ straddled' = FALSE
  /\ UNCHANGED <<today, stored, made, ticks, budget>>

Restart      == Restarted /\ Recovered   /\ saved' = TRUE
RestartBlind == Restarted /\ Unrecovered /\ saved' = FALSE

Next ==
  \/ \E p \in Pipelines :
       \/ \E trade \in budget.trades : Execute(p, trade)
       \/ BookerStep(p)
  \/ KeeperTick \/ KeeperReads \/ KeeperInserts
  \/ \E ok \in Writes : KeeperStores(ok)
  \/ \E m \in Markers, price \in budget.marks : Mark(m, price)
  \/ \E t \in Tasks : RefreshStep(t)
  \/ Midnight \/ PaperReset \/ Restart \/ RestartBlind

Spec == Init /\ [][Next]_vars

-----------------------------------------------------------------------------
(***************************************************************************)
(* The account as it is when every fill that has reached the position is   *)
(* booked to the end, and no other one is.                                 *)
(***************************************************************************)
Paid ==
  [p \in Pipelines |->
     IF At(p, "paid") THEN CashDelta(booker[p].signed, booker[p].price, Fee) ELSE 0]
Pending == [p \in Pipelines |-> IF At(p, "moved") THEN booker[p].result ELSE 0]

SettledCash     == cash - SumFunctionOnSet(Paid, Pipelines)
SettledRealized == realized + SumFunctionOnSet(Pending, Pipelines)

Account == INSTANCE AccountBook WITH
  cash <- SettledCash, position <- held.position, realized <- SettledRealized

(***************************************************************************)
(* Properties.                                                             *)
(***************************************************************************)

\* However the pipelines interleave the steps of apply_fill, the account
\* changes by whole trades except in restarts and resets (Portfolio::apply_fill).
AccountBookSpec == Account!BookSpec

\* The cash and the cost of the position against what was there and earned.
Imbalance == SettledCash + CostOf(held.position) - Start - SettledRealized

\* Opening, increasing, reducing, closing and crossing zero all keep the cash
\* and the cost of the position equal to the start and the profit
\* (Position::apply, Fill::cash_delta).
OnlyUpsetsUnbalance == [][Imbalance' = Imbalance \/ upsets' > upsets]_vars

\* A position row that a reset account no longer has and so never rewrites.
Residue == ~held.known /\ stored.row.position # Flat

\* A restart finds the account as it was when housekeeping has saved all of it
\* since it last changed, in whatever order snapshots were stored, and unless a
\* reset left a position behind (recover, run_housekeeping).
RestartLosesNothing ==
  [][Restart /\ saved /\ ~Residue =>
       cash' = cash /\ realized' = realized /\ held'.position = held.position]_vars

\* A fill that was booked is on record unless a write of its own failed or the
\* process stopped: its order is always there before it (pipeline.rs:310).
AuditComplete ==
  \A i \in 1..made : i \in stored.fills \/ i \in excused \/ InProgress(i)

\* The profit the loss limit sees is that of the day's fills since the last
\* start, unless one was booked on another day than its own: the bucket then
\* changes days and forgets (Portfolio::apply_fill, daily_pnl).
DailyLossUnlessStraddled == straddled \/ DailyPnl = earned[today]

\* The peak that drawdown is measured from is below the equity only while somebody
\* is half-way through a booking or a refresh, whoever booked or marked last, and
\* although every refresh adds up fields that others are changing.  An equity that
\* was replaced before it was read is not in it (Portfolio::refresh_peak).
Settled == ~Booking /\ \A t \in Tasks : ~Refreshing(t)

PeakCoversEquity == Settled => EquityOf(cash, held) <= peak
=============================================================================
