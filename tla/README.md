# Verification of the copy trader

TLA+ modules, TLC runs and TLAPS proofs about the Rust workspace in `src/`: a
program that watches the trades of followed Polymarket wallets and copies them,
on a simulated (paper) or the live exchange. Every definition is translated
from the source; `PROJECT.json` maps each one to the lines it stands for.

- [1. The system](#1-the-system)
- [2. The modules and the code](#2-the-modules-and-the-code)
- [3. The runs](#3-the-runs)
- [4. What the runs disagree with](#4-what-the-runs-disagree-with)
- [5. The proofs](#5-the-proofs)
- [6. What is not modelled, and what is assumed](#6-what-is-not-modelled-and-what-is-assumed)
- [7. Plan](#7-plan)

## 1. The system

### 1.1 Components

Paths are under `src/crates/`.

| Component | State it keeps | Operations |
|---|---|---|
| Source feed: RTDS client and REST backfill (`market_data/src/rtds.rs`, `rest.rs`, `app/src/tasks.rs`) | socket, `last_trade_at`, bounded channel | connect, read a frame, report a lost connection; take a message, backfill the gap |
| Dedup index (`wallet_tracker/src/dedup.rs`) | occurrences and `last_seen` by content | `observe_live`, `observe_backfill`, `evict_older_than`, `restore` |
| Wallet tracker (`wallet_tracker/src/tracker.rs`, `domain/src/wallet.rs`) | registry of followed wallets, counters | `observe_live`, `observe_backfill`, `upsert_wallet`, `remove_wallet`, `set_enabled` |
| Copy pipeline (`app/src/pipeline.rs`) | none of its own | `on_source_trade`: record, size, risk check, register, submit, book, persist |
| Strategy and sizing (`strategy/src`) | none | `on_source_trade`, `size`, `limit_price` |
| Risk engine and kill switch (`risk/src`) | limits; engaged flag and reason | `check`, `should_auto_engage_kill_switch`; `engage`, `reset` |
| Order state machine (`domain/src/order.rs`) | one order's state, filled quantity, venue id | `can_transition_to`, `transition`, `apply_fill` |
| Order manager (`execution/src/order_manager.rs`) | map of orders behind a lock | `register_validated`, `submit`, `apply_external_fill`, `cancel`, `cancel_all` |
| Paper adapter (`execution/src/paper.rs`) | resting orders, positions | `submit`, `cancel`, `on_book_update`, `reset` |
| Live adapter (`execution/src/live.rs`) | venue ids | `submit`, `cancel`, `poll_fills` |
| Reconciliation (`execution/src/reconciliation.rs`, `run_reconciliation`) | none | `reconcile`, `warrants_halt` |
| Matching simulator (`simulator/src`) | none | `match_order` |
| Portfolio (`portfolio/src`, `domain/src/position.rs`) | cash, positions, marks, peak, daily bucket | `apply_fill`, `mark`, `snapshot`, `restore`, `reset` |
| Market books (`market_data/src/market_ws.rs`, `market_stream.rs`, `rest.rs`) | book by token, token subscriptions | apply a snapshot or change, drift check, subscribe |
| Reconnect policy (`market_data/src/reconnect.rs`) | backoff step; breaker state | `next_delay`, `reset`; `allows_request`, `tick`, `on_success`, `on_failure` |
| Health (`metrics/src/health.rs`) | status by component | `set`, `expire_stale` |
| Persistence (`persistence/src`) | source_events, signals, orders, fills, positions, snapshots | inserts, upserts, `load_dedup_window`, `recover` |
| HTTP API (`api/src`) | recent activity | kill switch, wallets, paper reset, queries |
| Task supervision (`app/src/main.rs`, `tasks.rs`) | the spawned tasks | start, recover, shut down |
| Parsing, signing, configuration, demo, replay, dashboard | – | stateless, or only feed the parts above |

### 1.2 How they interact

```
 exchange ──socket──> RTDS client ──channel──> run_source_feed ──await──> CopyPipeline
     └────REST (backfill on a lost connection)──────┘  │                     │
                                    dedup index <──────┘     risk gate, kill switch
                                        ^                                    │
                       restore on start │                             OrderManager
                                    database <── source_events, orders       │
                                                                       paper or live
 REST refresher, market stream ──books──> on_book_update ──fills──> OrderManager, Portfolio
 kill switch handler, reconciler ──cancel_all──> OrderManager
```

Everything is a tokio task on shared `Arc`s. Locks are short (`parking_lot`)
and never held over an await, so every await is a point where any other task
may run. That is the grain of the models: **a step of a model is the code
between two points at which another task can observe or change what it
touches.**

### 1.3 What is hard

- `OrderManager` clones an order, awaits the adapter and stores the clone: a
  lost update is possible at every pair of operations on one order.
- The paper adapter snapshots its resting orders and then matches them one by
  one; two book feeds can hold the same snapshot.
- A live submission may time out with the order at the venue.
- The RTDS client reconnects and reads on while the feed task still backfills
  the gap: the same fill can arrive twice by two routes, or by neither.
- A fill has no identifier of its own: two identical fills of a transaction and
  two deliveries of one fill are told apart only by counting.
- What is kept in memory (dedup index, orders, kill switch, daily bucket) and
  what is in the database differ after a crash; what the database has of the
  account was written at several moments.
- Check-then-act: the kill switch, the open-order count, the exposure are read
  before awaits and used after them; API requests clone a wallet and write the
  clone back.
- The portfolio has one lock for each field: a fill is booked in several steps,
  the equity is added up in several more, and other fills, marks and snapshots
  come between them.
- A frame of the feed and a row of the history have stamps of their own, and the
  one decides which of the other are asked for again.
- A book reaches the cache by three routes that overwrite one another, and a
  streamed one is built from changes of which some may be lost.
- Prices and quantities are rounded at every boundary, each time in a direction
  that matters.

`PROJECT.json` lists each of these at its line under `hazards`, with the
properties that would catch it going wrong, or why none covers it.

### 1.4 What makes each component correct

| Component | It is correct if |
|---|---|
| Source feed and dedup | one fill is copied at most once; it is copied at least once unless nothing undertook to deliver it; what a backfill answered is copied in the end |
| Orders, manager, adapters | nothing is booked that the venue did not execute; refused and cancelled orders do not trade; the three books of an IOC order agree; a doubtful order stays doubtful; `cancel_all` clears the book; a submission is recorded |
| Pipelines, risk engine, kill switch | a halt, a spent budget or a deleted wallet stops each pipeline after the order it may have under way; a limit on orders or shares is exceeded only by pipelines that overlap; a position nobody reported halts trading |
| Wallet registry | the database follows the tracker; a deleted wallet is not copied again |
| Portfolio and persistence | the account changes by whole trades; cash, position and profit balance; what was saved is what a restart finds; every fill is on record; the day's loss is right and the peak is not below the equity there is |
| Market books | a book that is used was the venue's at its best prices; a stream that has read everything has the venue's books; every followed token is subscribed in the end |
| Sizing, pricing, matching | a copy is within every cap and its limit, reaches the touch, and a simulated fill is no better than the book |
| Reconciliation | a disagreement is reported once, and what the venue lists and the book does not explain halts |
| Signing | what is signed is what was asked for, and costs no more than it may |
| Configuration | real orders need every switch and credential |

## 2. The modules and the code

State machines, with the modules that hold their operators:

| Module | Models | Extends |
|---|---|---|
| `OrderManager` | the manager, both adapters, the pipeline's end, `cancel_all` callers and book feeds, all concurrent | `OrderLifecycle` (`domain/src/order.rs` as operators on a record), `Venue` (what rests and was executed behind an adapter) |
| `SourceFeed` | RTDS client, channel, feed task, backfill, `source_events`, eviction, crash and recovery | `DedupIndex` (`dedup.rs`) |
| `CopyOnce` | the abstract promise of the feed: an identity is copied at most once until forgotten | – |
| `Trading` | concurrent pipelines from the wallet to the booked fill, the API's kill switch and wallets, the reconciler, restarts | `KillSwitch`, `RiskEngine` (every check, in order), `Sizing` |
| `Ledger` | `apply_fill` lock by lock, marks, snapshots, position and fill rows, housekeeping, paper reset, restart | `Position` (`domain/src/position.rs`: a fill against a position) |
| `AccountBook` | the abstract promise of the portfolio: an account that changes by whole trades | `Position` |
| `BookFeed` | token subscriptions, the streaming task, the book builder and its drift check, REST refresher, the cache | – |
| `Calculations` | the pure algorithms, each on every case of a bounded set | `CopyStrategy` (with `Pricing`, `Wallets`, `Sizing`), `Matching` (with `Books`), `Reconciliation`, `OrderSigning`, `Settings` |

`Amounts` and `Optional` are the few operators all of these share. `MC…`
modules hold the constants of the instances. `OrderManagerProofs`,
`SourceFeedProofs`, `DeliveryProofs`, `TradingProofs`, `LedgerProofs`,
`BookFeedProofs` and `CalculationsProofs` hold the proofs, and `SumTheorems` the
lemmas on sums, folds and ranks that several of them need.

The state machines are composed at the narrowest point at which one sees
another. `Trading` sends an order and sees only what of it stays open, which is
the part `OrderManager` models in full; `Ledger` begins where the adapter has
answered; `SourceFeed` ends where `on_source_trade` begins. `RiskEngine`,
`KillSwitch` and `Sizing` are one text, used by `Trading` on a coarse unit of
money and by `Calculations` on a fine one.

### 2.1 Order manager

| Variable | In the code |
|---|---|
| `orders` | `OrderManager::orders`, each order as state, filled quantity, known venue id |
| `flow[o]` | the pipeline task of order `o`: where it is, its clone (`mine`), the adapter's reply |
| `cancels[c]` | a task in `cancel_all`: ids still to do, current order, its clone, the reply |
| `feeds[f]` | a task in `on_book_update` and the loop over its fills |
| `resting`, `executed` | `PaperExecution::resting` and its positions, or the exchange's own |
| `booked` | what `Portfolio::apply_fill` was called with, by order |
| `live` | which adapter the process was built with |
| `scope` | the orders and book feeds of this behaviour, a bound |

`submit` is `SubmitSend` (transition, store), one of the adapter's outcomes
(`PaperAccepts`, `VenueOverfills`, `VenueRefuses`, `LiveAccepts`,
`LiveAmbiguous`), `SubmitReturn` (the stale clone is acknowledged, filled and
stored) and `BookImmediate`. `cancel` is `CancelRead`, `CancelStore`, the
adapter (`PaperCancels`, `LiveCancels`, `LiveCancelUnsent`, `LiveCancelFails`)
and `CancelReturn`; reading and storing are two steps because no lock is held
between them. A book update is `BookUpdate` (snapshot), `CandidateSkipped` or
`CandidateFilled` for each candidate, `ExternalFillRead`, `ExternalFillStore`
and `BookExternal` for each fill. `VenueOverfills` is the over-reporting
adapter that `submit` guards against and that the manager's own tests build.
Orders have one token and one quantity; prices, fees and timestamps do not
influence any transition.

### 2.2 Source feed

| Variable | In the code |
|---|---|
| `counts`, `aged` | `DedupIndex`: occurrences by content; those whose `last_seen` is before the retention window |
| `happened`, `old` | the venue's history; the part before the retention window |
| `connected`, `wire`, `last` | the socket, frames on it, `last_trade_at` |
| `channel` | the bounded channel from the client to the feed task |
| `feed` | `run_source_feed`: waiting, in a backfill's request, in its rows, recording a fill, in the pipeline |
| `durable` | `source_events`, as identities (content, ordinal) |
| `copied` | how often each identity was handed to the pipeline |
| `overlapped`, `forgotten`, `unowed` | histories that only the properties read |

Contents are numbered in the order they happen, and the number is the stamp of
the row, by which the history is filtered. The client reckons by another one,
the stamp of the envelope (`EnvelopeStamps`): nothing ties the two together, so
`last_trade_at` is anything within `Lag` of the row's stamp, and a backfill may
start after rows it should have asked for. `SkipFrame` is a frame, `Unreadable`
the rows of an answer, that do not parse: logged and gone. Identical rows of one
transaction happen at once, and parse alike. The channel
applies back-pressure: `Report` needs room. `Connect` does not wait for the
feed task, which is what the overlap comes from. `Claimed`, `LiveIsNew` and
`BackfillIsNew` are the decisions of the index; `BackfillAnswered` takes the
rows of the answer newest first, up to `Limit`, and only then at or after the
cutoff. `Record` and `RecordFails` are the insert whose result
`on_source_trade` discards; `CopyTrade` is the rest of the pipeline. A crash
and the whole of `recover` are one step because nothing else runs before
recovery is done. The client's Connected message only sets a health flag and is
left out. A lost connection may fail to be re-established any number of times
up to `MaxDrops`; each refusal reports a gap of its own, as in the code.

### 2.3 Trading

| Variable | In the code |
|---|---|
| `deployment` | how the process was started: live or paper, with the demo generator, which part of the API is in use |
| `halt` | `KillSwitch`: engaged, and who gave the reason |
| `flow[p]` | the task of pipeline `p` in `on_source_trade`: where it is, the cloned wallet's `enabled`, the order's quantity, what it read for the risk check, whether its refusal halts |
| `requests[h]` | an API request between two awaits: cancelling, editing a cloned wallet, saving |
| `recon[r]` | `run_reconciliation`: idle, or halted and about to cancel |
| `working`, `doubtful` | open orders the pipelines have left behind, by whether `cancel` accepts them |
| `net`, `lost` | the shares held, signed, and the loss of the day |
| `wallet`, `row` | the wallet in the tracker and in the `wallets` table |
| `venue` | whether the live exchange holds something the portfolio lacks |
| `late`, `revoked`, `raced` | histories that only the properties read |

`on_source_trade` is `Detect`, `LookUpWallet`, `SizeCopy` (or `NoBookNoCopy`),
`ReadPortfolio`, `CheckRisk`, `AfterRefusal`, `Send`, one of `Refused`,
`Executed` and `Acknowledged`, and `BookFill`: a step ends where the code awaits
or reads something shared anew. `CheckRisk` asks `RiskEngine!Breaches` with
exactly what the code passes: the health flags are hard-coded healthy and
neither market nor event is given, so those checks cannot fail. A live
acknowledgement brings no fill, now or later, since no task polls for one.
`Restart` is the end of the process anywhere together with start-up: the
configured wallet is tracked again unless the database knows it otherwise, and
what is tracked is written back.

All trades are of one wallet and one token. Money is in units, and a share is
worth one of `Prices`, the least of them one unit. A position is valued at its
mark, or at cost before it has one, and the market-data tasks mark it at any
time: so each read of an exposure (`Exposures`) is the shares at some price, and
the token's, the market's and the gross one, which the risk check is given, may
differ (`SnapsOf`). The limit price of an order is drawn when it is sized.

### 2.4 Ledger

| Variable | In the code |
|---|---|
| `cash`, `held`, `realized`, `peak`, `daily` | the fields of `Portfolio`, each behind its own lock |
| `refresh[t]` | a task in `refresh_peak`: how far it is, and its sum |
| `booker[p]` | a pipeline from the adapter's answer to `insert_snapshot` |
| `keeper` | `run_housekeeping`, and the same steps at shutdown |
| `stored` | the database: the latest snapshot, the position row, the fill rows |
| `today` | the UTC day |
| `made`, `ticks`, `upsets` | fills, snapshots begun and upsets so far |
| `excused`, `saved`, `earned`, `straddled` | histories that only the properties read |

`apply_fill` is `PayFill`, `MovePosition` and `BookProfit`, and then the refresh
of the peak; `mark` is `Mark` and then the refresh. A refresh is read field by
field: the value of the positions (`ReadValue`, or `FindUnmarked` and then
`ReadCost` if there is no mark), the cash (`ReadCash`), and only then is the peak
raised (`RaisePeak`), while fills and the marks of other tasks (`Markers`) go
on. A snapshot is begun (time and cash) and
ended (profit), then stored. Housekeeping stores a snapshot and then the rows,
read anew. `Unrecovered` is a database that cannot be read at start-up. Fills
come with the day of their execution, which may be over when they are booked.

`Ledger` implements `AccountBook` under the mapping `SettledCash` = cash less
what fills have paid that have not reached the position, `SettledRealized` =
profit with what fills have moved the position and not been booked: a fill
happens, as a whole, when it moves the position.

### 2.5 Market books

| Variable | In the code |
|---|---|
| `followed`, `dirty` | `TokenSubscriptions`: the set and its notice |
| `stream` | `run_market_stream`: waiting, connecting or up, the tokens subscribed, the debounce |
| `builder`, `wire` | `BookBuilder` and the frames under way |
| `cache` | `BookCache`, each book with whether it is too old |
| `fetch[f][t]` | REST requests of the pipelines and the refresher |
| `venue` | changes of each book at the venue |

A book is abstracted to the number of venue changes it has seen and the places
(best or deeper) where one was lost and not made good. `SkipFrame` is a frame
that cannot be parsed; `Drifted` is the comparison with the best prices that a
change tells, if it tells them. `ReadTick` is a change of the tick size, which
alters no level, compares nothing and publishes the builder's book again, with a
new stamp. The cache is written unconditionally by all three writers;
`unchecked` records which of its books came without a comparison.

### 2.6 Calculations

A case is chosen in `Init` and worked out by one action: `Decide` and `Deal`
(admission, sizing and limit price, then the match against the book of that
moment), `Compare`, `PutSignature`, `Start`. Prices are in hundredths of
a cent (`Dollar` = 10 000), quantities in quarters of a share where matching
rounds, and amounts of an order in base units. Where the code's constants are
out of reach for enumeration, the unit is scaled and the rule kept: a word of a
token id has `WordSize` bytes of `ByteValues` values (32 and 256 in the code).
Keccak and ECDSA are ideal: a digest is the text it is of.

`SignalFor` is the whole way from a detected trade to a signal: whether the
wallet may be copied, the size, the limit price, or the first reason against.
The assumptions of `Calculations` say what the cases are made of, as far as the
types of the code say so: a level of the wire has two numbers, readable or not,
a sizing mode has its own parameters, a source trade has a price strictly within
0 and 1, and so on. The proofs are about every set of such cases; the run gives
one. The stable sort of a book's side is written by ranks: a level stands after
those that go `Before` it.

## 3. The runs

| Run | Expect | Shows | States |
|---|---|---|---|
| `order_manager` | pass | safety, `UnknownKept` and liveness of orders under every interleaving | 43 000 |
| `source_feed` | pass | the promise, missed fills and backfill completion under every fault | 594 000 |
| `trading` | pass | what stops the pipelines, and how late; limits, wallets, reconciliation | 406 000 |
| `ledger` | pass | the account and its records under interleaving, midnight, failing writes, resets and restarts | 1 349 000 |
| `book_feed` | pass | books and subscriptions under lost frames, tick-size changes, reconnects and late answers | 247 000 |
| `calculations` | pass | the algorithms on every case of a bounded set | 202 000 |
| `terminal_absorbing`, `immediate_closes`, `unknown_resolves` | violation | three statements of docs and comments about orders that the code does not keep | small |
| `feed_overlap`, `feed_gap`, `feed_outage` | violation | three such statements about the feed | small |

### 3.1 `order_manager`

A GTC order `g`, an IOC order `i`, quantity 2, one `cancel_all` task, both
adapters; an over-reporting adapter reports 3. Two scopes: both orders with one
book feed, and `g` alone with two feeds, as the code has more than one. Properties:

- `TypeOK`: among others, no clone written back records more than the quantity.
- `NeverOverstated`: neither the manager nor the portfolio ever has more of an
  order than the venue executed. Stale clones lose executions, never invent them.
- `RejectedNeverTraded`: a refused order was not executed and does not rest.
- `CancelledNotResting`: a cancelled order left the paper book.
- `ImmediateConservation`: manager, venue and portfolio agree on an IOC order,
  with any cancel racing its submission, unless it is Unknown.
- `UnknownKept`: no task of the live adapter turns doubt into an answer.
- `CancelAllClears`: an order working at `cancel_all`'s snapshot leaves the book,
  unless two feeds have each executed it (`DoubleFilled`): both had a snapshot of
  it, the manager finds it filled, its cancel is refused, and the rest stays. The
  exemption is of that alone; without it two feeds violate the property.
- `SubmissionSettles`: nothing stays `Submitted`.

*Bounds.* Operations on an order touch no other order, apart from the snapshots
of `cancel_all` and `on_book_update`, which two orders exercise (one of each
kind, so both branches of resting are taken while the other's task is under
way). Quantity 2 is the least that has a partial fill, 3 the least overfill.
One canceller races the submission, one feed or two, and each of them the
others; a repeat of any is included because the tasks start again from `idle`.
A feed touches one order at a time, so the second feed needs no second order.
What more tasks add to the safety properties is covered by the proofs, which are
for any number; the two liveness properties are checked for these only.

*Fairness.* A task that has begun continues: paper calls sleep a bounded time,
live calls have a client timeout, and tokio runs a ready task. Nothing makes an
order arrive, a cancel be called, a book change or the exchange trade.

### 3.2 `source_feed`

Three contents, the first with two identical rows, the second of a wallet that
is not followed; channel of 2; REST limit 2; the local clock late by up to one
content; a frame's stamp off its row's by up to one; two lost connections; one
crash; failing requests, failing database, frames and rows that do not parse,
and an outage longer than the retention window.

- `NoExtraCopies`: a content reaches the pipeline no more often than it has rows,
  repetitions counted, through duplicates, partial backfills, lost connections
  and restarts – unless a backfill was answered with its live rows still under
  way, or it was forgotten: evicted, not recorded, or too old to be restored.
  What happens in these two cases is `feed_overlap` and `feed_outage`.
- `MissedOnlyIfUnowed`: when all is delivered and worked off, a fill is missing
  only if it happened with the socket down and no backfill due; its frame or row
  did not parse; its backfill failed or was cut off; the gap started after it,
  as no trade had been seen or the last envelope bore a later stamp; or the
  process died.
- `CopyOnceSpec`: `SourceFeed` implements `CopyOnce`: no identity is copied
  twice until its content is forgotten.
- `BackfillCompletes`: what a backfill answered is copied in the end.

*Bounds.* A duplicate needs one content and two routes; two identical rows are
the least for which ordinals matter, with the third ordinal free so that a
wrong extra copy has room to show; a missed fill needs one on either side. Two
drops let a second gap open while the first is being backfilled. A limit of 2
cuts off an answer of three rows. `Rows` stays below the ceiling, as the code
documents for its own (at most 16 identical fills seen, a ceiling of 64).

*Fairness.* The feed task continues (`WF(FeedStep)`: its requests have a
timeout, the pipeline returns). Neither the client nor the venue is fair.

### 3.3 `trading`

Two pipelines (the feed's and the demo generator's), two API requests at a time,
one reconciler. Four deployments: live; paper with the generator; paper with the
kill switch in use; paper with the wallets in use.

- `AtMostOneAfterHalt`, `AtMostOneAfterBudget`, `AtMostOneAfterRemoval`: the
  kill switch, the budget of the day and the wallet are read once by each
  pipeline, so each may let one order through, and never two. The last one needs
  that no update had cloned the wallet before it was deleted: such an update
  puts it back.
- `SlotsOverrunOnlyByOverlap`, `SharesOverrunOnlyByOverlap`: what is exceeded,
  and by how much, when pipelines read before the others have registered or
  booked. The exposure itself has no bound that orders alone can break: a rising
  mark exceeds the limit with no order at all, and a falling one makes room. What
  holds is of shares: those held and pending are no more than the limit buys at
  the lowest price, but for one largest trade of each other pipeline.
- `RegistryAgrees`: tracker and database, over overlapping requests, failing
  writes and restarts.
- `UnreportedPositionHalts`: what the exchange executed and nothing reported
  halts trading in the end, although an operator may reset the switch at any time.

*Bounds.* Two pipelines are all the code can run. `maxOpen` 1 and trades of the
size of every limit make each limit bite at the second order. Losses run to 3
against a limit of 2. Deployments divide the API between behaviours that have
nothing to do with one another; each is explored with every pipeline it has.

*Fairness.* The reconciler ticks for ever and its query succeeds now and then:
weak fairness of `Reconcile` or `CancelByReconciler`, which stay enabled until
one of them has happened. Nothing else is fair.

### 3.4 `ledger`

Two pipelines that are alike (symmetry), prices 12 and 24 so that averages are
whole, a fee of 1, two tasks that mark, and seven budgets that each exhaust one
question: three fills of one pipeline, opening, adding and crossing zero; two
pipelines that book at once; fills around midnight; a fill, a reset or restart
and marks of two tasks, each refresh read field by field; two restarts or resets
around a save; one of each with two pipelines; a failing database.

- `AccountBookSpec`: the refinement of `AccountBook`.
- `OnlyUpsetsUnbalance`: cash plus cost of the position equals start plus profit
  after every step but a restart or a reset.
- `RestartLosesNothing`: a restart finds the account as housekeeping saved it if
  nothing has changed since, whichever of several snapshots was stored last.
- `AuditComplete`: a booked fill is on record, unless a write of its own failed
  or the process died.
- `DailyLossUnlessStraddled`: the loss the limit sees is the day's, until a fill
  of one day is booked on another.
- `PeakCoversEquity`: when no booking and no refresh is under way, the peak is not
  below the equity there is, however the refreshes of several tasks have read it.
  An equity that a later mark replaced before any refresh read it is not in the
  peak, and none in the middle of a booking; see section 4.

*Bounds.* One token, since positions of two share no step. Three fills reach
every branch of a position (open, add, reduce, close, cross); two restarts let
the first leave something behind for the second.

### 3.5 `book_feed`

One token whose book changes twice, with up to two frames under way and requests
of a pipeline and the refresher in any order; and three tokens of which two can
be followed.

- `CaughtUp`: without a lost frame, a stream that has read everything has the
  venue's books.
- `BestIsGenuine`: a lost change at the best price never reaches the cache
  unnoticed, unless the change that follows tells no best price, or a change of
  the tick size publishes the book as it is.
- `FollowedIsSubscribed`: also a token added while the stream connects, whose
  notice `Connected` clears.

*Fairness.* The streaming task goes on (weak fairness of `Connect`, `Notice`);
the venue accepts a connection if it is tried again and again, and connections
now and then outlast the debounce (strong fairness of `Connected`, `Rest`,
`Resubscribe`): without that the code promises nothing either.

### 3.6 `calculations`

Books of up to three levels in every order, with crossed, empty, off-grid and
zero-sized ones; buys and sells at mid prices and at both ends; four sizing
contexts from roomy to spent; holdings and answers of two tokens from -3 to 3,
with unreadable rows and tokens listed twice; quantities 1 to 45 base units at
prices of 1 to 9 cents, token ids that do and do not fit; 3 888 environments of
switches and credentials, and limits that are absent, zero, negative and
contradictory.

- `CopyWithinCaps`, `LimitReachesTouch`: against definitions that do not walk
  the book. `PaperFillIsHonest`: against the least a quantity can cost, written
  as a maximum over prices (`BestValue`).
- `DisagreementReported`: against token-by-token disagreement, for the tokens
  that neither side is short of. What the answer lists halts; a holding that it
  does not list is reported, and the property is silent on whether it should halt.
- `SignedWithinLimit`: cross-multiplied, without the rounding. The price of a
  purchase is held to the limit for whole base units, its cost always.
- `RealOrdersOnlyFullyArmed`: the environments that send real orders, listed.

## 4. What the runs disagree with

Each has a finding in `PROJECT.json` that quotes the line.

1. `terminal_absorbing` – docs say nothing leaves a terminal state. `cancel`
   stores a clone it read before a fill completed the order.
2. `immediate_closes` – IOC is documented to cancel its rest. A partly filled
   IOC order stays `PartiallyFilled` and keeps its open-order slot, as `submit`
   ignores the acknowledgement's `terminal`.
3. `unknown_resolves` – docs say reconciliation resolves Unknown orders. It
   compares positions; `resolves_unknown_order` has no caller.
4. `feed_overlap` – a fill must produce at most one copy. One that is in a
   backfill's answer while its live row waits in the channel is copied twice.
5. `feed_gap` – a comment says the gap is backfilled exactly. The backfill runs
   when the connection is lost, so what happens between the answer and the new
   subscription is missed.
6. `feed_outage` – a comment says a restart or a forgetting index cannot
   re-copy what the database has. The insert's result is discarded, and an
   outage longer than the retention window makes the backfill copy again.

Reading and modelling showed more that docs or comments say otherwise, or that
a reader would not expect. No run is devoted to these; the property in
parentheses is stated so as to hold of the code.

*Feed.* The cutoff of a backfill is the stamp of the last envelope, compared with
the stamps of rows: where the envelope is the later one, rows of that second are
not asked for (`MissedOnlyIfUnowed`). A restored index matters only to
backfills, as a live row always takes the next ordinal; after a restart no
backfill covers the time the process was down, because `last_trade_at` starts
empty.

*Halts and limits.* `docs/RISK.md:41`, `docs/ARCHITECTURE.md:210` and
`docs/SECURITY.md:36` say a breached daily loss engages the kill switch. The
sizing refuses a copy, without a halt, once the budget of the day is spent, so
that the risk check sees a breach only if another pipeline has booked the loss
between the two; with the feed's pipeline alone, as in live mode, it never does.
No run shows it. In live mode no fill is ever
booked, so loss and exposure limits see nothing and slots fill up. A wallet's
`max_exposure` caps a trade, not the exposure. The exposure is at the mark, so it
passes its limit with no order when the mark rises (`SharesOverrunOnlyByOverlap`).
Caps hold for purchases only: a sale can be worth more than its notional
(`CopyWithinCaps`). A configured wallet that was deleted is back
after a restart. Wallet caps in `TARGET_WALLETS` may be negative; the default cap
of a wallet makes `MAX_TRADE_USD` below 100 refuse to start.

*Records.* Pipelines store a snapshot after each fill, position rows are stored
only by housekeeping: a crash in between recovers the cash without the position
(`RestartLosesNothing`), although `app/src/tasks.rs:25` says that nothing is
duplicated and nothing is lost. `paper_reset` leaves the position row, which a
restart brings back (`Residue`). The peak is refreshed from fields that are read
one by one: two marks in a row may both be read by the later refresh, so that the
higher equity between them is never noticed, and a sale booked between the
position and the cash is counted twice and raises the peak above any equity there
was (`PeakCoversEquity` excludes neither). When recovery fails, the new account later
overwrites what could not be read.

*Books.* A change of the tick size publishes the builder's book with a new stamp
and no comparison, over a newer REST answer too (`BestIsGenuine`); a book that the
drift check drops stays in the cache as it was published before. The cache
consults no sequence number, so an older answer replaces a newer book; the drift
check compares best prices only; `set_min_order_size` is never called, so
streamed books keep the default of 5. `sweep_vwap` is
documented to answer nothing when the limit cannot fill the quantity, and
answers a partial fill. `round_to_tick` leaves the grid at both ends, and with a
tick coarser than the slippage budget a limit can stop short of an off-grid
touch (`LimitReachesTouch`).

*Reconciliation.* A position missing at the venue never halts, though
`execution/src/reconciliation.rs:60` and `docs/RISK.md:116` say that a
disagreement above the tolerance does; an answer that cannot be read counts as no
positions; sizes are taken unsigned, though `reconciliation.rs:26` says signed, so
that a short position disagrees with itself and halts. `DisagreementReported`
claims nothing of these cases, and no run is devoted to them.

*Signing and start-up.* A purchase whose size is no whole number of base units
can ask for part of one less than was meant, at more than its limit, though
`execution/src/signing.rs:191` and `:215` say rounding is in our favour;
`SignedWithinLimit` states the price of purchases for whole base units. The
start-up rules of limits against each other are of the environment: wallets that
the database or the API adds later are not held to them. The live adapter is always given
credentials, so `readiness_gaps` cannot report empty ones; `validate` does.

## 5. The proofs

Every invariant of the passing runs, both refinements and the three action
properties are theorems, for every value of the constants that the modules' named
assumptions admit. `FairSpec` implies `Spec` where a module has both. The only
hypotheses are these assumptions, which TLC evaluates on each run, and one that
the theorem `BooksBalance` states (5.6).

### 5.1 `OrderManagerProofs`

For any sets of orders, cancellers and (finitely many) feeds, any quantity,
either adapter, under the assumptions of `OrderManager` and `Venue` (quantities
are naturals, `None` is not an order, `MaxReport` at least the quantity):

| Theorem | Establishes |
|---|---|
| `TypeCorrect` | `Spec => []TypeOK` |
| `RejectedIsSafe` | `Spec => []RejectedNeverTraded` |
| `CancelledIsGone` | `Spec => []CancelledNotResting` |
| `ImmediateIsConserved` | `Spec => []ImmediateConservation` |
| `DoubtIsKept` | `Spec => UnknownKept` |
| `NothingIsOverstated` | `Spec => []NeverOverstated` |

None is inductive: a step writes to the map whatever some task's clone holds,
so the invariant `IInv` also says what each clone can hold.
`FreshUntouched`: an order the venue has not taken is untouched by every book.
`RejectedByAnswer`: only an order's own submit records it as rejected.
`SentClone`, `CancelClone`, `FillClone`: the state of a clone at each point of
its task, and that a paper order whose cancel was answered rests nowhere.
`CancelledNotResting` itself. `LiveUnfed`, `ImmediateNeverRests`: orders no book
update can reach. `UnsharedUntilRecorded`: of those, no other task has a clone
before submit records its answer. `ImmediateLedger`: the three books of an IOC
order at each point of its pipeline. Each task's steps are a lemma, with one
step per action and one below it per conjunct.

`NothingIsOverstated` needs an invariant of its own, `Executions`. An execution
reaches the map and the portfolio by two kinds of hands, the answer that submit
holds and the fills that each book update holds. The map's entry and every clone
that may still be written over it are `Covered`: even with all that is `Unread`
(in no clone yet, summed over the feeds) they stay within what was executed. So
no order of the writes can lead above it, although writes overwrite each other.
The portfolio is bounded with all that is `Unbooked`.

### 5.2 `SourceFeedProofs` and `DeliveryProofs`

For any contents, numbers of identical rows, followed wallets, channel, limit,
clock skew, lag of the stamps, faults, number of lost connections and crashes, under the
assumptions of `DedupIndex` and `SourceFeed` (in particular `Rows` at most the
ceiling):

| Theorem | Establishes |
|---|---|
| `TypeCorrect` | `Spec => []TypeOK` |
| `IdentitiesAreCopiedOnce` | `Spec => CopyOnceSpec`: every step of the feed is a step of `CopyOnce` or changes neither of its variables |
| `NeverTooMany` | `Spec => []NoExtraCopies` |
| `NothingOwedIsMissed` | `Spec => []MissedOnlyIfUnowed` |

The promise of `CopyOnce` says that an identity about to be copied was not
copied before, which no single variable records, so the invariant `IInv` ties
four together: for every content that is not forgotten, `RecordedIsPrefix` (the
ordinals in `source_events` are exactly those handed out, but for one about to
be recorded), `InHandIsLast` (the fill in hand has the last ordinal handed out),
`CopiedIsRecorded` (what was copied has its row, and is not in hand again) and
`BatchIsGapless` (no row still to go leaps over an ordinal). The last one needs
`AnswerIsGapless`: an answer cut off by the limit still has all the smaller
ordinals of its rows, as the rows before a row are a subset of those before a
later one. `RestartLedger` is the crash: the count restored is the number of
rows, which `RecordedIsPrefix` makes the ordinal after the last one recorded.

How often a content is copied is a matter of counting what is on its way, and
`DeliveryProofs` counts the rows on the wire and in the channel (`Coming`). Four
invariants follow each other:

- `Order`: nothing is known of a content before it happens, the wire is empty
  while the socket is down, and no backfill starts after what is still to happen.
- `Room`, for contents not overlapped: live rows to come find ordinals below the
  number of rows, and an answer that has rows of the content came when no live
  row was on its way. Hence no ordinal beyond the content's rows is ever taken.
- `OnceEach`, for contents not forgotten: no identity is copied twice, which is
  the promise of `CopyOnce` again. Copies are then at most as many as ordinals.
- `Delivery`, for contents not unowed: the content is copied, or the index is
  honest about it (it holds no ordinal that was not taken) and its rows are
  `Owed` by a backfill still to be answered, `Answered` by the one being worked
  off, or `Live`, as many on their way as are missing. Each fault moves a content
  from one of these to another or makes it unowed; when all is quiet only
  "copied" is left.

### 5.3 `TradingProofs`

For any pipelines (finitely many), requests, reconcilers, limits, wallet
settings, sizes of source trades and deployments, under the assumptions of
`Trading` (limits and amounts are naturals, a share is worth at least one unit,
the feed's pipeline is one of the pipelines):

| Theorem | Establishes |
|---|---|
| `TypeCorrect` | `Spec => []TypeOK` |
| `HaltLetsOneThrough` | `Spec => []AtMostOneAfterHalt` |
| `BudgetLetsOneThrough` | `Spec => []AtMostOneAfterBudget` |
| `RemovalLetsOneThrough` | `Spec => []AtMostOneAfterRemoval` |
| `RegistryIsSaved` | `Spec => []RegistryAgrees` |
| `SlotsAreLimited` | `Spec => []SlotsOverrunOnlyByOverlap` |
| `SharesAreLimited` | `Spec => []SharesOverrunOnlyByOverlap` |

Two lemmas tell what the code decides: `CheckedFacts`, that an approval saw the
switch released and a slot free (the verdict is the first of nineteen breaches,
hence one of them), and `SizedFacts`, that a copy was sized only with some of
the budget left. `PipelineMoves` turns the actions into the moves of a pipeline
between its points, each with its condition, and `FlowSteps` adds that nothing
else moves it but a restart. The rest is one invariant for each theorem:

- `HaltCount`, `BudgetCount`, `RemovalCount`: a pipeline that has sent one order
  since is past the points from which it could send another without the check;
  for the wallet, `RemovedIsAbsent` says that it is not tracked and that an edit
  under way is an addition.
- `SavesWhatIsTracked`: of requests whose writes are not lost, at most one is
  saving, and it saves what the tracker holds.
- `SlotsAreClaimed`: orders left behind and pipelines that hold a slot or read
  that there is one (`Claims`) stay within the limit and the overlap. A read
  that finds a slot has seen all orders in flight, so the claims it can add to
  are those of the pipelines that run.
- `OrdersPriced`, `TradesCapped` and `SharesAreReserved`: the shares held, with
  the sum of what each pipeline may still add on the strength of its read
  (`Reserved`), stay within the limit and one trade for every further pipeline
  that runs. Neither an exposure nor a notional is ever less than its shares,
  whatever the price, so an approval leaves room for the shares it read
  (`ApprovedShares`), and each of the others reserves a trade at most.

### 5.4 `BookFeedProofs`

For any tokens, cap, pipelines and bounds, under the assumptions of `BookFeed`
(the cap and the bounds are naturals, the refresher is no pipeline):

| Theorem | Establishes |
|---|---|
| `TypeCorrect` | `Spec => []TypeOK` |
| `LossAtTheBestIsDropped` | `Spec => []BestIsGenuine` |
| `ReadMeansCurrent` | `Spec => []CaughtUp` |

`Typed` adds to the types that the followed tokens are finitely many, which the
cap needs: each addition is then one more. `BestIsGenuine` is inductive with it,
since only the stream publishes a book that may miss something, and only a
change without the venue's best prices or a change of the tick size lets it.
`CaughtUp` is not: it is silent
while frames are under way. `Current` is what holds meanwhile: nothing is under
way unless the stream is up, every frame is of a subscribed token, the last
frame of each token that tells of a book bears the venue's (`WireCurrent`), and a
book with no such frame under way is the venue's (`BuilderCurrent`). Reading takes the first frame
(`TailCurrent`), the venue adds a last one (`AppendCurrent`), and losing the
connection empties the wire, which is why the books must start anew with the
next.

### 5.5 `SumTheorems`

`SumFunctionOnSet` and `FoldLeft` are defined by recursion on sets, and nothing
about them is known to the provers. The module proves that the recursive
equation has exactly one solution on the subsets of a finite set, by a minimal
counterexample (a non-empty set of subsets of a finite set has one that contains
no other). From this come: taking any element out of a sum, changing one value,
monotony, sums of naturals; a fold as the last of a function of its prefixes
(`RunExists`, `FoldByPrefixes`), which turns "by induction over the sequence"
into induction on the naturals over a set that the lemma names (`InductionUpTo`);
a sum along an enumeration of its set (`SumAlong`); the sort of a finite set by
ranks (`RankedSequence`); multiples and division.

### 5.6 `LedgerProofs`

For any (finitely many) pipelines, prices, quantities, days, fee and budgets,
under the assumptions of `Ledger` (prices are positive, quantities are not zero,
days are naturals):

| Theorem | Establishes |
|---|---|
| `TypeCorrect` | `Spec => []TypeOK` |
| `FillsAreOnRecord` | `Spec => []AuditComplete` |
| `DailyLossIsRight` | `Spec => []DailyLossUnlessStraddled` |
| `PeakIsHighest` | `Spec => []PeakCoversEquity` |
| `AccountRefined` | `Spec => AccountBookSpec` |
| `BooksBalance` | `Spec /\ [][AveragesWhole]_vars => OnlyUpsetsUnbalance` |
| `RestartKeepsAll` | `Spec => RestartLosesNothing` |

- `UnorderedExcused`: a fill whose order could not be stored is excused before
  its own row is refused for want of the order.
- `BucketRight`: the bucket is of the latest day on which anything was earned,
  and has all that was earned on it.
- `PeakInv`: the peak covers the equity, or a fill is being booked, or some task is
  in a refresh that will cover it (`Underway`): one that has not read yet, or whose
  sum so far is no less than that of the fields as they are.
  Whoever changes a field again owes a refresh of its own, and of several at once
  the last one counts.
- `AccountRefined`: the mapping takes the sums, over all pipelines, of what is
  paid or moved and not yet settled (`Paid`, `Pending`). `PayFill` changes cash and
  sum alike, `MovePosition` alone changes the sums by a whole trade, and
  `BookProfit` changes profit and sum alike; every other step leaves both alone or
  is an upset.
- `BooksBalance`: cost after a trade is cost before plus what was paid plus the
  profit, for opening, adding, reducing, closing and crossing zero
  (`TradeBalances`). The theorem has a hypothesis: where a position grows, the
  average price comes out whole. The code divides decimals of 28 digits, the
  model integers, so this stands for the division the code does not round; the
  prices of the run satisfy it always, and it is all the theorem adds to `Spec`.
- `Guarded`: what makes `RestartLosesNothing` true of the snapshots that race each
  other. Stamps are distinct (`Stamped`); while housekeeping is undisturbed its
  snapshot is right and so is every later one (`QuietRight`); after it, the
  snapshot that is stored is right and none in hand replaces it by a wrong one
  (`SavedRight`); an unknown holding has a flat position (`KnownRows`).

### 5.7 `CalculationsProofs`

For any cases the types of the code admit, any tick, book, limits, settings and
size of words, under the assumptions of `Calculations` and the modules it
extends:

| Theorem | Establishes |
|---|---|
| `OrdersAreSignedAsMeant` | `Spec => []SignedWithinLimit` |
| `OnlyTheArmedSendOrders` | `Spec => []RealOrdersOnlyFullyArmed` |
| `DisagreementsAreReported` | `Spec => []DisagreementReported` |
| `LimitsReachTheBook` | `Spec => []LimitReachesTouch` |
| `CopiesAreWithinCaps` | `Spec => []CopyWithinCaps` |
| `PaperFillsAreHonest` | `Spec => []PaperFillIsHonest` |

The invariant they share, `WorkedOut`, is simple: the signal is the one for the
case and the result what the case comes to. The work is in what the operators
return.

- *Signing.* A token id is read digit by digit into a word with carries;
  `WordStandsForText` says that the word that results is the number the text
  stands for, or the text does not fit. `BoughtAmounts` and `SoldAmounts` bound
  the two truncations.
- *Settings, reports.* The breaches and the token-by-token report, compared with
  what the properties list. The last row of a token counts (`ToldOfLong`), without
  its sign, which is why the property is of tokens held and told of as long.
- *Limit price.* The limit is a multiple of the tick next to the budget
  (`MultipleBelow`, `MultipleAbove`); the best price of the book that was read is
  the best of the wire's usable levels (`BestFirst`, from `RankedSequence`).
- *Caps.* `SizedWithinCaps`: the quantity times the limit is within every cap.
  `SweptWithin`, `ChargedBetween` and `ShareOf` carry the bound from the quantity
  to the fill, through slippage and the queue.
- *Honest fills.* A sweep takes a prefix of the levels in order, so its value
  equals, at the price of the last level it touches, that price for all of it
  less what the better levels save (`SpentExactly`), and is no better at any
  other price (`SpentAtLeast`). `SavedAlong` identifies the savings along the
  sorted book with the sum over the wire's levels that `BestValue` takes, in
  whatever order they were sent. `TakenInAll` does the same for the quantity.

### 5.8 Only model-checked

- Liveness, which is outside the proof system's reach: `CancelAllClears`,
  `SubmissionSettles`, `BackfillCompletes`, `UnreportedPositionHalts` and
  `FollowedIsSubscribed`.
- That a division of the code that does not come out leaves the books balanced
  up to its rounding: neither proved nor checked (5.6).
- The six violations of section 4: counterexamples of small instances, which is
  all they need to be.

## 6. What is not modelled, and what is assumed

*Left out, with the reason.*

- Reconnect policy: the backoff only delays retries that `SourceFeed` and
  `BookFeed` allow at any time; `CircuitBreaker` has no caller but its tests.
- Health, metrics, dashboard, web socket, logging, queries: displayed only. The
  risk check is given healthy flags whatever they say.
- `OrderManager::restore`, `WalletTracker::set_enabled`, `OrderValidator`,
  `DailyRiskBudget`: no caller in the program.
- HTTP, headers, TLS and the encoding of words other than the token's.
- Parsing of a trade's fields: a frame or a row is read or skipped as a whole, and
  that both tell one fill alike (the content key of `dedup.rs`) is assumed, since
  nothing in the code can make two channels agree.
- Replayed sessions and the demo generator's data: more inputs of the same kind.
- Signals, risk events and latency rows: written for display.
- Attribution of profit to wallets and markets: displayed only.

*Assumed.*

- A non-success answer of the live exchange is taken as the code takes it (a
  refusal) and the venue is assumed to agree; an order that stands all the same
  is noticed as an unreported position. A live cancel that is answered is
  assumed effective.
- Stamps of a frame and of its row differ by at most `Lag`, a bound of the model:
  the theorems are for every `Lag`. No frame bears a stamp later than the next
  row's.
- One followed wallet in the feed, whose settings do not change; REST answers
  are up to date and in order; the socket loses nothing while it is up. Rows of
  a wallet that is not followed stand for everybody else's trades, which
  advance `last_trade_at`.
- Retention is coarse: what is "aged" or "old" changes only with the socket
  down and the feed idle, since other wallets' trades keep `last_trade_at`
  recent while it is up.
- A live process in `Trading` is armed: one that is not sends nothing.
- Database writes of a snapshot or a row are atomic; time stamps of snapshots
  are distinct.

*Hazards no property covers*, each with its note in `PROJECT.json`: a live
cancel that fails leaves an order that cannot be cancelled again
(`order_manager.rs:210`); an order without a venue id cannot be cancelled
(`order_manager.rs:205`); batch ordinals of a wallet that is disabled and
enabled again (`tracker.rs:108`).

## 7. Plan

Done: orders, feed, trading, ledger, market books, calculations, and the proofs
of section 5: twelve runs, 38 properties of passing runs, 33 theorems.

Left, in order of importance:

1. The hazards of section 6 that no property covers: a cancel that fails and the
   missing venue id belong to `OrderManager` (the run of `CancelAllClears` has the
   actions), the disabled wallet to `SourceFeed`.
2. `Ledger`: an average with a denominator instead of an integer, which would
   discharge the hypothesis of `BooksBalance`.
3. The safety part of the liveness properties, as invariants that can be proved:
   for `UnreportedPositionHalts`, that a reconciler which has seen the position
   cannot go idle without having halted; for `BackfillCompletes`, that a row of an
   answer leaves it only copied or claimed before.
4. `CopyOnce` with crashes made explicit: which identities a restart may forget.
