---------------------------- MODULE OrderManager ----------------------------
(***************************************************************************)
(* The order manager, the adapter behind it and the portfolio in front of  *)
(* it, with every task that can touch an order running concurrently:       *)
(*                                                                         *)
(*   - the pipeline task of an order: register_validated, submit, and the  *)
(*     booking of the fills the acknowledgement carried;                   *)
(*   - cancel_all callers: the kill switch handler, the reconciler;        *)
(*   - book updates: the REST refresher and the market stream, each        *)
(*     matching resting orders and applying the fills to the order and to  *)
(*     the portfolio.                                                      *)
(*                                                                         *)
(* The manager keeps orders in a map behind a lock, but no operation holds *)
(* the lock: each clones the order, changes its clone, and writes the      *)
(* clone back, with an await on the adapter in between.  A task's clone is *)
(* its `mine' here, and every point at which another task can run is a     *)
(* step boundary.                                                          *)
(***************************************************************************)
EXTENDS OrderLifecycle, Venue, FiniteSets

CONSTANTS
  Cancellers,  (* Tasks that call cancel_all.                              *)
  Feeders,     (* Tasks that deliver book updates.                         *)
  MaxReport,   (* Largest quantity an adapter reports in one fill.         *)
  Modes,       (* Whether the live adapter is built: {TRUE}, {FALSE}, both. *)
  Scopes,      (* Bounds to explore: the orders that may arrive and the    *)
               (* book feeds that run.                                     *)
  None         (* No order.                                                *)

ASSUME MaxReportAssumption == MaxReport \in Nat /\ Quantity <= MaxReport
ASSUME ModesAssumption     == Modes \subseteq BOOLEAN
ASSUME NoneAssumption      == None \notin Orders
ASSUME FeedersAssumption   == IsFiniteSet(Feeders)

VARIABLES
  scope,       (* The bounds of this behaviour.                            *)
  live,        (* Which adapter the process was started with.              *)
  orders,      (* The manager's map; an order not in it is Unregistered.   *)
  flow,        (* The pipeline task of each order.                         *)
  cancels,     (* The cancel_all tasks.                                    *)
  feeds,       (* The book update tasks.                                   *)
  booked       (* Quantity the portfolio has booked for each order.        *)

vars == <<scope, live, orders, flow, cancels, feeds, booked, resting, executed>>

Unregistered == [state |-> "None", filled |-> 0, venueId |-> FALSE]

OrderRecord ==
  [state : States \cup {"None"}, filled : 0..Quantity, venueId : BOOLEAN]

\* What submit gets from the adapter.
Reply == [kind    : {"none", "ack", "rejected", "ambiguous"},
          fill    : 0..MaxReport,
          venueId : BOOLEAN]
NoReply == [kind |-> "none", fill |-> 0, venueId |-> FALSE]

FlowRecord ==
  [pc    : {"start", "registered", "sent", "answered", "booking", "done"},
   mine  : OrderRecord,
   reply : Reply]

CancelRecord ==
  [pc    : {"idle", "next", "read", "asked", "answered"},
   todo  : SUBSET Orders,
   order : Orders \cup {None},
   mine  : OrderRecord,
   reply : {"none", "ok", "unknown", "error"}]

FeedRecord ==
  [pc    : {"idle", "matching", "applying", "writing", "booking"},
   snap  : [Orders -> 0..Quantity],
   fills : [Orders -> 0..Quantity],
   order : Orders \cup {None},
   mine  : OrderRecord]

Nothing == [o \in Orders |-> 0]

IdleFlow   == [pc |-> "start", mine |-> Unregistered, reply |-> NoReply]
IdleCancel == [pc |-> "idle", todo |-> {}, order |-> None,
               mine |-> Unregistered, reply |-> "none"]
IdleFeed   == [pc |-> "idle", snap |-> Nothing, fills |-> Nothing,
               order |-> None, mine |-> Unregistered]

TypeOK ==
  /\ VenueTypeOK
  /\ live    \in BOOLEAN
  /\ orders  \in [Orders -> OrderRecord]
  /\ flow    \in [Orders -> FlowRecord]
  /\ cancels \in [Cancellers -> CancelRecord]
  /\ feeds   \in [Feeders -> FeedRecord]
  /\ booked  \in [Orders -> Nat]

Init ==
  /\ VenueInit
  /\ scope   \in Scopes
  /\ live    \in Modes
  /\ orders  = [o \in Orders |-> Unregistered]
  /\ flow    = [o \in Orders |-> IdleFlow]
  /\ cancels = [c \in Cancellers |-> IdleCancel]
  /\ feeds   = [f \in Feeders |-> IdleFeed]
  /\ booked  = [o \in Orders |-> 0]

\* OrderManager::store: whatever the map held is replaced by the clone.
Store(o, order) == orders' = [orders EXCEPT ![o] = order]

-----------------------------------------------------------------------------
(***************************************************************************)
(* The pipeline task of an order.                                          *)
(***************************************************************************)

\* register_validated: a new order enters the map as Validated.
RegisterValidated(o) ==
  /\ flow[o].pc = "start"
  /\ Store(o, Transition(NewOrder, "Validated"))
  /\ flow' = [flow EXCEPT ![o] = [IdleFlow EXCEPT !.pc = "registered"]]
  /\ UNCHANGED <<cancels, feeds, booked, resting, executed>>

\* submit, up to the call of the adapter.  No other task can change a
\* Validated order, so reading and storing it is one step.
SubmitSend(o) ==
  /\ flow[o].pc = "registered"
  /\ CanTransition(orders[o].state, "Submitted")
  /\ LET sent == Transition(orders[o], "Submitted")
     IN  /\ Store(o, sent)
         /\ flow' = [flow EXCEPT ![o] =
                       [pc |-> "sent", mine |-> sent, reply |-> NoReply]]
  /\ UNCHANGED <<cancels, feeds, booked, resting, executed>>

Answer(o, reply) ==
  flow' = [flow EXCEPT ![o] =
             [pc |-> "answered", mine |-> flow[o].mine, reply |-> reply]]

\* The adapter refuses: rejected, no liquidity, not ready, not authenticated.
VenueRefuses(o) ==
  /\ flow[o].pc = "sent"
  /\ Answer(o, [NoReply EXCEPT !.kind = "rejected"])
  /\ UNCHANGED <<orders, cancels, feeds, booked, resting, executed>>

\* An adapter takes the order and reports in its answer the q it executed.
\* An IOC order of which nothing can be executed is refused instead.
AdapterAccepts(o, q) ==
  /\ ~live
  /\ flow[o].pc = "sent"
  /\ q > 0 \/ o \in Gtc
  /\ VenueTakes(o, q)
  /\ Answer(o, [kind |-> "ack", fill |-> q, venueId |-> TRUE])
  /\ UNCHANGED <<orders, cancels, feeds, booked>>

\* PaperExecution::submit: the matching engine executes part of the order, all
\* of it, or nothing of it if it rests.
PaperAccepts(o) == \E q \in 0..Quantity : AdapterAccepts(o, q)

\* An adapter that executes more than it was asked for, which submit guards
\* against and the tests of the order manager build.
VenueOverfills(o) == \E q \in (Quantity + 1)..MaxReport : AdapterAccepts(o, q)

\* LiveExecution::submit succeeds.  It never reports a fill, and it finds no
\* venue id in a body it cannot read.
LiveAccepts(o, q, id) ==
  /\ live
  /\ flow[o].pc = "sent"
  /\ VenueTakes(o, q)
  /\ Answer(o, [kind |-> "ack", fill |-> 0, venueId |-> id])
  /\ UNCHANGED <<orders, cancels, feeds, booked>>

\* LiveExecution::submit times out or loses its connection: the request was
\* lost on the way, or the answer was, and then the venue has the order.
LiveAmbiguous(o, q) ==
  /\ live
  /\ flow[o].pc = "sent"
  /\ Answer(o, [NoReply EXCEPT !.kind = "ambiguous"])
  /\ VenueTakes(o, q) \/ UNCHANGED venueVars
  /\ UNCHANGED <<orders, cancels, feeds, booked>>

\* The live exchange trades an order that rests there.  No task learns of it:
\* the live adapter has no push feed and poll_fills has no caller.
LiveTrades(o, q) ==
  /\ live
  /\ ExchangeTrades(o, q)
  /\ UNCHANGED <<orders, flow, cancels, feeds, booked>>

\* submit, from the adapter's answer to its return: the clone taken before
\* the call is acknowledged, filled and stored.
Acknowledged(mine, reply) ==
  [Transition(mine, "Acknowledged") EXCEPT !.venueId = reply.venueId]

\* Faulty variant: a submission that timed out is recorded as Rejected.
AfterReplyHasty(mine, reply) ==
  LET acked == Acknowledged(mine, reply)
  IN  IF reply.kind \in {"rejected", "ambiguous"} THEN Transition(mine, "Rejected")
      ELSE IF FillAccepted(acked, reply.fill, Quantity) /\ reply.fill > 0
        THEN Fill(acked, reply.fill, Quantity)
        ELSE acked

\* Faulty variant: the order of a refused submission is left as it was sent.
AfterReplyForgetful(mine, reply) ==
  LET acked == Acknowledged(mine, reply)
  IN  IF reply.kind = "rejected" THEN mine
      ELSE IF reply.kind = "ambiguous" THEN Transition(mine, "Unknown")
      ELSE IF FillAccepted(acked, reply.fill, Quantity) /\ reply.fill > 0
        THEN Fill(acked, reply.fill, Quantity)
        ELSE acked

AfterReply(mine, reply) ==
  LET acked == Acknowledged(mine, reply)
  IN  CASE reply.kind = "rejected"  -> Transition(mine, "Rejected")
        [] reply.kind = "ambiguous" -> Transition(mine, "Unknown")
        [] reply.kind = "ack" /\ reply.fill = 0 -> acked
        [] OTHER ->
             IF FillAccepted(acked, reply.fill, Quantity)
               THEN Fill(acked, reply.fill, Quantity)
               ELSE Transition(acked, "Unknown")

\* The fills submit hands back to the pipeline: those the order took.
FillApplied(mine, reply) ==
  /\ reply.kind = "ack"
  /\ reply.fill > 0
  /\ FillAccepted(Acknowledged(mine, reply), reply.fill, Quantity)

SubmitReturn(o) ==
  /\ flow[o].pc = "answered"
  /\ Store(o, AfterReply(flow[o].mine, flow[o].reply))
  /\ flow' = [flow EXCEPT ![o] =
                [pc    |-> IF FillApplied(flow[o].mine, flow[o].reply)
                             THEN "booking" ELSE "done",
                 mine  |-> flow[o].mine,
                 reply |-> flow[o].reply]]
  /\ UNCHANGED <<cancels, feeds, booked, resting, executed>>

\* The pipeline books the fills submit returned.
BookImmediate(o) ==
  /\ flow[o].pc = "booking"
  /\ booked' = [booked EXCEPT ![o] = @ + flow[o].reply.fill]
  /\ flow' = [flow EXCEPT ![o].pc = "done"]
  /\ UNCHANGED <<orders, cancels, feeds, resting, executed>>

-----------------------------------------------------------------------------
(***************************************************************************)
(* cancel_all: one cancel after the other over a snapshot of open orders.  *)
(***************************************************************************)
OpenOrders == {o \in Orders : IsOpen(orders[o].state)}

\* Faulty variant: cancel_all gives up after its first order.
NextCancelOnce(c, o) == IdleCancel

\* The task once it is done with order o: on to the next one, or finished.
NextCancel(c, o) ==
  LET left == cancels[c].todo \ {o}
  IN  IF left = {} THEN IdleCancel
      ELSE [IdleCancel EXCEPT !.pc = "next", !.todo = left]

CancelAll(c) ==
  /\ cancels[c].pc = "idle"
  /\ OpenOrders # {}
  /\ cancels' = [cancels EXCEPT ![c] =
                   [IdleCancel EXCEPT !.pc = "next", !.todo = OpenOrders]]
  /\ UNCHANGED <<orders, flow, feeds, booked, resting, executed>>

\* cancel: clone the order and request cancellation on the clone.
CancelRead(c, o) ==
  /\ cancels[c].pc = "next"
  /\ o \in cancels[c].todo
  /\ CanTransition(orders[o].state, "CancelRequested")
  /\ cancels' = [cancels EXCEPT ![c] =
                   [pc |-> "read", todo |-> cancels[c].todo, order |-> o,
                    mine |-> Transition(orders[o], "CancelRequested"),
                    reply |-> "none"]]
  /\ UNCHANGED <<orders, flow, feeds, booked, resting, executed>>

\* cancel refuses an order that is not working: counted as failed.
CancelRefused(c, o) ==
  /\ cancels[c].pc = "next"
  /\ o \in cancels[c].todo
  /\ ~CanTransition(orders[o].state, "CancelRequested")
  /\ cancels' = [cancels EXCEPT ![c] = NextCancel(c, o)]
  /\ UNCHANGED <<orders, flow, feeds, booked, resting, executed>>

CancelStore(c) ==
  /\ cancels[c].pc = "read"
  /\ Store(cancels[c].order, cancels[c].mine)
  /\ cancels' = [cancels EXCEPT ![c].pc = "asked"]
  /\ UNCHANGED <<flow, feeds, booked, resting, executed>>

CancelAnswered(c, reply) ==
  cancels' = [cancels EXCEPT ![c] =
                [pc |-> "answered", todo |-> cancels[c].todo,
                 order |-> cancels[c].order, mine |-> cancels[c].mine,
                 reply |-> reply]]

\* PaperExecution::cancel: the order was resting and is gone, or there was
\* nothing to remove and the order is unknown to the adapter.
PaperCancels(c) ==
  /\ ~live
  /\ cancels[c].pc = "asked"
  /\ CancelAnswered(c, IF resting[cancels[c].order] > 0 THEN "ok" ELSE "unknown")
  /\ VenueRemoves(cancels[c].order)
  /\ UNCHANGED <<orders, flow, feeds, booked>>

\* LiveExecution::cancel of an order whose venue id is not known sends
\* nothing and reports the order as unknown.
LiveCancelUnsent(c) ==
  /\ live
  /\ cancels[c].pc = "asked"
  /\ ~cancels[c].mine.venueId
  /\ CancelAnswered(c, "unknown")
  /\ UNCHANGED <<orders, flow, feeds, booked, resting, executed>>

\* LiveExecution::cancel is accepted by the exchange.
LiveCancels(c) ==
  /\ live
  /\ cancels[c].pc = "asked"
  /\ cancels[c].mine.venueId
  /\ CancelAnswered(c, "ok")
  /\ VenueRemoves(cancels[c].order)
  /\ UNCHANGED <<orders, flow, feeds, booked>>

\* LiveExecution::cancel fails; the exchange may have acted all the same.
LiveCancelFails(c) ==
  /\ live
  /\ cancels[c].pc = "asked"
  /\ cancels[c].mine.venueId
  /\ CancelAnswered(c, "error")
  /\ VenueRemoves(cancels[c].order) \/ UNCHANGED venueVars
  /\ UNCHANGED <<orders, flow, feeds, booked>>

\* cancel, from the adapter's answer to its return.  An error leaves the
\* order as CancelStore wrote it.
CancelReturn(c) ==
  /\ cancels[c].pc = "answered"
  /\ IF cancels[c].reply = "error"
       THEN UNCHANGED orders
       ELSE Store(cancels[c].order, Transition(cancels[c].mine, "Cancelled"))
  /\ cancels' = [cancels EXCEPT ![c] = NextCancel(c, cancels[c].order)]
  /\ UNCHANGED <<flow, feeds, booked, resting, executed>>

-----------------------------------------------------------------------------
(***************************************************************************)
(* A book update: match the resting orders, then apply each fill to the    *)
(* manager's order and, if the manager took it, to the portfolio.          *)
(***************************************************************************)

\* The phase a book update is in, by what it has left to do.
FeedAt(snap, fills) ==
  [pc    |-> IF snap # Nothing THEN "matching"
             ELSE IF fills # Nothing THEN "applying" ELSE "idle",
   snap  |-> snap,
   fills |-> fills,
   order |-> None,
   mine  |-> Unregistered]

\* on_book_update snapshots the resting orders of the token.
BookUpdate(f) ==
  /\ ~live
  /\ feeds[f].pc = "idle"
  /\ resting # Nothing
  /\ feeds' = [feeds EXCEPT ![f] = FeedAt(resting, Nothing)]
  /\ UNCHANGED <<orders, flow, cancels, booked, resting, executed>>

\* One candidate: the book does not reach its limit, or it is simulated as
\* rejected or without liquidity; nothing happens to it.
CandidateSkipped(f, o) ==
  /\ feeds[f].pc = "matching"
  /\ feeds[f].snap[o] > 0
  /\ feeds' = [feeds EXCEPT ![f] =
                 FeedAt([feeds[f].snap EXCEPT ![o] = 0], feeds[f].fills)]
  /\ UNCHANGED <<orders, flow, cancels, booked, resting, executed>>

\* One candidate: q of it is executed.
CandidateFilled(f, o, q) ==
  /\ feeds[f].pc = "matching"
  /\ q \in 1..feeds[f].snap[o]
  /\ PaperMatches(o, feeds[f].snap[o], q)
  /\ feeds' = [feeds EXCEPT ![f] =
                 FeedAt([feeds[f].snap EXCEPT ![o] = 0],
                        [feeds[f].fills EXCEPT ![o] = q])]
  /\ UNCHANGED <<orders, flow, cancels, booked>>

\* apply_external_fill: clone the order and apply the fill to the clone.
ExternalFillRead(f, o) ==
  /\ feeds[f].pc = "applying"
  /\ feeds[f].fills[o] > 0
  /\ FillAccepted(orders[o], feeds[f].fills[o], Quantity)
  /\ feeds' = [feeds EXCEPT ![f] =
                 [pc |-> "writing", snap |-> Nothing, fills |-> feeds[f].fills,
                  order |-> o,
                  mine |-> Fill(orders[o], feeds[f].fills[o], Quantity)]]
  /\ UNCHANGED <<orders, flow, cancels, booked, resting, executed>>

\* The order refuses the fill: it is dropped and never booked.
ExternalFillRefused(f, o) ==
  /\ feeds[f].pc = "applying"
  /\ feeds[f].fills[o] > 0
  /\ ~FillAccepted(orders[o], feeds[f].fills[o], Quantity)
  /\ feeds' = [feeds EXCEPT ![f] =
                 FeedAt(Nothing, [feeds[f].fills EXCEPT ![o] = 0])]
  /\ UNCHANGED <<orders, flow, cancels, booked, resting, executed>>

ExternalFillStore(f) ==
  /\ feeds[f].pc = "writing"
  /\ Store(feeds[f].order, feeds[f].mine)
  /\ feeds' = [feeds EXCEPT ![f].pc = "booking"]
  /\ UNCHANGED <<flow, cancels, booked, resting, executed>>

BookExternal(f) ==
  /\ feeds[f].pc = "booking"
  /\ LET o == feeds[f].order
     IN  /\ booked' = [booked EXCEPT ![o] = @ + feeds[f].fills[o]]
         /\ feeds' = [feeds EXCEPT ![f] =
                        FeedAt(Nothing, [feeds[f].fills EXCEPT ![o] = 0])]
  /\ UNCHANGED <<orders, flow, cancels, resting, executed>>

-----------------------------------------------------------------------------
PipelineStep(o) ==
  /\ UNCHANGED <<live, scope>>
  /\ \/ RegisterValidated(o)
     \/ SubmitSend(o)
     \/ VenueRefuses(o)
     \/ PaperAccepts(o)
     \/ VenueOverfills(o)
     \/ \E q \in 0..Quantity : \E id \in BOOLEAN : LiveAccepts(o, q, id)
     \/ \E q \in 0..Quantity : LiveAmbiguous(o, q)
     \/ SubmitReturn(o)
     \/ BookImmediate(o)

CancelStep(c) ==
  /\ UNCHANGED <<live, scope>>
  /\ \/ CancelAll(c)
     \/ \E o \in Orders : CancelRead(c, o) \/ CancelRefused(c, o)
     \/ CancelStore(c)
     \/ PaperCancels(c)
     \/ LiveCancelUnsent(c)
     \/ LiveCancels(c)
     \/ LiveCancelFails(c)
     \/ CancelReturn(c)

ExchangeStep(o) ==
  /\ UNCHANGED <<live, scope>>
  /\ \E q \in 1..Quantity : LiveTrades(o, q)

FeedStep(f) ==
  /\ UNCHANGED <<live, scope>>
  /\ \/ BookUpdate(f)
     \/ \E o \in Orders :
          \/ CandidateSkipped(f, o)
          \/ \E q \in 1..Quantity : CandidateFilled(f, o, q)
          \/ ExternalFillRead(f, o)
          \/ ExternalFillRefused(f, o)
     \/ ExternalFillStore(f)
     \/ BookExternal(f)

Next ==
  \/ \E o \in Orders     : o \in scope.orders /\ (PipelineStep(o) \/ ExchangeStep(o))
  \/ \E c \in Cancellers : CancelStep(c)
  \/ \E f \in Feeders    : f \in scope.feeds /\ FeedStep(f)

Spec == Init /\ [][Next]_vars

(***************************************************************************)
(* A task that has begun runs until it is done: an adapter call returns    *)
(* (paper sleeps a bounded time, the live client has a timeout) and a task *)
(* that can take a step does.  Nothing makes an order arrive, a cancel_all *)
(* be called or a book update come in, and nothing makes the exchange      *)
(* trade.                                                                  *)
(***************************************************************************)
Fairness ==
  /\ \A o \in Orders     : WF_vars(flow[o].pc # "start" /\ PipelineStep(o))
  /\ \A c \in Cancellers : WF_vars(cancels[c].pc # "idle" /\ CancelStep(c))
  /\ \A f \in Feeders    : WF_vars(feeds[f].pc # "idle" /\ FeedStep(f))

FairSpec == Spec /\ Fairness
-----------------------------------------------------------------------------
(***************************************************************************)
(* Properties.                                                             *)
(***************************************************************************)

\* The manager never records more of an order as filled than the venue has
\* executed, and the portfolio never books more than that either, whatever
\* clones are written back in whatever order: executions are lost by a stale
\* clone at worst, never invented (store in submit, cancel and
\* apply_external_fill).
NeverOverstated ==
  \A o \in Orders : /\ orders[o].filled <= executed[o]
                    /\ booked[o] <= executed[o]

\* An order recorded as Rejected is one the venue does not have: nothing of
\* it was executed and nothing of it rests.  It is the reason an ambiguous
\* submission must become Unknown (requires_reconciliation in submit).
RejectedNeverTraded ==
  \A o \in Orders : orders[o].state = "Rejected" =>
                      executed[o] = 0 /\ resting[o] = 0

\* An order recorded as Cancelled no longer works at the paper venue: once
\* cancel has returned, no book update can start to match it (cancel in the
\* manager and in the adapter).
CancelledNotResting ==
  ~live => \A o \in Orders : orders[o].state = "Cancelled" => resting[o] = 0

\* What the pipeline submits is IOC, and for such an order the three books
\* agree once its task is done on the paper adapter: the manager's order, the
\* venue's execution and the portfolio's, unless the order is Unknown.  No
\* number of cancel_all callers racing the submission can change that.
Settled(o) == flow[o].pc = "done" /\ orders[o].state # "Unknown"

ImmediateConservation ==
  ~live => \A o \in Orders \ Gtc : Settled(o) =>
             orders[o].filled = executed[o] /\ booked[o] = executed[o]

\* An order whose submission was ambiguous keeps its doubt: no cancel_all
\* and no stale clone turns an Unknown order of the live adapter into one
\* that is known not to have traded (submit, cancel, cancel_all).
UnknownKept ==
  [][live => \A o \in Orders :
       orders[o].state = "Unknown" => orders'[o].state = "Unknown"]_vars

\* The venue executed the same rest of an order for two book updates.
DoubleFilled(o) == executed[o] + resting[o] > Quantity

\* cancel_all clears the book: an order that was working when cancel_all took
\* its snapshot leaves the paper venue, filled or cancelled, whatever the other
\* tasks do meanwhile; but for an order that two book feeds filled twice, whose
\* cancellation the manager refuses because it counts it as filled while the
\* venue has let a rest stay (cancel_all, cancel).
Working(o) == orders[o].state \in {"Acknowledged", "PartiallyFilled"}

CancelAllClears ==
  \A c \in Cancellers, o \in Orders :
    (~live /\ o \in cancels[c].todo /\ Working(o)) ~> (resting[o] = 0 \/ DoubleFilled(o))

\* No order stays in flight: a submission is answered and recorded, so the
\* order ends up acknowledged, filled, refused or Unknown (submit).
SubmissionSettles ==
  \A o \in Orders : orders[o].state = "Submitted" ~> orders[o].state # "Submitted"

-----------------------------------------------------------------------------
(***************************************************************************)
(* What the documentation and comments say, and the code does not do.      *)
(***************************************************************************)

\* Terminal states are absorbing: nothing leaves Filled, Cancelled, Rejected
\* or Failed.  can_transition_to refuses it, but cancel and submit ask it of
\* a clone and then overwrite the map.
TerminalAbsorbing ==
  [][\A o \in Orders : IsTerminal(orders[o].state) =>
       orders'[o].state = orders[o].state]_vars

\* An IOC order takes what is available and cancels the rest: when submit has
\* returned a fill for it, it no longer holds an open-order slot (submit).
ImmediateCloses ==
  \A o \in Orders \ Gtc :
    flow[o].pc = "done" /\ flow[o].reply.kind = "ack" => ~IsOpen(orders[o].state)

\* Reconciliation resolves an Unknown order into a concrete outcome.  The
\* reconciler is one of the cancel_all callers, and no other task looks at
\* Unknown orders.
UnknownResolves ==
  \A o \in Orders : orders[o].state = "Unknown" ~> orders[o].state # "Unknown"
=============================================================================
