------------------------- MODULE OrderManagerProofs -------------------------
(***************************************************************************)
(* Proofs about OrderManager, for any number of orders, cancel_all callers *)
(* and book feeds, any order quantity and either adapter.                  *)
(*                                                                         *)
(* The safety properties are not inductive: they speak of the map and the  *)
(* venue, and a step writes to the map whatever a task's clone holds.  The *)
(* invariant below adds what is known of every clone, and of the orders no *)
(* venue has taken.  At the end, what is under way is summed up, for what  *)
(* manager and portfolio may have of an order.                             *)
(***************************************************************************)
EXTENDS OrderManager, SumTheorems

(***************************************************************************)
(* The inductive invariant.                                                *)
(***************************************************************************)

\* The venue has not taken the order, and never will if it was refused.
Fresh(o) == \/ flow[o].pc \in {"start", "registered", "sent"}
            \/ flow[o].reply.kind = "rejected"

Untouched(o) ==
  /\ executed[o] = 0
  /\ resting[o] = 0
  /\ booked[o] = 0
  /\ orders[o].filled = 0
  /\ orders[o].state \in {"None", "Validated", "Submitted", "Rejected"}
  /\ \A f \in Feeders : feeds[f].snap[o] = 0 /\ feeds[f].fills[o] = 0

FreshUntouched == \A o \in Orders : Fresh(o) => Untouched(o)

\* An order is recorded as Rejected only by its own submit, at its end.
RejectedByAnswer ==
  \A o \in Orders : orders[o].state = "Rejected" =>
    flow[o].pc = "done" /\ flow[o].reply.kind = "rejected"

\* The clone submit holds is the order as it was sent, and only an
\* acknowledgement has fills to book.
SentClone ==
  \A o \in Orders :
    /\ flow[o].pc = "sent" => orders[o].state = "Submitted"
    /\ flow[o].pc \in {"sent", "answered"} =>
         flow[o].mine.state = "Submitted" /\ flow[o].mine.filled = 0
    /\ flow[o].pc = "answered" => flow[o].reply.kind # "none"
    /\ flow[o].pc = "booking" => flow[o].reply.kind = "ack"

\* The clone cancel holds requests cancellation of an order the venue took,
\* and what the paper venue has answered about no longer rests there.
Cancelling(c, o) == /\ cancels[c].pc \in {"read", "asked", "answered"}
                    /\ cancels[c].order = o

CancelClone ==
  \A c \in Cancellers :
    /\ cancels[c].pc \in {"read", "asked", "answered"} =>
         cancels[c].order \in Orders /\ cancels[c].mine.state = "CancelRequested"
    /\ \A o \in Orders : Cancelling(c, o) =>
         /\ ~Fresh(o)
         /\ ~live /\ cancels[c].pc = "answered" => resting[o] = 0

\* The clone apply_external_fill holds has a fill, so its order once rested.
FillClone ==
  \A f \in Feeders : feeds[f].pc \in {"writing", "booking"} =>
    /\ feeds[f].order \in Orders
    /\ feeds[f].fills[feeds[f].order] > 0
    /\ feeds[f].mine.state \in {"PartiallyFilled", "Filled"}

\* The live adapter's book updates reach no order.
LiveUnfed == live => \A f \in Feeders : feeds[f].pc = "idle"

\* An IOC order never rests, so no book update knows it.
ImmediateNeverRests ==
  \A o \in Orders \ Gtc :
    /\ resting[o] = 0
    /\ \A f \in Feeders : feeds[f].snap[o] = 0 /\ feeds[f].fills[o] = 0

\* An order no book update can reach is Submitted until submit records its
\* answer, no cancel holds a clone of it before that, and none ever does if
\* what submit records is Unknown.
OutOfReach(o) == live \/ o \notin Gtc

UnsharedUntilRecorded ==
  \A o \in Orders : OutOfReach(o) =>
    /\ flow[o].pc = "answered" => orders[o].state = "Submitted"
    /\ orders[o].state = "Unknown" => flow[o].pc = "done"
    /\ \A c \in Cancellers : Cancelling(c, o) =>
         flow[o].pc \in {"booking", "done"} /\ orders[o].state # "Unknown"

\* From the paper venue's answer on, the books of an IOC order follow it: the
\* fill reported is the quantity executed, the order records it or is Unknown
\* for good, and every clone of the order records it too.
Ledger(o) ==
  /\ flow[o].pc \in {"answered", "booking", "done"} =>
       flow[o].reply.kind \in {"ack", "rejected"}
  /\ flow[o].pc = "answered" => booked[o] = 0
  /\ flow[o].pc = "answered" /\ flow[o].reply.kind = "ack" =>
       flow[o].reply.fill > 0 /\ flow[o].reply.fill = executed[o]
  /\ /\ flow[o].pc \in {"booking", "done"}
     /\ flow[o].reply.kind = "ack"
     /\ orders[o].state # "Unknown"
     => /\ orders[o].filled = executed[o]
        /\ flow[o].reply.fill = executed[o]
        /\ booked[o] = IF flow[o].pc = "done" THEN executed[o] ELSE 0
  /\ \A c \in Cancellers : Cancelling(c, o) => cancels[c].mine.filled = executed[o]

ImmediateLedger == ~live => \A o \in Orders \ Gtc : Ledger(o)

IInv ==
  /\ TypeOK
  /\ FreshUntouched
  /\ RejectedByAnswer
  /\ SentClone
  /\ CancelClone
  /\ FillClone
  /\ CancelledNotResting
  /\ LiveUnfed
  /\ ImmediateNeverRests
  /\ UnsharedUntilRecorded
  /\ ImmediateLedger

-----------------------------------------------------------------------------
(***************************************************************************)
(* The operators on orders and tasks.                                      *)
(***************************************************************************)

LEMMA TransitionKeeps ==
  ASSUME NEW order \in OrderRecord, NEW t \in States
  PROVE  /\ Transition(order, t) \in OrderRecord
         /\ Transition(order, t).filled = order.filled
         /\ CanTransition(order.state, t) => Transition(order, t).state = t
         /\ ~CanTransition(order.state, t) => Transition(order, t).state = order.state
  BY DEF Transition, OrderRecord

\* An accepted fill keeps the order within its quantity.
LEMMA FillBounded ==
  ASSUME NEW order \in OrderRecord, NEW q \in Nat,
         FillAccepted(order, q, Quantity)
  PROVE  /\ Fill(order, q, Quantity) \in OrderRecord
         /\ Fill(order, q, Quantity).filled = order.filled + q
         /\ Fill(order, q, Quantity).state \in {"PartiallyFilled", "Filled"}
  <1>1. order.filled \in 0..Quantity /\ Quantity \in Nat /\ Quantity > 0
    BY QuantityAssumption DEF OrderRecord
  <1>2. order.filled + q \in 0..Quantity
    BY <1>1 DEF FillAccepted, Remaining
  <1>3. /\ Fill(order, q, Quantity).filled = order.filled + q
        /\ Fill(order, q, Quantity).state \in {"PartiallyFilled", "Filled"}
    BY DEF Fill, OrderRecord
  <1>4. Fill(order, q, Quantity) \in OrderRecord
    BY <1>2 DEF Fill, OrderRecord, States
  <1>5. QED
    BY <1>3, <1>4

\* Only a working order can be asked to cancel.
LEMMA CancelOnlyWorking ==
  ASSUME NEW s \in States \cup {"None"}, CanTransition(s, "CancelRequested")
  PROVE  s \in {"Acknowledged", "PartiallyFilled"}
  BY DEF CanTransition, IsTerminal, Successors, States

LEMMA IdleTyped ==
  /\ Unregistered \in OrderRecord
  /\ Nothing \in [Orders -> 0..Quantity]
  /\ IdleFlow \in FlowRecord
  /\ IdleCancel \in CancelRecord
  /\ IdleFeed \in FeedRecord
  BY QuantityAssumption, MaxReportAssumption
     DEF Unregistered, OrderRecord, Nothing, IdleFlow, FlowRecord, IdleCancel,
         CancelRecord, IdleFeed, FeedRecord, NoReply, Reply

LEMMA NextCancelTyped ==
  ASSUME TypeOK, NEW c \in Cancellers, NEW o
  PROVE  /\ NextCancel(c, o) \in CancelRecord
         /\ NextCancel(c, o).pc \in {"idle", "next"}
  <1>1. cancels[c].todo \ {o} \in SUBSET Orders
    BY DEF TypeOK, CancelRecord
  <1>2. QED
    BY <1>1, IdleTyped DEF NextCancel, IdleCancel, CancelRecord

LEMMA FeedAtTyped ==
  ASSUME NEW snap \in [Orders -> 0..Quantity], NEW fills \in [Orders -> 0..Quantity]
  PROVE  /\ FeedAt(snap, fills) \in FeedRecord
         /\ FeedAt(snap, fills).pc \in {"idle", "matching", "applying"}
         /\ FeedAt(snap, fills).snap = snap
         /\ FeedAt(snap, fills).fills = fills
  BY IdleTyped DEF FeedAt, FeedRecord

-----------------------------------------------------------------------------
(***************************************************************************)
(* Type correctness.                                                       *)
(***************************************************************************)

LEMMA StoreTyped ==
  ASSUME TypeOK, NEW o, NEW order \in OrderRecord, Store(o, order)
  PROVE  orders' \in [Orders -> OrderRecord]
  BY DEF TypeOK, Store

LEMMA TakesTyped ==
  ASSUME VenueTypeOK, NEW o \in Orders, NEW q \in Nat, VenueTakes(o, q)
  PROVE  VenueTypeOK'
  BY QuantityAssumption DEF VenueTypeOK, VenueTakes

LEMMA AfterReplyTyped ==
  ASSUME NEW mine \in OrderRecord, NEW reply \in Reply
  PROVE  /\ AfterReply(mine, reply) \in OrderRecord
         /\ Acknowledged(mine, reply) \in OrderRecord
         /\ Acknowledged(mine, reply).filled = mine.filled
  <1>1. "Acknowledged" \in States /\ "Unknown" \in States /\ "Rejected" \in States
    BY DEF States
  <1>2. /\ Acknowledged(mine, reply) \in OrderRecord
        /\ Acknowledged(mine, reply).filled = mine.filled
    BY <1>1, TransitionKeeps DEF Acknowledged, OrderRecord, Reply
  <1>3. reply.fill \in Nat
    BY MaxReportAssumption DEF Reply
  <1>4. QED
    BY <1>1, <1>2, <1>3, TransitionKeeps, FillBounded DEF AfterReply

\* A step of a pipeline task, with what an adapter executes made explicit.
LEMMA PipelineCases ==
  ASSUME NEW o \in Orders, PipelineStep(o)
  PROVE  \/ RegisterValidated(o)
         \/ SubmitSend(o)
         \/ VenueRefuses(o)
         \/ \E q \in 0..MaxReport : AdapterAccepts(o, q)
         \/ \E q \in 0..Quantity : \E id \in BOOLEAN : LiveAccepts(o, q, id)
         \/ \E q \in 0..Quantity : LiveAmbiguous(o, q)
         \/ SubmitReturn(o)
         \/ BookImmediate(o)
  <1>1. Quantity \in Nat /\ MaxReport \in Nat /\ Quantity <= MaxReport
    BY QuantityAssumption, MaxReportAssumption
  <1>2. PaperAccepts(o) => \E q \in 0..MaxReport : AdapterAccepts(o, q)
    BY <1>1 DEF PaperAccepts
  <1>3. VenueOverfills(o) => \E q \in 0..MaxReport : AdapterAccepts(o, q)
    BY <1>1 DEF VenueOverfills
  <1>4. QED
    BY <1>2, <1>3 DEF PipelineStep

LEMMA PipelineTyped ==
  ASSUME TypeOK, NEW o \in Orders, PipelineStep(o)
  PROVE  TypeOK'
  <1> USE DEF TypeOK
  <1>0. live' \in BOOLEAN
    BY DEF PipelineStep
  <1>1. CASE RegisterValidated(o)
    <2>1. NewOrder \in OrderRecord /\ "Validated" \in States
      BY QuantityAssumption DEF NewOrder, OrderRecord, States
    <2>2. [IdleFlow EXCEPT !.pc = "registered"] \in FlowRecord
      BY IdleTyped DEF FlowRecord
    <2>3. QED
      BY <1>0, <1>1, <2>1, <2>2, StoreTyped, TransitionKeeps
         DEF RegisterValidated, VenueTypeOK
  <1>2. CASE SubmitSend(o)
    <2>1. Transition(orders[o], "Submitted") \in OrderRecord
      BY TransitionKeeps DEF States
    <2>2. NoReply \in Reply
      BY MaxReportAssumption DEF NoReply, Reply
    <2>3. QED
      BY <1>0, <1>2, <2>1, <2>2, StoreTyped DEF SubmitSend, FlowRecord, VenueTypeOK
  <1>3. ASSUME NEW reply \in Reply, Answer(o, reply)
        PROVE  flow' \in [Orders -> FlowRecord]
    BY <1>3 DEF Answer, FlowRecord
  <1>4. NoReply \in Reply /\ 0 \in 0..MaxReport
    BY MaxReportAssumption DEF NoReply, Reply
  <1>5. CASE VenueRefuses(o)
    <2>1. [NoReply EXCEPT !.kind = "rejected"] \in Reply
      BY <1>4 DEF Reply
    <2>2. QED
      BY <1>0, <1>3, <1>5, <2>1 DEF VenueRefuses, VenueTypeOK
  <1>6. ASSUME NEW q \in 0..MaxReport, AdapterAccepts(o, q)
        PROVE  TypeOK'
    <2>1. [kind |-> "ack", fill |-> q, venueId |-> TRUE] \in Reply
      BY DEF Reply
    <2>2. q \in Nat
      BY MaxReportAssumption
    <2>3. QED
      BY <1>0, <1>3, <1>6, <2>1, <2>2, TakesTyped DEF AdapterAccepts
  <1>7. ASSUME NEW q \in 0..Quantity, NEW id \in BOOLEAN, LiveAccepts(o, q, id)
        PROVE  TypeOK'
    <2>1. [kind |-> "ack", fill |-> 0, venueId |-> id] \in Reply
      BY <1>4 DEF Reply
    <2>2. q \in Nat
      BY QuantityAssumption
    <2>3. QED
      BY <1>0, <1>3, <1>7, <2>1, <2>2, TakesTyped DEF LiveAccepts
  <1>8. ASSUME NEW q \in 0..Quantity, LiveAmbiguous(o, q)
        PROVE  TypeOK'
    <2>1. [NoReply EXCEPT !.kind = "ambiguous"] \in Reply
      BY <1>4 DEF Reply
    <2>2. q \in Nat
      BY QuantityAssumption
    <2>3. VenueTypeOK'
      <3>1. CASE VenueTakes(o, q)
        BY <2>2, <3>1, TakesTyped
      <3>2. CASE UNCHANGED venueVars
        BY <3>2 DEF venueVars, VenueTypeOK
      <3>3. QED
        BY <1>8, <3>1, <3>2 DEF LiveAmbiguous
    <2>4. QED
      BY <1>0, <1>3, <1>8, <2>1, <2>3 DEF LiveAmbiguous
  <1>9. CASE SubmitReturn(o)
    <2>1. AfterReply(flow[o].mine, flow[o].reply) \in OrderRecord
      BY AfterReplyTyped DEF FlowRecord
    <2>2. flow' \in [Orders -> FlowRecord]
      BY <1>9 DEF SubmitReturn, FlowRecord
    <2>3. QED
      BY <1>0, <1>9, <2>1, <2>2, StoreTyped DEF SubmitReturn, VenueTypeOK
  <1>10. CASE BookImmediate(o)
    <2>1. flow[o].reply.fill \in Nat
      BY MaxReportAssumption DEF FlowRecord, Reply
    <2>2. flow' \in [Orders -> FlowRecord]
      BY <1>10 DEF BookImmediate, FlowRecord
    <2>3. QED
      BY <1>0, <1>10, <2>1, <2>2 DEF BookImmediate, VenueTypeOK
  <1>11. QED
    BY <1>1, <1>2, <1>5, <1>6, <1>7, <1>8, <1>9, <1>10, PipelineCases

LEMMA CancelTyped ==
  ASSUME TypeOK, NEW c \in Cancellers, CancelStep(c)
  PROVE  TypeOK'
  <1> USE DEF TypeOK
  <1>0. live' \in BOOLEAN
    BY DEF CancelStep
  <1>1. ASSUME NEW reply \in {"none", "ok", "unknown", "error"},
               CancelAnswered(c, reply)
        PROVE  cancels' \in [Cancellers -> CancelRecord]
    BY <1>1 DEF CancelAnswered, CancelRecord
  <1>2. ASSUME NEW o, VenueRemoves(o)
        PROVE  VenueTypeOK'
    <2>1. 0 \in 0..Quantity
      BY QuantityAssumption
    <2>2. resting' \in [Orders -> 0..Quantity]
      BY <1>2, <2>1 DEF VenueRemoves, VenueTypeOK
    <2>3. QED
      BY <1>2, <2>2 DEF VenueRemoves, VenueTypeOK
  <1>3. CASE CancelAll(c)
    <2>1. OpenOrders \in SUBSET Orders
      BY DEF OpenOrders
    <2>2. [IdleCancel EXCEPT !.pc = "next", !.todo = OpenOrders] \in CancelRecord
      BY <2>1, IdleTyped DEF CancelRecord
    <2>3. QED
      BY <1>0, <1>3, <2>2 DEF CancelAll, VenueTypeOK
  <1>4. ASSUME NEW o \in Orders, CancelRead(c, o)
        PROVE  TypeOK'
    <2>1. Transition(orders[o], "CancelRequested") \in OrderRecord
      BY TransitionKeeps DEF States
    <2>2. cancels' \in [Cancellers -> CancelRecord]
      BY <1>4, <2>1 DEF CancelRead, CancelRecord
    <2>3. QED
      BY <1>0, <1>4, <2>2 DEF CancelRead, VenueTypeOK
  <1>5. ASSUME NEW o \in Orders, CancelRefused(c, o)
        PROVE  TypeOK'
    BY <1>0, <1>5, NextCancelTyped DEF CancelRefused, VenueTypeOK
  <1>6. CASE CancelStore(c)
    <2>1. cancels' \in [Cancellers -> CancelRecord]
      BY <1>6 DEF CancelStore, CancelRecord
    <2>2. cancels[c].mine \in OrderRecord
      BY DEF CancelRecord
    <2>3. QED
      BY <1>0, <1>6, <2>1, <2>2, StoreTyped DEF CancelStore, VenueTypeOK
  <1>7. CASE PaperCancels(c)
    BY <1>0, <1>1, <1>2, <1>7 DEF PaperCancels
  <1>8. CASE LiveCancelUnsent(c)
    BY <1>0, <1>1, <1>8 DEF LiveCancelUnsent, VenueTypeOK
  <1>9. CASE LiveCancels(c)
    BY <1>0, <1>1, <1>2, <1>9 DEF LiveCancels
  <1>10. CASE LiveCancelFails(c)
    <2>1. VenueTypeOK'
      <3>1. CASE VenueRemoves(cancels[c].order)
        BY <1>2, <3>1
      <3>2. CASE UNCHANGED venueVars
        BY <3>2 DEF venueVars, VenueTypeOK
      <3>3. QED
        BY <1>10, <3>1, <3>2 DEF LiveCancelFails
    <2>2. QED
      BY <1>0, <1>1, <1>10, <2>1 DEF LiveCancelFails
  <1>11. CASE CancelReturn(c)
    <2>1. Transition(cancels[c].mine, "Cancelled") \in OrderRecord
      BY TransitionKeeps DEF CancelRecord, States
    <2>2. orders' \in [Orders -> OrderRecord]
      BY <1>11, <2>1, StoreTyped DEF CancelReturn
    <2>3. NextCancel(c, cancels[c].order) \in CancelRecord
      BY NextCancelTyped
    <2>4. QED
      BY <1>0, <1>11, <2>2, <2>3 DEF CancelReturn, VenueTypeOK
  <1>12. QED
    BY <1>3, <1>4, <1>5, <1>6, <1>7, <1>8, <1>9, <1>10, <1>11 DEF CancelStep

LEMMA FeedTyped ==
  ASSUME TypeOK, NEW f \in Feeders, FeedStep(f)
  PROVE  TypeOK'
  <1> USE DEF TypeOK
  <1>0. live' \in BOOLEAN
    BY DEF FeedStep
  <1>1. ASSUME NEW snap \in [Orders -> 0..Quantity],
               NEW fills \in [Orders -> 0..Quantity],
               feeds' = [feeds EXCEPT ![f] = FeedAt(snap, fills)]
        PROVE  feeds' \in [Feeders -> FeedRecord]
    BY <1>1, FeedAtTyped
  <1>2. /\ feeds[f].snap \in [Orders -> 0..Quantity]
        /\ feeds[f].fills \in [Orders -> 0..Quantity]
        /\ Nothing \in [Orders -> 0..Quantity]
        /\ 0 \in 0..Quantity /\ Quantity \in Nat
    BY IdleTyped, QuantityAssumption DEF FeedRecord
  <1>3. CASE BookUpdate(f)
    BY <1>0, <1>1, <1>2, <1>3 DEF BookUpdate, VenueTypeOK
  <1>4. ASSUME NEW o \in Orders, CandidateSkipped(f, o)
        PROVE  TypeOK'
    <2>1. [feeds[f].snap EXCEPT ![o] = 0] \in [Orders -> 0..Quantity]
      BY <1>2
    <2>2. QED
      BY <1>0, <1>1, <1>2, <1>4, <2>1 DEF CandidateSkipped, VenueTypeOK
  <1>5. ASSUME NEW o \in Orders, NEW q \in 1..Quantity, CandidateFilled(f, o, q)
        PROVE  TypeOK'
    <2>1. /\ [feeds[f].snap EXCEPT ![o] = 0] \in [Orders -> 0..Quantity]
          /\ [feeds[f].fills EXCEPT ![o] = q] \in [Orders -> 0..Quantity]
      BY <1>2
    <2>2. feeds' \in [Feeders -> FeedRecord]
      BY <1>1, <1>5, <2>1 DEF CandidateFilled
    <2>3. q \in Nat /\ feeds[f].snap[o] - q \in 0..Quantity
      BY <1>2, <1>5 DEF CandidateFilled
    <2>4. VenueTypeOK'
      BY <1>5, <2>3 DEF CandidateFilled, PaperMatches, VenueTypeOK
    <2>5. QED
      BY <1>0, <1>5, <2>2, <2>4 DEF CandidateFilled
  <1>6. ASSUME NEW o \in Orders, ExternalFillRead(f, o)
        PROVE  TypeOK'
    <2>1. Fill(orders[o], feeds[f].fills[o], Quantity) \in OrderRecord
      BY <1>2, <1>6, FillBounded DEF ExternalFillRead
    <2>2. feeds' \in [Feeders -> FeedRecord]
      BY <1>2, <1>6, <2>1 DEF ExternalFillRead, FeedRecord
    <2>3. QED
      BY <1>0, <1>6, <2>2 DEF ExternalFillRead, VenueTypeOK
  <1>7. ASSUME NEW o \in Orders, ExternalFillRefused(f, o)
        PROVE  TypeOK'
    <2>1. [feeds[f].fills EXCEPT ![o] = 0] \in [Orders -> 0..Quantity]
      BY <1>2
    <2>2. QED
      BY <1>0, <1>1, <1>2, <1>7, <2>1 DEF ExternalFillRefused, VenueTypeOK
  <1>8. CASE ExternalFillStore(f)
    <2>1. feeds' \in [Feeders -> FeedRecord]
      BY SMTT(30), <1>8 DEF ExternalFillStore, FeedRecord
    <2>2. feeds[f].mine \in OrderRecord
      BY DEF FeedRecord
    <2>3. QED
      BY <1>0, <1>8, <2>1, <2>2, StoreTyped DEF ExternalFillStore, VenueTypeOK
  <1>9. CASE BookExternal(f)
    <2> DEFINE o == feeds[f].order
    <2>1. [feeds[f].fills EXCEPT ![o] = 0] \in [Orders -> 0..Quantity]
      BY <1>2
    <2>2. feeds' \in [Feeders -> FeedRecord]
      BY <1>1, <1>2, <1>9, <2>1 DEF BookExternal
    <2>3. booked' \in [Orders -> Nat]
      <3>1. CASE o \in Orders
        BY <1>2, <1>9, <3>1 DEF BookExternal
      <3>2. CASE o \notin Orders
        BY <1>9, <3>2 DEF BookExternal
      <3>3. QED
        BY <3>1, <3>2
    <2>4. QED
      BY <1>0, <1>9, <2>2, <2>3 DEF BookExternal, VenueTypeOK
  <1>10. QED
    BY <1>3, <1>4, <1>5, <1>6, <1>7, <1>8, <1>9 DEF FeedStep

LEMMA ExchangeTyped ==
  ASSUME TypeOK, NEW o \in Orders, ExchangeStep(o)
  PROVE  TypeOK'
  <1>1. PICK q \in 1..Quantity : LiveTrades(o, q)
    BY DEF ExchangeStep
  <1>2. q \in Nat /\ Quantity \in Nat
    BY QuantityAssumption
  <1>3. VenueTypeOK'
    BY <1>1, <1>2 DEF LiveTrades, ExchangeTrades, VenueTypeOK, TypeOK
  <1>4. QED
    BY <1>1, <1>3 DEF LiveTrades, ExchangeStep, TypeOK

LEMMA InitTyped ==
  ASSUME Init
  PROVE  TypeOK
  BY IdleTyped, QuantityAssumption, ModesAssumption
     DEF Init, TypeOK, VenueInit, VenueTypeOK

LEMMA NextTyped ==
  ASSUME TypeOK, [Next]_vars
  PROVE  TypeOK'
  <1>1. CASE UNCHANGED vars
    BY <1>1 DEF vars, TypeOK, VenueTypeOK
  <1>2. QED
    BY <1>1, PipelineTyped, CancelTyped, FeedTyped, ExchangeTyped DEF Next

(***************************************************************************)
(* Every variable keeps its type: in particular the clones written back by *)
(* submit, cancel and apply_external_fill never hold more than Quantity as *)
(* filled, although the venue may report or execute more.                  *)
(***************************************************************************)
THEOREM TypeCorrect == Spec => []TypeOK
  BY InitTyped, NextTyped, PTL DEF Spec

-----------------------------------------------------------------------------
(***************************************************************************)
(* What a step of each task leaves alone.                                  *)
(***************************************************************************)

\* A pipeline task works on its own order only.
LEMMA PipelineFrame ==
  ASSUME TypeOK, NEW o \in Orders, PipelineStep(o)
  PROVE  /\ live' = live /\ cancels' = cancels /\ feeds' = feeds
         /\ \A p \in Orders : p # o =>
              /\ flow'[p] = flow[p] /\ orders'[p] = orders[p]
              /\ booked'[p] = booked[p] /\ resting'[p] = resting[p]
              /\ executed'[p] = executed[p]
  <1> USE DEF TypeOK, VenueTypeOK
  <1>1. live' = live /\ cancels' = cancels /\ feeds' = feeds
    BY PipelineCases
       DEF PipelineStep, RegisterValidated, SubmitSend, VenueRefuses, AdapterAccepts,
           LiveAccepts, LiveAmbiguous, SubmitReturn, BookImmediate
  <1>2. SUFFICES ASSUME NEW p \in Orders, p # o
                 PROVE  /\ flow'[p] = flow[p] /\ orders'[p] = orders[p]
                        /\ booked'[p] = booked[p] /\ resting'[p] = resting[p]
                        /\ executed'[p] = executed[p]
    BY <1>1
  <1>3. CASE RegisterValidated(o)
    BY <1>2, <1>3 DEF RegisterValidated, Store
  <1>4. CASE SubmitSend(o)
    BY <1>2, <1>4 DEF SubmitSend, Store
  <1>5. CASE VenueRefuses(o)
    BY <1>2, <1>5 DEF VenueRefuses, Answer
  <1>6. ASSUME NEW q, AdapterAccepts(o, q) \/ (\E id \in BOOLEAN : LiveAccepts(o, q, id))
        PROVE  /\ flow'[p] = flow[p] /\ orders'[p] = orders[p]
               /\ booked'[p] = booked[p] /\ resting'[p] = resting[p]
               /\ executed'[p] = executed[p]
    BY <1>2, <1>6 DEF AdapterAccepts, LiveAccepts, Answer, VenueTakes
  <1>7. ASSUME NEW q, LiveAmbiguous(o, q)
        PROVE  /\ flow'[p] = flow[p] /\ orders'[p] = orders[p]
               /\ booked'[p] = booked[p] /\ resting'[p] = resting[p]
               /\ executed'[p] = executed[p]
    BY <1>2, <1>7 DEF LiveAmbiguous, Answer, VenueTakes, venueVars
  <1>8. CASE SubmitReturn(o)
    BY <1>2, <1>8 DEF SubmitReturn, Store
  <1>9. CASE BookImmediate(o)
    BY <1>2, <1>9 DEF BookImmediate
  <1>10. QED
    BY <1>3, <1>4, <1>5, <1>6, <1>7, <1>8, <1>9, PipelineCases

\* A cancel_all task works on the order it is cancelling; the venue may only
\* remove that order from its book.
LEMMA CancelFrame ==
  ASSUME TypeOK, NEW c \in Cancellers, CancelStep(c)
  PROVE  /\ live' = live /\ flow' = flow /\ feeds' = feeds
         /\ booked' = booked /\ executed' = executed
         /\ \A d \in Cancellers : d # c => cancels'[d] = cancels[d]
         /\ \A p \in Orders :
              /\ resting'[p] = resting[p] \/ resting'[p] = 0
              /\ ~Cancelling(c, p) =>
                   orders'[p] = orders[p] /\ resting'[p] = resting[p]
  <1> USE DEF TypeOK, VenueTypeOK
  <1>1. /\ live' = live /\ flow' = flow /\ feeds' = feeds
        /\ booked' = booked /\ executed' = executed
    BY DEF CancelStep, CancelAll, CancelRead, CancelRefused, CancelStore,
           PaperCancels, LiveCancelUnsent, LiveCancels, LiveCancelFails,
           CancelReturn, VenueRemoves, venueVars
  <1>2. ASSUME NEW d \in Cancellers, d # c
        PROVE  cancels'[d] = cancels[d]
    BY <1>2 DEF CancelStep, CancelAll, CancelRead, CancelRefused, CancelStore,
                PaperCancels, LiveCancelUnsent, LiveCancels, LiveCancelFails,
                CancelReturn, CancelAnswered
  <1>3. ASSUME NEW p \in Orders
        PROVE  /\ resting'[p] = resting[p] \/ resting'[p] = 0
               /\ ~Cancelling(c, p) =>
                    orders'[p] = orders[p] /\ resting'[p] = resting[p]
    <2>1. CASE \/ CancelAll(c)
               \/ \E o \in Orders : CancelRead(c, o) \/ CancelRefused(c, o)
               \/ LiveCancelUnsent(c)
      BY <2>1 DEF CancelAll, CancelRead, CancelRefused, LiveCancelUnsent
    <2>2. CASE CancelStore(c)
      BY <2>2 DEF CancelStore, Store, Cancelling
    <2>3. CASE PaperCancels(c) \/ LiveCancels(c)
      BY <2>3 DEF PaperCancels, LiveCancels, VenueRemoves, Cancelling
    <2>4. CASE LiveCancelFails(c)
      BY <2>4 DEF LiveCancelFails, VenueRemoves, venueVars, Cancelling
    <2>5. CASE CancelReturn(c)
      BY <2>5 DEF CancelReturn, Store, Cancelling
    <2>6. QED
      BY <2>1, <2>2, <2>3, <2>4, <2>5 DEF CancelStep
  <1>4. QED
    BY <1>1, <1>2, <1>3

\* A book update works on orders its snapshot or its list of fills holds.
LEMMA FeedFrame ==
  ASSUME TypeOK, FillClone, NEW f \in Feeders, FeedStep(f)
  PROVE  /\ live' = live /\ flow' = flow /\ cancels' = cancels
         /\ \A e \in Feeders : e # f => feeds'[e] = feeds[e]
         /\ \A p \in Orders : feeds[f].snap[p] = 0 /\ feeds[f].fills[p] = 0 =>
              /\ orders'[p] = orders[p] /\ booked'[p] = booked[p]
              /\ resting'[p] = resting[p] /\ executed'[p] = executed[p]
              /\ resting[p] = 0 =>
                   feeds'[f].snap[p] = 0 /\ feeds'[f].fills[p] = 0
  <1> USE DEF TypeOK, VenueTypeOK
  <1>1. live' = live /\ flow' = flow /\ cancels' = cancels
    BY DEF FeedStep, BookUpdate, CandidateSkipped, CandidateFilled,
           ExternalFillRead, ExternalFillRefused, ExternalFillStore, BookExternal
  <1>2. ASSUME NEW e \in Feeders, e # f
        PROVE  feeds'[e] = feeds[e]
    BY <1>2 DEF FeedStep, BookUpdate, CandidateSkipped, CandidateFilled,
           ExternalFillRead, ExternalFillRefused, ExternalFillStore, BookExternal
  <1>3. ASSUME NEW p \in Orders, feeds[f].snap[p] = 0, feeds[f].fills[p] = 0
        PROVE  /\ orders'[p] = orders[p] /\ booked'[p] = booked[p]
               /\ resting'[p] = resting[p] /\ executed'[p] = executed[p]
               /\ resting[p] = 0 =>
                    feeds'[f].snap[p] = 0 /\ feeds'[f].fills[p] = 0
    <2> USE <1>3 DEF FeedRecord, FeedAt, Nothing
    <2>0. /\ feeds[f].snap \in [Orders -> 0..Quantity]
          /\ feeds[f].fills \in [Orders -> 0..Quantity]
          /\ Quantity \in Nat
      BY QuantityAssumption
    <2>1. CASE BookUpdate(f)
      BY <2>1 DEF BookUpdate
    <2>2. ASSUME NEW o \in Orders, CandidateSkipped(f, o)
          PROVE  /\ orders'[p] = orders[p] /\ booked'[p] = booked[p]
                 /\ resting'[p] = resting[p] /\ executed'[p] = executed[p]
                 /\ feeds'[f].snap[p] = 0 /\ feeds'[f].fills[p] = 0
      BY <2>0, <2>2 DEF CandidateSkipped
    <2>3. ASSUME NEW o \in Orders, NEW q \in 1..Quantity, CandidateFilled(f, o, q)
          PROVE  /\ orders'[p] = orders[p] /\ booked'[p] = booked[p]
                 /\ resting'[p] = resting[p] /\ executed'[p] = executed[p]
                 /\ feeds'[f].snap[p] = 0 /\ feeds'[f].fills[p] = 0
      <3>1. o # p
        BY <2>0, <2>3 DEF CandidateFilled
      <3>2. QED
        BY <2>0, <2>3, <3>1 DEF CandidateFilled, PaperMatches
    <2>4. ASSUME NEW o \in Orders, ExternalFillRead(f, o)
          PROVE  /\ orders'[p] = orders[p] /\ booked'[p] = booked[p]
                 /\ resting'[p] = resting[p] /\ executed'[p] = executed[p]
                 /\ feeds'[f].snap[p] = 0 /\ feeds'[f].fills[p] = 0
      BY <2>0, <2>4 DEF ExternalFillRead
    <2>5. ASSUME NEW o \in Orders, ExternalFillRefused(f, o)
          PROVE  /\ orders'[p] = orders[p] /\ booked'[p] = booked[p]
                 /\ resting'[p] = resting[p] /\ executed'[p] = executed[p]
                 /\ feeds'[f].snap[p] = 0 /\ feeds'[f].fills[p] = 0
      BY <2>0, <2>5 DEF ExternalFillRefused
    <2>6. CASE ExternalFillStore(f)
      <3>1. feeds[f].order # p
        BY <2>6 DEF ExternalFillStore, FillClone
      <3>2. QED
        BY <2>0, <2>6, <3>1 DEF ExternalFillStore, Store
    <2>7. CASE BookExternal(f)
      <3>1. feeds[f].order # p
        BY <2>7 DEF BookExternal, FillClone
      <3>2. QED
        BY <2>0, <2>7, <3>1 DEF BookExternal
    <2>8. QED
      BY <2>1, <2>2, <2>3, <2>4, <2>5, <2>6, <2>7 DEF FeedStep
  <1>4. QED
    BY <1>1, <1>2, <1>3

\* The exchange trades what rests there.
LEMMA ExchangeFrame ==
  ASSUME TypeOK, NEW o \in Orders, ExchangeStep(o)
  PROVE  /\ live /\ live' /\ UNCHANGED <<orders, flow, cancels, feeds, booked>>
         /\ \A p \in Orders : resting[p] = 0 =>
              resting'[p] = 0 /\ executed'[p] = executed[p]
  <1>1. PICK q \in 1..Quantity : LiveTrades(o, q)
    BY DEF ExchangeStep
  <1>2. resting[o] # 0
    BY <1>1, QuantityAssumption DEF LiveTrades, ExchangeTrades, TypeOK, VenueTypeOK
  <1>3. QED
    BY <1>1, <1>2 DEF ExchangeStep, LiveTrades, ExchangeTrades, TypeOK, VenueTypeOK

-----------------------------------------------------------------------------
(***************************************************************************)
(* The invariant is preserved, one conjunct at a time.                     *)
(***************************************************************************)

\* A cancel holds a clone only of an order the venue took.
LEMMA CancellingNotFresh ==
  ASSUME IInv, NEW c \in Cancellers, NEW o \in Orders, Cancelling(c, o)
  PROVE  ~Fresh(o)
  BY DEF IInv, CancelClone, Cancelling

\* What submit records, by what the adapter answered.
LEMMA RecordedState ==
  ASSUME NEW mine \in OrderRecord, NEW reply \in Reply,
         mine.state = "Submitted", mine.filled = 0, reply.kind # "none"
  PROVE  /\ reply.kind = "rejected" => AfterReply(mine, reply).state = "Rejected"
         /\ reply.kind = "ambiguous" => AfterReply(mine, reply).state = "Unknown"
         /\ reply.kind # "rejected" => AfterReply(mine, reply).state \in
              {"Acknowledged", "PartiallyFilled", "Filled", "Unknown", "Submitted"}
         /\ AfterReply(mine, reply).filled =
              IF FillApplied(mine, reply) THEN reply.fill ELSE 0
         /\ FillApplied(mine, reply) => AfterReply(mine, reply).state # "Unknown"
         /\ reply.kind = "ack" /\ reply.fill > 0 /\ ~FillApplied(mine, reply) =>
              AfterReply(mine, reply).state = "Unknown"
  <1>1. /\ Transition(mine, "Rejected").state = "Rejected"
        /\ Transition(mine, "Rejected").filled = 0
        /\ Transition(mine, "Unknown").state = "Unknown"
        /\ Transition(mine, "Unknown").filled = 0
    BY DEF Transition, CanTransition, IsTerminal, Successors, OrderRecord
  <1>2. /\ Acknowledged(mine, reply).state = "Acknowledged"
        /\ Acknowledged(mine, reply).filled = 0
        /\ Acknowledged(mine, reply) \in OrderRecord
    <2>1. Transition(mine, "Acknowledged").state = "Acknowledged"
      BY DEF Transition, CanTransition, IsTerminal, Successors, OrderRecord
    <2>2. QED
      BY <2>1, AfterReplyTyped DEF Acknowledged, OrderRecord
  <1>3. reply.fill \in Nat
    BY MaxReportAssumption DEF Reply
  <1>4. /\ Transition(Acknowledged(mine, reply), "Unknown").state = "Unknown"
        /\ Transition(Acknowledged(mine, reply), "Unknown").filled = 0
    BY <1>2 DEF Transition, CanTransition, IsTerminal, OrderRecord
  <1>5. CASE reply.kind # "ack"
    BY <1>1, <1>5 DEF AfterReply, FillApplied, Reply, OrderRecord
  <1>6. CASE reply.kind = "ack" /\ reply.fill = 0
    BY <1>2, <1>6 DEF AfterReply, FillApplied
  <1>7. CASE reply.kind = "ack" /\ FillApplied(mine, reply)
    <2>1. /\ Fill(Acknowledged(mine, reply), reply.fill, Quantity).filled = reply.fill
          /\ Fill(Acknowledged(mine, reply), reply.fill, Quantity).state
               \in {"PartiallyFilled", "Filled"}
      BY <1>2, <1>3, <1>7, FillBounded DEF FillApplied
    <2>2. AfterReply(mine, reply) = Fill(Acknowledged(mine, reply), reply.fill, Quantity)
      BY <1>7, <1>3 DEF AfterReply, FillApplied
    <2>3. QED
      BY <1>7, <2>1, <2>2
  <1>8. CASE reply.kind = "ack" /\ reply.fill > 0 /\ ~FillApplied(mine, reply)
    <2>1. AfterReply(mine, reply) = Transition(Acknowledged(mine, reply), "Unknown")
      BY <1>8, <1>3 DEF AfterReply, FillApplied
    <2>2. QED
      BY <1>4, <1>8, <2>1
  <1>9. QED
    BY <1>3, <1>5, <1>6, <1>7, <1>8

\* Freshness is only ever lost, and while an order is fresh no task but its
\* own pipeline touches it.
LEMMA FreshKept ==
  ASSUME IInv, [Next]_vars, NEW p \in Orders, Fresh(p)'
  PROVE  Fresh(p) /\ Untouched(p)'
  <1> USE DEF IInv, TypeOK, VenueTypeOK
  <1>1. ASSUME Fresh(p), UNCHANGED <<orders, booked, resting, executed, feeds>>
        PROVE  Untouched(p)'
    BY <1>1 DEF FreshUntouched, Untouched
  <1>2. ASSUME NEW o \in Orders, PipelineStep(o)
        PROVE  Fresh(p) /\ Untouched(p)'
    <2>1. CASE p # o
      BY <1>2, <2>1, PipelineFrame DEF FreshUntouched, Fresh, Untouched
    <2>2. CASE p = o
      <3>1. CASE RegisterValidated(o)
        BY <2>2, <3>1
           DEF RegisterValidated, FreshUntouched, Fresh, Untouched, Store,
               Transition, NewOrder, CanTransition, IsTerminal, Successors
      <3>2. CASE SubmitSend(o)
        BY <2>2, <3>2
           DEF SubmitSend, FreshUntouched, Fresh, Untouched, Store, Transition
      <3>3. CASE VenueRefuses(o)
        BY <1>1, <2>2, <3>3 DEF VenueRefuses, Fresh
      <3>4. ASSUME NEW q, AdapterAccepts(o, q) \/ (\E id \in BOOLEAN : LiveAccepts(o, q, id))
            PROVE  FALSE
        BY <2>2, <3>4 DEF AdapterAccepts, LiveAccepts, Answer, Fresh
      <3>5. ASSUME NEW q, LiveAmbiguous(o, q)
            PROVE  FALSE
        BY <2>2, <3>5 DEF LiveAmbiguous, Answer, Fresh, NoReply
      <3>6. CASE SubmitReturn(o)
        <4>1. Fresh(o) /\ flow[o].reply.kind = "rejected"
          BY <2>2, <3>6 DEF SubmitReturn, Fresh
        <4>2. /\ AfterReply(flow[o].mine, flow[o].reply).state = "Rejected"
              /\ AfterReply(flow[o].mine, flow[o].reply).filled = 0
          BY <3>6, <4>1, RecordedState
             DEF SubmitReturn, SentClone, FlowRecord, FillApplied
        <4>3. QED
          BY <2>2, <3>6, <4>1, <4>2
             DEF SubmitReturn, FreshUntouched, Untouched, Store
      <3>7. CASE BookImmediate(o)
        BY <2>2, <3>7 DEF BookImmediate, Fresh, SentClone
      <3>8. QED
        BY <1>2, <3>1, <3>2, <3>3, <3>4, <3>5, <3>6, <3>7, PipelineCases
    <2>3. QED
      BY <2>1, <2>2
  <1>3. ASSUME NEW o \in Orders, ExchangeStep(o)
        PROVE  Fresh(p) /\ Untouched(p)'
    BY <1>3, ExchangeFrame DEF FreshUntouched, Fresh, Untouched
  <1>4. ASSUME NEW c \in Cancellers, CancelStep(c)
        PROVE  Fresh(p) /\ Untouched(p)'
    <2>1. Fresh(p)
      BY <1>4, CancelFrame DEF Fresh
    <2>2. orders'[p] = orders[p] /\ resting'[p] = resting[p]
      BY <1>4, <2>1, CancelFrame, CancellingNotFresh
    <2>3. QED
      BY <1>4, <2>1, <2>2, CancelFrame DEF FreshUntouched, Untouched
  <1>5. ASSUME NEW f \in Feeders, FeedStep(f)
        PROVE  Fresh(p) /\ Untouched(p)'
    <2>1. Fresh(p)
      BY <1>5, FeedFrame DEF Fresh
    <2>2. Untouched(p)
      BY <2>1 DEF FreshUntouched
    <2>3. /\ orders'[p] = orders[p] /\ booked'[p] = booked[p]
          /\ resting'[p] = resting[p] /\ executed'[p] = executed[p]
          /\ feeds'[f].snap[p] = 0 /\ feeds'[f].fills[p] = 0
      BY <1>5, <2>2, FeedFrame DEF Untouched
    <2>4. QED
      BY <1>5, <2>1, <2>2, <2>3, FeedFrame DEF Untouched
  <1>6. CASE UNCHANGED vars
    BY <1>1, <1>6 DEF vars, Fresh
  <1>7. QED
    BY <1>2, <1>3, <1>4, <1>5, <1>6 DEF Next

\* What is not resting, of an order the venue took, does not rest again.
LEMMA RestingStaysZero ==
  ASSUME IInv, [Next]_vars, NEW p \in Orders, ~Fresh(p) \/ p \notin Gtc, resting[p] = 0
  PROVE  resting'[p] = 0
  <1> USE DEF IInv, TypeOK, VenueTypeOK
  <1>1. ASSUME NEW o \in Orders, PipelineStep(o)
        PROVE  resting'[p] = 0
    <2>1. CASE p # o
      BY <1>1, <2>1, PipelineFrame
    <2>2. CASE p = o
      <3>1. CASE RegisterValidated(o) \/ SubmitSend(o) \/ VenueRefuses(o)
                 \/ SubmitReturn(o) \/ BookImmediate(o)
        BY <2>2, <3>1 DEF RegisterValidated, SubmitSend, VenueRefuses,
                          SubmitReturn, BookImmediate
      <3>2. ASSUME NEW q, \/ AdapterAccepts(o, q)
                          \/ \E id \in BOOLEAN : LiveAccepts(o, q, id)
                          \/ LiveAmbiguous(o, q)
            PROVE  resting'[p] = 0
        <4>1. p \notin Gtc
          BY <2>2, <3>2 DEF AdapterAccepts, LiveAccepts, LiveAmbiguous, Fresh
        <4>2. QED
          BY <2>2, <3>2, <4>1
             DEF AdapterAccepts, LiveAccepts, LiveAmbiguous, VenueTakes, venueVars
      <3>3. QED
        BY <1>1, <3>1, <3>2, PipelineCases
    <2>3. QED
      BY <2>1, <2>2
  <1>2. ASSUME NEW o \in Orders, ExchangeStep(o)
        PROVE  resting'[p] = 0
    BY <1>2, ExchangeFrame
  <1>3. ASSUME NEW c \in Cancellers, CancelStep(c)
        PROVE  resting'[p] = 0
    BY <1>3, CancelFrame
  <1>4. ASSUME NEW f \in Feeders, FeedStep(f)
        PROVE  resting'[p] = 0
    <2>1. ASSUME NEW o \in Orders, NEW q \in 1..Quantity, CandidateFilled(f, o, q)
          PROVE  resting'[p] = 0
      BY <2>1, QuantityAssumption DEF CandidateFilled, PaperMatches, FeedRecord
    <2>2. CASE UNCHANGED resting
      BY <2>2
    <2>3. QED
      BY <1>4, <2>1, <2>2
         DEF FeedStep, BookUpdate, CandidateSkipped, ExternalFillRead,
             ExternalFillRefused, ExternalFillStore, BookExternal
  <1>5. CASE UNCHANGED vars
    BY <1>5 DEF vars
  <1>6. QED
    BY <1>1, <1>2, <1>3, <1>4, <1>5 DEF Next

\* What a cancel writes, and what a book update writes.
LEMMA CancelWrites ==
  ASSUME IInv, NEW c \in Cancellers, CancelStep(c), NEW p \in Orders,
         orders'[p] # orders[p]
  PROVE  /\ Cancelling(c, p)
         /\ orders'[p].filled = cancels[c].mine.filled
         /\ \/ orders'[p].state = "CancelRequested"
            \/ /\ orders'[p].state = "Cancelled"
               /\ cancels[c].pc = "answered"
  <1> USE DEF IInv, TypeOK
  <1>1. Cancelling(c, p)
    BY CancelFrame
  <1>2. cancels[c].mine \in OrderRecord /\ cancels[c].mine.state = "CancelRequested"
    BY <1>1 DEF CancelClone, Cancelling, CancelRecord
  <1>3. CASE CancelStore(c)
    BY <1>1, <1>2, <1>3 DEF CancelStore, Store, Cancelling
  <1>4. CASE CancelReturn(c)
    <2>1. /\ Transition(cancels[c].mine, "Cancelled").state = "Cancelled"
          /\ Transition(cancels[c].mine, "Cancelled").filled = cancels[c].mine.filled
      BY <1>2 DEF Transition, CanTransition, IsTerminal, Successors, OrderRecord
    <2>2. QED
      BY <1>1, <1>4, <2>1 DEF CancelReturn, Store, Cancelling
  <1>5. CASE UNCHANGED orders
    BY <1>5
  <1>6. QED
    BY <1>3, <1>4, <1>5
       DEF CancelStep, CancelAll, CancelRead, CancelRefused, PaperCancels,
           LiveCancelUnsent, LiveCancels, LiveCancelFails

LEMMA FeedWrites ==
  ASSUME IInv, NEW f \in Feeders, FeedStep(f), NEW p \in Orders,
         orders'[p] # orders[p]
  PROVE  /\ ~live
         /\ feeds[f].fills[p] > 0
         /\ orders'[p].state \in {"PartiallyFilled", "Filled"}
  <1> USE DEF IInv, TypeOK
  <1>1. ExternalFillStore(f)
    BY DEF FeedStep, BookUpdate, CandidateSkipped, CandidateFilled,
           ExternalFillRead, ExternalFillRefused, BookExternal
  <1>2. feeds[f].order = p
    BY <1>1 DEF ExternalFillStore, Store
  <1>3. QED
    BY <1>1, <1>2 DEF ExternalFillStore, Store, FillClone, LiveUnfed

LEMMA RejectedByAnswerKept ==
  ASSUME IInv, [Next]_vars
  PROVE  RejectedByAnswer'
  <1> USE DEF IInv, TypeOK, RejectedByAnswer
  <1>1. SUFFICES ASSUME NEW p \in Orders, orders'[p].state = "Rejected"
                 PROVE  flow'[p].pc = "done" /\ flow'[p].reply.kind = "rejected"
    BY DEF RejectedByAnswer
  <1>2. CASE UNCHANGED <<orders, flow>>
    BY <1>1, <1>2
  <1>3. ASSUME NEW o \in Orders, PipelineStep(o)
        PROVE  flow'[p].pc = "done" /\ flow'[p].reply.kind = "rejected"
    <2>1. CASE p # o
      BY <1>1, <1>3, <2>1, PipelineFrame
    <2>2. CASE p = o
      <3>1. CASE RegisterValidated(o)
        BY <1>1, <2>2, <3>1
           DEF RegisterValidated, Store, Transition, NewOrder, CanTransition,
               IsTerminal, Successors
      <3>2. CASE SubmitSend(o)
        BY <1>1, <2>2, <3>2 DEF SubmitSend, Store, Transition, OrderRecord
      <3>3. CASE SubmitReturn(o)
        <4>1. orders'[o].state = AfterReply(flow[o].mine, flow[o].reply).state
          BY <3>3 DEF SubmitReturn, Store
        <4>2. flow[o].reply.kind = "rejected"
          BY <1>1, <2>2, <3>3, <4>1, RecordedState
             DEF SubmitReturn, SentClone, FlowRecord
        <4>3. ~FillApplied(flow[o].mine, flow[o].reply)
          BY <4>2 DEF FillApplied
        <4>4. QED
          BY <2>2, <3>3, <4>2, <4>3 DEF SubmitReturn
      <3>4. CASE UNCHANGED orders /\ flow[o].pc \in {"sent", "booking"}
        BY <1>1, <2>2, <3>4
      <3>5. QED
        BY <1>3, <3>1, <3>2, <3>3, <3>4, PipelineCases
           DEF VenueRefuses, AdapterAccepts, LiveAccepts, LiveAmbiguous, BookImmediate
    <2>3. QED
      BY <2>1, <2>2
  <1>4. ASSUME NEW o \in Orders, ExchangeStep(o)
        PROVE  UNCHANGED <<orders, flow>>
    BY <1>4, ExchangeFrame
  <1>5. ASSUME NEW c \in Cancellers, CancelStep(c)
        PROVE  orders'[p] = orders[p] /\ flow' = flow
    BY <1>1, <1>5, CancelWrites, CancelFrame
  <1>6. ASSUME NEW f \in Feeders, FeedStep(f)
        PROVE  orders'[p] = orders[p] /\ flow' = flow
    BY <1>1, <1>6, FeedWrites, FeedFrame
  <1>7. QED
    BY <1>1, <1>2, <1>3, <1>4, <1>5, <1>6 DEF Next, vars

LEMMA SentCloneKept ==
  ASSUME IInv, [Next]_vars
  PROVE  SentClone'
  <1> USE DEF IInv, TypeOK, SentClone
  <1>1. SUFFICES ASSUME NEW p \in Orders
                 PROVE  /\ flow'[p].pc = "sent" => orders'[p].state = "Submitted"
                        /\ flow'[p].pc \in {"sent", "answered"} =>
                             /\ flow'[p].mine.state = "Submitted"
                             /\ flow'[p].mine.filled = 0
                        /\ flow'[p].pc = "answered" => flow'[p].reply.kind # "none"
                        /\ flow'[p].pc = "booking" => flow'[p].reply.kind = "ack"
    BY DEF SentClone
  <1> DEFINE Goal == /\ flow'[p].pc = "sent" => orders'[p].state = "Submitted"
                     /\ flow'[p].pc \in {"sent", "answered"} =>
                          /\ flow'[p].mine.state = "Submitted"
                          /\ flow'[p].mine.filled = 0
                     /\ flow'[p].pc = "answered" => flow'[p].reply.kind # "none"
                     /\ flow'[p].pc = "booking" => flow'[p].reply.kind = "ack"
  <1>2. CASE /\ flow'[p] = flow[p]
             /\ flow[p].pc = "sent" => orders'[p] = orders[p]
    BY <1>1, <1>2
  <1>3. ASSUME NEW o \in Orders, PipelineStep(o)
        PROVE  Goal
    <2>1. CASE p # o
      BY <1>2, <1>3, <2>1, PipelineFrame
    <2>2. CASE p = o
      <3>1. CASE RegisterValidated(o)
        BY <1>1, <2>2, <3>1 DEF RegisterValidated, IdleFlow
      <3>2. CASE SubmitSend(o)
        <4>1. orders[o].filled = 0
          BY <3>2 DEF SubmitSend, FreshUntouched, Fresh, Untouched
        <4>2. /\ Transition(orders[o], "Submitted").state = "Submitted"
              /\ Transition(orders[o], "Submitted").filled = 0
          BY <3>2, <4>1 DEF SubmitSend, Transition, OrderRecord
        <4>3. QED
          BY <1>1, <2>2, <3>2, <4>2 DEF SubmitSend, Store
      <3>3. ASSUME NEW reply, flow[o].pc = "sent", Answer(o, reply),
                   reply.kind # "none"
            PROVE  Goal
        BY <1>1, <2>2, <3>3 DEF Answer
      <3>4. CASE VenueRefuses(o) \/ \E q : LiveAmbiguous(o, q)
        BY <3>3, <3>4 DEF VenueRefuses, LiveAmbiguous, NoReply
      <3>5. CASE \E q : AdapterAccepts(o, q) \/ \E id \in BOOLEAN : LiveAccepts(o, q, id)
        BY <3>3, <3>5 DEF AdapterAccepts, LiveAccepts
      <3>6. CASE SubmitReturn(o)
        BY <1>1, <2>2, <3>6 DEF SubmitReturn, FillApplied
      <3>7. CASE BookImmediate(o)
        BY <1>1, <2>2, <3>7 DEF BookImmediate, FlowRecord
      <3>8. QED
        BY <1>3, <3>1, <3>2, <3>4, <3>5, <3>6, <3>7, PipelineCases
    <2>3. QED
      BY <2>1, <2>2
  <1>4. ASSUME NEW o \in Orders, ExchangeStep(o)
        PROVE  Goal
    BY <1>2, <1>4, ExchangeFrame
  <1>5. ASSUME NEW c \in Cancellers, CancelStep(c)
        PROVE  Goal
    <2>1. flow[p].pc = "sent" => ~Cancelling(c, p)
      BY CancellingNotFresh DEF Fresh
    <2>2. QED
      BY <1>2, <1>5, <2>1, CancelFrame
  <1>6. ASSUME NEW f \in Feeders, FeedStep(f)
        PROVE  Goal
    <2>1. flow[p].pc = "sent" => feeds[f].fills[p] = 0
      BY DEF FreshUntouched, Fresh, Untouched
    <2>2. QED
      BY <1>2, <1>6, <2>1, FeedWrites, FeedFrame
  <1>7. CASE UNCHANGED vars
    BY <1>2, <1>7 DEF vars
  <1>8. QED
    BY <1>3, <1>4, <1>5, <1>6, <1>7 DEF Next

LEMMA CancelCloneKept ==
  ASSUME IInv, [Next]_vars
  PROVE  CancelClone'
  <1> USE DEF IInv, TypeOK
  <1>1. SUFFICES ASSUME NEW d \in Cancellers,
                        cancels'[d].pc \in {"read", "asked", "answered"}
                 PROVE  \E p \in Orders :
                          /\ cancels'[d].order = p
                          /\ ~Fresh(p)'
                          /\ cancels'[d].mine.state = "CancelRequested"
                          /\ ~live' /\ cancels'[d].pc = "answered" => resting'[p] = 0
    BY DEF CancelClone, Cancelling
  <1> DEFINE Goal == \E p \in Orders :
                       /\ cancels'[d].order = p
                       /\ ~Fresh(p)'
                       /\ cancels'[d].mine.state = "CancelRequested"
                       /\ ~live' /\ cancels'[d].pc = "answered" => resting'[p] = 0
  <1>2. live' = live
    BY PipelineFrame, CancelFrame, FeedFrame, ExchangeFrame DEF Next, vars
  <1>3. ASSUME NEW p \in Orders, ~Fresh(p)
        PROVE  ~Fresh(p)'
    BY <1>3, FreshKept
  <1>4. CASE cancels'[d] = cancels[d]
    <2>1. PICK p \in Orders : cancels[d].order = p
      BY <1>1, <1>4 DEF CancelClone
    <2>2. /\ ~Fresh(p) /\ cancels[d].mine.state = "CancelRequested"
          /\ ~live /\ cancels[d].pc = "answered" => resting[p] = 0
      BY <1>1, <1>4, <2>1 DEF CancelClone, Cancelling
    <2>3. QED
      BY <1>2, <1>3, <1>4, <2>1, <2>2, RestingStaysZero
  <1>5. ASSUME CancelStep(d)
        PROVE  Goal
    <2>1. ASSUME NEW o \in Orders, CancelRead(d, o)
          PROVE  Goal
      <3>1. orders[o].state \in {"Acknowledged", "PartiallyFilled"}
        BY <2>1, CancelOnlyWorking DEF CancelRead, OrderRecord
      <3>2. ~Fresh(o)
        BY <3>1 DEF FreshUntouched, Untouched
      <3>3. Transition(orders[o], "CancelRequested").state = "CancelRequested"
        BY <2>1 DEF CancelRead, Transition, OrderRecord
      <3>4. QED
        BY <1>3, <2>1, <3>2, <3>3 DEF CancelRead
    <2>2. CASE CancelAll(d) \/ \E o \in Orders : CancelRefused(d, o)
      BY <1>1, <2>2, NextCancelTyped DEF CancelAll, CancelRefused, IdleCancel
    <2>3. CASE CancelReturn(d)
      BY <1>1, <2>3, NextCancelTyped DEF CancelReturn
    <2>4. ASSUME cancels[d].pc \in {"read", "asked"},
                 cancels'[d].order = cancels[d].order,
                 cancels'[d].mine = cancels[d].mine,
                 cancels'[d].pc = "answered" =>
                   live \/ resting'[cancels[d].order] = 0
          PROVE  Goal
      <3>1. PICK p \in Orders : Cancelling(d, p)
        BY <2>4 DEF CancelClone, Cancelling
      <3>2. ~Fresh(p) /\ cancels[d].mine.state = "CancelRequested"
        BY <2>4, <3>1 DEF CancelClone
      <3>3. QED
        BY <1>2, <1>3, <2>4, <3>1, <3>2 DEF Cancelling
    <2>5. CASE CancelStore(d)
      BY <2>4, <2>5 DEF CancelStore, CancelRecord
    <2>6. CASE PaperCancels(d)
      <3>1. cancels[d].order \in Orders
        BY <2>6 DEF PaperCancels, CancelClone
      <3>2. QED
        BY <2>4, <2>6, <3>1
           DEF PaperCancels, CancelAnswered, VenueRemoves, VenueTypeOK
    <2>7. CASE LiveCancelUnsent(d) \/ LiveCancels(d) \/ LiveCancelFails(d)
      BY <2>4, <2>7 DEF LiveCancelUnsent, LiveCancels, LiveCancelFails, CancelAnswered
    <2>8. QED
      BY <1>5, <2>1, <2>2, <2>3, <2>5, <2>6, <2>7 DEF CancelStep
  <1>6. ASSUME NEW c \in Cancellers, CancelStep(c), c # d
        PROVE  cancels'[d] = cancels[d]
    BY <1>6, CancelFrame
  <1>7. QED
    BY <1>4, <1>5, <1>6, PipelineFrame, FeedFrame, ExchangeFrame DEF Next, vars

LEMMA FillCloneKept ==
  ASSUME IInv, [Next]_vars
  PROVE  FillClone'
  <1> USE DEF IInv, TypeOK, FillClone
  <1>1. SUFFICES ASSUME NEW e \in Feeders, feeds'[e].pc \in {"writing", "booking"}
                 PROVE  /\ feeds'[e].order \in Orders
                        /\ feeds'[e].fills[feeds'[e].order] > 0
                        /\ feeds'[e].mine.state \in {"PartiallyFilled", "Filled"}
    BY DEF FillClone
  <1>2. CASE feeds'[e] = feeds[e]
    BY <1>1, <1>2
  <1>3. ASSUME FeedStep(e)
        PROVE  /\ feeds'[e].order \in Orders
               /\ feeds'[e].fills[feeds'[e].order] > 0
               /\ feeds'[e].mine.state \in {"PartiallyFilled", "Filled"}
    <2>1. ASSUME NEW o \in Orders, ExternalFillRead(e, o)
          PROVE  /\ feeds'[e].order \in Orders
                 /\ feeds'[e].fills[feeds'[e].order] > 0
                 /\ feeds'[e].mine.state \in {"PartiallyFilled", "Filled"}
      <3>1. feeds[e].fills[o] \in Nat
        BY QuantityAssumption DEF FeedRecord
      <3>2. QED
        BY <2>1, <3>1, FillBounded DEF ExternalFillRead
    <2>2. CASE ExternalFillStore(e)
      BY <2>2 DEF ExternalFillStore, FeedRecord
    <2>3. ASSUME NEW snap, NEW fills, feeds' = [feeds EXCEPT ![e] = FeedAt(snap, fills)]
          PROVE  FALSE
      BY <1>1, <2>3 DEF FeedAt
    <2>4. QED
      BY <1>3, <2>1, <2>2, <2>3
         DEF FeedStep, BookUpdate, CandidateSkipped, CandidateFilled,
             ExternalFillRefused, BookExternal
  <1>4. ASSUME NEW f \in Feeders, FeedStep(f), f # e
        PROVE  feeds'[e] = feeds[e]
    BY <1>4, FeedFrame
  <1>5. QED
    BY <1>2, <1>3, <1>4, PipelineFrame, CancelFrame, ExchangeFrame DEF Next, vars

LEMMA CancelledNotRestingKept ==
  ASSUME IInv, [Next]_vars
  PROVE  CancelledNotResting'
  <1> USE DEF IInv, TypeOK
  <1>1. SUFFICES ASSUME NEW p \in Orders, ~live, orders'[p].state = "Cancelled"
                 PROVE  resting'[p] = 0
    <2>1. live' = live
      BY PipelineFrame, CancelFrame, FeedFrame, ExchangeFrame DEF Next, vars
    <2>2. QED
      BY <2>1 DEF CancelledNotResting
  <1>2. CASE orders'[p] = orders[p]
    <2>1. resting[p] = 0 /\ ~Fresh(p)
      BY <1>1, <1>2 DEF CancelledNotResting, FreshUntouched, Untouched
    <2>2. QED
      BY <2>1, RestingStaysZero
  <1>3. ASSUME NEW o \in Orders, PipelineStep(o)
        PROVE  orders'[p] = orders[p]
    <2>1. CASE p # o
      BY <1>3, <2>1, PipelineFrame
    <2>2. CASE p = o
      <3>1. ~RegisterValidated(o) /\ ~SubmitSend(o)
        BY <1>1, <2>2
           DEF RegisterValidated, SubmitSend, Store, Transition, NewOrder,
               CanTransition, IsTerminal, Successors, OrderRecord
      <3>2. ~SubmitReturn(o)
        <4>1. SUFFICES ASSUME SubmitReturn(o) PROVE FALSE
          OBVIOUS
        <4>2. orders'[o].state = AfterReply(flow[o].mine, flow[o].reply).state
          BY <4>1 DEF SubmitReturn, Store
        <4>3. QED
          BY <1>1, <2>2, <4>1, <4>2, RecordedState
             DEF SubmitReturn, SentClone, FlowRecord
      <3>3. QED
        BY <1>3, <2>2, <3>1, <3>2, PipelineCases
           DEF VenueRefuses, AdapterAccepts, LiveAccepts, LiveAmbiguous, BookImmediate
    <2>3. QED
      BY <2>1, <2>2
  <1>4. ASSUME NEW c \in Cancellers, CancelStep(c), orders'[p] # orders[p]
        PROVE  resting'[p] = 0
    <2>1. Cancelling(c, p) /\ cancels[c].pc = "answered"
      BY <1>1, <1>4, CancelWrites
    <2>2. resting[p] = 0 /\ ~Fresh(p)
      BY <1>1, <2>1 DEF CancelClone
    <2>3. QED
      BY <2>2, RestingStaysZero
  <1>5. ASSUME NEW f \in Feeders, FeedStep(f)
        PROVE  orders'[p] = orders[p]
    BY <1>1, <1>5, FeedWrites
  <1>6. QED
    BY <1>2, <1>3, <1>4, <1>5, ExchangeFrame DEF Next, vars

LEMMA LiveUnfedKept ==
  ASSUME IInv, [Next]_vars
  PROVE  LiveUnfed'
  <1> USE DEF IInv, TypeOK
  <1>1. live' = live
    BY PipelineFrame, CancelFrame, FeedFrame, ExchangeFrame DEF Next, vars
  <1>2. ASSUME NEW f \in Feeders, FeedStep(f)
        PROVE  ~live
    BY <1>2 DEF LiveUnfed, FeedStep, BookUpdate, CandidateSkipped, CandidateFilled,
                ExternalFillRead, ExternalFillRefused, ExternalFillStore, BookExternal
  <1>3. QED
    BY <1>1, <1>2, PipelineFrame, CancelFrame, ExchangeFrame DEF LiveUnfed, Next, vars

LEMMA ImmediateNeverRestsKept ==
  ASSUME IInv, [Next]_vars
  PROVE  ImmediateNeverRests'
  <1> USE DEF IInv, TypeOK
  <1>1. SUFFICES ASSUME NEW p \in Orders \ Gtc
                 PROVE  /\ resting'[p] = 0
                        /\ \A e \in Feeders : feeds'[e].snap[p] = 0 /\ feeds'[e].fills[p] = 0
    BY DEF ImmediateNeverRests
  <1>2. /\ resting[p] = 0
        /\ \A e \in Feeders : feeds[e].snap[p] = 0 /\ feeds[e].fills[p] = 0
    BY DEF ImmediateNeverRests
  <1>3. resting'[p] = 0
    BY <1>2, RestingStaysZero
  <1>4. ASSUME NEW f \in Feeders, FeedStep(f), NEW e \in Feeders
        PROVE  feeds'[e].snap[p] = 0 /\ feeds'[e].fills[p] = 0
    BY <1>2, <1>4, FeedFrame
  <1>5. QED
    BY <1>2, <1>3, <1>4, PipelineFrame, CancelFrame, ExchangeFrame DEF Next, vars

\* An order out of the reach of book updates is written by its pipeline and
\* by the cancels that hold a clone of it, and by nothing else.
LEMMA OutOfReachWrites ==
  ASSUME IInv, NEW f \in Feeders, FeedStep(f), NEW p \in Orders, OutOfReach(p)
  PROVE  /\ orders'[p] = orders[p] /\ booked'[p] = booked[p]
         /\ executed'[p] = executed[p]
  <1> USE DEF IInv, TypeOK
  <1>1. ~live
    BY DEF LiveUnfed, FeedStep, BookUpdate, CandidateSkipped, CandidateFilled,
           ExternalFillRead, ExternalFillRefused, ExternalFillStore, BookExternal
  <1>2. feeds[f].snap[p] = 0 /\ feeds[f].fills[p] = 0
    BY <1>1 DEF OutOfReach, ImmediateNeverRests
  <1>3. QED
    BY <1>2, FeedFrame

\* A cancel's clone is taken by CancelRead and kept until the cancel is over.
LEMMA CancelClones ==
  ASSUME TypeOK, NEW c \in Cancellers, CancelStep(c), NEW p \in Orders, Cancelling(c, p)'
  PROVE  \/ CancelRead(c, p)
         \/ Cancelling(c, p) /\ cancels'[c].mine = cancels[c].mine
  <1> USE DEF TypeOK, Cancelling
  <1>1. CASE CancelAll(c)
    BY <1>1 DEF CancelAll, IdleCancel
  <1>2. ASSUME NEW o \in Orders, CancelRead(c, o)
        PROVE  CancelRead(c, p)
    <2>1. o = p
      BY <1>2 DEF CancelRead
    <2>2. QED
      BY <1>2, <2>1
  <1>3. ASSUME NEW o, cancels' = [cancels EXCEPT ![c] = NextCancel(c, o)]
        PROVE  FALSE
    BY <1>3, NextCancelTyped
  <1>4. CASE (\E o \in Orders : CancelRefused(c, o)) \/ CancelReturn(c)
    BY <1>3, <1>4 DEF CancelRefused, CancelReturn
  <1>5. CASE CancelStore(c)
    BY <1>5 DEF CancelStore, CancelRecord
  <1>6. ASSUME NEW reply, CancelAnswered(c, reply), cancels[c].pc = "asked"
        PROVE  Cancelling(c, p) /\ cancels'[c].mine = cancels[c].mine
    BY <1>6 DEF CancelAnswered, CancelRecord
  <1>7. CASE PaperCancels(c) \/ LiveCancelUnsent(c) \/ LiveCancels(c) \/ LiveCancelFails(c)
    BY <1>6, <1>7 DEF PaperCancels, LiveCancelUnsent, LiveCancels, LiveCancelFails
  <1>8. QED
    BY <1>1, <1>2, <1>4, <1>5, <1>7 DEF CancelStep

LEMMA UnsharedUntilRecordedKept ==
  ASSUME IInv, [Next]_vars
  PROVE  UnsharedUntilRecorded'
  <1> USE DEF IInv, TypeOK
  <1>1. live' = live
    BY PipelineFrame, CancelFrame, FeedFrame, ExchangeFrame DEF Next, vars
  <1>2. SUFFICES ASSUME NEW p \in Orders, OutOfReach(p)
                 PROVE  /\ flow'[p].pc = "answered" => orders'[p].state = "Submitted"
                        /\ orders'[p].state = "Unknown" => flow'[p].pc = "done"
                        /\ \A d \in Cancellers : Cancelling(d, p)' =>
                             /\ flow'[p].pc \in {"booking", "done"}
                             /\ orders'[p].state # "Unknown"
    BY <1>1 DEF UnsharedUntilRecorded, OutOfReach
  <1> DEFINE Goal == /\ flow'[p].pc = "answered" => orders'[p].state = "Submitted"
                     /\ orders'[p].state = "Unknown" => flow'[p].pc = "done"
                     /\ \A d \in Cancellers : Cancelling(d, p)' =>
                          /\ flow'[p].pc \in {"booking", "done"}
                          /\ orders'[p].state # "Unknown"
  <1>3. /\ flow[p].pc = "answered" => orders[p].state = "Submitted"
        /\ orders[p].state = "Unknown" => flow[p].pc = "done"
        /\ \A d \in Cancellers : Cancelling(d, p) =>
             flow[p].pc \in {"booking", "done"} /\ orders[p].state # "Unknown"
    BY <1>2 DEF UnsharedUntilRecorded
  <1>4. CASE flow'[p] = flow[p] /\ orders'[p] = orders[p] /\ cancels' = cancels
    BY <1>3, <1>4 DEF Cancelling
  <1>5. ASSUME NEW o \in Orders, PipelineStep(o)
        PROVE  Goal
    <2>1. CASE p # o
      BY <1>4, <1>5, <2>1, PipelineFrame
    <2>2. CASE p = o
      <3>1. \A d \in Cancellers : Cancelling(d, p)' <=> Cancelling(d, p)
        BY <1>5, PipelineFrame DEF Cancelling
      <3>2. CASE RegisterValidated(o)
        BY <1>3, <2>2, <3>1, <3>2
           DEF RegisterValidated, Store, Transition, NewOrder, CanTransition,
               IsTerminal, Successors, IdleFlow
      <3>3. CASE SubmitSend(o)
        BY <1>3, <2>2, <3>1, <3>3 DEF SubmitSend, Store, Transition, OrderRecord
      <3>4. CASE \/ VenueRefuses(o)
                 \/ \E q : \/ AdapterAccepts(o, q) \/ LiveAmbiguous(o, q)
                           \/ \E id \in BOOLEAN : LiveAccepts(o, q, id)
        <4>1. flow[o].pc = "sent" /\ flow'[o].pc = "answered" /\ orders' = orders
          BY <3>4 DEF VenueRefuses, AdapterAccepts, LiveAmbiguous, LiveAccepts, Answer
        <4>2. QED
          BY <1>3, <2>2, <3>1, <4>1 DEF SentClone
      <3>5. CASE SubmitReturn(o)
        <4>1. orders'[o].state = AfterReply(flow[o].mine, flow[o].reply).state
          BY <3>5 DEF SubmitReturn, Store
        <4>2. FillApplied(flow[o].mine, flow[o].reply) => orders'[o].state # "Unknown"
          BY <3>5, <4>1, RecordedState DEF SubmitReturn, SentClone, FlowRecord
        <4>3. flow[o].pc = "answered"
          BY <3>5 DEF SubmitReturn
        <4>4. QED
          BY <1>3, <2>2, <3>1, <3>5, <4>2, <4>3 DEF SubmitReturn
      <3>6. CASE BookImmediate(o)
        BY <1>3, <2>2, <3>1, <3>6 DEF BookImmediate, FlowRecord
      <3>7. QED
        BY <1>5, <3>2, <3>3, <3>4, <3>5, <3>6, PipelineCases
    <2>3. QED
      BY <2>1, <2>2
  <1>6. ASSUME NEW c \in Cancellers, CancelStep(c)
        PROVE  Goal
    <2>1. flow' = flow /\ \A d \in Cancellers : d # c => cancels'[d] = cancels[d]
      BY <1>6, CancelFrame
    <2>2. /\ flow'[p].pc = "answered" => orders'[p].state = "Submitted"
          /\ orders'[p].state = "Unknown" =>
               flow'[p].pc = "done" /\ orders[p].state = "Unknown"
      BY <1>3, <1>6, <2>1, CancelWrites
    <2>3. ASSUME NEW d \in Cancellers, Cancelling(d, p)', ~Cancelling(d, p)
          PROVE  flow[p].pc \in {"booking", "done"} /\ orders[p].state # "Unknown"
      <3>1. d = c
        BY <2>1, <2>3 DEF Cancelling
      <3>2. CancelRead(c, p)
        BY <1>6, <2>3, <3>1, CancelClones
      <3>3. orders[p].state \in {"Acknowledged", "PartiallyFilled"}
        BY <3>2, CancelOnlyWorking DEF CancelRead, OrderRecord
      <3>4. ~Fresh(p)
        BY <3>3 DEF FreshUntouched, Untouched
      <3>5. QED
        BY <1>3, <3>3, <3>4 DEF Fresh, FlowRecord
    <2>4. QED
      BY <1>3, <2>1, <2>2, <2>3
  <1>7. ASSUME NEW f \in Feeders, FeedStep(f)
        PROVE  Goal
    BY <1>2, <1>4, <1>7, FeedFrame, OutOfReachWrites
  <1>8. QED
    BY <1>4, <1>5, <1>6, <1>7, ExchangeFrame DEF Next, vars

\* The books of an IOC order through a step of its own pipeline task.
LEMMA LedgerPipeline ==
  ASSUME IInv, ~live, NEW o \in Orders \ Gtc, PipelineStep(o)
  PROVE  Ledger(o)'
  <1> USE DEF IInv, TypeOK, VenueTypeOK
  <1>1. Ledger(o)
    BY DEF ImmediateLedger
  <1>2. cancels' = cancels
    BY PipelineFrame
  <1>3. ASSUME flow[o].pc \notin {"booking", "done"}, NEW c \in Cancellers
        PROVE  ~Cancelling(c, o) /\ ~Cancelling(c, o)'
    BY <1>2, <1>3 DEF UnsharedUntilRecorded, OutOfReach, Cancelling
  <1>4. CASE RegisterValidated(o)
    <2>1. flow[o].pc = "start" /\ flow'[o].pc = "registered"
      BY <1>4 DEF RegisterValidated, IdleFlow
    <2>2. QED
      BY <1>3, <2>1 DEF Ledger
  <1>5. CASE SubmitSend(o)
    <2>1. flow[o].pc = "registered" /\ flow'[o].pc = "sent"
      BY <1>5 DEF SubmitSend
    <2>2. QED
      BY <1>3, <2>1 DEF Ledger
  <1>6. CASE VenueRefuses(o)
    <2>1. /\ flow[o].pc = "sent" /\ flow'[o].pc = "answered"
          /\ flow'[o].reply.kind = "rejected"
      BY <1>6 DEF VenueRefuses, Answer, NoReply
    <2>2. booked'[o] = 0
      BY <1>6, <2>1 DEF VenueRefuses, FreshUntouched, Fresh, Untouched
    <2>3. QED
      BY <1>3, <2>1, <2>2 DEF Ledger
  <1>7. ASSUME NEW q \in 0..MaxReport, AdapterAccepts(o, q)
        PROVE  Ledger(o)'
    <2>1. /\ flow[o].pc = "sent" /\ flow'[o].pc = "answered"
          /\ flow'[o].reply.kind = "ack" /\ flow'[o].reply.fill = q
      BY <1>7 DEF AdapterAccepts, Answer
    <2>2. booked'[o] = 0 /\ executed[o] = 0
      BY <1>7, <2>1 DEF AdapterAccepts, FreshUntouched, Fresh, Untouched
    <2>3. q > 0 /\ executed'[o] = q
      BY <1>7, <2>2, MaxReportAssumption DEF AdapterAccepts, VenueTakes
    <2>4. QED
      BY <1>3, <2>1, <2>2, <2>3 DEF Ledger
  <1>8. CASE SubmitReturn(o)
    <2> DEFINE mine  == flow[o].mine
               reply == flow[o].reply
    <2>1. /\ flow[o].pc = "answered"
          /\ flow'[o].pc = IF FillApplied(mine, reply) THEN "booking" ELSE "done"
          /\ flow'[o].reply = reply
          /\ orders'[o] = AfterReply(mine, reply)
          /\ booked' = booked /\ executed' = executed
      BY <1>8 DEF SubmitReturn, Store
    <2>2. /\ reply.kind \in {"ack", "rejected"} /\ booked[o] = 0
          /\ reply.kind = "ack" => reply.fill > 0 /\ reply.fill = executed[o]
      BY <1>1, <2>1 DEF Ledger
    <2>3. reply.kind = "ack" /\ orders'[o].state # "Unknown" =>
            FillApplied(mine, reply) /\ orders'[o].filled = reply.fill
      BY <2>1, <2>2, RecordedState DEF SentClone, FlowRecord
    <2>4. ASSUME NEW c \in Cancellers
          PROVE  ~Cancelling(c, o)'
      BY <1>3, <2>1
    <2>5. flow'[o].pc # "answered"
      BY <2>1
    <2> HIDE DEF mine, reply
    <2>6. QED
      BY <2>1, <2>2, <2>3, <2>4, <2>5 DEF Ledger
  <1>9. CASE BookImmediate(o)
    <2>1. /\ flow[o].pc = "booking" /\ flow'[o].pc = "done"
          /\ flow'[o].reply = flow[o].reply
          /\ booked'[o] = booked[o] + flow[o].reply.fill
          /\ orders' = orders /\ executed' = executed
      BY <1>9 DEF BookImmediate, FlowRecord
    <2>2. flow[o].reply.kind = "ack" /\ orders[o].state # "Unknown"
      BY <2>1 DEF SentClone, UnsharedUntilRecorded, OutOfReach
    <2>3. /\ orders[o].filled = executed[o]
          /\ flow[o].reply.fill = executed[o]
          /\ booked[o] = 0
      BY <1>1, <2>1, <2>2 DEF Ledger
    <2>4. booked'[o] = executed[o]
      BY <2>1, <2>3
    <2>5. QED
      BY <1>1, <1>2, <2>1, <2>2, <2>3, <2>4 DEF Ledger, Cancelling
  <1>10. QED
    BY <1>4, <1>5, <1>6, <1>7, <1>8, <1>9,
       PipelineCases DEF LiveAccepts, LiveAmbiguous

LEMMA ImmediateLedgerKept ==
  ASSUME IInv, [Next]_vars
  PROVE  ImmediateLedger'
  <1> USE DEF IInv, TypeOK
  <1>1. live' = live
    BY PipelineFrame, CancelFrame, FeedFrame, ExchangeFrame DEF Next, vars
  <1>2. SUFFICES ASSUME NEW p \in Orders \ Gtc, ~live
                 PROVE  Ledger(p)'
    BY <1>1 DEF ImmediateLedger
  <1>3. Ledger(p)
    BY <1>2 DEF ImmediateLedger
  <1>4. CASE /\ flow'[p] = flow[p] /\ orders'[p] = orders[p] /\ cancels' = cancels
             /\ booked'[p] = booked[p] /\ executed'[p] = executed[p]
    BY <1>3, <1>4 DEF Ledger, Cancelling
  <1>5. ASSUME NEW o \in Orders, PipelineStep(o)
        PROVE  Ledger(p)'
    <2>1. CASE p # o
      BY <1>4, <1>5, <2>1, PipelineFrame
    <2>2. CASE p = o
      BY <1>2, <1>5, <2>2, LedgerPipeline
    <2>3. QED
      BY <2>1, <2>2
  <1>6. ASSUME NEW c \in Cancellers, CancelStep(c)
        PROVE  Ledger(p)'
    <2>1. /\ flow' = flow /\ booked' = booked /\ executed' = executed
          /\ \A d \in Cancellers : d # c => cancels'[d] = cancels[d]
      BY <1>6, CancelFrame
    <2>2. ASSUME NEW d \in Cancellers, Cancelling(d, p)
          PROVE  /\ flow[p].pc \in {"booking", "done"}
                 /\ orders[p].state # "Unknown"
                 /\ cancels[d].mine.filled = executed[p]
                 /\ flow[p].reply.kind = "ack"
      <3>1. ~Fresh(p)
        BY <2>2, CancellingNotFresh
      <3>2. QED
        BY <1>3, <2>2, <3>1 DEF UnsharedUntilRecorded, OutOfReach, Ledger, Fresh
    <2>3. /\ orders'[p].state # "Unknown" /\ flow[p].reply.kind = "ack"
             /\ flow[p].pc \in {"booking", "done"} => orders'[p].filled = executed[p]
      <3>1. CASE orders'[p] = orders[p]
        BY <1>3, <3>1 DEF Ledger
      <3>2. CASE orders'[p] # orders[p]
        BY <1>6, <2>2, <3>2, CancelWrites
      <3>3. QED
        BY <3>1, <3>2
    <2>4. ASSUME orders[p].state = "Unknown"
          PROVE  orders'[p] = orders[p]
      BY <1>6, <2>2, <2>4, CancelWrites
    <2>5. ASSUME NEW d \in Cancellers, Cancelling(d, p)'
          PROVE  cancels'[d].mine.filled = executed[p]
      <3>1. CASE d # c
        BY <2>1, <2>2, <2>5, <3>1 DEF Cancelling
      <3>2. CASE d = c /\ Cancelling(c, p) /\ cancels'[c].mine = cancels[c].mine
        BY <2>2, <3>2
      <3>3. CASE d = c /\ CancelRead(c, p)
        <4>1. orders[p].state \in {"Acknowledged", "PartiallyFilled"}
          BY <3>3, CancelOnlyWorking DEF CancelRead, OrderRecord
        <4>2. ~Fresh(p)
          BY <4>1 DEF FreshUntouched, Untouched
        <4>3. flow[p].pc \in {"booking", "done"} /\ flow[p].reply.kind = "ack"
          BY <1>3, <4>1, <4>2
             DEF UnsharedUntilRecorded, OutOfReach, Ledger, Fresh, FlowRecord
        <4>4. orders[p].filled = executed[p]
          BY <1>3, <4>1, <4>3 DEF Ledger
        <4>5. Transition(orders[p], "CancelRequested").filled = orders[p].filled
          BY DEF Transition, OrderRecord
        <4>6. QED
          BY <3>3, <4>4, <4>5 DEF CancelRead
      <3>4. QED
        BY <1>6, <2>5, <3>1, <3>2, <3>3, CancelClones
    <2>6. QED
      BY <1>3, <2>1, <2>3, <2>4, <2>5 DEF Ledger
  <1>7. ASSUME NEW f \in Feeders, FeedStep(f)
        PROVE  Ledger(p)'
    BY <1>2, <1>4, <1>7, FeedFrame, OutOfReachWrites DEF OutOfReach
  <1>8. QED
    BY <1>2, <1>4, <1>5, <1>6, <1>7, ExchangeFrame DEF Next, vars

\* The invariant is kept by every step, whatever task takes it.
LEMMA InvariantInit ==
  ASSUME Init
  PROVE  IInv
  <1>1. TypeOK
    BY InitTyped
  <1>2. QED
    BY <1>1
       DEF Init, VenueInit, IInv, FreshUntouched, Fresh, Untouched, RejectedByAnswer,
           SentClone, CancelClone, Cancelling, FillClone, CancelledNotResting,
           LiveUnfed, ImmediateNeverRests, UnsharedUntilRecorded, ImmediateLedger,
           Ledger, IdleFlow, IdleCancel, IdleFeed, Nothing, Unregistered

LEMMA InvariantNext ==
  ASSUME IInv, [Next]_vars
  PROVE  IInv'
  <1>1. TypeOK'
    BY NextTyped DEF IInv
  <1>2. FreshUntouched'
    BY FreshKept DEF FreshUntouched
  <1>3. QED
    BY <1>1, <1>2, RejectedByAnswerKept, SentCloneKept, CancelCloneKept,
       FillCloneKept, CancelledNotRestingKept, LiveUnfedKept,
       ImmediateNeverRestsKept, UnsharedUntilRecordedKept, ImmediateLedgerKept
       DEF IInv

LEMMA Invariant == Spec => []IInv
  BY InvariantInit, InvariantNext, PTL DEF Spec

-----------------------------------------------------------------------------
(***************************************************************************)
(* An order recorded as Rejected was never executed and does not rest at   *)
(* the venue: submit records Rejected only for an answer that says the     *)
(* venue has nothing, and no other task can record it (submit, cancel,     *)
(* apply_external_fill).                                                   *)
(***************************************************************************)
THEOREM RejectedIsSafe == Spec => []RejectedNeverTraded
  <1>1. IInv => RejectedNeverTraded
    BY DEF IInv, RejectedByAnswer, FreshUntouched, Fresh, Untouched, RejectedNeverTraded
  <1>2. QED
    BY <1>1, Invariant, PTL

(***************************************************************************)
(* On the paper adapter an order recorded as Cancelled is not in the book, *)
(* so that no later book update can pick it up, however many cancel_all    *)
(* callers and book feeds race (cancel in the manager and the adapter).    *)
(***************************************************************************)
THEOREM CancelledIsGone == Spec => []CancelledNotResting
  <1>1. IInv => CancelledNotResting
    BY DEF IInv
  <1>2. QED
    BY <1>1, Invariant, PTL

(***************************************************************************)
(* For the IOC orders the pipeline submits, the manager, the paper venue   *)
(* and the portfolio agree once the pipeline task is done, whatever        *)
(* cancel_all callers do meanwhile (submit, cancel_all, on_source_trade).  *)
(***************************************************************************)
THEOREM ImmediateIsConserved == Spec => []ImmediateConservation
  <1>1. ASSUME IInv, ~live, NEW o \in Orders \ Gtc, Settled(o)
        PROVE  orders[o].filled = executed[o] /\ booked[o] = executed[o]
    <2>1. CASE flow[o].reply.kind = "ack"
      BY <1>1, <2>1 DEF IInv, ImmediateLedger, Ledger, Settled
    <2>2. CASE flow[o].reply.kind = "rejected"
      BY <1>1, <2>2 DEF IInv, FreshUntouched, Fresh, Untouched
    <2>3. QED
      BY <1>1, <2>1, <2>2 DEF IInv, ImmediateLedger, Ledger, Settled
  <1>2. IInv => ImmediateConservation
    BY <1>1 DEF ImmediateConservation
  <1>3. QED
    BY <1>2, Invariant, PTL

(***************************************************************************)
(* Under the live adapter an order that became Unknown stays Unknown: no   *)
(* cancel_all can turn the doubt into a definite outcome (submit, cancel). *)
(***************************************************************************)
THEOREM DoubtIsKept == Spec => UnknownKept
  <1>1. ASSUME IInv, [Next]_vars, live, NEW p \in Orders, orders[p].state = "Unknown"
        PROVE  orders'[p].state = "Unknown"
    <2> USE <1>1 DEF IInv, TypeOK
    <2>1. /\ flow[p].pc = "done"
          /\ \A c \in Cancellers : ~Cancelling(c, p)
      BY DEF UnsharedUntilRecorded, OutOfReach
    <2>2. ASSUME NEW o \in Orders, PipelineStep(o)
          PROVE  orders'[p] = orders[p]
      <3>1. p # o
        BY <2>1, <2>2, PipelineCases
           DEF RegisterValidated, SubmitSend, VenueRefuses, AdapterAccepts,
               LiveAccepts, LiveAmbiguous, SubmitReturn, BookImmediate
      <3>2. QED
        BY <2>2, <3>1, PipelineFrame
    <2>3. ASSUME NEW c \in Cancellers, CancelStep(c)
          PROVE  orders'[p] = orders[p]
      BY <2>1, <2>3, CancelFrame
    <2>4. ASSUME NEW f \in Feeders, FeedStep(f)
          PROVE  orders'[p] = orders[p]
      BY <2>4, FeedWrites
    <2>5. QED
      BY <2>2, <2>3, <2>4, ExchangeFrame DEF Next, vars
  <1>2. IInv /\ [Next]_vars =>
          [live => \A o \in Orders :
             orders[o].state = "Unknown" => orders'[o].state = "Unknown"]_vars
    BY <1>1
  <1>3. QED
    BY <1>2, Invariant, PTL DEF Spec, UnknownKept

-----------------------------------------------------------------------------
(***************************************************************************)
(* The executions.  What the venue has executed of an order is on its way  *)
(* to the manager and to the portfolio in two kinds of hands: the answer   *)
(* submit holds, and the fills each book update holds.                     *)
(***************************************************************************)

\* The fills of an order in the hands of each book update, and those of them
\* that are in no clone of the order yet.
InHand(o) == [f \in Feeders |-> feeds[f].fills[o]]

NotRead(o) ==
  [f \in Feeders |->
     IF feeds[f].pc \in {"writing", "booking"} /\ feeds[f].order = o
       THEN 0 ELSE feeds[f].fills[o]]

\* The fill submit holds, while its task is at one of pcs.
Reported(o, pcs) == IF flow[o].pc \in pcs THEN flow[o].reply.fill ELSE 0

Unread(o) == SumFunctionOnSet(NotRead(o), Feeders) + Reported(o, {"answered"})

Unbooked(o) ==
  SumFunctionOnSet(InHand(o), Feeders) + Reported(o, {"answered", "booking"})

\* A clone that records `filled' is right even if it took every unread fill.
Covered(o, filled) == filled + Unread(o) <= executed[o]

\* The map, and every clone that may yet be written over it, is covered, and
\* so is the portfolio if every fill that is under way is booked.
Writing(f, o) == feeds[f].pc = "writing" /\ feeds[f].order = o

Accounted(o) ==
  /\ Covered(o, orders[o].filled)
  /\ \A c \in Cancellers : Cancelling(c, o) => Covered(o, cancels[c].mine.filled)
  /\ \A f \in Feeders : Writing(f, o) => Covered(o, feeds[f].mine.filled)
  /\ booked[o] + Unbooked(o) <= executed[o]

Executions == \A o \in Orders : Accounted(o)

LEMMA UnderWayTyped ==
  ASSUME TypeOK, NEW o \in Orders
  PROVE  /\ \A f \in Feeders : InHand(o)[f] \in Nat /\ NotRead(o)[f] \in Nat
         /\ SumFunctionOnSet(InHand(o), Feeders) \in Nat
         /\ SumFunctionOnSet(NotRead(o), Feeders) \in Nat
         /\ \A pcs : Reported(o, pcs) \in Nat
         /\ Unread(o) \in Nat /\ Unbooked(o) \in Nat
         /\ executed[o] \in Nat /\ booked[o] \in Nat /\ orders[o].filled \in Nat
         /\ \A c \in Cancellers : cancels[c].mine.filled \in Nat
         /\ \A f \in Feeders : feeds[f].mine.filled \in Nat
  <1>1. \A f \in Feeders : /\ feeds[f].fills \in [Orders -> 0..Quantity]
                           /\ feeds[f].mine \in OrderRecord
    BY DEF TypeOK, FeedRecord
  <1>2. \A x \in 0..Quantity : x \in Nat
    BY QuantityAssumption
  <1>3. \A f \in Feeders : InHand(o)[f] \in Nat /\ NotRead(o)[f] \in Nat
    BY <1>1, <1>2 DEF InHand, NotRead
  <1>4. /\ SumFunctionOnSet(InHand(o), Feeders) \in Nat
        /\ SumFunctionOnSet(NotRead(o), Feeders) \in Nat
    BY <1>3, FeedersAssumption, SumNonNegative
  <1>5. \A pcs : Reported(o, pcs) \in Nat
    <2>1. flow[o].reply.fill \in Nat
      BY MaxReportAssumption DEF TypeOK, FlowRecord, Reply
    <2>2. QED
      BY <2>1 DEF Reported
  <1>6. \A order \in OrderRecord : order.filled \in Nat
    BY <1>2 DEF OrderRecord
  <1>7. /\ orders[o] \in OrderRecord
        /\ \A c \in Cancellers : cancels[c].mine \in OrderRecord
    BY DEF TypeOK, CancelRecord
  <1>8. executed[o] \in Nat /\ booked[o] \in Nat
    BY DEF TypeOK, VenueTypeOK
  <1>9. Unread(o) \in Nat /\ Unbooked(o) \in Nat
    BY <1>4, <1>5 DEF Unread, Unbooked
  <1>10. QED
    BY <1>1, <1>3, <1>4, <1>5, <1>6, <1>7, <1>8, <1>9

\* How a step of a pipeline task changes what its order has under way: an
\* execution is reported at once, and a report recorded and booked once.
Reports(o, d) ==
  /\ executed'[o] = executed[o] + d
  /\ Reported(o, {"answered"})' <= Reported(o, {"answered"}) + d
  /\ orders'[o].filled + Reported(o, {"answered"})'
       <= orders[o].filled + Reported(o, {"answered"}) + d
  /\ booked'[o] + Reported(o, {"answered", "booking"})'
       <= booked[o] + Reported(o, {"answered", "booking"}) + d

LEMMA PipelineReports ==
  ASSUME IInv, NEW o \in Orders, PipelineStep(o)
  PROVE  \E d \in Nat : Reports(o, d)
  <1> USE DEF IInv, TypeOK, VenueTypeOK
  <1>1. /\ orders[o].filled \in Nat /\ booked[o] \in Nat /\ executed[o] \in Nat
        /\ flow[o] \in FlowRecord /\ flow[o].reply \in Reply
        /\ flow[o].mine \in OrderRecord /\ flow[o].reply.fill \in Nat
    BY UnderWayTyped, MaxReportAssumption DEF FlowRecord, Reply
  <1>2. CASE RegisterValidated(o)
    <2>1. /\ flow[o].pc = "start" /\ flow'[o].pc = "registered"
          /\ executed'[o] = executed[o] /\ booked'[o] = booked[o]
      BY <1>2 DEF RegisterValidated, IdleFlow
    <2>2. orders'[o].filled = 0
      BY <1>2 DEF RegisterValidated, Store, Transition, NewOrder, CanTransition,
         IsTerminal, Successors
    <2>3. QED
      BY <1>1, <2>1, <2>2 DEF Reported, Reports
  <1>3. CASE SubmitSend(o)
    <2>1. /\ flow[o].pc = "registered" /\ flow'[o].pc = "sent"
          /\ executed'[o] = executed[o] /\ booked'[o] = booked[o]
      BY <1>3 DEF SubmitSend
    <2>2. orders'[o].filled = orders[o].filled
      BY <1>3, TransitionKeeps DEF SubmitSend, Store, States
    <2>3. QED
      BY <1>1, <2>1, <2>2 DEF Reported, Reports
  <1>4. ASSUME NEW q \in Nat, executed'[o] = executed[o] + q, flow[o].pc = "sent",
               NEW reply, Answer(o, reply), reply.fill \in {0, q},
               orders' = orders, booked' = booked
        PROVE  Reports(o, q)
    <2>1. flow'[o].pc = "answered" /\ flow'[o].reply.fill = reply.fill
      BY <1>4 DEF Answer
    <2>2. QED
      BY <1>1, <1>4, <2>1 DEF Reported, Reports
  <1>5. CASE VenueRefuses(o)
    <2> DEFINE reply == [NoReply EXCEPT !.kind = "rejected"]
    <2>1. reply.fill = 0
      BY DEF NoReply
    <2>2. /\ flow[o].pc = "sent" /\ Answer(o, reply)
          /\ orders' = orders /\ booked' = booked /\ executed'[o] = executed[o] + 0
      BY <1>1, <1>5 DEF VenueRefuses
    <2> HIDE DEF reply
    <2>3. Reports(o, 0)
      BY <1>4, <2>1, <2>2
    <2>4. QED
      BY <2>3
  <1>6. ASSUME NEW q \in 0..MaxReport, AdapterAccepts(o, q)
        PROVE  Reports(o, q)
    <2>1. q \in Nat /\ executed'[o] = executed[o] + q
      BY <1>6, MaxReportAssumption DEF AdapterAccepts, VenueTakes
    <2>2. QED
      BY <1>4, <1>6, <2>1 DEF AdapterAccepts
  <1>7. ASSUME NEW q \in 0..Quantity, NEW id \in BOOLEAN, LiveAccepts(o, q, id)
        PROVE  Reports(o, q)
    <2>1. q \in Nat /\ executed'[o] = executed[o] + q
      BY <1>7, QuantityAssumption DEF LiveAccepts, VenueTakes
    <2>2. QED
      BY <1>4, <1>7, <2>1 DEF LiveAccepts
  <1>8. ASSUME NEW q \in 0..Quantity, LiveAmbiguous(o, q)
        PROVE  Reports(o, q) \/ Reports(o, 0)
    <2>1. q \in Nat /\ (executed'[o] = executed[o] + q \/ executed'[o] = executed[o] + 0)
      BY <1>1, <1>8, QuantityAssumption DEF LiveAmbiguous, VenueTakes, venueVars
    <2> DEFINE reply == [NoReply EXCEPT !.kind = "ambiguous"]
    <2>2. reply.fill = 0
      BY DEF NoReply
    <2>3. /\ flow[o].pc = "sent" /\ Answer(o, reply)
          /\ orders' = orders /\ booked' = booked
      BY <1>8 DEF LiveAmbiguous
    <2> HIDE DEF reply
    <2>4. QED
      BY <1>4, <2>1, <2>2, <2>3
  <1>9. CASE SubmitReturn(o)
    <2>1. /\ flow[o].pc = "answered" /\ flow'[o].pc \in {"booking", "done"}
          /\ flow'[o].reply = flow[o].reply
          /\ executed'[o] = executed[o] /\ booked'[o] = booked[o]
      BY <1>9 DEF SubmitReturn
    <2>2. orders'[o].filled \in {0, flow[o].reply.fill}
      BY <1>1, <1>9, <2>1, RecordedState DEF SubmitReturn, Store, SentClone
    <2>3. Reports(o, 0)
      BY <1>1, <2>1, <2>2 DEF Reported, Reports
    <2>4. QED
      BY <2>3
  <1>10. CASE BookImmediate(o)
    <2>1. /\ flow[o].pc = "booking" /\ flow'[o].pc = "done"
          /\ executed'[o] = executed[o] /\ orders'[o] = orders[o]
          /\ booked'[o] = booked[o] + flow[o].reply.fill
      BY <1>1, <1>10 DEF BookImmediate
    <2>2. Reports(o, 0)
      BY <1>1, <2>1 DEF Reported, Reports
    <2>3. QED
      BY <2>2
  <1>11. \A q \in 0..Quantity : q \in Nat
    BY QuantityAssumption
  <1>12. \A q \in 0..MaxReport : q \in Nat
    BY MaxReportAssumption
  <1>13. QED
    BY <1>2, <1>3, <1>5, <1>6, <1>7, <1>8, <1>9, <1>10, <1>11, <1>12, PipelineCases

LEMMA PipelineAccounts ==
  ASSUME IInv, IInv', Executions, NEW o \in Orders, PipelineStep(o)
  PROVE  Executions'
  <1> USE DEF IInv
  <1>1. /\ cancels' = cancels /\ feeds' = feeds
        /\ \A p \in Orders : p # o =>
             /\ flow'[p] = flow[p] /\ orders'[p] = orders[p]
             /\ booked'[p] = booked[p] /\ executed'[p] = executed[p]
    BY PipelineFrame
  <1>2. \A p \in Orders : InHand(p)' = InHand(p) /\ NotRead(p)' = NotRead(p)
    BY <1>1 DEF InHand, NotRead
  <1>3. SUFFICES ASSUME NEW p \in Orders PROVE Accounted(p)'
    BY DEF Executions
  <1>4. Accounted(p)
    BY DEF Executions
  <1>5. CASE p # o
    <2>1. \A pcs : Reported(p, pcs)' = Reported(p, pcs)
      BY <1>1, <1>5 DEF Reported
    <2>2. Unread(p)' = Unread(p) /\ Unbooked(p)' = Unbooked(p)
      BY <1>2, <2>1 DEF Unread, Unbooked
    <2>3. QED
      BY <1>1, <1>4, <1>5, <2>2 DEF Accounted, Covered, Cancelling, Writing
  <1>6. CASE p = o
    <2>1. PICK d \in Nat : Reports(p, d)
      BY <1>6, PipelineReports
    <2> DEFINE F == SumFunctionOnSet(NotRead(p), Feeders)
               G == SumFunctionOnSet(InHand(p), Feeders)
               r == Reported(p, {"answered"})
               s == Reported(p, {"answered", "booking"})
               x == r'
               y == s'
               n == orders'[p].filled
               b == booked'[p]
    <2>2. /\ Unread(p) = F + r /\ Unread(p)' = F + x
          /\ Unbooked(p) = G + s /\ Unbooked(p)' = G + y
      BY <1>2 DEF Unread, Unbooked
    <2>3. /\ F \in Nat /\ G \in Nat /\ r \in Nat /\ s \in Nat
          /\ executed[p] \in Nat /\ booked[p] \in Nat /\ orders[p].filled \in Nat
      BY UnderWayTyped
    <2>4. x \in Nat /\ y \in Nat /\ n \in Nat /\ b \in Nat
      <3>1. /\ MaxReport \in Nat /\ \A k \in 0..Quantity : k \in Nat
        BY MaxReportAssumption, QuantityAssumption
      <3>2. flow'[p].reply.fill \in Nat
        BY <3>1 DEF TypeOK, FlowRecord, Reply
      <3>3. x \in Nat /\ y \in Nat
        BY <3>2 DEF Reported
      <3>4. n \in Nat /\ b \in Nat
        BY <3>1 DEF TypeOK, OrderRecord
      <3>5. QED
        BY <3>3, <3>4
    <2>5. /\ executed'[p] = executed[p] + d /\ x <= r + d
          /\ n + x <= orders[p].filled + r + d
          /\ b + y <= booked[p] + s + d
      BY <2>1 DEF Reports
    <2> HIDE DEF F, G, r, s, x, y, n, b
    <2>6. ASSUME NEW k \in Nat, Covered(p, k) PROVE k + (F + x) <= executed[p] + d
      BY <2>2, <2>3, <2>4, <2>5, <2>6 DEF Covered
    <2>7. n + (F + x) <= executed[p] + d
      <3>1. orders[p].filled + (F + r) <= executed[p]
        BY <1>4, <2>2 DEF Accounted, Covered
      <3>2. QED
        BY <2>3, <2>4, <2>5, <3>1
    <2>8. b + (G + y) <= executed[p] + d
      <3>1. booked[p] + (G + s) <= executed[p]
        BY <1>4, <2>2 DEF Accounted
      <3>2. QED
        BY <2>3, <2>4, <2>5, <3>1
    <2>10. /\ Covered(p, orders[p].filled)'
           /\ (booked[p] + Unbooked(p) <= executed[p])'
      BY <2>2, <2>5, <2>7, <2>8 DEF Covered, n, b
    <2>11. ASSUME NEW c \in Cancellers, Cancelling(c, p)'
           PROVE  Covered(p, cancels[c].mine.filled)'
      <3>1. Covered(p, cancels[c].mine.filled) /\ cancels[c].mine.filled \in Nat
        BY <1>1, <1>4, <2>11, UnderWayTyped DEF Accounted, Cancelling
      <3>2. QED
        BY <1>1, <2>2, <2>5, <2>6, <3>1 DEF Covered
    <2>12. ASSUME NEW f \in Feeders, Writing(f, p)'
           PROVE  Covered(p, feeds[f].mine.filled)'
      <3>1. Covered(p, feeds[f].mine.filled) /\ feeds[f].mine.filled \in Nat
        BY <1>1, <1>4, <2>12, UnderWayTyped DEF Accounted, Writing
      <3>2. QED
        BY <1>1, <2>2, <2>5, <2>6, <3>1 DEF Covered
    <2>13. QED
      BY <2>10, <2>11, <2>12 DEF Accounted
  <1>7. QED
    BY <1>5, <1>6

LEMMA CancelAccounts ==
  ASSUME IInv, Executions, NEW c \in Cancellers, CancelStep(c)
  PROVE  Executions'
  <1> USE DEF IInv
  <1>1. /\ flow' = flow /\ feeds' = feeds /\ booked' = booked /\ executed' = executed
        /\ \A d \in Cancellers : d # c => cancels'[d] = cancels[d]
    BY CancelFrame
  <1>2. \A p \in Orders : \A k : Covered(p, k) <=> k + Unread(p)' <= executed'[p]
    BY <1>1 DEF Covered, Unread, Reported, NotRead
  <1>3. SUFFICES ASSUME NEW p \in Orders PROVE Accounted(p)'
    BY DEF Executions
  <1>4. Accounted(p)
    BY DEF Executions
  <1>5. Covered(p, orders'[p].filled)
    BY <1>4, CancelWrites DEF Accounted
  <1>6. ASSUME NEW d \in Cancellers, Cancelling(d, p)'
        PROVE  Covered(p, cancels'[d].mine.filled)
    <2>1. CASE d # c
      BY <1>1, <1>4, <1>6, <2>1 DEF Accounted, Cancelling
    <2>2. CASE d = c /\ Cancelling(c, p) /\ cancels'[c].mine = cancels[c].mine
      BY <1>4, <2>2 DEF Accounted
    <2>3. CASE d = c /\ CancelRead(c, p)
      <3>1. cancels'[c].mine = Transition(orders[p], "CancelRequested")
        BY <2>3 DEF CancelRead, TypeOK
      <3>2. cancels'[c].mine.filled = orders[p].filled
        BY <3>1, TransitionKeeps DEF TypeOK, States
      <3>3. QED
        BY <1>4, <2>3, <3>2 DEF Accounted
    <2>4. QED
      BY <1>6, <2>1, <2>2, <2>3, CancelClones
  <1>7. ASSUME NEW f \in Feeders, Writing(f, p)'
        PROVE  Covered(p, feeds'[f].mine.filled)
    BY <1>1, <1>4, <1>7 DEF Accounted, Writing
  <1>8. (booked[p] + Unbooked(p) <= executed[p])'
    BY <1>1, <1>4 DEF Accounted, Unbooked, Reported, InHand
  <1>9. QED
    BY <1>2, <1>5, <1>6, <1>7, <1>8 DEF Accounted, Covered

LEMMA ExchangeAccounts ==
  ASSUME IInv, IInv', Executions, NEW o \in Orders, ExchangeStep(o)
  PROVE  Executions'
  <1> USE DEF IInv
  <1>1. UNCHANGED <<orders, flow, cancels, feeds, booked>>
    BY ExchangeFrame
  <1>2. \A p \in Orders : executed[p] \in Nat /\ executed'[p] \in Nat
    BY DEF TypeOK, VenueTypeOK
  <1>3. \A p \in Orders : executed[p] <= executed'[p]
    <2>1. PICK q \in 1..Quantity : executed' = [executed EXCEPT ![o] = @ + q]
      BY DEF ExchangeStep, LiveTrades, ExchangeTrades
    <2>2. q \in Nat
      BY QuantityAssumption
    <2>3. QED
      BY <1>2, <2>1, <2>2 DEF TypeOK, VenueTypeOK
  <1>4. SUFFICES ASSUME NEW p \in Orders PROVE Accounted(p)'
    BY DEF Executions
  <1>5. Unread(p)' = Unread(p) /\ Unbooked(p)' = Unbooked(p)
    BY <1>1 DEF Unread, Unbooked, Reported, NotRead, InHand
  <1>6. \A k \in Nat : k + Unread(p) <= executed[p] => k + Unread(p) <= executed'[p]
    BY <1>2, <1>3, UnderWayTyped
  <1>7. booked[p] + Unbooked(p) <= executed[p] => booked[p] + Unbooked(p) <= executed'[p]
    BY <1>2, <1>3, UnderWayTyped
  <1>8. Accounted(p)
    BY DEF Executions
  <1>9. Covered(p, orders[p].filled)'
    BY <1>1, <1>5, <1>6, <1>8, UnderWayTyped DEF Accounted, Covered
  <1>10. \A c \in Cancellers : Cancelling(c, p)' => Covered(p, cancels[c].mine.filled)'
    BY <1>1, <1>5, <1>6, <1>8, UnderWayTyped DEF Accounted, Covered, Cancelling
  <1>11. \A f \in Feeders : Writing(f, p)' => Covered(p, feeds[f].mine.filled)'
    BY <1>1, <1>5, <1>6, <1>8, UnderWayTyped DEF Accounted, Covered, Writing
  <1>12. QED
    BY <1>1, <1>5, <1>7, <1>8, <1>9, <1>10, <1>11 DEF Accounted

-----------------------------------------------------------------------------
\* How a step of a book update changes what it has in hand of an order.
FeedMoves(f, p, d) ==
  /\ executed'[p] = executed[p] + d
  /\ NotRead(p)'[f] <= NotRead(p)[f] + d
  /\ booked'[p] + InHand(p)'[f] <= booked[p] + InHand(p)[f] + d
  /\ \/ orders'[p] = orders[p]
     \/ Writing(f, p) /\ orders'[p] = feeds[f].mine
  /\ Writing(f, p)' =>
       feeds'[f].mine.filled + NotRead(p)'[f] <= orders[p].filled + NotRead(p)[f] + d

LEMMA FeedReports ==
  ASSUME IInv, IInv', NEW f \in Feeders, FeedStep(f), NEW p \in Orders
  PROVE  \E d \in Nat : FeedMoves(f, p, d)
  <1> USE DEF IInv
  <1>1. /\ feeds \in [Feeders -> FeedRecord]
        /\ feeds[f].snap \in [Orders -> 0..Quantity]
        /\ feeds[f].fills \in [Orders -> 0..Quantity]
        /\ booked \in [Orders -> Nat] /\ executed \in [Orders -> Nat]
        /\ orders \in [Orders -> OrderRecord] /\ feeds[f].mine \in OrderRecord
        /\ Quantity \in Nat
    BY QuantityAssumption DEF TypeOK, FeedRecord, VenueTypeOK
  <1>2. /\ feeds[f].fills[p] \in Nat /\ booked[p] \in Nat /\ executed[p] \in Nat
        /\ orders[p].filled \in Nat
    BY <1>1 DEF OrderRecord
  <1>3. /\ InHand(p)[f] = feeds[f].fills[p]
        /\ InHand(p)'[f] = feeds'[f].fills[p]
        /\ NotRead(p)[f] = IF feeds[f].pc \in {"writing", "booking"} /\ feeds[f].order = p
                             THEN 0 ELSE feeds[f].fills[p]
        /\ NotRead(p)'[f] = IF feeds'[f].pc \in {"writing", "booking"} /\ feeds'[f].order = p
                              THEN 0 ELSE feeds'[f].fills[p]
    BY DEF InHand, NotRead
  <1>4. ASSUME NEW snap \in [Orders -> 0..Quantity], NEW fills \in [Orders -> 0..Quantity],
               feeds' = [feeds EXCEPT ![f] = FeedAt(snap, fills)]
        PROVE  /\ InHand(p)'[f] = fills[p] /\ NotRead(p)'[f] = fills[p]
               /\ ~Writing(f, p)'
    <2>1. feeds'[f] = FeedAt(snap, fills)
      BY <1>1, <1>4
    <2>2. QED
      BY <1>3, <2>1, FeedAtTyped DEF Writing
  <1>5. CASE BookUpdate(f)
    <2>1. /\ Nothing \in [Orders -> 0..Quantity] /\ Nothing[p] = 0
          /\ resting \in [Orders -> 0..Quantity]
      BY IdleTyped DEF Nothing, TypeOK, VenueTypeOK
    <2>2. /\ InHand(p)'[f] = 0 /\ NotRead(p)'[f] = 0 /\ ~Writing(f, p)'
      BY <1>4, <1>5, <2>1 DEF BookUpdate
    <2>3. FeedMoves(f, p, 0)
      BY <1>2, <1>3, <1>5, <2>2 DEF BookUpdate, FeedMoves
    <2>4. QED
      BY <2>3
  <1>6. ASSUME NEW o \in Orders, CandidateSkipped(f, o)
        PROVE  FeedMoves(f, p, 0)
    <2>1. [feeds[f].snap EXCEPT ![o] = 0] \in [Orders -> 0..Quantity]
      BY <1>1
    <2>2. /\ InHand(p)'[f] = feeds[f].fills[p] /\ NotRead(p)'[f] = feeds[f].fills[p]
          /\ ~Writing(f, p)'
      BY <1>1, <1>4, <1>6, <2>1 DEF CandidateSkipped
    <2>3. QED
      BY <1>2, <1>3, <1>6, <2>2 DEF CandidateSkipped, FeedMoves
  <1>7. ASSUME NEW o \in Orders, NEW q \in 1..Quantity, CandidateFilled(f, o, q)
        PROVE  FeedMoves(f, p, 0) \/ FeedMoves(f, p, q)
    <2>0. q \in Nat
      BY <1>1
    <2>1. /\ [feeds[f].snap EXCEPT ![o] = 0] \in [Orders -> 0..Quantity]
          /\ [feeds[f].fills EXCEPT ![o] = q] \in [Orders -> 0..Quantity]
      BY <1>1
    <2>2. /\ InHand(p)'[f] = [feeds[f].fills EXCEPT ![o] = q][p]
          /\ NotRead(p)'[f] = [feeds[f].fills EXCEPT ![o] = q][p]
          /\ ~Writing(f, p)'
      BY <1>4, <1>7, <2>1 DEF CandidateFilled
    <2>3. /\ executed'[p] = IF p = o THEN executed[p] + q ELSE executed[p]
          /\ orders' = orders /\ booked' = booked /\ feeds[f].pc = "matching"
      BY <1>1, <1>7 DEF CandidateFilled, PaperMatches
    <2>4. [feeds[f].fills EXCEPT ![o] = q][p] = IF p = o THEN q ELSE feeds[f].fills[p]
      BY <1>1
    <2>5. QED
      BY <1>2, <1>3, <2>0, <2>2, <2>3, <2>4 DEF FeedMoves
  <1>8. ASSUME NEW o \in Orders, ExternalFillRead(f, o)
        PROVE  FeedMoves(f, p, 0)
    <2>1. /\ feeds'[f].pc = "writing" /\ feeds'[f].order = o
          /\ feeds'[f].fills = feeds[f].fills
          /\ feeds'[f].mine = Fill(orders[o], feeds[f].fills[o], Quantity)
          /\ orders' = orders /\ booked' = booked /\ executed' = executed
          /\ feeds[f].pc = "applying"
      BY <1>1, <1>8 DEF ExternalFillRead
    <2>2. feeds[f].fills[o] \in Nat
      BY <1>1
    <2>3. feeds'[f].mine.filled = orders[o].filled + feeds[f].fills[o]
      BY <1>1, <1>8, <2>1, <2>2, FillBounded DEF ExternalFillRead
    <2>4. CASE p = o
      BY <1>2, <1>3, <2>1, <2>3, <2>4 DEF FeedMoves
    <2>5. CASE p # o
      BY <1>2, <1>3, <2>1, <2>5 DEF FeedMoves, Writing
    <2>6. QED
      BY <2>4, <2>5
  <1>9. ASSUME NEW o \in Orders, ExternalFillRefused(f, o)
        PROVE  FeedMoves(f, p, 0)
    <2>1. /\ [feeds[f].fills EXCEPT ![o] = 0] \in [Orders -> 0..Quantity]
          /\ Nothing \in [Orders -> 0..Quantity]
      BY <1>1, IdleTyped
    <2>2. /\ InHand(p)'[f] = [feeds[f].fills EXCEPT ![o] = 0][p]
          /\ NotRead(p)'[f] = [feeds[f].fills EXCEPT ![o] = 0][p]
          /\ ~Writing(f, p)'
      BY <1>4, <1>9, <2>1 DEF ExternalFillRefused
    <2>3. /\ executed' = executed /\ orders' = orders /\ booked' = booked
          /\ feeds[f].pc = "applying"
      BY <1>9 DEF ExternalFillRefused
    <2>4. [feeds[f].fills EXCEPT ![o] = 0][p] = IF p = o THEN 0 ELSE feeds[f].fills[p]
      BY <1>1
    <2>5. QED
      BY <1>2, <1>3, <2>2, <2>3, <2>4 DEF FeedMoves
  <1>10. CASE ExternalFillStore(f)
    <2>1. /\ feeds[f].pc = "writing" /\ feeds'[f].pc = "booking"
          /\ feeds'[f].order = feeds[f].order /\ feeds'[f].fills = feeds[f].fills
          /\ booked' = booked /\ executed' = executed
      BY <1>1, <1>10 DEF ExternalFillStore, FeedRecord
    <2>2. orders'[p] = IF p = feeds[f].order THEN feeds[f].mine ELSE orders[p]
      BY <1>1, <1>10 DEF ExternalFillStore, Store
    <2>3. FeedMoves(f, p, 0)
      BY <1>2, <1>3, <2>1, <2>2 DEF FeedMoves, Writing
    <2>4. QED
      BY <2>3
  <1>11. CASE BookExternal(f)
    <2> DEFINE o == feeds[f].order
    <2>0. o \in Orders /\ feeds[f].pc = "booking"
      BY <1>11 DEF BookExternal, FillClone
    <2>1. /\ [feeds[f].fills EXCEPT ![o] = 0] \in [Orders -> 0..Quantity]
          /\ Nothing \in [Orders -> 0..Quantity]
      <3>1. \A z \in Orders : [feeds[f].fills EXCEPT ![z] = 0] \in [Orders -> 0..Quantity]
        BY <1>1
      <3>2. QED
        BY <2>0, <3>1, IdleTyped
    <2>2. /\ InHand(p)'[f] = [feeds[f].fills EXCEPT ![o] = 0][p]
          /\ NotRead(p)'[f] = [feeds[f].fills EXCEPT ![o] = 0][p]
          /\ ~Writing(f, p)'
      BY <1>4, <1>11, <2>1 DEF BookExternal
    <2>3. /\ executed' = executed /\ orders' = orders
          /\ booked'[p] = IF p = o THEN booked[p] + feeds[f].fills[p] ELSE booked[p]
      BY <1>1, <1>11, <2>0 DEF BookExternal
    <2>4. [feeds[f].fills EXCEPT ![o] = 0][p] = IF p = o THEN 0 ELSE feeds[f].fills[p]
      BY <1>1
    <2>5. FeedMoves(f, p, 0)
      BY <1>2, <1>3, <2>0, <2>2, <2>3, <2>4 DEF FeedMoves
    <2>6. QED
      BY <2>5
  <1>12. 0 \in Nat /\ \A q \in 1..Quantity : q \in Nat
    BY <1>1
  <1>13. QED
    BY <1>5, <1>6, <1>7, <1>8, <1>9, <1>10, <1>11, <1>12 DEF FeedStep

LEMMA FeedAccounts ==
  ASSUME IInv, IInv', Executions, NEW f \in Feeders, FeedStep(f)
  PROVE  Executions'
  <1> USE DEF IInv
  <1>1. /\ flow' = flow /\ cancels' = cancels
        /\ \A e \in Feeders : e # f => feeds'[e] = feeds[e]
    BY FeedFrame
  <1>2. SUFFICES ASSUME NEW p \in Orders PROVE Accounted(p)'
    BY DEF Executions
  <1>3. Accounted(p)
    BY DEF Executions
  <1>4. PICK d \in Nat : FeedMoves(f, p, d)
    BY FeedReports
  <1> DEFINE R == NotRead(p)
             H == InHand(p)
             F == SumFunctionOnSet(R, Feeders)
             G == SumFunctionOnSet(H, Feeders)
             F2 == SumFunctionOnSet(R', Feeders)
             G2 == SumFunctionOnSet(H', Feeders)
             r == Reported(p, {"answered"})
             s == Reported(p, {"answered", "booking"})
  <1>5. /\ \A e \in Feeders : H[e] \in Nat /\ R[e] \in Nat
        /\ F \in Nat /\ G \in Nat /\ r \in Nat /\ s \in Nat
        /\ executed[p] \in Nat /\ booked[p] \in Nat /\ orders[p].filled \in Nat
        /\ \A c \in Cancellers : cancels[c].mine.filled \in Nat
        /\ \A e \in Feeders : feeds[e].mine.filled \in Nat
    BY UnderWayTyped
  <1>6. H'[f] \in Nat /\ R'[f] \in Nat /\ feeds'[f].mine.filled \in Nat /\ booked'[p] \in Nat
    <2>1. /\ feeds'[f].fills \in [Orders -> 0..Quantity] /\ feeds'[f].mine \in OrderRecord
          /\ booked' \in [Orders -> Nat]
      BY DEF TypeOK, FeedRecord
    <2>2. feeds'[f].fills[p] \in Nat /\ feeds'[f].mine.filled \in Nat
      BY <2>1, QuantityAssumption DEF OrderRecord
    <2>3. QED
      BY <2>1, <2>2 DEF InHand, NotRead
  <1>7. \A e \in Feeders \ {f} : H'[e] = H[e] /\ R'[e] = R[e]
    BY <1>1 DEF InHand, NotRead
  <1>8. /\ Unread(p) = F + r /\ Unread(p)' = F2 + r
        /\ Unbooked(p) = G + s /\ Unbooked(p)' = G2 + s
    BY <1>1 DEF Unread, Unbooked, Reported
  <1>9. /\ executed'[p] = executed[p] + d
        /\ R'[f] <= R[f] + d
        /\ booked'[p] + H'[f] <= booked[p] + H[f] + d
        /\ orders'[p] = orders[p] \/ (Writing(f, p) /\ orders'[p] = feeds[f].mine)
        /\ Writing(f, p)' =>
             feeds'[f].mine.filled + R'[f] <= orders[p].filled + R[f] + d
    BY <1>4 DEF FeedMoves
  <1> HIDE DEF R, H
  <1>10. F2 = F + (R'[f] - R[f])
    <2>1. /\ \A e \in Feeders : R[e] \in Int
          /\ R'[f] \in Int
          /\ \A e \in Feeders \ {f} : R'[e] = R[e]
      BY <1>5, <1>6, <1>7
    <2>2. QED
      BY <2>1, FeedersAssumption, SumChanged
  <1>11. G2 = G + (H'[f] - H[f])
    BY <1>5, <1>6, <1>7, FeedersAssumption, SumChanged
  <1> DEFINE R1 == R'[f]
             H1 == H'[f]
             b == booked'[p]
             m == feeds'[f].mine.filled
  <1> HIDE DEF F, G, F2, G2, r, s, R1, H1, b, m
  <1>12. R1 \in Nat /\ H1 \in Nat /\ b \in Nat /\ m \in Nat /\ R[f] \in Nat /\ H[f] \in Nat
    BY <1>5, <1>6 DEF R1, H1, b, m
  <1>13. /\ F2 = F + (R1 - R[f]) /\ G2 = G + (H1 - H[f])
         /\ R1 <= R[f] + d /\ b + H1 <= booked[p] + H[f] + d
         /\ Writing(f, p)' => m + R1 <= orders[p].filled + R[f] + d
    BY <1>9, <1>10, <1>11 DEF R1, H1, b, m
  <1>14. ASSUME NEW k \in Nat, Covered(p, k) PROVE k + (F2 + r) <= executed[p] + d
    <2>1. k + (F + r) <= executed[p]
      BY <1>8, <1>14 DEF Covered
    <2>2. QED
      BY <1>5, <1>12, <1>13, <2>1
  <1>15. Covered(p, orders[p].filled)'
    <2>1. Covered(p, orders'[p].filled) /\ orders'[p].filled \in Nat
      BY <1>3, <1>5, <1>9 DEF Accounted
    <2>2. QED
      BY <1>8, <1>9, <1>14, <2>1 DEF Covered
  <1>16. ASSUME NEW c \in Cancellers, Cancelling(c, p)'
         PROVE  Covered(p, cancels[c].mine.filled)'
    <2>1. Covered(p, cancels[c].mine.filled) /\ cancels[c].mine.filled \in Nat
      BY <1>1, <1>3, <1>5, <1>16 DEF Accounted, Cancelling
    <2>2. QED
      BY <1>1, <1>8, <1>9, <1>14, <2>1 DEF Covered
  <1>17. ASSUME NEW e \in Feeders, Writing(e, p)'
         PROVE  Covered(p, feeds[e].mine.filled)'
    <2>1. CASE e = f
      <3>1. orders[p].filled + (F + r) <= executed[p]
        BY <1>3, <1>8 DEF Accounted, Covered
      <3>2. m + (F2 + r) <= executed[p] + d
        BY <1>5, <1>12, <1>13, <1>17, <2>1, <3>1
      <3>3. QED
        BY <1>8, <1>9, <2>1, <3>2 DEF Covered, m
    <2>2. CASE e # f
      <3>1. Covered(p, feeds[e].mine.filled) /\ feeds[e].mine.filled \in Nat
        BY <1>1, <1>3, <1>5, <1>17, <2>2 DEF Accounted, Writing
      <3>2. QED
        BY <1>1, <1>8, <1>9, <1>14, <2>2, <3>1 DEF Covered
    <2>3. QED
      BY <2>1, <2>2
  <1>18. (booked[p] + Unbooked(p) <= executed[p])'
    <2>1. booked[p] + (G + s) <= executed[p]
      BY <1>3, <1>8 DEF Accounted
    <2>2. b + (G2 + s) <= executed[p] + d
      BY <1>5, <1>12, <1>13, <2>1
    <2>3. QED
      BY <1>8, <1>9, <2>2 DEF b
  <1>19. QED
    BY <1>15, <1>16, <1>17, <1>18 DEF Accounted

LEMMA ExecutionsNext ==
  IInv /\ IInv' /\ Executions /\ [Next]_vars => Executions'
  <1>1. CASE UNCHANGED vars
    BY <1>1 DEF vars, Executions, Accounted, Covered, Cancelling, Writing, Unread,
       Unbooked, Reported, NotRead, InHand
  <1>2. QED
    BY <1>1, PipelineAccounts, CancelAccounts, ExchangeAccounts, FeedAccounts DEF Next

(***************************************************************************)
(* Neither the manager nor the portfolio ever shows more of an order than  *)
(* the venue has executed, although submit, cancel and apply_external_fill *)
(* each write back a clone they took before an await, in any order and for *)
(* any number of callers: such a clone loses fills, and repeats none.      *)
(***************************************************************************)
THEOREM NothingIsOverstated == Spec => []NeverOverstated
  <1>1. Init => Executions
    <2>1. SUFFICES ASSUME Init, NEW o \in Orders PROVE Accounted(o)
      BY DEF Executions
    <2>2. /\ \A f \in Feeders : /\ InHand(o)[f] = 0 /\ NotRead(o)[f] = 0
                                /\ feeds[f].pc = "idle"
          /\ \A c \in Cancellers : cancels[c].pc = "idle"
      BY <2>1 DEF Init, InHand, NotRead, IdleFeed, IdleCancel, Nothing
    <2>3. /\ SumFunctionOnSet(InHand(o), Feeders) = 0
          /\ SumFunctionOnSet(NotRead(o), Feeders) = 0
      BY <2>2, FeedersAssumption, SumOfZeros
    <2>4. \A pcs \in {{"answered"}, {"answered", "booking"}} : Reported(o, pcs) = 0
      BY <2>1 DEF Init, IdleFlow, Reported
    <2>5. Unread(o) = 0 /\ Unbooked(o) = 0
      BY <2>3, <2>4 DEF Unread, Unbooked
    <2>6. orders[o].filled = 0 /\ booked[o] = 0 /\ executed[o] = 0
      BY <2>1 DEF Init, VenueInit, Unregistered
    <2>7. QED
      BY <2>2, <2>5, <2>6 DEF Accounted, Covered, Cancelling, Writing
  <1>2. IInv /\ Executions => NeverOverstated
    <2>1. SUFFICES ASSUME IInv, Executions, NEW o \in Orders
                   PROVE  orders[o].filled <= executed[o] /\ booked[o] <= executed[o]
      BY DEF NeverOverstated
    <2>2. /\ orders[o].filled + Unread(o) <= executed[o]
          /\ booked[o] + Unbooked(o) <= executed[o]
      BY <2>1 DEF Executions, Accounted, Covered
    <2>3. QED
      BY <2>1, <2>2, UnderWayTyped DEF IInv
  <1>3. QED
    BY <1>1, <1>2, ExecutionsNext, Invariant, PTL DEF Spec
=============================================================================
