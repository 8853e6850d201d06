----------------------------- MODULE SourceFeed -----------------------------
(***************************************************************************)
(* From the source fills of the followed wallets to the copy pipeline:     *)
(*                                                                         *)
(*   - the RTDS client reads a socket, and reports the trades it sees, and *)
(*     each lost connection, to the feed task through a bounded channel;   *)
(*   - the feed task takes the channel's messages one at a time: a trade   *)
(*     goes through the dedup index, a lost connection starts a backfill   *)
(*     over REST whose rows go through the index too;                      *)
(*   - each new fill is recorded in source_events and handed to the copy   *)
(*     pipeline, which the feed task awaits;                               *)
(*   - housekeeping evicts old contents from the index, and a restart      *)
(*     rebuilds the index from source_events.                              *)
(*                                                                         *)
(* The client does not wait for the feed task: it reconnects, and reads on,*)
(* while the backfill of the previous connection is still running.         *)
(*                                                                         *)
(* Contents happen in the order of their numbers, all identical rows of a  *)
(* content at once (they are one transaction), and a content's number is   *)
(* the stamp of its row, the second that the REST API filters by.  A frame *)
(* has a stamp of its own in its envelope, by which the client reckons.    *)
(* The socket delivers in the order of contents, and the REST API answers  *)
(* with everything that has happened, newest first.                        *)
(***************************************************************************)
EXTENDS DedupIndex, Sequences, FiniteSets, Functions

CONSTANTS
  Rows,          (* How many identical rows each content has.              *)
  Tracked,       (* The contents of wallets that are followed.             *)
  Capacity,      (* Capacity of the channel.                               *)
  Limit,         (* Rows the REST API returns at most.                     *)
  Skew,          (* Contents the local clock may be late by.               *)
  Lag,           (* How far a frame's stamp is off its row's.              *)
  Faults,        (* What can go wrong besides a lost connection.           *)
  MaxDrops,      (* Bound: connections lost or refused.                    *)
  MaxCrashes,    (* Bound: crashes.                                        *)
  None

ASSUME RowsAssumption     == Rows \in [Contents -> 1..MaxOccurrences]
ASSUME TrackedAssumption  == Tracked \subseteq Contents
ASSUME CapacityAssumption == Capacity \in Nat \ {0}
ASSUME LimitAssumption    == Limit \in Nat
ASSUME SkewAssumption     == Skew \in Nat
ASSUME LagAssumption      == Lag \in Nat
ASSUME FaultsAssumption   ==
  Faults \subseteq {"fetch", "parse", "store", "time", "crash"}
ASSUME BoundsAssumption   == MaxDrops \in Nat /\ MaxCrashes \in Nat
ASSUME NoneAssumption     == None \notin Contents \X Ordinals

VARIABLES
  happened,      (* Contents that have happened: 1..happened.              *)
  old,           (* Those that happened before the retention window.       *)
  connected,     (* Is the socket up?                                      *)
  wire,          (* Rows sent by the venue and not read by the client.     *)
  last,          (* last_trade_at of the client, the stamp of a frame's    *)
                 (* envelope; 0 for None.                                  *)
  channel,       (* Messages from the client to the feed task.             *)
  feed,          (* The feed task.                                         *)
  durable,       (* Event identities in source_events, by content.         *)
  copied,        (* How often each identity reached the copy pipeline.     *)
  drops,         (* Connections lost or refused so far.                    *)
  crashes,       (* Crashes so far.                                        *)
  overlapped,    (* History: contents in a REST answer whose live rows     *)
                 (* were still under way to the feed task.                 *)
  forgotten,     (* History: contents that neither the index nor the       *)
                 (* database is sure to remember.                          *)
  unowed         (* History: followed contents that nothing undertakes to  *)
                 (* deliver.                                               *)

vars == <<counts, aged, happened, old, connected, wire, last, channel, feed,
          durable, copied, drops, crashes, overlapped, forgotten, unowed>>

Events == Contents \X Ordinals

Message == [kind : {"trade", "down"}, at : 1..(ContentCount + 1)]

FeedRecord ==
  [pc    : {"idle", "fetching", "batch", "recording", "copying"},
   since : 1..(ContentCount + 1),   (* Where the backfill starts.          *)
   batch : SUBSET Events,           (* Rows of the answer still to go.     *)
   event : Events \cup {None}]      (* The new fill being handed on.       *)

IdleFeed == [pc |-> "idle", since |-> 1, batch |-> {}, event |-> None]

TypeOK ==
  /\ IndexTypeOK
  /\ happened \in 0..ContentCount
  /\ old \subseteq Contents
  /\ connected \in BOOLEAN
  /\ wire \in Seq(Contents)
  /\ last \in 0..(ContentCount + 1)
  /\ channel \in Seq(Message) /\ Len(channel) <= Capacity
  /\ feed \in FeedRecord
  /\ durable \in [Contents -> SUBSET Ordinals]
  /\ copied \in [Contents -> [Ordinals -> Nat]]
  /\ drops \in 0..MaxDrops
  /\ crashes \in 0..MaxCrashes
  /\ overlapped \subseteq Contents
  /\ forgotten \subseteq Contents
  /\ unowed \subseteq Contents

Init ==
  /\ IndexInit
  /\ happened = 0
  /\ old = {}
  /\ connected = FALSE
  /\ wire = <<>>
  /\ last = 0
  /\ channel = <<>>
  /\ feed = IdleFeed
  /\ durable = [k \in Contents |-> {}]
  /\ copied = [k \in Contents |-> [n \in Ordinals |-> 0]]
  /\ drops = 0
  /\ crashes = 0
  /\ overlapped = {}
  /\ forgotten = {}
  /\ unowed = {}

-----------------------------------------------------------------------------
(***************************************************************************)
(* The venue.                                                              *)
(***************************************************************************)

\* Nothing undertakes to deliver what is lost of the contents S.
LeaveUnowed(S) == unowed' = unowed \cup (S \cap Tracked)

\* A lost connection has been reported and its backfill not been answered.
BackfillDue ==
  \/ feed.pc = "fetching"
  \/ \E i \in 1..Len(channel) : channel[i].kind = "down"

\* The next content happens.  A connected client is sent its rows; when it is
\* not, the fill is owed to it only by a backfill that has yet to be answered.
Happen ==
  /\ happened < ContentCount
  /\ LET k == happened + 1
     IN  /\ happened' = k
         /\ wire' = IF connected THEN wire \o [i \in 1..Rows[k] |-> k] ELSE wire
         /\ LeaveUnowed(IF connected \/ BackfillDue THEN {} ELSE {k})
  /\ UNCHANGED <<counts, aged, old, connected, last, channel, feed, durable,
                 copied, drops, crashes, overlapped, forgotten>>

\* An outage outlasts the retention window.  While the socket is up, the trades
\* of everybody else keep last_trade_at recent and no backfill reaches back far.
TimePasses ==
  /\ "time" \in Faults
  /\ ~connected
  /\ feed.pc = "idle" /\ channel = <<>>
  /\ aged' = {k \in Contents : counts[k] > 0}
  /\ old' = 1..happened
  /\ UNCHANGED <<counts, happened, connected, wire, last, channel, feed,
                 durable, copied, drops, crashes, overlapped, forgotten, unowed>>

-----------------------------------------------------------------------------
(***************************************************************************)
(* The RTDS client.                                                        *)
(***************************************************************************)
Report(kind, at) ==
  /\ Len(channel) < Capacity
  /\ channel' = Append(channel, [kind |-> kind, at |-> at])

\* Where the backfill of a connection lost now starts: at the last trade seen,
\* or now, by a clock that may be late, if none was seen.
GapFrom ==
  IF last = 0 THEN {s \in 1..(happened + 1) : s + Skew > happened} ELSE {last}

OnWire == {wire[i] : i \in 1..Len(wire)}

Connect ==
  /\ ~connected
  /\ connected' = TRUE
  /\ UNCHANGED <<counts, aged, happened, old, wire, last, channel, feed,
                 durable, copied, drops, crashes, overlapped, forgotten, unowed>>

ConnectFails ==
  /\ ~connected
  /\ drops < MaxDrops
  /\ drops' = drops + 1
  /\ \E since \in GapFrom : Report("down", since)
  /\ UNCHANGED <<counts, aged, happened, old, connected, wire, last, feed,
                 durable, copied, crashes, overlapped, forgotten, unowed>>

\* What the envelope of a frame with content k may be stamped: nothing ties it
\* to the stamp of the row, and no frame is of the future.
EnvelopeStamps(k) == {s \in 1..(happened + 1) : k \in (s - Lag)..(s + Lag)}

ReadFrame ==
  /\ connected
  /\ wire # <<>>
  /\ last' \in EnvelopeStamps(Head(wire))
  /\ wire' = Tail(wire)
  /\ Report("trade", Head(wire))
  /\ UNCHANGED <<counts, aged, happened, old, connected, feed, durable, copied,
                 drops, crashes, overlapped, forgotten, unowed>>

\* A frame that does not parse is logged, and moves nothing.
SkipFrame ==
  /\ "parse" \in Faults
  /\ connected
  /\ wire # <<>>
  /\ wire' = Tail(wire)
  /\ LeaveUnowed({Head(wire)})
  /\ UNCHANGED <<counts, aged, happened, old, connected, last, channel, feed,
                 durable, copied, drops, crashes, overlapped, forgotten>>

\* The connection is lost with the frames on it.  The backfill may start after
\* them: if no trade was ever seen, or the last envelope bore a later stamp.
LoseConnection ==
  /\ connected
  /\ drops < MaxDrops
  /\ drops' = drops + 1
  /\ connected' = FALSE
  /\ wire' = <<>>
  /\ \E since \in GapFrom :
       /\ Report("down", since)
       /\ LeaveUnowed({k \in OnWire : k < since})
  /\ UNCHANGED <<counts, aged, happened, old, last, feed, durable, copied,
                 crashes, overlapped, forgotten>>

-----------------------------------------------------------------------------
(***************************************************************************)
(* The feed task.                                                          *)
(***************************************************************************)
Received(kind) ==
  /\ feed.pc = "idle"
  /\ channel # <<>>
  /\ Head(channel).kind = kind
  /\ channel' = Tail(channel)

\* Which phase the task is in once a row is done with.
Resume(batch) == IF batch = {} THEN "idle" ELSE "batch"

\* A live trade of a followed wallet takes the next ordinal.
TradeIsNew ==
  /\ Received("trade")
  /\ LET k == Head(channel).at
     IN  /\ k \in Tracked
         /\ LiveIsNew(k)
         /\ HandOut(k, counts[k])
         /\ feed' = [IdleFeed EXCEPT !.pc = "recording", !.event = <<k, counts[k]>>]
  /\ UNCHANGED <<happened, old, connected, wire, last, durable, copied, drops,
                 crashes, overlapped, forgotten, unowed>>

\* A live trade of somebody else, or one above the ceiling, is dropped.
TradeIsDropped ==
  /\ Received("trade")
  /\ LET k == Head(channel).at IN k \notin Tracked \/ ~LiveIsNew(k)
  /\ UNCHANGED <<counts, aged, happened, old, connected, wire, last, feed,
                 durable, copied, drops, crashes, overlapped, forgotten, unowed>>

\* A lost connection: ask for everything since the last trade seen.
BackfillGap ==
  /\ Received("down")
  /\ feed' = [IdleFeed EXCEPT !.pc = "fetching", !.since = Head(channel).at]
  /\ UNCHANGED <<counts, aged, happened, old, connected, wire, last, durable,
                 copied, drops, crashes, overlapped, forgotten, unowed>>

(***************************************************************************)
(* An answer's rows, each with its ordinal among the identical rows of the *)
(* answer: that is all that BatchOrdinals computes.  They come newest      *)
(* first, and the API stops after Limit of them.                           *)
(***************************************************************************)
RowsOf(S) == {r \in Events : r[1] \in S \cap Tracked /\ r[2] < Rows[r[1]]}

Before(q, r) == q[1] > r[1] \/ (q[1] = r[1] /\ q[2] < r[2])

WithinLimit(r) == Cardinality({q \in RowsOf(1..happened) : Before(q, r)}) < Limit

\* Faulty variant: the cutoff is exclusive.
AnswerExclusive(since) == {r \in RowsOf((since + 1)..happened) : WithinLimit(r)}

\* backfill_wallet_trades: of the newest rows, those from the cutoff on.
Answer(since) == {r \in RowsOf(since..happened) : WithinLimit(r)}

UnderWay == OnWire \cup
            {channel[i].at : i \in {j \in 1..Len(channel) : channel[j].kind = "trade"}}

\* Contents the limit cut off.
Truncated(since) == {r[1] : r \in {q \in RowsOf(since..happened) : ~WithinLimit(q)}}

\* The contents of whose rows in an answer none parses, as identical rows parse
\* alike.
Unreadable(rows) ==
  IF "parse" \in Faults THEN SUBSET {r[1] : r \in rows} ELSE {{}}

\* Rows that do not parse are skipped, and with them their contents.
BackfillAnswered ==
  /\ feed.pc = "fetching"
  /\ \E skipped \in Unreadable(Answer(feed.since)) :
       LET rows == {r \in Answer(feed.since) : r[1] \notin skipped}
       IN  /\ feed' = [IdleFeed EXCEPT !.pc = Resume(rows), !.batch = rows]
           /\ overlapped' = overlapped \cup ({r[1] : r \in rows} \cap UnderWay)
           /\ LeaveUnowed(Truncated(feed.since) \cup skipped)
  /\ UNCHANGED <<counts, aged, happened, old, connected, wire, last, channel,
                 durable, copied, drops, crashes, forgotten>>

\* The request fails: logged, and not tried again.
BackfillFails ==
  /\ "fetch" \in Faults
  /\ feed.pc = "fetching"
  /\ feed' = IdleFeed
  /\ LeaveUnowed(feed.since..happened)
  /\ UNCHANGED <<counts, aged, happened, old, connected, wire, last, channel,
                 durable, copied, drops, crashes, overlapped, forgotten>>

\* The next row of the answer.
NextRow(r) ==
  /\ feed.pc = "batch"
  /\ r \in feed.batch
  /\ \A q \in feed.batch \ {r} : Before(r, q)

RowIsNew(r) ==
  /\ NextRow(r)
  /\ LET n == Claimed(r[1], r[2])
     IN  /\ BackfillIsNew(r[1], n)
         /\ HandOut(r[1], n)
         /\ feed' = [feed EXCEPT !.pc = "recording", !.batch = @ \ {r},
                                 !.event = <<r[1], n>>]
  /\ UNCHANGED <<happened, old, connected, wire, last, channel, durable, copied,
                 drops, crashes, overlapped, forgotten, unowed>>

RowIsDuplicate(r) ==
  /\ NextRow(r)
  /\ ~BackfillIsNew(r[1], Claimed(r[1], r[2]))
  /\ feed' = [feed EXCEPT !.pc = Resume(feed.batch \ {r}), !.batch = @ \ {r}]
  /\ UNCHANGED <<counts, aged, happened, old, connected, wire, last, channel,
                 durable, copied, drops, crashes, overlapped, forgotten, unowed>>

\* insert_source_event.  A conflict inserts nothing and stops nothing.
Record ==
  /\ feed.pc = "recording"
  /\ LET k == feed.event[1]
     IN  durable' = [durable EXCEPT ![k] = @ \cup {feed.event[2]}]
  /\ feed' = [feed EXCEPT !.pc = "copying"]
  /\ UNCHANGED <<counts, aged, happened, old, connected, wire, last, channel,
                 copied, drops, crashes, overlapped, forgotten, unowed>>

\* insert_source_event fails: its result is not looked at.
RecordFails ==
  /\ "store" \in Faults
  /\ feed.pc = "recording"
  /\ feed' = [feed EXCEPT !.pc = "copying"]
  /\ forgotten' = forgotten \cup {feed.event[1]}
  /\ UNCHANGED <<counts, aged, happened, old, connected, wire, last, channel,
                 durable, copied, drops, crashes, overlapped, unowed>>

\* The rest of on_source_trade; the task then goes on with its batch.
CopyTrade ==
  /\ feed.pc = "copying"
  /\ LET k == feed.event[1]
         n == feed.event[2]
     IN  copied' = [copied EXCEPT ![k][n] = @ + 1]
  /\ feed' = [feed EXCEPT !.pc = Resume(feed.batch), !.event = None]
  /\ UNCHANGED <<counts, aged, happened, old, connected, wire, last, channel,
                 durable, drops, crashes, overlapped, forgotten, unowed>>

-----------------------------------------------------------------------------
(***************************************************************************)
(* Housekeeping and restart.                                               *)
(***************************************************************************)
Evict ==
  /\ EvictOlder
  /\ forgotten' = forgotten \cup aged
  /\ UNCHANGED <<happened, old, connected, wire, last, channel, feed, durable,
                 copied, drops, crashes, overlapped, unowed>>

NoOccurrences == [k \in Contents |-> 0]

\* Faulty variant: the index starts empty after a restart.
OccurrencesNone == NoOccurrences

\* load_dedup_window: how many rows of each content are in the window.
Occurrences ==
  [k \in Contents |-> IF k \in old THEN 0 ELSE Cardinality(durable[k])]

\* How many fills of content k, by their identities, have been copied.
FillsCopied(k) == Cardinality({n \in Ordinals : copied[k][n] > 0})

\* How often content k reached the copy pipeline, counting repetitions.
CopiesOf(k) == SumFunctionOnSet(copied[k], Ordinals)

\* The process dies and is started again: what was in memory is gone, and
\* recover has rebuilt the index before the feed starts.  Recovery goes on
\* with an empty index if the database does not answer.
CrashAndRecover ==
  /\ "crash" \in Faults
  /\ crashes < MaxCrashes
  /\ crashes' = crashes + 1
  /\ \/ /\ RestoreIndex(Occurrences)
        /\ forgotten' = forgotten \cup {k \in old : durable[k] # {}}
     \/ /\ "store" \in Faults
        /\ RestoreIndex(NoOccurrences)
        /\ forgotten' = forgotten \cup {k \in Contents : durable[k] # {}}
  /\ connected' = FALSE
  /\ wire' = <<>>
  /\ last' = 0
  /\ channel' = <<>>
  /\ feed' = IdleFeed
  /\ LeaveUnowed({k \in 1..happened : FillsCopied(k) < Rows[k]})
  /\ UNCHANGED <<happened, old, durable, copied, drops, overlapped>>

-----------------------------------------------------------------------------
ClientStep == Connect \/ ConnectFails \/ ReadFrame \/ SkipFrame \/ LoseConnection

FeedStep ==
  \/ TradeIsNew \/ TradeIsDropped
  \/ BackfillGap \/ BackfillAnswered \/ BackfillFails
  \/ \E r \in Events : RowIsNew(r) \/ RowIsDuplicate(r)
  \/ Record \/ RecordFails \/ CopyTrade

Next ==
  \/ Happen \/ TimePasses
  \/ ClientStep
  \/ FeedStep
  \/ Evict \/ CrashAndRecover

Spec == Init /\ [][Next]_vars

(***************************************************************************)
(* The feed task takes what is in its channel and finishes what it began:  *)
(* its requests have a timeout and the pipeline returns.  Nothing is asked *)
(* of the client.                                                          *)
(***************************************************************************)
Fairness == WF_vars(FeedStep)

FairSpec == Spec /\ Fairness

-----------------------------------------------------------------------------
(***************************************************************************)
(* Properties.                                                             *)
(***************************************************************************)

\* No identity reaches the copy pipeline twice: the abstract promise, for any
\* mixture of live rows, backfills and restarts, until its content is evicted
\* from the index, is too old to be restored, or was not recorded because the
\* database failed (observe_live, observe_backfill, evict_older_than, restore).
Promise == INSTANCE CopyOnce
CopyOnceSpec == Promise!Spec

\* A content reaches the pipeline no more often than it has rows, through lost
\* connections, backfills and restarts, unless a backfill was answered while its
\* live rows were still on their way to the feed task, or it was forgotten: its
\* entry was evicted, its rows were not recorded or are older than the window
\* that a restart loads (observe_live, observe_backfill, restore_dedup).
NoExtraCopies ==
  \A k \in Contents \ (overlapped \cup forgotten) : CopiesOf(k) <= Rows[k]

\* When everything has been delivered and worked off, a fill is missing only
\* if nothing had undertaken to deliver it: it happened with the socket down
\* and no backfill outstanding; it was lost with a connection whose backfill
\* starts after it; its frame or its row did not parse; its backfill failed or
\* was cut off by the limit; or the process died (RtdsClient::run,
\* run_source_feed, backfill_gap, backfill_wallet_trades).
Quiet == connected /\ wire = <<>> /\ channel = <<>> /\ feed.pc = "idle"

MissedOnlyIfUnowed ==
  Quiet => \A k \in Tracked \cap (1..happened) :
             FillsCopied(k) >= Rows[k] \/ k \in unowed

\* What a backfill answered is copied in full in the end, whatever arrives
\* live meanwhile, unless the process dies first or the answer was cut off
\* (backfill_gap).
BackfillCompletes ==
  \A k \in Tracked :
    (\E n \in Ordinals : <<k, n>> \in feed.batch) ~> (FillsCopied(k) >= Rows[k] \/ k \in unowed)

-----------------------------------------------------------------------------
(***************************************************************************)
(* What the documentation and comments say, and the code does not do.      *)
(***************************************************************************)

\* One source fill produces at most one copy.
AtMostOnce == \A k \in Contents : CopiesOf(k) <= Rows[k]

\* Backfill covers exactly the gap: of three fills the middle one is not
\* missed when the first and the last were copied.
GapCovered ==
  Quiet => \A k \in Tracked : \A i \in 1..(k - 1), j \in (k + 1)..ContentCount :
             FillsCopied(i) > 0 /\ FillsCopied(j) > 0 => FillsCopied(k) >= Rows[k]

\* What the database already has is not copied again.
CopiedOnce == \A k \in Contents, n \in Ordinals : copied[k][n] <= 1
=============================================================================
