-------------------------- MODULE SourceFeedProofs --------------------------
(***************************************************************************)
(* Proofs about SourceFeed, for any contents, channel, limit, clock skew,  *)
(* faults and number of lost connections and crashes: the variables keep   *)
(* their types, and the feed implements the abstract promise of CopyOnce.  *)
(*                                                                         *)
(* The promise is not inductive.  That an identity was not copied before   *)
(* follows from the count of the dedup index; that the count can be        *)
(* trusted after a restart, from the rows in source_events; and that a     *)
(* backfilled row does not leap over an ordinal, from the order of the     *)
(* rows in an answer.                                                      *)
(***************************************************************************)
EXTENDS SourceFeed, FiniteSetTheorems, SequenceTheorems, TLAPS

(***************************************************************************)
(* The inductive invariant.                                                *)
(***************************************************************************)
HandingOn == feed.pc \in {"recording", "copying"}

\* The task has a fill in hand exactly while it is handing it on.
FillInHand == IF HandingOn THEN feed.event \in Events ELSE feed.event = None

\* The fill in hand has the last ordinal that was handed out.
InHandIsLast ==
  HandingOn /\ feed.event[1] \notin forgotten =>
    feed.event[2] = counts[feed.event[1]] - 1

\* The ordinals that are in source_events: those handed out, except the one
\* about to be recorded.
Recorded(k) ==
  IF feed.pc = "recording" /\ feed.event[1] = k THEN counts[k] - 1 ELSE counts[k]

RecordedIsPrefix ==
  \A k \in Contents : k \notin forgotten => durable[k] = 0..(Recorded(k) - 1)

\* What was copied was recorded, and is not in hand again.
CopiedIsRecorded ==
  \A k \in Contents : \A n \in Ordinals :
    k \notin forgotten /\ copied[k][n] > 0 =>
      n \in durable[k] /\ feed.event # <<k, n>>

\* No row of an answer is ahead of a smaller ordinal of its content that is
\* neither in the rows still to go nor handed out.
BatchIsGapless ==
  \A k \in Contents : \A n, m \in Ordinals :
    k \notin forgotten /\ <<k, n>> \in feed.batch /\ m < n =>
      <<k, m>> \in feed.batch \/ m < counts[k]

Ledger == /\ FillInHand
          /\ InHandIsLast
          /\ RecordedIsPrefix
          /\ CopiedIsRecorded
          /\ BatchIsGapless

IInv == TypeOK /\ Ledger

(***************************************************************************)
(* Ordinals, events and answers.                                           *)
(***************************************************************************)
LEMMA ConstantTypes ==
  /\ ContentCount \in Nat
  /\ MaxOccurrences \in Nat \ {0}
  /\ Contents \subseteq Nat \ {0}
  /\ Ordinals \subseteq Nat
  /\ Rows \in [Contents -> 1..MaxOccurrences]
  /\ None \notin Events
BY ContentCountAssumption, MaxOccurrencesAssumption, RowsAssumption, NoneAssumption
   DEF Contents, Ordinals, Events

\* A set of ordinals has at most MaxOccurrences of them.
LEMMA OrdinalCount ==
  ASSUME NEW S \in SUBSET Ordinals
  PROVE  Cardinality(S) \in 0..MaxOccurrences
<1>1. IsFiniteSet(Ordinals) /\ Cardinality(Ordinals) = MaxOccurrences
  BY FS_Interval, MaxOccurrencesAssumption DEF Ordinals
<1>2. IsFiniteSet(S) /\ Cardinality(S) <= MaxOccurrences
  BY <1>1, FS_Subset
<1> QED
  BY <1>2, FS_CardinalityType, MaxOccurrencesAssumption

\* What has a prefix of the ordinals recorded is restored to its length.
LEMMA PrefixCount ==
  ASSUME NEW c \in 0..MaxOccurrences
  PROVE  Cardinality(0..(c - 1)) = c
BY FS_Interval, MaxOccurrencesAssumption

LEMMA EventsFinite == IsFiniteSet(Events)
<1>1. IsFiniteSet(Contents) /\ IsFiniteSet(Ordinals)
  BY FS_Interval, ContentCountAssumption, MaxOccurrencesAssumption DEF Contents, Ordinals
<1> QED
  BY <1>1, FS_Product DEF Events

\* An answer that has a row of a content has all the rows before it.
LEMMA AnswerIsGapless ==
  ASSUME TypeOK, NEW since \in Nat,
         NEW k \in Contents, NEW n \in Ordinals, NEW m \in Ordinals,
         <<k, n>> \in Answer(since), m < n
  PROVE  <<k, m>> \in Answer(since)
<1> DEFINE Ahead(r) == {q \in RowsOf(1..happened) : Before(q, r)}
<1> n \in Nat /\ m \in Nat /\ Rows[k] \in Nat /\ k \in Nat
  BY ConstantTypes
<1>1. Ahead(<<k, m>>) \subseteq Ahead(<<k, n>>)
  <2> SUFFICES ASSUME NEW q \in RowsOf(1..happened), Before(q, <<k, m>>)
               PROVE  Before(q, <<k, n>>)
    OBVIOUS
  <2> q[1] \in Nat /\ q[2] \in Nat
    BY ConstantTypes DEF RowsOf, Events
  <2> QED
    BY DEF Before
<1>2. IsFiniteSet(Ahead(<<k, n>>))
  BY EventsFinite, FS_Subset DEF RowsOf
<1>3. Cardinality(Ahead(<<k, m>>)) <= Cardinality(Ahead(<<k, n>>))
  BY <1>1, <1>2, FS_Subset
<1>4. /\ Cardinality(Ahead(<<k, m>>)) \in Nat
      /\ Cardinality(Ahead(<<k, n>>)) \in Nat
  BY <1>1, <1>2, FS_Subset, FS_CardinalityType
<1>5. WithinLimit(<<k, n>>) /\ <<k, n>> \in RowsOf(since..happened)
  BY DEF Answer
<1>6. WithinLimit(<<k, m>>)
  BY <1>3, <1>4, <1>5, LimitAssumption DEF WithinLimit
<1>7. <<k, m>> \in RowsOf(since..happened)
  BY <1>5 DEF RowsOf, Events
<1> QED
  BY <1>6, <1>7 DEF Answer

\* An answer but for the contents of which no row parsed.
AnsweredBut(skipped) ==
  LET rows == {r \in Answer(feed.since) : r[1] \notin skipped}
  IN  /\ feed' = [IdleFeed EXCEPT !.pc = Resume(rows), !.batch = rows]
      /\ overlapped' = overlapped \cup ({r[1] : r \in rows} \cap UnderWay)
      /\ LeaveUnowed(Truncated(feed.since) \cup skipped)

LEMMA AnsweredInPart ==
  ASSUME BackfillAnswered
  PROVE  \E skipped \in Unreadable(Answer(feed.since)) : AnsweredBut(skipped)
BY DEF BackfillAnswered, AnsweredBut

(***************************************************************************)
(* Types.                                                                  *)
(***************************************************************************)
LEMMA InitType == Init => TypeOK
<1> SUFFICES ASSUME Init PROVE TypeOK
  OBVIOUS
<1> USE ConstantTypes DEF Init
<1>1. IndexTypeOK
  BY DEF IndexInit, IndexTypeOK
<1>2. feed \in FeedRecord
  BY ContentCountAssumption DEF IdleFeed, FeedRecord
<1>3. /\ wire \in Seq(Contents)
      /\ channel \in Seq(Message)
      /\ Len(channel) <= Capacity
  BY EmptySeq, CapacityAssumption
<1>4. copied \in [Contents -> [Ordinals -> Nat]]
  OBVIOUS
<1>5. durable \in [Contents -> SUBSET Ordinals]
  OBVIOUS
<1>6. happened \in 0..ContentCount /\ last \in 0..(ContentCount + 1)
  OBVIOUS
<1>7. drops \in 0..MaxDrops /\ crashes \in 0..MaxCrashes
  BY BoundsAssumption
<1> QED
  BY <1>1, <1>2, <1>3, <1>4, <1>5, <1>6, <1>7 DEF TypeOK

LEMMA LeftUnowedType ==
  ASSUME TypeOK, NEW S, LeaveUnowed(S)
  PROVE  unowed' \subseteq Contents
BY TrackedAssumption DEF LeaveUnowed, TypeOK

\* The venue and the client.
LEMMA VenueType ==
  ASSUME TypeOK, Happen \/ TimePasses
  PROVE  TypeOK'
<1> USE ConstantTypes
<1>1. CASE Happen
  <2> DEFINE k == happened + 1
             rows == [i \in 1..Rows[k] |-> k]
  <2>1. k \in Contents
    BY <1>1 DEF Happen, TypeOK, Contents
  <2>2. rows \in Seq(Contents)
    <3> HIDE DEF k
    <3>1. Rows[k] \in 1..MaxOccurrences
      BY <2>1
    <3>2. Rows[k] \in Nat
      BY <3>1
    <3>3. rows \in [1..Rows[k] -> Contents]
      BY <2>1
    <3> QED
      BY <3>2, <3>3, SeqDef
  <2>3. wire \o rows \in Seq(Contents)
    BY <2>2, ConcatProperties DEF TypeOK
  <2>4. wire' \in Seq(Contents)
    BY <1>1, <2>3 DEF Happen, TypeOK
  <2>5. happened' \in 0..ContentCount
    BY <1>1 DEF Happen, TypeOK
  <2>6. unowed' \subseteq Contents
    BY <1>1, LeftUnowedType DEF Happen
  <2> QED
    BY <1>1, <2>4, <2>5, <2>6 DEF Happen, TypeOK, IndexTypeOK
<1>2. CASE TimePasses
  <2>1. aged' \subseteq Contents
    BY <1>2 DEF TimePasses
  <2>2. old' \subseteq Contents
    BY <1>2 DEF TimePasses, TypeOK, Contents
  <2> QED
    BY <1>2, <2>1, <2>2 DEF TimePasses, TypeOK, IndexTypeOK
<1> QED
  BY <1>1, <1>2

LEMMA ReportType ==
  ASSUME TypeOK, NEW kind \in {"trade", "down"}, NEW at \in 1..(ContentCount + 1),
         Report(kind, at)
  PROVE  channel' \in Seq(Message) /\ Len(channel') <= Capacity
BY AppendProperties, LenProperties, CapacityAssumption DEF Report, Message, TypeOK

LEMMA GapFromType ==
  ASSUME TypeOK PROVE GapFrom \subseteq 1..(ContentCount + 1)
BY ContentCountAssumption DEF GapFrom, TypeOK

LEMMA ClientType ==
  ASSUME TypeOK, ClientStep
  PROVE  TypeOK'
<1> USE ConstantTypes
<1>1. CASE Connect
  BY <1>1 DEF Connect, TypeOK, IndexTypeOK
<1>2. CASE ConnectFails
  <2>1. channel' \in Seq(Message) /\ Len(channel') <= Capacity
    BY <1>2, ReportType, GapFromType DEF ConnectFails
  <2>2. drops' \in 0..MaxDrops
    BY <1>2, BoundsAssumption DEF ConnectFails, TypeOK
  <2> QED
    BY <1>2, <2>1, <2>2 DEF ConnectFails, TypeOK, IndexTypeOK
<1>3. CASE ReadFrame
  <2>1. Head(wire) \in Contents /\ Tail(wire) \in Seq(Contents)
    BY <1>3, HeadTailProperties DEF ReadFrame, TypeOK
  <2>2. Head(wire) \in 1..(ContentCount + 1)
    BY <2>1 DEF Contents
  <2>3. last' \in 0..(ContentCount + 1)
    BY <1>3 DEF ReadFrame, EnvelopeStamps, TypeOK
  <2>4. channel' \in Seq(Message) /\ Len(channel') <= Capacity
    BY <1>3, <2>2, ReportType DEF ReadFrame
  <2> QED
    BY <1>3, <2>1, <2>3, <2>4 DEF ReadFrame, TypeOK, IndexTypeOK
<1>5. CASE SkipFrame
  <2>1. Tail(wire) \in Seq(Contents)
    BY <1>5, HeadTailProperties DEF SkipFrame, TypeOK
  <2>2. unowed' \subseteq Contents
    BY <1>5, LeftUnowedType DEF SkipFrame
  <2> QED
    BY <1>5, <2>1, <2>2 DEF SkipFrame, TypeOK, IndexTypeOK
<1>4. CASE LoseConnection
  <2>1. channel' \in Seq(Message) /\ Len(channel') <= Capacity
    BY <1>4, ReportType, GapFromType DEF LoseConnection
  <2>2. drops' \in 0..MaxDrops
    BY <1>4, BoundsAssumption DEF LoseConnection, TypeOK
  <2>4. unowed' \subseteq Contents
    BY <1>4, LeftUnowedType DEF LoseConnection
  <2>5. wire' \in Seq(Contents)
    BY <1>4, EmptySeq DEF LoseConnection
  <2> QED
    BY <1>4, <2>1, <2>2, <2>4, <2>5 DEF LoseConnection, TypeOK, IndexTypeOK
<1> QED
  BY <1>1, <1>2, <1>3, <1>4, <1>5 DEF ClientStep

LEMMA ReceivedType ==
  ASSUME TypeOK, NEW kind, Received(kind)
  PROVE  /\ Head(channel) \in Message
         /\ channel' \in Seq(Message)
         /\ Len(channel') <= Capacity
<1>1. /\ Head(channel) \in Message
      /\ Tail(channel) \in Seq(Message)
      /\ Len(Tail(channel)) = Len(channel) - 1
  BY HeadTailProperties DEF Received, TypeOK
<1>2. Len(channel) \in Nat
  BY LenProperties DEF TypeOK
<1> QED
  BY <1>1, <1>2, CapacityAssumption DEF Received, TypeOK

LEMMA HandOutType ==
  ASSUME TypeOK, NEW k \in Contents, NEW n \in Ordinals, HandOut(k, n)
  PROVE  IndexTypeOK'
<1>1. n + 1 \in 0..MaxOccurrences
  BY MaxOccurrencesAssumption DEF Ordinals
<1> QED
  BY <1>1 DEF HandOut, TypeOK, IndexTypeOK

\* The feed task, taking what is in its channel or an answer.
LEMMA ReceiveType ==
  ASSUME TypeOK, TradeIsNew \/ TradeIsDropped \/ BackfillGap
  PROVE  TypeOK'
<1> USE ConstantTypes
<1>1. CASE TradeIsNew
  <2> DEFINE k == Head(channel).at
  <2>1. k \in Contents
    BY <1>1, TrackedAssumption DEF TradeIsNew
  <2>2. counts[k] \in Ordinals
    BY <1>1, <2>1 DEF TradeIsNew, LiveIsNew, Ordinals, TypeOK, IndexTypeOK
  <2>3. IndexTypeOK'
    BY <1>1, <2>1, <2>2, HandOutType DEF TradeIsNew
  <2>4. feed' \in FeedRecord
    <3>1. <<k, counts[k]>> \in Events
      BY <2>1, <2>2 DEF Events
    <3>2. feed' = [pc |-> "recording", since |-> 1, batch |-> {},
                   event |-> <<k, counts[k]>>]
      BY <1>1 DEF TradeIsNew, IdleFeed
    <3> QED
      BY <3>1, <3>2, ContentCountAssumption DEF FeedRecord
  <2>5. channel' \in Seq(Message) /\ Len(channel') <= Capacity
    BY <1>1, ReceivedType DEF TradeIsNew
  <2> QED
    BY <1>1, <2>3, <2>4, <2>5 DEF TradeIsNew, TypeOK
<1>2. CASE TradeIsDropped
  <2>1. channel' \in Seq(Message) /\ Len(channel') <= Capacity
    BY <1>2, ReceivedType DEF TradeIsDropped
  <2> QED
    BY <1>2, <2>1 DEF TradeIsDropped, TypeOK, IndexTypeOK
<1>3. CASE BackfillGap
  <2>1. /\ channel' \in Seq(Message) /\ Len(channel') <= Capacity
        /\ Head(channel) \in Message
    BY <1>3, ReceivedType DEF BackfillGap
  <2>2. feed' \in FeedRecord
    BY <1>3, <2>1 DEF BackfillGap, IdleFeed, FeedRecord, Message
  <2> QED
    BY <1>3, <2>1, <2>2 DEF BackfillGap, TypeOK, IndexTypeOK
<1> QED
  BY <1>1, <1>2, <1>3

LEMMA BackfillType ==
  ASSUME TypeOK, BackfillAnswered \/ BackfillFails
  PROVE  TypeOK'
<1>1. IdleFeed \in FeedRecord
  BY ContentCountAssumption DEF IdleFeed, FeedRecord
<1>2. unowed' \subseteq Contents
  BY LeftUnowedType DEF BackfillAnswered, BackfillFails
<1>3. CASE BackfillAnswered
  <2>1. PICK skipped \in Unreadable(Answer(feed.since)) :
          AnsweredBut(skipped)
    BY <1>3, AnsweredInPart
  <2>2. {r \in Answer(feed.since) : r[1] \notin skipped} \subseteq Events
    BY DEF Answer, RowsOf
  <2>3. feed' \in FeedRecord
    BY <1>1, <2>1, <2>2 DEF AnsweredBut, IdleFeed, FeedRecord, Resume
  <2>4. {r[1] : r \in {r \in Answer(feed.since) : r[1] \notin skipped}} \subseteq Contents
    BY <2>2 DEF Events
  <2>5. overlapped' \subseteq Contents
    BY <2>1, <2>4 DEF AnsweredBut, TypeOK
  <2> QED
    BY <1>2, <1>3, <2>3, <2>5 DEF BackfillAnswered, TypeOK, IndexTypeOK
<1>4. CASE BackfillFails
  BY <1>1, <1>2, <1>4 DEF BackfillFails, TypeOK, IndexTypeOK
<1> QED
  BY <1>3, <1>4

LEMMA RowType ==
  ASSUME TypeOK, NEW r \in Events, RowIsNew(r) \/ RowIsDuplicate(r)
  PROVE  TypeOK'
<1> r[1] \in Contents /\ r[2] \in Ordinals /\ r = <<r[1], r[2]>>
  BY DEF Events
<1>1. CASE RowIsNew(r)
  <2>1. IndexTypeOK'
    BY <1>1, HandOutType DEF RowIsNew, Claimed
  <2>2. feed' \in FeedRecord
    BY <1>1 DEF RowIsNew, Claimed, TypeOK, FeedRecord
  <2> QED
    BY <1>1, <2>1, <2>2 DEF RowIsNew, TypeOK
<1>2. CASE RowIsDuplicate(r)
  <2>1. feed' \in FeedRecord
    BY <1>2 DEF RowIsDuplicate, Resume, TypeOK, FeedRecord
  <2> QED
    BY <1>2, <2>1 DEF RowIsDuplicate, TypeOK, IndexTypeOK
<1> QED
  BY <1>1, <1>2

\* The fill in hand is recorded, or not, and copied.
LEMMA HandOnType ==
  ASSUME TypeOK, FillInHand, Record \/ RecordFails \/ CopyTrade
  PROVE  TypeOK'
<1>1. feed.event[1] \in Contents /\ feed.event[2] \in Ordinals
  BY DEF FillInHand, HandingOn, Events, Record, RecordFails, CopyTrade
<1>2. feed' \in FeedRecord
  BY DEF Record, RecordFails, CopyTrade, Resume, TypeOK, FeedRecord
<1>3. CASE Record
  <2>1. durable' \in [Contents -> SUBSET Ordinals]
    BY <1>1, <1>3 DEF Record, TypeOK
  <2> QED
    BY <1>2, <1>3, <2>1 DEF Record, TypeOK, IndexTypeOK
<1>4. CASE RecordFails
  BY <1>1, <1>2, <1>4 DEF RecordFails, TypeOK, IndexTypeOK
<1>5. CASE CopyTrade
  <2> DEFINE k == feed.event[1]
             n == feed.event[2]
             more == [copied[k] EXCEPT ![n] = copied[k][n] + 1]
  <2>1. copied[k] \in [Ordinals -> Nat]
    BY <1>1 DEF TypeOK
  <2>2. copied[k][n] + 1 \in Nat
    BY <1>1, <2>1
  <2>3. copied' \in [Contents -> [Ordinals -> Nat]]
    <3>1. copied' = [copied EXCEPT ![k] = more]
      BY <1>5 DEF CopyTrade
    <3>2. more \in [Ordinals -> Nat]
      BY <2>1, <2>2
    <3> HIDE DEF more
    <3> QED
      BY <1>1, <3>1, <3>2 DEF TypeOK
  <2> QED
    BY <1>2, <1>5, <2>3 DEF CopyTrade, TypeOK, IndexTypeOK
<1> QED
  BY <1>3, <1>4, <1>5

\* Housekeeping and restart.
LEMMA RestartType ==
  ASSUME TypeOK, Evict \/ CrashAndRecover
  PROVE  TypeOK'
<1>1. CASE Evict
  <2>1. IndexTypeOK'
    BY <1>1, MaxOccurrencesAssumption DEF Evict, EvictOlder, TypeOK, IndexTypeOK
  <2> QED
    BY <1>1, <2>1 DEF Evict, TypeOK, IndexTypeOK
<1>2. CASE CrashAndRecover
  <2>1. /\ Occurrences \in [Contents -> 0..MaxOccurrences]
        /\ NoOccurrences \in [Contents -> 0..MaxOccurrences]
    BY OrdinalCount, MaxOccurrencesAssumption DEF Occurrences, NoOccurrences, TypeOK
  <2>2. IndexTypeOK'
    BY <1>2, <2>1 DEF CrashAndRecover, RestoreIndex, IndexTypeOK
  <2>3. feed' \in FeedRecord
    BY <1>2, ContentCountAssumption DEF CrashAndRecover, IdleFeed, FeedRecord
  <2>4. /\ wire' \in Seq(Contents)
        /\ channel' \in Seq(Message) /\ Len(channel') <= Capacity
    BY <1>2, EmptySeq, CapacityAssumption DEF CrashAndRecover
  <2>5. last' \in 0..(ContentCount + 1) /\ crashes' \in 0..MaxCrashes
    BY <1>2, ContentCountAssumption, BoundsAssumption DEF CrashAndRecover, TypeOK
  <2>6. unowed' \subseteq Contents
    BY <1>2, LeftUnowedType DEF CrashAndRecover
  <2>7. forgotten' \subseteq Contents
    BY <1>2 DEF CrashAndRecover, TypeOK
  <2>8. connected' \in BOOLEAN
    BY <1>2 DEF CrashAndRecover
  <2> QED
    BY <1>2, <2>2, <2>3, <2>4, <2>5, <2>6, <2>7, <2>8 DEF CrashAndRecover, TypeOK
<1> QED
  BY <1>1, <1>2

LEMMA NextType ==
  ASSUME TypeOK, FillInHand, [Next]_vars
  PROVE  TypeOK'
<1>1. CASE Next
  BY <1>1, VenueType, ClientType, ReceiveType, BackfillType, RowType, HandOnType,
     RestartType DEF Next, FeedStep
<1>2. CASE UNCHANGED vars
  BY <1>2 DEF vars, TypeOK, IndexTypeOK
<1> QED
  BY <1>1, <1>2

(***************************************************************************)
(* The dedup index, source_events and the fill in hand.                    *)
(***************************************************************************)
\* Nothing in hand: the database has exactly what was handed out.
LEMMA NothingInHand ==
  ASSUME RecordedIsPrefix, feed.pc # "recording",
         NEW k \in Contents, k \notin forgotten
  PROVE  durable[k] = 0..(counts[k] - 1)
BY DEF RecordedIsPrefix, Recorded

LEMMA InitLedger == Init => Ledger
<1> SUFFICES ASSUME Init PROVE Ledger
  OBVIOUS
<1>1. feed.pc = "idle" /\ feed.event = None /\ feed.batch = {}
  BY DEF Init, IdleFeed
<1>2. \A k \in Contents : durable[k] = {} /\ counts[k] = 0
  BY DEF Init, IndexInit
<1>3. \A k \in Contents, n \in Ordinals : copied[k][n] = 0
  BY DEF Init
<1>4. FillInHand /\ InHandIsLast /\ BatchIsGapless
  BY <1>1 DEF FillInHand, HandingOn, InHandIsLast, BatchIsGapless
<1>5. RecordedIsPrefix
  <2> SUFFICES ASSUME NEW k \in Contents PROVE durable[k] = 0..(Recorded(k) - 1)
    BY DEF RecordedIsPrefix
  <2>1. Recorded(k) = 0
    BY <1>1, <1>2 DEF Recorded
  <2> QED
    BY <1>2, <2>1
<1>6. CopiedIsRecorded
  BY <1>3 DEF CopiedIsRecorded
<1> QED
  BY <1>4, <1>5, <1>6 DEF Ledger

\* Steps that touch none of it.
LEMMA ElsewhereLedger ==
  ASSUME Ledger, UNCHANGED <<counts, feed, durable, copied, forgotten>>
  PROVE  Ledger'
BY DEF Ledger, FillInHand, HandingOn, InHandIsLast, RecordedIsPrefix, Recorded,
       CopiedIsRecorded, BatchIsGapless

\* A fill is handed out: the ordinal after those handed out, unless its
\* content is forgotten, and with the rows before it handed out too.
LEMMA HandOutLedger ==
  ASSUME TypeOK, Ledger, ~HandingOn,
         NEW k \in Contents, NEW n \in Ordinals, HandOut(k, n),
         k \notin forgotten => n = counts[k],
         feed'.pc = "recording", feed'.event = <<k, n>>,
         feed'.batch \in {{}, feed.batch \ {<<k, n>>}},
         UNCHANGED <<durable, copied, forgotten>>
  PROVE  Ledger'
<1> USE ConstantTypes
<1>0. /\ \A j \in Contents : counts[j] \in Nat
      /\ counts' = [counts EXCEPT ![k] = n + 1]
      /\ counts'[k] = n + 1 /\ n \in Nat
      /\ \A j \in Contents : j # k => counts'[j] = counts[j]
      /\ forgotten \subseteq Contents
  BY DEF HandOut, TypeOK, IndexTypeOK
<1>1. FillInHand'
  BY DEF FillInHand, HandingOn, Events
<1>2. InHandIsLast'
  BY <1>0 DEF InHandIsLast, HandingOn
<1>3. \A j \in Contents : j \notin forgotten => durable[j] = 0..(counts[j] - 1)
  BY NothingInHand DEF Ledger, HandingOn
<1>4. RecordedIsPrefix'
  <2> SUFFICES ASSUME NEW j \in Contents, j \notin forgotten
               PROVE  durable[j] = 0..(Recorded(j)' - 1)
    BY DEF RecordedIsPrefix
  <2>1. Recorded(j)' = counts[j]
    BY <1>0 DEF Recorded
  <2> QED
    BY <1>3, <2>1
<1>5. CopiedIsRecorded'
  <2> SUFFICES ASSUME NEW j \in Contents, NEW m \in Ordinals,
                      j \notin forgotten, copied[j][m] > 0
               PROVE  m \in durable[j] /\ <<k, n>> # <<j, m>>
    BY DEF CopiedIsRecorded
  <2>1. m \in durable[j]
    BY DEF Ledger, CopiedIsRecorded
  <2>2. m < counts[j]
    BY <1>0, <1>3, <2>1, SMTT(30)
  <2> QED
    BY <1>0, <2>1, <2>2
<1>6. BatchIsGapless'
  <2> SUFFICES ASSUME NEW j \in Contents, NEW q \in Ordinals, NEW m \in Ordinals,
                      j \notin forgotten, <<j, q>> \in feed'.batch, m < q
               PROVE  <<j, m>> \in feed'.batch \/ m < counts'[j]
    BY DEF BatchIsGapless
  <2>1. <<j, m>> \in feed.batch \/ m < counts[j]
    BY DEF Ledger, BatchIsGapless
  <2>2. counts[j] \in Nat /\ m \in Nat
    BY <1>0
  <2>3. CASE j # k
    BY <1>0, <2>1, <2>3
  <2>4. CASE j = k
    BY <1>0, <2>1, <2>2, <2>4
  <2> QED
    BY <2>3, <2>4
<1> QED
  BY <1>1, <1>2, <1>4, <1>5, <1>6 DEF Ledger

\* The task, with nothing in hand, comes to have other rows to go.
LEMMA BatchLedger ==
  ASSUME Ledger, ~HandingOn, BatchIsGapless',
         feed'.pc \in {"idle", "fetching", "batch"}, feed'.event = None,
         UNCHANGED <<counts, durable, copied, forgotten>>
  PROVE  Ledger'
<1>1. FillInHand' /\ InHandIsLast'
  BY DEF FillInHand, InHandIsLast, HandingOn
<1>2. RecordedIsPrefix'
  BY DEF Ledger, RecordedIsPrefix, Recorded, HandingOn
<1>3. CopiedIsRecorded'
  <2> SUFFICES ASSUME NEW k \in Contents, NEW n \in Ordinals,
                      k \notin forgotten, copied[k][n] > 0
               PROVE  n \in durable[k] /\ None # <<k, n>>
    BY DEF CopiedIsRecorded
  <2>1. <<k, n>> \in Events
    BY DEF Events
  <2> QED
    BY <2>1, ConstantTypes DEF Ledger, CopiedIsRecorded
<1> QED
  BY <1>1, <1>2, <1>3 DEF Ledger

LEMMA ReceiveLedger ==
  ASSUME TypeOK, Ledger, TradeIsNew \/ BackfillGap
  PROVE  Ledger'
<1>0. ~HandingOn /\ feed.pc = "idle"
  BY DEF HandingOn, TradeIsNew, BackfillGap, Received
<1>1. CASE TradeIsNew
  <2> DEFINE k == Head(channel).at
  <2>1. k \in Contents /\ HandOut(k, counts[k])
    BY <1>1, TrackedAssumption DEF TradeIsNew
  <2>2. counts[k] \in Ordinals
    <3>1. counts[k] \in 0..MaxOccurrences
      BY <2>1 DEF TypeOK, IndexTypeOK
    <3>2. counts[k] < MaxOccurrences
      BY <1>1 DEF TradeIsNew, LiveIsNew
    <3> QED
      BY <3>1, <3>2, MaxOccurrencesAssumption DEF Ordinals
  <2>3. /\ feed'.pc = "recording"
        /\ feed'.event = <<k, counts[k]>>
        /\ feed'.batch = {}
    BY <1>1 DEF TradeIsNew, IdleFeed
  <2> QED
    BY <1>0, <1>1, <2>1, <2>2, <2>3, HandOutLedger DEF TradeIsNew
<1>2. CASE BackfillGap
  <2>1. /\ feed'.pc = "fetching" /\ feed'.batch = {} /\ feed'.event = None
        /\ UNCHANGED <<counts, durable, copied, forgotten>>
    BY <1>2 DEF BackfillGap, IdleFeed
  <2>2. BatchIsGapless'
    BY <2>1 DEF BatchIsGapless
  <2> QED
    BY <1>0, <2>1, <2>2, BatchLedger
<1> QED
  BY <1>1, <1>2

LEMMA BackfillLedger ==
  ASSUME TypeOK, Ledger, BackfillAnswered \/ BackfillFails
  PROVE  Ledger'
<1>0. ~HandingOn /\ UNCHANGED <<counts, durable, copied, forgotten>>
  BY DEF HandingOn, BackfillAnswered, BackfillFails
<1>1. CASE BackfillAnswered
  <2>1. PICK skipped \in Unreadable(Answer(feed.since)) : AnsweredBut(skipped)
    BY <1>1, AnsweredInPart
  <2>2. /\ feed'.pc \in {"idle", "batch"}
        /\ feed'.event = None
        /\ feed'.batch = {r \in Answer(feed.since) : r[1] \notin skipped}
    BY <2>1 DEF AnsweredBut, IdleFeed, Resume
  <2>3. feed.since \in Nat
    BY ContentCountAssumption DEF TypeOK, FeedRecord
  <2>4. BatchIsGapless'
    <3> SUFFICES ASSUME NEW k \in Contents, NEW n \in Ordinals, NEW m \in Ordinals,
                        <<k, n>> \in feed'.batch, m < n
                 PROVE  <<k, m>> \in feed'.batch
      BY DEF BatchIsGapless
    <3>1. <<k, n>> \in Answer(feed.since) /\ k \notin skipped
      BY <2>2
    <3>2. <<k, m>> \in Answer(feed.since)
      BY <2>3, <3>1, AnswerIsGapless
    <3> QED
      BY <2>2, <3>1, <3>2
  <2> QED
    BY <1>0, <2>2, <2>4, BatchLedger
<1>2. CASE BackfillFails
  <2>1. feed'.pc = "idle" /\ feed'.batch = {} /\ feed'.event = None
    BY <1>2 DEF BackfillFails, IdleFeed
  <2>2. BatchIsGapless'
    BY <2>1 DEF BatchIsGapless
  <2> QED
    BY <1>0, <2>1, <2>2, BatchLedger
<1> QED
  BY <1>1, <1>2

\* The next row of an answer claims the ordinal of its position, and the rows
\* before it have gone before it.
LEMMA RowLedger ==
  ASSUME TypeOK, Ledger, NEW r \in Events, RowIsNew(r) \/ RowIsDuplicate(r)
  PROVE  Ledger'
<1> DEFINE k == r[1]
           n == r[2]
<1>a. /\ k \in Contents /\ n \in Ordinals /\ r = <<k, n>>
      /\ k \in Nat /\ n \in Nat
  <2>1. k \in Contents /\ n \in Ordinals /\ r = <<k, n>>
    BY DEF Events
  <2> QED
    BY <2>1, ConstantTypes
<1> USE ConstantTypes
<1>b. counts[k] \in 0..MaxOccurrences
  BY <1>a DEF TypeOK, IndexTypeOK
<1>c. /\ feed.pc = "batch"
      /\ r \in feed.batch
      /\ \A q \in feed.batch \ {r} : Before(r, q)
      /\ UNCHANGED <<durable, copied, forgotten>>
  BY DEF RowIsNew, RowIsDuplicate, NextRow
<1>d. ~HandingOn /\ feed.event = None
  BY <1>c DEF HandingOn, Ledger, FillInHand
<1>0. /\ k \in Contents /\ n \in Ordinals /\ r = <<k, n>>
      /\ k \in Nat /\ n \in Nat
      /\ counts[k] \in 0..MaxOccurrences
      /\ r \in feed.batch
      /\ \A q \in feed.batch \ {r} : Before(r, q)
      /\ ~HandingOn
      /\ feed.event = None
      /\ UNCHANGED <<durable, copied, forgotten>>
  BY <1>a, <1>b, <1>c, <1>d
<1>1. ASSUME NEW m \in Ordinals, m < n, k \notin forgotten
      PROVE  m < counts[k]
  <2>1. <<k, m>> \in feed.batch \/ m < counts[k]
    BY <1>0, <1>1 DEF Ledger, BatchIsGapless
  <2>2. <<k, m>> \notin feed.batch
    BY <1>0, <1>1 DEF Before
  <2> QED
    BY <2>1, <2>2
<1>2. CASE RowIsNew(r)
  <2>1. HandOut(k, n) /\ n >= counts[k]
    BY <1>2, <1>0 DEF RowIsNew, Claimed, BackfillIsNew
  <2>2. k \notin forgotten => n = counts[k]
    <3> SUFFICES ASSUME k \notin forgotten, n # counts[k] PROVE FALSE
      OBVIOUS
    <3>1. counts[k] < n /\ counts[k] \in Ordinals
      BY <1>0, <2>1 DEF Ordinals
    <3> QED
      BY <1>0, <1>1, <3>1
  <2>3. /\ feed'.pc = "recording"
        /\ feed'.event = <<k, n>>
        /\ feed'.batch = feed.batch \ {<<k, n>>}
    BY <1>0, <1>2 DEF RowIsNew, Claimed, TypeOK, FeedRecord
  <2> QED
    BY <1>0, <2>1, <2>2, <2>3, HandOutLedger
<1>3. CASE RowIsDuplicate(r)
  <2>1. /\ feed'.pc \in {"idle", "batch"}
        /\ feed'.event = None
        /\ feed'.batch = feed.batch \ {<<k, n>>}
        /\ counts' = counts
    BY <1>0, <1>3 DEF RowIsDuplicate, Resume, TypeOK, FeedRecord
  <2>2. n < counts[k]
    BY <1>0, <1>3 DEF RowIsDuplicate, Claimed, BackfillIsNew, Ordinals
  <2>3. BatchIsGapless'
    <3> SUFFICES ASSUME NEW j \in Contents, NEW q \in Ordinals, NEW m \in Ordinals,
                        j \notin forgotten, <<j, q>> \in feed'.batch, m < q
                 PROVE  <<j, m>> \in feed'.batch \/ m < counts[j]
      BY <1>0, <2>1 DEF BatchIsGapless
    <3>1. <<j, m>> \in feed.batch \/ m < counts[j]
      BY <2>1 DEF Ledger, BatchIsGapless
    <3> QED
      BY <2>1, <2>2, <3>1
  <2> QED
    BY <1>0, <2>1, <2>3, BatchLedger
<1> QED
  BY <1>2, <1>3

\* The fill in hand is recorded.  If that fails its content is forgotten.
LEMMA RecordLedger ==
  ASSUME TypeOK, Ledger, Record \/ RecordFails
  PROVE  Ledger'
<1> DEFINE k == feed.event[1]
           n == feed.event[2]
<1> USE ConstantTypes
<1>1. /\ feed.pc = "recording" /\ HandingOn
      /\ feed' = [feed EXCEPT !.pc = "copying"]
      /\ UNCHANGED <<counts, copied>>
      /\ forgotten \subseteq forgotten'
  BY DEF Record, RecordFails, HandingOn
<1>2. /\ feed'.pc = "copying" /\ feed'.event = feed.event /\ feed'.batch = feed.batch
  BY <1>1 DEF TypeOK, FeedRecord
<1>3. feed.event \in Events /\ k \in Contents /\ n \in Ordinals
  BY <1>1 DEF Ledger, FillInHand, Events
<1>4. FillInHand' /\ InHandIsLast' /\ BatchIsGapless'
  BY <1>1, <1>2 DEF Ledger, FillInHand, InHandIsLast, BatchIsGapless, HandingOn
<1>5. \A j \in Contents : j \notin forgotten' =>
        /\ durable[j] \subseteq durable'[j]
        /\ durable'[j] = 0..(counts[j] - 1)
  <2> SUFFICES ASSUME NEW j \in Contents, j \notin forgotten'
               PROVE  /\ durable[j] \subseteq durable'[j]
                      /\ durable'[j] = 0..(counts[j] - 1)
    OBVIOUS
  <2>1. j \notin forgotten
    BY <1>1
  <2>2. durable[j] = 0..(Recorded(j) - 1)
    BY <2>1 DEF Ledger, RecordedIsPrefix
  <2>3. counts[j] \in Nat
    BY DEF TypeOK, IndexTypeOK
  <2>4. CASE j # k
    <3>1. durable'[j] = durable[j] /\ Recorded(j) = counts[j]
      BY <1>3, <2>4 DEF Record, RecordFails, Recorded, TypeOK
    <3> QED
      BY <2>2, <3>1
  <2>5. CASE j = k
    <3>1. Record
      BY <2>1, <2>5, <1>1 DEF RecordFails
    <3>2. durable'[k] = durable[k] \cup {n}
      BY <1>3, <3>1 DEF Record, TypeOK
    <3>3. n = counts[k] - 1 /\ Recorded(k) = counts[k] - 1 /\ n \in Nat
      BY <1>1, <1>3, <2>1, <2>5 DEF Ledger, InHandIsLast, Recorded
    <3>4. durable[k] = 0..(n - 1)
      BY <2>2, <2>3, <2>5, <3>3
    <3>5. (0..(n - 1)) \cup {n} = 0..n
      BY <3>3
    <3>6. durable'[k] = 0..n /\ durable[k] \subseteq durable'[k]
      BY <3>2, <3>4, <3>5
    <3>7. n = counts[k] - 1
      BY <3>3
    <3> QED
      BY <2>5, <3>6, <3>7
  <2> QED
    BY <2>4, <2>5
<1>6. RecordedIsPrefix'
  BY <1>1, <1>2, <1>5 DEF RecordedIsPrefix, Recorded
<1>7. CopiedIsRecorded'
  BY <1>1, <1>2, <1>5 DEF Ledger, CopiedIsRecorded
<1> QED
  BY <1>4, <1>6, <1>7 DEF Ledger

\* The fill in hand is copied, and has not been copied before.
LEMMA CopyOncePerIdentity ==
  ASSUME TypeOK, Ledger, CopyTrade
  PROVE  /\ feed.event[1] \in Contents
         /\ feed.event[2] \in Ordinals
         /\ feed.event[1] \notin forgotten => copied[feed.event[1]][feed.event[2]] = 0
<1> DEFINE k == feed.event[1]
           n == feed.event[2]
<1>1. feed.event \in Events
  BY DEF CopyTrade, HandingOn, Ledger, FillInHand
<1>2. k \in Contents /\ n \in Ordinals /\ feed.event = <<k, n>>
  BY <1>1 DEF Events
<1>3. copied[k][n] \in Nat
  BY <1>2 DEF TypeOK
<1>4. k \notin forgotten => ~(copied[k][n] > 0)
  BY <1>2 DEF Ledger, CopiedIsRecorded
<1> QED
  BY <1>2, <1>3, <1>4

LEMMA CopyLedger ==
  ASSUME TypeOK, Ledger, CopyTrade
  PROVE  Ledger'
<1> DEFINE k == feed.event[1]
           n == feed.event[2]
<1> USE ConstantTypes
<1>1. k \in Contents /\ n \in Ordinals
  BY CopyOncePerIdentity
<1>2. /\ feed.pc = "copying" /\ HandingOn
      /\ UNCHANGED <<counts, durable, forgotten>>
  BY DEF CopyTrade, HandingOn
<1>3. /\ feed'.pc \in {"idle", "batch"}
      /\ feed'.event = None
      /\ feed'.batch = feed.batch
  BY DEF CopyTrade, Resume, TypeOK, FeedRecord
<1>4. FillInHand' /\ InHandIsLast' /\ BatchIsGapless'
  BY <1>2, <1>3 DEF Ledger, FillInHand, InHandIsLast, BatchIsGapless, HandingOn
<1>5. RecordedIsPrefix'
  BY <1>2, <1>3 DEF Ledger, RecordedIsPrefix, Recorded
<1>6. CopiedIsRecorded'
  <2> SUFFICES ASSUME NEW j \in Contents, NEW m \in Ordinals,
                      j \notin forgotten, copied'[j][m] > 0
               PROVE  m \in durable[j] /\ None # <<j, m>>
    BY <1>2, <1>3 DEF CopiedIsRecorded
  <2>1. None # <<j, m>>
    BY DEF Events
  <2>2. CASE j = k /\ m = n
    <3>1. durable[k] = 0..(counts[k] - 1) /\ n = counts[k] - 1 /\ n \in Nat
      BY <1>1, <1>2, <2>2, NothingInHand DEF Ledger, InHandIsLast
    <3> QED
      BY <2>1, <2>2, <3>1
  <2>3. CASE ~(j = k /\ m = n)
    <3>1. copied'[j][m] = copied[j][m]
      BY <1>1, <2>3 DEF CopyTrade, TypeOK
    <3> QED
      BY <2>1, <3>1 DEF Ledger, CopiedIsRecorded
  <2> QED
    BY <2>2, <2>3
<1> QED
  BY <1>4, <1>5, <1>6 DEF Ledger

\* Contents evicted from the index are forgotten, and the counts of the others
\* stay.
LEMMA EvictLedger ==
  ASSUME TypeOK, Ledger, Evict
  PROVE  Ledger'
<1>1. /\ UNCHANGED <<feed, durable, copied>>
      /\ forgotten' = forgotten \cup aged
      /\ \A k \in Contents : k \notin forgotten' => counts'[k] = counts[k]
  BY DEF Evict, EvictOlder, TypeOK, IndexTypeOK
<1>2. FillInHand'
  BY <1>1 DEF Ledger, FillInHand, HandingOn
<1>3. InHandIsLast'
  <2> SUFFICES ASSUME HandingOn, feed.event[1] \notin forgotten'
               PROVE  feed.event[2] = counts'[feed.event[1]] - 1
    BY <1>1 DEF InHandIsLast, HandingOn
  <2>1. feed.event[1] \in Contents
    BY DEF Ledger, FillInHand, Events
  <2> QED
    BY <1>1, <2>1 DEF Ledger, InHandIsLast
<1>4. RecordedIsPrefix'
  <2> SUFFICES ASSUME NEW k \in Contents, k \notin forgotten'
               PROVE  durable[k] = 0..(Recorded(k)' - 1)
    BY <1>1 DEF RecordedIsPrefix
  <2>1. Recorded(k)' = Recorded(k)
    BY <1>1 DEF Recorded
  <2> QED
    BY <1>1, <2>1 DEF Ledger, RecordedIsPrefix
<1>5. CopiedIsRecorded' /\ BatchIsGapless'
  BY <1>1 DEF Ledger, CopiedIsRecorded, BatchIsGapless
<1> QED
  BY <1>2, <1>3, <1>4, <1>5 DEF Ledger

\* A restart restores the count of a content to the number of its rows in
\* source_events, and nothing that was copied lacks its row.
LEMMA RestartLedger ==
  ASSUME TypeOK, Ledger, CrashAndRecover
  PROVE  Ledger'
<1> USE ConstantTypes
<1>1. /\ feed'.pc = "idle" /\ feed'.event = None /\ feed'.batch = {}
      /\ UNCHANGED <<durable, copied>>
      /\ forgotten \subseteq forgotten'
  BY DEF CrashAndRecover, IdleFeed
<1>2. FillInHand' /\ InHandIsLast' /\ BatchIsGapless'
  BY <1>1 DEF FillInHand, InHandIsLast, BatchIsGapless, HandingOn
<1>3. RecordedIsPrefix'
  <2> SUFFICES ASSUME NEW k \in Contents, k \notin forgotten'
               PROVE  durable[k] = 0..(counts'[k] - 1)
    BY <1>1 DEF RecordedIsPrefix, Recorded
  <2>1. durable[k] = 0..(Recorded(k) - 1)
    BY <1>1 DEF Ledger, RecordedIsPrefix
  <2>2. counts[k] \in 0..MaxOccurrences
    BY DEF TypeOK, IndexTypeOK
  <2>3. Recorded(k) \in 0..MaxOccurrences
    <3>1. CASE feed.pc = "recording" /\ feed.event[1] = k
      <4>1. HandingOn /\ feed.event[2] \in Ordinals
        BY <3>1 DEF HandingOn, Ledger, FillInHand, Events
      <4>2. feed.event[2] = counts[k] - 1 /\ feed.event[2] \in Nat
        BY <1>1, <3>1, <4>1 DEF Ledger, InHandIsLast
      <4> QED
        BY <2>2, <3>1, <4>2 DEF Recorded
    <3>2. CASE ~(feed.pc = "recording" /\ feed.event[1] = k)
      BY <2>2, <3>2 DEF Recorded
    <3> QED
      BY <3>1, <3>2
  <2>4. Cardinality(durable[k]) = Recorded(k)
    BY <2>1, <2>3, PrefixCount
  <2>5. CASE /\ RestoreIndex(Occurrences)
             /\ forgotten' = forgotten \cup {j \in old : durable[j] # {}}
    <3>1. CASE k \in old
      <4>1. durable[k] = {} /\ counts'[k] = 0
        BY <2>5, <3>1 DEF RestoreIndex, Occurrences
      <4> QED
        BY <4>1
    <3>2. CASE k \notin old
      <4>1. counts'[k] = Cardinality(durable[k])
        BY <2>5, <3>2 DEF RestoreIndex, Occurrences
      <4> QED
        BY <2>1, <2>4, <4>1
    <3> QED
      BY <3>1, <3>2
  <2>6. CASE /\ RestoreIndex(NoOccurrences)
             /\ forgotten' = forgotten \cup {j \in Contents : durable[j] # {}}
    <3>1. counts'[k] = 0 /\ durable[k] = {}
      BY <2>6 DEF RestoreIndex, NoOccurrences
    <3> QED
      BY <3>1
  <2> QED
    BY <2>5, <2>6 DEF CrashAndRecover
<1>4. CopiedIsRecorded'
  <2> SUFFICES ASSUME NEW k \in Contents, NEW n \in Ordinals,
                      k \notin forgotten', copied[k][n] > 0
               PROVE  n \in durable[k] /\ None # <<k, n>>
    BY <1>1 DEF CopiedIsRecorded
  <2>1. <<k, n>> \in Events
    BY DEF Events
  <2> QED
    BY <1>1, <2>1 DEF Ledger, CopiedIsRecorded
<1> QED
  BY <1>2, <1>3, <1>4 DEF Ledger

LEMMA NextLedger ==
  ASSUME TypeOK, Ledger, [Next]_vars
  PROVE  Ledger'
<1>1. CASE UNCHANGED <<counts, feed, durable, copied, forgotten>>
  BY <1>1, ElsewhereLedger
<1>2. CASE FeedStep
  BY <1>2, ElsewhereLedger, ReceiveLedger, BackfillLedger, RowLedger, RecordLedger,
     CopyLedger DEF FeedStep, TradeIsDropped
<1>3. CASE Evict \/ CrashAndRecover
  BY <1>3, EvictLedger, RestartLedger
<1>4. CASE Happen \/ TimePasses \/ ClientStep
  BY <1>1, <1>4 DEF Happen, TimePasses, ClientStep, Connect, ConnectFails, ReadFrame,
     SkipFrame, LoseConnection
<1>5. CASE UNCHANGED vars
  BY <1>1, <1>5 DEF vars
<1> QED
  BY <1>2, <1>3, <1>4, <1>5 DEF Next

LEMMA Invariance == Spec => []IInv
<1>1. Init => IInv
  BY InitType, InitLedger DEF IInv
<1>2. IInv /\ [Next]_vars => IInv'
  BY NextType, NextLedger DEF IInv, Ledger
<1> QED
  BY <1>1, <1>2, PTL DEF Spec

(***************************************************************************)
(* The theorems.                                                           *)
(***************************************************************************)

\* Every variable keeps its type: the channel never holds more than its
\* capacity, no count of the dedup index passes the ceiling, and no ordinal is
\* handed out or recorded that is not below it (DedupIndex, RtdsClient::run).
THEOREM TypeCorrect == Spec => []TypeOK
<1>1. IInv => TypeOK
  BY DEF IInv
<1> QED
  BY <1>1, Invariance, PTL

\* A step of the feed is a step of the promise, or none at all.
LEMMA StepKeepsPromise ==
  ASSUME IInv, [Next]_vars
  PROVE  [Promise!Next]_<<copied, forgotten>>
<1> USE DEF IInv
<1>1. CASE CopyTrade
  <2> DEFINE k == feed.event[1]
             n == feed.event[2]
  <2>1. /\ k \in Contents /\ n \in Ordinals
        /\ copied[k][n] = 0 \/ k \in forgotten
    BY <1>1, CopyOncePerIdentity
  <2>2. /\ copied' = [copied EXCEPT ![k][n] = @ + 1]
        /\ UNCHANGED forgotten
    BY <1>1 DEF CopyTrade
  <2> QED
    BY <2>1, <2>2 DEF Promise!Next, Promise!Copy
<1>2. CASE RecordFails \/ Evict \/ CrashAndRecover
  <2>1. forgotten \subseteq forgotten' /\ UNCHANGED copied
    BY <1>2 DEF RecordFails, Evict, CrashAndRecover
  <2>2. forgotten' \in SUBSET Contents
    BY NextType DEF TypeOK, Ledger
  <2> QED
    BY <2>1, <2>2 DEF Promise!Next, Promise!Forget
<1>3. CASE Happen \/ TimePasses \/ ClientStep \/ UNCHANGED vars
  BY <1>3 DEF Happen, TimePasses, ClientStep, Connect, ConnectFails, ReadFrame,
     SkipFrame, LoseConnection, vars
<1>4. CASE FeedStep /\ ~RecordFails /\ ~CopyTrade
  BY <1>4 DEF FeedStep, TradeIsNew, TradeIsDropped, BackfillGap, BackfillAnswered,
     BackfillFails, RowIsNew, RowIsDuplicate, Record
<1> QED
  BY <1>1, <1>2, <1>3, <1>4 DEF Next

\* The ingestion of source fills implements the abstract promise: whatever
\* mixture of live rows, backfills, lost connections, evictions and restarts,
\* no identity is handed to the copy pipeline twice until its content is
\* forgotten (observe_live, observe_backfill, evict_older_than, restore).
THEOREM IdentitiesAreCopiedOnce == Spec => CopyOnceSpec
<1>1. Init => Promise!Init
  BY DEF Init, Promise!Init
<1>2. IInv /\ [Next]_vars => [Promise!Next]_<<copied, forgotten>>
  BY StepKeepsPromise
<1> QED
  BY <1>1, <1>2, Invariance, PTL DEF Spec, CopyOnceSpec, Promise!Spec
=============================================================================
