---------------------------- MODULE DeliveryProofs -----------------------------
(***************************************************************************)
(* Proofs about SourceFeed, for any contents, channel, limit, clock skew,  *)
(* faults and number of lost connections and crashes: how often a fill is  *)
(* copied, and when one may be missing.                                    *)
(*                                                                         *)
(* Both follow from counting what is on its way.  A content's rows on the  *)
(* wire and in the channel take the ordinals after those handed out; the   *)
(* rows of an answer claim theirs; and whatever is lost with a connection  *)
(* is owed by the backfill that its loss starts.                           *)
(***************************************************************************)
EXTENDS SourceFeedProofs, SumTheorems, FunctionTheorems

(***************************************************************************)
(* The rows on their way.                                                  *)
(***************************************************************************)
Occurs(s, x) == Cardinality({i \in 1..Len(s) : s[i] = x})

Trade(k) == [kind |-> "trade", at |-> k]

\* Live rows of content k that are still to reach the feed task.
Coming(k) == Occurs(wire, k) + Occurs(channel, Trade(k))

\* The task has copied identity n of content k, or is about to.
Taken(k, n) == copied[k][n] > 0 \/ feed.event = <<k, n>>

Unknown(k) ==
  /\ counts[k] = 0 /\ durable[k] = {} /\ k \notin aged
  /\ Coming(k) = 0
  /\ \A n \in Ordinals : ~Taken(k, n) /\ <<k, n>> \notin feed.batch

\* Nothing is known of a content before it happens.
NothingAhead == \A k \in Contents : k > happened => Unknown(k)

\* There is nothing on the wire while it is down.
WireWhileUp == ~connected => wire = <<>>

\* No backfill starts after what happens next.
BackfillsReachBack ==
  /\ last <= happened + 1
  /\ \A i \in 1..Len(channel) :
       channel[i].kind = "down" => channel[i].at <= happened + 1
  /\ feed.pc = "fetching" => feed.since <= happened + 1

\* An answer is worked off before anything else is received.
BatchInProgress ==
  /\ feed.batch # {} => feed.pc \in {"batch", "recording", "copying"}
  /\ \A r \in feed.batch : r[2] < Rows[r[1]]

Order == /\ NothingAhead
         /\ WireWhileUp
         /\ BackfillsReachBack
         /\ BatchInProgress

(***************************************************************************)
(* Not too many.                                                           *)
(***************************************************************************)

\* The rows to come find ordinals below the number of rows, for an answer
\* that has rows of the content came when none were to come.
RoomFor(k) ==
  /\ counts[k] + Coming(k) <= Rows[k]
  /\ \A n \in Ordinals :
       /\ <<k, n>> \in feed.batch => Coming(k) = 0
       /\ Taken(k, n) \/ n \in durable[k] => n < Rows[k]

Room == \A k \in Contents \ overlapped : RoomFor(k)

\* No identity of a content that is remembered was copied twice.
OnceEach ==
  \A k \in Contents \ forgotten : \A n \in Ordinals : copied[k][n] <= 1

(***************************************************************************)
(* Not too few.                                                            *)
(***************************************************************************)
Done(k) == FillsCopied(k) >= Rows[k]

\* The index holds no ordinal that was not taken, an answer leaps over none,
\* and while live rows are to come the index has forgotten none.
IndexHonest(k) ==
  /\ \A n \in Ordinals : n < counts[k] => Taken(k, n)
  /\ \A n, m \in Ordinals : <<k, n>> \in feed.batch /\ m < n =>
       <<k, m>> \in feed.batch \/ Taken(k, m)
  /\ Coming(k) > 0 =>
       /\ k \notin aged
       /\ \A n \in Ordinals : Taken(k, n) => n < counts[k]

\* A backfill that is yet to be answered reaches back to content k.
Owed(k) ==
  \/ \E i \in 1..Len(channel) : channel[i].kind = "down" /\ channel[i].at <= k
  \/ feed.pc = "fetching" /\ feed.since <= k

\* Every row of content k was taken or is in the answer being worked off.
Answered(k) ==
  \A n \in Ordinals : n < Rows[k] => Taken(k, n) \/ <<k, n>> \in feed.batch

\* The rows to come are as many as are missing.
Live(k) == Coming(k) > 0 /\ counts[k] + Coming(k) >= Rows[k]

Delivered(k) ==
  /\ IndexHonest(k)
  /\ k <= happened => Owed(k) \/ Answered(k) \/ Live(k)

Delivery == \A k \in Tracked \ unowed : Done(k) \/ Delivered(k)

\* The ordinals below a number of rows.
LEMMA FirstNaturals ==
  ASSUME NEW n \in Nat
  PROVE  IsFiniteSet(0..(n - 1)) /\ Cardinality(0..(n - 1)) = n
<1> DEFINE m == n - 1
<1>1. m \in Int /\ 0 \in Int
  OBVIOUS
<1> HIDE DEF m
<1>2. IsFiniteSet(0..m) /\ Cardinality(0..m) = IF 0 > m THEN 0 ELSE m - 0 + 1
  BY ONLY <1>1, FS_Interval
<1>3. (IF 0 > m THEN 0 ELSE m - 0 + 1) = n
  BY DEF m
<1> QED
  BY ONLY <1>2, <1>3 DEF m

(***************************************************************************)
(* Occurrences in a sequence.                                              *)
(***************************************************************************)
Positions(s, x) == {i \in 1..Len(s) : s[i] = x}

LEMMA OccursType ==
  ASSUME NEW S, NEW s \in Seq(S), NEW x
  PROVE  /\ IsFiniteSet(Positions(s, x))
         /\ Occurs(s, x) \in Nat
         /\ Occurs(s, x) > 0 <=> \E i \in 1..Len(s) : s[i] = x
<1>1. IsFiniteSet(1..Len(s))
  BY LenProperties, FS_Interval
<1>2. IsFiniteSet(Positions(s, x))
  BY <1>1, FS_Subset DEF Positions
<1>3. Occurs(s, x) = Cardinality(Positions(s, x))
  BY DEF Occurs, Positions
<1>4. Occurs(s, x) \in Nat /\ (Occurs(s, x) = 0 <=> Positions(s, x) = {})
  BY <1>2, <1>3, FS_CardinalityType, FS_EmptySet
<1> QED
  BY <1>2, <1>4 DEF Positions

LEMMA OccursInEmpty ==
  ASSUME NEW x
  PROVE  Occurs(<<>>, x) = 0
<1>1. {i \in 1..Len(<<>>) : <<>>[i] = x} = {}
  BY EmptySeq
<1> QED
  BY <1>1, FS_EmptySet DEF Occurs

LEMMA OccursAppended ==
  ASSUME NEW S, NEW s \in Seq(S), NEW y \in S, NEW x
  PROVE  Occurs(Append(s, y), x) = Occurs(s, x) + (IF y = x THEN 1 ELSE 0)
<1> DEFINE n == Len(s) + 1
           t == Append(s, y)
<1>1. Len(s) \in Nat
  BY LenProperties
<1>2. /\ Len(t) = n
      /\ \A i \in 1..Len(s) : t[i] = s[i]
      /\ t[n] = y
  BY AppendProperties
<1>3. Positions(t, x) = IF y = x THEN Positions(s, x) \cup {n} ELSE Positions(s, x)
  <2> HIDE DEF t
  <2>1. 1..n = (1..Len(s)) \cup {n}
    BY <1>1
  <2> QED
    BY <1>2, <2>1 DEF Positions
<1>4. n \notin Positions(s, x)
  BY <1>1 DEF Positions
<1>5. Occurs(s, x) \in Nat /\ IsFiniteSet(Positions(s, x))
  BY OccursType
<1>6. /\ Occurs(s, x) = Cardinality(Positions(s, x))
      /\ Occurs(t, x) = Cardinality(Positions(t, x))
  BY DEF Occurs, Positions
<1> HIDE DEF t
<1>7. Cardinality(Positions(s, x) \cup {n}) = Cardinality(Positions(s, x)) + 1
  BY <1>4, <1>5, FS_AddElement
<1>8. Occurs(t, x) = Occurs(s, x) + (IF y = x THEN 1 ELSE 0)
  BY <1>3, <1>5, <1>6, <1>7
<1> QED
  BY <1>8 DEF t

LEMMA OccursTail ==
  ASSUME NEW S, NEW s \in Seq(S), s # <<>>, NEW x
  PROVE  Occurs(s, x) = Occurs(Tail(s), x) + (IF Head(s) = x THEN 1 ELSE 0)
<1> DEFINE t == Tail(s)
           P == Positions(t, x)
           Q == Positions(s, x) \ {1}
           f == [i \in P |-> i + 1]
<1>1. /\ t \in Seq(S)
      /\ Len(t) = Len(s) - 1
      /\ \A i \in 1..Len(t) : t[i] = s[i + 1]
      /\ Len(s) \in Nat \ {0}
  BY HeadTailProperties, EmptySeq
<1>2. Head(s) = s[1]
  BY DEF Head
<1> HIDE DEF t
<1>3. f \in [P -> Q]
  BY <1>1 DEF Positions
<1>4. \A a, b \in P : f[a] = f[b] => a = b
  BY DEF Positions
<1>5. \A c \in Q : \E a \in P : f[a] = c
  <2> SUFFICES ASSUME NEW c \in Q PROVE \E a \in P : f[a] = c
    OBVIOUS
  <2>1. c - 1 \in 1..Len(t) /\ c \in Int
    BY <1>1 DEF Positions
  <2>2. t[c - 1] = s[c - 1 + 1] /\ c - 1 + 1 = c
    BY <1>1, <2>1
  <2>3. c - 1 \in P
    BY <2>1, <2>2 DEF Positions
  <2> QED
    BY <2>2, <2>3
<1>6. ExistsBijection(P, Q)
  BY <1>3, <1>4, <1>5, Fun_IsBij, Fun_ExistsBij
<1>7. IsFiniteSet(P) /\ IsFiniteSet(Positions(s, x)) /\ Occurs(t, x) \in Nat
      /\ Occurs(s, x) \in Nat
  BY <1>1, OccursType
<1>8. Cardinality(Q) = Cardinality(P)
  BY <1>6, <1>7, FS_Bijection
<1>9. 1 \in Positions(s, x) <=> Head(s) = x
  BY <1>1, <1>2 DEF Positions
<1>10. /\ Occurs(s, x) = Cardinality(Positions(s, x))
       /\ Occurs(t, x) = Cardinality(P)
  BY DEF Occurs, Positions
<1>11. Cardinality(Q) = Cardinality(Positions(s, x)) - (IF Head(s) = x THEN 1 ELSE 0)
  <2>1. Cardinality(Q) = IF 1 \in Positions(s, x) THEN Cardinality(Positions(s, x)) - 1
                         ELSE Cardinality(Positions(s, x))
    BY <1>7, FS_RemoveElement
  <2>2. Cardinality(Positions(s, x)) \in Nat
    BY <1>7, <1>10
  <2> QED
    BY <1>9, <2>1, <2>2
<1>12. Occurs(s, x) = Occurs(t, x) + (IF Head(s) = x THEN 1 ELSE 0)
  BY <1>7, <1>8, <1>10, <1>11
<1> QED
  BY <1>12 DEF t

\* n times the same element after a sequence.
LEMMA OccursRepeated ==
  ASSUME NEW S, NEW s \in Seq(S), NEW y \in S, NEW n \in Nat, NEW x,
         NEW r, r = [i \in 1..n |-> y]
  PROVE  Occurs(s \o r, x) = Occurs(s, x) + (IF y = x THEN n ELSE 0)
<1> DEFINE t == s \o r
           N == (Len(s) + 1)..(Len(s) + n)
<1>1. r \in Seq(S) /\ Len(r) = n
  <2>1. r \in [1..n -> S]
    OBVIOUS
  <2> QED
    BY <2>1, SeqDef, LenProperties
<1>2. Len(s) \in Nat
  BY LenProperties
<1>3. /\ Len(t) = Len(s) + n
      /\ \A i \in 1..(Len(s) + n) : t[i] = IF i <= Len(s) THEN s[i] ELSE r[i - Len(s)]
  BY <1>1, ConcatProperties
<1>4. Positions(t, x) = IF y = x THEN Positions(s, x) \cup N ELSE Positions(s, x)
  <2> HIDE DEF t
  <2>1. 1..(Len(s) + n) = (1..Len(s)) \cup N
    BY <1>2
  <2>2. \A i \in 1..Len(s) : t[i] = s[i]
    BY <1>2, <1>3
  <2>3. \A i \in N : t[i] = y
    BY <1>2, <1>3
  <2> QED
    BY <1>3, <2>1, <2>2, <2>3 DEF Positions
<1>5. Positions(s, x) \cap N = {}
  BY <1>2 DEF Positions
<1>6. IsFiniteSet(N) /\ Cardinality(N) = n
  <2>1. Len(s) + 1 \in Int /\ Len(s) + n \in Int
    BY <1>2
  <2>2. IsFiniteSet(N) /\ Cardinality(N) =
          IF Len(s) + 1 > Len(s) + n THEN 0 ELSE (Len(s) + n) - (Len(s) + 1) + 1
    BY <2>1, FS_Interval
  <2> HIDE DEF N
  <2> QED
    BY <1>2, <2>2
<1>7. Occurs(s, x) \in Nat /\ IsFiniteSet(Positions(s, x))
  BY OccursType
<1>8. /\ Occurs(s, x) = Cardinality(Positions(s, x))
      /\ Occurs(t, x) = Cardinality(Positions(t, x))
  BY DEF Occurs, Positions
<1> HIDE DEF t, N
<1>9. Cardinality(Positions(s, x) \cup N) =
        Cardinality(Positions(s, x)) + Cardinality(N) - Cardinality(Positions(s, x) \cap N)
  BY <1>6, <1>7, FS_Union
<1>10. Cardinality(Positions(s, x) \cap N) = 0
  BY <1>5, FS_EmptySet
<1>11. Occurs(t, x) = Occurs(s, x) + (IF y = x THEN n ELSE 0)
  BY <1>4, <1>6, <1>7, <1>8, <1>9, <1>10
<1> QED
  BY <1>11 DEF t

(***************************************************************************)
(* What a step does to the rows on their way.                              *)
(***************************************************************************)
LEMMA ComingType ==
  ASSUME TypeOK, NEW k \in Contents
  PROVE  /\ Occurs(wire, k) \in Nat
         /\ Occurs(channel, Trade(k)) \in Nat
         /\ Coming(k) \in Nat
         /\ Coming(k) > 0 <=> k \in UnderWay
<1>1. /\ Occurs(wire, k) \in Nat
      /\ Occurs(wire, k) > 0 <=> \E i \in 1..Len(wire) : wire[i] = k
  BY OccursType DEF TypeOK
<1>2. /\ Occurs(channel, Trade(k)) \in Nat
      /\ Occurs(channel, Trade(k)) > 0 <=> \E i \in 1..Len(channel) : channel[i] = Trade(k)
  BY OccursType DEF TypeOK
<1>3. \A i \in 1..Len(channel) :
        channel[i] = Trade(k) <=> channel[i].kind = "trade" /\ channel[i].at = k
  <2>1. \A i \in 1..Len(channel) : channel[i] \in Message
    BY ElementOfSeq DEF TypeOK
  <2> QED
    BY <2>1 DEF Message, Trade
<1>4. k \in UnderWay <=>
        \/ \E i \in 1..Len(wire) : wire[i] = k
        \/ \E i \in 1..Len(channel) : channel[i].kind = "trade" /\ channel[i].at = k
  BY DEF UnderWay, OnWire
<1> QED
  BY <1>1, <1>2, <1>3, <1>4 DEF Coming

LEMMA ComingSame ==
  ASSUME UNCHANGED <<wire, channel>>, NEW k
  PROVE  Coming(k)' = Coming(k)
BY DEF Coming, Occurs, Trade

LEMMA ComingHappen ==
  ASSUME TypeOK, Happen, NEW k \in Contents
  PROVE  Coming(k)' = Coming(k) + (IF connected /\ k = happened + 1 THEN Rows[k] ELSE 0)
<1>1. channel' = channel
  BY DEF Happen
<1>2. CASE ~connected
  <2>1. wire' = wire
    BY <1>2 DEF Happen
  <2> QED
    BY <1>1, <1>2, <2>1, ComingSame, ComingType
<1>3. CASE connected
  <2> DEFINE j == happened + 1
  <2>1. j \in Contents
    BY ContentCountAssumption DEF Happen, TypeOK, Contents
  <2>2. Rows[j] \in Nat
    <3> HIDE DEF j
    <3>1. Rows[j] \in 1..MaxOccurrences
      BY <2>1, RowsAssumption
    <3> QED
      BY <3>1, MaxOccurrencesAssumption
  <2>3. wire' = wire \o [i \in 1..Rows[j] |-> j]
    BY <1>3 DEF Happen
  <2>4. wire \in Seq(Contents)
    BY DEF TypeOK
  <2>5. Occurs(wire', k) = Occurs(wire, k) + (IF j = k THEN Rows[j] ELSE 0)
    <3> DEFINE added == [i \in 1..Rows[j] |-> j]
    <3>1. wire' = wire \o added /\ added = [i \in 1..Rows[j] |-> j]
      BY <2>3
    <3> HIDE DEF j, added
    <3>2. Occurs(wire \o added, k) = Occurs(wire, k) + (IF j = k THEN Rows[j] ELSE 0)
      BY ONLY <2>1, <2>2, <2>4, <3>1, OccursRepeated
    <3> QED
      BY ONLY <3>1, <3>2
  <2>6. Coming(k)' = Occurs(wire', k) + Occurs(channel, Trade(k))
    BY <1>1 DEF Coming, Occurs, Trade
  <2> HIDE DEF j
  <2>7. /\ Coming(k) = Occurs(wire, k) + Occurs(channel, Trade(k))
        /\ Occurs(wire, k) \in Nat
        /\ Occurs(channel, Trade(k)) \in Nat
    BY ComingType DEF Coming
  <2>8. Coming(k)' = Coming(k) + (IF j = k THEN Rows[j] ELSE 0)
    BY <2>2, <2>5, <2>6, <2>7
  <2> QED
    BY <1>3, <2>8 DEF j
<1> QED
  BY <1>2, <1>3

\* A lost connection that is reported is no trade.
LEMMA ComingReport ==
  ASSUME TypeOK, NEW at \in 1..(ContentCount + 1), Report("down", at), NEW k
  PROVE  Occurs(channel, Trade(k))' = Occurs(channel, Trade(k))
<1> DEFINE m == [kind |-> "down", at |-> at]
<1>1. m \in Message /\ m # Trade(k)
  BY DEF Message, Trade
<1>2. channel \in Seq(Message) /\ channel' = Append(channel, m)
  BY DEF TypeOK, Report
<1>3. Occurs(channel', Trade(k)) = Occurs(channel, Trade(k)) + 0
  BY <1>1, <1>2, OccursAppended
<1>4. Occurs(channel, Trade(k)) \in Nat
  BY <1>2, OccursType
<1>5. Occurs(channel, Trade(k))' = Occurs(channel', Trade(k))
  BY DEF Occurs, Trade
<1> QED
  BY <1>3, <1>4, <1>5

LEMMA ComingRead ==
  ASSUME TypeOK, ReadFrame, NEW k \in Contents
  PROVE  Coming(k)' = Coming(k)
<1> DEFINE m == [kind |-> "trade", at |-> Head(wire)]
<1>1. wire \in Seq(Contents) /\ wire # <<>> /\ wire' = Tail(wire)
  BY DEF TypeOK, ReadFrame
<1>2. Head(wire) \in Contents
  BY <1>1, HeadTailProperties
<1>3. m \in Message /\ (m = Trade(k) <=> Head(wire) = k)
  BY <1>2, ConstantTypes DEF Message, Trade, Contents
<1>4. channel \in Seq(Message) /\ channel' = Append(channel, m)
  BY DEF TypeOK, ReadFrame, Report
<1>5. Occurs(channel', Trade(k)) =
        Occurs(channel, Trade(k)) + (IF m = Trade(k) THEN 1 ELSE 0)
  BY <1>3, <1>4, OccursAppended
<1>6. Occurs(wire, k) = Occurs(wire', k) + (IF Head(wire) = k THEN 1 ELSE 0)
  BY <1>1, OccursTail
<1>7. Coming(k)' = Occurs(wire', k) + Occurs(channel', Trade(k))
  BY DEF Coming, Occurs, Trade
<1>8. wire' \in Seq(Contents)
  BY <1>1, HeadTailProperties
<1>9. Occurs(wire', k) \in Nat /\ Occurs(channel, Trade(k)) \in Nat
  BY <1>8, <1>4, OccursType
<1>10. Coming(k) = Occurs(wire, k) + Occurs(channel, Trade(k))
  BY DEF Coming
<1> HIDE DEF m
<1> QED
  BY <1>3, <1>5, <1>6, <1>7, <1>9, <1>10

\* With the connection go the rows on the wire.
LEMMA ComingLost ==
  ASSUME TypeOK, LoseConnection, NEW k \in Contents
  PROVE  /\ Coming(k)' \in Nat
         /\ Coming(k)' <= Coming(k)
         /\ k \notin OnWire => Coming(k)' = Coming(k)
<1>1. PICK since \in GapFrom : Report("down", since)
  BY DEF LoseConnection
<1>2. Occurs(channel, Trade(k))' = Occurs(channel, Trade(k))
  BY <1>1, ComingReport, GapFromType
<1>3. Occurs(wire, k)' = 0
  <2>1. Occurs(wire, k)' = Occurs(<<>>, k)
    BY DEF LoseConnection, Occurs
  <2> QED
    BY <2>1, OccursInEmpty
<1>4. Occurs(wire, k) \in Nat /\ (k \notin OnWire => Occurs(wire, k) = 0)
  <2>1. /\ Occurs(wire, k) \in Nat
        /\ Occurs(wire, k) > 0 <=> \E i \in 1..Len(wire) : wire[i] = k
    BY OccursType DEF TypeOK
  <2> QED
    BY <2>1 DEF OnWire
<1>5. Occurs(channel, Trade(k)) \in Nat
  BY ComingType
<1>6. /\ Coming(k) = Occurs(wire, k) + Occurs(channel, Trade(k))
      /\ Coming(k)' = Occurs(wire, k)' + Occurs(channel, Trade(k))'
  BY DEF Coming
<1> QED
  BY <1>2, <1>3, <1>4, <1>5, <1>6

\* A frame that does not parse is lost alone.
LEMMA ComingSkipped ==
  ASSUME TypeOK, SkipFrame, NEW k \in Contents
  PROVE  /\ Coming(k)' \in Nat
         /\ Coming(k)' <= Coming(k)
         /\ k # Head(wire) => Coming(k)' = Coming(k)
<1>1. wire \in Seq(Contents) /\ wire # <<>> /\ wire' = Tail(wire) /\ UNCHANGED channel
  BY DEF TypeOK, SkipFrame
<1>2. Occurs(wire, k) = Occurs(wire', k) + (IF Head(wire) = k THEN 1 ELSE 0)
  BY <1>1, OccursTail
<1>3. wire' \in Seq(Contents)
  BY <1>1, HeadTailProperties
<1>4. Occurs(wire', k) \in Nat
  BY <1>3, OccursType
<1>5. /\ Coming(k) = Occurs(wire, k) + Occurs(channel, Trade(k))
      /\ Coming(k)' = Occurs(wire', k) + Occurs(channel, Trade(k))
      /\ Occurs(channel, Trade(k)) \in Nat
  BY <1>1, ComingType DEF Coming, Occurs, Trade
<1> QED
  BY <1>2, <1>4, <1>5

LEMMA ComingReceived ==
  ASSUME TypeOK, NEW kind, Received(kind), UNCHANGED wire, NEW k \in Contents
  PROVE  /\ Coming(k)' \in Nat
         /\ Coming(k) = Coming(k)' + (IF kind = "trade" /\ Head(channel).at = k THEN 1 ELSE 0)
<1>1. /\ channel \in Seq(Message) /\ channel # <<>>
      /\ channel' = Tail(channel)
      /\ Head(channel).kind = kind
  BY DEF TypeOK, Received
<1>2. Head(channel) \in Message /\ channel' \in Seq(Message)
  BY <1>1, HeadTailProperties
<1>3. Head(channel) = Trade(k) <=> kind = "trade" /\ Head(channel).at = k
  BY <1>1, <1>2 DEF Message, Trade
<1>4. Occurs(channel, Trade(k)) =
        Occurs(channel', Trade(k)) + (IF Head(channel) = Trade(k) THEN 1 ELSE 0)
  BY <1>1, OccursTail
<1>5. Occurs(channel', Trade(k)) \in Nat
  BY <1>2, OccursType
<1>6. /\ Coming(k) = Occurs(wire, k) + Occurs(channel, Trade(k))
      /\ Coming(k)' = Occurs(wire, k) + Occurs(channel', Trade(k))
      /\ Occurs(wire, k) \in Nat
  BY ComingType DEF Coming, Occurs, Trade
<1> QED
  BY <1>3, <1>4, <1>5, <1>6

LEMMA ComingNone ==
  ASSUME wire' = <<>>, channel' = <<>>, NEW k
  PROVE  Coming(k)' = 0
<1>1. Coming(k)' = Occurs(<<>>, k) + Occurs(<<>>, Trade(k))
  BY DEF Coming, Occurs, Trade
<1> QED
  BY <1>1, OccursInEmpty

(***************************************************************************)
(* What a step does to the contents it is not about.                       *)
(***************************************************************************)
Untouched(k) ==
  /\ counts'[k] = counts[k]
  /\ k \in aged' => k \in aged
  /\ Coming(k)' = Coming(k)
  /\ \A n \in Ordinals :
       /\ Taken(k, n)' <=> Taken(k, n)
       /\ <<k, n>> \in feed'.batch <=> <<k, n>> \in feed.batch
       /\ n \in durable'[k] => n \in durable[k] \/ Taken(k, n)

LEMMA UntouchedKeeps ==
  ASSUME TypeOK, TypeOK', NEW k \in Contents, Untouched(k)
  PROVE  /\ Unknown(k) => Unknown(k)'
         /\ RoomFor(k) => RoomFor(k)'
         /\ IndexHonest(k) => IndexHonest(k)'
         /\ Answered(k) => Answered(k)'
         /\ Live(k) => Live(k)'
<1> USE DEF Untouched
<1>1. Unknown(k) => Unknown(k)'
  <2>1. durable'[k] \subseteq Ordinals
    BY DEF TypeOK
  <2> QED
    BY <2>1 DEF Unknown
<1>2. RoomFor(k) => RoomFor(k)'
  BY DEF RoomFor
<1>3. IndexHonest(k) => IndexHonest(k)'
  BY DEF IndexHonest
<1>4. Answered(k) => Answered(k)'
  BY DEF Answered
<1>5. Live(k) => Live(k)'
  BY DEF Live
<1> QED
  BY <1>1, <1>2, <1>3, <1>4, <1>5

\* A step that takes nothing in or out of the hands of the task.
LEMMA ElsewhereUntouched ==
  ASSUME NEW k \in Contents, UNCHANGED <<counts, durable, copied>>, aged' \subseteq aged,
         Coming(k)' = Coming(k), feed'.event = feed.event, feed'.batch = feed.batch
  PROVE  Untouched(k)
BY DEF Untouched, Taken

LEMMA HappenUntouched ==
  ASSUME TypeOK, Happen, NEW k \in Contents, k # happened + 1
  PROVE  Untouched(k)
<1>1. Coming(k)' = Coming(k)
  BY ComingHappen, ComingType
<1> QED
  BY <1>1, ElsewhereUntouched DEF Happen

LEMMA ClientUntouched ==
  ASSUME TypeOK, Connect \/ ConnectFails \/ ReadFrame, NEW k \in Contents
  PROVE  Untouched(k)
<1>1. Coming(k)' = Coming(k)
  <2>1. CASE Connect
    BY <2>1, ComingSame DEF Connect
  <2>2. CASE ConnectFails
    <3>1. PICK since \in GapFrom : Report("down", since)
      BY <2>2 DEF ConnectFails
    <3>2. Occurs(channel, Trade(k))' = Occurs(channel, Trade(k))
      BY <3>1, ComingReport, GapFromType
    <3>3. Occurs(wire, k)' = Occurs(wire, k)
      BY <2>2 DEF ConnectFails, Occurs
    <3> QED
      BY <3>2, <3>3 DEF Coming
  <2> QED
    BY <2>1, <2>2, ComingRead
<1> QED
  BY <1>1, ElsewhereUntouched DEF Connect, ConnectFails, ReadFrame

\* The task takes a message: about content k, if it is a trade.
LEMMA ReceiveUntouched ==
  ASSUME TypeOK, FillInHand, BatchInProgress, NEW k \in Contents,
         \/ TradeIsNew /\ k # Head(channel).at
         \/ TradeIsDropped /\ k # Head(channel).at
         \/ BackfillGap
  PROVE  Untouched(k)
<1>1. Coming(k)' = Coming(k)
  <2>1. PICK kind \in {"trade", "down"} :
          Received(kind) /\ (kind = "trade" => k # Head(channel).at)
    BY DEF TradeIsNew, TradeIsDropped, BackfillGap
  <2>2. UNCHANGED wire
    BY DEF TradeIsNew, TradeIsDropped, BackfillGap
  <2>3. /\ Coming(k)' \in Nat
        /\ Coming(k) = Coming(k)' + (IF kind = "trade" /\ Head(channel).at = k THEN 1 ELSE 0)
    BY <2>1, <2>2, ComingReceived
  <2> QED
    BY <2>1, <2>3
<1>2. feed.event = None /\ feed.batch = {}
  BY DEF TradeIsNew, TradeIsDropped, BackfillGap, Received, FillInHand, HandingOn,
         BatchInProgress
<1>3. CASE TradeIsNew
  <2> DEFINE j == Head(channel).at
  <2>1. feed'.event = <<j, counts[j]>> /\ feed'.batch = {} /\ k # j
    <3>1. k # j
      BY <1>3 DEF TradeIsNew, Received, TradeIsDropped, BackfillGap
    <3> QED
      BY <1>3, <3>1 DEF TradeIsNew, IdleFeed
  <2>2. counts'[k] = counts[k] /\ aged' \subseteq aged
    BY <1>3, <2>1 DEF TradeIsNew, HandOut, TypeOK, IndexTypeOK
  <2>3. UNCHANGED <<copied, durable>>
    BY <1>3 DEF TradeIsNew
  <2>4. \A n \in Ordinals : None # <<k, n>>
    BY ConstantTypes DEF Events
  <2> HIDE DEF j
  <2> QED
    BY <1>1, <1>2, <2>1, <2>2, <2>3, <2>4 DEF Untouched, Taken
<1>4. CASE TradeIsDropped
  BY <1>1, <1>4, ElsewhereUntouched DEF TradeIsDropped
<1>5. CASE BackfillGap
  <2>1. feed'.event = None /\ feed'.batch = {}
    BY <1>5 DEF BackfillGap, IdleFeed
  <2> QED
    BY <1>1, <1>2, <1>5, <2>1, ElsewhereUntouched DEF BackfillGap
<1> QED
  BY <1>3, <1>4, <1>5

\* A fill in hand is recorded and copied: it stays taken.
LEMMA HandOnUntouched ==
  ASSUME TypeOK, FillInHand, Record \/ RecordFails \/ CopyTrade, NEW k \in Contents
  PROVE  Untouched(k)
<1> DEFINE j == feed.event[1]
           m == feed.event[2]
<1>1. /\ feed.event \in Events
      /\ j \in Contents /\ m \in Ordinals /\ feed.event = <<j, m>>
  BY DEF Record, RecordFails, CopyTrade, FillInHand, HandingOn, Events
<1>2. Coming(k)' = Coming(k)
  BY ComingSame DEF Record, RecordFails, CopyTrade
<1>3. UNCHANGED <<counts, aged>> /\ feed'.batch = feed.batch
  BY DEF Record, RecordFails, CopyTrade, TypeOK, FeedRecord
<1>4. CASE Record \/ RecordFails
  <2>1. UNCHANGED copied /\ feed'.event = feed.event
    BY <1>4 DEF Record, RecordFails, TypeOK, FeedRecord
  <2>2. durable' = [durable EXCEPT ![j] = @ \cup {m}] \/ durable' = durable
    BY <1>4 DEF Record, RecordFails
  <2>3. \A n \in durable'[k] : n \in durable[k] \/ feed.event = <<k, n>>
    <3>1. CASE durable' = durable
      BY <3>1
    <3>2. CASE durable' = [durable EXCEPT ![j] = @ \cup {m}]
      <4>1. durable'[k] = IF k = j THEN durable[k] \cup {m} ELSE durable[k]
        BY <1>1, <3>2 DEF TypeOK
      <4> QED
        BY <1>1, <4>1
    <3> QED
      BY <2>2, <3>1, <3>2
  <2> QED
    BY <1>2, <1>3, <2>1, <2>3 DEF Untouched, Taken
<1>5. CASE CopyTrade
  <2>1. /\ copied' = [copied EXCEPT ![j][m] = @ + 1]
        /\ UNCHANGED durable
        /\ feed'.event = None
    BY <1>5 DEF CopyTrade, TypeOK, FeedRecord
  <2>2. \A n \in Ordinals : copied[k][n] \in Nat /\ None # <<k, n>>
    BY ConstantTypes DEF TypeOK, Events
  <2>3. \A n \in Ordinals :
          copied'[k][n] = IF k = j /\ n = m THEN copied[k][n] + 1 ELSE copied[k][n]
    BY <1>1, <2>1 DEF TypeOK
  <2>4. \A n \in Ordinals : copied'[k][n] > 0 <=> copied[k][n] > 0 \/ feed.event = <<k, n>>
    BY <1>1, <2>2, <2>3
  <2> QED
    BY <1>2, <1>3, <2>1, <2>2, <2>4 DEF Untouched, Taken
<1> QED
  BY <1>4, <1>5

\* A row of an answer is worked off.
LEMMA RowUntouched ==
  ASSUME TypeOK, FillInHand, NEW r \in Events, RowIsNew(r) \/ RowIsDuplicate(r),
         NEW k \in Contents, k # r[1]
  PROVE  Untouched(k)
<1>1. Coming(k)' = Coming(k)
  BY ComingSame DEF RowIsNew, RowIsDuplicate
<1>2. /\ feed'.batch = feed.batch \ {r}
      /\ UNCHANGED <<durable, copied>>
      /\ feed.event = None
  BY DEF RowIsNew, RowIsDuplicate, NextRow, TypeOK, FeedRecord, FillInHand, HandingOn
<1>3. \A n \in Ordinals : /\ None # <<k, n>>
                          /\ <<k, n>> # r
  BY ConstantTypes DEF Events
<1>4. counts'[k] = counts[k] /\ aged' \subseteq aged
  BY DEF RowIsNew, RowIsDuplicate, HandOut, TypeOK, IndexTypeOK
<1>5. \A n \in Ordinals : feed'.event # <<k, n>>
  <2>1. feed'.event \in {None, <<r[1], Claimed(r[1], r[2])>>}
    BY <1>2 DEF RowIsNew, RowIsDuplicate, TypeOK, FeedRecord
  <2> QED
    BY <1>3, <2>1
<1> QED
  BY <1>1, <1>2, <1>3, <1>4, <1>5 DEF Untouched, Taken

\* The step that ends a fetch without rows, and the steps of nobody.
LEMMA FailUntouched ==
  ASSUME TypeOK, FillInHand, BatchInProgress, BackfillFails \/ UNCHANGED vars,
         NEW k \in Contents
  PROVE  Untouched(k)
<1>1. Coming(k)' = Coming(k)
  BY ComingSame DEF BackfillFails, vars
<1>2. feed'.event = feed.event /\ feed'.batch = feed.batch
  <2>1. CASE BackfillFails
    <3>1. feed.pc = "fetching" /\ feed' = IdleFeed
      BY <2>1 DEF BackfillFails
    <3>2. feed.event = None /\ feed.batch = {}
      BY <3>1 DEF FillInHand, HandingOn, BatchInProgress
    <3> QED
      BY <3>1, <3>2 DEF IdleFeed
  <2>2. CASE UNCHANGED vars
    BY <2>2 DEF vars
  <2> QED
    BY <2>1, <2>2
<1> QED
  BY <1>1, <1>2, ElsewhereUntouched DEF BackfillFails, vars

LEMMA EvictUntouched ==
  ASSUME TypeOK, Evict, NEW k \in Contents, k \notin aged
  PROVE  Untouched(k)
<1>1. Coming(k)' = Coming(k)
  BY ComingSame DEF Evict
<1> QED
  BY <1>1 DEF Evict, EvictOlder, Untouched, Taken

(***************************************************************************)
(* What a step does to the content it is about.                            *)
(***************************************************************************)
LEMMA CountType ==
  ASSUME TypeOK, NEW k \in Contents
  PROVE  /\ counts[k] \in Nat /\ counts[k] <= MaxOccurrences
         /\ Rows[k] \in Nat /\ 1 <= Rows[k] /\ Rows[k] <= MaxOccurrences
<1>1. counts[k] \in 0..MaxOccurrences /\ Rows[k] \in 1..MaxOccurrences
  BY RowsAssumption DEF TypeOK, IndexTypeOK
<1> QED
  BY <1>1, MaxOccurrencesAssumption

\* A live row takes the next ordinal.
LEMMA TradeTakes ==
  ASSUME TypeOK, FillInHand, BatchInProgress, TradeIsNew,
         NEW k \in Contents, k = Head(channel).at
  PROVE  /\ counts[k] \in Ordinals
         /\ counts'[k] = counts[k] + 1 /\ k \notin aged'
         /\ Coming(k)' \in Nat /\ Coming(k) = Coming(k)' + 1
         /\ UNCHANGED durable
         /\ \A n \in Ordinals : /\ Taken(k, n)' <=> Taken(k, n) \/ n = counts[k]
                                /\ <<k, n>> \notin feed.batch
                                /\ <<k, n>> \notin feed'.batch
<1>1. /\ counts' = [counts EXCEPT ![k] = counts[k] + 1]
      /\ aged' = aged \ {k}
      /\ feed'.event = <<k, counts[k]>> /\ feed'.batch = {}
      /\ UNCHANGED <<copied, durable>>
      /\ counts[k] < MaxOccurrences
  BY DEF TradeIsNew, HandOut, LiveIsNew, IdleFeed
<1>2. counts[k] \in 0..MaxOccurrences /\ counts'[k] = counts[k] + 1
  BY <1>1 DEF TypeOK, IndexTypeOK
<1>3. counts[k] \in Ordinals
  BY <1>1, <1>2, MaxOccurrencesAssumption DEF Ordinals
<1>4. /\ Coming(k)' \in Nat
      /\ Coming(k) = Coming(k)' + (IF "trade" = "trade" /\ Head(channel).at = k THEN 1 ELSE 0)
  <2>1. Received("trade") /\ UNCHANGED wire
    BY DEF TradeIsNew
  <2> QED
    BY <2>1, ComingReceived
<1>5. feed.event = None /\ feed.batch = {}
  BY DEF TradeIsNew, Received, FillInHand, HandingOn, BatchInProgress
<1>6. \A n \in Ordinals : Taken(k, n)' <=> Taken(k, n) \/ n = counts[k]
  <2> SUFFICES ASSUME NEW n \in Ordinals
               PROVE  Taken(k, n)' <=> Taken(k, n) \/ n = counts[k]
    OBVIOUS
  <2>1. None # <<k, n>>
    BY ConstantTypes DEF Events
  <2>2. feed'.event = <<k, n>> <=> n = counts[k]
    BY <1>1
  <2> QED
    BY <1>1, <1>5, <2>1, <2>2 DEF Taken
<1> QED
  BY <1>1, <1>2, <1>3, <1>4, <1>5, <1>6

\* A row of an answer takes the ordinal that it claims, the rows of the
\* content before it having gone.
LEMMA RowTakes ==
  ASSUME TypeOK, FillInHand, NEW r \in Events, RowIsNew(r),
         NEW k \in Contents, k = r[1]
  PROVE  /\ r[2] \in Ordinals /\ <<k, r[2]>> \in feed.batch
         /\ counts[k] <= r[2]
         /\ counts'[k] = r[2] + 1 /\ k \notin aged'
         /\ Coming(k)' = Coming(k)
         /\ UNCHANGED durable
         /\ \A n \in Ordinals : /\ Taken(k, n)' <=> Taken(k, n) \/ n = r[2]
                                /\ <<k, n>> \in feed'.batch <=> <<k, n>> \in feed.batch /\ n # r[2]
                                /\ n < r[2] => <<k, n>> \notin feed.batch
<1> DEFINE m == r[2]
<1>1. m \in Ordinals /\ r = <<k, m>> /\ m \in Nat /\ k \in Nat
  <2>1. m \in Ordinals /\ r = <<k, m>>
    BY DEF Events
  <2> QED
    BY <2>1, ConstantTypes
<1>2. /\ r \in feed.batch
      /\ \A q \in feed.batch \ {r} : Before(r, q)
      /\ counts' = [counts EXCEPT ![k] = m + 1]
      /\ aged' = aged \ {k}
      /\ m >= counts[k]
      /\ UNCHANGED <<copied, durable, wire, channel>>
  BY DEF RowIsNew, NextRow, HandOut, BackfillIsNew, Claimed
<1>3. feed'.event = <<k, m>> /\ feed'.batch = feed.batch \ {r}
  BY DEF RowIsNew, Claimed, TypeOK, FeedRecord
<1>4. feed.event = None
  BY DEF RowIsNew, NextRow, FillInHand, HandingOn
<1>5. counts'[k] = m + 1 /\ counts[k] <= m
  BY <1>1, <1>2 DEF TypeOK, IndexTypeOK
<1>6. Coming(k)' = Coming(k)
  BY <1>2, ComingSame
<1>7. \A n \in Ordinals : /\ Taken(k, n)' <=> Taken(k, n) \/ n = m
                          /\ <<k, n>> \in feed'.batch <=> <<k, n>> \in feed.batch /\ n # m
                          /\ n < m => <<k, n>> \notin feed.batch
  <2> SUFFICES ASSUME NEW n \in Ordinals
               PROVE  /\ Taken(k, n)' <=> Taken(k, n) \/ n = m
                      /\ <<k, n>> \in feed'.batch <=> <<k, n>> \in feed.batch /\ n # m
                      /\ n < m => <<k, n>> \notin feed.batch
    OBVIOUS
  <2>1. None # <<k, n>> /\ n \in Nat
    BY ConstantTypes DEF Events
  <2>2. Taken(k, n)' <=> Taken(k, n) \/ n = m
    BY <1>2, <1>3, <1>4, <2>1 DEF Taken
  <2>3. <<k, n>> \in feed'.batch <=> <<k, n>> \in feed.batch /\ n # m
    BY <1>1, <1>3
  <2>4. n < m => <<k, n>> \notin feed.batch
    <3> SUFFICES ASSUME n < m, <<k, n>> \in feed.batch PROVE FALSE
      OBVIOUS
    <3>1. <<k, n>> # r
      BY <1>1, <2>1
    <3>2. Before(<<k, m>>, <<k, n>>)
      BY <1>1, <1>2, <3>1
    <3> QED
      BY <1>1, <2>1, <3>2 DEF Before
  <2> QED
    BY <2>2, <2>3, <2>4
<1> QED
  BY <1>1, <1>2, <1>5, <1>6, <1>7

\* A row whose ordinal is held is dropped.
LEMMA RowIsHeld ==
  ASSUME TypeOK, FillInHand, NEW r \in Events, RowIsDuplicate(r),
         NEW k \in Contents, k = r[1]
  PROVE  /\ r[2] \in Ordinals /\ r[2] < counts[k]
         /\ UNCHANGED <<counts, aged, durable>>
         /\ Coming(k)' = Coming(k)
         /\ \A n \in Ordinals : /\ Taken(k, n)' <=> Taken(k, n)
                                /\ <<k, n>> \in feed'.batch <=> <<k, n>> \in feed.batch /\ n # r[2]
<1> DEFINE m == r[2]
<1>1. m \in Ordinals /\ r = <<k, m>> /\ m < MaxOccurrences
  BY MaxOccurrencesAssumption DEF Events, Ordinals
<1>2. /\ feed'.event = feed.event /\ feed'.batch = feed.batch \ {r}
      /\ UNCHANGED <<counts, aged, copied, durable, wire, channel>>
      /\ ~BackfillIsNew(k, m)
  BY DEF RowIsDuplicate, NextRow, Claimed, TypeOK, FeedRecord
<1>3. counts[k] \in Nat /\ m \in Nat
  BY <1>1, CountType, ConstantTypes
<1>4. m < counts[k]
  BY <1>1, <1>2, <1>3 DEF BackfillIsNew
<1>5. Coming(k)' = Coming(k)
  BY <1>2, ComingSame
<1> QED
  BY <1>1, <1>2, <1>4, <1>5 DEF Taken

\* An answer comes to a task with nothing in hand.
LEMMA AnswerCame ==
  ASSUME TypeOK, FillInHand, BatchInProgress, BackfillAnswered, NEW k \in Contents
  PROVE  /\ UNCHANGED <<counts, aged, durable, channel, happened>>
         /\ feed.since \in Nat
         /\ Coming(k)' = Coming(k)
         /\ feed'.pc = Resume(feed'.batch)
         /\ feed'.batch \subseteq Answer(feed.since)
         /\ \A n \in Ordinals : <<k, n>> \in feed'.batch /\ k \in UnderWay => k \in overlapped'
         /\ k \in Tracked \ unowed' => /\ k \notin Truncated(feed.since)
                                      /\ \A n \in Ordinals : <<k, n>> \in feed'.batch <=>
                                                            <<k, n>> \in Answer(feed.since)
         /\ \A n \in Ordinals : /\ Taken(k, n)' <=> Taken(k, n)
                                /\ <<k, n>> \notin feed.batch
<1>0. PICK skipped \in Unreadable(Answer(feed.since)) : AnsweredBut(skipped)
  BY AnsweredInPart
<1> DEFINE rows == {r \in Answer(feed.since) : r[1] \notin skipped}
<1>1. /\ feed'.event = None /\ feed'.batch = rows /\ feed'.pc = Resume(rows)
      /\ overlapped' = overlapped \cup ({r[1] : r \in rows} \cap UnderWay)
      /\ LeaveUnowed(Truncated(feed.since) \cup skipped)
      /\ UNCHANGED <<counts, aged, copied, durable, wire, channel, happened>>
  BY <1>0 DEF AnsweredBut, BackfillAnswered, IdleFeed
<1>5. \A n \in Ordinals : <<k, n>> \in rows /\ k \in UnderWay => k \in overlapped'
  <2> SUFFICES ASSUME NEW n \in Ordinals, <<k, n>> \in rows, k \in UnderWay
               PROVE  k \in overlapped'
    OBVIOUS
  <2>1. <<k, n>>[1] = k
    OBVIOUS
  <2>2. k \in {r[1] : r \in rows}
    BY <2>1
  <2> QED
    BY <1>1, <2>2
<1>6. k \in Tracked \ unowed' => k \notin Truncated(feed.since) /\ k \notin skipped
  BY <1>1 DEF LeaveUnowed
<1>7. \A n \in Ordinals : <<k, n>>[1] = k
  OBVIOUS
<1>8. k \in Tracked \ unowed' => /\ k \notin Truncated(feed.since)
                                /\ \A n \in Ordinals : <<k, n>> \in rows <=>
                                                      <<k, n>> \in Answer(feed.since)
  BY <1>6, <1>7
<1>9. rows \subseteq Answer(feed.since)
  OBVIOUS
<1> HIDE DEF rows
<1>2. feed.event = None /\ feed.batch = {}
  BY DEF BackfillAnswered, FillInHand, HandingOn, BatchInProgress
<1>3. Coming(k)' = Coming(k)
  BY <1>1, ComingSame
<1>4. feed.since \in Nat
  BY ContentCountAssumption DEF TypeOK, FeedRecord
<1> QED
  BY <1>1, <1>2, <1>3, <1>4, <1>5, <1>8, <1>9 DEF Taken

(***************************************************************************)
(* The order of events.                                                    *)
(***************************************************************************)
LEMMA InitOrder == Init => Order
<1> SUFFICES ASSUME Init PROVE Order
  OBVIOUS
<1>1. /\ feed.pc = "idle" /\ feed.event = None /\ feed.batch = {}
      /\ wire = <<>> /\ channel = <<>> /\ last = 0 /\ happened = 0
  BY DEF Init, IdleFeed
<1>2. NothingAhead
  <2> SUFFICES ASSUME NEW k \in Contents PROVE Unknown(k)
    BY DEF NothingAhead
  <2>1. Coming(k) = 0
    BY <1>1, OccursInEmpty DEF Coming
  <2>2. \A n \in Ordinals : None # <<k, n>> /\ copied[k][n] = 0
    BY ConstantTypes DEF Events, Init
  <2>3. counts[k] = 0 /\ durable[k] = {} /\ k \notin aged
    BY DEF Init, IndexInit
  <2> QED
    BY <1>1, <2>1, <2>2, <2>3 DEF Unknown, Taken
<1>3. BackfillsReachBack
  BY <1>1, EmptySeq DEF BackfillsReachBack
<1> QED
  BY <1>1, <1>2, <1>3 DEF Order, WireWhileUp, BatchInProgress

LEMMA HappenedGrows ==
  ASSUME TypeOK, [Next]_vars
  PROVE  happened' \in Nat /\ happened \in Nat /\ happened <= happened'
<1>1. happened' = happened \/ happened' = happened + 1
  BY DEF Next, ClientStep, FeedStep, Happen, TimePasses, Connect, ConnectFails, ReadFrame,
         SkipFrame, LoseConnection, TradeIsNew, TradeIsDropped, BackfillGap, BackfillAnswered,
         BackfillFails, RowIsNew, RowIsDuplicate, Record, RecordFails, CopyTrade, Evict,
         CrashAndRecover, vars
<1> QED
  BY <1>1, ContentCountAssumption DEF TypeOK

LEMMA NextAhead ==
  ASSUME TypeOK, TypeOK', FillInHand, Order, [Next]_vars
  PROVE  NothingAhead'
<1> SUFFICES ASSUME NEW k \in Contents, k > happened' PROVE Unknown(k)'
  BY DEF NothingAhead
<1> USE DEF Order
<1>0. k > happened /\ k \in Nat
  BY HappenedGrows, ConstantTypes
<1>1. Unknown(k)
  BY <1>0 DEF NothingAhead
<1>2. Untouched(k) => Unknown(k)'
  BY <1>1, UntouchedKeeps
<1>3. CASE Happen
  <2>1. k # happened + 1
    BY <1>3 DEF Happen
  <2> QED
    BY <1>2, <1>3, <2>1, HappenUntouched
<1>4. CASE TimePasses
  <2>1. k \notin aged'
    BY <1>1, <1>4 DEF TimePasses, Unknown
  <2>2. Coming(k)' = Coming(k)
    BY <1>4, ComingSame DEF TimePasses
  <2> QED
    BY <1>1, <1>4, <2>1, <2>2 DEF TimePasses, Unknown, Taken
<1>5. CASE LoseConnection
  <2>1. Coming(k)' \in Nat /\ Coming(k)' <= Coming(k)
    BY <1>5, ComingLost
  <2>2. Coming(k)' = 0
    BY <1>1, <2>1 DEF Unknown
  <2> QED
    BY <1>1, <1>5, <2>2 DEF LoseConnection, Unknown, Taken
<1>11. CASE SkipFrame
  <2>1. Coming(k)' \in Nat /\ Coming(k)' <= Coming(k)
    BY <1>11, ComingSkipped
  <2>2. Coming(k)' = 0
    BY <1>1, <2>1 DEF Unknown
  <2> QED
    BY <1>1, <1>11, <2>2 DEF SkipFrame, Unknown, Taken
<1>6. CASE TradeIsNew \/ TradeIsDropped
  <2>1. k # Head(channel).at
    <3> SUFFICES ASSUME k = Head(channel).at PROVE FALSE
      OBVIOUS
    <3>1. Received("trade") /\ UNCHANGED wire
      BY <1>6 DEF TradeIsNew, TradeIsDropped
    <3>2. /\ Coming(k)' \in Nat
          /\ Coming(k) = Coming(k)' + (IF "trade" = "trade" /\ Head(channel).at = k THEN 1 ELSE 0)
      BY <3>1, ComingReceived
    <3> QED
      BY <1>1, <3>2 DEF Unknown
  <2> QED
    BY <1>2, <1>6, <2>1, ReceiveUntouched
<1>7. CASE BackfillAnswered
  <2>1. /\ UNCHANGED <<counts, aged, durable, channel, happened>>
        /\ Coming(k)' = Coming(k)
        /\ feed'.batch \subseteq Answer(feed.since)
        /\ feed.since \in Nat
        /\ \A n \in Ordinals : Taken(k, n)' <=> Taken(k, n)
    BY <1>7, AnswerCame
  <2>2. \A n \in Ordinals : <<k, n>> \notin Answer(feed.since)
    BY <1>0, <2>1, HappenedGrows DEF Answer, RowsOf
  <2> QED
    BY <1>1, <2>1, <2>2 DEF Unknown
<1>8. CASE \E r \in Events : RowIsNew(r) \/ RowIsDuplicate(r)
  <2>1. PICK r \in Events : RowIsNew(r) \/ RowIsDuplicate(r)
    BY <1>8
  <2>2. r \in feed.batch
    BY <2>1 DEF RowIsNew, RowIsDuplicate, NextRow
  <2>3. k # r[1]
    BY <1>1, <2>2 DEF Unknown, Events
  <2> QED
    BY <1>2, <2>1, <2>3, RowUntouched
<1>9. CASE Evict
  <2>1. k \notin aged
    BY <1>1 DEF Unknown
  <2> QED
    BY <1>2, <1>9, <2>1, EvictUntouched
<1>10. CASE CrashAndRecover
  <2>1. Coming(k)' = 0
    BY <1>10, ComingNone DEF CrashAndRecover
  <2>2. counts'[k] = 0 /\ k \notin aged'
    <3>1. Cardinality(durable[k]) = 0
      BY <1>1, FS_EmptySet DEF Unknown
    <3>2. Occurrences[k] = 0 /\ NoOccurrences[k] = 0
      BY <3>1 DEF Occurrences, NoOccurrences
    <3> QED
      BY <1>10, <3>2 DEF CrashAndRecover, RestoreIndex
  <2>3. /\ feed'.event = None /\ feed'.batch = {}
        /\ UNCHANGED <<durable, copied>>
    BY <1>10 DEF CrashAndRecover, IdleFeed
  <2>4. \A n \in Ordinals : None # <<k, n>>
    BY ConstantTypes DEF Events
  <2> QED
    BY <1>1, <2>1, <2>2, <2>3, <2>4 DEF Unknown, Taken
<1> QED
  BY <1>2, <1>3, <1>4, <1>5, <1>6, <1>7, <1>8, <1>9, <1>10, <1>11, ClientUntouched,
     ReceiveUntouched, FailUntouched, HandOnUntouched DEF Next, ClientStep, FeedStep

LEMMA NextWire ==
  ASSUME WireWhileUp, [Next]_vars
  PROVE  WireWhileUp'
<1> USE DEF WireWhileUp
<1>1. CASE Happen \/ TimePasses
  BY <1>1 DEF Happen, TimePasses
<1>2. CASE ClientStep
  BY <1>2 DEF ClientStep, Connect, ConnectFails, ReadFrame, SkipFrame, LoseConnection
<1>3. CASE CrashAndRecover
  BY <1>3 DEF CrashAndRecover
<1>4. CASE FeedStep \/ Evict \/ UNCHANGED vars
  BY <1>4 DEF FeedStep, TradeIsNew, TradeIsDropped, BackfillGap, BackfillAnswered,
     BackfillFails, RowIsNew, RowIsDuplicate, Record, RecordFails, CopyTrade, Evict, vars
<1> QED
  BY <1>1, <1>2, <1>3, <1>4 DEF Next

\* The client saw nothing that did not happen, and reports no later start.
LEMMA ReportReachesBack ==
  ASSUME TypeOK, Order, NEW kind \in {"trade", "down"},
         NEW at \in 1..(ContentCount + 1), Report(kind, at), at <= happened + 1,
         happened' = happened
  PROVE  \A i \in 1..Len(channel') :
           channel'[i].kind = "down" => channel'[i].at <= happened' + 1
<1> DEFINE m == [kind |-> kind, at |-> at]
<1>1. m \in Message
  BY DEF Message
<1>2. channel \in Seq(Message) /\ channel' = Append(channel, m)
  BY DEF TypeOK, Report
<1>3. /\ Len(channel') = Len(channel) + 1
      /\ \A i \in 1..Len(channel) : channel'[i] = channel[i]
      /\ channel'[Len(channel) + 1] = m
      /\ Len(channel) \in Nat
  BY <1>1, <1>2, AppendProperties, LenProperties
<1>4. \A i \in 1..Len(channel) :
        channel[i].kind = "down" => channel[i].at <= happened + 1
  BY DEF Order, BackfillsReachBack
<1>5. \A i \in 1..Len(channel') : i \in 1..Len(channel) \/ i = Len(channel) + 1
  BY <1>3
<1>6. m.at = at
  OBVIOUS
<1> HIDE DEF m
<1> QED
  BY <1>3, <1>4, <1>5, <1>6

LEMMA GapReachesBack ==
  ASSUME TypeOK, Order, NEW since \in GapFrom
  PROVE  since <= happened + 1
BY ContentCountAssumption DEF GapFrom, Order, BackfillsReachBack, TypeOK

LEMMA WithinNext == \A a, b, c \in Nat : a <= b + 1 /\ b <= c => a <= c + 1
OBVIOUS

LEMMA NextReachesBack ==
  ASSUME TypeOK, Order, [Next]_vars
  PROVE  BackfillsReachBack'
<1>0. /\ last <= happened + 1
      /\ \A i \in 1..Len(channel) :
           channel[i].kind = "down" => channel[i].at <= happened + 1
      /\ feed.pc = "fetching" => feed.since <= happened + 1
  BY DEF Order, BackfillsReachBack
<1>1. happened' \in Nat /\ happened \in Nat /\ happened <= happened'
  BY HappenedGrows
<1>2. CASE last' = last /\ UNCHANGED <<channel, feed>>
  <2>1. \A i \in 1..Len(channel) : channel[i].kind = "down" => channel[i].at \in Nat
    <3>1. \A i \in 1..Len(channel) : channel[i] \in Message
      BY ElementOfSeq DEF TypeOK
    <3> QED
      BY <3>1, ContentCountAssumption DEF Message
  <2>2. feed.since \in Nat /\ last \in Nat
    BY ContentCountAssumption DEF TypeOK, FeedRecord
  <2>3. last' <= happened' + 1
    <3>1. last <= happened + 1 /\ last' = last
      BY <1>0, <1>2
    <3> QED
      BY ONLY <1>1, <2>2, <3>1, WithinNext, Zenon
  <2>4. \A i \in 1..Len(channel) :
          channel[i].kind = "down" => channel[i].at <= happened' + 1
    BY <1>0, <1>1, <2>1
  <2>5. feed.pc = "fetching" => feed.since <= happened' + 1
    BY <1>0, <1>1, <2>2
  <2> QED
    BY <1>2, <2>3, <2>4, <2>5 DEF BackfillsReachBack
<1>3. CASE ConnectFails \/ LoseConnection
  <2>1. PICK since \in GapFrom : Report("down", since)
    BY <1>3 DEF ConnectFails, LoseConnection
  <2>2. since \in 1..(ContentCount + 1) /\ since <= happened + 1
    BY <2>1, GapFromType, GapReachesBack
  <2>3. UNCHANGED <<happened, last, feed>>
    BY <1>3 DEF ConnectFails, LoseConnection
  <2>4. \A i \in 1..Len(channel') :
          channel'[i].kind = "down" => channel'[i].at <= happened' + 1
    BY <2>1, <2>2, <2>3, ReportReachesBack
  <2> QED
    BY <1>0, <2>3, <2>4 DEF BackfillsReachBack
<1>4. CASE ReadFrame
  <2> DEFINE k == Head(wire)
  <2>1. wire \in Seq(Contents) /\ wire # <<>>
    BY <1>4 DEF ReadFrame, TypeOK
  <2>2. k \in Contents
    BY <2>1, HeadTailProperties
  <2>3. k \in Nat /\ k \in 1..(ContentCount + 1)
    BY <2>2, ContentCountAssumption DEF Contents
  <2>4. k <= happened
    <3>1. Len(wire) \in Nat \ {0} /\ wire[1] = k
      BY <2>1, EmptySeq DEF Head
    <3>2. k \in UnderWay
      BY <3>1 DEF UnderWay, OnWire
    <3>3. Coming(k) > 0 /\ Coming(k) \in Nat
      BY <2>2, <3>2, ComingType
    <3>4. ~Unknown(k)
      BY <3>3 DEF Unknown
    <3> QED
      BY <1>1, <2>2, <2>3, <3>4 DEF Order, NothingAhead
  <2>5. Report("trade", k) /\ last' \in 1..(happened + 1) /\ UNCHANGED <<happened, feed>>
    BY <1>4 DEF ReadFrame, EnvelopeStamps
  <2>6. \A i \in 1..Len(channel') :
          channel'[i].kind = "down" => channel'[i].at <= happened' + 1
    <3>1. k <= happened + 1
      BY <1>1, <2>3, <2>4
    <3> QED
      BY <2>3, <2>5, <3>1, ReportReachesBack
  <2> QED
    BY <1>0, <1>1, <2>5, <2>6 DEF BackfillsReachBack
<1>5. CASE TradeIsNew \/ TradeIsDropped \/ BackfillGap
  <2>1. channel # <<>> /\ channel' = Tail(channel) /\ UNCHANGED <<happened, last>>
    BY <1>5 DEF TradeIsNew, TradeIsDropped, BackfillGap, Received
  <2>2. /\ Len(channel) \in Nat \ {0}
        /\ Len(channel') = Len(channel) - 1
        /\ \A i \in 1..Len(channel') : channel'[i] = channel[i + 1]
    BY <2>1, HeadTailProperties, EmptySeq DEF TypeOK
  <2>3. \A i \in 1..Len(channel') :
          channel'[i].kind = "down" => channel'[i].at <= happened + 1
    <3> SUFFICES ASSUME NEW i \in 1..Len(channel'), channel'[i].kind = "down"
                 PROVE  channel'[i].at <= happened + 1
      OBVIOUS
    <3>1. i + 1 \in 1..Len(channel) /\ channel'[i] = channel[i + 1]
      BY <2>2
    <3> QED
      BY <1>0, <3>1
  <2>4. feed'.pc = "fetching" => feed'.since <= happened + 1
    <3>1. CASE TradeIsNew \/ TradeIsDropped
      <4>1. feed'.pc # "fetching"
        BY <3>1 DEF TradeIsNew, TradeIsDropped, Received, IdleFeed
      <4> QED
        BY <4>1
    <3>2. CASE BackfillGap
      <4>1. feed'.since = Head(channel).at /\ Head(channel).kind = "down"
        BY <3>2 DEF BackfillGap, Received, IdleFeed
      <4>2. Head(channel) = channel[1] /\ 1 \in 1..Len(channel)
        BY <2>2 DEF Head
      <4> QED
        BY <1>0, <4>1, <4>2
    <3> QED
      BY <1>5, <3>1, <3>2
  <2> QED
    BY <1>0, <2>1, <2>3, <2>4 DEF BackfillsReachBack
<1>6. CASE FeedStep /\ ~(TradeIsNew \/ TradeIsDropped \/ BackfillGap)
  <2>1. UNCHANGED <<happened, last, channel>>
    BY <1>6 DEF FeedStep, BackfillAnswered, BackfillFails, RowIsNew, RowIsDuplicate,
       Record, RecordFails, CopyTrade
  <2>2. feed'.pc # "fetching"
    <3>1. CASE BackfillAnswered
      BY <3>1 DEF BackfillAnswered, IdleFeed, Resume
    <3>2. CASE BackfillFails
      BY <3>2 DEF BackfillFails, IdleFeed
    <3>3. CASE \E r \in Events : RowIsNew(r) \/ RowIsDuplicate(r)
      BY <3>3 DEF RowIsNew, RowIsDuplicate, Resume, TypeOK, FeedRecord
    <3>4. CASE Record \/ RecordFails \/ CopyTrade
      BY <3>4 DEF Record, RecordFails, CopyTrade, Resume, TypeOK, FeedRecord
    <3> QED
      BY <1>6, <3>1, <3>2, <3>3, <3>4 DEF FeedStep
  <2> QED
    BY <1>0, <2>1, <2>2 DEF BackfillsReachBack
<1>7. CASE CrashAndRecover
  <2>1. /\ last' = 0 /\ channel' = <<>> /\ feed'.pc = "idle"
    BY <1>7 DEF CrashAndRecover, IdleFeed
  <2>2. last' <= happened' + 1
    <3>1. last' \in Nat /\ last' <= happened + 1
      BY <1>1, <2>1
    <3> QED
      BY ONLY <1>1, <3>1, WithinNext, Zenon
  <2>3. \A i \in 1..Len(channel') :
          channel'[i].kind = "down" => channel'[i].at <= happened' + 1
    BY <2>1, EmptySeq
  <2> QED
    BY <2>1, <2>2, <2>3 DEF BackfillsReachBack
<1>8. CASE Happen \/ TimePasses \/ Connect \/ SkipFrame \/ Evict \/ UNCHANGED vars
  BY <1>2, <1>8 DEF Happen, TimePasses, Connect, SkipFrame, Evict, vars
<1> QED
  BY <1>3, <1>4, <1>5, <1>6, <1>7, <1>8 DEF Next, ClientStep

LEMMA NextBatch ==
  ASSUME TypeOK, Order, [Next]_vars
  PROVE  BatchInProgress'
<1> USE DEF Order, BatchInProgress
<1>1. CASE UNCHANGED feed
  BY <1>1
<1>2. CASE TradeIsNew \/ BackfillGap \/ BackfillFails \/ CrashAndRecover
  <2>1. feed'.batch = {}
    <3>1. CASE TradeIsNew
      BY <3>1 DEF TradeIsNew, IdleFeed
    <3>2. CASE BackfillGap
      BY <3>2 DEF BackfillGap, IdleFeed
    <3>3. CASE BackfillFails
      BY <3>3 DEF BackfillFails, IdleFeed
    <3>4. CASE CrashAndRecover
      BY <3>4 DEF CrashAndRecover, IdleFeed
    <3> QED
      BY <1>2, <3>1, <3>2, <3>3, <3>4
  <2> QED
    BY <2>1
<1>3. CASE BackfillAnswered
  <2>0. PICK skipped \in Unreadable(Answer(feed.since)) : AnsweredBut(skipped)
    BY <1>3, AnsweredInPart
  <2>1. feed'.batch \subseteq Answer(feed.since) /\ feed'.pc = Resume(feed'.batch)
    BY <2>0 DEF AnsweredBut, IdleFeed
  <2>2. \A r \in Answer(feed.since) : r[2] < Rows[r[1]]
    BY DEF Answer, RowsOf
  <2> QED
    BY <2>1, <2>2 DEF Resume
<1>4. CASE \E r \in Events : RowIsNew(r) \/ RowIsDuplicate(r)
  <2>0. PICK row \in Events : RowIsNew(row) \/ RowIsDuplicate(row)
    BY <1>4
  <2>1. feed'.batch \subseteq feed.batch
    <3>1. CASE RowIsNew(row)
      BY <3>1 DEF RowIsNew, TypeOK, FeedRecord
    <3>2. CASE RowIsDuplicate(row)
      BY <3>2 DEF RowIsDuplicate, TypeOK, FeedRecord
    <3> QED
      BY <2>0, <3>1, <3>2
  <2>2. feed'.pc \in {"recording", Resume(feed'.batch)}
    <3>1. CASE RowIsNew(row)
      BY <3>1 DEF RowIsNew, TypeOK, FeedRecord
    <3>2. CASE RowIsDuplicate(row)
      BY <3>2 DEF RowIsDuplicate, TypeOK, FeedRecord
    <3> QED
      BY <2>0, <3>1, <3>2
  <2> QED
    BY <2>1, <2>2 DEF Resume
<1>5. CASE Record \/ RecordFails \/ CopyTrade
  <2>1. feed'.batch = feed.batch /\ feed'.pc \in {"copying", Resume(feed.batch)}
    BY <1>5 DEF Record, RecordFails, CopyTrade, TypeOK, FeedRecord
  <2> QED
    BY <2>1 DEF Resume
<1>6. CASE \/ Happen \/ TimePasses \/ ClientStep \/ TradeIsDropped \/ Evict
           \/ UNCHANGED vars
  BY <1>1, <1>6 DEF Happen, TimePasses, ClientStep, Connect, ConnectFails, ReadFrame,
     SkipFrame, LoseConnection, TradeIsDropped, Evict, vars
<1> QED
  BY <1>2, <1>3, <1>4, <1>5, <1>6 DEF Next, FeedStep

LEMMA NextOrder ==
  ASSUME TypeOK, TypeOK', FillInHand, Order, [Next]_vars
  PROVE  Order'
BY NextAhead, NextWire, NextReachesBack, NextBatch DEF Order

(***************************************************************************)
(* Not too many.                                                           *)
(***************************************************************************)
LEMMA UnknownHasRoom ==
  ASSUME TypeOK, NEW k \in Contents, Unknown(k)
  PROVE  RoomFor(k)
<1>1. Rows[k] \in Nat /\ 1 <= Rows[k]
  BY CountType
<1>2. counts[k] + Coming(k) <= Rows[k]
  BY <1>1 DEF Unknown
<1> QED
  BY <1>2 DEF Unknown, RoomFor

LEMMA InitRoom == Init => Room
<1> SUFFICES ASSUME Init, NEW k \in Contents PROVE RoomFor(k)
  BY DEF Room
<1>1. TypeOK /\ Order
  BY InitType, InitOrder
<1>2. Unknown(k)
  BY <1>1, ConstantTypes DEF Init, Order, NothingAhead
<1> QED
  BY <1>1, <1>2, UnknownHasRoom

LEMMA OverlapsGrow ==
  ASSUME [Next]_vars
  PROVE  overlapped \subseteq overlapped'
BY DEF Next, ClientStep, FeedStep, Happen, TimePasses, Connect, ConnectFails, ReadFrame,
       SkipFrame, LoseConnection, TradeIsNew, TradeIsDropped, BackfillGap, BackfillAnswered,
       BackfillFails, RowIsNew, RowIsDuplicate, Record, RecordFails, CopyTrade, Evict,
       CrashAndRecover, vars

\* What is restored are rows that were recorded.
LEMMA RestoredFit ==
  ASSUME TypeOK, NEW k \in Contents, RoomFor(k)
  PROVE  Occurrences[k] \in Nat /\ Occurrences[k] <= Rows[k]
<1>1. Rows[k] \in Nat /\ 1 <= Rows[k]
  BY CountType
<1>2. durable[k] \subseteq 0..(Rows[k] - 1)
  <2>1. durable[k] \subseteq Ordinals /\ Ordinals \subseteq Nat
    BY ConstantTypes DEF TypeOK
  <2>2. \A n \in durable[k] : n < Rows[k] /\ n \in Nat
    BY <2>1 DEF RoomFor
  <2> QED
    BY <1>1, <2>2
<1>3. IsFiniteSet(0..(Rows[k] - 1)) /\ Cardinality(0..(Rows[k] - 1)) = Rows[k]
  BY <1>1, FirstNaturals
<1>4. Cardinality(durable[k]) \in Nat /\ Cardinality(durable[k]) <= Rows[k]
  BY <1>2, <1>3, FS_Subset, FS_CardinalityType
<1> QED
  BY <1>1, <1>4 DEF Occurrences

LEMMA NextRoom ==
  ASSUME TypeOK, TypeOK', FillInHand, Order, Room, [Next]_vars
  PROVE  Room'
<1> SUFFICES ASSUME NEW k \in Contents, k \notin overlapped' PROVE RoomFor(k)'
  BY DEF Room
<1> USE DEF Order
<1>1. RoomFor(k)
  BY OverlapsGrow DEF Room
<1>2. Untouched(k) => RoomFor(k)'
  BY <1>1, UntouchedKeeps
<1>3. /\ counts[k] \in Nat /\ Rows[k] \in Nat /\ Coming(k) \in Nat
      /\ 1 <= Rows[k]
      /\ Ordinals \subseteq Nat
  BY CountType, ComingType, ConstantTypes
<1>4. CASE Happen
  <2>1. CASE k = happened + 1
    <3>1. Unknown(k)
      BY <2>1, ContentCountAssumption DEF NothingAhead, TypeOK
    <3>2. Coming(k)' = Coming(k) + (IF connected /\ k = happened + 1 THEN Rows[k] ELSE 0)
      BY <1>4, ComingHappen
    <3>3. Coming(k)' <= Rows[k] /\ Coming(k)' \in Nat
      BY <1>3, <3>1, <3>2 DEF Unknown
    <3>4. UNCHANGED <<counts, durable, copied, feed>>
      BY <1>4 DEF Happen
    <3> QED
      BY <1>3, <3>1, <3>3, <3>4 DEF Unknown, RoomFor, Taken
  <2> QED
    BY <1>2, <1>4, <2>1, HappenUntouched
<1>5. CASE TimePasses
  <2>1. Coming(k)' = Coming(k)
    BY <1>5, ComingSame DEF TimePasses
  <2> QED
    BY <1>1, <1>5, <2>1 DEF TimePasses, RoomFor, Taken
<1>6. CASE LoseConnection
  <2>1. Coming(k)' \in Nat /\ Coming(k)' <= Coming(k)
    BY <1>6, ComingLost
  <2>2. UNCHANGED <<counts, durable, copied, feed>>
    BY <1>6 DEF LoseConnection
  <2>3. counts[k] + Coming(k)' <= Rows[k]
    BY <1>1, <1>3, <2>1 DEF RoomFor
  <2>4. Coming(k) = 0 => Coming(k)' = 0
    BY <2>1
  <2> QED
    BY <1>1, <2>2, <2>3, <2>4 DEF RoomFor, Taken
<1>13. CASE SkipFrame
  <2>1. Coming(k)' \in Nat /\ Coming(k)' <= Coming(k)
    BY <1>13, ComingSkipped
  <2>2. UNCHANGED <<counts, durable, copied, feed>>
    BY <1>13 DEF SkipFrame
  <2>3. counts[k] + Coming(k)' <= Rows[k]
    BY <1>1, <1>3, <2>1 DEF RoomFor
  <2>4. Coming(k) = 0 => Coming(k)' = 0
    BY <2>1
  <2> QED
    BY <1>1, <2>2, <2>3, <2>4 DEF RoomFor, Taken
<1>7. CASE TradeIsNew
  <2>1. CASE k = Head(channel).at
    <3>1. /\ counts'[k] = counts[k] + 1
          /\ Coming(k)' \in Nat /\ Coming(k) = Coming(k)' + 1
          /\ UNCHANGED durable
          /\ \A n \in Ordinals : /\ Taken(k, n)' <=> Taken(k, n) \/ n = counts[k]
                                 /\ <<k, n>> \notin feed'.batch
      BY <1>7, <2>1, TradeTakes
    <3>2. counts[k] + Coming(k) <= Rows[k]
      BY <1>1 DEF RoomFor
    <3>3. counts[k] < Rows[k] /\ counts'[k] + Coming(k)' <= Rows[k]
      BY <1>3, <3>1, <3>2
    <3> QED
      BY <1>1, <3>1, <3>3 DEF RoomFor
  <2> QED
    BY <1>2, <1>7, <2>1, ReceiveUntouched
<1>8. CASE TradeIsDropped
  <2>1. CASE k = Head(channel).at
    <3>1. Received("trade") /\ UNCHANGED <<wire, counts, durable, copied, feed>>
      BY <1>8 DEF TradeIsDropped
    <3>2. /\ Coming(k)' \in Nat
          /\ Coming(k) = Coming(k)' + (IF "trade" = "trade" /\ Head(channel).at = k THEN 1 ELSE 0)
      BY <3>1, ComingReceived
    <3>3. Coming(k) = Coming(k)' + 1
      BY <2>1, <3>2
    <3>4. counts[k] + Coming(k)' <= Rows[k] /\ Coming(k) # 0
      BY <1>1, <1>3, <3>2, <3>3 DEF RoomFor
    <3> QED
      BY <1>1, <3>1, <3>4 DEF RoomFor, Taken
  <2> QED
    BY <1>2, <1>8, <2>1, ReceiveUntouched
<1>9. CASE BackfillAnswered
  <2>1. /\ UNCHANGED <<counts, durable>>
        /\ Coming(k)' = Coming(k)
        /\ \A n \in Ordinals : <<k, n>> \in feed'.batch /\ k \in UnderWay => k \in overlapped'
        /\ \A n \in Ordinals : Taken(k, n)' <=> Taken(k, n)
    BY <1>9, AnswerCame
  <2>2. \A n \in Ordinals : <<k, n>> \in feed'.batch => Coming(k) = 0
    BY <2>1, ComingType
  <2> QED
    BY <1>1, <2>1, <2>2 DEF RoomFor
<1>10. CASE \E r \in Events : RowIsNew(r) \/ RowIsDuplicate(r)
  <2>1. PICK r \in Events : RowIsNew(r) \/ RowIsDuplicate(r)
    BY <1>10
  <2>2. CASE k = r[1] /\ RowIsNew(r)
    <3> DEFINE m == r[2]
    <3>1. /\ m \in Ordinals /\ <<k, m>> \in feed.batch
          /\ counts'[k] = m + 1
          /\ Coming(k)' = Coming(k)
          /\ UNCHANGED durable
          /\ \A n \in Ordinals : /\ Taken(k, n)' <=> Taken(k, n) \/ n = m
                                 /\ <<k, n>> \in feed'.batch <=> <<k, n>> \in feed.batch /\ n # m
      BY <2>2, RowTakes
    <3> HIDE DEF m
    <3>2. Coming(k) = 0 /\ m < Rows[k] /\ m \in Nat
      <4>1. <<k, m>>[1] = k /\ <<k, m>>[2] = m
        OBVIOUS
      <4>2. m < Rows[k]
        BY <3>1, <4>1 DEF BatchInProgress
      <4> QED
        BY <1>1, <1>3, <3>1, <4>2 DEF RoomFor
    <3>3. counts'[k] + Coming(k)' <= Rows[k]
      BY <1>3, <3>1, <3>2
    <3> QED
      BY <1>1, <3>1, <3>2, <3>3 DEF RoomFor
  <2>3. CASE k = r[1] /\ RowIsDuplicate(r)
    <3>1. /\ UNCHANGED <<counts, durable>>
          /\ Coming(k)' = Coming(k)
          /\ \A n \in Ordinals : /\ Taken(k, n)' <=> Taken(k, n)
                                 /\ <<k, n>> \in feed'.batch => <<k, n>> \in feed.batch
      BY <2>3, RowIsHeld
    <3> QED
      BY <1>1, <3>1 DEF RoomFor
  <2> QED
    BY <1>2, <2>1, <2>2, <2>3, RowUntouched
<1>11. CASE Evict
  <2>1. Coming(k)' = Coming(k)
    BY <1>11, ComingSame DEF Evict
  <2>2. UNCHANGED <<durable, copied, feed>> /\ counts'[k] \in {0, counts[k]}
    BY <1>11 DEF Evict, EvictOlder
  <2>3. counts'[k] + Coming(k)' <= Rows[k]
    BY <1>1, <1>3, <2>1, <2>2 DEF RoomFor
  <2> QED
    BY <1>1, <2>1, <2>2, <2>3 DEF RoomFor, Taken
<1>12. CASE CrashAndRecover
  <2>1. Coming(k)' = 0
    BY <1>12, ComingNone DEF CrashAndRecover
  <2>2. counts'[k] \in Nat /\ counts'[k] <= Rows[k]
    <3>1. Occurrences[k] \in Nat /\ Occurrences[k] <= Rows[k] /\ NoOccurrences[k] = 0
      BY <1>1, RestoredFit DEF NoOccurrences
    <3> QED
      BY <1>3, <1>12, <3>1 DEF CrashAndRecover, RestoreIndex
  <2>3. /\ feed'.event = None /\ feed'.batch = {}
        /\ UNCHANGED <<durable, copied>>
    BY <1>12 DEF CrashAndRecover, IdleFeed
  <2>4. \A n \in Ordinals : None # <<k, n>>
    BY ConstantTypes DEF Events
  <2>5. counts'[k] + Coming(k)' <= Rows[k]
    BY <2>1, <2>2
  <2> QED
    BY <1>1, <2>1, <2>3, <2>4, <2>5 DEF RoomFor, Taken
<1> QED
  BY <1>2, <1>4, <1>5, <1>6, <1>7, <1>8, <1>9, <1>10, <1>11, <1>12, <1>13, ClientUntouched,
     ReceiveUntouched, FailUntouched, HandOnUntouched DEF Next, ClientStep, FeedStep

(***************************************************************************)
(* The copies of a content.                                                *)
(***************************************************************************)
CopiedOrdinals(k) == {n \in Ordinals : copied[k][n] > 0}

LEMMA CopiesType ==
  ASSUME NEW k
  PROVE  /\ IsFiniteSet(CopiedOrdinals(k))
         /\ FillsCopied(k) \in Nat
         /\ FillsCopied(k) = Cardinality(CopiedOrdinals(k))
<1>1. IsFiniteSet(Ordinals)
  BY FS_Interval, MaxOccurrencesAssumption DEF Ordinals
<1>2. IsFiniteSet(CopiedOrdinals(k))
  BY <1>1, FS_Subset DEF CopiedOrdinals
<1> QED
  BY <1>2, FS_CardinalityType DEF FillsCopied, CopiedOrdinals

\* What was copied once each is as much as the ordinals copied, which are below
\* the number of rows.
LEMMA CopiesFit ==
  ASSUME TypeOK, NEW k \in Contents, RoomFor(k), \A n \in Ordinals : copied[k][n] <= 1
  PROVE  CopiesOf(k) <= Rows[k]
<1> DEFINE C == CopiedOrdinals(k)
           f == copied[k]
<1>1. Rows[k] \in Nat /\ 1 <= Rows[k]
  BY CountType
<1>2. C \subseteq 0..(Rows[k] - 1)
  <2>1. \A n \in C : n \in Nat /\ n < Rows[k]
    BY ConstantTypes DEF CopiedOrdinals, RoomFor, Taken
  <2> QED
    BY <1>1, <2>1
<1>3. IsFiniteSet(0..(Rows[k] - 1)) /\ Cardinality(0..(Rows[k] - 1)) = Rows[k]
  BY <1>1, FirstNaturals
<1>4. C \in SUBSET Ordinals /\ IsFiniteSet(C)
  BY CopiesType DEF CopiedOrdinals
<1>5. IsFiniteSet(Ordinals)
  BY FS_Interval, MaxOccurrencesAssumption DEF Ordinals
<1>6. /\ \A n \in Ordinals : f[n] \in Nat /\ f[n] <= 1
      /\ \A n \in Ordinals \ C : f[n] = 0
  BY DEF TypeOK, CopiedOrdinals
<1> HIDE DEF C, f
<1>7. Cardinality(C) <= Cardinality(0..(Rows[k] - 1)) /\ Cardinality(C) \in Nat
  BY ONLY <1>2, <1>3, <1>4, FS_Subset, FS_CardinalityType
<1>8. \A n \in Ordinals : f[n] \in Int
  BY <1>6
<1>9. SumFunctionOnSet(f, Ordinals) = SumFunctionOnSet(f, C)
  BY ONLY <1>4, <1>5, <1>6, <1>8, SumSupported
<1>10. SumFunctionOnSet(f, C) <= Cardinality(C) * 1
  <2>1. 1 \in Nat /\ \A n \in C : f[n] \in Int /\ f[n] <= 1
    BY <1>4, <1>6
  <2> QED
    BY ONLY <1>4, <2>1, SumAtMost
<1>11. SumFunctionOnSet(f, C) \in Int
  <2>1. \A n \in C : f[n] \in Int
    BY <1>4, <1>6
  <2> QED
    BY ONLY <1>4, <2>1, SumType
<1>12. CopiesOf(k) = SumFunctionOnSet(f, Ordinals)
  BY DEF CopiesOf, f
<1> QED
  BY ONLY <1>1, <1>3, <1>7, <1>9, <1>10, <1>11, <1>12

LEMMA InitOnce == Init => OnceEach
BY DEF Init, OnceEach

LEMMA NextOnce ==
  ASSUME TypeOK, Ledger, OnceEach, [Next]_vars
  PROVE  OnceEach'
<1>1. forgotten \subseteq forgotten'
  BY DEF Next, ClientStep, FeedStep, Happen, TimePasses, Connect, ConnectFails, ReadFrame,
         SkipFrame, LoseConnection, TradeIsNew, TradeIsDropped, BackfillGap,
         BackfillAnswered, BackfillFails, RowIsNew, RowIsDuplicate, Record, RecordFails,
         CopyTrade, Evict, CrashAndRecover, vars
<1>2. CASE CopyTrade
  <2> DEFINE j == feed.event[1]
             m == feed.event[2]
  <2>1. j \in Contents /\ m \in Ordinals /\ (j \notin forgotten => copied[j][m] = 0)
    BY <1>2, CopyOncePerIdentity
  <2>2. copied' = [copied EXCEPT ![j][m] = @ + 1]
    BY <1>2 DEF CopyTrade
  <2> HIDE DEF j, m
  <2>3. \A k \in Contents, n \in Ordinals :
          copied'[k][n] = IF k = j /\ n = m THEN copied[k][n] + 1 ELSE copied[k][n]
    BY <2>1, <2>2 DEF TypeOK
  <2> QED
    BY <1>1, <2>1, <2>3 DEF OnceEach
<1>3. CASE ~CopyTrade
  <2>1. UNCHANGED copied
    BY <1>3 DEF Next, ClientStep, FeedStep, Happen, TimePasses, Connect, ConnectFails,
       ReadFrame, SkipFrame, LoseConnection, TradeIsNew, TradeIsDropped, BackfillGap,
       BackfillAnswered, BackfillFails, RowIsNew, RowIsDuplicate, Record, RecordFails,
       Evict, CrashAndRecover, vars
  <2> QED
    BY <1>1, <2>1 DEF OnceEach
<1> QED
  BY <1>2, <1>3

LEMMA CopiesSuffice ==
  ASSUME TypeOK, NEW k \in Contents, \A n \in Ordinals : n < Rows[k] => copied[k][n] > 0
  PROVE  Done(k)
<1>1. Rows[k] \in Nat /\ 1 <= Rows[k] /\ Rows[k] <= MaxOccurrences
  BY CountType
<1>2. 0..(Rows[k] - 1) \subseteq CopiedOrdinals(k)
  BY <1>1, MaxOccurrencesAssumption DEF CopiedOrdinals, Ordinals
<1>3. IsFiniteSet(0..(Rows[k] - 1)) /\ Cardinality(0..(Rows[k] - 1)) = Rows[k]
  BY <1>1, FirstNaturals
<1>4. Rows[k] <= Cardinality(CopiedOrdinals(k))
  <2>1. IsFiniteSet(CopiedOrdinals(k))
    BY CopiesType
  <2>2. Cardinality(0..(Rows[k] - 1)) <= Cardinality(CopiedOrdinals(k))
    BY <1>2, <2>1, FS_Subset
  <2> QED
    BY <1>3, <2>2
<1> QED
  BY <1>1, <1>4, CopiesType DEF Done

\* No copy is taken back.
LEMMA DoneForGood ==
  ASSUME TypeOK, FillInHand, [Next]_vars, NEW k \in Contents, Done(k)
  PROVE  Done(k)'
<1>1. \A n \in Ordinals : copied[k][n] > 0 => copied'[k][n] > 0
  <2>1. CASE CopyTrade
    <3>1. feed.event[1] \in Contents /\ feed.event[2] \in Ordinals
      BY <2>1 DEF CopyTrade, FillInHand, HandingOn, Events
    <3>2. \A n \in Ordinals : copied'[k][n] \in {copied[k][n], copied[k][n] + 1}
      BY <2>1, <3>1 DEF CopyTrade, TypeOK
    <3>3. \A n \in Ordinals : copied[k][n] \in Nat
      BY DEF TypeOK
    <3> QED
      BY <3>2, <3>3
  <2>2. CASE ~CopyTrade
    <3>1. UNCHANGED copied
      BY <2>2 DEF Next, ClientStep, FeedStep, Happen, TimePasses, Connect, ConnectFails,
         ReadFrame, SkipFrame, LoseConnection, TradeIsNew, TradeIsDropped, BackfillGap,
         BackfillAnswered, BackfillFails, RowIsNew, RowIsDuplicate, Record, RecordFails,
         Evict, CrashAndRecover, vars
    <3> QED
      BY <3>1
  <2> QED
    BY <2>1, <2>2
<1> DEFINE more == {n \in Ordinals : copied'[k][n] > 0}
<1>2. CopiedOrdinals(k) \subseteq more
  BY <1>1 DEF CopiedOrdinals
<1>3. IsFiniteSet(more)
  <2>1. IsFiniteSet(Ordinals)
    BY FS_Interval, MaxOccurrencesAssumption DEF Ordinals
  <2> QED
    BY <2>1, FS_Subset
<1>4. FillsCopied(k) <= Cardinality(more) /\ FillsCopied(k) \in Nat /\ Cardinality(more) \in Nat
  BY <1>2, <1>3, CopiesType, FS_Subset, FS_CardinalityType
<1>5. FillsCopied(k)' = Cardinality(more)
  BY DEF FillsCopied
<1>6. Rows[k] \in Nat
  BY CountType
<1> HIDE DEF more
<1> QED
  BY <1>4, <1>5, <1>6 DEF Done

(***************************************************************************)
(* Backfills that are yet to be answered.                                  *)
(***************************************************************************)
LEMMA OwedReported ==
  ASSUME TypeOK, NEW kind \in {"trade", "down"}, NEW at \in 1..(ContentCount + 1),
         Report(kind, at), UNCHANGED feed, NEW k \in Contents
  PROVE  /\ Owed(k) => Owed(k)'
         /\ kind = "down" /\ at <= k => Owed(k)'
<1> DEFINE m == [kind |-> kind, at |-> at]
<1>1. m \in Message
  BY DEF Message
<1>2. channel \in Seq(Message) /\ channel' = Append(channel, m)
  BY DEF TypeOK, Report
<1>3. /\ Len(channel') = Len(channel) + 1
      /\ \A i \in 1..Len(channel) : channel'[i] = channel[i]
      /\ channel'[Len(channel) + 1] = m
      /\ Len(channel) \in Nat
  BY <1>1, <1>2, AppendProperties, LenProperties
<1>4. 1..Len(channel) \subseteq 1..Len(channel') /\ Len(channel) + 1 \in 1..Len(channel')
  BY <1>3
<1>5. Owed(k) => Owed(k)'
  BY <1>3, <1>4 DEF Owed
<1>6. kind = "down" /\ at <= k => Owed(k)'
  <2> SUFFICES ASSUME kind = "down", at <= k PROVE Owed(k)'
    OBVIOUS
  <2>1. m.kind = "down" /\ m.at <= k
    OBVIOUS
  <2> HIDE DEF m
  <2> QED
    BY <1>3, <1>4, <2>1 DEF Owed
<1> QED
  BY <1>5, <1>6

LEMMA OwedReceived ==
  ASSUME TypeOK, NEW kind, Received(kind), NEW k \in Contents, Owed(k)
  PROVE  \/ kind = "down" /\ Head(channel).at <= k
         \/ \E i \in 1..Len(channel') : channel'[i].kind = "down" /\ channel'[i].at <= k
<1>1. /\ channel # <<>> /\ channel' = Tail(channel)
      /\ Head(channel).kind = kind /\ feed.pc = "idle"
  BY DEF Received
<1>2. /\ Len(channel) \in Nat \ {0}
      /\ Len(channel') = Len(channel) - 1
      /\ \A i \in 1..Len(channel') : channel'[i] = channel[i + 1]
  BY <1>1, HeadTailProperties, EmptySeq DEF TypeOK
<1>3. Head(channel) = channel[1]
  BY DEF Head
<1>4. PICK j \in 1..Len(channel) : channel[j].kind = "down" /\ channel[j].at <= k
  BY <1>1 DEF Owed
<1>5. CASE j = 1
  BY <1>1, <1>3, <1>4, <1>5
<1>6. CASE j # 1
  <2>1. j - 1 \in 1..Len(channel') /\ j - 1 + 1 = j
    BY <1>2, <1>6
  <2>2. channel'[j - 1] = channel[j]
    BY <1>2, <2>1
  <2> QED
    BY <1>4, <2>1, <2>2
<1> QED
  BY <1>5, <1>6

\* Steps of others, and steps of the task with nothing to fetch.
LEMMA OwedSame ==
  ASSUME UNCHANGED channel,
         feed' = feed \/ feed.pc # "fetching",
         NEW k, Owed(k)
  PROVE  Owed(k)'
BY DEF Owed

(***************************************************************************)
(* Not too few.                                                            *)
(***************************************************************************)
LEMMA UntouchedDelivered ==
  ASSUME TypeOK, TypeOK', NEW k \in Contents, Untouched(k), Delivered(k),
         k <= happened' => k <= happened,
         Owed(k) => Owed(k)'
  PROVE  Delivered(k)'
BY UntouchedKeeps DEF Delivered

LEMMA UnknownIsHonest ==
  ASSUME TypeOK, NEW k \in Contents, Unknown(k)
  PROVE  IndexHonest(k)
<1>1. \A n \in Ordinals : ~(n < counts[k])
  BY ConstantTypes DEF Unknown
<1> QED
  BY <1>1 DEF Unknown, IndexHonest

LEMMA InitDelivery == Init => Delivery
<1> SUFFICES ASSUME Init, NEW k \in Contents PROVE Delivered(k)
  BY TrackedAssumption DEF Delivery
<1>1. TypeOK /\ Order
  BY InitType, InitOrder
<1>2. k > happened /\ ~(k <= happened)
  BY ConstantTypes DEF Init
<1>3. Unknown(k)
  BY <1>1, <1>2 DEF Order, NothingAhead
<1> QED
  BY <1>1, <1>2, <1>3, UnknownIsHonest DEF Delivered

\* What happens is sent, or owed by the backfill that is due.
LEMMA HappenDelivered ==
  ASSUME TypeOK, TypeOK', Order, Happen, NEW k \in Tracked, k \notin unowed', Delivered(k)
  PROVE  Delivered(k)'
<1> k \in Contents
  BY TrackedAssumption
<1>0. happened \in Nat /\ k \in Nat /\ happened' = happened + 1
  BY ContentCountAssumption, ConstantTypes DEF Happen, TypeOK
<1>1. CASE k # happened + 1
  <2>1. k <= happened' => k <= happened
    BY <1>0, <1>1
  <2>2. Owed(k) => Owed(k)'
    BY OwedSame DEF Happen
  <2> QED
    BY <1>1, <2>1, <2>2, HappenUntouched, UntouchedDelivered
<1>2. CASE k = happened + 1
  <2>1. Unknown(k)
    BY <1>0, <1>2 DEF Order, NothingAhead
  <2>2. UNCHANGED <<counts, aged, copied, feed, channel>>
    BY DEF Happen
  <2>3. Coming(k)' = Coming(k) + (IF connected /\ k = happened + 1 THEN Rows[k] ELSE 0)
    BY ComingHappen
  <2>4. Rows[k] \in Nat /\ 1 <= Rows[k]
    BY CountType
  <2>5. IndexHonest(k)'
    <3>0. counts[k] = 0 /\ \A n \in Ordinals : n \in Nat
      BY <2>1, ConstantTypes DEF Unknown
    <3>1. \A n \in Ordinals : ~(n < counts[k])
      BY <3>0
    <3> QED
      BY <2>1, <2>2, <3>1 DEF Unknown, IndexHonest, Taken
  <2>6. CASE connected
    <3>1. Coming(k)' = Rows[k] /\ counts[k] = 0
      BY <1>2, <2>1, <2>3, <2>4, <2>6 DEF Unknown
    <3>2. Live(k)'
      BY <2>2, <2>4, <3>1 DEF Live
    <3> QED
      BY <2>5, <3>2 DEF Delivered
  <2>7. CASE ~connected
    <3>1. BackfillDue
      BY <1>2, <2>7 DEF Happen, LeaveUnowed
    <3>2. Owed(k)
      BY <1>2, <3>1 DEF BackfillDue, Owed, Order, BackfillsReachBack
    <3>3. Owed(k)'
      BY <2>2, <3>2 DEF Owed
    <3> QED
      BY <2>5, <3>3 DEF Delivered
  <2> QED
    BY <2>6, <2>7
<1> QED
  BY <1>1, <1>2

\* Nothing is on its way when the index grows old.
LEMMA TimeDelivered ==
  ASSUME TypeOK, WireWhileUp, TimePasses, NEW k \in Contents, Delivered(k)
  PROVE  Delivered(k)'
<1>1. Coming(k) = 0
  BY OccursInEmpty DEF TimePasses, WireWhileUp, Coming
<1>2. Coming(k)' = Coming(k)
  BY ComingSame DEF TimePasses
<1>3. UNCHANGED <<counts, copied, feed, channel, happened>>
  BY DEF TimePasses
<1>4. IndexHonest(k)'
  BY <1>1, <1>2, <1>3 DEF Delivered, IndexHonest, Taken
<1>5. k <= happened' => Owed(k)' \/ Answered(k)' \/ Live(k)'
  BY <1>2, <1>3 DEF Delivered, Owed, Answered, Live, Taken
<1> QED
  BY <1>4, <1>5 DEF Delivered

LEMMA ClientDelivered ==
  ASSUME TypeOK, TypeOK', ClientStep, NEW k \in Tracked, k \notin unowed', Delivered(k)
  PROVE  Delivered(k)'
<1> k \in Contents
  BY TrackedAssumption
<1>0. UNCHANGED <<happened, feed>>
  BY DEF ClientStep, Connect, ConnectFails, ReadFrame, SkipFrame, LoseConnection
<1>1. CASE Connect
  BY <1>0, <1>1, ClientUntouched, OwedSame, UntouchedDelivered DEF Connect
<1>2. CASE ConnectFails \/ LoseConnection
  <2>1. PICK since \in GapFrom :
          /\ Report("down", since)
          /\ LoseConnection => LeaveUnowed({j \in OnWire : j < since})
    BY <1>2 DEF ConnectFails, LoseConnection
  <2>2. since \in 1..(ContentCount + 1)
    BY GapFromType
  <2>3. (Owed(k) => Owed(k)') /\ (since <= k => Owed(k)')
    BY <1>0, <2>1, <2>2, OwedReported
  <2>4. CASE ConnectFails
    BY <1>0, <2>3, <2>4, ClientUntouched, UntouchedDelivered
  <2>5. CASE LoseConnection
    <3>1. /\ Coming(k)' \in Nat /\ Coming(k)' <= Coming(k)
          /\ k \notin OnWire => Coming(k)' = Coming(k)
      BY <2>5, ComingLost
    <3>2. UNCHANGED <<counts, aged, copied>>
      BY <2>5 DEF LoseConnection
    <3>3. Coming(k)' > 0 => Coming(k) > 0
      BY <3>1, ComingType
    <3>4. IndexHonest(k)'
      BY <1>0, <3>2, <3>3 DEF Delivered, IndexHonest, Taken
    <3>5. CASE k \in OnWire
      <4>1. ~(k < since)
        BY <2>1, <2>5, <3>5 DEF LeaveUnowed
      <4>2. since <= k
        BY <2>2, <4>1, ContentCountAssumption, ConstantTypes
      <4> QED
        BY <2>3, <3>4, <4>2 DEF Delivered
    <3>6. CASE k \notin OnWire
      <4>1. Live(k) => Live(k)'
        BY <3>1, <3>2, <3>6 DEF Live
      <4>2. Answered(k) => Answered(k)'
        BY <1>0, <3>2 DEF Answered, Taken
      <4> QED
        BY <1>0, <2>3, <3>4, <4>1, <4>2 DEF Delivered
    <3> QED
      BY <3>5, <3>6
  <2> QED
    BY <1>2, <2>4, <2>5
<1>3. CASE ReadFrame
  <2>1. Report("trade", Head(wire)) /\ Head(wire) \in 1..(ContentCount + 1)
    <3>1. Head(wire) \in Contents
      BY <1>3, HeadTailProperties DEF ReadFrame, TypeOK
    <3> QED
      BY <1>3, <3>1, ContentCountAssumption DEF ReadFrame, Contents
  <2>2. Owed(k) => Owed(k)'
    BY <1>0, <2>1, OwedReported
  <2> QED
    BY <1>0, <1>3, <2>2, ClientUntouched, UntouchedDelivered
<1>4. CASE SkipFrame
  <2>1. k # Head(wire)
    BY <1>4 DEF SkipFrame, LeaveUnowed
  <2>2. Coming(k)' = Coming(k)
    BY <1>4, <2>1, ComingSkipped
  <2>3. Untouched(k) /\ UNCHANGED channel
    BY <1>4, <2>2, ElsewhereUntouched DEF SkipFrame
  <2>4. Owed(k) => Owed(k)'
    BY <1>0, <2>3, OwedSame
  <2> QED
    BY <1>0, <2>3, <2>4, UntouchedDelivered
<1> QED
  BY <1>1, <1>2, <1>3, <1>4 DEF ClientStep

\* A row to come is taken, or finds every ordinal taken.
LEMMA ReceiveDelivered ==
  ASSUME TypeOK, TypeOK', FillInHand, Order, TradeIsNew \/ TradeIsDropped \/ BackfillGap,
         NEW k \in Tracked, Delivered(k)
  PROVE  Delivered(k)'
<1> USE DEF Order
<1>0. UNCHANGED happened /\ k \in Contents
  BY TrackedAssumption DEF TradeIsNew, TradeIsDropped, BackfillGap
<1>1. /\ counts[k] \in Nat /\ counts[k] <= MaxOccurrences
      /\ Rows[k] \in Nat /\ Rows[k] <= MaxOccurrences
      /\ Ordinals \subseteq Nat
      /\ MaxOccurrences \in Nat
  BY <1>0, CountType, ConstantTypes
<1>2. CASE BackfillGap
  <2>1. /\ Received("down")
        /\ feed'.pc = "fetching" /\ feed'.since = Head(channel).at
    BY <1>2 DEF BackfillGap, IdleFeed
  <2>2. Owed(k) => Owed(k)'
    <3> SUFFICES ASSUME Owed(k) PROVE Owed(k)'
      OBVIOUS
    <3>1. \/ "down" = "down" /\ Head(channel).at <= k
          \/ \E i \in 1..Len(channel') : channel'[i].kind = "down" /\ channel'[i].at <= k
      BY <1>0, <2>1, OwedReceived
    <3> QED
      BY <2>1, <3>1 DEF Owed
  <2> QED
    BY <1>0, <1>2, <2>2, ReceiveUntouched, UntouchedDelivered
<1>3. CASE TradeIsNew \/ TradeIsDropped
  <2>1. Received("trade") /\ UNCHANGED wire
    BY <1>3 DEF TradeIsNew, TradeIsDropped
  <2>2. Owed(k) => Owed(k)'
    <3> SUFFICES ASSUME Owed(k) PROVE Owed(k)'
      OBVIOUS
    <3>1. \/ "trade" = "down" /\ Head(channel).at <= k
          \/ \E i \in 1..Len(channel') : channel'[i].kind = "down" /\ channel'[i].at <= k
      BY <1>0, <2>1, OwedReceived
    <3> QED
      BY <3>1 DEF Owed
  <2>3. CASE k # Head(channel).at
    BY <1>0, <1>3, <2>2, <2>3, ReceiveUntouched, UntouchedDelivered
  <2>4. CASE k = Head(channel).at /\ TradeIsNew
    <3>1. /\ counts[k] \in Ordinals
          /\ counts'[k] = counts[k] + 1 /\ k \notin aged'
          /\ Coming(k)' \in Nat /\ Coming(k) = Coming(k)' + 1
          /\ \A n \in Ordinals : /\ Taken(k, n)' <=> Taken(k, n) \/ n = counts[k]
                                 /\ <<k, n>> \notin feed.batch
                                 /\ <<k, n>> \notin feed'.batch
      BY <1>0, <2>4, TradeTakes
    <3>2. Coming(k) > 0
      BY <3>1
    <3>3. IndexHonest(k)'
      <4>0. counts[k] \in Nat /\ counts'[k] = counts[k] + 1
        BY <1>1, <3>1
      <4>1. \A n \in Nat : n < counts'[k] => n < counts[k] \/ n = counts[k]
        BY <4>0
      <4>2. \A n \in Nat : n < counts[k] \/ n = counts[k] => n < counts'[k]
        BY <4>0
      <4> QED
        BY <1>1, <3>1, <3>2, <4>1, <4>2 DEF Delivered, IndexHonest
    <3>4. Answered(k) => Answered(k)'
      BY <3>1 DEF Answered
    <3>5. Live(k) => Answered(k)' \/ Live(k)'
      <4> SUFFICES ASSUME Live(k), ~(Coming(k)' > 0) PROVE Answered(k)'
        BY <1>1, <3>1 DEF Live
      <4>1. counts'[k] >= Rows[k] /\ counts'[k] \in Nat
        BY <1>1, <3>1 DEF Live
      <4>2. \A n \in Ordinals : n < Rows[k] => n < counts'[k]
        BY <1>1, <4>1
      <4> QED
        BY <3>3, <4>2 DEF IndexHonest, Answered
    <3> QED
      BY <1>0, <2>2, <3>3, <3>4, <3>5 DEF Delivered
  <2>5. CASE k = Head(channel).at /\ TradeIsDropped
    <3>1. ~LiveIsNew(k) /\ UNCHANGED <<counts, aged, copied, feed>>
      BY <2>5 DEF TradeIsDropped
    <3>2. /\ Coming(k)' \in Nat
          /\ Coming(k) = Coming(k)' + (IF "trade" = "trade" /\ Head(channel).at = k THEN 1 ELSE 0)
      BY <1>0, <2>1, ComingReceived
    <3>3. Coming(k)' > 0 => Coming(k) > 0
      BY <3>2
    <3>4. IndexHonest(k)'
      BY <3>1, <3>3 DEF Delivered, IndexHonest, Taken
    <3>5. \A n \in Ordinals : n < Rows[k] => n < counts[k]
      BY <1>1, <3>1 DEF LiveIsNew
    <3>6. Answered(k)'
      BY <3>1, <3>5 DEF Answered, Delivered, IndexHonest, Taken
    <3> QED
      BY <3>4, <3>6 DEF Delivered
  <2> QED
    BY <1>3, <2>3, <2>4, <2>5
<1> QED
  BY <1>2, <1>3

\* An answer that was not cut off has every row that it reaches back to.  One
\* that fails leaves what it would have had to nobody.
LEMMA BackfillDelivered ==
  ASSUME TypeOK, TypeOK', FillInHand, Order, BackfillAnswered \/ BackfillFails,
         NEW k \in Tracked, k \notin unowed', Delivered(k)
  PROVE  Delivered(k)'
<1> USE DEF Order
<1>0. /\ UNCHANGED <<happened, channel>> /\ k \in Contents
      /\ happened \in Nat /\ k \in Nat
      /\ feed.pc = "fetching" /\ feed.since \in Nat
  <2>1. feed.since \in Nat /\ happened \in Nat
    BY ContentCountAssumption DEF TypeOK, FeedRecord
  <2>2. k \in Contents /\ k \in Nat
    BY TrackedAssumption, ConstantTypes
  <2>3. UNCHANGED <<happened, channel>> /\ feed.pc = "fetching"
    BY DEF BackfillAnswered, BackfillFails
  <2> QED
    BY ONLY <2>1, <2>2, <2>3
<1>1. CASE BackfillAnswered
  <2>1. /\ UNCHANGED <<counts, aged>>
        /\ Coming(k)' = Coming(k)
        /\ k \notin Truncated(feed.since)
        /\ \A n \in Ordinals : <<k, n>> \in feed'.batch <=> <<k, n>> \in Answer(feed.since)
        /\ \A n \in Ordinals : /\ Taken(k, n)' <=> Taken(k, n)
                               /\ <<k, n>> \notin feed.batch
    BY <1>0, <1>1, AnswerCame
  <2>2. \A n, m \in Ordinals :
          <<k, n>> \in Answer(feed.since) /\ m < n => <<k, m>> \in Answer(feed.since)
    BY <1>0, AnswerIsGapless
  <2>3. IndexHonest(k)'
    BY <2>1, <2>2 DEF Delivered, IndexHonest
  <2>4. Answered(k) => Answered(k)'
    BY <2>1 DEF Answered
  <2>5. Live(k) => Live(k)'
    BY <2>1 DEF Live
  <2>6. k <= happened /\ feed.since <= k => Answered(k)'
    <3> SUFFICES ASSUME k <= happened, feed.since <= k,
                        NEW n \in Ordinals, n < Rows[k]
                 PROVE  <<k, n>> \in Answer(feed.since)
      BY <2>1 DEF Answered
    <3> DEFINE r == <<k, n>>
    <3>1. r \in RowsOf(feed.since..happened) /\ r[1] = k
      BY <1>0 DEF RowsOf, Events
    <3>2. k \notin Truncated(feed.since)
      BY <2>1
    <3>3. WithinLimit(r)
      BY <3>1, <3>2 DEF Truncated
    <3> QED
      BY <3>1, <3>3 DEF Answer
  <2>7. Owed(k) => Owed(k)' \/ feed.since <= k
    BY <1>0 DEF Owed
  <2> QED
    BY <1>0, <2>3, <2>4, <2>5, <2>6, <2>7 DEF Delivered
<1>2. CASE BackfillFails
  <2>1. Untouched(k)
    BY <1>0, <1>2, FailUntouched
  <2>2. k <= happened => ~(feed.since <= k)
    BY <1>0, <1>2 DEF BackfillFails, LeaveUnowed
  <2>3. k <= happened /\ Owed(k) => Owed(k)'
    BY <1>0, <2>2 DEF Owed
  <2>4. /\ IndexHonest(k) => IndexHonest(k)'
        /\ Answered(k) => Answered(k)'
        /\ Live(k) => Live(k)'
    BY <1>0, <2>1, UntouchedKeeps
  <2> QED
    BY <1>0, <2>3, <2>4 DEF Delivered
<1> QED
  BY <1>1, <1>2

LEMMA RowDelivered ==
  ASSUME TypeOK, TypeOK', FillInHand, NEW r \in Events, RowIsNew(r) \/ RowIsDuplicate(r),
         NEW k \in Contents, Delivered(k)
  PROVE  Delivered(k)'
<1>0. UNCHANGED <<happened, channel>> /\ feed.pc = "batch"
  BY DEF RowIsNew, RowIsDuplicate, NextRow
<1>1. Owed(k) => Owed(k)'
  BY <1>0, OwedSame
<1>2. CASE k # r[1]
  BY <1>0, <1>1, <1>2, RowUntouched, UntouchedDelivered
<1> DEFINE m == r[2]
<1>3. CASE k = r[1] /\ RowIsNew(r)
  <2>1. /\ m \in Ordinals /\ <<k, m>> \in feed.batch
        /\ counts[k] <= m
        /\ counts'[k] = m + 1 /\ k \notin aged'
        /\ Coming(k)' = Coming(k)
        /\ \A n \in Ordinals : /\ Taken(k, n)' <=> Taken(k, n) \/ n = m
                               /\ <<k, n>> \in feed'.batch <=> <<k, n>> \in feed.batch /\ n # m
                               /\ n < m => <<k, n>> \notin feed.batch
    BY <1>3, RowTakes
  <2> HIDE DEF m
  <2>2. /\ m \in Nat /\ Ordinals \subseteq Nat
        /\ counts[k] \in Nat /\ Coming(k) \in Nat /\ Rows[k] \in Nat
    BY <2>1, ConstantTypes, CountType, ComingType
  <2>3. \A n \in Ordinals : (n < counts'[k] <=> n < m \/ n = m)
                            /\ (n < counts[k] => n < counts'[k])
    <3> SUFFICES ASSUME NEW n \in Ordinals
                 PROVE  /\ n < counts'[k] <=> n < m \/ n = m
                        /\ n < counts[k] => n < counts'[k]
      OBVIOUS
    <3>1. n \in Nat /\ counts'[k] = m + 1 /\ counts[k] <= m
      BY <2>1, <2>2
    <3> QED
      BY <2>2, <3>1
  <2>4. \A n \in Ordinals : n < counts'[k] => Taken(k, n)'
    BY <2>1, <2>3 DEF Delivered, IndexHonest
  <2>5. \A n, q \in Ordinals : <<k, n>> \in feed'.batch /\ q < n =>
          <<k, q>> \in feed'.batch \/ Taken(k, q)'
    BY <2>1 DEF Delivered, IndexHonest
  <2>6. Coming(k)' > 0 => \A n \in Ordinals : Taken(k, n)' => n < counts'[k]
    BY <2>1, <2>3 DEF Delivered, IndexHonest
  <2>7. IndexHonest(k)'
    BY <2>1, <2>4, <2>5, <2>6 DEF IndexHonest
  <2>8. Answered(k) => Answered(k)'
    BY <2>1 DEF Answered
  <2>9. Live(k) => Live(k)'
    BY <2>1, <2>2 DEF Live
  <2> QED
    BY <1>0, <1>1, <2>7, <2>8, <2>9 DEF Delivered
<1>4. CASE k = r[1] /\ RowIsDuplicate(r)
  <2>1. /\ m \in Ordinals /\ m < counts[k]
        /\ UNCHANGED <<counts, aged>>
        /\ Coming(k)' = Coming(k)
        /\ \A n \in Ordinals : /\ Taken(k, n)' <=> Taken(k, n)
                               /\ <<k, n>> \in feed'.batch <=> <<k, n>> \in feed.batch /\ n # m
    BY <1>4, RowIsHeld
  <2> HIDE DEF m
  <2>2. Taken(k, m)
    BY <2>1 DEF Delivered, IndexHonest
  <2>3. IndexHonest(k)'
    BY <2>1, <2>2 DEF Delivered, IndexHonest
  <2>4. Answered(k) => Answered(k)'
    BY <2>1, <2>2 DEF Answered
  <2>5. Live(k) => Live(k)'
    BY <2>1 DEF Live
  <2> QED
    BY <1>0, <1>1, <2>3, <2>4, <2>5 DEF Delivered
<1> QED
  BY <1>2, <1>3, <1>4

\* What the index forgets is not on its way.
LEMMA EvictDelivered ==
  ASSUME TypeOK, Evict, NEW k \in Contents, Delivered(k)
  PROVE  Delivered(k)'
<1>1. /\ UNCHANGED <<happened, channel, feed, copied>>
      /\ Coming(k)' = Coming(k)
      /\ aged' = {}
      /\ counts'[k] = IF k \in aged THEN 0 ELSE counts[k]
  BY ComingSame DEF Evict, EvictOlder
<1>2. Coming(k) > 0 => counts'[k] = counts[k]
  BY <1>1 DEF Delivered, IndexHonest
<1>3. \A n \in Ordinals : n < counts'[k] => n < counts[k]
  BY <1>1, ConstantTypes
<1>4. IndexHonest(k)'
  BY <1>1, <1>2, <1>3 DEF Delivered, IndexHonest, Taken
<1>5. Live(k) => Live(k)'
  BY <1>1, <1>2 DEF Live
<1>6. (Owed(k) => Owed(k)') /\ (Answered(k) => Answered(k)')
  BY <1>1 DEF Owed, Answered, Taken
<1> QED
  BY <1>1, <1>4, <1>5, <1>6 DEF Delivered

\* A restart leaves to nobody what was not copied in full; what has not
\* happened yet is as at the start.
LEMMA RestartDelivered ==
  ASSUME TypeOK, TypeOK', FillInHand, Order, CrashAndRecover,
         NEW k \in Tracked, k \notin unowed'
  PROVE  Done(k) \/ Delivered(k)'
<1> k \in Contents
  BY TrackedAssumption
<1>0. happened' = happened /\ happened \in Nat /\ k \in Nat /\ 1 <= k
  <2>1. k \in Nat \ {0}
    BY ConstantTypes
  <2> QED
    BY <2>1, ContentCountAssumption DEF CrashAndRecover, TypeOK
<1>1. CASE k <= happened
  <2>1. ~(FillsCopied(k) < Rows[k])
    BY <1>0, <1>1 DEF CrashAndRecover, LeaveUnowed
  <2>2. FillsCopied(k) \in Nat /\ Rows[k] \in Nat
    BY CopiesType, CountType
  <2> QED
    BY <2>1, <2>2 DEF Done
<1>2. CASE ~(k <= happened)
  <2>1. Next
    BY DEF Next
  <2>2. NothingAhead'
    BY <2>1, NextAhead
  <2>3. Unknown(k)'
    BY <1>0, <1>2, <2>2 DEF NothingAhead
  <2>4. IndexHonest(k)'
    <3>1. \A n \in Ordinals : ~(n < counts'[k])
      BY <2>3, ConstantTypes DEF Unknown
    <3> QED
      BY <2>3, <3>1 DEF Unknown, IndexHonest
  <2> QED
    BY <1>0, <1>2, <2>4 DEF Delivered
<1> QED
  BY <1>1, <1>2

LEMMA NextDelivery ==
  ASSUME TypeOK, TypeOK', FillInHand, Order, Delivery, [Next]_vars
  PROVE  Delivery'
<1> SUFFICES ASSUME NEW k \in Tracked, k \notin unowed', ~Done(k)' PROVE Delivered(k)'
  BY DEF Delivery
<1>0. k \in Contents
  BY TrackedAssumption
<1>1. ~Done(k)
  BY <1>0, DoneForGood
<1>2. unowed \subseteq unowed'
  BY DEF Next, ClientStep, FeedStep, Happen, TimePasses, Connect, ConnectFails, ReadFrame,
         SkipFrame, LoseConnection, TradeIsNew, TradeIsDropped, BackfillGap, BackfillAnswered,
         BackfillFails, RowIsNew, RowIsDuplicate, Record, RecordFails, CopyTrade, Evict,
         CrashAndRecover, LeaveUnowed, vars
<1>3. Delivered(k)
  BY <1>1, <1>2 DEF Delivery
<1> USE <1>0, <1>3
<1>4. CASE Happen
  BY <1>4, HappenDelivered
<1>5. CASE TimePasses
  BY <1>5, TimeDelivered DEF Order
<1>6. CASE ClientStep
  BY <1>6, ClientDelivered
<1>7. CASE TradeIsNew \/ TradeIsDropped \/ BackfillGap
  BY <1>7, ReceiveDelivered
<1>8. CASE BackfillAnswered \/ BackfillFails
  BY <1>8, BackfillDelivered
<1>9. CASE \E r \in Events : RowIsNew(r) \/ RowIsDuplicate(r)
  BY <1>9, RowDelivered
<1>10. CASE Record \/ RecordFails \/ CopyTrade
  <2>1. UNCHANGED <<channel, happened>> /\ feed.pc # "fetching"
    BY <1>10 DEF Record, RecordFails, CopyTrade
  <2> QED
    BY <1>10, <2>1, OwedSame, HandOnUntouched, UntouchedDelivered
<1>11. CASE UNCHANGED vars
  <2>1. UNCHANGED <<channel, happened, feed>>
    BY <1>11 DEF vars
  <2> QED
    BY <1>11, <2>1, OwedSame, FailUntouched, UntouchedDelivered DEF Order
<1>12. CASE Evict
  BY <1>12, EvictDelivered
<1>13. CASE CrashAndRecover
  BY <1>1, <1>13, RestartDelivered
<1> QED
  BY <1>4, <1>5, <1>6, <1>7, <1>8, <1>9, <1>10, <1>11, <1>12, <1>13 DEF Next, FeedStep

(***************************************************************************)
(* The theorems.                                                           *)
(***************************************************************************)
LEMMA DeliveryInvariance == Spec => [](IInv /\ Order /\ Room /\ OnceEach /\ Delivery)
<1>1. Init => Order /\ Room /\ OnceEach /\ Delivery
  BY InitOrder, InitRoom, InitOnce, InitDelivery
<1>2. IInv /\ IInv' /\ Order /\ Room /\ OnceEach /\ Delivery /\ [Next]_vars
        => (Order /\ Room /\ OnceEach /\ Delivery)'
  BY NextOrder, NextRoom, NextOnce, NextDelivery DEF IInv, Ledger
<1> QED
  BY <1>1, <1>2, Invariance, PTL DEF Spec

\* However live rows, backfills, lost connections and restarts are mixed, the
\* copies of a content, repetitions counted, are no more than its rows, unless a
\* backfill was answered while its live rows were on their way to the feed
\* task, or neither the index nor the database is sure to remember it
\* (observe_live, observe_backfill, restore_dedup, backfill_gap).
THEOREM NeverTooMany == Spec => []NoExtraCopies
<1>1. IInv /\ Room /\ OnceEach => NoExtraCopies
  BY CopiesFit DEF IInv, Room, OnceEach, NoExtraCopies
<1> QED
  BY <1>1, DeliveryInvariance, PTL

LEMMA QuietIsDelivered ==
  ASSUME IInv, Order, Delivery, Quiet, NEW k \in Tracked, k <= happened, k \notin unowed
  PROVE  Done(k)
<1> SUFFICES ASSUME ~Done(k) PROVE FALSE
  OBVIOUS
<1>0. k \in Contents /\ TypeOK
  BY TrackedAssumption DEF IInv
<1>1. Delivered(k)
  BY DEF Delivery
<1>2. feed.event = None /\ feed.batch = {} /\ feed.pc = "idle"
  BY DEF Quiet, IInv, Ledger, FillInHand, HandingOn, Order, BatchInProgress
<1>3. Coming(k) = 0
  BY OccursInEmpty DEF Quiet, Coming
<1>4. ~Owed(k)
  BY <1>2, EmptySeq DEF Owed, Quiet
<1>5. Answered(k)
  BY <1>1, <1>3, <1>4 DEF Delivered, Live
<1>6. \A n \in Ordinals : None # <<k, n>>
  BY <1>0, ConstantTypes DEF Events
<1>7. \A n \in Ordinals : n < Rows[k] => copied[k][n] > 0
  BY <1>2, <1>5, <1>6 DEF Answered, Taken
<1> QED
  BY <1>0, <1>7, CopiesSuffice

\* When everything has been delivered and worked off, a fill of a followed
\* wallet was copied in full unless nothing had undertaken to deliver it: it
\* happened with the socket down and no backfill outstanding, it was lost with a
\* connection whose backfill starts after it, its frame or row did not parse,
\* its backfill failed or was cut off, or the process died (RtdsClient::run,
\* run_source_feed, backfill_gap, backfill_wallet_trades).
THEOREM NothingOwedIsMissed == Spec => []MissedOnlyIfUnowed
<1>1. IInv /\ Order /\ Delivery => MissedOnlyIfUnowed
  <2> SUFFICES ASSUME IInv, Order, Delivery, Quiet,
                      NEW k \in Tracked \cap (1..happened), k \notin unowed
               PROVE  FillsCopied(k) >= Rows[k]
    BY DEF MissedOnlyIfUnowed
  <2>1. k <= happened
    BY ContentCountAssumption DEF IInv, TypeOK
  <2> QED
    BY <2>1, QuietIsDelivered DEF Done
<1> QED
  BY <1>1, DeliveryInvariance, PTL
=============================================================================
