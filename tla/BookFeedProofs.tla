--------------------------- MODULE BookFeedProofs ---------------------------
(***************************************************************************)
(* Proofs about BookFeed, for any tokens, cap, pipelines and bounds: the   *)
(* cap on followed tokens is kept, a stream that has read everything has   *)
(* the venue's books, and a loss at the best price is not published        *)
(* unnoticed.                                                              *)
(***************************************************************************)
EXTENDS BookFeed, FiniteSetTheorems, TLAPS

(***************************************************************************)
(* Types.                                                                  *)
(***************************************************************************)
Typed == TypeOK /\ scope \in Scopes /\ IsFiniteSet(followed)

LEMMA ScopeType ==
  ASSUME scope \in Scopes
  PROVE  scope.tokens \subseteq Tokens /\ scope.changes \in Nat /\ scope.frames \in Nat
BY ScopesAssumption

LEMMA FrameTypes ==
  ASSUME scope \in Scopes, NEW t \in Tokens, NEW v \in Versions,
         NEW place \in Places, NEW told \in BOOLEAN
  PROVE  /\ Snapshot(t, v) \in Frames /\ Change(t, v, place, told) \in Frames
         /\ Tick(t, v) \in Frames
BY DEF Snapshot, Change, Tick, Frames, Places

LEMMA BookTypes ==
  ASSUME NEW v \in Versions, NEW missed \in SUBSET Places
  PROVE  Book(v, missed) \in Books /\ NoBook \in Books
BY DEF Book, NoBook, Books

\* What a put leaves in the cache.
Placed(t, b) ==
  \E aged \in BOOLEAN :
    cache' = [cache EXCEPT ![t] = [seen |-> b.seen, missed |-> b.missed, aged |-> aged]]

LEMMA PutType ==
  ASSUME cache \in [Tokens -> Cached], NEW t \in Tokens, NEW b \in Books, Placed(t, b)
  PROVE  /\ cache' \in [Tokens -> Cached]
         /\ cache'[t].seen = b.seen /\ cache'[t].missed = b.missed
         /\ \A u \in Tokens \ {t} : cache'[u] = cache[u]
<1>1. PICK aged \in BOOLEAN :
        cache' = [cache EXCEPT ![t] = [seen |-> b.seen, missed |-> b.missed, aged |-> aged]]
  BY DEF Placed
<1> DEFINE c == [seen |-> b.seen, missed |-> b.missed, aged |-> aged]
<1>2. c \in Cached /\ cache' = [cache EXCEPT ![t] = c]
  BY <1>1 DEF Books, Cached
<1>3. c.seen = b.seen /\ c.missed = b.missed
  OBVIOUS
<1> HIDE DEF c
<1> QED
  BY <1>2, <1>3

LEMMA FollowType ==
  ASSUME followed \subseteq Tokens, IsFiniteSet(followed), dirty \in BOOLEAN,
         Cardinality(followed) <= MaxFollowed, NEW t \in Tokens, Follow(t)
  PROVE  /\ followed' \subseteq Tokens /\ IsFiniteSet(followed') /\ dirty' \in BOOLEAN
         /\ Cardinality(followed') <= MaxFollowed
<1>1. CASE t \in followed \/ Cardinality(followed) >= MaxFollowed
  BY <1>1 DEF Follow
<1>2. CASE ~(t \in followed \/ Cardinality(followed) >= MaxFollowed)
  <2>1. followed' = followed \cup {t} /\ dirty' = TRUE
    BY <1>2 DEF Follow
  <2>2. IsFiniteSet(followed \cup {t})
        /\ Cardinality(followed \cup {t}) = Cardinality(followed) + 1
    BY <1>2, FS_AddElement
  <2>3. Cardinality(followed) \in Nat
    BY FS_CardinalityType
  <2> QED
    BY <1>2, <2>1, <2>2, <2>3, FollowedAssumption
<1> QED
  BY <1>1, <1>2

LEMMA InitTyped == Init => Typed
<1> SUFFICES ASSUME Init PROVE Typed
  OBVIOUS
<1>1. scope \in Scopes /\ 0 \in Versions
  BY ScopeType DEF Init, Versions
<1>2. /\ builder \in [Tokens -> Books] /\ cache \in [Tokens -> Cached]
      /\ venue \in [Tokens -> Versions]
  BY <1>1 DEF Init, NoBook, Books, Cached
<1>3. fetch \in [Fetchers -> [Tokens -> [pc : {"idle", "asked", "answered"},
                                         seen : Versions]]]
  <2>1. NoFetch \in [pc : {"idle", "asked", "answered"}, seen : Versions]
    BY <1>1 DEF NoFetch
  <2> QED
    BY <2>1 DEF Init
<1>4. IsFiniteSet(followed) /\ followed \subseteq Tokens
      /\ Cardinality(followed) <= MaxFollowed
  BY FS_EmptySet, FollowedAssumption DEF Init
<1>5. wire \in Seq(Frames) /\ Len(wire) <= scope.frames
  BY <1>1, ScopeType DEF Init
<1>6. stream \in [pc : {"waiting", "connecting", "up"}, tokens : SUBSET Tokens,
                  rested : BOOLEAN, lost : BOOLEAN]
  BY DEF Init, Unconnected
<1> QED
  BY <1>1, <1>2, <1>3, <1>4, <1>5, <1>6 DEF Init, Typed, TypeOK

\* Requests and the warm-up.
FetchStep(t) ==
  \/ Warm(t) \/ Refresh(t) \/ GrowOld(t)
  \/ \E p \in Pipelines : Ask(p, t)
  \/ \E f \in Fetchers : Answer(f, t) \/ PutAnswer(f, t) \/ FetchFails(f, t)

LEMMA FetchTyped ==
  ASSUME Typed, NEW t \in scope.tokens, FetchStep(t)
  PROVE  Typed' /\ UNCHANGED <<stream, builder, wire, venue>>
<1> DEFINE Requests == [pc : {"idle", "asked", "answered"}, seen : Versions]
           Fetch    == [Fetchers -> [Tokens -> Requests]]
<1> t \in Tokens /\ scope \in Scopes /\ 0 \in Versions
  BY ScopeType DEF Typed, Versions
<1>1. /\ fetch \in Fetch /\ cache \in [Tokens -> Cached] /\ venue \in [Tokens -> Versions]
      /\ followed \subseteq Tokens /\ IsFiniteSet(followed) /\ dirty \in BOOLEAN
      /\ Cardinality(followed) <= MaxFollowed /\ unchecked \subseteq Tokens
  BY DEF Typed, TypeOK
<1>2. ASSUME NEW f \in Fetchers, NEW r \in Requests, fetch' = [fetch EXCEPT ![f][t] = r]
      PROVE  fetch' \in Fetch
  BY <1>1, <1>2
<1>3. SUFFICES /\ fetch' \in Fetch /\ cache' \in [Tokens -> Cached]
               /\ followed' \subseteq Tokens /\ IsFiniteSet(followed')
               /\ dirty' \in BOOLEAN /\ Cardinality(followed') <= MaxFollowed
               /\ unchecked' \subseteq Tokens
               /\ UNCHANGED <<stream, builder, wire, venue, scope>>
  BY DEF Typed, TypeOK, Books, Cached, Frames, Versions
<1> NoFetch \in Requests
  BY DEF NoFetch
<1>4. CASE Warm(t)
  BY <1>1, <1>4, FollowType DEF Warm
<1>5. CASE Refresh(t)
  <2>1. fetch[Refresher][t] \in Requests
    BY <1>1 DEF Fetchers
  <2> DEFINE r == [fetch[Refresher][t] EXCEPT !.pc = "asked"]
  <2>2. r \in Requests /\ fetch' = [fetch EXCEPT ![Refresher][t] = r]
    BY <1>1, <1>5, <2>1 DEF Refresh, Fetchers
  <2> HIDE DEF r
  <2>3. fetch' \in Fetch
    BY <1>2, <2>2 DEF Fetchers
  <2> QED
    BY <1>1, <1>5, <2>3 DEF Refresh
<1>6. CASE GrowOld(t)
  <2>1. cache' \in [Tokens -> Cached]
    BY ZenonT(40), <1>1, <1>6 DEF GrowOld, Cached
  <2> QED
    BY <1>1, <1>6, <2>1 DEF GrowOld
<1>7. ASSUME NEW p \in Pipelines, Ask(p, t)
      PROVE  /\ fetch' \in Fetch /\ cache' \in [Tokens -> Cached]
             /\ followed' \subseteq Tokens /\ IsFiniteSet(followed')
             /\ dirty' \in BOOLEAN /\ Cardinality(followed') <= MaxFollowed
             /\ unchecked' \subseteq Tokens
               /\ UNCHANGED <<stream, builder, wire, venue, scope>>
  <2>1. fetch[p][t] \in Requests /\ p \in Fetchers
    BY <1>1 DEF Fetchers
  <2> DEFINE r == [fetch[p][t] EXCEPT !.pc = "asked"]
  <2>2. r \in Requests /\ fetch' = [fetch EXCEPT ![p][t] = r]
    BY <1>1, <1>7, <2>1 DEF Ask
  <2> HIDE DEF r
  <2>3. fetch' \in Fetch
    BY <1>2, <2>1, <2>2
  <2> QED
    BY <1>1, <1>7, <2>3, FollowType DEF Ask
<1>8. ASSUME NEW f \in Fetchers, Answer(f, t)
      PROVE  fetch' \in Fetch
  <2>1. [pc |-> "answered", seen |-> venue[t]] \in Requests
    BY <1>1
  <2> QED
    BY <1>2, <1>8, <2>1 DEF Answer
<1>9. ASSUME NEW f \in Fetchers, PutAnswer(f, t)
      PROVE  fetch' \in Fetch /\ cache' \in [Tokens -> Cached] /\ unchecked' \subseteq Tokens
  <2>1. fetch[f][t].seen \in Versions
    BY <1>1
  <2>2. Book(fetch[f][t].seen, {}) \in Books
    BY <2>1, BookTypes
  <2>3. cache' \in [Tokens -> Cached] /\ unchecked' \subseteq Tokens
    <3>1. Placed(t, Book(fetch[f][t].seen, {})) /\ unchecked' = unchecked \ {t}
      BY <1>9 DEF PutAnswer, Put, Placed
    <3> QED
      BY <1>1, <2>2, <3>1, PutType
  <2> QED
    BY <1>2, <1>9, <2>3 DEF PutAnswer
<1>10. ASSUME NEW f \in Fetchers, FetchFails(f, t) PROVE fetch' \in Fetch
  BY <1>2, <1>10 DEF FetchFails
<1>11. CASE \E f \in Fetchers : Answer(f, t)
  BY <1>1, <1>8, <1>11 DEF Answer
<1>12. CASE \E f \in Fetchers : PutAnswer(f, t)
  BY <1>1, <1>9, <1>12 DEF PutAnswer
<1>13. CASE \E f \in Fetchers : FetchFails(f, t)
  BY <1>1, <1>10, <1>13 DEF FetchFails
<1> QED
  BY <1>4, <1>5, <1>6, <1>7, <1>11, <1>12, <1>13 DEF FetchStep

(***************************************************************************)
(* The streaming task and the venue.                                       *)
(***************************************************************************)
LEMMA StreamTypes ==
  ASSUME Typed
  PROVE  /\ scope \in Scopes /\ followed \subseteq Tokens /\ IsFiniteSet(followed)
         /\ dirty \in BOOLEAN /\ Cardinality(followed) <= MaxFollowed
         /\ stream \in [pc : {"waiting", "connecting", "up"}, tokens : SUBSET Tokens,
                        rested : BOOLEAN, lost : BOOLEAN]
         /\ builder \in [Tokens -> Books] /\ cache \in [Tokens -> Cached]
         /\ wire \in Seq(Frames) /\ Len(wire) <= scope.frames /\ Len(wire) \in Nat
         /\ scope.frames \in Nat /\ scope.changes \in Nat
         /\ venue \in [Tokens -> Versions] /\ unchecked \subseteq Tokens
BY ScopeType DEF Typed, TypeOK

\* The frame that is read next.
LEMMA HeadType ==
  ASSUME wire \in Seq(Frames), wire # <<>>
  PROVE  /\ Head(wire) \in Frames /\ Tail(wire) \in Seq(Frames)
         /\ Len(Tail(wire)) = Len(wire) - 1
         /\ Head(wire).token \in Tokens /\ Head(wire).seen \in Versions
         /\ Head(wire).place \in Places /\ Head(wire).told \in BOOLEAN
         /\ Head(wire).kind \in {"book", "price_change", "tick_size_change"}
<1>1. Head(wire) \in Frames /\ Tail(wire) \in Seq(Frames) /\ Len(Tail(wire)) = Len(wire) - 1
  OBVIOUS
<1> QED
  BY <1>1 DEF Frames

LEMMA DisconnectTyped ==
  ASSUME Typed, Disconnect
  PROVE  Typed'
<1>1. stream' \in [pc : {"waiting", "connecting", "up"}, tokens : SUBSET Tokens,
                   rested : BOOLEAN, lost : BOOLEAN]
  BY DEF Disconnect, Unconnected
<1>2. wire' \in Seq(Frames) /\ Len(wire') <= scope.frames
  BY StreamTypes DEF Disconnect
<1> QED
  BY <1>1, <1>2 DEF Disconnect, Typed, TypeOK, Books, Cached, Frames, Versions

\* What a frame that is read does to the books.
LEMMA ReadTyped ==
  ASSUME Typed, wire # <<>>, ReadSnapshot \/ ReadChange \/ ReadTick,
         UNCHANGED scope
  PROVE  builder' \in [Tokens -> Books] /\ cache' \in [Tokens -> Cached]
         /\ unchecked' \subseteq Tokens
<1> DEFINE f == Head(wire)
<1>1. f.token \in Tokens /\ f.seen \in Versions /\ f.told \in BOOLEAN
  BY StreamTypes, HeadType
<1> HIDE DEF f
<1>2. CASE ReadSnapshot
  <2>1. Book(f.seen, {}) \in Books
    BY <1>1, BookTypes
  <2>2. Placed(f.token, Book(f.seen, {})) /\ unchecked' = unchecked \ {f.token}
    BY <1>2 DEF ReadSnapshot, Put, Placed, f
  <2>3. cache' \in [Tokens -> Cached] /\ unchecked' \subseteq Tokens
    BY <1>1, <2>1, <2>2, PutType, StreamTypes
  <2>4. builder' = [builder EXCEPT ![f.token] = Book(f.seen, {})]
    BY <1>2 DEF ReadSnapshot, f
  <2> QED
    BY <2>1, <2>3, <2>4, StreamTypes
<1>3. CASE ReadChange
  <2>1. CASE ~Known(builder[f.token])
    BY <1>3, <2>1, StreamTypes DEF ReadChange, f
  <2>2. CASE Known(builder[f.token])
    <3>1. PICK missed \in Repairs(builder[f.token], f) :
            LET b == Book(f.seen, missed)
            IN  IF Drifted(b, f)
                  THEN /\ builder' = [builder EXCEPT ![f.token] = NoBook]
                       /\ UNCHANGED <<cache, unchecked>>
                  ELSE /\ builder' = [builder EXCEPT ![f.token] = b]
                       /\ Put(f.token, b, FALSE, f.told)
      BY <1>3, <2>2 DEF ReadChange, f
    <3>2. missed \in SUBSET Places
      BY <1>1, <3>1, StreamTypes DEF Repairs, Books
    <3> DEFINE b == Book(f.seen, missed)
    <3>3. b \in Books /\ NoBook \in Books
      BY <1>1, <3>2, BookTypes
    <3>4. \/ /\ builder' = [builder EXCEPT ![f.token] = NoBook]
             /\ UNCHANGED <<cache, unchecked>>
          \/ /\ builder' = [builder EXCEPT ![f.token] = b]
             /\ Placed(f.token, b)
             /\ unchecked' \in {unchecked \ {f.token}, unchecked \cup {f.token}}
      BY <3>1 DEF Put, Placed
    <3> HIDE DEF b
    <3>5. Placed(f.token, b) => cache' \in [Tokens -> Cached]
      BY <1>1, <3>3, PutType, StreamTypes
    <3> QED
      BY ZenonT(40), <1>1, <3>3, <3>4, <3>5, StreamTypes
  <2> QED
    BY <2>1, <2>2
<1>4. CASE ReadTick
  <2>1. UNCHANGED builder /\ builder[f.token] \in Books
    BY <1>1, <1>4, StreamTypes DEF ReadTick
  <2>2. \/ Placed(f.token, builder[f.token]) /\ unchecked' = unchecked \cup {f.token}
        \/ UNCHANGED <<cache, unchecked>>
    BY <1>4 DEF ReadTick, Put, Placed, f
  <2> QED
    BY <1>1, <2>1, <2>2, PutType, StreamTypes
<1> QED
  BY <1>2, <1>3, <1>4

LEMMA StreamTyped ==
  ASSUME Typed, StreamStep
  PROVE  Typed'
<1> DEFINE Streams == [pc : {"waiting", "connecting", "up"}, tokens : SUBSET Tokens,
                       rested : BOOLEAN, lost : BOOLEAN]
<1> USE StreamTypes
<1>1. SUFFICES ASSUME ~Disconnect
               PROVE  /\ stream' \in Streams /\ dirty' \in BOOLEAN
                      /\ builder' \in [Tokens -> Books] /\ cache' \in [Tokens -> Cached]
                      /\ wire' \in Seq(Frames) /\ Len(wire') <= scope.frames
                      /\ unchecked' \subseteq Tokens
                      /\ UNCHANGED <<followed, venue, fetch, scope>>
  BY DisconnectTyped DEF Typed, TypeOK, Books, Cached, Frames, Versions
<1>2. CASE Connect
  BY <1>2 DEF Connect, Unconnected
<1>3. CASE Connected
  BY <1>3, ScopeType DEF Connected, NoBook, Books
<1>4. CASE Notice
  BY <1>4 DEF Notice
<1>5. CASE Rest
  BY <1>5 DEF Rest
<1>6. CASE ReadFrame
  <2>1. wire' = Tail(wire) /\ wire # <<>>
        /\ UNCHANGED <<followed, dirty, stream, venue, fetch, scope>>
    BY <1>6 DEF ReadFrame
  <2>2. wire' \in Seq(Frames) /\ Len(wire') <= scope.frames
    BY <2>1, HeadType
  <2>3. builder' \in [Tokens -> Books] /\ cache' \in [Tokens -> Cached]
        /\ unchecked' \subseteq Tokens
    BY <1>6, <2>1, ReadTyped DEF ReadFrame
  <2> QED
    BY <2>1, <2>2, <2>3
<1>7. CASE SkipFrame
  <2> DEFINE f == Head(wire)
  <2>1. wire' = Tail(wire) /\ wire # <<>> /\ stream' = [stream EXCEPT !.lost = TRUE]
        /\ builder' = (IF f.kind = "price_change" /\ Known(builder[f.token])
                      THEN [builder EXCEPT ![f.token].missed = @ \cup {f.place}]
                      ELSE builder)
        /\ UNCHANGED <<followed, dirty, venue, cache, fetch, unchecked, scope>>
    BY <1>7 DEF SkipFrame
  <2>2. wire' \in Seq(Frames) /\ Len(wire') <= scope.frames
    BY <2>1, HeadType
  <2>3. f.token \in Tokens /\ f.place \in Places
    BY <2>1, HeadType
  <2> HIDE DEF f
  <2>4. builder' \in [Tokens -> Books]
    BY <2>1, <2>3 DEF Books
  <2>5. stream' \in Streams
    BY <2>1
  <2> QED
    BY <2>1, <2>2, <2>4, <2>5
<1> QED
  BY <1>1, <1>2, <1>3, <1>4, <1>5, <1>6, <1>7
     DEF StreamStep, ConnectFails, ConnectionLost, Resubscribe

LEMMA VenueTyped ==
  ASSUME Typed, NEW t \in scope.tokens,
         VenueSnapshot(t) \/ VenueTick(t)
         \/ \E place \in Places, told \in BOOLEAN : VenueChanges(t, place, told)
  PROVE  Typed'
<1> USE StreamTypes
<1>1. t \in Tokens /\ venue[t] \in Versions
  BY ScopeType
<1>2. CASE VenueSnapshot(t)
  <2>1. Snapshot(t, venue[t]) \in Frames
    BY <1>1, FrameTypes DEF Places
  <2>2. wire' \in Seq(Frames) /\ Len(wire') <= scope.frames
    BY <1>2, <2>1 DEF VenueSnapshot
  <2> QED
    BY <1>2, <2>2 DEF VenueSnapshot, Typed, TypeOK, Books, Cached, Frames, Versions
<1>4. CASE VenueTick(t)
  <2>1. Tick(t, venue[t]) \in Frames
    BY <1>1, FrameTypes DEF Places
  <2>2. wire' \in Seq(Frames) /\ Len(wire') <= scope.frames
    BY <1>4, <2>1 DEF VenueTick
  <2> QED
    BY <1>4, <2>2 DEF VenueTick, Typed, TypeOK, Books, Cached, Frames, Versions
<1>3. ASSUME NEW place \in Places, NEW told \in BOOLEAN, VenueChanges(t, place, told)
      PROVE  Typed'
  <2>1. venue[t] + 1 \in Versions
    BY <1>1, <1>3 DEF VenueChanges, Versions
  <2>2. Change(t, venue[t] + 1, place, told) \in Frames
    BY <2>1, <1>1, FrameTypes
  <2>3. wire' \in Seq(Frames) /\ Len(wire') <= scope.frames
    BY <1>3, <2>2 DEF VenueChanges
  <2>4. venue' \in [Tokens -> Versions]
    BY <1>1, <1>3, <2>1 DEF VenueChanges
  <2> QED
    BY <1>3, <2>3, <2>4 DEF VenueChanges, Typed, TypeOK, Books, Cached, Frames, Versions
<1> QED
  BY <1>2, <1>3, <1>4

LEMMA TypedStep == Typed /\ [Next]_vars => Typed'
<1> SUFFICES ASSUME Typed, [Next]_vars PROVE Typed'
  OBVIOUS
<1>1. CASE StreamStep
  BY <1>1, StreamTyped
<1>2. ASSUME NEW t \in scope.tokens, FetchStep(t) PROVE Typed'
  BY <1>2, FetchTyped
<1>3. ASSUME NEW t \in scope.tokens,
             VenueSnapshot(t) \/ VenueTick(t)
             \/ \E place \in Places, told \in BOOLEAN : VenueChanges(t, place, told)
      PROVE  Typed'
  BY <1>3, VenueTyped
<1>4. CASE UNCHANGED vars
  BY <1>4 DEF vars, Typed, TypeOK, Books, Cached, Frames, Versions
<1> QED
  BY <1>1, <1>2, <1>3, <1>4 DEF Next, FetchStep

LEMMA AlwaysTyped == Spec => []Typed
BY InitTyped, TypedStep, PTL DEF Spec

\* Every variable keeps its type; with it, no more tokens than the cap are
\* followed (TokenSubscriptions::add) and no more frames are under way than the
\* bound, for any tokens, cap, pipelines and bounds.
THEOREM TypeCorrect == Spec => []TypeOK
<1>1. Typed => TypeOK
  BY DEF Typed
<1> QED
  BY <1>1, AlwaysTyped, PTL

-----------------------------------------------------------------------------
(***************************************************************************)
(* A loss at the best price.                                               *)
(***************************************************************************)

\* A put of a whole book, or of one that was compared with nothing.
LEMMA PutGenuine ==
  ASSUME Typed, BestIsGenuine, NEW t \in Tokens, NEW b \in Books, Placed(t, b),
         \/ "best" \notin b.missed /\ unchecked' = unchecked \ {t}
         \/ unchecked' = unchecked \cup {t}
  PROVE  BestIsGenuine'
<1> SUFFICES ASSUME NEW u \in Tokens, "best" \in cache'[u].missed PROVE u \in unchecked'
  BY DEF BestIsGenuine
<1>1. cache'[t].missed = b.missed /\ \A v \in Tokens \ {t} : cache'[v] = cache[v]
  BY StreamTypes, PutType
<1> QED
  BY <1>1 DEF BestIsGenuine

\* Whatever a task other than the stream puts has nothing missed.
LEMMA FetchGenuine ==
  ASSUME Typed, BestIsGenuine, NEW t \in scope.tokens, FetchStep(t)
  PROVE  BestIsGenuine'
<1> USE StreamTypes
<1>1. t \in Tokens
  BY ScopeType
<1>2. CASE GrowOld(t)
  <2>1. \A u \in Tokens : cache'[u].missed = cache[u].missed
    BY <1>1, <1>2 DEF GrowOld, Cached
  <2> QED
    BY <1>2, <2>1 DEF GrowOld, BestIsGenuine
<1>3. ASSUME NEW f \in Fetchers, PutAnswer(f, t) PROVE BestIsGenuine'
  <2>1. fetch[f][t].seen \in Versions
    BY <1>1 DEF Typed, TypeOK
  <2>2. Book(fetch[f][t].seen, {}) \in Books /\ Book(fetch[f][t].seen, {}).missed = {}
    BY <2>1, BookTypes DEF Book
  <2>3. Placed(t, Book(fetch[f][t].seen, {})) /\ unchecked' = unchecked \ {t}
    BY <1>3 DEF PutAnswer, Put, Placed
  <2> QED
    BY <1>1, <2>2, <2>3, PutGenuine
<1>4. CASE UNCHANGED <<cache, unchecked>>
  BY <1>4 DEF BestIsGenuine
<1> QED
  BY <1>2, <1>3, <1>4 DEF FetchStep, Warm, Refresh, Ask, Answer, FetchFails

\* A book that the stream publishes misses its best price only if nothing was
\* compared with the venue's.
LEMMA ReadGenuine ==
  ASSUME Typed, BestIsGenuine, ReadFrame
  PROVE  BestIsGenuine'
<1> USE StreamTypes
<1> DEFINE f == Head(wire)
<1>1. f.token \in Tokens /\ f.seen \in Versions /\ f.told \in BOOLEAN
  BY HeadType DEF ReadFrame
<1> HIDE DEF f
<1>2. CASE ReadSnapshot
  <2>1. Book(f.seen, {}) \in Books /\ Book(f.seen, {}).missed = {}
    BY <1>1, BookTypes DEF Book
  <2>2. Placed(f.token, Book(f.seen, {})) /\ unchecked' = unchecked \ {f.token}
    BY <1>2 DEF ReadSnapshot, Put, Placed, f
  <2> QED
    BY <1>1, <2>1, <2>2, PutGenuine
<1>3. CASE ReadChange
  <2>1. CASE ~Known(builder[f.token])
    BY <1>3, <2>1 DEF ReadChange, f, BestIsGenuine
  <2>2. CASE Known(builder[f.token])
    <3>1. PICK missed \in Repairs(builder[f.token], f) :
            LET b == Book(f.seen, missed)
            IN  IF Drifted(b, f)
                  THEN /\ builder' = [builder EXCEPT ![f.token] = NoBook]
                       /\ UNCHANGED <<cache, unchecked>>
                  ELSE /\ builder' = [builder EXCEPT ![f.token] = b]
                       /\ Put(f.token, b, FALSE, f.told)
      BY <1>3, <2>2 DEF ReadChange, f
    <3>2. missed \in SUBSET Places
      BY <1>1, <3>1 DEF Repairs, Books
    <3> DEFINE b == Book(f.seen, missed)
    <3>3. b \in Books
      BY <1>1, <3>2, BookTypes
    <3>4. \/ UNCHANGED <<cache, unchecked>>
          \/ /\ ~Drifted(b, f) /\ Placed(f.token, b)
             /\ unchecked' = IF f.told THEN unchecked \ {f.token}
                                       ELSE unchecked \cup {f.token}
      BY <3>1 DEF Put, Placed
    <3> HIDE DEF b
    <3>5. CASE UNCHANGED <<cache, unchecked>>
      BY <3>5 DEF BestIsGenuine
    <3>6. CASE /\ ~Drifted(b, f) /\ Placed(f.token, b)
               /\ unchecked' = IF f.told THEN unchecked \ {f.token}
                                         ELSE unchecked \cup {f.token}
      <4>1. f.told => "best" \notin b.missed
        BY <3>6 DEF Drifted
      <4> QED
        BY <1>1, <3>3, <3>6, <4>1, PutGenuine
    <3> QED
      BY <3>4, <3>5, <3>6
  <2> QED
    BY <2>1, <2>2
<1>4. CASE ReadTick
  <2>1. builder[f.token] \in Books
    BY <1>1
  <2>2. \/ Placed(f.token, builder[f.token]) /\ unchecked' = unchecked \cup {f.token}
        \/ UNCHANGED <<cache, unchecked>>
    BY <1>4 DEF ReadTick, Put, Placed, f
  <2> QED
    BY <1>1, <2>1, <2>2, PutGenuine DEF BestIsGenuine
<1> QED
  BY <1>2, <1>3, <1>4 DEF ReadFrame

\* A change lost at the best price is found out before a book that lacks it is
\* put in the cache (BookBuilder::apply drops a book that has drifted instead of
\* publishing it), whatever frames are lost and in whatever order they come; but
\* for a change that told no best price and for a change of the tick size, which
\* publishes the book as it is.
THEOREM LossAtTheBestIsDropped == Spec => []BestIsGenuine
<1>1. Init => BestIsGenuine
  BY DEF Init, BestIsGenuine
<1>2. Typed /\ BestIsGenuine /\ [Next]_vars => BestIsGenuine'
  <2> SUFFICES ASSUME Typed, BestIsGenuine, [Next]_vars PROVE BestIsGenuine'
    OBVIOUS
  <2>1. CASE ReadFrame
    BY <2>1, ReadGenuine
  <2>2. ASSUME NEW t \in scope.tokens, FetchStep(t) PROVE BestIsGenuine'
    BY <2>2, FetchGenuine
  <2>3. CASE UNCHANGED <<cache, unchecked>>
    BY <2>3 DEF BestIsGenuine
  <2>4. StreamStep => ReadFrame \/ UNCHANGED <<cache, unchecked>>
    BY DEF StreamStep, Connect, Connected, ConnectFails, ConnectionLost, Disconnect,
           Notice, Rest, Resubscribe, SkipFrame
  <2>5. ASSUME NEW t \in scope.tokens,
               VenueSnapshot(t) \/ VenueTick(t)
               \/ \E place \in Places, told \in BOOLEAN : VenueChanges(t, place, told)
        PROVE  UNCHANGED <<cache, unchecked>>
    BY <2>5 DEF VenueSnapshot, VenueTick, VenueChanges
  <2> QED
    BY <2>1, <2>2, <2>3, <2>4, <2>5 DEF Next, FetchStep, vars
<1> QED
  BY <1>1, <1>2, AlwaysTyped, PTL DEF Spec

-----------------------------------------------------------------------------
(***************************************************************************)
(* A stream that has read everything.                                      *)
(*                                                                         *)
(* CaughtUp says nothing while frames are under way, so it is not          *)
(* inductive.  What is: the last frame under way that tells of a token's   *)
(* levels bears the venue's book; and a book with no such frame under way  *)
(* is the venue's already.                                                 *)
(***************************************************************************)
Tells(f) == f.kind # "tick_size_change"

LastOf(w, i) ==
  /\ Tells(w[i])
  /\ \A j \in 1..Len(w) : j > i /\ Tells(w[j]) => w[j].token # w[i].token

WireCurrent ==
  /\ stream.pc # "up" => wire = <<>>
  /\ \A i \in 1..Len(wire) :
       /\ wire[i].token \in stream.tokens
       /\ LastOf(wire, i) => wire[i].seen = venue[wire[i].token]

Awaited(w, t) == \E i \in 1..Len(w) : Tells(w[i]) /\ w[i].token = t

BuilderCurrent ==
  stream.pc = "up" /\ ~stream.lost =>
    \A t \in stream.tokens : Known(builder[t]) =>
      /\ builder[t].missed = {}
      /\ Awaited(wire, t) \/ builder[t].seen = venue[t]

Current == WireCurrent /\ BuilderCurrent

LEMMA CurrentCaughtUp == Typed /\ Current => CaughtUp
<1> SUFFICES ASSUME Typed, Current, stream.pc = "up", wire = <<>>, ~stream.lost,
                    NEW t \in stream.tokens, Known(builder[t])
             PROVE  builder[t] = Book(venue[t], {})
  BY DEF CaughtUp
<1>1. builder[t] \in Books
  BY StreamTypes
<1>2. ~Awaited(wire, t)
  BY DEF Awaited
<1>3. builder[t].missed = {} /\ builder[t].seen = venue[t]
  BY <1>2 DEF Current, BuilderCurrent
<1> QED
  BY <1>1, <1>3 DEF Books, Book

\* Taking the first frame away.
LEMMA TailCurrent ==
  ASSUME Typed, WireCurrent, wire # <<>>, wire' = Tail(wire), UNCHANGED venue,
         stream.pc = "up", stream'.tokens = stream.tokens, stream'.pc = "up"
  PROVE  WireCurrent'
<1> USE StreamTypes
<1>1. Len(wire') = Len(wire) - 1 /\ \A i \in 1..Len(wire') : wire'[i] = wire[i + 1]
  OBVIOUS
<1>2. SUFFICES ASSUME NEW i \in 1..Len(wire')
               PROVE  /\ wire'[i].token \in stream.tokens
                      /\ LastOf(wire', i) => wire'[i].seen = venue[wire'[i].token]
  BY DEF WireCurrent
<1>3. i + 1 \in 1..Len(wire) /\ wire'[i] = wire[i + 1]
  BY <1>1
<1>4. LastOf(wire', i) => LastOf(wire, i + 1)
  <2> SUFFICES ASSUME LastOf(wire', i), NEW j \in 1..Len(wire), j > i + 1, Tells(wire[j])
               PROVE  wire[j].token # wire[i + 1].token
    BY <1>3 DEF LastOf
  <2>1. j - 1 \in 1..Len(wire') /\ j - 1 > i /\ wire'[j - 1] = wire[j]
    BY <1>1
  <2> QED
    BY <1>3, <2>1 DEF LastOf
<1> QED
  BY <1>3, <1>4 DEF WireCurrent

\* A frame that is sent bears the venue's book of its moment.
LEMMA AppendCurrent ==
  ASSUME Typed, WireCurrent, NEW t \in Tokens, NEW f \in Frames, Subscribed(t),
         f.token = t, f.seen = venue'[t], wire' = Append(wire, f),
         Tells(f) \/ venue' = venue,
         \A u \in Tokens \ {t} : venue'[u] = venue[u], UNCHANGED stream
  PROVE  WireCurrent'
<1> USE StreamTypes
<1>1. /\ Len(wire') = Len(wire) + 1 /\ wire'[Len(wire) + 1] = f
      /\ \A i \in 1..Len(wire) : wire'[i] = wire[i]
  OBVIOUS
<1>2. SUFFICES ASSUME NEW i \in 1..Len(wire')
               PROVE  /\ wire'[i].token \in stream.tokens
                      /\ LastOf(wire', i) => wire'[i].seen = venue'[wire'[i].token]
  BY DEF WireCurrent, Subscribed
<1>3. CASE i = Len(wire) + 1
  BY <1>1, <1>3 DEF Subscribed
<1>4. CASE i \in 1..Len(wire)
  <2>1. wire'[i] = wire[i] /\ wire[i].token \in stream.tokens /\ wire[i].token \in Tokens
    BY <1>1, <1>4 DEF WireCurrent, Frames
  <2>2. ASSUME LastOf(wire', i) PROVE wire'[i].seen = venue'[wire'[i].token]
    <3>1. wire[i].token # t \/ venue' = venue
      <4>1. Len(wire) + 1 \in 1..Len(wire') /\ Len(wire) + 1 > i
        BY <1>1, <1>4
      <4> QED
        BY <1>1, <2>1, <2>2, <4>1 DEF LastOf
    <3>2. LastOf(wire, i)
      BY <1>1, <1>4, <2>2 DEF LastOf
    <3> QED
      BY <1>4, <2>1, <3>1, <3>2 DEF WireCurrent
  <2> QED
    BY <2>1, <2>2
<1> QED
  BY <1>1, <1>2, <1>3, <1>4

\* Reading a frame leaves a book that is the venue's, or awaits another frame.
LEMMA ReadCurrent ==
  ASSUME Typed, Current, ReadFrame
  PROVE  Current'
<1> USE StreamTypes
<1> DEFINE f == Head(wire)
<1>1. /\ f.token \in Tokens /\ f.seen \in Versions /\ wire # <<>>
      /\ wire' = Tail(wire) /\ stream.pc = "up" /\ UNCHANGED <<stream, venue>>
  BY HeadType DEF ReadFrame
<1>2. WireCurrent'
  BY <1>1, TailCurrent DEF Current
<1>3. /\ f = wire[1] /\ 1 \in 1..Len(wire)
      /\ Len(wire') = Len(wire) - 1 /\ \A i \in 1..Len(wire') : wire'[i] = wire[i + 1]
  BY <1>1
<1> HIDE DEF f
<1>4. ASSUME ~Awaited(wire', f.token), Tells(f) PROVE f.seen = venue[f.token]
  <2>1. LastOf(wire, 1)
    <3> SUFFICES ASSUME NEW j \in 1..Len(wire), j > 1, Tells(wire[j])
                 PROVE  wire[j].token # wire[1].token
      BY <1>3, <1>4 DEF LastOf
    <3>1. j - 1 \in 1..Len(wire') /\ wire'[j - 1] = wire[j]
      BY <1>3
    <3> QED
      BY <1>3, <1>4, <3>1 DEF Awaited
  <2> QED
    BY <1>3, <2>1 DEF Current, WireCurrent
<1>5. ASSUME NEW u \in Tokens, u # f.token \/ ~Tells(f), Awaited(wire, u)
      PROVE  Awaited(wire', u)
  <2>1. PICK i \in 1..Len(wire) : Tells(wire[i]) /\ wire[i].token = u
    BY <1>5 DEF Awaited
  <2>2. i - 1 \in 1..Len(wire') /\ wire'[i - 1] = wire[i]
    BY <1>3, <1>5, <2>1
  <2> QED
    BY <2>1, <2>2 DEF Awaited
<1>6. /\ \A u \in Tokens \ {f.token} : builder'[u] = builder[u]
      /\ \/ builder'[f.token] = NoBook
         \/ ~Known(builder[f.token]) /\ builder'[f.token] = builder[f.token]
         \/ ~Tells(f) /\ builder'[f.token] = builder[f.token]
         \/ /\ Tells(f) /\ builder'[f.token].seen = f.seen
            /\ Known(builder[f.token]) => builder'[f.token].missed \subseteq builder[f.token].missed
            /\ ~Known(builder[f.token]) => builder'[f.token].missed = {}
  <2>1. CASE ReadSnapshot
    <3>1. builder' = [builder EXCEPT ![f.token] = Book(f.seen, {})]
      BY <2>1 DEF ReadSnapshot, f
    <3>2. Tells(f)
      BY <2>1 DEF ReadSnapshot, f, Tells
    <3> QED
      BY <1>1, <3>1, <3>2 DEF Book
  <2>2. CASE ReadChange /\ ~Known(builder[f.token])
    BY <2>2 DEF ReadChange, f
  <2>3. CASE ReadChange /\ Known(builder[f.token])
    <3>1. PICK missed \in Repairs(builder[f.token], f) :
            \/ builder' = [builder EXCEPT ![f.token] = NoBook]
            \/ builder' = [builder EXCEPT ![f.token] = Book(f.seen, missed)]
      BY <2>3 DEF ReadChange, f
    <3>2. missed \subseteq builder[f.token].missed
      BY <3>1 DEF Repairs
    <3>3. Tells(f)
      BY <2>3 DEF ReadChange, f, Tells
    <3> QED
      BY <1>1, <2>3, <3>1, <3>2, <3>3 DEF Book
  <2>4. CASE ReadTick
    BY <2>4 DEF ReadTick, f, Tells
  <2> QED
    BY <2>1, <2>2, <2>3, <2>4 DEF ReadFrame
<1>7. BuilderCurrent'
  <2> SUFFICES ASSUME ~stream.lost, NEW u \in stream.tokens, Known(builder'[u])
               PROVE  /\ builder'[u].missed = {}
                      /\ Awaited(wire', u) \/ builder'[u].seen = venue[u]
    BY <1>1 DEF BuilderCurrent, Known
  <2>1. CASE u # f.token \/ ~Tells(f)
    <3>1. builder'[u] = builder[u] \/ ~Known(builder'[u])
      BY <1>1, <1>6, <2>1 DEF Known, NoBook
    <3> QED
      BY <1>1, <1>5, <2>1, <3>1 DEF Current, BuilderCurrent
  <2>2. CASE u = f.token /\ Tells(f)
    <3>1. Known(builder[u]) => builder[u].missed = {}
      BY <1>1 DEF Current, BuilderCurrent
    <3>2. ~Known(NoBook)
      BY DEF Known, NoBook
    <3> QED
      BY <1>4, <1>6, <2>2, <3>1, <3>2
  <2> QED
    BY <2>1, <2>2
<1> QED
  BY <1>2, <1>7 DEF Current

LEMMA StreamCurrent ==
  ASSUME Typed, Current, StreamStep
  PROVE  Current'
<1> USE StreamTypes
<1>1. CASE Disconnect
  BY <1>1 DEF Disconnect, Unconnected, Current, WireCurrent, BuilderCurrent
<1>2. CASE Connect
  BY <1>2 DEF Connect, Unconnected, Current, WireCurrent, BuilderCurrent
<1>3. CASE Connected
  <2>1. wire' = <<>> /\ \A t \in Tokens : ~Known(builder'[t])
    BY <1>3 DEF Connected, NoBook, Known, Current, WireCurrent
  <2> QED
    BY <1>3, <2>1 DEF Connected, Current, WireCurrent, BuilderCurrent, Known
<1>4. CASE Notice \/ Rest
  <2>1. /\ UNCHANGED <<builder, wire, venue>> /\ stream'.pc = stream.pc
        /\ stream'.tokens = stream.tokens /\ stream'.lost = stream.lost
    BY <1>4 DEF Notice, Rest
  <2> QED
    BY <2>1 DEF Current, WireCurrent, BuilderCurrent, LastOf, Awaited, Known
<1>5. CASE SkipFrame
  <2>1. /\ wire # <<>> /\ wire' = Tail(wire) /\ UNCHANGED venue
        /\ stream.pc = "up" /\ stream' = [stream EXCEPT !.lost = TRUE]
    BY <1>5 DEF SkipFrame
  <2>2. /\ stream'.pc = "up" /\ stream'.tokens = stream.tokens /\ stream'.lost
    BY <2>1
  <2>3. WireCurrent'
    BY <2>1, <2>2, TailCurrent DEF Current
  <2> QED
    BY <2>2, <2>3 DEF Current, BuilderCurrent
<1> QED
  BY <1>1, <1>2, <1>3, <1>4, <1>5, ReadCurrent
     DEF StreamStep, ConnectFails, ConnectionLost, Resubscribe

LEMMA VenueCurrent ==
  ASSUME Typed, Current, NEW t \in scope.tokens,
         VenueSnapshot(t) \/ VenueTick(t)
         \/ \E place \in Places, told \in BOOLEAN : VenueChanges(t, place, told)
  PROVE  Current'
<1> USE StreamTypes
<1>1. t \in Tokens /\ venue[t] \in Versions
  BY ScopeType
<1>2. ASSUME NEW f \in Frames, f.token = t, wire' = Append(wire, f)
      PROVE  \A u \in Tokens :
               Awaited(wire, u) \/ (u = t /\ Tells(f)) => Awaited(wire', u)
  <2>1. /\ Len(wire') = Len(wire) + 1 /\ wire'[Len(wire) + 1] = f
        /\ \A i \in 1..Len(wire) : wire'[i] = wire[i]
    BY <1>2
  <2>2. \A i \in 1..Len(wire) : i \in 1..Len(wire')
    BY <2>1
  <2>3. Len(wire) + 1 \in 1..Len(wire')
    BY <2>1
  <2> QED
    BY <1>2, <2>1, <2>2, <2>3 DEF Awaited
<1>3. CASE VenueSnapshot(t)
  <2> DEFINE f == Snapshot(t, venue[t])
  <2>0. Tells(f)
    BY DEF Snapshot, Tells
  <2>1. f \in Frames /\ f.token = t /\ f.seen = venue[t]
    BY <1>1, FrameTypes DEF Snapshot, Places
  <2>2. wire' = Append(wire, f) /\ Subscribed(t) /\ UNCHANGED <<stream, builder, venue>>
    BY <1>3 DEF VenueSnapshot
  <2> HIDE DEF f
  <2>3. WireCurrent'
    BY <1>1, <2>0, <2>1, <2>2, AppendCurrent DEF Current
  <2> QED
    BY <1>2, <2>0, <2>1, <2>2, <2>3 DEF Current, BuilderCurrent, Known
<1>5. CASE VenueTick(t)
  <2> DEFINE f == Tick(t, venue[t])
  <2>1. f \in Frames /\ f.token = t /\ f.seen = venue[t]
    BY <1>1, FrameTypes DEF Tick, Places
  <2>2. wire' = Append(wire, f) /\ Subscribed(t) /\ UNCHANGED <<stream, builder, venue>>
    BY <1>5 DEF VenueTick
  <2> HIDE DEF f
  <2>3. WireCurrent'
    BY <1>1, <2>1, <2>2, AppendCurrent DEF Current
  <2>4. \A u \in Tokens : Awaited(wire, u) => Awaited(wire', u)
    BY <1>2, <2>1, <2>2
  <2> QED
    BY <2>2, <2>3, <2>4 DEF Current, BuilderCurrent, Known
<1>4. ASSUME NEW place \in Places, NEW told \in BOOLEAN, VenueChanges(t, place, told)
      PROVE  Current'
  <2> DEFINE f == Change(t, venue[t] + 1, place, told)
  <2>1. venue[t] + 1 \in Versions
    BY <1>1, <1>4 DEF VenueChanges, Versions
  <2>2. f \in Frames /\ f.token = t /\ f.seen = venue[t] + 1 /\ Tells(f)
    BY <1>1, <2>1, FrameTypes DEF Change, Tells
  <2>3. /\ wire' = (IF Subscribed(t) THEN Append(wire, f) ELSE wire)
        /\ UNCHANGED <<stream, builder>>
        /\ venue'[t] = venue[t] + 1 /\ \A u \in Tokens \ {t} : venue'[u] = venue[u]
    BY <1>1, <1>4 DEF VenueChanges
  <2> HIDE DEF f
  <2>4. CASE Subscribed(t)
    <3>1. WireCurrent'
      BY <1>1, <2>2, <2>3, <2>4, AppendCurrent DEF Current
    <3> QED
      BY <1>2, <2>2, <2>3, <2>4, <3>1 DEF Current, BuilderCurrent, Known
  <2>5. CASE ~Subscribed(t)
    <3>1. \A i \in 1..Len(wire) : wire[i].token \in Tokens \ {t}
      BY <2>5 DEF Subscribed, Current, WireCurrent, Frames
    <3>2. WireCurrent'
      BY <2>3, <2>5, <3>1 DEF Current, WireCurrent, LastOf
    <3>3. BuilderCurrent'
      BY <2>3, <2>5 DEF Current, BuilderCurrent, Subscribed, Awaited, Known
    <3> QED
      BY <3>2, <3>3 DEF Current
  <2> QED
    BY <2>4, <2>5
<1> QED
  BY <1>3, <1>4, <1>5

\* A connected stream that has read what was sent and skipped nothing has the
\* venue's book of every subscribed token that it has one of, through every
\* reconnect and resubscription (run_market_stream, BookBuilder::apply).
THEOREM ReadMeansCurrent == Spec => []CaughtUp
<1>1. Init => Current
  BY DEF Init, Unconnected, Current, WireCurrent, BuilderCurrent
<1>2. Typed /\ Current /\ [Next]_vars => Current'
  <2> SUFFICES ASSUME Typed, Current, [Next]_vars PROVE Current'
    OBVIOUS
  <2>1. CASE StreamStep
    BY <2>1, StreamCurrent
  <2>2. CASE UNCHANGED <<stream, builder, wire, venue>>
    BY <2>2 DEF Current, WireCurrent, BuilderCurrent, LastOf, Awaited, Known
  <2>3. ASSUME NEW t \in scope.tokens, FetchStep(t)
        PROVE  UNCHANGED <<stream, builder, wire, venue>>
    BY <2>3, FetchTyped
  <2>4. ASSUME NEW t \in scope.tokens,
               VenueSnapshot(t) \/ VenueTick(t)
               \/ \E place \in Places, told \in BOOLEAN : VenueChanges(t, place, told)
        PROVE  Current'
    BY <2>4, VenueCurrent
  <2> QED
    BY <2>1, <2>2, <2>3, <2>4 DEF Next, FetchStep, vars
<1> QED
  BY <1>1, <1>2, AlwaysTyped, CurrentCaughtUp, PTL DEF Spec
=============================================================================
