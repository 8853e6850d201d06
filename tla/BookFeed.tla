------------------------------ MODULE BookFeed ------------------------------
(***************************************************************************)
(* The order books the process prices from, and how they come to it:       *)
(*                                                                         *)
(*   - the set of followed tokens, which the pipelines and the warm-up add *)
(*     to and which never shrinks;                                         *)
(*   - the streaming task, which subscribes the tokens it finds when it    *)
(*     connects, builds a book of each from frames, and reconnects when    *)
(*     the set has grown and then rested for a while;                      *)
(*   - the REST requests of the pipelines and of the refresher;            *)
(*   - the cache, where each of them puts its books unconditionally.       *)
(*                                                                         *)
(* A book is the number of changes it has seen at the venue, and the       *)
(* places (best price or deeper) where a change was lost on the way and    *)
(* not made good by a later one.  Prices and sizes are left out, and of    *)
(* the tick size only that a change of it publishes the book again.        *)
(***************************************************************************)
EXTENDS Integers, Sequences, FiniteSets

CONSTANTS
  Tokens,        (* Tokens there are.                                      *)
  MaxFollowed,   (* MAX_SUBSCRIBED_TOKENS.                                 *)
  Pipelines,     (* Tasks that price a copy.                               *)
  Refresher,     (* The task that polls books.                             *)
  Scopes         (* Bounds to explore: the tokens that are traded, and for *)
                 (* each of them the changes of its book at the venue and  *)
                 (* the frames under way at most.                          *)

ASSUME FollowedAssumption == MaxFollowed \in Nat
ASSUME RefresherAssumption == Refresher \notin Pipelines
ASSUME ScopesAssumption ==
  \A s \in Scopes : s.tokens \subseteq Tokens /\ s.changes \in Nat /\ s.frames \in Nat

VARIABLES
  scope,         (* The bounds of this behaviour.                          *)
  followed,      (* The tokens to follow.                                  *)
  dirty,         (* One was added since the stream last looked.            *)
  stream,        (* The connection: where it is, the tokens it subscribed, *)
                 (* whether the set has rested, whether a frame was lost.  *)
  builder,       (* The books the stream builds.                           *)
  wire,          (* Frames under way.                                      *)
  venue,         (* Changes of each book at the venue.                     *)
  cache,         (* The latest book put for each token, and whether it is  *)
                 (* too old to use.                                        *)
  fetch,         (* The REST request of each task.                         *)
  unchecked      (* Tokens whose cached book was put without a look at the *)
                 (* venue's best prices: a history variable.               *)

vars == <<scope, followed, dirty, stream, builder, wire, venue, cache, fetch,
          unchecked>>

Fetchers == Pipelines \cup {Refresher}
Places   == {"best", "deep"}

Book(v, missed) == [seen |-> v, missed |-> missed]
NoBook          == [seen |-> -1, missed |-> {}]
Known(b)        == b.seen >= 0

Versions == 0..scope.changes
Books    == [seen : Versions \cup {-1}, missed : SUBSET Places]
Cached   == [seen : Versions \cup {-1}, missed : SUBSET Places, aged : BOOLEAN]

Snapshot(t, v) == [kind |-> "book", token |-> t, seen |-> v, place |-> "best",
                   told |-> TRUE]
Change(t, v, place, told) ==
  [kind |-> "price_change", token |-> t, seen |-> v, place |-> place, told |-> told]

Tick(t, v) == [kind |-> "tick_size_change", token |-> t, seen |-> v,
               place |-> "best", told |-> FALSE]

Frames == [kind : {"book", "price_change", "tick_size_change"}, token : Tokens,
           seen : Versions, place : Places, told : BOOLEAN]

Unconnected == [pc |-> "waiting", tokens |-> {}, rested |-> FALSE, lost |-> FALSE]
NoFetch     == [pc |-> "idle", seen |-> 0]

TypeOK ==
  /\ followed \subseteq Tokens /\ Cardinality(followed) <= MaxFollowed
  /\ dirty \in BOOLEAN
  /\ stream \in [pc : {"waiting", "connecting", "up"}, tokens : SUBSET Tokens,
                 rested : BOOLEAN, lost : BOOLEAN]
  /\ builder \in [Tokens -> Books] /\ cache \in [Tokens -> Cached]
  /\ wire \in Seq(Frames) /\ Len(wire) <= scope.frames
  /\ venue \in [Tokens -> Versions]
  /\ fetch \in [Fetchers -> [Tokens -> [pc : {"idle", "asked", "answered"},
                                        seen : Versions]]]
  /\ unchecked \subseteq Tokens

Init ==
  /\ scope \in Scopes
  /\ followed = {} /\ dirty = FALSE
  /\ stream = Unconnected
  /\ builder = [t \in Tokens |-> NoBook]
  /\ wire = <<>>
  /\ venue = [t \in Tokens |-> 0]
  /\ cache = [t \in Tokens |-> [seen |-> -1, missed |-> {}, aged |-> FALSE]]
  /\ fetch = [f \in Fetchers |-> [t \in Tokens |-> NoFetch]]
  /\ unchecked = {}

-----------------------------------------------------------------------------
(***************************************************************************)
(* TokenSubscriptions and the cache.                                       *)
(***************************************************************************)

\* Faulty variant: a token is added however many are followed.
FollowUnbounded(t) ==
  IF t \in followed THEN UNCHANGED <<followed, dirty>>
  ELSE followed' = followed \cup {t} /\ dirty' = TRUE

\* add: a known token, or one more than the cap, changes nothing.
Follow(t) ==
  IF t \in followed \/ Cardinality(followed) >= MaxFollowed
    THEN UNCHANGED <<followed, dirty>>
    ELSE followed' = followed \cup {t} /\ dirty' = TRUE

\* BookCache::put: whatever was there is replaced, by a book that is the venue's
\* own, or was compared with its best prices, or was not.
Put(t, b, aged, compared) ==
  /\ cache' = [cache EXCEPT ![t] = [seen |-> b.seen, missed |-> b.missed, aged |-> aged]]
  /\ unchecked' = IF compared THEN unchecked \ {t} ELSE unchecked \cup {t}

Fresh(t) == Known(cache[t]) /\ ~cache[t].aged

\* The warm-up, from a wallet's recent trades or the venue's liquid markets.
Warm(t) ==
  /\ t \notin followed
  /\ Follow(t)
  /\ UNCHANGED <<stream, builder, wire, venue, cache, fetch, unchecked, scope>>

-----------------------------------------------------------------------------
(***************************************************************************)
(* REST.                                                                   *)
(***************************************************************************)
Busy(f) == \E t \in Tokens : fetch[f][t].pc # "idle"

\* book_for finds no book that is fresh enough: the token is followed from now
\* on, and its book requested.
Ask(p, t) ==
  /\ ~Busy(p) /\ ~Fresh(t)
  /\ Follow(t)
  /\ fetch' = [fetch EXCEPT ![p][t].pc = "asked"]
  /\ UNCHANGED <<stream, builder, wire, venue, cache, unchecked, scope>>

\* A tick of the refresher, for one of its tokens.
Refresh(t) ==
  /\ ~Busy(Refresher)
  /\ fetch' = [fetch EXCEPT ![Refresher][t].pc = "asked"]
  /\ UNCHANGED <<followed, dirty, stream, builder, wire, venue, cache,
                 unchecked, scope>>

\* The venue answers with its book of this moment.
Answer(f, t) ==
  /\ fetch[f][t].pc = "asked"
  /\ fetch' = [fetch EXCEPT ![f][t] = [pc |-> "answered", seen |-> venue[t]]]
  /\ UNCHANGED <<followed, dirty, stream, builder, wire, venue, cache,
                 unchecked, scope>>

\* The answer arrives and is put in the cache.  Its time stamp is the venue's.
PutAnswer(f, t) ==
  /\ fetch[f][t].pc = "answered"
  /\ \E aged \in BOOLEAN : Put(t, Book(fetch[f][t].seen, {}), aged, TRUE)
  /\ fetch' = [fetch EXCEPT ![f][t] = NoFetch]
  /\ UNCHANGED <<followed, dirty, stream, builder, wire, venue, scope>>

\* There is no answer: nothing is put, and a pipeline goes without a book.
FetchFails(f, t) ==
  /\ fetch[f][t].pc # "idle"
  /\ fetch' = [fetch EXCEPT ![f][t] = NoFetch]
  /\ UNCHANGED <<followed, dirty, stream, builder, wire, venue, cache,
                 unchecked, scope>>

-----------------------------------------------------------------------------
(***************************************************************************)
(* The streaming task.                                                     *)
(***************************************************************************)

\* The tokens to subscribe are read before the connection is made.
Connect ==
  /\ stream.pc = "waiting" /\ followed # {}
  /\ stream' = [Unconnected EXCEPT !.pc = "connecting", !.tokens = followed]
  /\ UNCHANGED <<followed, dirty, builder, wire, venue, cache, fetch,
                 unchecked, scope>>

\* Faulty variant: the books of the last connection are built upon.
ConnectedAnew ==
  /\ stream.pc = "connecting"
  /\ stream' = [stream EXCEPT !.pc = "up"]
  /\ dirty' = FALSE
  /\ UNCHANGED <<followed, builder, wire, venue, cache, fetch, unchecked, scope>>

\* The subscription is sent; the books start from nothing.
Connected ==
  /\ stream.pc = "connecting"
  /\ stream' = [stream EXCEPT !.pc = "up"]
  /\ dirty' = FALSE
  /\ builder' = [t \in Tokens |-> NoBook]
  /\ UNCHANGED <<followed, wire, venue, cache, fetch, unchecked, scope>>

\* What the stream leaves behind when it is no longer connected.
Disconnect ==
  /\ stream' = Unconnected
  /\ wire' = <<>>
  /\ UNCHANGED <<followed, dirty, builder, venue, cache, fetch, unchecked, scope>>

ConnectFails   == stream.pc = "connecting" /\ Disconnect
ConnectionLost == stream.pc = "up" /\ Disconnect

\* Each turn of the read loop looks for added tokens and starts to wait anew.
Notice ==
  /\ stream.pc = "up" /\ dirty
  /\ dirty' = FALSE
  /\ stream' = [stream EXCEPT !.rested = FALSE]
  /\ UNCHANGED <<followed, builder, wire, venue, cache, fetch, unchecked, scope>>

\* RESUBSCRIBE_DEBOUNCE has passed since.
Rest ==
  /\ stream.pc = "up" /\ ~dirty /\ ~stream.rested
  /\ stream' = [stream EXCEPT !.rested = TRUE]
  /\ UNCHANGED <<followed, dirty, builder, wire, venue, cache, fetch,
                 unchecked, scope>>

\* Faulty variant: only an addition that was noticed while connected counts.
OutgrownNoticed == dirty

\* The set has another size than what was subscribed.
Outgrown == Cardinality(followed) # Cardinality(stream.tokens)

Resubscribe ==
  /\ stream.pc = "up" /\ stream.rested /\ ~dirty
  /\ Outgrown
  /\ Disconnect

\* A book frame replaces the book.  Its time stamp is the venue's.
ReadSnapshot ==
  LET f == Head(wire)
  IN  /\ f.kind = "book"
      /\ builder' = [builder EXCEPT ![f.token] = Book(f.seen, {})]
      /\ \E aged \in BOOLEAN : Put(f.token, Book(f.seen, {}), aged, TRUE)

\* Faulty variant: nothing is compared with the venue's best prices.
DriftedNever(b, f) == FALSE

\* The venue's best prices, if it tells them, show a loss at the best price,
\* unless this very change has made it good.
Drifted(b, f) == f.told /\ "best" \in b.missed

\* The places a change can make good: its own.
Repairs(b, f) == {b.missed, b.missed \ {f.place}}

\* A change of a book that the builder has is applied, and the book published;
\* a drifted book is dropped by the builder and stays in the cache as it is.
ReadChange ==
  LET f == Head(wire)
  IN  /\ f.kind = "price_change"
      /\ IF Known(builder[f.token])
           THEN \E missed \in Repairs(builder[f.token], f) :
                  LET b == Book(f.seen, missed)
                  IN  IF Drifted(b, f)
                        THEN /\ builder' = [builder EXCEPT ![f.token] = NoBook]
                             /\ UNCHANGED <<cache, unchecked>>
                        ELSE /\ builder' = [builder EXCEPT ![f.token] = b]
                             /\ Put(f.token, b, FALSE, f.told)
           ELSE UNCHANGED <<builder, cache, unchecked>>

\* A change of the tick size alters no level; the book is stamped anew and
\* published as it is, over whatever has been put meanwhile.
ReadTick ==
  LET f == Head(wire)
  IN  /\ f.kind = "tick_size_change"
      /\ IF Known(builder[f.token])
           THEN Put(f.token, builder[f.token], FALSE, FALSE)
           ELSE UNCHANGED <<cache, unchecked>>
      /\ UNCHANGED builder

ReadFrame ==
  /\ stream.pc = "up" /\ wire # <<>>
  /\ wire' = Tail(wire)
  /\ ReadSnapshot \/ ReadChange \/ ReadTick
  /\ UNCHANGED <<followed, dirty, stream, venue, fetch, scope>>

\* A frame that cannot be parsed is skipped: the book misses what it changed.
SkipFrame ==
  /\ stream.pc = "up" /\ wire # <<>>
  /\ wire' = Tail(wire)
  /\ stream' = [stream EXCEPT !.lost = TRUE]
  /\ LET f == Head(wire)
     IN  builder' = IF f.kind = "price_change" /\ Known(builder[f.token])
                      THEN [builder EXCEPT ![f.token].missed = @ \cup {f.place}]
                      ELSE builder
  /\ UNCHANGED <<followed, dirty, venue, cache, fetch, unchecked, scope>>

-----------------------------------------------------------------------------
(***************************************************************************)
(* The venue and the clock.                                                *)
(***************************************************************************)
Subscribed(t) == stream.pc = "up" /\ t \in stream.tokens

\* A book changes; a subscriber is told, perhaps with the best prices.
VenueChanges(t, place, told) ==
  /\ venue[t] < scope.changes
  /\ Subscribed(t) => Len(wire) < scope.frames
  /\ venue' = [venue EXCEPT ![t] = @ + 1]
  /\ wire' = IF Subscribed(t)
               THEN Append(wire, Change(t, venue[t] + 1, place, told)) ELSE wire
  /\ UNCHANGED <<followed, dirty, stream, builder, cache, fetch, unchecked,
                 scope>>

\* Snapshots are sent after the subscription and again every few seconds.
VenueSnapshot(t) ==
  /\ Subscribed(t) /\ Len(wire) < scope.frames
  /\ wire' = Append(wire, Snapshot(t, venue[t]))
  /\ UNCHANGED <<followed, dirty, stream, builder, venue, cache, fetch,
                 unchecked, scope>>

\* The tick size changes, as the price of a token nears an end of the range.
VenueTick(t) ==
  /\ Subscribed(t) /\ Len(wire) < scope.frames
  /\ wire' = Append(wire, Tick(t, venue[t]))
  /\ UNCHANGED <<followed, dirty, stream, builder, venue, cache, fetch,
                 unchecked, scope>>

\* max_market_data_age_ms passes without a put.
GrowOld(t) ==
  /\ Fresh(t)
  /\ cache' = [cache EXCEPT ![t].aged = TRUE]
  /\ UNCHANGED <<followed, dirty, stream, builder, wire, venue, fetch,
                 unchecked, scope>>

StreamStep ==
  \/ Connect \/ Connected \/ ConnectFails \/ ConnectionLost
  \/ Notice \/ Rest \/ Resubscribe \/ ReadFrame \/ SkipFrame

Next ==
  \/ StreamStep
  \/ \E t \in scope.tokens :
       \/ Warm(t) \/ Refresh(t) \/ VenueSnapshot(t) \/ VenueTick(t) \/ GrowOld(t)
       \/ \E p \in Pipelines : Ask(p, t)
       \/ \E f \in Fetchers : Answer(f, t) \/ PutAnswer(f, t) \/ FetchFails(f, t)
       \/ \E place \in Places, told \in BOOLEAN : VenueChanges(t, place, told)

Spec == Init /\ [][Next]_vars

(***************************************************************************)
(* The streaming task goes on, a connection is made if it is tried again   *)
(* and again, and once made it sometimes lasts longer than the debounce.   *)
(***************************************************************************)
Fairness ==
  /\ WF_vars(Connect) /\ SF_vars(Connected)
  /\ WF_vars(Notice) /\ SF_vars(Rest) /\ SF_vars(Resubscribe)

FairSpec == Spec /\ Fairness

-----------------------------------------------------------------------------
(***************************************************************************)
(* Properties.                                                             *)
(***************************************************************************)

\* A connected stream that has read what was sent and skipped nothing has the
\* venue's book of every token that it has one of (BookBuilder::apply).
CaughtUp ==
  stream.pc = "up" /\ wire = <<>> /\ ~stream.lost =>
    \A t \in stream.tokens :
      Known(builder[t]) => builder[t] = Book(venue[t], {})

\* A change lost at the best price is found out before a book that lacks it is
\* put in the cache, whatever is lost, skipped or answered in between; but for a
\* book put after a change that told no best price, and one that a change of the
\* tick size published as it was (market_ws.rs:261, 291).
BestIsGenuine ==
  \A t \in Tokens : "best" \in cache[t].missed => t \in unchecked

\* Every followed token is subscribed in the end, one that was added while the
\* stream was connecting too, however the additions keep putting it off
\* (run_market_stream).
FollowedIsSubscribed ==
  \A t \in Tokens : t \in followed ~> stream.pc = "up" /\ t \in stream.tokens
=============================================================================
