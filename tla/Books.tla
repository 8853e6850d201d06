------------------------------- MODULE Books --------------------------------
(***************************************************************************)
(* Order books: how one is read off the wire, and what it says an order    *)
(* can take from it.                                                       *)
(*                                                                         *)
(* A level is a price and a size.  A book keeps both its sides best first. *)
(* The wire sends levels in an order of its own, some of them unusable,    *)
(* and may leave out the tick, the least order size and the time stamp.    *)
(***************************************************************************)
EXTENDS Optional, Pricing, SequencesExt

\* Levels with an unreadable price or size, or with nothing in them, go.
Usable(level) == IsPrice(level.price) /\ level.size > 0

Better(side, p, q) == IF side = "buy" THEN p > q ELSE p < q

\* Faulty variant: the order of the wire is trusted.
SideAsSent(levels, side) == SelectSeq(levels, Usable)

UsedOf(levels) == {i \in DOMAIN levels : Usable(levels[i])}

\* Level i goes before level j: at a better price or, at the same, sent first.
Before(levels, side, i, j) ==
  \/ Better(side, levels[i].price, levels[j].price)
  \/ levels[i].price = levels[j].price /\ i < j

\* The bids (what buyers offer) descending, the asks ascending: the sort is stable.
SideBestFirst(levels, side) ==
  LET used == UsedOf(levels)
      rank(i) == Cardinality({j \in used : Before(levels, side, j, i)}) + 1
  IN  [n \in 1..Cardinality(used) |-> levels[CHOOSE i \in used : rank(i) = n]]

ParseBook(wire, received) ==
  [known   |-> TRUE,
   bids    |-> SideBestFirst(wire.bids, "buy"),
   asks    |-> SideBestFirst(wire.asks, "sell"),
   tick    |-> Given(wire.tick, 100),
   minSize |-> Given(wire.minSize, 5),
   stamp   |-> Given(wire.stamp, received)]

NoBook == [known |-> FALSE]

\* A buyer lifts the asks, a seller hits the bids.
TakingSide(book, side) == IF side = "buy" THEN book.asks ELSE book.bids

Within(side, price, limit) ==
  IF side = "buy" THEN price <= limit ELSE price >= limit

\* The levels from the best one on, up to the first beyond the limit.
Reachable(book, side, limit) ==
  LET levels == TakingSide(book, side)
      upTo   == {n \in 0..Len(levels) :
                   \A i \in 1..n : Within(side, levels[i].price, limit)}
  IN  SubSeq(levels, 1, Max(upTo))

NotionalWithin(book, side, limit) ==
  FoldLeft(LAMBDA sum, l : sum + l.size * l.price, 0, Reachable(book, side, limit))

\* Taking a quantity level by level: how much there was, and what it is worth.
\* The price of the code is the one divided by the other, and there is none
\* when nothing was taken.
Sweep(book, side, quantity, limit) ==
  LET take(so, l) ==
        LET size == LesserOf(quantity - so.taken, l.size)
        IN  [taken |-> so.taken + size, value |-> so.value + size * l.price]
  IN  FoldLeft(take, [taken |-> 0, value |-> 0], Reachable(book, side, limit))
=============================================================================
