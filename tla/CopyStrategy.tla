---------------------------- MODULE CopyStrategy ----------------------------
(***************************************************************************)
(* From a source trade to the copy of it that is sent: the reference       *)
(* price, the worst acceptable price, the liquidity within it, the size.   *)
(*                                                                         *)
(*   trade   side, price, quantity                                         *)
(*   config  slippage budget in basis points, the greatest age of a book,  *)
(*           whether to price without one                                  *)
(*                                                                         *)
(* The confidence, identities, stamps and metadata of a signal are left    *)
(* out: nothing is decided from them.                                      *)
(***************************************************************************)
EXTENDS Books, Sizing

Refused(why) == [refusal |-> why, quantity |-> 0]

Stale(config, book, now) == book.known /\ now - book.stamp > config.maxBookAge

\* Is there a level to trade against?
HasTouch(book, side) == book.known /\ TakingSide(book, side) # <<>>

\* Faulty variant: the price the source got is the reference.
ReferencePast(trade, book) == trade.price

\* The best price to be had now, or else the one the source got.
Reference(trade, book) ==
  IF HasTouch(book, trade.side) THEN TakingSide(book, trade.side)[1].price
                                ELSE trade.price

CopyContext(trade, book, ctx, limit) ==
  [ctx EXCEPT !.liquidity = IF book.known
                              THEN NotionalWithin(book, trade.side, limit) ELSE @,
              !.increment = IF @ > 0 THEN @ ELSE IF book.known THEN book.minSize
                                                               ELSE 1]

CopySignal(trade, wallet, book, ctx, config, tick, now) ==
  LET limit == LimitPrice(Reference(trade, book), trade.side,
                          config.maxSlippage, tick)
      sized == Size(wallet, trade.price * trade.quantity, limit,
                    CopyContext(trade, book, ctx, limit))
  IN  IF Stale(config, book, now)
        THEN Refused("stale_book")
      ELSE IF ~HasTouch(book, trade.side) /\ ~config.pricesWithoutBook
        THEN Refused("no_liquidity")
      ELSE IF sized.refusal # "none"
        THEN Refused(sized.refusal)
      ELSE [refusal |-> "none", quantity |-> sized.quantity, limit |-> limit]
=============================================================================
