---------------------------- MODULE OrderSigning ----------------------------
(***************************************************************************)
(* The order that is put to the live exchange: amounts in base units, the  *)
(* signature over them, and the envelope that is posted.                   *)
(*                                                                         *)
(* Quantities are in tenths of a base unit and prices in tenths of a       *)
(* dollar, so that a notional is in hundredths of a base unit and the      *)
(* rounding shows.  Keccak and ECDSA are ideal: a hash is the tuple that   *)
(* was hashed, a signature is the key with the digest, and recovery with   *)
(* another digest gives an address that is nobody's.  An address is the    *)
(* value it stands for.  A token id is a sequence of decimal digits, where *)
(* 10 is any other character; in what is hashed it is a word, the sequence *)
(* of its WordSize bytes, each below ByteValues, the highest one first.    *)
(***************************************************************************)
EXTENDS Optional, Integers, SequencesExt

CONSTANTS WordSize, ByteValues

ASSUME WordAssumption ==
  /\ WordSize \in Nat \ {0} /\ ByteValues \in Nat \ (0..1)
  /\ None \notin [1..WordSize -> 0..(ByteValues - 1)]

\* A word with one more digit at its end: ten times the word and the digit,
\* from the lowest byte up.  What the highest byte carries does not fit.
DigitAppended(word, digit) ==
  LET carry[i \in 0..WordSize] ==
        IF i = WordSize THEN digit
                        ELSE (word[i + 1] * 10 + carry[i + 1]) \div ByteValues
  IN  IF carry[0] # 0
        THEN None
        ELSE [i \in 1..WordSize |-> (word[i] * 10 + carry[i]) % ByteValues]

\* The word of a decimal text, or None if it is not one or too large.
DecimalWord(text) ==
  LET append(word, digit) ==
        IF word = None \/ digit \notin 0..9 THEN None ELSE DigitAppended(word, digit)
  IN  FoldLeft(append, [i \in 1..WordSize |-> 0], text)

RoundUp(x, n) == (x + n - 1) \div n

\* Faulty variant: the cost of a purchase is rounded up.
BuyAmountsUp(quantity, price) ==
  [maker |-> RoundUp(quantity * price, 100), taker |-> quantity \div 10]

\* Bought: dollars are given and tokens got, both rounded down.
BuyAmounts(quantity, price) ==
  [maker |-> (quantity * price) \div 100, taker |-> quantity \div 10]

\* Sold: tokens are given, rounded down, and dollars got, rounded up.
SellAmounts(quantity, price) ==
  [maker |-> quantity \div 10, taker |-> RoundUp(quantity * price, 100)]

BaseUnits(side, quantity, price) ==
  IF side = "buy" THEN BuyAmounts(quantity, price) ELSE SellAmounts(quantity, price)

RoundsToZero(amounts) == amounts.maker = 0 \/ amounts.taker = 0

\* The version of the deployed exchange is 3, not the 1 of the documentation.
Domain(version) ==
  <<"EIP712Domain", "Polymarket CTF Exchange", version, 137, "exchange">>

Deployed == Domain("3")

StructHash(o) ==
  <<"Order", o.salt, o.maker, o.signer, DecimalWord(o.token), o.amounts.maker,
    o.amounts.taker, o.side, o.type, o.timestamp, "no metadata", "no builder">>

Digest(domain, o) == <<"1901", domain, StructHash(o)>>

SignatureType == [eoa |-> 0, polyProxy |-> 1]

\* A key has the address of the same name; the funds are at the proxy wallet
\* if one is configured, at that address otherwise.
Signer(key, funder) ==
  [key    |-> key,
   maker  |-> IF funder = None THEN key ELSE funder,
   type   |-> IF funder = None THEN SignatureType.eoa ELSE SignatureType.polyProxy,
   domain |-> Deployed]

UnsignedOrder(signer, request, salt, now) ==
  [salt |-> salt, maker |-> signer.maker, signer |-> signer.key,
   token |-> request.token,
   amounts |-> BaseUnits(request.side, request.quantity, request.price),
   side |-> IF request.side = "buy" THEN 0 ELSE 1,
   type |-> signer.type, timestamp |-> now]

SignOrder(signer, o) == [key |-> signer.key, digest |-> Digest(signer.domain, o)]

Recover(digest, signature) ==
  IF signature.digest = digest THEN signature.key ELSE "nobody"

\* The envelope: the fields of the order and its signature, or no envelope
\* when an amount rounds to nothing or the token id is not one.
Sign(signer, request, salt, now) ==
  LET o == UnsignedOrder(signer, request, salt, now)
  IN  IF RoundsToZero(o.amounts)
        THEN [refusal |-> "rounds_to_zero"]
      ELSE IF DecimalWord(o.token) = None
        THEN [refusal |-> "bad_token"]
        ELSE [refusal |-> "none", order |-> o, signature |-> SignOrder(signer, o)]
=============================================================================
