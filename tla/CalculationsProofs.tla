------------------------- MODULE CalculationsProofs -------------------------
(***************************************************************************)
(* Proofs about Calculations, for any cases that the types of the code     *)
(* admit: orders are signed as meant, only the armed send real orders,     *)
(* disagreements are reported, limits reach the book, copies stay within   *)
(* their caps, and simulated fills are no better than the book.            *)
(***************************************************************************)
EXTENDS Calculations, SumTheorems

(***************************************************************************)
(* Folds of sequences, by their prefixes.                                  *)
(***************************************************************************)
\* A number, by its digits.
LEMMA NumberByDigits ==
  ASSUME NEW text \in Seq(Nat), NEW base \in Nat
  PROVE  \E a \in [0..Len(text) -> Nat] :
           /\ a[0] = 0 /\ NumberOf(text, base) = a[Len(text)]
           /\ \A k \in 1..Len(text) : a[k] = a[k - 1] * base + text[k]
<1> DEFINE n == Len(text)
           D == Nat
           zero == 0
           S == 1..n
           after(d, x) == d * base + text[x]
           step == [x \in S |-> [d \in D |-> after(d, x)]]
           It(h) == h = [s \in SUBSET S |->
                           IF s = {} THEN zero ELSE after(h[s \ {Max(s)}], Max(s))]
<1>1. n \in Nat /\ S = 1..n /\ DOMAIN text = S /\ \A x \in S : text[x] \in Nat
  OBVIOUS
<1>2. \A s \in SUBSET S : s # {} => Max(s) \in S
  BY <1>1, LastFirst
<1>3. zero \in D /\ \A x \in S : \A d \in D : after(d, x) \in D
  BY <1>1
<1> DEFINE h == CHOOSE f : It(f)
<1>4. NumberOf(text, base) = h[S]
  BY <1>1 DEF NumberOf, FoldLeft, MapThenFoldSet
<1> HIDE DEF n, D, zero, after, S
<1>5. Steps(step, S, D) /\ \A x \in S : \A d \in D : step[x][d] = after(d, x)
  BY <1>3 DEF Steps
<1> HIDE DEF step
<1>6. \E g : It(g)
  <2>1. PICK g : Folds(g, S, zero, step) /\ Into(g, S, D)
    BY <1>1, <1>3, <1>5, FoldExists
  <2>2. \A s \in SUBSET S : s # {} =>
          step[Max(s)][g[s \ {Max(s)}]] = after(g[s \ {Max(s)}], Max(s))
    BY <1>2, <1>5, <2>1 DEF Into
  <2>3. g = [s \in SUBSET S |->
               IF s = {} THEN zero ELSE after(g[s \ {Max(s)}], Max(s))]
    BY <2>1, <2>2 DEF Folds
  <2> QED
    BY <2>3
<1>7. It(h)
  BY <1>6
<1> HIDE DEF h
<1>8. FoldsWithin(h, S, zero, step, D)
  BY <1>2, <1>5, <1>7 DEF FoldsWithin
<1>9. PICK a \in [0..n -> D] : /\ a[0] = zero /\ a[n] = h[S]
                               /\ \A k \in 1..n : a[k] = step[k][a[k - 1]]
  BY <1>1, <1>3, <1>5, <1>8, FoldByPrefixes
<1>10. \A k \in 1..n : a[k] = after(a[k - 1], k)
  <2> TAKE k \in 1..n
  <2>1. k - 1 \in 0..n /\ k \in S
    BY <1>1
  <2>2. a[k - 1] \in D
    BY <1>9, <2>1
  <2> QED
    BY <1>5, <1>9, <2>1, <2>2
<1> QED
  BY <1>4, <1>9, <1>10 DEF n, D, zero, after

\* What is read of a text, by its characters: a word, or None from the first one on
\* that is no digit or does not fit.
Words == [1..WordSize -> 0..(ByteValues - 1)]

WithDigit(word, digit) ==
  IF word = None \/ digit \notin 0..9 THEN None ELSE DigitAppended(word, digit)

\* What every byte carries to the next higher one when a digit is appended.
Carries(carry, word, digit) ==
  carry = [i \in 0..WordSize |->
             IF i = WordSize THEN digit
                             ELSE (word[i + 1] * 10 + carry[i + 1]) \div ByteValues]

LEMMA CarryExists ==
  ASSUME NEW word \in Words, NEW digit \in Nat
  PROVE  \E carry : Carries(carry, word, digit)
<1> DEFINE n == WordSize
           D == Nat
           S == 1..n
           after(d, x) == (word[n + 1 - x] * 10 + d) \div ByteValues
           step == [x \in S |-> [d \in D |-> after(d, x)]]
<1>1. /\ n \in Nat /\ S = 1..n /\ digit \in D
      /\ ByteValues \in Nat \ {0} /\ \A x \in 1..n : word[x] \in Nat
  BY WordAssumption DEF Words
<1>2. ASSUME NEW x \in S, NEW d \in D PROVE after(d, x) \in D
  <2>1. n + 1 - x \in 1..n
    BY <1>1
  <2>2. word[n + 1 - x] * 10 + d \in Nat
    BY <1>1, <2>1
  <2> QED
    BY <1>1, <2>2, DivNat
<1> HIDE DEF D, after, S, n
<1>3. Steps(step, S, D) /\ \A x \in S : \A d \in D : step[x][d] = after(d, x)
  BY <1>2 DEF Steps
<1> HIDE DEF step
<1>4. PICK a \in [0..n -> D] : a[0] = digit /\ \A k \in 1..n : a[k] = step[k][a[k - 1]]
  BY <1>1, <1>3, RunExists
<1> DEFINE carry == [i \in 0..n |-> a[n - i]]
<1>5. ASSUME NEW i \in 0..n
      PROVE  carry[i] = IF i = n THEN digit
                                 ELSE (word[i + 1] * 10 + carry[i + 1]) \div ByteValues
  <2>1. CASE i = n
    BY <1>1, <1>4, <2>1
  <2>2. CASE i # n
    <3> DEFINE k == n - i
    <3>1. /\ k \in 1..n /\ k \in S /\ k - 1 \in 0..n /\ k - 1 = n - (i + 1)
          /\ i + 1 \in 0..n /\ n + 1 - k = i + 1
      BY <1>1, <2>2
    <3>2. carry[i] = a[k] /\ carry[i + 1] = a[k - 1]
      BY <3>1
    <3> HIDE DEF k, carry
    <3>3. a[k] = after(a[k - 1], k)
      BY <1>3, <1>4, <3>1
    <3> QED
      BY <2>2, <3>1, <3>2, <3>3 DEF after
  <2> QED
    BY <2>1, <2>2
<1>6. carry = [i \in 0..n |-> carry[i]]
  OBVIOUS
<1> HIDE DEF carry
<1>7. Carries(carry, word, digit)
  <2>1. carry = [i \in 0..WordSize |->
                   IF i = WordSize THEN digit
                   ELSE (word[i + 1] * 10 + carry[i + 1]) \div ByteValues]
    BY <1>5, <1>6 DEF n
  <2> QED
    BY <2>1 DEF Carries
<1> QED
  BY <1>7

LEMMA CarryType ==
  ASSUME NEW word \in Words, NEW digit \in Nat, NEW carry, Carries(carry, word, digit)
  PROVE  \A i \in 0..WordSize : carry[i] \in Nat
<1> DEFINE n == WordSize
           P == {k \in 0..n : carry[n - k] \in Nat}
<1>1. n \in Nat /\ ByteValues \in Nat \ {0} /\ \A x \in 1..n : word[x] \in Nat
  BY WordAssumption DEF Words
<1>2. 0 \in P
  BY <1>1 DEF Carries
<1>3. ASSUME NEW k \in 0..n, k < n, k \in P PROVE k + 1 \in P
  <2> DEFINE i == n - (k + 1)
  <2>1. i \in 0..n /\ i # n /\ i + 1 = n - k /\ i + 1 \in 1..n
    BY <1>1, <1>3
  <2> HIDE DEF i
  <2>2. carry[i] = (word[i + 1] * 10 + carry[i + 1]) \div ByteValues
    BY <2>1 DEF Carries
  <2>3. word[i + 1] * 10 + carry[i + 1] \in Nat
    BY <1>1, <1>3, <2>1
  <2>4. carry[i] \in Nat
    BY <1>1, <2>2, <2>3, DivNat
  <2> QED
    BY <1>1, <1>3, <2>4 DEF i
<1> HIDE DEF P
<1>4. \A k \in 0..n : k \in P
  BY <1>1, <1>2, <1>3, InductionUpTo
<1> QED
  <2> TAKE i \in 0..WordSize
  <2>1. n - i \in 0..n /\ n - (n - i) = i
    BY <1>1
  <2> QED
    BY <1>4, <2>1 DEF P

LEMMA DigitAppendedIs ==
  ASSUME NEW word \in Words, NEW digit \in Nat
  PROVE  \E carry : /\ Carries(carry, word, digit)
                    /\ DigitAppended(word, digit) =
                         IF carry[0] # 0 THEN None
                         ELSE [i \in 1..WordSize |->
                                 (word[i] * 10 + carry[i]) % ByteValues]
<1> DEFINE carry == CHOOSE c : Carries(c, word, digit)
<1>1. Carries(carry, word, digit)
  BY CarryExists
<1>2. DigitAppended(word, digit) =
        IF carry[0] # 0 THEN None
        ELSE [i \in 1..WordSize |-> (word[i] * 10 + carry[i]) % ByteValues]
  BY DEF DigitAppended, Carries
<1> HIDE DEF carry
<1> QED
  BY <1>1, <1>2

LEMMA DigitAppendedType ==
  ASSUME NEW word \in Words, NEW digit \in Nat
  PROVE  DigitAppended(word, digit) \in Words \cup {None}
<1>1. PICK carry : /\ Carries(carry, word, digit)
                   /\ DigitAppended(word, digit) =
                        IF carry[0] # 0 THEN None
                        ELSE [i \in 1..WordSize |->
                                (word[i] * 10 + carry[i]) % ByteValues]
  BY DigitAppendedIs
<1>2. ASSUME NEW i \in 1..WordSize
      PROVE  (word[i] * 10 + carry[i]) % ByteValues \in 0..(ByteValues - 1)
  <2>1. word[i] * 10 + carry[i] \in Int
    BY <1>1, CarryType, WordAssumption DEF Words
  <2>2. ByteValues \in Nat \ {0}
    BY WordAssumption
  <2> DEFINE x == word[i] * 10 + carry[i]
  <2> HIDE DEF x
  <2>3. x \in Int => x % ByteValues \in 0..(ByteValues - 1)
    BY <2>2, DivMod
  <2> QED
    BY <2>1, <2>3 DEF x
<1> QED
  BY <1>1, <1>2 DEF Words

\* A word is read from its highest byte on.
LEMMA WordValue ==
  ASSUME NEW word \in Words
  PROVE  \E a \in [0..WordSize -> Nat] :
           /\ a[0] = 0 /\ NumberOf(word, ByteValues) = a[WordSize]
           /\ \A k \in 1..WordSize : a[k] = a[k - 1] * ByteValues + word[k]
<1>1. word \in Seq(Nat) /\ Len(word) = WordSize /\ ByteValues \in Nat
  BY WordAssumption DEF Words
<1>2. PICK a \in [0..Len(word) -> Nat] :
           /\ a[0] = 0 /\ NumberOf(word, ByteValues) = a[Len(word)]
           /\ \A k \in 1..Len(word) : a[k] = a[k - 1] * ByteValues + word[k]
  BY <1>1, NumberByDigits
<1>3. /\ a \in [0..WordSize -> Nat]
      /\ a[0] = 0 /\ NumberOf(word, ByteValues) = a[WordSize]
      /\ \A k \in 1..WordSize : a[k] = a[k - 1] * ByteValues + word[k]
  BY <1>1, <1>2
<1> QED
  BY <1>3

\* A word that has room for one more digit is then worth ten times what it was and
\* the digit.
LEMMA DigitAppendedValue ==
  ASSUME NEW word \in Words, NEW digit \in Nat, DigitAppended(word, digit) # None
  PROVE  NumberOf(DigitAppended(word, digit), ByteValues)
           = NumberOf(word, ByteValues) * 10 + digit
<1> DEFINE n == WordSize
           b == ByteValues
           next == DigitAppended(word, digit)
<1>0. n \in Nat /\ b \in Nat \ {0} /\ \A x \in 1..n : word[x] \in Nat
  BY WordAssumption DEF Words
<1>1. PICK carry : /\ Carries(carry, word, digit)
                   /\ next = IF carry[0] # 0 THEN None
                             ELSE [i \in 1..n |-> (word[i] * 10 + carry[i]) % b]
  BY DigitAppendedIs
<1>2. next \in Words /\ carry[0] = 0
  BY <1>1, DigitAppendedType
<1>4. PICK old \in [0..n -> Nat] :
        /\ old[0] = 0 /\ NumberOf(word, b) = old[n]
        /\ \A k \in 1..n : old[k] = old[k - 1] * b + word[k]
  BY WordValue
<1>5. PICK new \in [0..n -> Nat] :
        /\ new[0] = 0 /\ NumberOf(next, b) = new[n]
        /\ \A k \in 1..n : new[k] = new[k - 1] * b + next[k]
  <2> HIDE DEF next
  <2> QED
    BY <1>2, WordValue
<1>6. /\ \A k \in 0..n : carry[k] \in Nat
      /\ carry[n] = digit
      /\ \A k \in 0..n : k # n => carry[k] = (word[k + 1] * 10 + carry[k + 1]) \div b
  <2>1. \A k \in 0..n : carry[k] \in Nat
    BY <1>1, CarryType
  <2>2. \A k \in 0..n : carry[k] = IF k = n THEN digit
                                   ELSE (word[k + 1] * 10 + carry[k + 1]) \div b
    BY <1>1 DEF Carries
  <2>3. n \in 0..n
    BY <1>0
  <2> QED
    BY <2>1, <2>2, <2>3
<1>7. \A k \in 1..n : next[k] = (word[k] * 10 + carry[k]) % b
  BY <1>1, <1>2
<1> HIDE DEF next, b, n
<1> DEFINE P == {k \in 0..n : new[k] = old[k] * 10 + carry[k]}
<1>8. 0 \in P
  BY <1>0, <1>2, <1>4, <1>5
<1>9. ASSUME NEW j \in 0..n, j < n, j \in P PROVE j + 1 \in P
  <2> DEFINE k == j + 1
             x == word[k] * 10 + carry[k]
  <2>1. k \in 1..n /\ k \in 0..n /\ k - 1 = j /\ j # n
    BY <1>0, <1>9
  <2>2. /\ new[k] = new[j] * b + next[k] /\ old[k] = old[j] * b + word[k]
        /\ next[k] = x % b /\ carry[j] = x \div b
    <3> HIDE DEF k
    <3>1. new[k] = new[j] * b + next[k] /\ old[k] = old[j] * b + word[k]
      BY <1>4, <1>5, <2>1
    <3>2. next[k] = x % b
      BY <1>7, <2>1
    <3>3. carry[j] = x \div b
      BY <1>6, <2>1 DEF k
    <3> QED
      BY <3>1, <3>2, <3>3
  <2>3. /\ new[j] \in Nat /\ old[j] \in Nat /\ carry[j] \in Nat /\ carry[k] \in Nat
        /\ word[k] \in Nat /\ new[j] = old[j] * 10 + carry[j]
    BY <1>0, <1>4, <1>5, <1>6, <1>9, <2>1
  <2>4. x \in Int
    BY <2>3
  <2> HIDE DEF k, x
  <2>5. x = carry[j] * b + next[k]
    BY <1>0, <2>2, <2>4, DivMod
  <2>6. new[j] * b = (old[j] * b) * 10 + carry[j] * b
    BY SMTT(30), <1>0, <2>3
  <2>7. /\ old[j] * b \in Nat /\ carry[j] * b \in Nat
        /\ next[k] \in Int
    <3>1. \A u \in Nat : u * b \in Nat
      BY <1>0
    <3>2. x % b \in Int
      BY <1>0, <2>4, DivMod
    <3> QED
      BY <2>2, <2>3, <3>1, <3>2
  <2>8. new[k] = old[k] * 10 + carry[k]
    <3> DEFINE p == old[j] * b
               q == carry[j] * b
               byte == word[k]
               left == next[k]
               over == carry[k]
    <3>1. /\ p \in Int /\ q \in Int /\ left \in Int /\ byte \in Int /\ over \in Int
          /\ new[k] = (p * 10 + q) + left /\ old[k] = p + byte
          /\ byte * 10 + over = q + left
      BY SMTT(30), <2>2, <2>3, <2>5, <2>6, <2>7 DEF x
    <3> HIDE DEF p, q, byte, left
    <3>2. old[k] * 10 = p * 10 + byte * 10
      BY <3>1
    <3> HIDE DEF over
    <3>3. (p * 10 + q) + left = (p * 10 + byte * 10) + over
      BY <3>1
    <3> QED
      BY <3>1, <3>2, <3>3 DEF over
  <2> QED
    BY <2>1, <2>8 DEF k
<1> HIDE DEF P
<1>10. \A k \in 0..n : k \in P
  BY <1>0, <1>8, <1>9, InductionUpTo
<1>11. new[n] = old[n] * 10 + carry[n]
  BY <1>0, <1>10 DEF P
<1> QED
  BY <1>4, <1>5, <1>6, <1>11 DEF next, b, n

\* A word of nothing but zeros stands for zero, and none for more than the one of
\* the highest bytes.
LEMMA WordBounds ==
  /\ NumberOf([i \in 1..WordSize |-> 0], ByteValues) = 0
  /\ \A word \in Words : NumberOf(word, ByteValues)
                           <= NumberOf([i \in 1..WordSize |-> ByteValues - 1], ByteValues)
<1> DEFINE n == WordSize
           b == ByteValues
           zeros == [i \in 1..n |-> 0]
           top == [i \in 1..n |-> b - 1]
<1>0. n \in Nat /\ b \in Nat \ {0}
  BY WordAssumption
<1>1. \A w \in Words : \A x \in 1..n : w[x] \in Nat /\ w[x] <= b - 1
  BY <1>0 DEF Words
<1>2. zeros \in Words /\ top \in Words
  BY <1>0 DEF Words
<1>3. (\A x \in 1..n : zeros[x] = 0) /\ \A x \in 1..n : top[x] = b - 1
  OBVIOUS
<1>4. ASSUME NEW w \in Words
      PROVE  \E a \in [0..n -> Nat] :
               /\ a[0] = 0 /\ NumberOf(w, b) = a[n]
               /\ \A k \in 1..n : a[k] = a[k - 1] * b + w[k]
  BY WordValue
<1> HIDE DEF zeros, top, b, n
<1>5. NumberOf(zeros, b) = 0
  <2>1. PICK a \in [0..n -> Nat] :
               /\ a[0] = 0 /\ NumberOf(zeros, b) = a[n]
               /\ \A k \in 1..n : a[k] = a[k - 1] * b + zeros[k]
    BY <1>2, <1>4
  <2> DEFINE P == {k \in 0..n : a[k] = 0}
  <2>2. 0 \in P
    BY <1>0, <2>1
  <2>3. ASSUME NEW j \in 0..n, j < n, j \in P PROVE j + 1 \in P
    <3> DEFINE k == j + 1
    <3>1. k \in 1..n /\ k \in 0..n /\ k - 1 = j
      BY <1>0, <2>3
    <3> HIDE DEF k
    <3>2. a[k] = 0 * b + 0
      BY <1>3, <2>1, <2>3, <3>1
    <3>3. a[k] = 0
      BY <1>0, <3>2
    <3> QED
      BY <3>1, <3>3 DEF k
  <2> HIDE DEF P
  <2>4. \A k \in 0..n : k \in P
    BY <1>0, <2>2, <2>3, InductionUpTo
  <2> QED
    BY <1>0, <2>1, <2>4 DEF P
<1>6. ASSUME NEW w \in Words PROVE NumberOf(w, b) <= NumberOf(top, b)
  <2>1. PICK a \in [0..n -> Nat] :
               /\ a[0] = 0 /\ NumberOf(w, b) = a[n]
               /\ \A k \in 1..n : a[k] = a[k - 1] * b + w[k]
    BY <1>4
  <2>2. PICK t \in [0..n -> Nat] :
               /\ t[0] = 0 /\ NumberOf(top, b) = t[n]
               /\ \A k \in 1..n : t[k] = t[k - 1] * b + top[k]
    BY <1>2, <1>4
  <2> DEFINE P == {k \in 0..n : a[k] <= t[k]}
  <2>3. 0 \in P
    BY <1>0, <2>1, <2>2
  <2>4. ASSUME NEW j \in 0..n, j < n, j \in P PROVE j + 1 \in P
    <3> DEFINE k == j + 1
    <3>1. k \in 1..n /\ k \in 0..n /\ k - 1 = j
      BY <1>0, <2>4
    <3> HIDE DEF k
    <3>2. /\ a[k] = a[j] * b + w[k] /\ t[k] = t[j] * b + (b - 1)
          /\ a[j] \in Nat /\ t[j] \in Nat /\ a[j] <= t[j]
          /\ w[k] \in Nat /\ w[k] <= b - 1
      BY <1>1, <1>3, <2>1, <2>2, <2>4, <3>1
    <3>3. a[j] * b <= t[j] * b /\ a[j] * b \in Nat /\ t[j] * b \in Nat
      <4>1. \A u, v \in Nat : u <= v => u * b <= v * b /\ u * b \in Nat /\ v * b \in Nat
        BY <1>0
      <4> QED
        BY <3>2, <4>1
    <3>4. a[k] <= t[k]
      BY SMTT(30), <1>0, <3>2, <3>3
    <3> QED
      BY <3>1, <3>4 DEF k
  <2> HIDE DEF P
  <2>5. \A k \in 0..n : k \in P
    BY <1>0, <2>3, <2>4, InductionUpTo
  <2> QED
    BY <1>0, <2>1, <2>2, <2>5 DEF P
<1> QED
  BY <1>5, <1>6 DEF zeros, top, b, n

LEMMA WordByDigits ==
  ASSUME NEW text \in Seq(Nat)
  PROVE  \E a \in [0..Len(text) -> Words \cup {None}] :
           /\ a[0] = [i \in 1..WordSize |-> 0] /\ DecimalWord(text) = a[Len(text)]
           /\ \A k \in 1..Len(text) : a[k] = WithDigit(a[k - 1], text[k])
<1> DEFINE n == Len(text)
           D == Words \cup {None}
           zero == [i \in 1..WordSize |-> 0]
           S == 1..n
           after(d, x) == WithDigit(d, text[x])
           step == [x \in S |-> [d \in D |-> after(d, x)]]
           It(h) == h = [s \in SUBSET S |->
                           IF s = {} THEN zero ELSE after(h[s \ {Max(s)}], Max(s))]
<1>1. n \in Nat /\ S = 1..n /\ DOMAIN text = S /\ \A x \in S : text[x] \in Nat
  OBVIOUS
<1>2. \A s \in SUBSET S : s # {} => Max(s) \in S
  BY <1>1, LastFirst
<1>3. zero \in D /\ \A x \in S : \A d \in D : after(d, x) \in D
  <2>1. zero \in D
    BY WordAssumption DEF Words
  <2>2. ASSUME NEW x \in S, NEW d \in D PROVE after(d, x) \in D
    BY <1>1, <2>2, DigitAppendedType DEF WithDigit
  <2> QED
    BY <2>1, <2>2
<1> DEFINE h == CHOOSE f : It(f)
<1>4. DecimalWord(text) = h[S]
  BY <1>1 DEF DecimalWord, WithDigit, FoldLeft, MapThenFoldSet
<1> HIDE DEF n, D, zero, after, S
<1>5. Steps(step, S, D) /\ \A x \in S : \A d \in D : step[x][d] = after(d, x)
  BY <1>3 DEF Steps
<1> HIDE DEF step
<1>6. \E g : It(g)
  <2>1. PICK g : Folds(g, S, zero, step) /\ Into(g, S, D)
    BY <1>1, <1>3, <1>5, FoldExists
  <2>2. \A s \in SUBSET S : s # {} =>
          step[Max(s)][g[s \ {Max(s)}]] = after(g[s \ {Max(s)}], Max(s))
    BY <1>2, <1>5, <2>1 DEF Into
  <2>3. g = [s \in SUBSET S |->
               IF s = {} THEN zero ELSE after(g[s \ {Max(s)}], Max(s))]
    BY <2>1, <2>2 DEF Folds
  <2> QED
    BY <2>3
<1>7. It(h)
  BY <1>6
<1> HIDE DEF h
<1>8. FoldsWithin(h, S, zero, step, D)
  BY <1>2, <1>5, <1>7 DEF FoldsWithin
<1>9. PICK a \in [0..n -> D] : /\ a[0] = zero /\ a[n] = h[S]
                               /\ \A k \in 1..n : a[k] = step[k][a[k - 1]]
  BY <1>1, <1>3, <1>5, <1>8, FoldByPrefixes
<1>10. \A k \in 1..n : a[k] = after(a[k - 1], k)
  <2> TAKE k \in 1..n
  <2>1. k - 1 \in 0..n /\ k \in S
    BY <1>1
  <2>2. a[k - 1] \in D
    BY <1>9, <2>1
  <2> QED
    BY <1>5, <1>9, <2>1, <2>2
<1> QED
  BY <1>4, <1>9, <1>10 DEF n, D, zero, after

\* What becomes a word is a number in digits, and the word stands for it.
LEMMA WordStandsForText ==
  ASSUME NEW text \in Seq(Nat), DecimalWord(text) # None
  PROVE  /\ Representable(text)
         /\ NumberOf(DecimalWord(text), ByteValues) = NumberOf(text, 10)
<1> DEFINE n == Len(text)
<1>0. n \in Nat /\ DOMAIN text = 1..n /\ \A k \in 1..n : text[k] \in Nat
  OBVIOUS
<1>1. PICK a \in [0..n -> Words \cup {None}] :
        /\ a[0] = [i \in 1..WordSize |-> 0] /\ DecimalWord(text) = a[n]
        /\ \A k \in 1..n : a[k] = WithDigit(a[k - 1], text[k])
  BY WordByDigits
<1>2. PICK c \in [0..n -> Nat] :
        /\ c[0] = 0 /\ NumberOf(text, 10) = c[n]
        /\ \A k \in 1..n : c[k] = c[k - 1] * 10 + text[k]
  <2>1. 10 \in Nat
    OBVIOUS
  <2> QED
    BY <2>1, NumberByDigits
<1> HIDE DEF n
<1> DEFINE Good(k) == a[k] # None => /\ \A i \in 1..k : text[i] \in 0..9
                                     /\ NumberOf(a[k], ByteValues) = c[k]
           P == {k \in 0..n : Good(k)}
<1>3. 0 \in P
  <2>1. NumberOf(a[0], ByteValues) = 0
    BY <1>1, WordBounds, Zenon
  <2>2. 0 \in 0..n /\ 1..0 = {}
    BY <1>0
  <2> QED
    BY <1>2, <2>1, <2>2
<1>4. ASSUME NEW j \in 0..n, j < n, j \in P PROVE j + 1 \in P
  <2> DEFINE k == j + 1
  <2>1. k \in 1..n /\ k \in 0..n /\ k - 1 = j /\ \A i \in 1..k : i = k \/ i \in 1..j
    BY <1>0, <1>4
  <2> HIDE DEF k
  <2>2. a[k] = WithDigit(a[j], text[k]) /\ c[k] = c[j] * 10 + text[k]
    BY <1>1, <1>2, <2>1
  <2>3. ASSUME a[k] # None PROVE Good(k)
    <3>1. a[j] # None /\ text[k] \in 0..9 /\ a[k] = DigitAppended(a[j], text[k])
      BY <2>2, <2>3 DEF WithDigit
    <3>2. a[j] \in Words /\ text[k] \in Nat
      BY <1>0, <1>1, <2>1, <3>1
    <3>3. NumberOf(a[k], ByteValues) = NumberOf(a[j], ByteValues) * 10 + text[k]
      BY <2>3, <3>1, <3>2, DigitAppendedValue
    <3>4. /\ \A i \in 1..j : text[i] \in 0..9
          /\ NumberOf(a[j], ByteValues) = c[j]
      BY <1>4, <3>1
    <3> QED
      BY <2>1, <2>2, <3>1, <3>3, <3>4
  <2> QED
    BY <2>1, <2>3 DEF k
<1> HIDE DEF P
<1>5. \A k \in 0..n : k \in P
  BY <1>0, <1>3, <1>4, InductionUpTo
<1>6. Good(n)
  BY <1>0, <1>5 DEF P
<1>7. NumberOf(a[n], ByteValues) <= NumberOf([i \in 1..WordSize |-> ByteValues - 1], ByteValues)
  <2>1. n \in 0..n
    BY <1>0
  <2>2. a[n] \in Words
    BY <1>1, <2>1
  <2> QED
    BY <2>2, WordBounds
<1> QED
  BY <1>0, <1>1, <1>2, <1>6, <1>7 DEF Representable

\* What rounding to base units leaves of the limit price.
LEMMA BoughtAmounts ==
  ASSUME NEW q \in Nat, NEW p \in Nat \ {0}
  PROVE  LET m == BuyAmounts(q, p).maker
             t == BuyAmounts(q, p).taker
         IN  /\ m * 100 <= q * p
             /\ q % 10 = 0 => t * 10 = q /\ m * 10 <= t * p
<1> DEFINE m == (q * p) \div 100
           t == q \div 10
           rest == q % 10
<1>1. q * p \in Int /\ 100 \in Nat \ {0} /\ 10 \in Nat \ {0}
  OBVIOUS
<1>2. /\ m \in Int /\ (q * p) % 100 \in 0..99
      /\ q * p = m * 100 + ((q * p) % 100)
  BY <1>1, DivMod
<1>3. t \in Int /\ rest \in 0..9 /\ q = t * 10 + rest
  BY <1>1, DivMod
<1> DEFINE all == q * p
           T == t * p
           R == rest * p
<1>4. BuyAmounts(q, p).maker = m /\ BuyAmounts(q, p).taker = t
  BY DEF BuyAmounts
<1>5. T \in Int /\ R \in Int /\ (rest = 0 => R = 0)
  <2>1. \A u \in 0..9 : u * p \in Int
    OBVIOUS
  <2> HIDE DEF t, rest
  <2> QED
    BY <1>3, <2>1
<1>6. all = T * 10 + R
  <2> HIDE DEF t, rest
  <2>1. (t * 10 + rest) * p = (t * p) * 10 + rest * p
    BY <1>3
  <2> QED
    BY <1>3, <2>1
<1>7. m * 100 <= all
  BY <1>1, <1>2
<1> HIDE DEF m, t, rest, all, T, R
<1>8. rest = 0 => t * 10 = q /\ m * 10 <= T
  BY <1>2, <1>3, <1>5, <1>6, <1>7
<1> QED
  BY <1>4, <1>7, <1>8 DEF all, T, rest

LEMMA SoldAmounts ==
  ASSUME NEW q \in Nat, NEW p \in Nat \ {0}
  PROVE  LET m == SellAmounts(q, p).maker
             t == SellAmounts(q, p).taker
         IN  m * 10 <= q /\ t * 10 >= m * p
<1> DEFINE m == q \div 10
           t == (q * p + 100 - 1) \div 100
           rest == q % 10
           cut == (q * p + 100 - 1) % 100
<1>1. q * p + 100 - 1 \in Int /\ 100 \in Nat \ {0} /\ 10 \in Nat \ {0}
  OBVIOUS
<1>2. t \in Int /\ cut \in 0..99 /\ q * p + 100 - 1 = t * 100 + cut
  BY <1>1, DivMod
<1>3. m \in Int /\ rest \in 0..9 /\ q = m * 10 + rest
  BY <1>1, DivMod
<1> DEFINE all == q * p
           T == m * p
           R == rest * p
<1>4. SellAmounts(q, p).maker = m /\ SellAmounts(q, p).taker = t
  BY DEF SellAmounts, RoundUp
<1>5. T \in Int /\ R \in Int /\ 0 <= R
  <2>1. \A u \in 0..9 : u * p \in Int /\ 0 <= u * p
    OBVIOUS
  <2> HIDE DEF m, rest
  <2> QED
    BY <1>3, <2>1
<1>6. all = T * 10 + R
  <2> HIDE DEF m, rest
  <2>1. (m * 10 + rest) * p = (m * p) * 10 + rest * p
    BY <1>3
  <2> QED
    BY <1>3, <2>1
<1>7. all \in Int /\ all + 100 - 1 = t * 100 + cut
  BY <1>1, <1>2
<1> HIDE DEF m, t, rest, all, T, R, cut
<1>8. m * 10 <= q /\ t * 10 >= T
  BY <1>2, <1>3, <1>5, <1>6, <1>7
<1> QED
  BY <1>4, <1>8 DEF T

LEMMA SignedOrder ==
  ASSUME NEW c \in SigningCases,
         NEW r, r = Sign(Signer("key", c.funder), c.request, "salt", Now),
         r.refusal = "none"
  PROVE  LET o == r.order
             request == c.request
         IN  /\ Recover(Digest(Deployed, o), r.signature) = o.signer
             /\ Representable(request.token)
             /\ NumberOf(StructHash(o)[5], ByteValues) = NumberOf(request.token, 10)
             /\ o.maker = Given(c.funder, o.signer)
             /\ IF request.side = "buy"
                  THEN /\ o.amounts.maker * 100 <= request.quantity * request.price
                       /\ request.quantity % 10 = 0 =>
                            /\ o.amounts.taker * 10 = request.quantity
                            /\ o.amounts.maker * 10 <= o.amounts.taker * request.price
                  ELSE /\ o.amounts.maker * 10 <= request.quantity
                       /\ o.amounts.taker * 10 >= o.amounts.maker * request.price
<1> DEFINE signer == Signer("key", c.funder)
           o == UnsignedOrder(signer, c.request, "salt", Now)
           request == c.request
<1>1. /\ r.order = o /\ r.signature = SignOrder(signer, o)
      /\ DecimalWord(o.token) # None
  BY DEF Sign
<1>2. /\ o.token = request.token /\ o.signer = "key"
      /\ o.maker = IF c.funder = None THEN "key" ELSE c.funder
      /\ o.amounts = BaseUnits(request.side, request.quantity, request.price)
  BY DEF UnsignedOrder, Signer
<1>3. /\ request.quantity \in Nat /\ request.price \in Nat \ {0}
      /\ request.token \in Seq(Nat)
  BY SigningCasesAssumption
<1>4. signer.key = "key" /\ signer.domain = Deployed
  BY DEF Signer
<1>5. StructHash(o)[5] = DecimalWord(o.token)
  BY DEF StructHash
<1> HIDE DEF o, signer, request
<1>6. Recover(Digest(Deployed, o), r.signature) = o.signer
  BY <1>1, <1>2, <1>4 DEF Recover, SignOrder
<1>7. /\ Representable(request.token)
      /\ NumberOf(StructHash(o)[5], ByteValues) = NumberOf(request.token, 10)
  BY <1>1, <1>2, <1>3, <1>5, WordStandsForText
<1>8. o.maker = Given(c.funder, o.signer)
  BY <1>2 DEF Given
<1>9. IF request.side = "buy"
        THEN /\ o.amounts.maker * 100 <= request.quantity * request.price
             /\ request.quantity % 10 = 0 =>
                  /\ o.amounts.taker * 10 = request.quantity
                  /\ o.amounts.maker * 10 <= o.amounts.taker * request.price
        ELSE /\ o.amounts.maker * 10 <= request.quantity
             /\ o.amounts.taker * 10 >= o.amounts.maker * request.price
  <2>1. CASE request.side = "buy"
    BY <1>2, <1>3, <2>1, BoughtAmounts DEF BaseUnits
  <2>2. CASE request.side # "buy"
    BY <1>2, <1>3, <2>2, SoldAmounts DEF BaseUnits
  <2> QED
    BY <2>1, <2>2
<1> QED
  BY <1>1, <1>6, <1>7, <1>8, <1>9 DEF request

\* What a sweep takes, by the levels it reaches.
Levels == [price : Int, size : Int]

Sweeps == [taken : Int, value : Int]

Taking(quantity, so, level) ==
  LET size == LesserOf(quantity - so.taken, level.size)
  IN  [taken |-> so.taken + size, value |-> so.value + size * level.price]

\* The sweep comes of these levels, a[k] being what the first k of them gave.
SweptFrom(levels, quantity, swept) ==
  \E a \in [0..Len(levels) -> Sweeps] :
    /\ a[0] = [taken |-> 0, value |-> 0]
    /\ swept = a[Len(levels)]
    /\ \A k \in 1..Len(levels) : a[k] = Taking(quantity, a[k - 1], levels[k])

LEMMA SweepByLevels ==
  ASSUME NEW book, NEW side, NEW limit, NEW quantity \in Int,
         NEW levels \in Seq(Levels), levels = Reachable(book, side, limit)
  PROVE  SweptFrom(levels, quantity, Sweep(book, side, quantity, limit))
<1> DEFINE n == Len(levels)
           D == Sweeps
           zero == [taken |-> 0, value |-> 0]
           S == 1..n
           after(d, x) == Taking(quantity, d, levels[x])
           step == [x \in S |-> [d \in D |-> after(d, x)]]
           It(h) == h = [s \in SUBSET S |->
                           IF s = {} THEN zero ELSE after(h[s \ {Max(s)}], Max(s))]
<1>1. n \in Nat /\ S = 1..n /\ DOMAIN levels = S /\ \A x \in S : levels[x] \in Levels
  OBVIOUS
<1>2. \A s \in SUBSET S : s # {} => Max(s) \in S
  BY <1>1, LastFirst
<1>3. zero \in D /\ \A x \in S : \A d \in D : after(d, x) \in D
  BY <1>1 DEF Levels, Sweeps, Taking, LesserOf
<1> DEFINE h == CHOOSE f : It(f)
<1>4. Sweep(book, side, quantity, limit) = h[S]
  BY <1>1 DEF Sweep, Taking, FoldLeft, MapThenFoldSet
<1> HIDE DEF n, D, zero, after, S
<1>5. Steps(step, S, D) /\ \A x \in S : \A d \in D : step[x][d] = after(d, x)
  BY <1>3 DEF Steps
<1> HIDE DEF step
<1>6. \E g : It(g)
  <2>1. PICK g : Folds(g, S, zero, step) /\ Into(g, S, D)
    BY <1>1, <1>3, <1>5, FoldExists
  <2>2. \A s \in SUBSET S : s # {} =>
          step[Max(s)][g[s \ {Max(s)}]] = after(g[s \ {Max(s)}], Max(s))
    BY <1>2, <1>5, <2>1 DEF Into
  <2>3. g = [s \in SUBSET S |->
               IF s = {} THEN zero ELSE after(g[s \ {Max(s)}], Max(s))]
    BY <2>1, <2>2 DEF Folds
  <2> QED
    BY <2>3
<1>7. It(h)
  BY <1>6
<1> HIDE DEF h
<1>8. FoldsWithin(h, S, zero, step, D)
  BY <1>2, <1>5, <1>7 DEF FoldsWithin
<1>9. PICK a \in [0..n -> D] : /\ a[0] = zero /\ a[n] = h[S]
                               /\ \A k \in 1..n : a[k] = step[k][a[k - 1]]
  BY <1>1, <1>3, <1>5, <1>8, FoldByPrefixes
<1>10. \A k \in 1..n : a[k] = after(a[k - 1], k)
  <2> TAKE k \in 1..n
  <2>1. k - 1 \in 0..n /\ k \in S
    BY <1>1
  <2>2. a[k - 1] \in D
    BY <1>9, <2>1
  <2> QED
    BY <1>5, <1>9, <2>1, <2>2
<1> QED
  BY <1>4, <1>9, <1>10 DEF n, D, zero, after, SweptFrom

\* What is worth taking, by the levels.
LEMMA NotionalByLevels ==
  ASSUME NEW book, NEW side, NEW limit,
         NEW levels \in Seq(Levels), levels = Reachable(book, side, limit)
  PROVE  \E a \in [0..Len(levels) -> Int] :
           /\ a[0] = 0 /\ NotionalWithin(book, side, limit) = a[Len(levels)]
           /\ \A k \in 1..Len(levels) : a[k] = a[k - 1] + levels[k].size * levels[k].price
<1> DEFINE n == Len(levels)
           D == Int
           zero == 0
           S == 1..n
           after(d, x) == d + levels[x].size * levels[x].price
           step == [x \in S |-> [d \in D |-> after(d, x)]]
           It(h) == h = [s \in SUBSET S |->
                           IF s = {} THEN zero ELSE after(h[s \ {Max(s)}], Max(s))]
<1>1. n \in Nat /\ S = 1..n /\ DOMAIN levels = S /\ \A x \in S : levels[x] \in Levels
  OBVIOUS
<1>2. \A s \in SUBSET S : s # {} => Max(s) \in S
  BY <1>1, LastFirst
<1>3. zero \in D /\ \A x \in S : \A d \in D : after(d, x) \in D
  BY <1>1 DEF Levels
<1> DEFINE h == CHOOSE f : It(f)
<1>4. NotionalWithin(book, side, limit) = h[S]
  BY <1>1 DEF NotionalWithin, FoldLeft, MapThenFoldSet
<1> HIDE DEF n, D, zero, after, S
<1>5. Steps(step, S, D) /\ \A x \in S : \A d \in D : step[x][d] = after(d, x)
  BY <1>3 DEF Steps
<1> HIDE DEF step
<1>6. \E g : It(g)
  <2>1. PICK g : Folds(g, S, zero, step) /\ Into(g, S, D)
    BY <1>1, <1>3, <1>5, FoldExists
  <2>2. \A s \in SUBSET S : s # {} =>
          step[Max(s)][g[s \ {Max(s)}]] = after(g[s \ {Max(s)}], Max(s))
    BY <1>2, <1>5, <2>1 DEF Into
  <2>3. g = [s \in SUBSET S |->
               IF s = {} THEN zero ELSE after(g[s \ {Max(s)}], Max(s))]
    BY <2>1, <2>2 DEF Folds
  <2> QED
    BY <2>3
<1>7. It(h)
  BY <1>6
<1> HIDE DEF h
<1>8. FoldsWithin(h, S, zero, step, D)
  BY <1>2, <1>5, <1>7 DEF FoldsWithin
<1>9. PICK a \in [0..n -> D] : /\ a[0] = zero /\ a[n] = h[S]
                               /\ \A k \in 1..n : a[k] = step[k][a[k - 1]]
  BY <1>1, <1>3, <1>5, <1>8, FoldByPrefixes
<1>10. \A k \in 1..n : a[k] = after(a[k - 1], k)
  <2> TAKE k \in 1..n
  <2>1. k - 1 \in 0..n /\ k \in S
    BY <1>1
  <2>2. a[k - 1] \in D
    BY <1>9, <2>1
  <2> QED
    BY <1>5, <1>9, <2>1, <2>2
<1> QED
  BY <1>4, <1>9, <1>10 DEF n, D, zero, after

(***************************************************************************)
(* What a state of the calculations is, and what follows for each kind of  *)
(* case once it is worked out.                                             *)
(***************************************************************************)
Kinds == {"copy", "positions", "signing", "settings"}

InputsOf(kind) ==
  CASE kind = "copy"      -> CopyCases
    [] kind = "positions" -> PositionCases
    [] kind = "signing"   -> SigningCases
    [] kind = "settings"  -> Environments

OrderFor(in, sig, d) ==
  [side |-> in.trade.side, type |-> d.type, force |-> d.force,
   quantity |-> sig.quantity, limit |-> sig.limit]

\* What the steps of each kind leave: the signal is that of the case, and the result
\* is what the case comes to.
WorkedOut ==
  /\ case.kind \in Kinds /\ case.in \in InputsOf(case.kind)
  /\ signal # None => case.kind = "copy" /\ signal = SignalFor(case.in)
  /\ Done("copy") =>
       /\ signal # None /\ signal.refusal = "none"
       /\ \E d \in Dealings, wire \in {case.in.wire} \cup LaterBooks :
            /\ wire # None
            /\ result = [wire |-> wire, dealing |-> d,
                         fill |-> MatchOrder(OrderFor(case.in, signal, d), BookOf(wire),
                                             d.params, d.roll)]
  /\ Done("positions") =>
       LET report == Reconcile(case.in.own, VenuePositions(case.in.answer),
                               case.in.tolerance)
       IN  result = [report |-> report, clean |-> IsClean(report),
                     halts |-> WarrantsHalt(report, case.in.haltTolerance)]
  /\ Done("signing") =>
       result = Sign(Signer("key", case.in.funder), case.in.request, "salt", Now)
  /\ Done("settings") => result = StartUp(case.in)

LEMMA WorkedOutAlways == Spec => []WorkedOut
<1>1. Init => WorkedOut
  <2> SUFFICES ASSUME Init PROVE WorkedOut
    OBVIOUS
  <2>1. case.kind \in Kinds /\ case.in \in InputsOf(case.kind)
    BY DEF Init, Cases, Kinds, InputsOf
  <2> QED
    BY <2>1 DEF Init, WorkedOut, Done
<1>2. WorkedOut /\ [Next]_vars => WorkedOut'
  <2> SUFFICES ASSUME WorkedOut, [Next]_vars PROVE WorkedOut'
    OBVIOUS
  <2>0. case' = case
    BY DEF Next, vars, Decide, Deal, Compare, PutSignature, Start
  <2>1. CASE Decide
    BY <2>0, <2>1 DEF Decide, WorkedOut, Done
  <2>2. CASE Deal
    <3>1. (signal # None => case.kind = "copy" /\ signal = SignalFor(case.in))'
      BY <2>0, <2>2 DEF Deal, WorkedOut
    <3>2. (signal # None /\ signal.refusal = "none")'
      BY <2>2 DEF Deal
    <3>3. (\E d \in Dealings, wire \in {case.in.wire} \cup LaterBooks :
            /\ wire # None
            /\ result = [wire |-> wire, dealing |-> d,
                         fill |-> MatchOrder(OrderFor(case.in, signal, d), BookOf(wire),
                                             d.params, d.roll)])'
      BY <2>2 DEF Deal, OrderFor
    <3> QED
      BY <2>0, <2>2, <3>1, <3>2, <3>3 DEF Deal, WorkedOut, Done
  <2>3. CASE Compare
    BY <2>0, <2>3 DEF Compare, WorkedOut, Done
  <2>4. CASE PutSignature
    BY <2>0, <2>4 DEF PutSignature, WorkedOut, Done
  <2>5. CASE Start
    BY <2>0, <2>5 DEF Start, WorkedOut, Done
  <2>7. CASE UNCHANGED vars
    BY <2>7 DEF vars, WorkedOut, Done
  <2> QED
    BY <2>1, <2>2, <2>3, <2>4, <2>5, <2>7 DEF Next
<1> QED
  BY <1>1, <1>2, PTL DEF Spec

\* An order for which a signature is put is one that the exchange attributes to the
\* wallet, for the token that was asked for and at no worse than its limit price.
THEOREM OrdersAreSignedAsMeant == Spec => []SignedWithinLimit
<1>1. WorkedOut => SignedWithinLimit
  <2> SUFFICES ASSUME WorkedOut, Done("signing"), result.refusal = "none"
               PROVE  SignedWithinLimit
    BY DEF SignedWithinLimit
  <2>1. /\ case.in \in SigningCases
        /\ result = Sign(Signer("key", case.in.funder), case.in.request, "salt", Now)
    BY DEF WorkedOut, Done, InputsOf
  <2> QED
    BY <2>1, SignedOrder DEF SignedWithinLimit
<1> QED
  BY <1>1, WorkedOutAlways, PTL

\* What is refused and what a start leads to, from the environment it is made in.
LEMMA Started ==
  ASSUME NEW env \in Environments, StartUp(env).runs
  PROVE  LET file == FromEnv(env)
             live == file.mode = "live"
         IN  /\ ~Unreadable(env) /\ Valid(file)
             /\ StartUp(env) =
                  [runs |-> TRUE, adapter |-> IF live THEN "live" ELSE "paper",
                   ready |-> live => ReadinessGaps(file) = {},
                   halted |-> live /\ ReadinessGaps(file) # {},
                   risk |-> RiskLimits(file), wallets |-> file.wallets]
<1>1. CASE Unreadable(env) \/ ~Valid(FromEnv(env))
  <2>1. StartUp(env) = [runs |-> FALSE]
    BY <1>1 DEF StartUp
  <2> QED
    BY <2>1
<1>2. CASE ~(Unreadable(env) \/ ~Valid(FromEnv(env)))
  BY <1>2 DEF StartUp
<1> QED
  BY <1>1, <1>2

LEMMA SetToOptional ==
  ASSUME NEW x
  PROVE  /\ EnvOpt(x) # None <=> x \notin {None, ""}
         /\ EnvOpt(x) = "usable" <=> x = "usable"
<1>1. None # "" /\ None # "usable"
  BY NoneAssumption
<1> QED
  BY <1>1 DEF EnvOpt

LEMMA LiveMode ==
  ASSUME NEW env PROVE FromEnv(env).mode = "live" <=> env.mode = "live"
<1>1. FromEnv(env).mode = Given(EnvOpt(env.mode), "paper")
  BY DEF FromEnv, Mode
<1>2. None # "live" /\ None # ""
  BY NoneAssumption
<1> QED
  BY <1>1, <1>2 DEF Given, EnvOpt

\* No process sends real orders unless its environment says so in full, and none
\* that runs has limits that contradict each other.
THEOREM OnlyTheArmedSendOrders == Spec => []RealOrdersOnlyFullyArmed
<1>1. WorkedOut => RealOrdersOnlyFullyArmed
  <2> SUFFICES ASSUME WorkedOut, Done("settings")
               PROVE  RealOrdersOnlyFullyArmed
    BY DEF RealOrdersOnlyFullyArmed
  <2> DEFINE env == case.in
             file == FromEnv(env)
             armed == /\ env.mode = "live" /\ EnvBool(env.enabled, FALSE)
                      /\ env.key = "usable" /\ env.funder = "funder"
                      /\ env.token \notin {None, ""} /\ ~EnvBool(env.demo, FALSE)
                      /\ \A k \in DOMAIN env.api : env.api[k] \notin {None, ""}
  <2>1. env \in Environments /\ result = StartUp(env)
    BY DEF WorkedOut, Done, InputsOf
  <2> SUFFICES ASSUME result.runs
               PROVE  /\ armed <=> result.adapter = "live" /\ result.ready
                      /\ result.adapter = "live" /\ ~armed => result.halted
                      /\ 0 <= result.risk.of.minTrade
                      /\ \A i \in DOMAIN result.wallets :
                           result.wallets[i].maxTrade <= result.risk.of.maxTrade
                      /\ result.risk.of.maxTrade <= result.risk.of.maxPortfolio
    BY DEF RealOrdersOnlyFullyArmed
  <2> DEFINE live == file.mode = "live"
  <2>2. /\ ~Unreadable(env) /\ Valid(file)
        /\ result =
             [runs |-> TRUE, adapter |-> IF live THEN "live" ELSE "paper",
              ready |-> live => ReadinessGaps(file) = {},
              halted |-> live /\ ReadinessGaps(file) # {},
              risk |-> RiskLimits(file), wallets |-> file.wallets]
    BY <2>1, Started
  <2>3. /\ file.enabled = EnvBool(env.enabled, FALSE) /\ file.key = EnvOpt(env.key)
        /\ file.api = {EnvOpt(env.api[k]) : k \in DOMAIN env.api}
        /\ file.funder = EnvOpt(env.funder) /\ file.token = EnvOpt(env.token)
        /\ file.demo = EnvBool(env.demo, FALSE) /\ file.limits = Limits(env)
    BY DEF FromEnv
  <2>4. live <=> env.mode = "live"
    BY LiveMode
  <2>5. /\ env.funder \in {None, "", "funder", "malformed"}
        /\ env.limits \in [minTrade : Maybe(Int), maxTrade : Maybe(Int),
                           maxPosition : Maybe(Int), maxPortfolio : Maybe(Int),
                           maxOpen : Maybe(Int), liveCap : Maybe(Int)]
    BY <2>1, EnvironmentsAssumption DEF Maybe
  <2>6. /\ env.funder # "malformed"
        /\ \A k \in DOMAIN env.limits : ~(env.limits[k] # None /\ env.limits[k] < 0)
    BY <2>2 DEF Unreadable
  <2> HIDE DEF env, file
  <2>7. armed <=> live /\ ReadinessGaps(file) = {}
    <3>1. live => /\ file.enabled /\ file.key # None /\ None \notin file.api
                  /\ file.funder # None /\ file.token # None /\ ~file.demo
      BY <2>2 DEF Valid, LiveRefused, WithoutCredentials
    <3>2. live /\ ReadinessGaps(file) = {} =>
            file.enabled /\ file.key = "usable" /\ file.funder # None
      BY DEF ReadinessGaps, Armed
    <3>3. live /\ file.enabled /\ file.key = "usable" /\ file.funder # None =>
            ReadinessGaps(file) = {}
      BY DEF ReadinessGaps, Armed
    <3>4. file.key = "usable" <=> env.key = "usable"
      BY <2>3, SetToOptional
    <3>5. file.funder # None <=> env.funder \notin {None, ""}
      BY <2>3, SetToOptional
    <3>6. file.token # None <=> env.token \notin {None, ""}
      BY <2>3, SetToOptional
    <3>7. None \notin file.api <=> \A k \in DOMAIN env.api : env.api[k] \notin {None, ""}
      BY <2>3, SetToOptional
    <3>8. "funder" \notin {None, ""}
      BY NoneAssumption
    <3> HIDE DEF live
    <3> QED
      BY <2>3, <2>4, <2>5, <2>6, <3>1, <3>2, <3>3, <3>4, <3>5, <3>6, <3>7, <3>8
  <2>8. armed <=> result.adapter = "live" /\ result.ready
    <3> HIDE DEF armed
    <3> QED
      BY <2>2, <2>7
  <2>9. result.adapter = "live" /\ ~armed => result.halted
    <3> HIDE DEF armed
    <3> QED
      BY <2>2, <2>7
  <2>10. result.risk.of = Limits(env) /\ result.wallets = file.wallets
    BY <2>2, <2>3 DEF RiskLimits
  <2>11. /\ Limits(env).minTrade = Given(env.limits.minTrade, 5)
         /\ Limits(env).maxTrade = Given(env.limits.maxTrade, 100)
         /\ Limits(env).maxPosition = Given(env.limits.maxPosition, 1000)
         /\ Limits(env).maxPortfolio = Given(env.limits.maxPortfolio, 5000)
    BY DEF Limits
  <2>12. /\ Limits(env).minTrade \in Nat /\ Limits(env).maxTrade \in Int
         /\ Limits(env).maxPosition \in Int /\ Limits(env).maxPortfolio \in Int
    <3> DEFINE l == env.limits
    <3>1. /\ l.minTrade \in Int \cup {None} /\ l.maxTrade \in Int \cup {None}
          /\ l.maxPosition \in Int \cup {None} /\ l.maxPortfolio \in Int \cup {None}
          /\ "minTrade" \in DOMAIN l
      BY <2>5 DEF Maybe
    <3>2. ~(l.minTrade # None /\ l.minTrade < 0)
      BY <2>6, <3>1
    <3> HIDE DEF l
    <3> QED
      BY <2>11, <3>1, <3>2 DEF Given, l
  <2>13. /\ \A i \in DOMAIN file.wallets : file.wallets[i].maxTrade <= Limits(env).maxTrade
         /\ ~(Limits(env).maxTrade > Limits(env).maxPosition)
         /\ ~(Limits(env).maxPosition > Limits(env).maxPortfolio)
    BY <2>2, <2>3 DEF Valid, LimitsRefused
  <2>14. Limits(env).maxTrade <= Limits(env).maxPortfolio /\ 0 <= Limits(env).minTrade
    BY <2>12, <2>13
  <2> QED
    BY <2>8, <2>9, <2>10, <2>13, <2>14
<1> QED
  BY <1>1, WorkedOutAlways, PTL

\* What the venue's answer comes to: its last readable row of a token counts.
LEMMA VenueAnswer ==
  ASSUME NEW answer \in Maybe(Seq([token : Maybe(Tokens), size : Maybe(Int)]))
  PROVE  LET venue == VenuePositions(answer)
         IN  /\ DOMAIN venue = {t \in Tokens : RowsFor(answer, t) # {}}
             /\ \A t \in DOMAIN venue :
                  /\ venue[t] = AbsOf(answer[Max(RowsFor(answer, t))].size)
                  /\ venue[t] \in Nat
<1> DEFINE rows == ReadableRows(answer)
           of(t) == {i \in rows : answer[i].token = t}
           given == Given(answer, <<>>)
           venue == VenuePositions(answer)
<1>0. None \notin Tokens
  BY PositionCasesAssumption
<1>1. /\ IsFiniteSet(DOMAIN given) /\ DOMAIN given \subseteq Int
      /\ \A i \in DOMAIN given : /\ answer[i].token \in Tokens \cup {None}
                                 /\ answer[i].size \in Int \cup {None}
  <2>1. CASE answer = None
    <3>1. DOMAIN given = {}
      BY <2>1 DEF Given
    <3> QED
      BY <3>1, FS_EmptySet
  <2>2. CASE answer # None
    <3>1. answer \in Seq([token : Maybe(Tokens), size : Maybe(Int)]) /\ given = answer
      BY <2>2 DEF Maybe, Given
    <3>2. DOMAIN given = 1..Len(answer) /\ Len(answer) \in Nat
      BY <3>1
    <3>3. IsFiniteSet(1..Len(answer))
      BY <3>2, FS_Interval
    <3>4. ASSUME NEW i \in DOMAIN given
          PROVE  answer[i].token \in Tokens \cup {None} /\ answer[i].size \in Int \cup {None}
      <4> DEFINE Row == [token : Maybe(Tokens), size : Maybe(Int)]
      <4>0. answer \in Seq(Row) /\ i \in 1..Len(answer)
        BY <3>1, <3>2
      <4> HIDE DEF Row
      <4>1. answer[i] \in Row
        BY <4>0
      <4>2. answer[i].token \in Maybe(Tokens) /\ answer[i].size \in Maybe(Int)
        BY <4>1 DEF Row
      <4> QED
        BY <4>2 DEF Maybe
    <3> QED
      BY <3>2, <3>3, <3>4
  <2> QED
    BY <2>1, <2>2
<1>2. \A t \in Tokens : of(t) = RowsFor(answer, t)
  BY <1>0 DEF ReadableRows, RowsFor
<1>3. \A i \in rows : answer[i].token \in Tokens
  BY <1>1 DEF ReadableRows
<1>4. venue = [t \in {answer[i].token : i \in rows} |-> AbsOf(answer[Max(of(t))].size)]
  BY DEF VenuePositions
<1>5. DOMAIN venue = {t \in Tokens : RowsFor(answer, t) # {}}
  BY <1>2, <1>3, <1>4
<1>6. ASSUME NEW t \in DOMAIN venue
      PROVE  /\ venue[t] = AbsOf(answer[Max(RowsFor(answer, t))].size)
             /\ venue[t] \in Nat
  <2> DEFINE R == RowsFor(answer, t)
  <2>1. R # {} /\ R \subseteq DOMAIN given /\ t \in Tokens
    BY <1>5 DEF RowsFor
  <2>2. IsFiniteSet(R) /\ R \subseteq Int
    BY <1>1, <2>1, FS_Subset
  <2>3. Max(R) \in R
    <3> HIDE DEF R
    <3> QED
      BY <2>1, <2>2, MaxMin
  <2>4. venue[t] = AbsOf(answer[Max(R)].size)
    BY <1>2, <1>4, <2>1
  <2>5. answer[Max(R)].size \in Int
    BY <1>1, <2>1, <2>3 DEF RowsFor
  <2> QED
    BY <2>4, <2>5 DEF AbsOf
<1> QED
  BY <1>5, <1>6

\* Every disagreement with the venue is reported once, in the class it belongs to, and
\* those that halt the trading do.
ReportedAs(c, r) ==
  LET listed == {t \in Tokens : RowsFor(c.answer, t) # {}}
      size(t) == IF t \in listed THEN AbsOf(c.answer[Max(RowsFor(c.answer, t))].size)
                                 ELSE 0
      off(t, by) == Disagree(Held(c.own, t), size(t), by)
      classes == <<DOMAIN r.mismatched, r.unexpected, r.missing>>
  IN  /\ \A t \in Tokens :
           Cardinality({i \in 1..3 : t \in classes[i]})
             = (IF off(t, c.tolerance) THEN 1 ELSE 0)
      /\ IsClean(r) = \A t \in Tokens : ~off(t, c.tolerance)
      /\ WarrantsHalt(r, c.haltTolerance)
           = \E t \in listed : /\ off(t, c.tolerance)
                               /\ t \in DOMAIN c.own => off(t, c.haltTolerance)

LEMMA Reported ==
  ASSUME NEW c \in PositionCases,
         NEW r, r = Reconcile(c.own, VenuePositions(c.answer), c.tolerance)
  PROVE  ReportedAs(c, r)
<1> DEFINE own == c.own
           venue == VenuePositions(c.answer)
           listed == {t \in Tokens : RowsFor(c.answer, t) # {}}
           size(t) == IF t \in listed THEN AbsOf(c.answer[Max(RowsFor(c.answer, t))].size)
                                      ELSE 0
           off(t, by) == Disagree(Held(own, t), size(t), by)
           A == DOMAIN r.mismatched
           B == r.unexpected
           C == r.missing
           tol == c.tolerance
           htol == c.haltTolerance
<1>1. /\ \E S \in SUBSET Tokens : own \in [S -> Int]
      /\ tol \in Nat /\ htol \in Nat
      /\ c.answer \in Maybe(Seq([token : Maybe(Tokens), size : Maybe(Int)]))
  BY PositionCasesAssumption
<1>2. DOMAIN own \subseteq Tokens /\ \A t \in DOMAIN own : own[t] \in Int
  BY <1>1
<1>3. /\ DOMAIN venue = listed /\ listed \subseteq Tokens
      /\ \A t \in listed : venue[t] = size(t) /\ venue[t] \in Nat
  BY <1>1, VenueAnswer
<1>4. /\ A = Mismatched(own, venue, tol) /\ B = Unexpected(own, venue, tol)
      /\ C = Missing(own, venue, tol)
      /\ \A t \in A : r.mismatched[t].difference = own[t] - venue[t]
  BY DEF Reconcile, Mismatch
<1>5. \A t : t \notin listed => size(t) = 0
  OBVIOUS
<1> HIDE DEF venue, listed, size, own, A, B, C, tol, htol
<1>6. ASSUME NEW t
      PROVE  /\ t \in A <=> t \in DOMAIN own /\ t \in listed /\ off(t, tol)
             /\ t \in B <=> t \notin DOMAIN own /\ t \in listed /\ off(t, tol)
             /\ t \in C <=> t \in DOMAIN own /\ t \notin listed /\ off(t, tol)
             /\ t \notin DOMAIN own /\ t \notin listed => ~off(t, tol)
  <2>1. CASE t \in DOMAIN own /\ t \in listed
    BY <1>2, <1>3, <1>4, <2>1 DEF Mismatched, Unexpected, Missing, Held
  <2>2. CASE t \notin DOMAIN own /\ t \in listed
    BY <1>1, <1>2, <1>3, <1>4, <2>2
       DEF Mismatched, Unexpected, Missing, Held, Disagree, AbsOf
  <2>3. CASE t \in DOMAIN own /\ t \notin listed
    BY <1>1, <1>2, <1>3, <1>4, <1>5, <2>3
       DEF Mismatched, Unexpected, Missing, Held, Disagree, AbsOf
  <2>4. CASE t \notin DOMAIN own /\ t \notin listed
    BY <1>1, <1>2, <1>3, <1>4, <1>5, <2>4
       DEF Mismatched, Unexpected, Missing, Held, Disagree, AbsOf
  <2> QED
    BY <2>1, <2>2, <2>3, <2>4
<1>7. ASSUME NEW t \in Tokens
      PROVE  Cardinality({i \in 1..3 : t \in <<A, B, C>>[i]})
               = (IF off(t, tol) THEN 1 ELSE 0)
  <2> DEFINE In == {i \in 1..3 : t \in <<A, B, C>>[i]}
  <2>1. \A i : i \in In <=> \/ i = 1 /\ t \in A
                            \/ i = 2 /\ t \in B
                            \/ i = 3 /\ t \in C
    <3>1. \A i : i \in 1..3 <=> i = 1 \/ i = 2 \/ i = 3
      OBVIOUS
    <3>2. <<A, B, C>>[1] = A /\ <<A, B, C>>[2] = B /\ <<A, B, C>>[3] = C
      OBVIOUS
    <3> QED
      BY <3>1, <3>2
  <2> HIDE DEF In
  <2>2. CASE off(t, tol)
    <3>1. PICK i : In = {i}
      <4>1. CASE t \in DOMAIN own /\ t \in listed
        <5>1. In = {1}
          BY <1>6, <2>1, <2>2, <4>1
        <5> QED
          BY <5>1
      <4>2. CASE t \notin DOMAIN own /\ t \in listed
        <5>1. In = {2}
          BY <1>6, <2>1, <2>2, <4>2
        <5> QED
          BY <5>1
      <4>3. CASE t \in DOMAIN own /\ t \notin listed
        <5>1. In = {3}
          BY <1>6, <2>1, <2>2, <4>3
        <5> QED
          BY <5>1
      <4> QED
        BY <1>6, <2>2, <4>1, <4>2, <4>3
    <3>2. Cardinality({i}) = 1
      BY FS_Singleton
    <3> QED
      BY <2>2, <3>1, <3>2 DEF In
  <2>3. CASE ~off(t, tol)
    <3>1. In = {}
      BY <1>6, <2>1, <2>3
    <3>2. Cardinality({}) = 0
      BY FS_EmptySet
    <3> QED
      BY <2>3, <3>1, <3>2 DEF In
  <2> QED
    BY <2>2, <2>3
<1>8. IsClean(r) = \A t \in Tokens : ~off(t, tol)
  <2>1. IsClean(r) <=> A = {} /\ B = {} /\ C = {}
    BY DEF IsClean, A, B, C
  <2>2. IsClean(r) <=> \A t : t \notin A /\ t \notin B /\ t \notin C
    BY <2>1
  <2>3. IsClean(r) <=> \A t \in Tokens : ~off(t, tol)
    <3> HIDE DEF off
    <3> QED
      BY <1>2, <1>3, <1>6, <2>2
  <2>4. IsClean(r) \in BOOLEAN
    BY DEF IsClean
  <2> QED
    BY <2>3, <2>4
<1>9. WarrantsHalt(r, htol)
        = \E t \in listed : off(t, tol) /\ (t \in DOMAIN own => off(t, htol))
  <2>1. WarrantsHalt(r, htol)
          <=> B # {} \/ \E t \in A : AbsOf(r.mismatched[t].difference) > htol
    BY DEF WarrantsHalt, A, B
  <2>2. \A t \in A : /\ AbsOf(r.mismatched[t].difference) > htol <=> off(t, htol)
                     /\ t \in DOMAIN own /\ t \in listed
    BY <1>3, <1>4, <1>6 DEF Disagree, Held
  <2>3. WarrantsHalt(r, htol)
          <=> \E t \in listed : off(t, tol) /\ (t \in DOMAIN own => off(t, htol))
    <3> HIDE DEF off
    <3> QED
      BY <1>6, <2>1, <2>2
  <2>4. WarrantsHalt(r, htol) \in BOOLEAN
    BY DEF WarrantsHalt
  <2> QED
    BY <2>3, <2>4
<1> QED
  BY <1>7, <1>8, <1>9 DEF ReportedAs, A, B, C, listed, size, own, tol, htol

\* Of a token that the venue is not short of, the size that counts is the one told.
LEMMA ToldOfLong ==
  ASSUME NEW c \in PositionCases, NEW t \in Tokens, Told(c.answer, t) >= 0
  PROVE  /\ Told(c.answer, t) \in Int
         /\ Told(c.answer, t) = IF RowsFor(c.answer, t) # {}
                                 THEN AbsOf(c.answer[Max(RowsFor(c.answer, t))].size) ELSE 0
<1> DEFINE answer == c.answer
           given == Given(answer, <<>>)
           R == RowsFor(answer, t)
<1>1. answer \in Maybe(Seq([token : Maybe(Tokens), size : Maybe(Int)]))
  BY PositionCasesAssumption
<1>2. CASE R = {}
  BY <1>2 DEF Told
<1>3. CASE R # {}
  <2>1. given \in Seq([token : Maybe(Tokens), size : Maybe(Int)])
    BY <1>1 DEF Given, Maybe
  <2>2. IsFiniteSet(DOMAIN given) /\ DOMAIN given \subseteq Int
    <3>1. DOMAIN given = 1..Len(given) /\ Len(given) \in Nat
      BY <2>1
    <3> QED
      BY <3>1, FS_Interval
  <2>3. R \subseteq DOMAIN given
    BY DEF RowsFor
  <2>4. IsFiniteSet(R) /\ R \subseteq Int
    BY <2>2, <2>3, FS_Subset
  <2>5. Max(R) \in R
    <3> HIDE DEF R
    <3> QED
      BY <1>3, <2>4, MaxMin
  <2>6. answer # None /\ given = answer
    BY <1>3, <2>5 DEF RowsFor, Given
  <2>7. answer[Max(R)].size \in Int
    <3> DEFINE m == Max(R)
    <3>1. m \in DOMAIN given /\ answer[m].size # None
      <4>1. m \in R
        BY <2>5
      <4> HIDE DEF m
      <4> QED
        BY <2>3, <4>1 DEF RowsFor
    <3> HIDE DEF m
    <3>2. given[m] \in [token : Maybe(Tokens), size : Maybe(Int)]
      <4> DEFINE Rows == [token : Maybe(Tokens), size : Maybe(Int)]
      <4> HIDE DEF given, Rows
      <4>1. given \in Seq(Rows) /\ m \in DOMAIN given
        BY <2>1, <3>1 DEF Rows
      <4>2. given[m] \in Rows
        BY ONLY <4>1
      <4> QED
        BY <4>2 DEF Rows
    <3>3. given[m].size \in Maybe(Int)
      BY <3>2
    <3>4. answer[m].size \in Int
      BY <2>6, <3>1, <3>3 DEF Maybe
    <3> QED
      BY <3>4 DEF m
  <2>8. Told(answer, t) = answer[Max(R)].size
    BY <1>3 DEF Told
  <2> HIDE DEF R
  <2> QED
    BY <1>3, <2>7, <2>8 DEF AbsOf, R
<1> QED
  BY <1>2, <1>3

\* A disagreement by more than a tolerance is one.
LEMMA DisagreeAtAll ==
  ASSUME NEW x \in Int, NEW y \in Int, NEW by \in Nat, Disagree(x, y, by)
  PROVE  Disagree(x, y, 0)
BY DEF Disagree, AbsOf

\* What the own positions and the venue's disagree on, where neither is short, is
\* reported, each in one class, and halts the trading if it is to.
THEOREM DisagreementsAreReported == Spec => []DisagreementReported
<1>1. WorkedOut => DisagreementReported
  <2> DEFINE c == case.in
             own == case.in.own
             tol == case.in.tolerance
             htol == case.in.haltTolerance
             told(t) == Told(case.in.answer, t)
             long == {t \in Tokens : Held(own, t) >= 0 /\ told(t) >= 0}
             off(t, by) == Disagree(Held(own, t), told(t), by)
             suspect(t, by) == off(t, IF t \in DOMAIN own THEN by ELSE 0)
             tells(t) == RowsFor(case.in.answer, t) # {}
             report == result.report
             classes == <<DOMAIN report.mismatched, report.unexpected, report.missing>>
             having(t) == {i \in 1..3 : t \in classes[i]}
             halts == result.halts
             clean == result.clean
  <2> SUFFICES ASSUME WorkedOut, Done("positions")
               PROVE  /\ \A t \in long :
                           /\ off(t, tol) => Cardinality(having(t)) = 1
                           /\ having(t) # {} => suspect(t, tol)
                           /\ off(t, tol) => ~clean
                           /\ tells(t) /\ off(t, tol) /\ suspect(t, htol) => halts
                      /\ halts => \E t \in Tokens : t \notin long \/ suspect(t, htol)
    BY Zenon DEF DisagreementReported
  <2> DEFINE listed == {t \in Tokens : RowsFor(c.answer, t) # {}}
             size(t) == IF t \in listed
                          THEN AbsOf(c.answer[Max(RowsFor(c.answer, t))].size) ELSE 0
             apart(t, by) == Disagree(Held(own, t), size(t), by)
  <2>1. /\ c \in PositionCases /\ tol \in Nat /\ htol \in Nat
        /\ \A t \in Tokens : Held(own, t) \in Int
    <3>1. case.in \in PositionCases
      BY DEF WorkedOut, Done, InputsOf
    <3>2. \E S \in SUBSET Tokens : own \in [S -> Int]
      BY <3>1, PositionCasesAssumption
    <3> QED
      BY <3>1, <3>2, PositionCasesAssumption DEF Held
  <2>2. /\ \A t \in Tokens : Cardinality(having(t)) = (IF apart(t, tol) THEN 1 ELSE 0)
        /\ clean = \A t \in Tokens : ~apart(t, tol)
        /\ halts = \E t \in listed :
                     apart(t, tol) /\ (t \in DOMAIN own => apart(t, htol))
    <3> DEFINE r == Reconcile(case.in.own, VenuePositions(case.in.answer),
                              case.in.tolerance)
    <3>1. report = r /\ clean = IsClean(r) /\ halts = WarrantsHalt(r, case.in.haltTolerance)
      BY DEF WorkedOut
    <3> HIDE DEF r
    <3>2. ReportedAs(c, r)
      BY <2>1, Reported DEF r
    <3> QED
      BY <3>1, <3>2, Zenon DEF ReportedAs
  <2>3. \A t \in long : told(t) = size(t) /\ told(t) \in Int
    BY <2>1, ToldOfLong
  <2>4. \A t \in Tokens : IsFiniteSet(having(t))
    <3> HIDE DEF classes
    <3>1. \A t \in Tokens : having(t) \subseteq 1..3
      OBVIOUS
    <3>2. IsFiniteSet(1..3)
      <4> DEFINE n == 3
      <4>1. n \in Nat
        OBVIOUS
      <4> HIDE DEF n
      <4>2. IsFiniteSet(1..n)
        BY <4>1, FS_Interval
      <4> QED
        BY <4>2 DEF n
    <3> HIDE DEF having
    <3> QED
      BY <3>1, <3>2, FS_Subset
  <2>5. ASSUME NEW t \in long
        PROVE  /\ off(t, tol) => Cardinality(having(t)) = 1
               /\ having(t) # {} => suspect(t, tol)
               /\ off(t, tol) => ~clean
               /\ tells(t) /\ off(t, tol) /\ suspect(t, htol) => halts
    <3>1. t \in Tokens /\ \A by : apart(t, by) <=> off(t, by)
      BY <2>3
    <3>2. off(t, tol) => off(t, 0)
      BY <2>1, <2>3, <3>1, DisagreeAtAll
    <3>3. having(t) # {} => off(t, tol)
      <4>1. SUFFICES ASSUME ~off(t, tol) PROVE having(t) = {}
        OBVIOUS
      <4>2. Cardinality(having(t)) = 0
        BY <2>2, <3>1, <4>1
      <4> HIDE DEF having
      <4> QED
        BY <2>4, <3>1, <4>2, FS_EmptySet
    <3>5. tells(t) <=> t \in listed
      BY <3>1
    <3> HIDE DEF having, off, apart, listed, tells, suspect, own, tol, htol, halts, clean,
                 long
    <3>6. off(t, tol) => Cardinality(having(t)) = 1
      BY <2>2, <3>1
    <3>7. having(t) # {} => suspect(t, tol)
      <4>1. CASE t \in DOMAIN own
        BY <3>3, <4>1 DEF suspect
      <4>2. CASE t \notin DOMAIN own
        BY <3>2, <3>3, <4>2 DEF suspect
      <4> QED
        BY <4>1, <4>2
    <3>8. off(t, tol) => ~clean
      BY <2>2, <3>1
    <3>9. tells(t) /\ off(t, tol) /\ suspect(t, htol) => halts
      <4>1. t \in DOMAIN own => (suspect(t, htol) <=> off(t, htol))
        BY DEF suspect
      <4> QED
        BY <2>2, <3>1, <3>5, <4>1
    <3> QED
      BY <3>6, <3>7, <3>8, <3>9
  <2>6. ASSUME halts PROVE \E t \in Tokens : t \notin long \/ suspect(t, htol)
    <3>1. PICK t \in Tokens : apart(t, tol) /\ (t \in DOMAIN own => apart(t, htol))
      BY <2>2, <2>6
    <3>2. CASE t \in long
      <4>1. \A by : apart(t, by) <=> off(t, by)
        BY <2>3, <3>2
      <4>2. off(t, tol) => off(t, 0)
        BY <2>1, <2>3, <3>2, DisagreeAtAll
      <4> HIDE DEF off, apart, own, tol, htol, long
      <4> QED
        BY <3>1, <4>1, <4>2
    <3> QED
      BY <3>1, <3>2
  <2> QED
    BY <2>5, <2>6
<1> QED
  BY <1>1, WorkedOutAlways, PTL

(***************************************************************************)
(* Books.  A side has the usable levels of the wire, each of them once,    *)
(* best first.                                                             *)
(***************************************************************************)
LEMMA UsedIsFinite ==
  ASSUME NEW levels \in Seq(Levels)
  PROVE  /\ IsFiniteSet(UsedOf(levels))
         /\ \A i \in UsedOf(levels) : /\ i \in Int /\ levels[i] \in Levels
                                      /\ levels[i].price \in 1..(Dollar - 1)
                                      /\ levels[i].size \in Nat \ {0}
<1>1. Len(levels) \in Nat /\ DOMAIN levels = 1..Len(levels)
  OBVIOUS
<1>2. IsFiniteSet(1..Len(levels))
  BY <1>1, FS_Interval
<1>3. UsedOf(levels) \in SUBSET (1..Len(levels))
  BY <1>1 DEF UsedOf
<1>4. IsFiniteSet(UsedOf(levels))
  BY <1>2, <1>3, FS_Subset
<1>5. ASSUME NEW i \in UsedOf(levels)
      PROVE  /\ i \in Int /\ levels[i] \in Levels
             /\ levels[i].price \in 1..(Dollar - 1) /\ levels[i].size \in Nat \ {0}
  <2>1. i \in 1..Len(levels) /\ Usable(levels[i])
    BY <1>1, <1>5 DEF UsedOf
  <2>2. levels[i] \in Levels
    BY <2>1
  <2>3. levels[i].price \in Int /\ levels[i].size \in Int
    BY <2>2 DEF Levels
  <2> DEFINE p == levels[i].price
             q == levels[i].size
  <2>4. p \in Int /\ 0 < p /\ p < 10000 /\ q \in Int /\ q > 0
    BY <2>1, <2>3 DEF Usable, IsPrice, Dollar
  <2> HIDE DEF p, q
  <2>5. p \in 1..(Dollar - 1) /\ q \in Nat \ {0}
    BY ONLY SMTT(30), <2>4 DEF Dollar
  <2>6. i \in Int
    BY <1>1, <2>1
  <2> QED
    BY <2>2, <2>5, <2>6 DEF p, q
<1> QED
  BY <1>3, <1>4, <1>5

LEMMA BestFirst ==
  ASSUME NEW levels \in Seq(Levels), NEW side
  PROVE  LET used == UsedOf(levels)
             m    == Cardinality(used)
         IN  \E at \in [1..m -> used] : \E rank \in [used -> 1..m] :
               /\ SideBestFirst(levels, side) = [n \in 1..m |-> levels[at[n]]]
               /\ \A n \in 1..m : rank[at[n]] = n
               /\ \A i \in used : at[rank[i]] = i
               /\ \A n \in 1..m : \A k \in 1..m :
                    n < k => Before(levels, side, at[n], at[k])
<1> DEFINE used == UsedOf(levels)
           m == Cardinality(used)
           R == {p \in used \X used : Before(levels, side, p[1], p[2])}
           rank == [i \in used |->
                      Cardinality({j \in used : Before(levels, side, j, i)}) + 1]
<1>1. /\ IsFiniteSet(used)
      /\ \A i \in used : i \in Int /\ levels[i].price \in Int
  <2>1. IsFiniteSet(used) /\ \A i \in used : i \in Int
    BY UsedIsFinite
  <2>2. \A i \in used : levels[i].price \in 1..(Dollar - 1)
    BY UsedIsFinite
  <2> HIDE DEF used
  <2>3. \A x \in 1..(Dollar - 1) : x \in Int
    BY DEF Dollar
  <2> QED
    BY <2>1, <2>2, <2>3
<1>2. \A i \in used : \A j \in used : <<i, j>> \in R <=> Before(levels, side, i, j)
  OBVIOUS
<1>3. /\ \A i \in used : ~Before(levels, side, i, i)
      /\ \A i \in used : \A j \in used :
           i = j \/ Before(levels, side, i, j) \/ Before(levels, side, j, i)
      /\ \A i \in used : \A j \in used : \A k \in used :
           Before(levels, side, i, j) /\ Before(levels, side, j, k)
             => Before(levels, side, i, k)
  BY <1>1 DEF Before, Better
<1>4. \A i \in used : Below(R, used, i) = {j \in used : Before(levels, side, j, i)}
  BY <1>2 DEF Below
<1>5. \A i \in used : rank[i] = Cardinality(Below(R, used, i)) + 1
  BY <1>4
<1>6. SideBestFirst(levels, side)
        = [n \in 1..m |-> levels[CHOOSE i \in used :
             Cardinality({j \in used : Before(levels, side, j, i)}) + 1 = n]]
  BY Zenon DEF SideBestFirst
<1>7. /\ rank = [i \in used |-> rank[i]]
      /\ \A i \in used :
           rank[i] = Cardinality({j \in used : Before(levels, side, j, i)}) + 1
  OBVIOUS
<1> HIDE DEF R, rank, used, m
<1>8. Ordered(R, used)
  BY <1>2, <1>3 DEF Ordered
<1>9. PICK at \in [1..m -> used] :
           /\ \A i \in used : rank[i] \in 1..m /\ at[rank[i]] = i
           /\ \A n \in 1..m : rank[at[n]] = n
           /\ \A n \in 1..m : \A k \in 1..m : n < k => <<at[n], at[k]>> \in R
  <2>1. m = Cardinality(used)
    BY DEF m
  <2>2. /\ IsFiniteSet(used) /\ Ordered(R, used)
        /\ \A i \in used : rank[i] = Cardinality(Below(R, used, i)) + 1
    BY <1>1, <1>5, <1>8
  <2> QED
    BY ONLY <2>1, <2>2, RankedSequence
<1>10. rank \in [used -> 1..m]
  BY <1>7, <1>9
<1>11. ASSUME NEW n \in 1..m
       PROVE  (CHOOSE i \in used :
                 Cardinality({j \in used : Before(levels, side, j, i)}) + 1 = n) = at[n]
  <2>1. at[n] \in used /\ rank[at[n]] = n
    BY <1>9
  <2>2. \A i \in used : rank[i] = n => i = at[n]
    BY <1>9
  <2>3. \A i \in used :
          Cardinality({j \in used : Before(levels, side, j, i)}) + 1 = n <=> i = at[n]
    BY <1>7, <2>1, <2>2
  <2> QED
    BY <2>1, <2>3, Zenon
<1>12. SideBestFirst(levels, side) = [n \in 1..m |-> levels[at[n]]]
  BY <1>6, <1>11
<1>13. \A n \in 1..m : \A k \in 1..m : n < k => Before(levels, side, at[n], at[k])
  BY <1>2, <1>9
<1>14. (\A n \in 1..m : rank[at[n]] = n) /\ \A i \in used : at[rank[i]] = i
  BY <1>9
<1>15. at \in [1..m -> used]
  BY <1>9
<1> QED
  BY <1>10, <1>12, <1>13, <1>14, <1>15, Zenon DEF m, used

\* A side as a sequence of levels.
LEMMA SideType ==
  ASSUME NEW levels \in Seq(Levels), NEW side, NEW best, best = SideBestFirst(levels, side)
  PROVE  /\ best \in Seq(Levels) /\ Len(best) = Cardinality(UsedOf(levels))
         /\ \A n \in 1..Len(best) : best[n].price \in 1..(Dollar - 1)
                                    /\ best[n].size \in Nat \ {0}
<1> DEFINE used == UsedOf(levels)
           m == Cardinality(used)
<1>1. IsFiniteSet(used) /\ \A i \in used : /\ i \in Int /\ levels[i] \in Levels
                                           /\ levels[i].price \in 1..(Dollar - 1)
                                           /\ levels[i].size \in Nat \ {0}
  BY UsedIsFinite
<1>2. m \in Nat
  BY <1>1, FS_CardinalityType
<1>3. PICK at \in [1..m -> used] : best = [n \in 1..m |-> levels[at[n]]]
  BY BestFirst
<1> HIDE DEF used, m
<1>4. best \in [1..m -> Levels]
  BY <1>1, <1>3
<1>5. best \in Seq(Levels) /\ Len(best) = m
  BY <1>2, <1>4
<1>6. \A n \in 1..m : best[n].price \in 1..(Dollar - 1) /\ best[n].size \in Nat \ {0}
  BY <1>1, <1>3
<1> QED
  BY <1>5, <1>6 DEF m, used

\* What can be reached of a side: all its levels up to the first beyond the limit.
LEMMA ReachableLevels ==
  ASSUME NEW book, NEW side, NEW limit,
         NEW best \in Seq(Levels), best = TakingSide(book, side)
  PROVE  \E r \in 0..Len(best) :
           /\ Reachable(book, side, limit) \in Seq(Levels)
           /\ Len(Reachable(book, side, limit)) = r
           /\ \A n \in 1..r : /\ Reachable(book, side, limit)[n] = best[n]
                              /\ Within(side, best[n].price, limit)
           /\ r < Len(best) => ~Within(side, best[r + 1].price, limit)
<1> DEFINE upTo == {n \in 0..Len(best) :
                      \A i \in 1..n : Within(side, best[i].price, limit)}
           r == Max(upTo)
<1>0. Len(best) \in Nat /\ DOMAIN best = 1..Len(best)
  OBVIOUS
<1>1. 0 \in upTo
  BY <1>0
<1>2. IsFiniteSet(upTo) /\ upTo \subseteq Int
  <2>1. IsFiniteSet(0..Len(best))
    BY <1>0, FS_Interval
  <2> QED
    BY <1>0, <2>1, FS_Subset
<1>3. r \in upTo /\ \A n \in upTo : n <= r
  <2> HIDE DEF upTo
  <2> QED
    BY <1>1, <1>2, MaxMin
<1>4. Reachable(book, side, limit) = SubSeq(best, 1, r)
  BY DEF Reachable
<1>5. r \in 0..Len(best) /\ \A n \in 1..r : Within(side, best[n].price, limit)
  BY <1>3
<1>6. ASSUME r < Len(best), Within(side, best[r + 1].price, limit) PROVE FALSE
  <2>1. r + 1 \in 0..Len(best)
    BY <1>0, <1>5, <1>6
  <2>2. \A i \in 1..(r + 1) : i = r + 1 \/ i \in 1..r
    BY <1>0, <1>5
  <2>3. r + 1 \in upTo
    <3> HIDE DEF r
    <3> QED
      BY <1>5, <1>6, <2>1, <2>2
  <2>4. r + 1 <= r
    BY <1>3, <2>3
  <2> QED
    BY <1>0, <1>5, <2>4
<1> HIDE DEF r, upTo
<1>7. /\ SubSeq(best, 1, r) \in Seq(Levels) /\ Len(SubSeq(best, 1, r)) = r
      /\ \A n \in 1..r : SubSeq(best, 1, r)[n] = best[n]
  BY <1>0, <1>5
<1> QED
  BY <1>4, <1>5, <1>6, <1>7

(***************************************************************************)
(* Limit prices.                                                           *)
(***************************************************************************)
LEMMA LimitOfPurchase ==
  ASSUME NEW ref, ref \in 1..(Dollar - 1), NEW bps \in Nat, NEW tick \in Int,
         NEW limit, limit = LimitPrice(ref, "buy", bps, tick)
  PROVE  /\ limit \in 1..(Dollar - 1) /\ limit * Dollar <= ref * (Dollar + bps)
         /\ tick > 0 /\ ref % tick = 0 => limit % tick = 0 /\ ref <= limit
<1> DEFINE D == Dollar
           all == ref * (D + bps)
           W == all \div D
           s == Saturating(W)
<1>0. ASSUME limit \in 1..(Dollar - 1), limit * D <= all,
             tick > 0 /\ ref % tick = 0 => limit % tick = 0 /\ ref <= limit
      PROVE  /\ limit \in 1..(Dollar - 1) /\ limit * Dollar <= ref * (Dollar + bps)
             /\ tick > 0 /\ ref % tick = 0 => limit % tick = 0 /\ ref <= limit
  BY <1>0, Zenon
<1>1. D = 10000 /\ ref \in Int /\ 1 <= ref /\ ref <= 9999
  BY DEF Dollar
<1>2. all \in Int /\ all >= ref * D
  <2>1. all = ref * D + ref * bps /\ ref * bps \in Nat
    BY <1>1
  <2> QED
    BY <1>1, <2>1
<1>3. W \in Int /\ W * D <= all /\ W >= ref
  <2> HIDE DEF all
  <2>1. D \in Nat \ {0}
    BY <1>1
  <2>2. W \in Int
    BY <1>2, <2>1, DivMod
  <2>3. /\ W * D <= all /\ all < W * D + D
        /\ \A k \in Int : k * D <= all => k * D <= W * D
    BY <1>2, <2>1, MultipleBelow
  <2>4. ref * D <= W * D
    BY <1>1, <1>2, <2>3
  <2> HIDE DEF W
  <2> QED
    BY <1>1, <2>2, <2>3, <2>4
<1>4. limit = RoundToTick(s, tick, "buy")
  BY DEF LimitPrice, Worsened
<1> HIDE DEF D, all, W
<1>5. s \in Int /\ s <= W /\ ref <= s /\ s <= 9999 /\ 1 <= s
  BY <1>1, <1>3 DEF Saturating, LesserOf, GreaterOf, Dollar
<1> HIDE DEF s
<1>6. CASE tick <= 0
  <2>1. limit = s
    BY <1>4, <1>6 DEF RoundToTick
  <2>2. limit * D <= all
    <3>1. limit \in Int /\ limit <= W /\ W \in Int /\ D = 10000
      BY ONLY <1>1, <1>3, <1>5, <2>1
    <3>2. all \in Int /\ W * D <= all
      BY ONLY <1>2, <1>3
    <3> QED
      BY ONLY <3>1, <3>2
  <2>3. limit \in 1..9999
    <3>1. s \in Int /\ 1 <= s /\ s <= 9999
      BY <1>5
    <3> QED
      BY ONLY SMTT(30), <3>1, <2>1
  <2>6. limit \in 1..(Dollar - 1)
    BY ONLY <2>3 DEF Dollar
  <2>7. ~(tick > 0)
    BY ONLY <1>6
  <2> QED
    BY ONLY <1>0, <2>2, <2>6, <2>7, Zenon
<1>7. CASE tick > 0
  <2> DEFINE g == (s \div tick) * tick
  <2>1. limit = Saturating(g)
    BY <1>4, <1>7 DEF RoundToTick
  <2>0. g = (s \div tick) * tick /\ tick \in Nat \ {0}
    BY <1>7
  <2> HIDE DEF g
  <2>2. /\ g \in Int /\ g <= s /\ g % tick = 0
        /\ \A k \in Int : k * tick <= s => k * tick <= g
    <3>1. s \in Int
      BY <1>5
    <3> QED
      BY ONLY <2>0, <3>1, MultipleBelow
  <2>3. limit \in 1..9999 /\ limit <= W /\ (g >= 1 => limit = g)
    <3>1. /\ g \in Int /\ s \in Int /\ W \in Int
          /\ g <= s /\ s <= W /\ 1 <= s /\ s <= 9999
      BY <1>3, <1>5, <2>2
    <3> QED
      BY ONLY <2>1, <3>1 DEF Saturating, LesserOf, GreaterOf, Dollar
  <2>4. limit * D <= all
    <3>1. limit \in Int /\ limit <= W /\ W \in Int /\ D = 10000
      BY ONLY <1>1, <1>3, <2>3
    <3>2. all \in Int /\ W * D <= all
      BY ONLY <1>2, <1>3
    <3> QED
      BY ONLY <3>1, <3>2
  <2>5. ASSUME ref % tick = 0 PROVE limit % tick = 0 /\ ref <= limit
    <3>1. ref = (ref \div tick) * tick /\ ref \div tick \in Int
      <4>1. ref \in Int /\ tick \in Nat \ {0}
        BY <1>1, <1>7
      <4>2. ref \div tick \in Int /\ ref = (ref \div tick) * tick + (ref % tick)
        BY <4>1, DivMod
      <4> DEFINE k == ref \div tick
      <4>3. k \in Int /\ ref = k * tick + 0
        BY <2>5, <4>2
      <4> HIDE DEF k
      <4>4. k \in Int /\ ref = k * tick
        BY <4>1, <4>3
      <4> QED
        BY <4>4 DEF k
    <3>2. ref <= g
      BY <1>5, <2>2, <3>1
    <3>3. limit = g
      <4>1. g \in Int /\ ref \in Int /\ 1 <= ref /\ ref <= 9999
        BY <1>1, <2>2
      <4> QED
        BY ONLY <2>3, <3>2, <4>1
    <3>4. g % tick = 0
      BY <2>2
    <3> QED
      BY ONLY <3>2, <3>3, <3>4
  <2>6. limit \in 1..(Dollar - 1)
    BY ONLY <2>3 DEF Dollar
  <2> QED
    BY ONLY <1>0, <2>4, <2>5, <2>6, Zenon
<1> QED
  BY <1>6, <1>7

LEMMA LimitOfSale ==
  ASSUME NEW ref, ref \in 1..(Dollar - 1), NEW bps \in Nat, NEW tick \in Int,
         NEW side, side # "buy",
         NEW limit, limit = LimitPrice(ref, side, bps, tick)
  PROVE  /\ limit \in 1..(Dollar - 1) /\ limit * Dollar >= ref * (Dollar - bps)
         /\ tick > 0 /\ ref % tick = 0 => limit % tick = 0 /\ ref >= limit
<1> DEFINE D == Dollar
           all == ref * (D - bps)
           W == (all + D - 1) \div D
           s == Saturating(W)
<1>0. ASSUME limit \in 1..(Dollar - 1), limit * D >= all,
             tick > 0 /\ ref % tick = 0 => limit % tick = 0 /\ ref >= limit
      PROVE  /\ limit \in 1..(Dollar - 1) /\ limit * Dollar >= ref * (Dollar - bps)
             /\ tick > 0 /\ ref % tick = 0 => limit % tick = 0 /\ ref >= limit
  BY <1>0, Zenon
<1>1. D = 10000 /\ ref \in Int /\ 1 <= ref /\ ref <= 9999
  BY DEF Dollar
<1>2. all \in Int /\ all <= ref * D
  <2>1. all = ref * D - ref * bps /\ ref * bps \in Nat
    BY <1>1
  <2> QED
    BY <1>1, <2>1
<1>3. W \in Int /\ W * D >= all /\ W <= ref
  <2> HIDE DEF all
  <2>1. D \in Nat \ {0} /\ all + D - 1 \in Int
    BY <1>1, <1>2
  <2>2. W \in Int
    <3> DEFINE x == all + D - 1
    <3>1. x \in Int
      BY <2>1
    <3> HIDE DEF x
    <3>2. x \div D \in Int
      BY <2>1, <3>1, DivMod
    <3> QED
      BY <3>2 DEF x
  <2>3. /\ W * D >= all
        /\ \A k \in Int : k * D >= all => k * D >= W * D
    BY <1>2, <2>1, MultipleAbove
  <2>4. ref * D >= W * D
    BY <1>1, <1>2, <2>3
  <2> HIDE DEF W
  <2> QED
    BY <1>1, <2>2, <2>3, <2>4
<1>4. limit = RoundToTick(s, tick, side)
  BY DEF LimitPrice, Worsened
<1> HIDE DEF D, all, W
<1>5. s \in Int /\ s >= W /\ ref >= s /\ s >= 1
  BY <1>1, <1>3 DEF Saturating, LesserOf, GreaterOf, Dollar
<1> HIDE DEF s
<1>6. CASE tick <= 0
  <2>1. limit = s
    BY <1>4, <1>6 DEF RoundToTick
  <2>2. limit * D >= all
    <3>1. limit \in Int /\ limit >= W /\ W \in Int /\ D = 10000
      BY ONLY <1>1, <1>3, <1>5, <2>1
    <3>2. all \in Int /\ W * D >= all
      BY ONLY <1>2, <1>3
    <3> QED
      BY ONLY <3>1, <3>2
  <2>3. limit \in 1..9999
    <3>1. s \in Int /\ 1 <= s /\ s <= ref /\ ref \in Int /\ ref <= 9999
      BY <1>1, <1>5
    <3>2. s <= 9999
      BY ONLY <3>1
    <3> QED
      BY ONLY SMTT(30), <3>1, <3>2, <2>1
  <2>6. limit \in 1..(Dollar - 1)
    BY ONLY <2>3 DEF Dollar
  <2>7. ~(tick > 0)
    BY ONLY <1>6
  <2> QED
    BY ONLY <1>0, <2>2, <2>6, <2>7, Zenon
<1>7. CASE tick > 0
  <2> DEFINE g == ((s + tick - 1) \div tick) * tick
  <2>1. limit = Saturating(g)
    BY <1>4, <1>7 DEF RoundToTick
  <2>0. g = ((s + tick - 1) \div tick) * tick /\ tick \in Nat \ {0}
    BY <1>7
  <2> HIDE DEF g
  <2>2. /\ g \in Int /\ g >= s /\ g % tick = 0
        /\ \A k \in Int : k * tick >= s => k * tick >= g
    BY <1>5, <2>0, MultipleAbove
  <2>3. limit \in 1..9999 /\ limit >= W /\ (g <= 9999 => limit = g)
    BY <1>1, <1>3, <1>5, <2>1, <2>2 DEF Saturating, LesserOf, GreaterOf, Dollar
  <2>4. limit * D >= all
    <3>1. limit \in Int /\ limit >= W /\ W \in Int /\ D = 10000
      BY ONLY <1>1, <1>3, <2>3
    <3>2. all \in Int /\ W * D >= all
      BY ONLY <1>2, <1>3
    <3> QED
      BY ONLY <3>1, <3>2
  <2>5. ASSUME ref % tick = 0 PROVE limit % tick = 0 /\ ref >= limit
    <3>1. ref = (ref \div tick) * tick /\ ref \div tick \in Int
      <4>1. ref \in Int /\ tick \in Nat \ {0}
        BY <1>1, <1>7
      <4>2. ref \div tick \in Int /\ ref = (ref \div tick) * tick + (ref % tick)
        BY <4>1, DivMod
      <4> DEFINE k == ref \div tick
      <4>3. k \in Int /\ ref = k * tick + 0
        BY <2>5, <4>2
      <4> HIDE DEF k
      <4>4. k \in Int /\ ref = k * tick
        BY <4>1, <4>3
      <4> QED
        BY <4>4 DEF k
    <3>2. ref >= g
      BY <1>5, <2>2, <3>1
    <3>3. limit = g
      <4>1. g \in Int /\ ref \in Int /\ 1 <= ref /\ ref <= 9999
        BY <1>1, <2>2
      <4> QED
        BY ONLY <2>3, <3>2, <4>1
    <3>4. g % tick = 0
      BY <2>2
    <3> QED
      BY ONLY <3>2, <3>3, <3>4
  <2>6. limit \in 1..(Dollar - 1)
    BY ONLY <2>3 DEF Dollar
  <2> QED
    BY ONLY <1>0, <2>4, <2>5, <2>6, Zenon
<1> QED
  BY <1>6, <1>7

(***************************************************************************)
(* Copies.                                                                 *)
(***************************************************************************)
\* A book that was read: both its sides are levels of tradable prices.
LEMMA BookFacts ==
  ASSUME NEW wire, wire = None \/ IsWire(wire), NEW side
  PROVE  /\ BookOf(wire).known <=> wire # None
         /\ TickOf(BookOf(wire)) \in Int
         /\ wire # None =>
              /\ BookOf(wire).tick \in Int /\ BookOf(wire).minSize \in Int
              /\ TakingSide(BookOf(wire), side)
                   = IF side = "buy" THEN SideBestFirst(wire.asks, "sell")
                                     ELSE SideBestFirst(wire.bids, "buy")
              /\ TakingSide(BookOf(wire), side) \in Seq(Levels)
              /\ \A n \in 1..Len(TakingSide(BookOf(wire), side)) :
                   /\ TakingSide(BookOf(wire), side)[n].price \in 1..(Dollar - 1)
                   /\ TakingSide(BookOf(wire), side)[n].size \in Nat \ {0}
<1>1. CASE wire = None
  BY <1>1 DEF BookOf, NoBook, TickOf
<1>2. CASE wire # None
  <2> DEFINE book == BookOf(wire)
  <2>1. book = ParseBook(wire, Now)
    BY <1>2 DEF BookOf
  <2>2. /\ book.known = TRUE
        /\ book.bids = SideBestFirst(wire.bids, "buy")
        /\ book.asks = SideBestFirst(wire.asks, "sell")
        /\ book.tick = Given(wire.tick, 100) /\ book.minSize = Given(wire.minSize, 5)
    BY <2>1 DEF ParseBook
  <2>3. /\ wire.bids \in Seq(Levels) /\ wire.asks \in Seq(Levels)
        /\ wire.tick \in Int \cup {None} /\ wire.minSize \in Int \cup {None}
    BY <1>2 DEF IsWire, Maybe, Levels
  <2>4. book.tick \in Int /\ book.minSize \in Int
    BY <2>2, <2>3 DEF Given
  <2>5. TakingSide(book, side) = IF side = "buy" THEN SideBestFirst(wire.asks, "sell")
                                                 ELSE SideBestFirst(wire.bids, "buy")
    BY <2>2 DEF TakingSide
  <2> HIDE DEF book
  <2>6. /\ TakingSide(book, side) \in Seq(Levels)
        /\ \A n \in 1..Len(TakingSide(book, side)) :
             /\ TakingSide(book, side)[n].price \in 1..(Dollar - 1)
             /\ TakingSide(book, side)[n].size \in Nat \ {0}
    <3>1. CASE side = "buy"
      BY <2>3, <2>5, <3>1, SideType
    <3>2. CASE side # "buy"
      BY <2>3, <2>5, <3>2, SideType
    <3> QED
      BY <3>1, <3>2
  <2>7. TickOf(book) = book.tick
    BY <2>2 DEF TickOf
  <2> QED
    BY <1>2, <2>2, <2>4, <2>5, <2>6, <2>7 DEF book
<1> QED
  BY <1>1, <1>2

LEMMA NotionalType ==
  ASSUME NEW wire, IsWire(wire), wire # None, NEW side, NEW limit
  PROVE  NotionalWithin(BookOf(wire), side, limit) \in Int
<1> DEFINE book == BookOf(wire)
           best == TakingSide(book, side)
           levels == Reachable(book, side, limit)
<1>1. best \in Seq(Levels)
  BY BookFacts
<1>2. levels \in Seq(Levels)
  <2> HIDE DEF best
  <2>1. best = TakingSide(book, side)
    BY DEF best
  <2> HIDE DEF levels, book
  <2>2. Reachable(book, side, limit) \in Seq(Levels)
    BY <1>1, <2>1, ReachableLevels
  <2> QED
    BY <2>2 DEF levels
<1>3. Len(levels) \in Nat
  BY <1>2
<1>4. PICK a \in [0..Len(levels) -> Int] : NotionalWithin(book, side, limit) = a[Len(levels)]
  BY <1>2, NotionalByLevels
<1> HIDE DEF book, levels
<1>5. a[Len(levels)] \in Int
  BY <1>3, <1>4
<1> QED
  BY <1>4, <1>5 DEF book

\* What is sized is within every cap, and something.
LEMMA SizedWithinCaps ==
  ASSUME NEW wallet, IsWallet(wallet), NEW source \in Int, NEW price \in Nat \ {0},
         NEW ctx \in Contexts, Size(wallet, source, price, ctx).refusal = "none"
  PROVE  LET quantity == Size(wallet, source, price, ctx).quantity
         IN  /\ quantity \in Nat \ {0}
             /\ \A cap \in Caps(wallet, ctx) : cap \in Int /\ quantity * price <= cap
<1> DEFINE notional == Capped(wallet, source, ctx)
           quantity == Shares(notional, price, ctx.increment)
           raw == RawNotional(wallet, source, ctx)
           S == {raw} \cup Caps(wallet, ctx)
<1>1. /\ Size(wallet, source, price, ctx).quantity = quantity
      /\ ~(notional < Floor(wallet, ctx)) /\ quantity # 0
  BY DEF Size
<1>2. /\ ctx.equity \in Int /\ ctx.marketExposure \in Int /\ ctx.maxPosition \in Int
      /\ ctx.maxTrade \in Int /\ ctx.minTrade \in Int /\ ctx.liquidity \in Int
      /\ ctx.remainingRisk \in Int /\ ctx.increment \in Int
  BY DEF Contexts
<1>3. /\ wallet.mode \in {"fixed_ratio", "fixed_usd", "portfolio_percent", "risk_adjusted"}
      /\ wallet.maxTrade \in Int /\ wallet.maxExposure \in Int /\ wallet.minTrade \in Nat
      /\ wallet.mode = "fixed_usd" => wallet.amount \in Int
      /\ wallet.mode # "fixed_usd" => wallet.ratio \in Int
      /\ wallet.mode = "risk_adjusted" => wallet.liquidityCap \in Int
  BY DEF IsWallet
<1>4. \A x \in Int : \A y \in Int : (x * y) \div 100 \in Int
  <2> TAKE x \in Int
  <2> TAKE y \in Int
  <2> DEFINE z == x * y
  <2>1. z \in Int /\ 100 \in Nat \ {0}
    OBVIOUS
  <2> HIDE DEF z
  <2>2. z \div 100 \in Int
    BY <2>1, DivMod
  <2> QED
    BY <2>2 DEF z
<1>5. raw \in Int
  <2>1. FreeShare(ctx) \in Int
    <3>1. CASE ctx.maxPosition > 0
      <4> DEFINE used == LesserOf(GreaterOf(ctx.marketExposure, 0), ctx.maxPosition)
                 n == ctx.maxPosition
                 x == used * 100
      <4>1. used \in Int
        BY <1>2 DEF LesserOf, GreaterOf
      <4>2. x \in Int /\ n \in Nat \ {0}
        <5> HIDE DEF used
        <5> QED
          BY <1>2, <3>1, <4>1
      <4>3. x \div n \in Int
        <5> HIDE DEF x, n
        <5> QED
          BY <4>2, DivMod
      <4>4. FreeShare(ctx) = 100 - (x \div n)
        BY <3>1 DEF FreeShare
      <4> HIDE DEF x, n
      <4> QED
        BY <4>3, <4>4
    <3>2. CASE ~(ctx.maxPosition > 0)
      BY <3>2 DEF FreeShare
    <3> QED
      BY <3>1, <3>2
  <2>2. CASE wallet.mode = "fixed_ratio"
    <3>1. raw = (source * wallet.ratio) \div 100
      BY <2>2 DEF RawNotional
    <3> QED
      BY <1>3, <1>4, <2>2, <3>1
  <2>3. CASE wallet.mode = "fixed_usd"
    <3>1. raw = wallet.amount
      BY <2>3 DEF RawNotional
    <3> QED
      BY <1>3, <2>3, <3>1
  <2>4. CASE wallet.mode = "portfolio_percent"
    <3>1. raw = (ctx.equity * wallet.ratio) \div 100
      BY <2>4 DEF RawNotional
    <3> QED
      BY <1>2, <1>3, <1>4, <2>4, <3>1
  <2>5. CASE wallet.mode = "risk_adjusted"
    <3> DEFINE x == (source * wallet.ratio) \div 100
    <3>1. raw = (x * FreeShare(ctx)) \div 100
      BY <2>5 DEF RawNotional
    <3>2. x \in Int
      BY <1>3, <1>4, <2>5
    <3> HIDE DEF x
    <3> QED
      BY <1>4, <2>1, <3>1, <3>2
  <2> QED
    BY <1>3, <2>2, <2>3, <2>4, <2>5
<1> DEFINE A == {wallet.maxTrade, ctx.maxTrade, Headroom(ctx), wallet.maxExposure,
                 ctx.remainingRisk}
           B == IF wallet.mode = "risk_adjusted" THEN {LiquidityCap(wallet, ctx)} ELSE {}
<1>6. \A cap \in Caps(wallet, ctx) : cap \in Int
  <2>1. \A cap \in A : cap \in Int
    BY <1>2, <1>3 DEF Headroom, GreaterOf
  <2>2. \A cap \in B : cap \in Int
    <3>1. CASE wallet.mode = "risk_adjusted"
      <4>1. LiquidityCap(wallet, ctx) \in Int
        BY <1>2, <1>3, <1>4, <3>1 DEF LiquidityCap
      <4> QED
        BY <4>1
    <3>2. CASE wallet.mode # "risk_adjusted"
      BY <3>2
    <3> QED
      BY <3>1, <3>2
  <2> QED
    BY <2>1, <2>2 DEF Caps
<1>7. IsFiniteSet(S)
  <2>1. IsFiniteSet({}) /\ IsFiniteSet({LiquidityCap(wallet, ctx)}) /\ IsFiniteSet({raw})
    BY FS_EmptySet, FS_Singleton
  <2>2. IsFiniteSet(B)
    BY <2>1
  <2> DEFINE one == {} \cup {wallet.maxTrade}
             two == one \cup {ctx.maxTrade}
             three == two \cup {Headroom(ctx)}
             four == three \cup {wallet.maxExposure}
             five == four \cup {ctx.remainingRisk}
  <2>3. IsFiniteSet(one)
    BY <2>1, FS_AddElement
  <2>4. IsFiniteSet(two)
    BY <2>3, FS_AddElement
  <2>5. IsFiniteSet(three)
    BY <2>4, FS_AddElement
  <2>6. IsFiniteSet(four)
    BY <2>5, FS_AddElement
  <2>7. IsFiniteSet(five)
    BY <2>6, FS_AddElement
  <2>8. A = five
    OBVIOUS
  <2>9. IsFiniteSet(A)
    BY <2>7, <2>8
  <2> HIDE DEF A, B
  <2>10. IsFiniteSet(A \cup B)
    BY <2>2, <2>9, FS_Union
  <2>11. IsFiniteSet({raw} \cup (A \cup B))
    BY <2>1, <2>10, FS_Union
  <2> QED
    BY <2>11 DEF Caps, A, B
<1>8. notional \in Int /\ \A cap \in Caps(wallet, ctx) : notional <= cap
  <2>1. S \subseteq Int /\ S # {}
    BY <1>5, <1>6
  <2>2. notional = Min(S)
    BY DEF Capped
  <2> HIDE DEF S, notional
  <2>3. Min(S) \in S /\ \A x \in S : Min(S) <= x
    BY <1>7, <2>1, MaxMin
  <2>4. notional \in Int
    BY <2>1, <2>2, <2>3
  <2>5. \A cap \in Caps(wallet, ctx) : cap \in S
    BY DEF S
  <2> QED
    BY <2>2, <2>3, <2>4, <2>5
<1>9. notional >= 0
  <2>1. Floor(wallet, ctx) \in Int /\ Floor(wallet, ctx) >= 0
    BY <1>2, <1>3 DEF Floor, GreaterOf
  <2> HIDE DEF notional, quantity
  <2> QED
    BY <1>1, <1>8, <2>1
<1> HIDE DEF S, raw, A, B
<1>10. quantity \in Nat /\ quantity * price <= notional
  <2> HIDE DEF notional
  <2>1. CASE ctx.increment > 0
    <3> DEFINE inc == ctx.increment
               n == price * inc
               d == notional \div n
    <3>1. inc \in Nat \ {0}
      BY <1>2, <2>1
    <3>2. n \in Nat \ {0}
      <4> HIDE DEF inc
      <4> QED
        BY <3>1
    <3>3. quantity = d * inc
      BY <2>1 DEF Shares
    <3> HIDE DEF inc
    <3>4. /\ n = price * inc /\ n \in Nat \ {0} /\ notional \in Nat
      BY <1>8, <1>9, <3>2
    <3> HIDE DEF n
    <3>5. d \in Nat /\ d * n <= notional
      <4>1. d \in Nat
        BY <3>4, DivNat
      <4>2. d * n <= notional
        <5> DEFINE y == d * n
        <5>1. y = (notional \div n) * n /\ notional \in Int
          BY <3>4
        <5> HIDE DEF y
        <5>2. y <= notional
          BY <3>4, <5>1, MultipleBelow
        <5> QED
          BY <5>2 DEF y
      <4> QED
        BY <4>1, <4>2
    <3> HIDE DEF d, quantity
    <3>6. (d * inc) * price = d * (price * inc) /\ d * inc \in Nat
      BY <3>1, <3>5
    <3> QED
      BY <3>3, <3>4, <3>5, <3>6
  <2>2. CASE ~(ctx.increment > 0)
    <3>1. quantity = notional \div price
      BY <2>2 DEF Shares
    <3>2. notional \in Nat
      BY <1>8, <1>9
    <3> HIDE DEF quantity
    <3>3. quantity \in Nat
      BY <3>1, <3>2, DivNat
    <3>4. quantity * price <= notional
      BY <3>1, <3>2, MultipleBelow
    <3> QED
      BY <3>3, <3>4
  <2> QED
    BY <2>1, <2>2
<1> HIDE DEF quantity, notional
<1>11. quantity \in Nat \ {0}
  BY <1>1, <1>10
<1>12. \A cap \in Caps(wallet, ctx) : quantity * price <= cap
  <2> TAKE cap \in Caps(wallet, ctx)
  <2> DEFINE cost == quantity * price
  <2>1. cost \in Int /\ cost <= notional
    BY <1>10
  <2> HIDE DEF cost
  <2>2. cost <= cap
    BY <1>6, <1>8, <2>1
  <2> QED
    BY <2>2 DEF cost
<1> QED
  BY <1>1, <1>6, <1>11, <1>12

LEMMA ReferencePrice ==
  ASSUME NEW c \in CopyCases
  PROVE  /\ Reference(c.trade, BookOf(c.wire)) \in 1..(Dollar - 1)
         /\ TickOf(BookOf(c.wire)) \in Int
         /\ LimitPrice(Reference(c.trade, BookOf(c.wire)), c.trade.side,
                       c.config.maxSlippage, TickOf(BookOf(c.wire))) \in 1..(Dollar - 1)
<1> DEFINE book == BookOf(c.wire)
           side == c.trade.side
           best == TakingSide(book, side)
           ref == Reference(c.trade, book)
           bps == c.config.maxSlippage
           tick == TickOf(book)
           limit == LimitPrice(ref, side, bps, tick)
<1>1. /\ side \in {"buy", "sell"} /\ bps \in Nat
      /\ c.wire = None \/ IsWire(c.wire)
      /\ IsPrice(c.trade.price) /\ c.trade.price \in Int
  BY CopyCasesAssumption
<1>2. c.trade.price \in 1..(Dollar - 1)
  <2> DEFINE p == c.trade.price
  <2>1. p \in Int /\ 0 < p /\ p < 10000
    BY <1>1 DEF IsPrice, Dollar
  <2> HIDE DEF p
  <2>2. p \in 1..(Dollar - 1)
    BY ONLY SMTT(30), <2>1 DEF Dollar
  <2> QED
    BY <2>2 DEF p
<1>3. tick \in Int
  BY <1>1, BookFacts
<1>4. HasTouch(book, side) => best[1].price \in 1..(Dollar - 1)
  <2> SUFFICES ASSUME HasTouch(book, side) PROVE best[1].price \in 1..(Dollar - 1)
    OBVIOUS
  <2>1. c.wire # None /\ best # <<>>
    BY <1>1, BookFacts DEF HasTouch
  <2>2. /\ best \in Seq(Levels)
        /\ \A n \in 1..Len(best) : best[n].price \in 1..(Dollar - 1)
    BY <1>1, <2>1, BookFacts
  <2> HIDE DEF best
  <2>3. 1 \in 1..Len(best)
    BY <2>1, <2>2
  <2> QED
    BY <2>2, <2>3
<1>5. ref \in 1..(Dollar - 1)
  BY <1>2, <1>4 DEF Reference
<1>6. limit \in 1..(Dollar - 1)
  <2>0. /\ limit = LimitPrice(ref, side, bps, tick) /\ ref \in 1..(Dollar - 1)
        /\ bps \in Nat /\ tick \in Int
    BY <1>1, <1>3, <1>5
  <2> HIDE DEF limit, ref, bps, tick, side
  <2>1. CASE side = "buy"
    <3>1. limit = LimitPrice(ref, "buy", bps, tick)
      BY <2>0, <2>1
    <3> QED
      BY ONLY <2>0, <3>1, LimitOfPurchase
  <2>2. CASE side # "buy"
    BY ONLY <2>0, <2>2, LimitOfSale
  <2> QED
    BY <2>1, <2>2
<1> QED
  BY <1>3, <1>5, <1>6

LEMMA SignalFacts ==
  ASSUME NEW c \in CopyCases, NEW sig, sig = SignalFor(c), sig.refusal = "none"
  PROVE  LET book == BookOf(c.wire)
             ctx  == CopyContext(c.trade, book, c.ctx, sig.limit)
         IN  /\ sig.limit = LimitPrice(Reference(c.trade, book), c.trade.side,
                                       c.config.maxSlippage, TickOf(book))
             /\ sig.limit \in 1..(Dollar - 1) /\ sig.quantity \in Nat \ {0}
             /\ \A cap \in Caps(c.wallet, ctx) :
                  cap \in Int /\ sig.quantity * sig.limit <= cap
<1> DEFINE book == BookOf(c.wire)
           limit == LimitPrice(Reference(c.trade, book), c.trade.side,
                               c.config.maxSlippage, TickOf(book))
           ctx == CopyContext(c.trade, book, c.ctx, limit)
           source == c.trade.price * c.trade.quantity
           sized == Size(c.wallet, source, limit, ctx)
           admission == Admission(c.wallet, c.trade.market, source)
<1>1. sig = IF admission # "admitted" THEN Refused(admission)
            ELSE CopySignal(c.trade, c.wallet, book, c.ctx, c.config, TickOf(book), Now)
  BY DEF SignalFor
<1>2. admission # "none"
  BY DEF Admission
<1>3. sig = CopySignal(c.trade, c.wallet, book, c.ctx, c.config, TickOf(book), Now)
  <2> HIDE DEF admission
  <2>1. admission # "admitted" => sig.refusal = admission
    BY <1>1 DEF Refused
  <2> QED
    BY <1>1, <1>2, <2>1
<1>4. sized.refusal = "none" /\ sig.quantity = sized.quantity /\ sig.limit = limit
  <2>1. sig = IF Stale(c.config, book, Now)
                THEN Refused("stale_book")
              ELSE IF ~HasTouch(book, c.trade.side) /\ ~c.config.pricesWithoutBook
                THEN Refused("no_liquidity")
              ELSE IF sized.refusal # "none"
                THEN Refused(sized.refusal)
              ELSE [refusal |-> "none", quantity |-> sized.quantity, limit |-> limit]
    BY <1>3 DEF CopySignal
  <2> HIDE DEF sized, limit
  <2> QED
    BY <2>1 DEF Refused
<1>5. /\ c.wire = None \/ IsWire(c.wire)
      /\ c.ctx \in Contexts /\ IsWallet(c.wallet)
      /\ c.trade.price \in Int /\ c.trade.quantity \in Int
  BY CopyCasesAssumption
<1>6. limit \in 1..(Dollar - 1) /\ limit \in Nat \ {0}
  <2>1. limit \in 1..(Dollar - 1)
    BY ReferencePrice
  <2> HIDE DEF limit
  <2> QED
    BY <2>1 DEF Dollar
<1>7. ctx \in Contexts
  <2>1. IF book.known THEN NotionalWithin(book, c.trade.side, limit) \in Int
                      ELSE TRUE
    BY <1>5, BookFacts, NotionalType
  <2>2. book.known => book.minSize \in Int
    BY <1>5, BookFacts
  <2> DEFINE base == c.ctx
             l == IF book.known THEN NotionalWithin(book, c.trade.side, limit)
                                ELSE base.liquidity
             i == IF base.increment > 0 THEN base.increment
                  ELSE IF book.known THEN book.minSize ELSE 1
  <2>3. base \in Contexts
    BY <1>5
  <2>4. ctx = [base EXCEPT !.liquidity = l, !.increment = i]
    BY DEF CopyContext
  <2>5. l \in Int /\ i \in Int
    <3> HIDE DEF limit, book, base
    <3>1. base.liquidity \in Int /\ base.increment \in Int
      BY <2>3 DEF Contexts
    <3> QED
      BY <2>1, <2>2, <3>1
  <2> HIDE DEF ctx, l, i, base
  <2> QED
    BY ONLY <2>3, <2>4, <2>5 DEF Contexts
<1>8. source \in Int
  BY <1>5
<1> HIDE DEF source, limit, ctx
<1>9. /\ sized.quantity \in Nat \ {0}
      /\ \A cap \in Caps(c.wallet, ctx) : cap \in Int /\ sized.quantity * limit <= cap
  BY <1>4, <1>5, <1>6, <1>7, <1>8, SizedWithinCaps
<1> QED
  BY <1>4, <1>6, <1>9 DEF limit, ctx

\* The limit of a copy is no worse than the slippage budget allows, on the grid when
\* the best price of the book is, and reaches that price.
THEOREM LimitsReachTheBook == Spec => []LimitReachesTouch
<1>1. WorkedOut => LimitReachesTouch
  <2> DEFINE book == BookOf(case.in.wire)
             side == Side
             touch == TakingSide(book, side)[1].price
             bps == case.in.config.maxSlippage
             limit == signal.limit
  <2> SUFFICES ASSUME WorkedOut, signal # None, signal.refusal = "none",
                      HasTouch(book, side)
               PROVE  /\ Within(side, limit * Dollar,
                                touch * (IF side = "buy" THEN Dollar + bps
                                                         ELSE Dollar - bps))
                      /\ book.tick > 0 /\ touch % book.tick = 0 =>
                           limit % book.tick = 0 /\ Within(side, touch, limit)
    BY DEF LimitReachesTouch
  <2>1. signal = SignalFor(case.in)
    BY DEF WorkedOut
  <2>2. case.in \in CopyCases
    BY DEF WorkedOut, InputsOf
  <2> DEFINE ref == Reference(case.in.trade, book)
             tick == TickOf(book)
  <2>3. limit = LimitPrice(ref, side, bps, tick)
    BY <2>1, <2>2, SignalFacts DEF Side
  <2>4. ref \in 1..(Dollar - 1) /\ tick \in Int
    BY <2>2, ReferencePrice
  <2>5. ref = touch
    BY DEF Reference, Side
  <2>6. tick = book.tick
    BY DEF HasTouch, TickOf
  <2>7. bps \in Nat
    BY <2>2, CopyCasesAssumption
  <2> HIDE DEF ref, tick, bps, limit, touch, side
  <2>8. CASE side = "buy"
    <3>1. limit = LimitPrice(ref, "buy", bps, tick)
      BY <2>3, <2>8
    <3>2. /\ limit * Dollar <= ref * (Dollar + bps)
          /\ tick > 0 /\ ref % tick = 0 => limit % tick = 0 /\ ref <= limit
      BY ONLY <2>4, <2>7, <3>1, LimitOfPurchase
    <3> QED
      BY <2>5, <2>6, <2>8, <3>2 DEF Within
  <2>9. CASE side # "buy"
    <3>1. /\ limit * Dollar >= ref * (Dollar - bps)
          /\ tick > 0 /\ ref % tick = 0 => limit % tick = 0 /\ ref >= limit
      BY ONLY <2>3, <2>4, <2>7, <2>9, LimitOfSale
    <3> QED
      BY <2>5, <2>6, <2>9, <3>1 DEF Within
  <2> QED
    BY <2>8, <2>9
<1> QED
  BY <1>1, WorkedOutAlways, PTL

(***************************************************************************)
(* Sweeps, as numbers.  Levels of sizes z at costs c are taken in turn for *)
(* a quantity q: after k of them t[k] is taken, and costs w[k].            *)
(***************************************************************************)
Sizes(n, z) == \A k \in 1..n : z[k] \in Nat

Costs(n, c) == \A k \in 1..n : c[k] \in Int

Taken(n, q, z, t) ==
  /\ t[0] = 0 /\ \A k \in 0..n : t[k] \in Int
  /\ \A k \in 1..n : t[k] = t[k - 1] + LesserOf(q - t[k - 1], z[k])

Spent(n, c, t, w) ==
  /\ w[0] = 0 /\ \A k \in 0..n : w[k] \in Int
  /\ \A k \in 1..n : w[k] = w[k - 1] + (t[k] - t[k - 1]) * c[k]

\* What there is to take in all.
Totals(n, z, a) == a[0] = 0 /\ \A k \in 1..n : a[k] = a[k - 1] + z[k]

\* What the levels at less than p save on it.
Saves(n, c, z, p, s) ==
  /\ s[0] = 0 /\ \A k \in 0..n : s[k] \in Int
  /\ \A k \in 1..n : s[k] = s[k - 1] + z[k] * GreaterOf(p - c[k], 0)

LEMMA TakenGrows ==
  ASSUME NEW n \in Nat, NEW q \in Nat, NEW z, Sizes(n, z), NEW t, Taken(n, q, z, t)
  PROVE  /\ \A k \in 0..n : t[k] \in Nat /\ t[k] <= q
         /\ \A k \in 1..n : /\ t[k] - t[k - 1] \in Nat /\ t[k] - t[k - 1] <= z[k]
                            /\ t[k] < q => t[k] - t[k - 1] = z[k]
<1> DEFINE P == {k \in 0..n : t[k] \in Nat /\ t[k] <= q}
<1>1. 0 \in P
  BY DEF Taken
<1>2. ASSUME NEW j \in 0..n, j < n, j \in P PROVE j + 1 \in P
  <2> DEFINE k == j + 1
  <2>1. k \in 1..n /\ k \in 0..n /\ k - 1 = j
    BY <1>2
  <2> HIDE DEF k
  <2>2. t[k] = t[j] + LesserOf(q - t[j], z[k]) /\ z[k] \in Nat
    BY <2>1 DEF Taken, Sizes
  <2>3. t[k] \in Nat /\ t[k] <= q
    BY <1>2, <2>2 DEF LesserOf
  <2> QED
    BY <2>1, <2>3 DEF k
<1> HIDE DEF P
<1>3. \A k \in 0..n : k \in P
  BY <1>1, <1>2, InductionUpTo
<1>4. \A k \in 0..n : t[k] \in Nat /\ t[k] <= q
  BY <1>3 DEF P
<1>5. ASSUME NEW k \in 1..n
      PROVE  /\ t[k] - t[k - 1] \in Nat /\ t[k] - t[k - 1] <= z[k]
             /\ t[k] < q => t[k] - t[k - 1] = z[k]
  <2>1. k \in 0..n /\ k - 1 \in 0..n
    OBVIOUS
  <2>2. t[k] = t[k - 1] + LesserOf(q - t[k - 1], z[k]) /\ z[k] \in Nat
    BY DEF Taken, Sizes
  <2>3. t[k - 1] \in Nat /\ t[k - 1] <= q
    BY <1>4, <2>1
  <2> QED
    BY <2>2, <2>3 DEF LesserOf
<1> QED
  BY <1>4, <1>5

\* All there is, or all that was asked for.
LEMMA TakenInAll ==
  ASSUME NEW n \in Nat, NEW q \in Nat, NEW z, Sizes(n, z), NEW t, Taken(n, q, z, t),
         NEW a, Totals(n, z, a)
  PROVE  \A k \in 0..n : a[k] \in Nat /\ t[k] = LesserOf(q, a[k])
<1> DEFINE P == {k \in 0..n : a[k] \in Nat /\ t[k] = LesserOf(q, a[k])}
<1>1. 0 \in P
  BY DEF Taken, Totals, LesserOf
<1>2. ASSUME NEW j \in 0..n, j < n, j \in P PROVE j + 1 \in P
  <2> DEFINE k == j + 1
  <2>1. k \in 1..n /\ k \in 0..n /\ k - 1 = j
    BY <1>2
  <2> HIDE DEF k
  <2>2. /\ t[k] = t[j] + LesserOf(q - t[j], z[k]) /\ z[k] \in Nat
        /\ a[k] = a[j] + z[k] /\ a[j] \in Nat /\ t[j] = LesserOf(q, a[j])
    BY <1>2, <2>1 DEF Taken, Totals, Sizes
  <2>3. a[k] \in Nat /\ t[k] = LesserOf(q, a[k])
    BY <2>2 DEF LesserOf
  <2> QED
    BY <2>1, <2>3 DEF k
<1> HIDE DEF P
<1>3. \A k \in 0..n : k \in P
  BY <1>1, <1>2, InductionUpTo
<1> QED
  BY <1>3 DEF P

\* Nothing is got for less than p save by what the cheaper levels save on it.
LEMMA SpentAtLeast ==
  ASSUME NEW n \in Nat, NEW q \in Nat, NEW z, Sizes(n, z), NEW c, Costs(n, c),
         NEW t, Taken(n, q, z, t), NEW w, Spent(n, c, t, w),
         NEW p \in Int, NEW s, Saves(n, c, z, p, s)
  PROVE  \A k \in 0..n : w[k] >= p * t[k] - s[k]
<1> DEFINE P == {k \in 0..n : w[k] >= p * t[k] - s[k]}
<1>1. 0 \in P
  BY DEF Taken, Spent, Saves
<1>2. ASSUME NEW j \in 0..n, j < n, j \in P PROVE j + 1 \in P
  <2> DEFINE k == j + 1
             x == t[k] - t[j]
             g == GreaterOf(p - c[k], 0)
  <2>1. k \in 1..n /\ k \in 0..n /\ k - 1 = j
    BY <1>2
  <2> HIDE DEF k
  <2>2. /\ x \in Nat /\ x <= z[k] /\ z[k] \in Nat /\ c[k] \in Int
        /\ t[j] \in Int /\ t[k] \in Int
    <3>1. t[k] - t[k - 1] \in Nat /\ t[k] - t[k - 1] <= z[k]
      BY <2>1, TakenGrows
    <3> QED
      BY <2>1, <3>1 DEF Sizes, Costs, Taken
  <2>3. /\ w[k] = w[j] + x * c[k] /\ s[k] = s[j] + z[k] * g
        /\ w[j] \in Int /\ s[j] \in Int /\ w[j] >= p * t[j] - s[j]
    BY <1>2, <2>1 DEF Spent, Saves
  <2>4. g \in Nat /\ p - c[k] <= g
    BY <2>2 DEF GreaterOf
  <2> DEFINE xc == x * c[k]
             xp == p * x
             zg == z[k] * g
             pt == p * t[j]
  <2>5. xp - xc <= zg
    <3> DEFINE cost == c[k]
               size == z[k]
    <3>1. /\ x \in Nat /\ size \in Nat /\ x <= size /\ g \in Nat
          /\ cost \in Int /\ p - cost <= g
      BY <2>2, <2>4
    <3> HIDE DEF cost, size, x, g
    <3>2. p * x - x * cost = x * (p - cost)
      BY <3>1
    <3>3. x * (p - cost) <= x * g
      BY <3>1
    <3>4. x * g <= size * g
      BY <3>1
    <3>5. x * (p - cost) \in Int /\ x * g \in Int /\ size * g \in Int
      BY <3>1
    <3>6. x * (p - cost) <= size * g
      BY <3>3, <3>4, <3>5
    <3> QED
      BY <3>2, <3>6 DEF cost, size
  <2>6. xc \in Int /\ xp \in Int /\ zg \in Int /\ pt \in Int
    BY <2>2, <2>4
  <2>7. p * t[k] = pt + xp
    BY <2>2
  <2> HIDE DEF x, xc, xp, zg, pt, g
  <2>8. w[k] = w[j] + xc /\ s[k] = s[j] + zg /\ w[j] >= pt - s[j]
    BY <2>3 DEF xc, zg, pt
  <2>9. w[k] >= p * t[k] - s[k]
    BY <2>3, <2>5, <2>6, <2>7, <2>8
  <2> QED
    BY <2>1, <2>9 DEF k
<1> HIDE DEF P
<1>3. \A k \in 0..n : k \in P
  BY <1>1, <1>2, InductionUpTo
<1> QED
  BY <1>3 DEF P

\* What is got at costs between two bounds costs between them.
LEMMA SpentBetween ==
  ASSUME NEW n \in Nat, NEW q \in Nat, NEW z, Sizes(n, z), NEW c, Costs(n, c),
         NEW t, Taken(n, q, z, t), NEW w, Spent(n, c, t, w),
         NEW low \in Int, NEW high \in Int,
         \A k \in 1..n : low <= c[k] /\ c[k] <= high
  PROVE  \A k \in 0..n : low * t[k] <= w[k] /\ w[k] <= high * t[k]
<1> DEFINE P == {k \in 0..n : low * t[k] <= w[k] /\ w[k] <= high * t[k]}
<1>1. 0 \in P
  BY DEF Taken, Spent
<1>2. ASSUME NEW j \in 0..n, j < n, j \in P PROVE j + 1 \in P
  <2> DEFINE k == j + 1
             x == t[k] - t[j]
             cost == c[k]
  <2>1. k \in 1..n /\ k \in 0..n /\ k - 1 = j
    BY <1>2
  <2> HIDE DEF k
  <2>2. x \in Nat /\ t[j] \in Int /\ t[k] \in Int
    <3>1. t[k] - t[k - 1] \in Nat
      BY <2>1, TakenGrows
    <3> QED
      BY <2>1, <3>1 DEF Taken
  <2>3. /\ w[k] = w[j] + x * cost /\ w[j] \in Int
        /\ low * t[j] <= w[j] /\ w[j] <= high * t[j]
        /\ cost \in Int /\ low <= cost /\ cost <= high
    BY <1>2, <2>1 DEF Spent, Costs
  <2>4. low * t[k] = low * t[j] + low * x /\ high * t[k] = high * t[j] + high * x
    BY <2>2
  <2> HIDE DEF x, cost
  <2>5. low * x <= x * cost /\ x * cost <= high * x
    BY <2>2, <2>3
  <2> DEFINE lt == low * t[j]
             ht == high * t[j]
             lx == low * x
             hx == high * x
             xc == x * cost
  <2>6. lt \in Int /\ ht \in Int /\ lx \in Int /\ hx \in Int /\ xc \in Int
    BY <2>2, <2>3
  <2>7. /\ low * t[k] = lt + lx /\ high * t[k] = ht + hx /\ w[k] = w[j] + xc
        /\ lt <= w[j] /\ w[j] <= ht /\ lx <= xc /\ xc <= hx
    BY <2>3, <2>4, <2>5
  <2> HIDE DEF lt, ht, lx, hx, xc
  <2>8. low * t[k] <= w[k] /\ w[k] <= high * t[k]
    BY <2>3, <2>6, <2>7
  <2> QED
    BY <2>1, <2>8 DEF k
<1> HIDE DEF P
<1>3. \A k \in 0..n : k \in P
  BY <1>1, <1>2, InductionUpTo
<1> QED
  BY <1>3 DEF P

\* At the cost of the last level that is taken from, it is no more than that.
LEMMA SpentExactly ==
  ASSUME NEW n \in Nat, NEW q \in Nat, NEW z, Sizes(n, z), NEW c, Costs(n, c),
         \A i \in 1..n : \A k \in 1..n : i < k => c[i] <= c[k],
         NEW t, Taken(n, q, z, t), NEW w, Spent(n, c, t, w), t[n] > 0
  PROVE  \E l \in 1..n : \A s : Saves(n, c, z, c[l], s) => w[n] = c[l] * t[n] - s[n]
<1> DEFINE Full == {k \in 0..n : t[k] = t[n]}
           l == Min(Full)
<1>1. \A k \in 0..n : t[k] \in Nat /\ t[k] <= q
  BY TakenGrows
<1>2. l \in Full /\ \A k \in Full : l <= k
  <2>1. n \in Full
    OBVIOUS
  <2>2. IsFiniteSet(0..n)
    BY FS_Interval
  <2>3. Full \in SUBSET (0..n)
    OBVIOUS
  <2> HIDE DEF Full
  <2>4. IsFiniteSet(Full)
    BY <2>2, <2>3, FS_Subset
  <2>5. Full \subseteq Int /\ Full # {}
    BY <2>1, <2>3
  <2> QED
    BY <2>4, <2>5, MaxMin
<1>3. l \in 0..n /\ t[l] = t[n] /\ \A k \in 0..n : t[k] = t[n] => l <= k
  BY <1>2
<1> HIDE DEF l, Full
<1>4. l \in 1..n
  <2>1. t[0] = 0
    BY DEF Taken
  <2>2. l # 0
    BY <1>3, <2>1
  <2> QED
    BY <1>3, <2>2
<1>5. ASSUME NEW j \in 0..n, j < n
      PROVE  /\ t[j] <= t[j + 1]
             /\ t[j + 1] < q => t[j + 1] - t[j] = z[j + 1]
  <2> DEFINE k == j + 1
  <2>1. k \in 1..n /\ k - 1 = j /\ k \in 0..n
    BY <1>5
  <2> HIDE DEF k
  <2>2. /\ t[k] - t[k - 1] \in Nat
        /\ t[k] < q => t[k] - t[k - 1] = z[k]
    BY <2>1, TakenGrows
  <2>3. t[j] \in Nat /\ t[k] \in Nat
    BY <1>1, <2>1
  <2> QED
    BY <2>1, <2>2, <2>3 DEF k
<1>6. \A k \in 0..n : t[k] <= t[n]
  <2> DEFINE P == {i \in 0..n : t[n - i] <= t[n]}
  <2>1. 0 \in P
    BY <1>1
  <2>2. ASSUME NEW i \in 0..n, i < n, i \in P PROVE i + 1 \in P
    <3> DEFINE j == n - (i + 1)
    <3>1. j \in 0..n /\ j < n /\ j + 1 = n - i /\ j + 1 \in 0..n /\ i + 1 \in 0..n /\ n \in 0..n
      BY <2>2
    <3> HIDE DEF j
    <3>2. t[j] <= t[j + 1] /\ t[j] \in Int /\ t[j + 1] \in Int /\ t[n] \in Int
      BY <1>1, <1>5, <3>1
    <3>3. t[j + 1] <= t[n]
      BY <2>2, <3>1
    <3> QED
      BY <3>1, <3>2, <3>3 DEF j
  <2> HIDE DEF P
  <2>3. \A i \in 0..n : i \in P
    BY <2>1, <2>2, InductionUpTo
  <2> TAKE k \in 0..n
  <2>4. n - k \in 0..n /\ n - (n - k) = k
    OBVIOUS
  <2> QED
    BY <2>3, <2>4 DEF P
<1>7. \A k \in 0..n : l <= k => t[k] = t[n]
  <2> DEFINE P == {k \in 0..n : l <= k => t[k] = t[n]}
  <2>1. 0 \in P
    BY <1>4
  <2>2. ASSUME NEW j \in 0..n, j < n, j \in P PROVE j + 1 \in P
    <3>1. j + 1 \in 0..n /\ n \in 0..n
      BY <2>2
    <3>2. t[j] <= t[j + 1] /\ t[j + 1] <= t[n] /\ t[j] \in Int /\ t[j + 1] \in Int
          /\ t[n] \in Int
      BY <1>1, <1>5, <1>6, <2>2, <3>1
    <3>3. CASE l <= j
      BY <2>2, <3>1, <3>2, <3>3
    <3>4. CASE l = j + 1
      BY <1>3, <3>1, <3>4
    <3>5. l \in Int /\ j \in Int
      BY <1>4
    <3>6. CASE ~(l <= j + 1)
      BY <3>1, <3>6
    <3>7. l <= j \/ l = j + 1 \/ ~(l <= j + 1)
      BY <3>5
    <3> QED
      BY <3>3, <3>4, <3>6, <3>7
  <2> HIDE DEF P
  <2>3. \A k \in 0..n : k \in P
    BY <2>1, <2>2, InductionUpTo
  <2> QED
    BY <2>3 DEF P
<1>8. ASSUME NEW s, Saves(n, c, z, c[l], s) PROVE w[n] = c[l] * t[n] - s[n]
  <2> DEFINE p == c[l]
             P == {k \in 0..n : w[k] = p * t[k] - s[k]}
  <2>0. p \in Int
    BY <1>4 DEF Costs
  <2>1. 0 \in P
    <3>1. w[0] = 0 /\ t[0] = 0 /\ s[0] = 0
      BY <1>8 DEF Taken, Spent, Saves
    <3> HIDE DEF p
    <3> QED
      BY <2>0, <3>1
  <2>2. ASSUME NEW j \in 0..n, j < n, j \in P PROVE j + 1 \in P
    <3> DEFINE k == j + 1
               x == t[k] - t[j]
               cost == c[k]
               size == z[k]
               g == GreaterOf(p - cost, 0)
    <3>1. k \in 1..n /\ k \in 0..n /\ k - 1 = j /\ n \in 0..n
      BY <2>2
    <3> HIDE DEF k
    <3>2. /\ w[k] = w[j] + x * cost /\ s[k] = s[j] + size * g
          /\ w[j] = p * t[j] - s[j] /\ w[j] \in Int /\ s[j] \in Int
          /\ t[j] \in Int /\ t[k] \in Int /\ cost \in Int /\ size \in Nat
      BY <1>8, <2>2, <3>1 DEF Spent, Saves, Taken, Costs, Sizes
    <3>3. p * t[k] = p * t[j] + p * x
      <4> HIDE DEF p
      <4> QED
        BY <2>0, <3>2
    <3>4. x * cost = p * x - size * g
      <4>1. CASE k < l
        <5>1. t[k] # t[n]
          BY <1>3, <1>4, <3>1, <4>1
        <5>2. t[k] <= t[n] /\ t[n] <= q /\ t[k] \in Nat /\ t[n] \in Nat
          BY <1>1, <1>6, <3>1
        <5>3. t[k] < q
          BY <5>1, <5>2
        <5>4. x = size
          BY <1>5, <2>2, <5>3 DEF k
        <5>5. cost <= p
          BY <1>4, <3>1, <4>1
        <5>6. g = p - cost
          BY <2>0, <3>2, <5>5 DEF GreaterOf
        <5> HIDE DEF p, g, size, cost, x
        <5> QED
          BY <2>0, <3>2, <5>4, <5>6
      <4>2. CASE k = l
        <5>1. cost = p
          BY <4>2
        <5>2. g = 0
          BY <2>0, <5>1 DEF GreaterOf
        <5>3. x \in Int
          BY <3>2
        <5> HIDE DEF p, g, size, cost, x
        <5> QED
          BY <2>0, <3>2, <5>1, <5>2, <5>3
      <4>3. CASE l < k
        <5>1. t[k] = t[n] /\ t[j] = t[n]
          BY <1>4, <1>7, <3>1, <4>3
        <5>2. x = 0
          BY <1>1, <3>1, <5>1
        <5>3. p <= cost
          BY <1>4, <3>1, <4>3
        <5>4. g = 0
          BY <2>0, <3>2, <5>3 DEF GreaterOf
        <5> HIDE DEF p, g, size, cost, x
        <5> QED
          BY <2>0, <3>2, <5>2, <5>4
      <4> QED
        BY <1>4, <3>1, <4>1, <4>2, <4>3
    <3> DEFINE pt == p * t[j]
               px == p * x
               xc == x * cost
               zg == size * g
    <3>5. pt \in Int /\ px \in Int /\ xc \in Int /\ zg \in Int
      <4>1. g \in Int /\ x \in Int
        BY <2>0, <3>2 DEF GreaterOf
      <4> HIDE DEF p, g, size, cost, x
      <4> QED
        BY <2>0, <3>2, <4>1
    <3>6. /\ w[k] = w[j] + xc /\ s[k] = s[j] + zg /\ w[j] = pt - s[j]
          /\ p * t[k] = pt + px /\ xc = px - zg
      BY <3>2, <3>3, <3>4
    <3> HIDE DEF pt, px, xc, zg, p
    <3>7. w[k] = p * t[k] - s[k]
      BY <3>2, <3>5, <3>6
    <3> QED
      BY <3>1, <3>7 DEF k
  <2> HIDE DEF P
  <2>3. \A k \in 0..n : k \in P
    BY <2>1, <2>2, InductionUpTo
  <2> QED
    BY <2>3 DEF P
<1> QED
  BY <1>4, <1>8

\* The share of an amount that goes with a part of a quantity.
LEMMA ShareOf ==
  ASSUME NEW x \in Int, NEW t \in Nat \ {0}, NEW got \in Nat, got <= t,
         NEW p \in Int, NEW s \in Nat
  PROVE  /\ (x * got) \div t \in Int
         /\ x >= p * t - s => (x * got) \div t >= p * got - s
         /\ x <= p * t + s => (x * got) \div t <= p * got + s
         /\ got = t => (x * got) \div t = x
<1> DEFINE xg == x * got
           v == xg \div t
           pg == p * got
           st == s * t
           sg == s * got
           pgt == (p * got) * t
<1>1. xg \in Int /\ pg \in Int /\ st \in Int /\ sg \in Int /\ pgt \in Int
  OBVIOUS
<1>2. sg <= st
  OBVIOUS
<1>3. v \in Int /\ v * t <= xg /\ \A k \in Int : k * t <= xg => k * t <= v * t
  <2> HIDE DEF xg
  <2>1. v \in Int
    BY <1>1, DivMod
  <2> DEFINE y == v * t
  <2>2. y = (xg \div t) * t
    OBVIOUS
  <2> HIDE DEF y
  <2>3. y <= xg /\ \A k \in Int : k * t <= xg => k * t <= y
    BY <1>1, <2>2, MultipleBelow
  <2> QED
    BY <2>1, <2>3 DEF y
<1>4. \A k \in Int : \A m \in Int : k * t <= m * t => k <= m
  <2> TAKE k \in Int
  <2> TAKE m \in Int
  <2>1. \A d \in Int : d >= 1 => d * t >= t
    OBVIOUS
  <2>2. (k - m) * t = k * t - m * t /\ k - m \in Int /\ k * t \in Int /\ m * t \in Int
    OBVIOUS
  <2> QED
    BY <2>1, <2>2
<1> HIDE DEF v
<1>5. x >= p * t - s => v >= pg - s
  <2> SUFFICES ASSUME x >= p * t - s PROVE v >= pg - s
    OBVIOUS
  <2> DEFINE k == pg - s
             y == p * t - s
  <2>1. k \in Int /\ y \in Int
    OBVIOUS
  <2>2. k * t = pgt - st
    OBVIOUS
  <2>3. y * got = pgt - sg
    OBVIOUS
  <2>4. y * got <= xg
    <3> HIDE DEF y
    <3> QED
      BY <2>1 DEF y
  <2> HIDE DEF y
  <2>5. y * got \in Int
    BY <2>1
  <2> HIDE DEF xg, pg, st, sg, pgt
  <2>6. pgt - st <= xg
    BY <1>1, <1>2, <2>3, <2>4
  <2> HIDE DEF k
  <2>7. k * t <= v * t
    BY <1>3, <2>1, <2>2, <2>6
  <2>8. k <= v
    BY <1>3, <1>4, <2>1, <2>7
  <2> QED
    BY <1>1, <1>3, <2>1, <2>8 DEF k
<1>6. x <= p * t + s => v <= pg + s
  <2> SUFFICES ASSUME x <= p * t + s PROVE v <= pg + s
    OBVIOUS
  <2> DEFINE k == pg + s
             y == p * t + s
  <2>1. k \in Int /\ y \in Int
    OBVIOUS
  <2>2. k * t = pgt + st
    OBVIOUS
  <2>3. y * got = pgt + sg
    OBVIOUS
  <2>4. xg <= y * got
    <3> HIDE DEF y
    <3> QED
      BY <2>1 DEF y
  <2> HIDE DEF y
  <2>5. y * got \in Int
    BY <2>1
  <2> HIDE DEF xg, pg, st, sg, pgt
  <2>6. xg <= pgt + st
    BY <1>1, <1>2, <2>3, <2>4
  <2> HIDE DEF k
  <2>7. v * t <= k * t
    <3>1. v * t \in Int
      BY <1>3
    <3> QED
      BY <1>1, <1>3, <2>2, <2>6, <3>1
  <2>8. v <= k
    BY <1>3, <1>4, <2>1, <2>7
  <2> QED
    BY <1>1, <1>3, <2>1, <2>8 DEF k
<1>7. got = t => v = x
  BY Multiple DEF v
<1> QED
  BY <1>3, <1>5, <1>6, <1>7 DEF v, xg, pg

\* What is charged lies between what was swept and the limit.
LEMMA ChargedBetween ==
  ASSUME NEW order, NEW swept, NEW bps \in Nat,
         order.limit \in 1..(Dollar - 1), swept.taken \in Nat, swept.value \in Int,
         IF order.side = "buy"
           THEN 0 <= swept.value /\ swept.value <= swept.taken * order.limit
           ELSE swept.taken * order.limit <= swept.value
  PROVE  /\ Charged(order, swept, bps) \in Int
         /\ IF order.side = "buy"
              THEN /\ swept.value <= Charged(order, swept, bps)
                   /\ Charged(order, swept, bps) <= swept.taken * order.limit
              ELSE /\ Charged(order, swept, bps) <= swept.value
                   /\ swept.taken * order.limit <= Charged(order, swept, bps)
         /\ bps = 0 => Charged(order, swept, bps) = swept.value
<1> DEFINE limit == order.limit
           taken == swept.taken
           value == swept.value
           D == Dollar
           worse == Worsened(value, order.side, bps)
           most == taken * (D - 1)
           atLimit == taken * limit
           slipped == IF bps = 0 THEN value
                      ELSE LesserOf(GreaterOf(worse, taken), most)
<1>1. D = 10000 /\ D \in Nat \ {0} /\ limit \in Int /\ 1 <= limit /\ limit <= D - 1
  <2>1. limit \in 1..(D - 1)
    OBVIOUS
  <2>2. D = 10000
    BY ONLY DEF Dollar
  <2> HIDE DEF limit, D
  <2> QED
    BY ONLY <2>1, <2>2
<1>2. taken \in Nat /\ value \in Int
  OBVIOUS
<1>3. Charged(order, swept, bps) = IF order.side = "buy" THEN LesserOf(slipped, atLimit)
                                                         ELSE GreaterOf(slipped, atLimit)
  BY DEF Charged
<1> HIDE DEF taken, value, limit, D, worse
<1>4. /\ most \in Int /\ atLimit \in Int
      /\ taken <= atLimit /\ atLimit <= most
  <2>1. most \in Int /\ atLimit \in Int
    BY <1>1, <1>2
  <2>2. taken * 1 <= taken * limit
    BY <1>1, <1>2
  <2>3. taken * limit <= taken * (D - 1)
    BY <1>1, <1>2
  <2> QED
    BY <1>2, <2>1, <2>2, <2>3
<1> HIDE DEF most
<1>5. CASE order.side = "buy"
  <2>1. 0 <= value /\ value <= atLimit
    BY <1>5 DEF value, taken, limit
  <2> HIDE DEF atLimit
  <2>2. worse \in Int /\ value <= worse
    <3> DEFINE all == value * (D + bps)
               y == (all \div D) * D
    <3>1. all \in Int /\ all >= value * D
      <4>1. all = value * D + value * bps /\ value * bps >= 0 /\ value * bps \in Int
        BY <1>1, <1>2, <2>1
      <4> QED
        BY <1>1, <1>2, <4>1
    <3>2. worse = all \div D
      BY <1>5 DEF worse, Worsened, D
    <3> HIDE DEF all
    <3>3. all \div D \in Int
      BY <1>1, <3>1, DivMod
    <3>4. y = (all \div D) * D
      OBVIOUS
    <3> HIDE DEF y
    <3>5. value * D <= y
      BY <1>1, <1>2, <3>1, <3>4, MultipleBelow
    <3>6. value * D <= worse * D
      BY <3>2, <3>4, <3>5
    <3> QED
      BY <1>1, <1>2, <3>2, <3>3, <3>6
  <2>3. slipped \in Int /\ value <= slipped /\ (bps = 0 => slipped = value)
    BY <1>2, <1>4, <2>1, <2>2 DEF LesserOf, GreaterOf
  <2> HIDE DEF slipped
  <2>4. LET ch == LesserOf(slipped, atLimit)
        IN  ch \in Int /\ value <= ch /\ ch <= atLimit /\ (bps = 0 => ch = value)
    BY <1>2, <1>4, <2>1, <2>3 DEF LesserOf
  <2> QED
    BY <1>3, <1>5, <2>4 DEF atLimit, value, taken, limit
<1>6. CASE order.side # "buy"
  <2>1. atLimit <= value
    BY <1>6 DEF value, taken, limit
  <2> HIDE DEF atLimit
  <2>2. worse \in Int /\ worse <= value
    <3> DEFINE all == value * (D - bps)
               y == ((all + D - 1) \div D) * D
    <3>1. all \in Int /\ all <= value * D
      <4>0. 0 <= value
        BY <1>2, <1>4, <2>1
      <4>1. all = value * D - value * bps /\ value * bps >= 0 /\ value * bps \in Int
        BY <1>1, <1>2, <4>0
      <4> QED
        BY <1>1, <1>2, <4>1
    <3>2. worse = (all + D - 1) \div D
      BY <1>6 DEF worse, Worsened, D
    <3> HIDE DEF all
    <3> DEFINE up == all + D - 1
    <3>3. up \in Int /\ worse = up \div D
      BY <1>1, <3>1, <3>2
    <3> HIDE DEF up
    <3>4. worse \in Int
      BY <1>1, <3>3, DivMod
    <3>5. y = ((all + D - 1) \div D) * D
      OBVIOUS
    <3> HIDE DEF y
    <3>6. y <= value * D
      BY <1>1, <1>2, <3>1, <3>5, MultipleAbove
    <3>7. worse * D <= value * D
      BY <3>2, <3>5, <3>6
    <3> QED
      BY <1>1, <1>2, <3>4, <3>7
  <2>3. slipped \in Int /\ slipped <= value /\ (bps = 0 => slipped = value)
    BY <1>2, <1>4, <2>1, <2>2 DEF LesserOf, GreaterOf
  <2> HIDE DEF slipped
  <2>4. LET ch == GreaterOf(slipped, atLimit)
        IN  ch \in Int /\ ch <= value /\ atLimit <= ch /\ (bps = 0 => ch = value)
    BY <1>2, <1>4, <2>1, <2>3 DEF GreaterOf
  <2> QED
    BY <1>3, <1>6, <2>4 DEF atLimit, value, taken, limit
<1> QED
  BY <1>5, <1>6

\* A sale is a purchase at negative costs.
Signed(side, x) == IF side = "buy" THEN x ELSE -x

SizesOf(best) == [k \in 1..Len(best) |-> best[k].size]

CostsOf(side, best) == [k \in 1..Len(best) |-> Signed(side, best[k].price)]

LEMMA SweptLevels ==
  ASSUME NEW wire, IsWire(wire), wire # None, NEW side, NEW limit \in Int, NEW q \in Nat,
         NEW best, best = TakingSide(BookOf(wire), side),
         NEW swept, swept = Sweep(BookOf(wire), side, q, limit)
  PROVE  \E r \in 0..Len(best) : \E t : \E w :
           /\ \A n \in 1..r : Within(side, best[n].price, limit)
           /\ r < Len(best) => ~Within(side, best[r + 1].price, limit)
           /\ Sizes(r, SizesOf(best)) /\ Costs(r, CostsOf(side, best))
           /\ Taken(r, q, SizesOf(best), t) /\ Spent(r, CostsOf(side, best), t, w)
           /\ swept.taken = t[r] /\ swept.value = Signed(side, w[r])
<1> DEFINE book == BookOf(wire)
           levels == Reachable(book, side, limit)
           z == SizesOf(best)
           c == CostsOf(side, best)
<1>1. /\ best \in Seq(Levels)
      /\ \A n \in 1..Len(best) : /\ best[n].price \in 1..(Dollar - 1)
                                 /\ best[n].size \in Nat \ {0}
  BY BookFacts
<1>2. best = TakingSide(book, side) /\ swept = Sweep(book, side, q, limit)
  OBVIOUS
<1> HIDE DEF book, levels
<1>3. PICK r \in 0..Len(best) :
        /\ levels \in Seq(Levels) /\ Len(levels) = r
        /\ \A n \in 1..r : levels[n] = best[n] /\ Within(side, best[n].price, limit)
        /\ r < Len(best) => ~Within(side, best[r + 1].price, limit)
  <2>1. levels = Reachable(book, side, limit)
    BY DEF levels
  <2>2. PICK r \in 0..Len(best) :
          /\ Reachable(book, side, limit) \in Seq(Levels)
          /\ Len(Reachable(book, side, limit)) = r
          /\ \A n \in 1..r : /\ Reachable(book, side, limit)[n] = best[n]
                             /\ Within(side, best[n].price, limit)
          /\ r < Len(best) => ~Within(side, best[r + 1].price, limit)
    <3>1. best \in Seq(Levels)
      BY <1>1
    <3>2. best = TakingSide(book, side)
      BY <1>2
    <3> HIDE DEF z, c
    <3> QED
      BY SMTT(30), <3>1, <3>2, ReachableLevels
  <2> QED
    BY <2>1, <2>2, Zenon
<1>4. PICK a \in [0..r -> Sweeps] :
        /\ a[0] = [taken |-> 0, value |-> 0] /\ swept = a[r]
        /\ \A k \in 1..r : a[k] = Taking(q, a[k - 1], levels[k])
  <2>1. PICK a \in [0..Len(levels) -> Sweeps] :
           /\ a[0] = [taken |-> 0, value |-> 0]
           /\ Sweep(book, side, q, limit) = a[Len(levels)]
           /\ \A k \in 1..Len(levels) : a[k] = Taking(q, a[k - 1], levels[k])
    <3>1. levels \in Seq(Levels)
      BY <1>3
    <3>2. levels = Reachable(book, side, limit)
      BY DEF levels
    <3>3. q \in Int
      OBVIOUS
    <3> HIDE DEF z, c
    <3>4. SweptFrom(levels, q, Sweep(book, side, q, limit))
      BY <3>1, <3>2, <3>3, SweepByLevels
    <3> QED
      BY <3>4 DEF SweptFrom
  <2>2. /\ a \in [0..r -> Sweeps] /\ a[0] = [taken |-> 0, value |-> 0] /\ swept = a[r]
        /\ \A k \in 1..r : a[k] = Taking(q, a[k - 1], levels[k])
    BY <1>2, <1>3, <2>1
  <2> QED
    BY <2>2
<1> DEFINE t == [k \in 0..r |-> a[k].taken]
           w == [k \in 0..r |-> Signed(side, a[k].value)]
<1>5. /\ r \in Nat /\ Len(best) \in Nat
      /\ \A k \in 1..r : /\ k \in 1..Len(best) /\ z[k] = best[k].size
                         /\ c[k] = Signed(side, best[k].price)
  BY <1>1, <1>3 DEF SizesOf, CostsOf
<1>6. \A k \in 1..r : z[k] \in Nat /\ best[k].price \in Int /\ c[k] \in Int
  <2> TAKE k \in 1..r
  <2>1. best[k].size \in Nat \ {0} /\ best[k].price \in 1..(Dollar - 1)
    BY <1>1, <1>5
  <2>2. best[k].price \in Int
    <3> DEFINE p == best[k].price
    <3>1. p \in 1..(Dollar - 1)
      BY <2>1
    <3> HIDE DEF p
    <3>2. p \in Int
      BY ONLY <3>1 DEF Dollar
    <3> QED
      BY <3>2 DEF p
  <2> QED
    BY <1>5, <2>1, <2>2 DEF Signed
<1>7. \A k \in 0..r : /\ a[k].taken \in Int /\ a[k].value \in Int
                      /\ t[k] = a[k].taken /\ w[k] = Signed(side, a[k].value)
  BY <1>4 DEF Sweeps
<1> HIDE DEF t, w, z, c
<1>8. Taken(r, q, z, t) /\ Spent(r, c, t, w)
  <2>1. t[0] = 0 /\ w[0] = 0
    <3>1. a[0].taken = 0 /\ a[0].value = 0 /\ 0 \in 0..r
      BY <1>4, <1>5
    <3> QED
      BY <1>7, <3>1 DEF Signed
  <2>2. \A k \in 0..r : t[k] \in Int /\ w[k] \in Int
    BY SMTT(30), <1>7 DEF Signed
  <2>3. ASSUME NEW k \in 1..r
        PROVE  /\ t[k] = t[k - 1] + LesserOf(q - t[k - 1], z[k])
               /\ w[k] = w[k - 1] + (t[k] - t[k - 1]) * c[k]
    <3> DEFINE so == a[k - 1]
               size == LesserOf(q - so.taken, z[k])
               price == best[k].price
    <3>1. k \in 0..r /\ k - 1 \in 0..r
      BY <1>5
    <3>2. /\ a[k].taken = so.taken + size
          /\ a[k].value = so.value + size * price
      <4>1. a[k] = Taking(q, so, best[k]) /\ z[k] = best[k].size
        BY <1>3, <1>4, <1>5
      <4> QED
        BY <4>1 DEF Taking
    <3>3. size \in Int /\ price \in Int
      <4>1. so.taken \in Int /\ z[k] \in Int /\ q \in Int
        BY <1>6, <1>7, <3>1
      <4>2. size \in Int
        <5> HIDE DEF so
        <5> QED
          BY ONLY <4>1 DEF LesserOf
      <4> QED
        BY <1>6, <4>2
    <3>4. /\ so.taken \in Int /\ so.value \in Int
          /\ t[k - 1] = so.taken /\ w[k - 1] = Signed(side, so.value)
          /\ t[k] = a[k].taken /\ w[k] = Signed(side, a[k].value)
      BY <1>7, <3>1
    <3>5. t[k] = t[k - 1] + LesserOf(q - t[k - 1], z[k])
      BY <3>2, <3>4
    <3> HIDE DEF size, price, so
    <3>6. t[k] - t[k - 1] = size
      BY <3>2, <3>3, <3>4
    <3>7. c[k] = Signed(side, price)
      BY <1>5 DEF price
    <3>8. Signed(side, so.value + size * price) = Signed(side, so.value) + size * Signed(side, price)
      BY <3>3, <3>4 DEF Signed
    <3> QED
      BY <3>2, <3>4, <3>5, <3>6, <3>7, <3>8
  <2> QED
    BY <2>1, <2>2, <2>3 DEF Taken, Spent
<1>9. Sizes(r, z) /\ Costs(r, c)
  BY <1>6 DEF Sizes, Costs
<1>10. swept.taken = t[r] /\ swept.value = Signed(side, w[r])
  <2>1. r \in 0..r
    BY <1>5
  <2>2. /\ a[r].value \in Int /\ t[r] = a[r].taken /\ w[r] = Signed(side, a[r].value)
    BY <1>7, <2>1
  <2> QED
    BY <1>4, <2>2 DEF Signed
<1>11. /\ \A n \in 1..r : Within(side, best[n].price, limit)
       /\ r < Len(best) => ~Within(side, best[r + 1].price, limit)
  BY <1>3
<1> QED
  BY <1>8, <1>9, <1>10, <1>11, Zenon DEF z, c

\* What was swept within a limit: no more than was asked for, at no worse than it.
LEMMA SweptWithin ==
  ASSUME NEW wire, IsWire(wire), wire # None, NEW side,
         NEW limit, limit \in 1..(Dollar - 1),
         NEW q \in Nat, NEW swept, swept = Sweep(BookOf(wire), side, q, limit)
  PROVE  /\ swept.taken \in Nat /\ swept.taken <= q /\ swept.value \in Int
         /\ IF side = "buy" THEN 0 <= swept.value /\ swept.value <= swept.taken * limit
                            ELSE swept.taken * limit <= swept.value
<1> DEFINE best == TakingSide(BookOf(wire), side)
           z == SizesOf(best)
           c == CostsOf(side, best)
<1>1. /\ best \in Seq(Levels)
      /\ \A n \in 1..Len(best) : best[n].price \in 1..(Dollar - 1)
  BY BookFacts
<1>2. limit \in Int /\ 1 <= limit
  BY DEF Dollar
<1>3. PICK r \in 0..Len(best) : \E t : \E w :
           /\ \A n \in 1..r : Within(side, best[n].price, limit)
           /\ Sizes(r, z) /\ Costs(r, c)
           /\ Taken(r, q, z, t) /\ Spent(r, c, t, w)
           /\ swept.taken = t[r] /\ swept.value = Signed(side, w[r])
  <2>1. best = TakingSide(BookOf(wire), side)
    OBVIOUS
  <2> HIDE DEF best
  <2> QED
    BY <1>2, <2>1, SweptLevels
<1>0. PICK t, w :
           /\ Sizes(r, z) /\ Costs(r, c)
           /\ Taken(r, q, z, t) /\ Spent(r, c, t, w)
           /\ \A n \in 1..r : Within(side, best[n].price, limit)
           /\ swept.taken = t[r] /\ swept.value = Signed(side, w[r])
  BY <1>3
<1>4. /\ r \in Nat /\ r \in 0..r /\ Len(best) \in Nat
      /\ \A k \in 1..r : k \in 1..Len(best) /\ c[k] = Signed(side, best[k].price)
  BY <1>1, <1>3 DEF CostsOf
<1>5. \A k \in 1..r : best[k].price \in Int /\ 1 <= best[k].price
  <2> TAKE k \in 1..r
  <2> DEFINE p == best[k].price
  <2>1. p \in 1..(Dollar - 1)
    BY <1>1, <1>4
  <2> HIDE DEF p
  <2>2. p \in Int /\ 1 <= p
    BY ONLY <2>1 DEF Dollar
  <2> QED
    BY <2>2 DEF p
<1> HIDE DEF best, z, c
<1>6. t[r] \in Nat /\ t[r] <= q /\ w[r] \in Int
  <2>1. \A k \in 0..r : t[k] \in Nat /\ t[k] <= q
    BY <1>0, <1>4, TakenGrows
  <2>2. \A k \in 0..r : w[k] \in Int
    BY <1>0 DEF Spent
  <2> QED
    BY <1>4, <2>1, <2>2
<1>7. CASE side = "buy"
  <2>1. \A k \in 1..r : 1 <= c[k] /\ c[k] <= limit
    BY <1>0, <1>4, <1>5, <1>7 DEF Within, Signed
  <2>2. 1 \in Int
    OBVIOUS
  <2>3. 1 * t[r] <= w[r] /\ w[r] <= limit * t[r]
    BY <1>2, <1>0, <1>4, <2>1, <2>2, SpentBetween
  <2>4. limit * t[r] = t[r] * limit
    BY <1>2, <1>6
  <2> QED
    BY <1>0, <1>6, <1>7, <2>3, <2>4 DEF Signed
<1>8. CASE side # "buy"
  <2> DEFINE high == -limit
             C == {c[k] : k \in 1..r}
  <2>1. PICK low \in Int : \A k \in 1..r : low <= c[k]
    <3>1. IsFiniteSet(1..r)
      BY <1>4, FS_Interval
    <3>2. IsFiniteSet(C)
      <4> DEFINE S == 1..r
      <4>1. IsFiniteSet(S)
        BY <3>1
      <4> HIDE DEF S
      <4>2. IsFiniteSet({c[k] : k \in S})
        BY <4>1, ImageIsFinite
      <4> QED
        BY <4>2 DEF S
    <3>3. \A x \in C : x \in Int
      BY <1>0 DEF Costs
    <3>6. \A k \in 1..r : c[k] \in C
      OBVIOUS
    <3>4. CASE C = {}
      <4>1. \A k \in 1..r : FALSE
        <5> TAKE k \in 1..r
        <5>1. c[k] \in C
          BY <3>6
        <5> HIDE DEF C
        <5> QED
          BY <3>4, <5>1
      <4>2. \A k \in 1..r : 0 <= c[k]
        BY <4>1
      <4> HIDE DEF C
      <4> WITNESS 0 \in Int
      <4> QED
        BY <4>2
    <3>5. CASE C # {}
      <4>1. \A k \in 1..r : c[k] \in C
        BY <3>6
      <4>2. C \subseteq Int
        BY <3>3
      <4> HIDE DEF C
      <4>3. Min(C) \in C /\ \A x \in C : Min(C) <= x
        BY <3>2, <3>5, <4>2, MaxMin
      <4> QED
        BY <3>3, <4>1, <4>3
    <3> QED
      BY <3>4, <3>5
  <2>2. high \in Int
    BY <1>2
  <2>3. \A k \in 1..r : low <= c[k] /\ c[k] <= high
    BY SMTT(30), <1>2, <1>0, <1>4, <1>5, <1>8, <2>1 DEF Within, Signed
  <2> HIDE DEF high
  <2>4. low * t[r] <= w[r] /\ w[r] <= high * t[r]
    BY <1>0, <1>4, <2>1, <2>2, <2>3, SpentBetween
  <2>5. high * t[r] = -(t[r] * limit) /\ t[r] * limit \in Int
    BY <1>2, <1>6 DEF high
  <2> DEFINE tl == t[r] * limit
             ht == high * t[r]
  <2>6. tl <= -w[r]
    <3>1. w[r] <= ht /\ ht = -tl /\ tl \in Int
      BY <2>4, <2>5
    <3> HIDE DEF tl, ht
    <3> QED
      BY <1>6, <3>1
  <2> QED
    BY <1>0, <1>6, <1>8, <2>6 DEF Signed
<1> QED
  BY <1>7, <1>8


\* What a fill is of what was swept.
LEMMA FillFacts ==
  ASSUME NEW wire, IsWire(wire), wire # None, NEW order, NEW params, NEW roll,
         params.slippage \in Nat, roll.quarters \in 0..4,
         order.side \in {"buy", "sell"}, order.limit \in 1..(Dollar - 1),
         order.quantity \in Nat,
         NEW fill, fill = MatchOrder(order, BookOf(wire), params, roll),
         fill.kind = "filled",
         NEW swept,
         swept = Sweep(BookOf(wire), order.side, order.quantity, order.limit),
         NEW charged, charged = Charged(order, swept, params.slippage)
  PROVE  /\ swept.taken \in Nat \ {0} /\ swept.taken <= order.quantity
         /\ fill.quantity \in Nat \ {0} /\ fill.quantity <= swept.taken
         /\ roll.quarters = 4 => fill.quantity = swept.taken
         /\ swept.value \in Int /\ charged \in Int
         /\ IF order.side = "buy"
              THEN swept.value <= charged /\ charged <= swept.taken * order.limit
              ELSE charged <= swept.value /\ swept.taken * order.limit <= charged
         /\ params.slippage = 0 => charged = swept.value
         /\ fill.value = (charged * fill.quantity) \div swept.taken
<1> DEFINE limit == order.limit
           taken == swept.taken
           quarters == roll.quarters
           got == (taken * quarters) \div 4
<1>1. /\ taken \in Nat /\ taken <= order.quantity /\ swept.value \in Int
      /\ IF order.side = "buy"
           THEN 0 <= swept.value /\ swept.value <= taken * limit
           ELSE taken * limit <= swept.value
  <2>1. limit \in 1..(Dollar - 1)
    OBVIOUS
  <2> HIDE DEF limit
  <2>2. swept = Sweep(BookOf(wire), order.side, order.quantity, limit)
    BY DEF limit
  <2> QED
    BY <2>1, <2>2, SweptWithin
<1>2. /\ charged \in Int
      /\ IF order.side = "buy"
           THEN swept.value <= charged /\ charged <= taken * limit
           ELSE charged <= swept.value /\ taken * limit <= charged
      /\ params.slippage = 0 => charged = swept.value
  BY <1>1, ChargedBetween
<1>3. got # 0 /\ fill.quantity = got /\ fill.value = (charged * got) \div taken
  <2>1. fill = IF roll.reject
                 THEN Outcome("rejected")
               ELSE IF ~IsMarketable(order, BookOf(wire))
                 THEN Outcome(IF order.force = "gtc" THEN "resting" ELSE "no_liquidity")
               ELSE IF \/ got = 0
                       \/ /\ taken < order.quantity
                          /\ (order.force = "fok" \/ ~params.partial)
                       \/ quarters < 4 /\ ~params.partial
                 THEN Outcome("no_liquidity")
               ELSE [kind |-> "filled", quantity |-> got,
                     value |-> (charged * got) \div taken]
    BY DEF MatchOrder
  <2> HIDE DEF got, taken, quarters
  <2> QED
    BY <2>1 DEF Outcome
<1>4. quarters \in 0..4
  OBVIOUS
<1> HIDE DEF taken, quarters
<1>5. got \in Nat /\ got <= taken /\ (quarters = 4 => got = taken)
  <2>1. quarters \in {0, 1, 2, 3, 4}
    BY <1>4
  <2> QED
    BY <1>1, <2>1
<1>6. taken # 0
  BY <1>1, <1>3, <1>5
<1> QED
  BY <1>1, <1>2, <1>3, <1>5, <1>6 DEF taken, quarters

LEMMA DealtFacts ==
  ASSUME WorkedOut, Dealt
  PROVE  /\ case.in \in CopyCases
         /\ signal = SignalFor(case.in) /\ signal.refusal = "none"
         /\ Side \in {"buy", "sell"}
         /\ IsWire(result.wire) /\ result.wire # None
         /\ result.dealing.params.slippage \in Nat
         /\ result.dealing.roll.quarters \in 0..4
         /\ result.fill = MatchOrder(OrderFor(case.in, signal, result.dealing),
                                     BookOf(result.wire), result.dealing.params,
                                     result.dealing.roll)
         /\ result.fill.kind = "filled"
<1>1. Done("copy") /\ result.fill.kind = "filled" /\ case.kind = "copy"
  BY DEF Dealt, Done
<1>2. case.in \in CopyCases
  BY <1>1 DEF WorkedOut, InputsOf
<1>3. signal # None /\ signal.refusal = "none" /\ signal = SignalFor(case.in)
  BY <1>1 DEF WorkedOut
<1>4. PICK d \in Dealings, wire \in {case.in.wire} \cup LaterBooks :
        /\ wire # None
        /\ result = [wire |-> wire, dealing |-> d,
                     fill |-> MatchOrder(OrderFor(case.in, signal, d), BookOf(wire),
                                         d.params, d.roll)]
  BY <1>1 DEF WorkedOut
<1>5. IsWire(wire)
  BY <1>2, <1>4, CopyCasesAssumption, DealingsAssumption
<1>6. d.params.slippage \in Nat /\ d.roll.quarters \in 0..4
  BY DealingsAssumption
<1>7. Side \in {"buy", "sell"}
  BY <1>2, CopyCasesAssumption DEF Side
<1> QED
  BY <1>1, <1>2, <1>3, <1>4, <1>5, <1>6, <1>7, Zenon

\* What was swept for a copy that is filled, and what is charged for it.
FilledFrom(swept, charged) ==
  LET fill == result.fill
      limit == signal.limit
  IN  /\ swept = Sweep(BookOf(result.wire), Side, signal.quantity, limit)
      /\ swept.taken \in Nat \ {0} /\ swept.taken <= signal.quantity
      /\ fill.quantity \in Nat \ {0} /\ fill.quantity <= swept.taken
      /\ result.dealing.roll.quarters = 4 => fill.quantity = swept.taken
      /\ swept.value \in Int /\ charged \in Int
      /\ IF Side = "buy"
           THEN swept.value <= charged /\ charged <= swept.taken * limit
           ELSE charged <= swept.value /\ swept.taken * limit <= charged
      /\ result.dealing.params.slippage = 0 => charged = swept.value
      /\ fill.value = (charged * fill.quantity) \div swept.taken

LEMMA DealtFill ==
  ASSUME WorkedOut, Dealt
  PROVE  /\ signal.limit \in 1..(Dollar - 1) /\ signal.quantity \in Nat \ {0}
         /\ \E swept, charged : FilledFrom(swept, charged)
<1> DEFINE limit == signal.limit
           quantity == signal.quantity
           fill == result.fill
           order == OrderFor(case.in, signal, result.dealing)
           params == result.dealing.params
           roll == result.dealing.roll
           wire == result.wire
           swept == Sweep(BookOf(wire), order.side, order.quantity, order.limit)
           charged == Charged(order, swept, params.slippage)
<1>1. /\ case.in \in CopyCases /\ signal = SignalFor(case.in)
      /\ signal.refusal = "none"
  BY DealtFacts
<1>2. limit \in 1..(Dollar - 1) /\ quantity \in Nat \ {0}
  BY <1>1, SignalFacts
<1>3. order.side = Side /\ order.limit = limit /\ order.quantity = quantity
  BY DEF OrderFor, Side
<1>4. /\ IsWire(wire) /\ wire # None
      /\ params.slippage \in Nat /\ roll.quarters \in 0..4
      /\ order.side \in {"buy", "sell"} /\ order.limit \in 1..(Dollar - 1)
      /\ order.quantity \in Nat
      /\ fill = MatchOrder(order, BookOf(wire), params, roll)
      /\ fill.kind = "filled"
  BY <1>2, <1>3, DealtFacts
<1>5. swept = Sweep(BookOf(wire), order.side, order.quantity, order.limit)
  OBVIOUS
<1> HIDE DEF order, params, roll, fill, wire, swept
<1>6. charged = Charged(order, swept, params.slippage)
  OBVIOUS
<1> HIDE DEF charged
<1>7. /\ swept.taken \in Nat \ {0} /\ swept.taken <= order.quantity
      /\ fill.quantity \in Nat \ {0} /\ fill.quantity <= swept.taken
      /\ roll.quarters = 4 => fill.quantity = swept.taken
      /\ swept.value \in Int /\ charged \in Int
      /\ IF order.side = "buy"
           THEN swept.value <= charged /\ charged <= swept.taken * order.limit
           ELSE charged <= swept.value /\ swept.taken * order.limit <= charged
      /\ params.slippage = 0 => charged = swept.value
      /\ fill.value = (charged * fill.quantity) \div swept.taken
  BY <1>4, <1>5, <1>6, FillFacts
<1>8. FilledFrom(swept, charged)
  BY <1>3, <1>5, <1>7, Zenon DEF FilledFrom, fill, params, roll, wire
<1> QED
  BY <1>2, <1>8

\* A copy that is filled trades within its limit, for no more than was sized, and a
\* purchase for no more than any cap, whatever the book has become by then.
THEOREM CopiesAreWithinCaps == Spec => []CopyWithinCaps
<1>1. WorkedOut => CopyWithinCaps
  <2> DEFINE book == BookOf(case.in.wire)
             ctx == CopyContext(case.in.trade, book, case.in.ctx, signal.limit)
             caps == Caps(case.in.wallet, ctx)
             limit == signal.limit
             quantity == signal.quantity
             fill == result.fill
             side == Side
             got == fill.quantity
             value == fill.value
  <2> SUFFICES ASSUME WorkedOut, Dealt
               PROVE  /\ fill.quantity <= quantity
                      /\ Within(side, fill.value, fill.quantity * limit)
                      /\ side = "buy" => \A cap \in caps : fill.value <= cap
    BY Zenon DEF CopyWithinCaps
  <2>1. /\ case.in \in CopyCases /\ signal = SignalFor(case.in)
        /\ signal.refusal = "none"
    BY DealtFacts
  <2>2. /\ limit \in 1..(Dollar - 1) /\ quantity \in Nat \ {0}
        /\ \A cap \in caps : cap \in Int /\ quantity * limit <= cap
    BY <2>1, SignalFacts
  <2>3. PICK swept, charged : FilledFrom(swept, charged)
    BY DealtFill
  <2> DEFINE taken == swept.taken
  <2>4. /\ taken \in Nat \ {0} /\ taken <= quantity
        /\ got \in Nat \ {0} /\ got <= taken
        /\ charged \in Int /\ value = (charged * got) \div taken
        /\ IF side = "buy" THEN charged <= taken * limit ELSE taken * limit <= charged
    BY <2>3 DEF FilledFrom
  <2>5. limit \in Int /\ quantity \in Int /\ 1 <= limit
    <3> HIDE DEF limit, quantity
    <3> QED
      BY ONLY <2>2 DEF Dollar
  <2> HIDE DEF limit, quantity, taken, got, value, side, caps
  <2>6. /\ value \in Int
        /\ IF side = "buy" THEN value <= got * limit ELSE got * limit <= value
    <3> DEFINE tl == taken * limit
    <3>1. limit * taken = taken * limit /\ limit * got = got * limit
          /\ taken * limit \in Int /\ got * limit \in Int
      BY ONLY <2>4, <2>5
    <3>2. /\ value \in Int
          /\ charged >= limit * taken - 0 => value >= limit * got - 0
          /\ charged <= limit * taken + 0 => value <= limit * got + 0
      BY ONLY <2>4, <2>5, ShareOf
    <3> QED
      BY ONLY <2>4, <3>1, <3>2
  <2>7. got <= quantity /\ got * limit <= quantity * limit /\ got * limit \in Int
    <3>1. got <= quantity
      BY ONLY <2>4, <2>5
    <3>2. (quantity - got) * limit >= 0 /\ (quantity - got) * limit = quantity * limit - got * limit
      BY ONLY <2>4, <2>5, <3>1
    <3> QED
      BY ONLY <2>4, <2>5, <3>1, <3>2
  <2>8. Within(side, value, got * limit)
    BY <2>6, <2>7 DEF Within
  <2>9. side = "buy" => \A cap \in caps : value <= cap
    <3> DEFINE gl == got * limit
               ql == quantity * limit
    <3>1. /\ side = "buy" => value <= gl
          /\ gl <= ql /\ gl \in Int /\ ql \in Int /\ value \in Int
          /\ \A cap \in caps : cap \in Int /\ ql <= cap
      BY <2>2, <2>4, <2>5, <2>6, <2>7
    <3> HIDE DEF gl, ql
    <3> QED
      BY ONLY <3>1
  <2> QED
    BY <2>7, <2>8, <2>9 DEF got, value
<1> QED
  BY <1>1, WorkedOutAlways, PTL


(***************************************************************************)
(* The levels of the wire, in the order in which they are taken.           *)
(***************************************************************************)
InOrder(levels, side, best, at) ==
  /\ best \in Seq(Levels) /\ at \in [1..Len(best) -> UsedOf(levels)]
  /\ \A n \in 1..Len(best) : best[n] = levels[at[n]]
  /\ \A i \in UsedOf(levels) : \E n \in 1..Len(best) : at[n] = i
  /\ \A n \in 1..Len(best) : \A k \in 1..Len(best) : at[n] = at[k] => n = k
  /\ \A n \in 1..Len(best) : \A k \in 1..Len(best) :
       n < k => Signed(side, best[n].price) <= Signed(side, best[k].price)

SentFor(wire, side) == IF side = "buy" THEN wire.asks ELSE wire.bids

LEMMA OfferOrder ==
  ASSUME NEW wire, IsWire(wire), wire # None, NEW side \in {"buy", "sell"}
  PROVE  /\ SentFor(wire, side) \in Seq(Levels)
         /\ \E at : InOrder(SentFor(wire, side), side, TakingSide(BookOf(wire), side), at)
<1> DEFINE levels == SentFor(wire, side)
           best == TakingSide(BookOf(wire), side)
           offer == IF side = "buy" THEN "sell" ELSE "buy"
           used == UsedOf(levels)
           m == Cardinality(used)
<1>1. levels \in Seq(Levels)
  BY DEF IsWire, SentFor, Levels
<1>2. best \in Seq(Levels) /\ best = SideBestFirst(levels, offer)
  BY BookFacts DEF SentFor
<1>3. PICK at \in [1..m -> used] : \E rank \in [used -> 1..m] :
        /\ SideBestFirst(levels, offer) = [n \in 1..m |-> levels[at[n]]]
        /\ \A n \in 1..m : rank[at[n]] = n
        /\ \A i \in used : at[rank[i]] = i
        /\ \A n \in 1..m : \A k \in 1..m : n < k => Before(levels, offer, at[n], at[k])
  <2> HIDE DEF levels, offer
  <2> QED
    BY <1>1, BestFirst
<1>4. m \in Nat
  <2> HIDE DEF levels
  <2> QED
    BY <1>1, UsedIsFinite, FS_CardinalityType
<1> HIDE DEF levels, best, m
<1>5. Len(best) = m /\ \A n \in 1..m : best[n] = levels[at[n]]
  BY <1>2, <1>3, <1>4
<1>6. PICK rank \in [used -> 1..m] :
        /\ \A n \in 1..m : rank[at[n]] = n
        /\ \A i \in used : at[rank[i]] = i
  BY <1>3
<1>7. ASSUME NEW n \in 1..m, NEW k \in 1..m, n < k
      PROVE  Signed(side, best[n].price) <= Signed(side, best[k].price)
  <2>1. Before(levels, offer, at[n], at[k])
    BY <1>3, <1>7
  <2>2. best[n] = levels[at[n]] /\ best[k] = levels[at[k]]
    BY <1>5
  <2>3. best[n].price \in Int /\ best[k].price \in Int
    <3>1. best \in Seq(Levels) /\ n \in 1..Len(best) /\ k \in 1..Len(best)
      BY <1>2, <1>5
    <3>2. best[n] \in Levels /\ best[k] \in Levels
      BY ONLY <3>1
    <3> QED
      BY ONLY <3>2 DEF Levels
  <2> DEFINE p == best[n].price
             o == best[k].price
  <2>4. Better(offer, p, o) \/ p = o
    BY <2>1, <2>2 DEF Before
  <2> HIDE DEF p, o
  <2>5. Signed(side, p) <= Signed(side, o)
    BY <2>3, <2>4 DEF Better, Signed, p, o
  <2> QED
    BY <2>5 DEF p, o
<1>8. InOrder(levels, side, best, at)
  BY <1>2, <1>3, <1>5, <1>6, <1>7 DEF InOrder
<1> QED
  BY <1>1, <1>8 DEF levels, best


\* The first r levels are those within the limit.
UpTo(side, best, limit, r) ==
  /\ \A n \in 1..r : Within(side, best[n].price, limit)
  /\ r < Len(best) => ~Within(side, best[r + 1].price, limit)

\* What the whole book has within the limit is what the levels up to it have.
LEMMA OfferedAlong ==
  ASSUME NEW levels \in Seq(Levels), NEW side \in {"buy", "sell"}, NEW best, NEW at,
         InOrder(levels, side, best, at), NEW limit \in Int, NEW r \in 0..Len(best),
         UpTo(side, best, limit, r)
  PROVE  \E a : Totals(r, SizesOf(best), a) /\ a[r] = OnOffer(levels, side, limit)
<1> DEFINE used == UsedOf(levels)
           m == Len(best)
           f == [i \in used |-> levels[i].size]
           a == [k \in 0..r |-> SumFunctionOnSet(f, Placed(at, k))]
           z == SizesOf(best)
           reached == {i \in used : Within(side, levels[i].price, limit)}
           g == [i \in reached |-> levels[i].size]
<1>0. /\ \A n \in 1..r : Within(side, best[n].price, limit)
      /\ r < Len(best) => ~Within(side, best[r + 1].price, limit)
  BY DEF UpTo
<1>1. IsFiniteSet(used) /\ \A i \in used : /\ levels[i].price \in 1..(Dollar - 1)
                                           /\ levels[i].size \in Nat
                                           /\ levels[i] \in Levels
  BY UsedIsFinite
<1>2. /\ best \in Seq(Levels) /\ m \in Nat /\ at \in [1..m -> used]
      /\ \A n \in 1..m : best[n] = levels[at[n]]
      /\ \A i \in used : \E n \in 1..m : at[n] = i
      /\ \A n \in 1..m : \A k \in 1..m : at[n] = at[k] => n = k
      /\ \A n \in 1..m : \A k \in 1..m :
           n < k => Signed(side, best[n].price) <= Signed(side, best[k].price)
  BY DEF InOrder
<1>3. r \in Nat /\ r <= m /\ 0 \in 0..r /\ r \in 0..r /\ 1..r \subseteq 1..m
  BY <1>2
<1>4. \A n \in 1..m : best[n].price \in Int /\ z[n] = best[n].size
  <2> TAKE n \in 1..m
  <2>1. best[n] \in Levels
    BY <1>2
  <2> QED
    BY <1>2, <2>1 DEF Levels, SizesOf
<1>5. reached = Placed(at, r)
  <2>1. ASSUME NEW n \in 1..r PROVE at[n] \in reached
    <3>1. n \in 1..m /\ at[n] \in used /\ best[n] = levels[at[n]]
      BY <1>2, <1>3
    <3> QED
      BY <1>0, <3>1
  <2>2. ASSUME NEW i \in reached PROVE \E n \in 1..r : at[n] = i
    <3>1. PICK n \in 1..m : at[n] = i
      BY <1>2
    <3>2. Within(side, best[n].price, limit)
      BY <1>2, <3>1
    <3>3. CASE n > r
      <4>1. r < m /\ r + 1 \in 1..m
        BY <1>2, <1>3, <3>3
      <4>2. n = r + 1 \/ r + 1 < n
        BY <1>3, <3>3
      <4>3. ~Within(side, best[r + 1].price, limit)
        BY <1>0, <4>1
      <4> DEFINE p == best[r + 1].price
                 o == best[n].price
      <4>4. p \in Int /\ o \in Int
        BY <1>4, <4>1
      <4>5. Signed(side, p) <= Signed(side, o)
        <5>1. CASE n = r + 1
          BY <4>4, <5>1 DEF Signed
        <5>2. CASE r + 1 < n
          BY <1>2, <4>1, <5>2
        <5> QED
          BY <4>2, <5>1, <5>2
      <4> HIDE DEF p, o
      <4>6. Within(side, o, limit) /\ ~Within(side, p, limit)
        BY <3>2, <4>3 DEF p, o
      <4> QED
        BY ONLY <4>4, <4>5, <4>6, side \in {"buy", "sell"}, limit \in Int
           DEF Signed, Within
    <3>4. CASE ~(n > r)
      <4>1. n \in 1..r
        BY <1>2, <1>3, <3>4
      <4> QED
        BY <3>1, <4>1
    <3> QED
      BY <3>3, <3>4
  <2> QED
    BY <2>1, <2>2 DEF Placed
<1>6. \A i \in used : f[i] \in Int /\ f[i] = levels[i].size
  BY <1>1
<1>7. \A k \in 0..r : a[k] = SumFunctionOnSet(f, Placed(at, k))
  OBVIOUS
<1>8. reached \in SUBSET used /\ \A i \in reached : f[i] \in Int /\ g[i] = f[i]
  BY <1>6
<1> HIDE DEF f, a, g, used, m, reached
<1>9. /\ SumFunctionOnSet(f, Placed(at, 0)) = 0
      /\ \A k \in 1..m : SumFunctionOnSet(f, Placed(at, k))
                           = SumFunctionOnSet(f, Placed(at, k - 1)) + f[at[k]]
  <2>1. IsFiniteSet(used) /\ \A i \in used : f[i] \in Int
    BY <1>1, <1>6
  <2>2. m \in Nat /\ at \in [1..m -> used]
    BY <1>2
  <2>3. \A n \in 1..m : \A k \in 1..m : at[n] = at[k] => n = k
    BY <1>2
  <2> QED
    <3>1. SumsAlong(f, used, at, m)
      BY ONLY <2>1, <2>2, <2>3, SumAlong
    <3> QED
      BY <3>1 DEF SumsAlong
<1>10. a[0] = 0
  BY <1>3, <1>7, <1>9
<1>11. ASSUME NEW k \in 1..r PROVE a[k] = a[k - 1] + z[k]
  <2>1. k \in 0..r /\ k - 1 \in 0..r /\ k \in 1..m
    BY <1>3
  <2>2. at[k] \in used /\ f[at[k]] = best[k].size
    BY <1>2, <1>6, <2>1
  <2>3. z[k] = best[k].size
    BY <1>4, <2>1
  <2> HIDE DEF z
  <2> QED
    BY <1>7, <1>9, <2>1, <2>2, <2>3
<1>12. a[r] = OnOffer(levels, side, limit)
  <2>1. IsFiniteSet(reached)
    BY <1>1, <1>8, FS_Subset
  <2>2. SumFunctionOnSet(f, reached) = SumFunctionOnSet(g, reached)
    BY <1>8, <2>1, SumSame
  <2>3. OnOffer(levels, side, limit) = SumFunctionOnSet(g, reached)
    BY Zenon DEF OnOffer, g, reached, used
  <2> QED
    BY <1>3, <1>5, <1>7, <2>2, <2>3
<1> QED
  BY <1>10, <1>11, <1>12 DEF z, Totals

\* What the better levels of the whole book save on a price.
SavesAt(levels, side, p) ==
  [i \in UsedOf(levels) |-> levels[i].size *
     (IF side = "buy" THEN GreaterOf(p - levels[i].price, 0)
                      ELSE GreaterOf(levels[i].price - p, 0))]

SavedOn(levels, side, p) == SumFunctionOnSet(SavesAt(levels, side, p), UsedOf(levels))

\* Savings along the first levels are part of it, or all if the others save nothing.
Saving(levels, side, best, r, p, s) ==
  /\ Saves(r, CostsOf(side, best), SizesOf(best), Signed(side, p), s)
  /\ s[r] <= SavedOn(levels, side, p)
  /\ (\A n \in (r + 1)..Len(best) : Signed(side, p) <= CostsOf(side, best)[n])
       => s[r] = SavedOn(levels, side, p)

LEMMA SavedAlong ==
  ASSUME NEW levels \in Seq(Levels), NEW side \in {"buy", "sell"}, NEW best, NEW at,
         InOrder(levels, side, best, at), NEW r \in 0..Len(best), NEW p \in Int
  PROVE  /\ SavedOn(levels, side, p) \in Nat
         /\ \E s : Saving(levels, side, best, r, p, s)
<1> DEFINE used == UsedOf(levels)
           m == Len(best)
           f == SavesAt(levels, side, p)
           s == [k \in 0..r |-> SumFunctionOnSet(f, Placed(at, k))]
           z == SizesOf(best)
           c == CostsOf(side, best)
           pc == Signed(side, p)
<1>1. IsFiniteSet(used) /\ \A i \in used : /\ levels[i].size \in Nat
                                           /\ levels[i] \in Levels
  BY UsedIsFinite
<1>2. /\ best \in Seq(Levels) /\ m \in Nat /\ at \in [1..m -> used]
      /\ \A n \in 1..m : best[n] = levels[at[n]]
      /\ \A i \in used : \E n \in 1..m : at[n] = i
      /\ \A n \in 1..m : \A k \in 1..m : at[n] = at[k] => n = k
  BY DEF InOrder
<1>3. r \in Nat /\ r <= m /\ 0 \in 0..r /\ r \in 0..r /\ 1..r \subseteq 1..m
  BY <1>2
<1>4. ASSUME NEW i \in used
      PROVE  f[i] \in Nat /\ f[i] = levels[i].size
                                      * GreaterOf(pc - Signed(side, levels[i].price), 0)
  <2> DEFINE o == levels[i].price
             size == levels[i].size
             g == GreaterOf(pc - Signed(side, o), 0)
  <2>1. size \in Nat /\ o \in Int
    BY <1>1 DEF Levels
  <2>2. f[i] = size * (IF side = "buy" THEN GreaterOf(p - o, 0) ELSE GreaterOf(o - p, 0))
    BY DEF SavesAt
  <2> HIDE DEF f, o, size, used
  <2>3. /\ g \in Nat
        /\ (IF side = "buy" THEN GreaterOf(p - o, 0) ELSE GreaterOf(o - p, 0)) = g
    BY ONLY <2>1, p \in Int, side \in {"buy", "sell"} DEF GreaterOf, Signed
  <2>4. f[i] = size * g
    BY <2>2, <2>3
  <2> HIDE DEF g
  <2>5. f[i] \in Nat
    BY <2>1, <2>3, <2>4
  <2> QED
    BY <2>4, <2>5 DEF o, size, g
<1>5. \A n \in 1..m : z[n] = best[n].size /\ c[n] = Signed(side, best[n].price)
  BY <1>2 DEF SizesOf, CostsOf
<1>6. \A k \in 0..r : s[k] = SumFunctionOnSet(f, Placed(at, k))
  OBVIOUS
<1>7. \A n \in 1..m : at[n] \in used /\ f[at[n]] = z[n] * GreaterOf(pc - c[n], 0)
  <2> TAKE n \in 1..m
  <2>1. at[n] \in used
    BY <1>2
  <2> QED
    BY <1>2, <1>4, <1>5, <2>1
<1>8. SavedOn(levels, side, p) = SumFunctionOnSet(f, used)
  BY DEF SavedOn
<1> HIDE DEF f, s, used, m, z, c, pc
<1>9. \A i \in used : f[i] \in Int /\ f[i] \in Nat
  BY <1>4
<1>10. /\ SumFunctionOnSet(f, Placed(at, 0)) = 0
       /\ \A k \in 0..m : /\ Placed(at, k) \in SUBSET used
                          /\ SumFunctionOnSet(f, Placed(at, k)) \in Int
       /\ \A k \in 1..m : SumFunctionOnSet(f, Placed(at, k))
                            = SumFunctionOnSet(f, Placed(at, k - 1)) + f[at[k]]
  <2>1. IsFiniteSet(used) /\ \A i \in used : f[i] \in Int
    BY <1>1, <1>9
  <2>2. m \in Nat /\ at \in [1..m -> used]
    BY <1>2
  <2>3. \A n \in 1..m : \A k \in 1..m : at[n] = at[k] => n = k
    BY <1>2
  <2> QED
    <3>1. SumsAlong(f, used, at, m)
      BY ONLY <2>1, <2>2, <2>3, SumAlong
    <3> QED
      BY <3>1 DEF SumsAlong
<1>11. SumFunctionOnSet(f, used) \in Nat
  BY <1>1, <1>9, SumNonNegative
<1>12. Saves(r, c, z, pc, s)
  <2>1. s[0] = 0
    BY <1>3, <1>6, <1>10
  <2>2. \A k \in 0..r : s[k] \in Int
    BY <1>2, <1>3, <1>6, <1>10
  <2>3. ASSUME NEW k \in 1..r PROVE s[k] = s[k - 1] + z[k] * GreaterOf(pc - c[k], 0)
    <3>1. k \in 0..r /\ k - 1 \in 0..r /\ k \in 1..m
      BY <1>3
    <3>2. s[k] = s[k - 1] + f[at[k]]
      BY <1>6, <1>10, <3>1
    <3> QED
      BY <1>7, <3>1, <3>2
  <2> QED
    BY <2>1, <2>2, <2>3 DEF Saves
<1>13. Placed(at, r) \in SUBSET used /\ s[r] = SumFunctionOnSet(f, Placed(at, r))
  BY <1>2, <1>3, <1>6, <1>10
<1>14. s[r] <= SumFunctionOnSet(f, used)
  BY <1>1, <1>9, <1>13, SumOfPart
<1>15. ASSUME \A n \in (r + 1)..m : pc <= c[n]
       PROVE  s[r] = SumFunctionOnSet(f, used)
  <2>1. ASSUME NEW i \in used \ Placed(at, r) PROVE f[i] = 0
    <3>1. PICK n \in 1..m : at[n] = i
      BY <1>2
    <3>2. n \notin 1..r
      BY <3>1 DEF Placed
    <3>3. n \in (r + 1)..m
      BY <1>2, <1>3, <3>2
    <3>4. pc <= c[n] /\ c[n] \in Int /\ pc \in Int /\ z[n] \in Int
      <4>1. best[n] \in Levels
        <5>1. best \in Seq(Levels) /\ n \in 1..Len(best)
          BY <1>2 DEF m
        <5> QED
          BY ONLY <5>1
      <4>2. best[n].price \in Int /\ best[n].size \in Int
        BY <4>1 DEF Levels
      <4> QED
        BY <1>5, <1>15, <3>3, <4>2 DEF Signed, pc
    <3>5. GreaterOf(pc - c[n], 0) = 0
      BY <3>4 DEF GreaterOf
    <3>6. f[i] = z[n] * 0
      BY <1>7, <3>1, <3>5
    <3> QED
      BY <3>4, <3>6
  <2>2. SumFunctionOnSet(f, used) = SumFunctionOnSet(f, Placed(at, r))
    BY <1>1, <1>9, <1>13, <2>1, SumSupported
  <2> QED
    BY <1>13, <2>2
<1> QED
  BY <1>8, <1>11, <1>12, <1>14, <1>15, Zenon DEF m, z, c, pc, Saving


\* A value of a quantity that is never better than the book allows; that is as good.
NoBetter(levels, side, quantity, value) ==
  \A i \in UsedOf(levels) :
    IF side = "buy"
      THEN value >= levels[i].price * quantity - SavedOn(levels, side, levels[i].price)
      ELSE value <= levels[i].price * quantity + SavedOn(levels, side, levels[i].price)

AsGood(levels, side, quantity, value) ==
  \E i \in UsedOf(levels) :
    value = IF side = "buy"
              THEN levels[i].price * quantity - SavedOn(levels, side, levels[i].price)
              ELSE levels[i].price * quantity + SavedOn(levels, side, levels[i].price)

LEMMA BestIs ==
  ASSUME NEW levels \in Seq(Levels), NEW side, NEW quantity \in Nat, NEW value \in Int,
         UsedOf(levels) # {}, \A p \in Int : SavedOn(levels, side, p) \in Nat,
         NoBetter(levels, side, quantity, value)
  PROVE  /\ IF side = "buy" THEN value >= BestValue(levels, side, quantity)
                            ELSE value <= BestValue(levels, side, quantity)
         /\ AsGood(levels, side, quantity, value) =>
              value = BestValue(levels, side, quantity)
<1> DEFINE used == UsedOf(levels)
           prices == {levels[i].price : i \in used}
           priced == [i \in used |-> levels[i].price]
           worth(p) == IF side = "buy" THEN p * quantity - SavedOn(levels, side, p)
                                       ELSE p * quantity + SavedOn(levels, side, p)
           valued == [p \in prices |-> worth(p)]
           V == {valued[p] : p \in prices}
<1>1. IsFiniteSet(used) /\ \A i \in used : levels[i].price \in Int
  BY UsedIsFinite DEF Levels
<1>2. IsFiniteSet(prices) /\ \A p \in prices : p \in Int
  <2>1. IsFiniteSet({priced[i] : i \in used})
    BY <1>1, ImageIsFinite
  <2>2. prices = {priced[i] : i \in used}
    OBVIOUS
  <2> QED
    BY <1>1, <2>1, <2>2
<1>3. \A p \in prices : worth(p) \in Int /\ valued[p] = worth(p)
  <2> TAKE p \in prices
  <2> DEFINE pq == p * quantity
             s == SavedOn(levels, side, p)
  <2>0. p \in Int
    BY <1>2
  <2>1. pq \in Int /\ s \in Int
    <3>1. s \in Nat
      BY <2>0
    <3>2. pq \in Int
      BY <2>0
    <3> QED
      BY <3>1, <3>2
  <2>2. worth(p) = IF side = "buy" THEN pq - s ELSE pq + s
    OBVIOUS
  <2>3. valued[p] = worth(p)
    OBVIOUS
  <2> HIDE DEF pq, s, worth
  <2> QED
    BY <2>1, <2>2, <2>3
<1>4. /\ \A i \in used : levels[i].price \in prices
      /\ \A i \in used : IF side = "buy" THEN value >= worth(levels[i].price)
                                         ELSE value <= worth(levels[i].price)
      /\ AsGood(levels, side, quantity, value) =>
           \E i \in used : value = worth(levels[i].price)
  BY DEF NoBetter, AsGood
<1>5. BestValue(levels, side, quantity) = IF side = "buy" THEN Max(V) ELSE Min(V)
  <2> DEFINE bought == {p * quantity - SavedOn(levels, side, p) : p \in prices}
             sold == {p * quantity + SavedOn(levels, side, p) : p \in prices}
  <2>1. BestValue(levels, side, quantity) = IF side = "buy" THEN Max(bought) ELSE Min(sold)
    BY Zenon DEF BestValue, SavedOn, SavesAt
  <2>2. side = "buy" => V = bought
    BY <1>3
  <2>3. side # "buy" => V = sold
    BY <1>3
  <2> QED
    BY <2>1, <2>2, <2>3
<1>6. V # {}
  BY <1>4
<1> HIDE DEF worth, valued, prices
<1>7. IsFiniteSet(V)
  BY <1>2, ImageIsFinite
<1>8. V \subseteq Int
  BY <1>3
<1>9. \A i \in used : worth(levels[i].price) \in V
  BY <1>3, <1>4
<1>10. \A v \in V : \E i \in used : v = worth(levels[i].price)
  BY <1>3 DEF prices
<1>11. \A v \in V : v \in Int /\ IF side = "buy" THEN value >= v ELSE value <= v
  BY <1>4, <1>8, <1>10
<1>12. AsGood(levels, side, quantity, value) => value \in V
  BY <1>4, <1>9
<1> HIDE DEF V
<1>13. /\ Max(V) \in V /\ \A x \in V : x <= Max(V)
       /\ Min(V) \in V /\ \A x \in V : Min(V) <= x
  BY <1>6, <1>7, <1>8, MaxMin
<1> DEFINE best == BestValue(levels, side, quantity)
<1>14. /\ best \in V
       /\ \A x \in V : IF side = "buy" THEN x <= best ELSE best <= x
  BY <1>5, <1>13
<1> HIDE DEF best
<1>15. best \in Int /\ IF side = "buy" THEN value >= best ELSE value <= best
  BY <1>11, <1>14
<1>16. AsGood(levels, side, quantity, value) => value = best
  <2> SUFFICES ASSUME AsGood(levels, side, quantity, value) PROVE value = best
    OBVIOUS
  <2>1. IF side = "buy" THEN value <= best ELSE best <= value
    BY <1>12, <1>14
  <2> QED
    BY ONLY <1>15, <2>1, value \in Int
<1> QED
  BY <1>15, <1>16 DEF best

\* A sweep takes all there is to take within the limit, at no less than its worth.
SweptHonestly(levels, side, limit, q, swept) ==
  /\ levels \in Seq(Levels) /\ \A p \in Int : SavedOn(levels, side, p) \in Nat
  /\ OnOffer(levels, side, limit) \in Nat
  /\ swept.taken = LesserOf(q, OnOffer(levels, side, limit))
  /\ NoBetter(levels, side, swept.taken, swept.value)
  /\ swept.taken > 0 =>
       UsedOf(levels) # {} /\ AsGood(levels, side, swept.taken, swept.value)

LEMMA HonestSweep ==
  ASSUME NEW wire, IsWire(wire), wire # None, NEW side \in {"buy", "sell"},
         NEW limit \in Int, NEW q \in Nat,
         NEW swept, swept = Sweep(BookOf(wire), side, q, limit),
         NEW levels, levels = SentFor(wire, side)
  PROVE  SweptHonestly(levels, side, limit, q, swept)
<1> DEFINE best == TakingSide(BookOf(wire), side)
           z == SizesOf(best)
           c == CostsOf(side, best)
<1>1. best = TakingSide(BookOf(wire), side)
  OBVIOUS
<1> HIDE DEF best
<1>2. levels \in Seq(Levels) /\ \E at : InOrder(levels, side, best, at)
  BY <1>1, OfferOrder
<1>3. PICK at : InOrder(levels, side, best, at)
  BY <1>2
<1>4. PICK r \in 0..Len(best) : \E t : \E w :
           /\ \A n \in 1..r : Within(side, best[n].price, limit)
           /\ r < Len(best) => ~Within(side, best[r + 1].price, limit)
           /\ Sizes(r, z) /\ Costs(r, c)
           /\ Taken(r, q, z, t) /\ Spent(r, c, t, w)
           /\ swept.taken = t[r] /\ swept.value = Signed(side, w[r])
  BY <1>1, SweptLevels
<1>5. PICK t, w :
           /\ \A n \in 1..r : Within(side, best[n].price, limit)
           /\ r < Len(best) => ~Within(side, best[r + 1].price, limit)
           /\ Sizes(r, z) /\ Costs(r, c)
           /\ Taken(r, q, z, t) /\ Spent(r, c, t, w)
           /\ swept.taken = t[r] /\ swept.value = Signed(side, w[r])
  BY <1>4
<1>6. /\ best \in Seq(Levels) /\ Len(best) \in Nat /\ at \in [1..Len(best) -> UsedOf(levels)]
      /\ \A n \in 1..Len(best) : best[n] = levels[at[n]]
      /\ \A n \in 1..Len(best) : \A k \in 1..Len(best) :
           n < k => Signed(side, best[n].price) <= Signed(side, best[k].price)
  BY <1>3 DEF InOrder
<1>7. \A n \in 1..Len(best) : c[n] = Signed(side, best[n].price) /\ best[n].price \in Int
  <2> TAKE n \in 1..Len(best)
  <2>1. best[n] \in Levels
    BY <1>6
  <2> QED
    BY <1>6, <2>1 DEF CostsOf, Levels
<1>8. r \in Nat /\ r <= Len(best) /\ r \in 0..r
  BY <1>6
<1>9. t[r] \in Nat /\ w[r] \in Int
  <2>1. \A k \in 0..r : t[k] \in Nat
    BY <1>5, <1>8, TakenGrows
  <2> QED
    BY <1>5, <1>8, <2>1 DEF Spent
<1> DEFINE saved(p) == SavedOn(levels, side, p)
           Holds(p, s) ==
             /\ Saves(r, c, z, Signed(side, p), s) /\ s[r] <= saved(p)
             /\ (\A n \in (r + 1)..Len(best) : Signed(side, p) <= c[n]) => s[r] = saved(p)
<1>10. ASSUME NEW p \in Int PROVE saved(p) \in Nat /\ \E s : Holds(p, s)
  <2>1. levels \in Seq(Levels) /\ InOrder(levels, side, best, at) /\ r \in 0..Len(best)
    BY <1>2, <1>3
  <2>2. saved(p) \in Nat /\ \E s : Saving(levels, side, best, r, p, s)
    BY <2>1, SavedAlong
  <2> QED
    BY <2>2 DEF Saving
<1>11. PICK a : Totals(r, z, a) /\ a[r] = OnOffer(levels, side, limit)
  <2>1. levels \in Seq(Levels) /\ InOrder(levels, side, best, at) /\ r \in 0..Len(best)
    BY <1>2, <1>3
  <2>2. UpTo(side, best, limit, r)
    BY <1>5 DEF UpTo
  <2> QED
    BY <2>1, <2>2, OfferedAlong
<1> HIDE DEF z, c
<1>12. /\ OnOffer(levels, side, limit) \in Nat
       /\ swept.taken = LesserOf(q, OnOffer(levels, side, limit))
  <2>1. \A k \in 0..r : a[k] \in Nat /\ t[k] = LesserOf(q, a[k])
    BY <1>5, <1>8, <1>11, TakenInAll
  <2> QED
    BY <1>5, <1>8, <1>11, <2>1
<1>13. ASSUME NEW i \in UsedOf(levels)
       PROVE  IF side = "buy"
                THEN swept.value >= levels[i].price * swept.taken - saved(levels[i].price)
                ELSE swept.value <= levels[i].price * swept.taken + saved(levels[i].price)
  <2> DEFINE p == levels[i].price
             pc == Signed(side, p)
             pt == p * swept.taken
  <2>1. p \in Int
    BY <1>2, UsedIsFinite DEF Levels
  <2>2. PICK s : Holds(p, s)
    BY <1>10, <2>1
  <2> HIDE DEF p
  <2>3. pc \in Int
    BY <2>1 DEF Signed
  <2>4. s[r] \in Int /\ s[r] <= saved(p) /\ saved(p) \in Nat /\ Saves(r, c, z, pc, s)
    BY <1>8, <1>10, <2>1, <2>2 DEF Saves
  <2> HIDE DEF pc
  <2>5. w[r] >= pc * t[r] - s[r]
    BY <1>5, <1>8, <2>3, <2>4, SpentAtLeast
  <2>6. pc * t[r] = (IF side = "buy" THEN pt ELSE -pt) /\ pt \in Int
    BY <1>5, <1>9, <2>1 DEF pc, Signed
  <2> HIDE DEF pt, saved
  <2>7. IF side = "buy" THEN swept.value >= pt - saved(p) ELSE swept.value <= pt + saved(p)
    BY SMTT(30), <1>5, <1>9, <2>4, <2>5, <2>6 DEF Signed
  <2> QED
    BY <2>7 DEF pt, p
<1>14. ASSUME swept.taken > 0
       PROVE  \E i \in UsedOf(levels) :
                swept.value = IF side = "buy"
                  THEN levels[i].price * swept.taken - saved(levels[i].price)
                  ELSE levels[i].price * swept.taken + saved(levels[i].price)
  <2>1. \A i \in 1..r : \A k \in 1..r : i < k => c[i] <= c[k]
    BY <1>6, <1>7, <1>8
  <2>2. PICK l \in 1..r : \A s : Saves(r, c, z, c[l], s) => w[r] = c[l] * t[r] - s[r]
    BY <1>5, <1>8, <1>14, <2>1, SpentExactly
  <2> DEFINE p == best[l].price
             pc == Signed(side, p)
             pt == p * swept.taken
  <2>3. l \in 1..Len(best) /\ c[l] = pc /\ p \in Int
    BY <1>7, <1>8
  <2>4. PICK s : Holds(p, s)
    BY <1>10, <2>3
  <2>5. \A n \in (r + 1)..Len(best) : pc <= c[n]
    BY <1>6, <1>7, <1>8, <2>3
  <2>6. /\ s[r] = saved(p) /\ saved(p) \in Nat /\ Saves(r, c, z, pc, s)
    BY <1>10, <2>3, <2>4, <2>5
  <2> HIDE DEF p
  <2>7. pc * t[r] = (IF side = "buy" THEN pt ELSE -pt) /\ pt \in Int
    BY <1>5, <1>9, <2>3 DEF Signed
  <2> HIDE DEF pc, pt, saved
  <2>8. w[r] = pc * t[r] - saved(p)
    BY <2>2, <2>3, <2>6
  <2>9. swept.value = IF side = "buy" THEN pt - saved(p) ELSE pt + saved(p)
    BY <1>5, <1>9, <2>6, <2>7, <2>8 DEF Signed
  <2>10. at[l] \in UsedOf(levels) /\ levels[at[l]].price = p
    BY <1>6, <2>3 DEF p
  <2> QED
    BY <2>9, <2>10 DEF pt
<1>15. NoBetter(levels, side, swept.taken, swept.value)
  BY <1>13 DEF NoBetter
<1>16. swept.taken > 0 =>
         UsedOf(levels) # {} /\ AsGood(levels, side, swept.taken, swept.value)
  BY <1>14 DEF AsGood
<1> QED
  BY <1>2, <1>10, <1>12, <1>15, <1>16 DEF SweptHonestly


\* A fill is never better than the book that the venue sent allows, nor more than it
\* offers within the limit; without slippage and queue risk it is the best there is.
THEOREM PaperFillsAreHonest == Spec => []PaperFillIsHonest
<1>1. WorkedOut => PaperFillIsHonest
  <2> DEFINE fill == result.fill
             side == Side
             limit == signal.limit
             quantity == signal.quantity
             wire == result.wire
             levels == IF side = "buy" THEN wire.asks ELSE wire.bids
             got == fill.quantity
             value == fill.value
             best == BestValue(levels, side, got)
             offer == OnOffer(levels, side, limit)
             params == result.dealing.params
             roll == result.dealing.roll
  <2> SUFFICES ASSUME WorkedOut, Dealt
               PROVE  /\ IF side = "buy" THEN value >= best ELSE value <= best
                      /\ got <= offer
                      /\ params.slippage = 0 /\ roll.quarters = 4 =>
                           value = best /\ got = LesserOf(quantity, offer)
    BY Zenon DEF PaperFillIsHonest
  <2>1. IsWire(wire) /\ wire # None /\ side \in {"buy", "sell"}
    BY DealtFacts
  <2>2. limit \in Int /\ quantity \in Nat
    <3>1. limit \in 1..(Dollar - 1) /\ quantity \in Nat
      BY DealtFill
    <3> HIDE DEF limit, quantity
    <3> QED
      BY ONLY <3>1 DEF Dollar
  <2>3. PICK swept, charged : FilledFrom(swept, charged)
    BY DealtFill
  <2> DEFINE taken == swept.taken
  <2>4. /\ swept = Sweep(BookOf(wire), side, quantity, limit)
        /\ taken \in Nat \ {0} /\ got \in Nat \ {0} /\ got <= taken
        /\ roll.quarters = 4 => got = taken
        /\ swept.value \in Int /\ charged \in Int
        /\ IF side = "buy" THEN swept.value <= charged ELSE charged <= swept.value
        /\ params.slippage = 0 => charged = swept.value
        /\ value = (charged * got) \div taken
    BY <2>3 DEF FilledFrom
  <2>5. levels = SentFor(wire, side)
    BY DEF SentFor
  <2> HIDE DEF wire, side, limit, quantity, levels
  <2>6. /\ levels \in Seq(Levels)
        /\ \A p \in Int : SavedOn(levels, side, p) \in Nat
        /\ offer \in Nat /\ taken = LesserOf(quantity, offer)
        /\ NoBetter(levels, side, taken, swept.value)
        /\ taken > 0 => UsedOf(levels) # {} /\ AsGood(levels, side, taken, swept.value)
    <3>1. swept = Sweep(BookOf(wire), side, quantity, limit)
      BY <2>4
    <3>2. IsWire(wire) /\ wire # None
      BY <2>1
    <3>3. side \in {"buy", "sell"} /\ limit \in Int /\ quantity \in Nat
      BY <2>1, <2>2
    <3>4. SweptHonestly(levels, side, limit, quantity, swept)
      BY ONLY <2>5, <3>1, <3>2, <3>3, HonestSweep
    <3> QED
      BY <3>4 DEF SweptHonestly
  <2> HIDE DEF got, value, offer, params, roll
  <2>7. /\ value \in Int
        /\ \A p \in Int : \A s \in Nat :
             /\ charged >= p * taken - s => value >= p * got - s
             /\ charged <= p * taken + s => value <= p * got + s
        /\ got = taken => value = charged
    <3> HIDE DEF taken
    <3>1. ASSUME NEW p \in Int, NEW s \in Nat
          PROVE  /\ value \in Int
                 /\ charged >= p * taken - s => value >= p * got - s
                 /\ charged <= p * taken + s => value <= p * got + s
                 /\ got = taken => value = charged
      BY ONLY <2>4, <3>1, ShareOf
    <3>2. 0 \in Int /\ 0 \in Nat
      OBVIOUS
    <3>3. value \in Int /\ (got = taken => value = charged)
      BY <3>1, <3>2
    <3> QED
      BY <3>1, <3>3
  <2>8. NoBetter(levels, side, got, value)
    <3>1. ASSUME NEW i \in UsedOf(levels)
          PROVE  IF side = "buy"
                   THEN value >= levels[i].price * got - SavedOn(levels, side, levels[i].price)
                   ELSE value <= levels[i].price * got + SavedOn(levels, side, levels[i].price)
      <4> DEFINE p == levels[i].price
                 s == SavedOn(levels, side, p)
                 pt == p * taken
      <4>1. p \in Int
        BY <2>6, UsedIsFinite DEF Levels
      <4> HIDE DEF p
      <4>2. s \in Nat
        BY <2>6, <4>1
      <4>3. IF side = "buy" THEN swept.value >= pt - s ELSE swept.value <= pt + s
        BY <2>6, Zenon DEF NoBetter, p
      <4>4. pt \in Int
        BY <2>4, <4>1
      <4> HIDE DEF pt, s
      <4>5. IF side = "buy" THEN charged >= pt - s ELSE charged <= pt + s
        BY <2>4, <4>2, <4>3, <4>4
      <4>6. IF side = "buy" THEN value >= p * got - s ELSE value <= p * got + s
        BY <2>7, <4>1, <4>2, <4>5 DEF pt
      <4> QED
        BY <4>6 DEF p, s
    <3> QED
      BY <3>1 DEF NoBetter
  <2>9. got \in Nat /\ taken > 0
    BY <2>4
  <2>10. /\ IF side = "buy" THEN value >= best ELSE value <= best
         /\ AsGood(levels, side, got, value) => value = best
    BY <2>6, <2>7, <2>8, <2>9, BestIs
  <2>11. got <= offer
    <3> HIDE DEF taken
    <3> QED
      BY <2>2, <2>4, <2>6 DEF LesserOf
  <2>12. ASSUME params.slippage = 0, roll.quarters = 4
         PROVE  value = best /\ got = LesserOf(quantity, offer)
    <3>1. got = taken /\ charged = swept.value /\ value = swept.value
      BY <2>4, <2>7, <2>12
    <3>2. AsGood(levels, side, got, value)
      BY <2>6, <2>9, <3>1
    <3> QED
      BY <2>6, <2>10, <3>1, <3>2
  <2> QED
    BY <2>10, <2>11, <2>12
<1> QED
  BY <1>1, WorkedOutAlways, PTL
=============================================================================
