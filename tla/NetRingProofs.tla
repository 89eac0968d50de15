---------------------------- MODULE NetRingProofs ----------------------------
(* Arithmetic of a ring of any size n: what indices and distances along it are,   *)
(* without remainders.  The proofs about both queues rest on these lemmas.        *)
EXTENDS NetRing, TLAPS

\* A remainder, for the sums of two indices.
LEMMA OneTurn == ASSUME NEW n \in Nat \ {0}, NEW y \in 0 .. n - 1 PROVE (y + n) % n = y
  OBVIOUS

\* A remainder within two turns of a ring is a subtraction at most.
LEMMA Remainder ==
    ASSUME NEW n \in Nat \ {0}, NEW x \in 0 .. 2 * n - 1
    PROVE  x % n = IF x < n THEN x ELSE x - n
  <1>1. CASE x < n
    BY <1>1
  <1>2. CASE x >= n
    <2> DEFINE y == x - n
    <2>1. y \in 0 .. n - 1 /\ x = y + n
      BY <1>2
    <2> QED
      BY <1>2, <2>1, OneTurn
  <1> QED
    BY <1>1, <1>2

\* The index after i is i + 1, and 0 after the last.
LEMMA IncrValue ==
    ASSUME NEW n \in Nat \ {0}, NEW i \in 0 .. n - 1
    PROVE  /\ Incr(n, i) \in 0 .. n - 1
           /\ Incr(n, i) = IF i = n - 1 THEN 0 ELSE i + 1
  <1> DEFINE x == i + 1
  <1>1. x \in 0 .. 2 * n - 1
    OBVIOUS
  <1> HIDE DEF x
  <1>2. x % n = IF x < n THEN x ELSE x - n
    BY <1>1, Remainder
  <1> QED
    BY <1>2 DEF Incr, x

\* The distance from a to b along the ring, without the remainder.
LEMMA SpanValue ==
    ASSUME NEW n \in Nat \ {0}, NEW a \in 0 .. n - 1, NEW b \in 0 .. n - 1
    PROVE  /\ Span(n, a, b) \in 0 .. n - 1
           /\ Span(n, a, b) = IF b >= a THEN b - a ELSE b - a + n
  <1> DEFINE x == b - a + n
  <1>1. x \in 0 .. 2 * n - 1
    OBVIOUS
  <1> HIDE DEF x
  <1>2. x % n = IF x < n THEN x ELSE x - n
    BY <1>1, Remainder
  <1> QED
    BY <1>2 DEF Span, x

\* Distance from a: nothing is as far as another, and the next index is one farther.
LEMMA SpanDistinct ==
    ASSUME NEW n \in Nat \ {0}, NEW a \in 0 .. n - 1, NEW b \in 0 .. n - 1,
           NEW c \in 0 .. n - 1, Span(n, a, b) = Span(n, a, c)
    PROVE  b = c
  <1>1. /\ Span(n, a, b) = IF b >= a THEN b - a ELSE b - a + n
        /\ Span(n, a, c) = IF c >= a THEN c - a ELSE c - a + n
    BY SpanValue
  <1>2. (IF b >= a THEN b - a ELSE b - a + n) = (IF c >= a THEN c - a ELSE c - a + n)
    BY <1>1
  <1> QED
    BY <1>2

\* Only a itself is at distance 0 from a.
LEMMA SpanNone ==
    ASSUME NEW n \in Nat \ {0}, NEW a \in 0 .. n - 1, NEW b \in 0 .. n - 1
    PROVE  Span(n, a, b) = 0 <=> b = a
  <1>1. Span(n, a, b) = IF b >= a THEN b - a ELSE b - a + n
    BY SpanValue
  <1> QED
    BY <1>1

\* The next index is one farther, unless that closes the turn.
LEMMA SpanNext ==
    ASSUME NEW n \in Nat \ {0}, NEW a \in 0 .. n - 1, NEW b \in 0 .. n - 1
    PROVE  /\ Incr(n, b) # a => Span(n, a, Incr(n, b)) = Span(n, a, b) + 1
           /\ Incr(n, b) = a => Span(n, a, b) = n - 1
  <1> DEFINE j == Incr(n, b)
  <1>1. j \in 0 .. n - 1 /\ j = IF b = n - 1 THEN 0 ELSE b + 1
    BY IncrValue
  <1> HIDE DEF j
  <1>2. /\ Span(n, a, b) = IF b >= a THEN b - a ELSE b - a + n
        /\ Span(n, a, j) = IF j >= a THEN j - a ELSE j - a + n
    BY <1>1, SpanValue
  <1>3. /\ j # a => Span(n, a, j) = Span(n, a, b) + 1
        /\ j = a => Span(n, a, b) = n - 1
    BY <1>1, <1>2
  <1> QED
    BY <1>3 DEF j

\* The same when it is a that moves on.
LEMMA SpanAdvance ==
    ASSUME NEW n \in Nat \ {0}, NEW a \in 0 .. n - 1, NEW b \in 0 .. n - 1
    PROVE  Span(n, Incr(n, a), b) = IF b = a THEN n - 1 ELSE Span(n, a, b) - 1
  <1> DEFINE j == Incr(n, a)
  <1>1. j \in 0 .. n - 1 /\ j = IF a = n - 1 THEN 0 ELSE a + 1
    BY IncrValue
  <1> HIDE DEF j
  <1>2. /\ Span(n, a, b) = IF b >= a THEN b - a ELSE b - a + n
        /\ Span(n, j, b) = IF b >= j THEN b - j ELSE b - j + n
    BY <1>1, SpanValue
  <1>3. Span(n, j, b) = IF b = a THEN n - 1 ELSE Span(n, a, b) - 1
    BY <1>1, <1>2
  <1> QED
    BY <1>3 DEF j

\* Every distance is that of some index.
LEMMA SpanOnto ==
    ASSUME NEW n \in Nat \ {0}, NEW a \in 0 .. n - 1, NEW k \in 0 .. n - 1
    PROVE  \E b \in 0 .. n - 1 : Span(n, a, b) = k
  <1> DEFINE b == IF a + k < n THEN a + k ELSE a + k - n
  <1>1. b \in 0 .. n - 1
    OBVIOUS
  <1>2. k = IF b >= a THEN b - a ELSE b - a + n
    OBVIOUS
  <1> HIDE DEF b
  <1> QED
    BY <1>1, <1>2, SpanValue
\* k indices on from b, for at most one turn.
LEMMA PlusValue ==
    ASSUME NEW n \in Nat \ {0}, NEW b \in 0 .. n - 1, NEW k \in 0 .. n
    PROVE  /\ (b + k) % n \in 0 .. n - 1
           /\ (b + k) % n = IF b + k < n THEN b + k ELSE b + k - n
  <1> DEFINE x == b + k
  <1>1. x \in 0 .. 2 * n - 1
    OBVIOUS
  <1> HIDE DEF x
  <1>2. x % n = IF x < n THEN x ELSE x - n
    BY <1>1, Remainder
  <1> QED
    BY <1>1, <1>2 DEF x

\* Going k on adds k to the distance, as long as the turn is not completed.
LEMMA SpanPlus ==
    ASSUME NEW n \in Nat \ {0}, NEW a \in 0 .. n - 1, NEW b \in 0 .. n - 1,
           NEW k \in 0 .. n, Span(n, a, b) + k < n
    PROVE  Span(n, a, (b + k) % n) = Span(n, a, b) + k
  <1> DEFINE c == (b + k) % n
  <1>1. c \in 0 .. n - 1 /\ c = IF b + k < n THEN b + k ELSE b + k - n
    BY PlusValue
  <1> HIDE DEF c
  <1>2. /\ Span(n, a, b) = IF b >= a THEN b - a ELSE b - a + n
        /\ Span(n, a, c) = IF c >= a THEN c - a ELSE c - a + n
    BY <1>1, SpanValue
  <1>3. Span(n, a, c) = Span(n, a, b) + k
    BY <1>1, <1>2
  <1> QED
    BY <1>3 DEF c

\* Distances from c, out of those from a.
LEMMA SpanShift ==
    ASSUME NEW n \in Nat \ {0}, NEW a \in 0 .. n - 1, NEW b \in 0 .. n - 1,
           NEW c \in 0 .. n - 1
    PROVE  Span(n, c, b) = IF Span(n, a, c) <= Span(n, a, b)
                           THEN Span(n, a, b) - Span(n, a, c)
                           ELSE Span(n, a, b) - Span(n, a, c) + n
  <1>1. /\ Span(n, a, b) = IF b >= a THEN b - a ELSE b - a + n
        /\ Span(n, a, c) = IF c >= a THEN c - a ELSE c - a + n
        /\ Span(n, c, b) = IF b >= c THEN b - c ELSE b - c + n
    BY SpanValue
  <1> QED
    BY <1>1

\* Going the distance to b leads to b.
LEMMA PlusSpan ==
    ASSUME NEW n \in Nat \ {0}, NEW a \in 0 .. n - 1, NEW b \in 0 .. n - 1
    PROVE  (a + Span(n, a, b)) % n = b
  <1> DEFINE k == Span(n, a, b)
  <1>1. k \in 0 .. n - 1 /\ k = IF b >= a THEN b - a ELSE b - a + n
    BY SpanValue
  <1> HIDE DEF k
  <1>a. k \in 0 .. n
    BY <1>1
  <1>2. (a + k) % n = IF a + k < n THEN a + k ELSE a + k - n
    BY <1>a, PlusValue
  <1>3. (a + k) % n = b
    BY <1>1, <1>2
  <1> QED
    BY <1>3 DEF k

\* Two walks, of u from a and of y from b, end at one index: of the indices on the
\* second, the first meets, by then, those that are at most u before the end.
LEMMA SameEnd ==
    ASSUME NEW n \in Nat \ {0}, NEW a \in 0 .. n - 1, NEW b \in 0 .. n - 1,
           NEW u \in 0 .. n, NEW y \in 0 .. n, NEW k \in 0 .. n, k < y,
           (a + u) % n = (b + y) % n
    PROVE  /\ Span(n, a, (b + k) % n) < u <=> y - k <= u
           /\ y - k <= u => Span(n, a, (b + k) % n) = u - (y - k)
  <1> DEFINE c == (b + k) % n
  <1>1. c \in 0 .. n - 1 /\ c = IF b + k < n THEN b + k ELSE b + k - n
    BY PlusValue
  <1>2. /\ (a + u) % n = IF a + u < n THEN a + u ELSE a + u - n
        /\ (b + y) % n = IF b + y < n THEN b + y ELSE b + y - n
    BY PlusValue
  <1>3. (IF a + u < n THEN a + u ELSE a + u - n)
          = (IF b + y < n THEN b + y ELSE b + y - n)
    BY <1>2
  <1> HIDE DEF c
  <1>4. Span(n, a, c) = IF c >= a THEN c - a ELSE c - a + n
    BY <1>1, SpanValue
  <1>5. /\ Span(n, a, c) < u <=> y - k <= u
        /\ y - k <= u => Span(n, a, c) = u - (y - k)
    BY <1>1, <1>3, <1>4
  <1> QED
    BY <1>5 DEF c
\* One step at the end of a walk, and one at its beginning.
LEMMA IncrPlus ==
    ASSUME NEW n \in Nat \ {0}, NEW a \in 0 .. n - 1, NEW u \in 0 .. n - 1
    PROVE  /\ (((a + u) % n) + 1) % n = (a + (u + 1)) % n
           /\ (Incr(n, a) + u) % n = (a + (u + 1)) % n
<1> DEFINE b == (a + u) % n
           c == Incr(n, a)
<1>1. u \in 0 .. n /\ u + 1 \in 0 .. n
  OBVIOUS
<1>2. b \in 0 .. n - 1 /\ b = IF a + u < n THEN a + u ELSE a + u - n
  BY <1>1, PlusValue
<1>3. c \in 0 .. n - 1 /\ c = IF a = n - 1 THEN 0 ELSE a + 1
  BY IncrValue
<1> HIDE DEF b, c
<1>4. (a + (u + 1)) % n = IF a + (u + 1) < n THEN a + (u + 1) ELSE a + (u + 1) - n
  BY <1>1, PlusValue
<1>5. (b + 1) % n = IF b + 1 < n THEN b + 1 ELSE b + 1 - n
  <2>1. 1 \in 0 .. n
    OBVIOUS
  <2> QED
    BY <1>2, <2>1, PlusValue
<1>6. (c + u) % n = IF c + u < n THEN c + u ELSE c + u - n
  BY <1>1, <1>3, PlusValue
<1>7. (b + 1) % n = (a + (u + 1)) % n /\ (c + u) % n = (a + (u + 1)) % n
  BY <1>2, <1>3, <1>4, <1>5, <1>6
<1> QED
  BY <1>7 DEF b, c
=============================================================================
