------------------------- MODULE ModularArithmetic -------------------------
(***************************************************************************)
(* Facts about % and \div that the proofs about wrapping counters rest on. *)
(* The firmware never clears a counter the interrupt shares with the loop; *)
(* it lets it wrap and works with differences.                             *)
(***************************************************************************)
EXTENDS Integers, TLAPS

\* The definition of division with remainder.
LEMMA DivMod ==
  ASSUME NEW W \in Nat \ {0}, NEW a \in Int
  PROVE  /\ a \div W \in Int
         /\ a % W \in 0 .. W - 1
         /\ a = W * (a \div W) + (a % W)
  BY SMT

\* Multiples of W are at least W apart.
LEMMA MultiplesApart ==
  ASSUME NEW W \in Nat \ {0}, NEW p \in Int, NEW q \in Int, p < q
  PROVE  W * p + W <= W * q
<1>1. q - p >= 1
  BY SMT
<1>2. W * (q - p) >= W
  BY <1>1, SMT
<1> QED
  BY <1>2, SMT

\* Quotient and remainder are unique.
LEMMA DivModUnique ==
  ASSUME NEW W \in Nat \ {0}, NEW q \in Int, NEW r \in 0 .. W - 1
  PROVE  (W * q + r) % W = r /\ (W * q + r) \div W = q
<1> DEFINE a == W * q + r
           d == a \div W
<1>1. a \in Int
  BY SMT
<1>2. a = W * d + (a % W) /\ a % W \in 0 .. W - 1 /\ d \in Int
  BY <1>1, DivMod
<1> HIDE DEF d
<1>3. ~(d < q)
  <2> SUFFICES ASSUME d < q PROVE FALSE
    OBVIOUS
  <2>1. W * d + W <= W * q
    BY <1>2, MultiplesApart
  <2> QED
    BY <2>1, <1>2, SMT
<1>4. ~(q < d)
  <2> SUFFICES ASSUME q < d PROVE FALSE
    OBVIOUS
  <2>1. W * q + W <= W * d
    BY <1>2, MultiplesApart
  <2> QED
    BY <2>1, <1>2, SMT
<1>5. d = q
  BY <1>2, <1>3, <1>4, SMT
<1> QED
  BY <1>5, <1>2, SMT DEF d

\* Adding to a wrapped counter and wrapping again is wrapping the sum.
LEMMA ModAdd ==
  ASSUME NEW W \in Nat \ {0}, NEW a \in Int, NEW b \in Int
  PROVE  ((a % W) + b) % W = (a + b) % W
<1> DEFINE p == a \div W
           r == a % W
           q == (r + b) \div W
           s == (r + b) % W
<1>1. p \in Int /\ r \in 0 .. W - 1 /\ a = W * p + r
  BY DivMod
<1>2. r + b \in Int
  BY <1>1
<1>3. q \in Int /\ s \in 0 .. W - 1 /\ r + b = W * q + s
  BY <1>2, DivMod
<1> HIDE DEF p, q, r, s
<1>4. a + b = W * (p + q) + s
  BY <1>1, <1>3, SMT
<1>5. (W * (p + q) + s) % W = s
  BY <1>1, <1>3, DivModUnique
<1> QED
  BY <1>4, <1>5 DEF r, s

\* The next value of a wrapped counter.
LEMMA ModSucc ==
  ASSUME NEW W \in Nat \ {0}, NEW a \in Int
  PROVE  ((a % W) + 1) % W = (a + 1) % W
<1>1. 1 \in Int
  OBVIOUS
<1> QED
  BY <1>1, ModAdd

\* The difference of two wrapped counters is exact while they are less than one
\* wrap apart.
LEMMA ModDiff ==
  ASSUME NEW W \in Nat \ {0}, NEW a \in Int, NEW b \in Int, b <= a, a - b < W
  PROVE  ((a % W) - (b % W)) % W = a - b
<1> DEFINE p == a \div W
           r == a % W
           q == b \div W
           s == b % W
<1>1. p \in Int /\ r \in 0 .. W - 1 /\ a = W * p + r
  BY DivMod
<1>2. q \in Int /\ s \in 0 .. W - 1 /\ b = W * q + s
  BY DivMod
<1> HIDE DEF p, q, r, s
<1>3. r - s = W * (q - p) + (a - b)
  BY <1>1, <1>2, SMT
<1>4. (W * (q - p) + (a - b)) % W = a - b
  <2>1. q - p \in Int /\ a - b \in 0 .. W - 1
    BY <1>1, <1>2, SMT
  <2> QED
    BY <2>1, DivModUnique
<1> QED
  BY <1>3, <1>4 DEF r, s

\* Two counters less than one wrap apart are equal when they wrap to the same
\* value.
LEMMA ModEqual ==
  ASSUME NEW W \in Nat \ {0}, NEW a \in Int, NEW b \in Int, b <= a, a - b < W,
         a % W = b % W
  PROVE  a = b
<1>1. ((a % W) - (b % W)) % W = a - b
  BY ModDiff
<1>2. (a % W) - (b % W) = 0
  BY DivMod, SMT
<1>3. 0 % W = 0
  BY SMT
<1> QED
  BY <1>1, <1>2, <1>3, SMT

\* One step of a position that wraps and counts its wraps.
LEMMA ModStep ==
  ASSUME NEW W \in Nat \ {0}, NEW a \in Int
  PROVE  /\ (a % W) + 1 >= W => (a + 1) % W = 0 /\ (a + 1) \div W = (a \div W) + 1
         /\ (a % W) + 1 <  W => (a + 1) % W = (a % W) + 1 /\ (a + 1) \div W = a \div W
<1> DEFINE p == a \div W
           r == a % W
<1>1. p \in Int /\ r \in 0 .. W - 1 /\ a = W * p + r
  BY DivMod
<1> HIDE DEF p, r
<1>2. CASE r + 1 >= W
  <2>1. a + 1 = W * (p + 1) + 0 /\ p + 1 \in Int /\ 0 \in 0 .. W - 1
    BY <1>1, <1>2, SMT
  <2>2. (W * (p + 1) + 0) % W = 0 /\ (W * (p + 1) + 0) \div W = p + 1
    BY <2>1, DivModUnique
  <2> QED
    BY <1>1, <1>2, <2>1, <2>2, SMT DEF p, r
<1>3. CASE r + 1 < W
  <2>1. a + 1 = W * p + (r + 1) /\ r + 1 \in 0 .. W - 1
    BY <1>1, <1>3, SMT
  <2>2. (W * p + (r + 1)) % W = r + 1 /\ (W * p + (r + 1)) \div W = p
    BY <1>1, <2>1, DivModUnique
  <2> QED
    BY <1>1, <1>3, <2>1, <2>2, SMT DEF p, r
<1> QED
  BY <1>1, <1>2, <1>3, SMT DEF r

\* A quotient is at most q exactly when the dividend is below the next multiple.
LEMMA DivBelow ==
  ASSUME NEW W \in Nat \ {0}, NEW a \in Int, NEW q \in Int
  PROVE  a \div W <= q <=> a < W * q + W
<1> DEFINE p == a \div W
<1>1. p \in Int /\ a % W \in 0 .. W - 1 /\ a = W * p + (a % W)
  BY DivMod
<1> HIDE DEF p
<1>2. CASE p <= q
  <2>1. p = q \/ W * p + W <= W * q
    BY <1>1, <1>2, MultiplesApart, SMT
  <2> QED
    BY <2>1, <1>1, <1>2, SMT DEF p
<1>3. CASE q < p
  <2>1. W * q + W <= W * p
    BY <1>1, <1>3, MultiplesApart
  <2> QED
    BY <2>1, <1>1, <1>3, SMT DEF p
<1> QED
  BY <1>1, <1>2, <1>3, SMT

\* A wrapped index reduced again, to a divisor of the wrap, is the index reduced.
LEMMA ModMod ==
  ASSUME NEW W \in Nat \ {0}, NEW D \in Nat \ {0}, W % D = 0, NEW a \in Int
  PROVE  (a % W) % D = a % D
<1> DEFINE k == W \div D
           p == a \div W
           r == a % W
           q == r \div D
           s == r % D
<1>1. k \in Int /\ W = D * k
  BY DivMod
<1>2. p \in Int /\ r \in 0 .. W - 1 /\ a = W * p + r
  BY DivMod
<1>3. q \in Int /\ s \in 0 .. D - 1 /\ r = D * q + s
  BY <1>2, DivMod
<1> HIDE DEF k, p, r, q, s
<1>4. W * p = D * (k * p)
  BY <1>1, <1>2, SMT
<1>5. a = D * (k * p + q) + s
  BY <1>1, <1>2, <1>3, <1>4, SMT
<1>6. k * p + q \in Int
  BY <1>1, <1>2, <1>3, SMT
<1>7. (D * (k * p + q) + s) % D = s
  BY <1>3, <1>6, DivModUnique
<1> QED
  BY <1>5, <1>7 DEF r, s

\* Residues agree exactly when the difference leaves none.
LEMMA ModCongruent ==
  ASSUME NEW W \in Nat \ {0}, NEW a \in Int, NEW b \in Int
  PROVE  (a - b) % W = 0 <=> a % W = b % W
<1>1. ((a % W) + (-b)) % W = (a + (-b)) % W
  <2>1. -b \in Int
    OBVIOUS
  <2> QED
    BY <2>1, ModAdd
<1>2. ((b % W) + (-b)) % W = (b + (-b)) % W
  <2>1. -b \in Int
    OBVIOUS
  <2> QED
    BY <2>1, ModAdd
<1>3. (((a - b) % W) + b) % W = ((a - b) + b) % W
  <2>1. a - b \in Int
    OBVIOUS
  <2> QED
    BY <2>1, ModAdd
<1>4. a + (-b) = a - b /\ b + (-b) = 0 /\ (a - b) + b = a /\ 0 + b = b
  BY SMT
<1>5. 0 % W = 0
  BY SMT
<1>6. ASSUME (a - b) % W = 0
      PROVE  a % W = b % W
  BY <1>3, <1>4, <1>6
<1>7. ASSUME a % W = b % W
      PROVE  (a - b) % W = 0
  BY <1>1, <1>2, <1>4, <1>5, <1>7
<1> QED
  BY <1>6, <1>7

=============================================================================
