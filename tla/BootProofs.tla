------------------------------ MODULE BootProofs ------------------------------
(***************************************************************************)
(* Boot for every policy, set of outputs and devices, memory and number of *)
(* attempts.                                                               *)
(*                                                                         *)
(* The memory test of plat_post.c finds every single fault of the kinds    *)
(* plat_post.h names, for every number of address and data lines and every *)
(* region of at least two words.  No two offsets drive the same lines, so  *)
(* the pass that writes addresses as data reads a foreign pattern wherever *)
(* two offsets share a cell; its complement and the walking one then catch *)
(* each line that carries less or more than it was given.  That powers of  *)
(* two double is taken from the cardinality of a powerset, the one fact    *)
(* about them the library proves.                                          *)
(*                                                                         *)
(* What has passed: each step answers for outputs, memory or devices, and  *)
(* no later one touches them, so they hold from the moment it passes.      *)
(*                                                                         *)
(* The attempts: until boot ends nothing is cleared and nobody else        *)
(* reports a step's class, so its reports are the attempts made.  A pass   *)
(* that boot waits for visits the class and leaves no report unserviced;   *)
(* the tier rule has by then elevated a critical class whose limit is      *)
(* spent, and whatever is elevated, or severe, was escalated.              *)
(*                                                                         *)
(* A clean start: a step that was never late left no report behind, and    *)
(* the classes of the others are cleared when boot declares success.       *)
(***************************************************************************)
EXTENDS Boot, FdirProofs, ModularArithmetic, FiniteSetTheorems

-----------------------------------------------------------------------------
\* A set of numbers that holds zero and with each number the next holds them all.
LEMMA AllNumbers ==
    ASSUME NEW S \in SUBSET Nat, 0 \in S, \A n \in S : n + 1 \in S
    PROVE  S = Nat
<1> DEFINE R == OpToRel(<, Nat)
<1> SUFFICES ASSUME Nat \ S # {} PROVE FALSE
  OBVIOUS
<1>1. IsWellFoundedOn(R, Nat)
  BY NatLessThanWellFounded
<1>2. PICK x \in Nat \ S : \A y \in Nat \ S : ~(<<y, x>> \in R)
  <2> HIDE DEF R
  <2>1. Nat \ S \subseteq Nat
    OBVIOUS
  <2> QED
    BY <1>1, <2>1, WFMin
<1>3. \A y \in Nat \ S : ~(y < x)
  BY <1>2 DEF OpToRel
<1>4. x \in Nat /\ x # 0
  BY <1>2
<1>5. x - 1 \in Nat /\ (x - 1) + 1 = x /\ x - 1 < x
  BY <1>4
<1>6. x - 1 \in S
  BY <1>3, <1>5
<1> QED
  BY <1>2, <1>5, <1>6

\* Each subset of 1 .. n is met twice among those of 1 .. n + 1.
LEMMA PowersDouble ==
    ASSUME NEW n \in Nat
    PROVE  2^n \in Nat /\ 2^(n + 1) = 2 * 2^n
<1> DEFINE S == 1 .. n
           T == 1 .. n + 1
           With == {X \cup {n + 1} : X \in SUBSET S}
<1>1. /\ IsFiniteSet(S) /\ Cardinality(S) = n
      /\ IsFiniteSet(T) /\ Cardinality(T) = n + 1
  BY FS_Interval
<1>2. IsFiniteSet(SUBSET S) /\ Cardinality(SUBSET S) = 2^n
  BY <1>1, FS_SUBSET
<1>3. Cardinality(SUBSET T) = 2^(n + 1)
  BY <1>1, FS_SUBSET
<1>4. n + 1 \notin S /\ T = S \cup {n + 1}
  OBVIOUS
<1> HIDE DEF S, T
<1>5. SUBSET T = (SUBSET S) \cup With
  <2>1. ASSUME NEW X \in SUBSET T, X \notin SUBSET S
        PROVE  X \in With
    <3>1. X = (X \ {n + 1}) \cup {n + 1} /\ X \ {n + 1} \in SUBSET S
      BY <1>4, <2>1
    <3> QED
      BY <3>1
  <2>2. (SUBSET S) \cup With \subseteq SUBSET T
    BY <1>4
  <2> QED
    BY <2>1, <2>2
<1>6. (SUBSET S) \cap With = {}
  BY <1>4
<1>7. IsFiniteSet(With) /\ Cardinality(With) = Cardinality(SUBSET S)
  <2> DEFINE g == [X \in SUBSET S |-> X \cup {n + 1}]
  <2>1. g \in Bijection(SUBSET S, With)
    <3>1. g \in [SUBSET S -> With]
      OBVIOUS
    <3>2. \A X, Y \in SUBSET S : g[X] = g[Y] => X = Y
      BY <1>4
    <3>3. \A Z \in With : \E X \in SUBSET S : g[X] = Z
      OBVIOUS
    <3> QED
      BY <3>1, <3>2, <3>3 DEF Bijection, Injection, Surjection, IsInjective
  <2>2. ExistsBijection(SUBSET S, With)
    BY <2>1 DEF ExistsBijection
  <2> QED
    BY <1>2, <2>2, FS_Bijection
<1>8. Cardinality(SUBSET T) = Cardinality(SUBSET S) + Cardinality(With) - Cardinality({})
  <2> HIDE DEF With
  <2> QED
    BY <1>2, <1>5, <1>6, <1>7, FS_Union
<1>9. Cardinality(SUBSET S) \in Nat /\ Cardinality({}) = 0
  BY <1>2, FS_CardinalityType, FS_EmptySet
<1> QED
  BY <1>2, <1>3, <1>7, <1>8, <1>9

\* No power of two is zero.
LEMMA PowersPositive ==
    ASSUME NEW n \in Nat PROVE 2^n \in Nat \ {0}
<1> DEFINE S == {m \in Nat : 2^m \in Nat \ {0}}
<1>1. 2^0 = 1
  OBVIOUS
<1>2. ASSUME NEW m \in S
      PROVE  m + 1 \in S
  <2>1. 2^m \in Nat \ {0} /\ 2^(m + 1) = 2 * 2^m /\ m + 1 \in Nat
    BY PowersDouble
  <2>2. 2 * 2^m \in Nat \ {0}
    BY <2>1
  <2> QED
    BY <2>1, <2>2
<1>3. S = Nat
  <2>1. 0 \in S /\ S \in SUBSET Nat
    BY <1>1
  <2> HIDE DEF S
  <2> QED
    BY <1>2, <2>1, AllNumbers
<1> QED
  BY <1>3

\* Halving and then dividing is dividing by twice as much.
LEMMA HalfDivided ==
    ASSUME NEW m \in Nat, NEW q \in Nat \ {0}
    PROVE  (m \div 2) \div q = m \div (2 * q)
<1> DEFINE h == m \div 2
           r == m % 2
           t == h \div q
           s == h % q
<1>1. h \in Int /\ r \in 0 .. 1 /\ m = 2 * h + r
  BY DivMod
<1>2. t \in Int /\ s \in 0 .. q - 1 /\ h = q * t + s
  BY <1>1, DivMod
<1> HIDE DEF h, r, t, s
<1>3. m = (2 * q) * t + (2 * s + r)
  BY <1>1, <1>2, SMT
<1>4. 2 * s + r \in 0 .. (2 * q) - 1 /\ 2 * q \in Nat \ {0}
  BY <1>1, <1>2
<1>5. ((2 * q) * t + (2 * s + r)) \div (2 * q) = t
  BY <1>2, <1>4, DivModUnique
<1> QED
  BY <1>3, <1>5 DEF t, h

SameBits(lines, m, n) ==
    \A k \in 0 .. lines - 1 : (m \div 2^k) % 2 = (n \div 2^k) % 2
BitsTell(lines) ==
    \A m, n \in 0 .. 2^lines - 1 : SameBits(lines, m, n) => m = n

\* Numbers of so many bits that have the same bits are the same.
LEMMA BitsTellApart ==
    ASSUME NEW lines \in Nat PROVE BitsTell(lines)
<1>1. BitsTell(0)
  <2>1. 2^0 = 1
    OBVIOUS
  <2> QED
    BY <2>1 DEF BitsTell
<1>2. ASSUME NEW j \in Nat, BitsTell(j)
      PROVE  BitsTell(j + 1)
  <2> SUFFICES ASSUME NEW m \in 0 .. 2^(j + 1) - 1, NEW n \in 0 .. 2^(j + 1) - 1,
                      SameBits(j + 1, m, n)
               PROVE  m = n
    BY DEF BitsTell
  <2>1. 2^j \in Nat /\ 2^(j + 1) = 2 * 2^j /\ 2^0 = 1
    BY PowersDouble
  <2>2. /\ m \in Nat /\ n \in Nat /\ m \in Int /\ n \in Int
        /\ m < 2 * 2^j /\ n < 2 * 2^j
    BY <2>1
  <2>3. /\ m \div 2 \in Int /\ m % 2 \in 0 .. 1 /\ m = 2 * (m \div 2) + (m % 2)
        /\ n \div 2 \in Int /\ n % 2 \in 0 .. 1 /\ n = 2 * (n \div 2) + (n % 2)
    BY <2>2, DivMod
  <2>4. m \div 2 \in 0 .. 2^j - 1 /\ n \div 2 \in 0 .. 2^j - 1
    BY <2>1, <2>2, <2>3
  <2>5. m % 2 = n % 2
    <3>1. 0 \in 0 .. (j + 1) - 1 /\ m \div 1 = m /\ n \div 1 = n
      BY <2>2
    <3>2. (m \div 2^0) % 2 = (n \div 2^0) % 2
      BY <3>1 DEF SameBits
    <3> QED
      BY <2>1, <3>1, <3>2
  <2>6. ASSUME NEW k \in 0 .. j - 1
        PROVE  ((m \div 2) \div 2^k) % 2 = ((n \div 2) \div 2^k) % 2
    <3>1. k \in Nat /\ k + 1 \in 0 .. (j + 1) - 1
      OBVIOUS
    <3>2. 2^k \in Nat \ {0} /\ 2^(k + 1) = 2 * 2^k
      BY <3>1, PowersDouble, PowersPositive
    <3>3. /\ (m \div 2) \div 2^k = m \div 2^(k + 1)
          /\ (n \div 2) \div 2^k = n \div 2^(k + 1)
      BY <2>2, <3>2, HalfDivided
    <3>4. (m \div 2^(k + 1)) % 2 = (n \div 2^(k + 1)) % 2
      BY <3>1 DEF SameBits
    <3> QED
      BY <3>3, <3>4
  <2>7. m \div 2 = n \div 2
    <3>1. SameBits(j, m \div 2, n \div 2)
      BY <2>6 DEF SameBits
    <3> QED
      BY <1>2, <2>4, <3>1 DEF BitsTell
  <2> QED
    BY <2>3, <2>5, <2>7
<1> DEFINE S == {j \in Nat : BitsTell(j)}
<1>3. S = Nat
  <2>1. 0 \in S /\ S \in SUBSET Nat /\ \A j \in S : j + 1 \in S
    BY <1>1, <1>2
  <2> HIDE DEF S
  <2> QED
    BY <2>1, AllNumbers
<1> QED
  BY <1>3

-----------------------------------------------------------------------------
USE LineAssumption

\* No two offsets of a region drive the same address lines.
LEMMA OffsetsApart ==
    ASSUME NEW words \in RegionSizes, NEW m \in Offsets(words), NEW n \in Offsets(words),
           Bits(m) = Bits(n)
    PROVE  m = n
<1>1. 2^AddressLines \in Nat
  BY PowersDouble
<1>2. m \in 0 .. 2^AddressLines - 1 /\ n \in 0 .. 2^AddressLines - 1 /\ m \in Nat /\ n \in Nat
  BY <1>1 DEF RegionSizes, Offsets
<1>3. SameBits(AddressLines, m, n)
  <2>1. ASSUME NEW k \in 0 .. AddressLines - 1
        PROVE  (m \div 2^k) % 2 = (n \div 2^k) % 2
    <3>1. (m \div 2^k) % 2 = 1 <=> (n \div 2^k) % 2 = 1
      BY DEF Bits, AddressLine
    <3>2. k \in Nat /\ m \in Int /\ n \in Int
      BY <1>2
    <3>3. 2^k \in Nat \ {0}
      BY <3>2, PowersPositive
    <3>4. m \div 2^k \in Int /\ n \div 2^k \in Int
      BY <3>2, <3>3, DivMod
    <3>5. (m \div 2^k) % 2 \in 0 .. 1 /\ (n \div 2^k) % 2 \in 0 .. 1
      BY <3>4, DivMod
    <3> QED
      BY <3>1, <3>5
  <2> QED
    BY <2>1 DEF SameBits
<1> QED
  BY <1>2, <1>3, BitsTellApart DEF BitsTell

\* A set of positions in a sequence that is not empty has a last one.
LEMMA LastExists ==
    ASSUME NEW n \in Nat, NEW S \in SUBSET (1 .. n), S # {}
    PROVE  \E i \in S : \A j \in S : j <= i
<1> DEFINE Back == {n - i : i \in S}
           R    == OpToRel(<, Nat)
<1>1. Back \subseteq Nat /\ Back # {}
  <2>1. ASSUME NEW i \in S
        PROVE  n - i \in Nat
    BY <2>1
  <2>2. PICK i \in S : TRUE
    OBVIOUS
  <2>3. n - i \in Back
    OBVIOUS
  <2> QED
    BY <2>1, <2>3
<1>2. IsWellFoundedOn(R, Nat)
  BY NatLessThanWellFounded
<1>3. PICK x \in Back : \A y \in Back : ~(<<y, x>> \in R)
  <2> HIDE DEF R, Back
  <2> QED
    BY <1>1, <1>2, WFMin
<1>4. \A y \in Back : ~(y < x)
  BY <1>1, <1>3 DEF OpToRel
<1>5. PICK i \in S : x = n - i
  OBVIOUS
<1>6. ASSUME NEW j \in S
      PROVE  j <= i
  <2>1. n - j \in Back
    OBVIOUS
  <2>2. ~(n - j < n - i)
    BY <1>4, <1>5, <2>1
  <2> QED
    BY <2>2
<1> QED
  BY <1>6

CellOrder(words) == [i \in 1 .. words |-> i - 1]
CellWriter(mem, words, n) == LastWriter(mem, CellOrder(words), n)

\* The offset whose word an offset holds after a pass is one that shares its cell, and
\* the same one for all that do.
LEMMA CellWriterShares ==
    ASSUME NEW mem, NEW words \in RegionSizes, NEW n \in Offsets(words)
    PROVE  LET w == CellWriter(mem, words, n)
           IN  /\ w \in Offsets(words)
               /\ Decoded(mem, Bits(w)) = Decoded(mem, Bits(n))
               /\ \A m \in Offsets(words) :
                      Decoded(mem, Bits(m)) = Decoded(mem, Bits(n))
                          => CellWriter(mem, words, m) = w
<1> DEFINE order == CellOrder(words)
           Same(m) == {i \in DOMAIN order :
                          Decoded(mem, Bits(order[i])) = Decoded(mem, Bits(m))}
           Latest(m) == CHOOSE i \in Same(m) : \A j \in Same(m) : j <= i
<1>1. /\ words \in Nat /\ DOMAIN order = 1 .. words
      /\ \A i \in 1 .. words : order[i] = i - 1
  BY PowersDouble DEF RegionSizes, CellOrder
<1>2. n + 1 \in 1 .. words /\ order[n + 1] = n
  BY <1>1 DEF Offsets
<1>3. \A m : CellWriter(mem, words, m) = order[Latest(m)]
  BY DEF CellWriter, LastWriter
<1> HIDE DEF order
<1>4. Same(n) \subseteq 1 .. words /\ n + 1 \in Same(n)
  BY <1>1, <1>2
<1>5. \E i \in Same(n) : \A j \in Same(n) : j <= i
  <2> HIDE DEF Same
  <2> QED
    BY <1>1, <1>4, LastExists
<1>6. Latest(n) \in Same(n)
  <2> HIDE DEF Same
  <2> QED
    BY <1>5
<1>7. ASSUME NEW m, Decoded(mem, Bits(m)) = Decoded(mem, Bits(n))
      PROVE  Latest(m) = Latest(n)
  <2>1. Same(m) = Same(n)
    BY <1>7
  <2> HIDE DEF Same
  <2> QED
    BY <2>1
<1>8. order[Latest(n)] \in Offsets(words)
  <2>1. Latest(n) \in 1 .. words
    BY <1>4, <1>6
  <2> HIDE DEF Latest
  <2> QED
    BY <1>1, <2>1 DEF Offsets
<1>9. Decoded(mem, Bits(order[Latest(n)])) = Decoded(mem, Bits(n))
  BY <1>6
<1> HIDE DEF Latest
<1> QED
  BY <1>3, <1>7, <1>8, <1>9

\* What the two passes over the cells read back.
LEMMA CellsRead ==
    ASSUME NEW mem, NEW words \in RegionSizes, CellsPass(mem, words),
           NEW n \in Offsets(words)
    PROVE  LET w == CellWriter(mem, words, n)
           IN  /\ Returned(mem, Bits(n), Bits(w)) = Bits(n)
               /\ Returned(mem, Bits(n), DataLine \ Bits(w)) = DataLine \ Bits(n)
<1> DEFINE w == CellWriter(mem, words, n)
           pattern(inverted) ==
               [o \in Offsets(words) |-> IF inverted THEN DataLine \ Bits(o) ELSE Bits(o)]
<1>1. /\ words \in Nat /\ DOMAIN CellOrder(words) = 1 .. words
      /\ n + 1 \in 1 .. words /\ CellOrder(words)[n + 1] = n
  BY PowersDouble DEF RegionSizes, CellOrder, Offsets
<1>2. w \in Offsets(words)
  BY CellWriterShares
<1>3. ASSUME NEW inverted \in BOOLEAN
      PROVE  Returned(mem, Bits(n), pattern(inverted)[w]) = pattern(inverted)[n]
  <2>1. HoldsPattern(mem, CellOrder(words), pattern(inverted))
    BY DEF CellsPass, CellPasses, CellOrder
  <2> HIDE DEF pattern
  <2> QED
    BY <1>1, <2>1 DEF HoldsPattern, CellWriter
<1>4. pattern(FALSE)[w] = Bits(w) /\ pattern(FALSE)[n] = Bits(n)
  <2> HIDE DEF w
  <2> QED
    BY <1>2
<1>5. pattern(TRUE)[w] = DataLine \ Bits(w) /\ pattern(TRUE)[n] = DataLine \ Bits(n)
  <2> HIDE DEF w
  <2> QED
    BY <1>2
<1> HIDE DEF pattern
<1> QED
  BY <1>3, <1>4, <1>5

\* What the walking one reads back.
LEMMA WalkingOneRead ==
    ASSUME NEW mem, DataLinesPass(mem), NEW l \in DataLine
    PROVE  Returned(mem, Bits(0), {l}) = {l}
<1> DEFINE order   == <<0>>
           pattern == [n \in {0} |-> {l}]
<1>1. HoldsPattern(mem, order, pattern)
  BY DEF DataLinesPass
<1>2. DOMAIN order = {1} /\ order[1] = 0
  OBVIOUS
<1>3. LastWriter(mem, order, 0) = 0
  <2> HIDE DEF order
  <2>1. {i \in DOMAIN order :
            Decoded(mem, Bits(order[i])) = Decoded(mem, Bits(0))} = {1}
    BY <1>2
  <2>2. (CHOOSE i \in {1} : \A j \in {1} : j <= i) = 1
    OBVIOUS
  <2> QED
    BY <1>2, <2>1, <2>2 DEF LastWriter
<1>4. Returned(mem, Bits(0), pattern[0]) = pattern[0]
  <2> HIDE DEF order, pattern
  <2>1. order[1] = 0 /\ 1 \in DOMAIN order
    BY <1>2
  <2> QED
    BY <1>1, <1>3, <2>1 DEF HoldsPattern
<1> QED
  BY <1>4

-----------------------------------------------------------------------------
\* What a memory is: sound, or with the one fault the test is about.
LEMMA MemoryKinds ==
    ASSUME NEW mem \in Memories
    PROVE  \/ mem.at = "nowhere"
           \/ mem.at = "address"
           \/ /\ mem.at = "cell" /\ mem.effect \in {"stuck at one", "stuck at zero"}
              /\ \E l \in DataLine : mem.lines = {l}
           \/ /\ mem.at = "data" /\ mem.effect \in {"stuck at one", "stuck at zero"}
              /\ \E l \in DataLine : mem.lines = {l}
           \/ /\ mem.at = "data" /\ mem.effect \in {"wired and", "wired or"}
              /\ \E k, l \in DataLine : mem.lines = {k, l}
<1>1. CASE mem = Sound
  BY <1>1 DEF Sound
<1>2. CASE mem \in CellFaults
  BY <1>2 DEF CellFaults
<1>3. ASSUME NEW where, NEW lines, mem \in BusFaults(where, lines)
      PROVE  /\ mem.at = where
             /\ \/ /\ mem.effect \in {"stuck at one", "stuck at zero"}
                   /\ \E l \in lines : mem.lines = {l}
                \/ /\ mem.effect \in {"wired and", "wired or"}
                   /\ \E k, l \in lines : mem.lines = {k, l}
  <2> DEFINE Pairs == {pair \in SUBSET lines : \E k, l \in lines : pair = {k, l}}
             Stuck == [at : {where}, effect : {"stuck at one", "stuck at zero"},
                       lines : {{l} : l \in lines}, cell : {{}}]
             Wired == [at : {where}, effect : {"wired and", "wired or"},
                       lines : Pairs, cell : {{}}]
  <2>1. mem \in Stuck \/ mem \in Wired
    BY <1>3 DEF BusFaults
  <2>2. CASE mem \in Stuck
    BY <2>2
  <2>3. CASE mem \in Wired
    BY <2>3
  <2> HIDE DEF Stuck, Wired
  <2> QED
    BY <2>1, <2>2, <2>3
<1>4. CASE mem \in BusFaults("address", AddressLine) \/ mem \in BusFaults("data", DataLine)
  BY <1>3, <1>4
<1> QED
  BY <1>1, <1>2, <1>4 DEF Memories

\* No two words are one cell: a foreign pattern would have been read.
LEMMA CellsDistinct ==
    ASSUME NEW mem \in Memories, NEW words \in RegionSizes, CellsPass(mem, words),
           NEW m \in Offsets(words), NEW n \in Offsets(words),
           Decoded(mem, Bits(m)) = Decoded(mem, Bits(n))
    PROVE  m = n
<1>1. CASE mem.at # "address"
  BY <1>1, OffsetsApart DEF Decoded
<1>2. CASE mem.at = "address"
  <2> DEFINE w == CellWriter(mem, words, n)
  <2>1. w = CellWriter(mem, words, m)
    BY CellWriterShares
  <2>2. /\ Returned(mem, Bits(n), Bits(w)) = Bits(n)
        /\ Returned(mem, Bits(m), Bits(w)) = Bits(m)
    <3>1. Returned(mem, Bits(n), Bits(w)) = Bits(n)
      BY CellsRead
    <3>2. Returned(mem, Bits(m), Bits(CellWriter(mem, words, m))) = Bits(m)
      BY CellsRead
    <3> QED
      BY <2>1, <3>1, <3>2
  <2>3. mem.at # "data" /\ mem.at # "cell"
    BY <1>2
  <2>4. \A address, word : Stored(mem, address, word) = word
    BY <2>3 DEF Stored
  <2>5. \A word : OverData(mem, word) = word
    BY <2>3 DEF OverData
  <2>6. \A address, word : Returned(mem, address, word) = word
    BY <2>4, <2>5 DEF Returned
  <2>7. Bits(m) = Bits(n)
    BY <2>2, <2>6
  <2> QED
    BY <2>7, OffsetsApart
<1> QED
  BY <1>1, <1>2

\* A bit stuck in a cell of the region would have shown in one of the two passes.
LEMMA CellsRetain ==
    ASSUME NEW mem \in Memories, mem.at = "cell",
           NEW words \in RegionSizes, CellsPass(mem, words),
           NEW n \in Offsets(words), NEW word \in SUBSET DataLine
    PROVE  Returned(mem, Bits(n), word) = word
<1>1. \A v : Returned(mem, Bits(n), v) =
                 IF mem.cell = Bits(n) THEN Bus(mem, v) ELSE v
  BY DEF Returned, OverData, Stored, Decoded
<1>2. CellWriter(mem, words, n) = n
  BY CellWriterShares, CellsDistinct
<1>3. /\ Returned(mem, Bits(n), Bits(n)) = Bits(n)
      /\ Returned(mem, Bits(n), DataLine \ Bits(n)) = DataLine \ Bits(n)
  <2> DEFINE w == CellWriter(mem, words, n)
  <2>1. /\ Returned(mem, Bits(n), Bits(w)) = Bits(n)
        /\ Returned(mem, Bits(n), DataLine \ Bits(w)) = DataLine \ Bits(n)
    BY CellsRead
  <2> HIDE DEF w
  <2>2. w = n
    BY <1>2 DEF w
  <2> QED
    BY <2>1, <2>2
<1>4. PICK l \in DataLine : mem.lines = {l}
  BY MemoryKinds
<1>5. CASE mem.effect = "stuck at one"
  <2>1. \A v : Bus(mem, v) = v \cup {l}
    BY <1>4, <1>5 DEF Bus
  <2>2. mem.cell # Bits(n)
    BY <1>1, <1>3, <2>1
  <2> QED
    BY <1>1, <2>2
<1>6. CASE mem.effect = "stuck at zero"
  <2>1. \A v : Bus(mem, v) = v \ {l}
    BY <1>4, <1>6 DEF Bus
  <2>2. mem.cell # Bits(n)
    BY <1>1, <1>3, <1>4, <2>1
  <2> QED
    BY <1>1, <2>2
<1> QED
  BY <1>5, <1>6, MemoryKinds

\* Data lines stuck or shorted would have changed the walking one.
LEMMA DataCarried ==
    ASSUME NEW mem \in Memories, mem.at = "data", DataLinesPass(mem),
           NEW address, NEW word \in SUBSET DataLine
    PROVE  Returned(mem, address, word) = word
<1>1. \A a, v : Returned(mem, a, v) = Bus(mem, Bus(mem, v))
  BY DEF Returned, OverData, Stored
<1>2. \A l \in DataLine : Bus(mem, Bus(mem, {l})) = {l}
  BY <1>1, WalkingOneRead
<1>3. 0 \in DataLine /\ 1 \in DataLine
  BY DEF DataLine
<1>4. CASE mem.effect = "stuck at one" /\ \E l \in DataLine : mem.lines = {l}
  <2>1. PICK l \in DataLine : mem.lines = {l}
    BY <1>4
  <2>2. \A v : Bus(mem, v) = v \cup {l}
    BY <1>4, <2>1 DEF Bus
  <2>3. {0} \cup {l} = {0} /\ {1} \cup {l} = {1}
    BY <1>2, <1>3, <2>2
  <2> QED
    BY <2>3
<1>5. CASE mem.effect = "stuck at zero" /\ \E l \in DataLine : mem.lines = {l}
  <2>1. PICK l \in DataLine : mem.lines = {l}
    BY <1>5
  <2>2. \A v : Bus(mem, v) = v \ {l}
    BY <1>5, <2>1 DEF Bus
  <2>3. ({l} \ {l}) \ {l} = {l}
    BY <1>2, <2>2
  <2> QED
    BY <2>3
<1>6. CASE mem.effect = "wired and" /\ \E k, l \in DataLine : mem.lines = {k, l}
  <2>1. PICK k \in DataLine, l \in DataLine : mem.lines = {k, l}
    BY <1>6
  <2>2. \A v : Bus(mem, v) = IF {k, l} \subseteq v THEN v ELSE v \ {k, l}
    BY <1>6, <2>1 DEF Bus
  <2>3. k = l
    <3>1. SUFFICES ASSUME k # l PROVE FALSE
      OBVIOUS
    <3>2. Bus(mem, {k}) = {}
      BY <2>2, <3>1
    <3>3. Bus(mem, {}) = {}
      BY <2>2
    <3> QED
      BY <1>2, <3>2, <3>3
  <2>4. \A v : Bus(mem, v) = v
    BY <2>2, <2>3
  <2> QED
    BY <1>1, <2>4
<1>7. CASE mem.effect = "wired or" /\ \E k, l \in DataLine : mem.lines = {k, l}
  <2>1. PICK k \in DataLine, l \in DataLine : mem.lines = {k, l}
    BY <1>7
  <2>2. \A v : Bus(mem, v) = IF {k, l} \cap v = {} THEN v ELSE v \cup {k, l}
    BY <1>7, <2>1 DEF Bus
  <2>3. k = l
    <3>1. Bus(mem, {k}) = {k, l}
      BY <2>2
    <3>2. Bus(mem, {k, l}) = {k, l}
      BY <2>2
    <3>3. {k, l} = {k}
      BY <1>2, <3>1, <3>2
    <3> QED
      BY <3>3
  <2>4. \A v : (IF {k} \cap v = {} THEN v ELSE v \cup {k}) = v
    OBVIOUS
  <2>5. {k, l} = {k}
    BY <2>3
  <2>6. \A v : Bus(mem, v) = v
    BY <2>2, <2>4, <2>5
  <2> QED
    BY <1>1, <2>6
<1> QED
  BY <1>4, <1>5, <1>6, <1>7, MemoryKinds

\* plat_post.h:33-36: plat_post_memory_test() passes no memory with one of the faults it
\* names, in a region of any size and a device of any width.
THEOREM MemoryTestSound ==
    ASSUME NEW mem \in Memories, NEW words \in RegionSizes,
           MemoryTestPasses(mem, words)
    PROVE  MemoryWorks(mem, words)
<1>1. CellsPass(mem, words) /\ DataLinesPass(mem)
  BY DEF MemoryTestPasses
<1>2. \A m, n \in Offsets(words) :
          m # n => Decoded(mem, Bits(m)) # Decoded(mem, Bits(n))
  BY <1>1, CellsDistinct
<1>3. ASSUME NEW m \in Offsets(words), NEW word \in SUBSET DataLine
      PROVE  Returned(mem, Bits(m), word) = word
  <2>1. CASE mem.at \in {"nowhere", "address"}
    BY <2>1 DEF Returned, OverData, Stored
  <2>2. CASE mem.at = "cell"
    BY <1>1, <2>2, CellsRetain
  <2>3. CASE mem.at = "data"
    BY <1>1, <2>3, DataCarried
  <2> QED
    BY <2>1, <2>2, <2>3, MemoryKinds
<1> QED
  BY <1>2, <1>3 DEF MemoryWorks

\* So the verdicts the boot sequence goes by are never a pass on memory that fails.
THEOREM VerdictsSound ==
    \A verdict \in MemoryVerdicts : verdict.passes => verdict.works
<1> SUFFICES ASSUME NEW mem \in Memories, NEW words \in RegionSizes,
                    MemoryTestPasses(mem, words)
             PROVE  MemoryWorks(mem, words)
  BY DEF MemoryVerdicts
<1> QED
  BY MemoryTestSound

-----------------------------------------------------------------------------
(* The sequence over the fault service. *)

USE BootAssumption

\* A step that has passed: the sequence is past it, or services the report of its
\* being late.
Passed(s) == step > s \/ (step = s /\ phase \in {"service", "decide"} /\ ~failed)

Phases == {"early", "halted", "run", "service", "decide", "passed", "loop"}

PlaceInv ==
    /\ phase \in Phases /\ step \in 1 .. StepCount
    /\ phase = "passed" => step = StepCount

OutcomeInv ==
    /\ outcome \in {"pending", "success", "terminal"}
    /\ outcome # "pending" => phase = "loop"
    /\ outcome = "success" => step = StepCount
    /\ locked => outcome = "success"
    /\ aborted => outcome = "terminal"

SafeInv    == safe \subseteq registered /\ (Passed(1) => registered # {} /\ safe = registered)
MemoryInv  == Passed(3) => memory # "faulty"
DevicesInv == Passed(4) => Required \subseteq devices

PassedInv == PlaceInv /\ OutcomeInv /\ SafeInv /\ MemoryInv /\ DevicesInv

\* What a step answers for.
LEMMA StepAnswers ==
    ASSUME PassedInv, NEW answer \in BOOLEAN, RunStep(answer)
    PROVE  /\ safe' \subseteq registered
           /\ step # 1 => safe' = safe
           /\ step # 3 => memory' = memory
           /\ step # 4 => devices' = devices
           /\ step = 1 /\ answer => registered # {} /\ safe' = registered
           /\ step = 3 /\ answer => memory' # "faulty"
           /\ step = 4 /\ answer => Required \subseteq devices'
<1>1. CASE step = 1 /\ ApplySafeOutputs(answer)
  <2>1. PICK now \in SUBSET registered :
            safe' = now /\ answer = AllSafe(now) /\ memory' = memory /\ devices' = devices
    BY <1>1 DEF ApplySafeOutputs
  <2>2. answer => AllSafe(now)
    BY <2>1, Zenon
  <2>3. answer => registered # {} /\ safe' = registered
    BY <2>1, <2>2, Zenon DEF AllSafe
  <2> QED
    BY <1>1, <2>1, <2>3
<1>2. CASE step \in {2, 5} /\ CallHook
  BY <1>2 DEF CallHook, PassedInv, SafeInv
<1>3. CASE step = 3 /\ SelfTest(answer)
  <2>1. safe' = safe /\ devices' = devices
    BY <1>3 DEF SelfTest
  <2>2. ASSUME answer
        PROVE  memory' # "faulty"
    <3>1. CASE memory = "untested" /\ memory' = "untested"
      BY <3>1
    <3>2. CASE \E verdict \in MemoryVerdicts, othersPass \in BOOLEAN :
                  /\ memory' = IF verdict.works THEN "works" ELSE "faulty"
                  /\ answer = (verdict.passes /\ othersPass)
      <4>1. PICK verdict \in MemoryVerdicts, othersPass \in BOOLEAN :
                  /\ memory' = IF verdict.works THEN "works" ELSE "faulty"
                  /\ answer = (verdict.passes /\ othersPass)
        BY <3>2
      <4>2. verdict.passes
        BY <2>2, <4>1, Zenon
      <4>3. verdict.works
        BY <4>2, VerdictsSound
      <4> QED
        BY <4>1, <4>3
    <3> QED
      BY <1>3, <3>1, <3>2, Zenon DEF SelfTest
  <2> QED
    BY <1>3, <2>1, <2>2 DEF PassedInv, SafeInv
<1>4. CASE step = 4 /\ InitDevices(answer)
  <2>1. PICK good \in SUBSET Device :
            /\ devices' = (devices \ {d \in Device : StageRuns(Tier[d], good)})
                              \cup (good \cap {d \in Device : StageRuns(Tier[d], good)})
            /\ answer = ~DevicesFail(good)
            /\ safe' = safe /\ memory' = memory
    BY <1>4 DEF InitDevices
  <2>2. ASSUME answer
        PROVE  Required \subseteq devices'
    <3>1. \A t \in 1 .. TierCount : ~StageFails(t, good)
      BY <2>1, <2>2, Zenon DEF DevicesFail
    <3>2. \A d \in Required : Tier[d] \in 1 .. TierCount /\ d \in Device
      BY DEF BootAssumption
    <3>3. Required \subseteq good
      BY <3>1, <3>2 DEF StageFails
    <3>4. \A d \in Required : StageRuns(Tier[d], good)
      BY <3>1, <3>2 DEF StageRuns
    <3> QED
      BY <2>1, <3>2, <3>3, <3>4
  <2> QED
    BY <1>4, <2>1, <2>2 DEF PassedInv, SafeInv
<1> QED
  BY <1>1, <1>2, <1>3, <1>4 DEF RunStep, StepOf

\* What the sequence goes on to is passed as far as the step it leaves.
LEMMA GoesOnPasses ==
    ASSUME PlaceInv, GoesOn
    PROVE  /\ PlaceInv'
           /\ \A s \in 1 .. StepCount : Passed(s)' => s <= step
<1>1. CASE step < StepCount /\ step' = step + 1 /\ phase' = "run"
  BY <1>1 DEF PlaceInv, Phases, Passed, StepCount
<1>2. CASE ~(step < StepCount) /\ step' = step /\ phase' = "passed"
  BY <1>2 DEF PlaceInv, Phases, Passed, StepCount
<1> QED
  BY <1>1, <1>2 DEF GoesOn

\* Steps that touch neither outputs, memory nor devices, and pass no step.
LEMMA NothingPasses ==
    ASSUME PassedInv, UNCHANGED <<registered, safe, memory, devices>>,
           \A s \in 1 .. StepCount : Passed(s)' => Passed(s)
    PROVE  SafeInv' /\ MemoryInv' /\ DevicesInv'
<1>1. {1, 3, 4} \subseteq 1 .. StepCount
  BY DEF StepCount
<1> QED
  BY <1>1 DEF PassedInv, SafeInv, MemoryInv, DevicesInv

\* An attempt in time that answers QIRAN_OK.
LEMMA PassesStep ==
    ASSUME PassedInv, AttemptPasses
    PROVE  PassedInv'
<1>1. /\ phase = "run" /\ GoesOn /\ registered' = registered
      /\ outcome' = outcome /\ locked' = locked /\ aborted' = aborted
  BY DEF AttemptPasses
<1>2. /\ safe' \subseteq registered
      /\ step # 1 => safe' = safe
      /\ step # 3 => memory' = memory
      /\ step # 4 => devices' = devices
      /\ step = 1 => registered # {} /\ safe' = registered
      /\ step = 3 => memory' # "faulty"
      /\ step = 4 => Required \subseteq devices'
  <2>1. RunStep(TRUE) /\ TRUE \in BOOLEAN
    BY DEF AttemptPasses
  <2> QED
    BY <2>1, StepAnswers
<1>3. PlaceInv /\ step \in 1 .. StepCount
  BY DEF PassedInv, PlaceInv
<1>4. PlaceInv' /\ \A s \in 1 .. StepCount : Passed(s)' => s <= step
  BY <1>1, <1>3, GoesOnPasses
<1>5. OutcomeInv'
  <2>1. outcome = "pending" /\ ~locked /\ ~aborted
    BY <1>1 DEF PassedInv, OutcomeInv
  <2> QED
    BY <1>1, <2>1 DEF OutcomeInv
<1>6. \A s \in 1 .. StepCount : Passed(s)' => s = step \/ Passed(s)
  BY <1>3, <1>4 DEF Passed
<1>7. {1, 3, 4} \subseteq 1 .. StepCount
  BY DEF StepCount
<1>8. SafeInv' /\ MemoryInv' /\ DevicesInv'
  BY <1>1, <1>2, <1>6, <1>7 DEF PassedInv, SafeInv, MemoryInv, DevicesInv
<1> QED
  BY <1>4, <1>5, <1>8 DEF PassedInv

\* An attempt that is reported: only one that was late and not refused passes.
LEMMA ReportsStep ==
    ASSUME PassedInv, NEW late \in BOOLEAN, AttemptReports(late)
    PROVE  PassedInv'
<1>1. /\ phase = "run" /\ phase' = "service" /\ step' = step /\ registered' = registered
      /\ outcome' = outcome /\ locked' = locked /\ aborted' = aborted
  BY DEF AttemptReports
<1>2. failed' = ~late
  BY DEF AttemptReports
<1>3. /\ safe' \subseteq registered
      /\ step # 1 => safe' = safe
      /\ step # 3 => memory' = memory
      /\ step # 4 => devices' = devices
      /\ step = 1 /\ late => registered # {} /\ safe' = registered
      /\ step = 3 /\ late => memory' # "faulty"
      /\ step = 4 /\ late => Required \subseteq devices'
  <2>1. RunStep(late)
    BY DEF AttemptReports
  <2> QED
    BY <2>1, StepAnswers
<1>4. PlaceInv'
  BY <1>1 DEF PassedInv, PlaceInv, Phases
<1>5. OutcomeInv'
  <2>1. outcome = "pending" /\ ~locked /\ ~aborted
    BY <1>1 DEF PassedInv, OutcomeInv
  <2> QED
    BY <1>1, <2>1 DEF OutcomeInv
<1>6. \A s \in 1 .. StepCount : Passed(s)' => (s = step /\ late) \/ (s # step /\ Passed(s))
  <2>1. ~failed' => late
    BY <1>2, Zenon
  <2>2. step \in 1 .. StepCount
    BY DEF PassedInv, PlaceInv
  <2> QED
    BY <1>1, <2>1, <2>2 DEF Passed, StepCount
<1>7. {1, 3, 4} \subseteq 1 .. StepCount
  BY DEF StepCount
<1>8. SafeInv' /\ MemoryInv' /\ DevicesInv'
  BY <1>1, <1>3, <1>6, <1>7 DEF PassedInv, SafeInv, MemoryInv, DevicesInv
<1> QED
  BY <1>4, <1>5, <1>8 DEF PassedInv

\* The pass of the fault service, and what the boot sequence decides after it.
LEMMA DecidesStep ==
    ASSUME PassedInv, Service \/ StepSlow \/ StepRetried \/ StepGivenUp
    PROVE  PassedInv'
<1>1. UNCHANGED <<registered, safe, memory, devices>> /\ failed' = failed /\ locked' = locked
  BY DEF Service, StepSlow, StepRetried, StepGivenUp
<1>2. phase \in {"service", "decide"}
  BY DEF Service, StepSlow, StepRetried, StepGivenUp
<1>3. outcome = "pending" /\ ~locked /\ ~aborted
  BY <1>2 DEF PassedInv, OutcomeInv
<1>4. PlaceInv
  BY DEF PassedInv
<1>5. CASE Service
  <2>1. phase = "service" /\ phase' \in {"service", "decide"}
    BY <1>5 DEF Service, ServicePass
  <2>2. step' = step /\ outcome' = outcome /\ aborted' = aborted
    BY <1>5 DEF Service
  <2>3. PlaceInv'
    BY <1>4, <2>1, <2>2 DEF PlaceInv, Phases
  <2>4. OutcomeInv'
    BY <1>1, <1>3, <2>2 DEF OutcomeInv
  <2>5. \A s \in 1 .. StepCount : Passed(s)' => Passed(s)
    BY <1>1, <2>1, <2>2 DEF Passed
  <2> QED
    BY <1>1, <2>3, <2>4, <2>5, NothingPasses DEF PassedInv
<1>6. CASE StepSlow
  <2>1. phase = "decide" /\ GoesOn /\ outcome' = outcome /\ aborted' = aborted
    BY <1>6 DEF StepSlow
  <2>2. ~failed
    BY <1>6, Zenon DEF StepSlow
  <2>3. PlaceInv' /\ \A s \in 1 .. StepCount : Passed(s)' => s <= step
    BY <1>4, <2>1, GoesOnPasses
  <2>4. OutcomeInv'
    BY <1>1, <1>3, <2>1 DEF OutcomeInv
  <2>5. \A s \in 1 .. StepCount : Passed(s)' => Passed(s)
    BY <1>4, <2>1, <2>2, <2>3 DEF Passed, PlaceInv
  <2> QED
    BY <1>1, <2>3, <2>4, <2>5, NothingPasses DEF PassedInv
<1>7. CASE StepRetried \/ StepGivenUp
  <2>1. /\ step' = step
        /\ \/ phase' = "run" /\ outcome' = outcome /\ aborted' = aborted
           \/ phase' = "loop" /\ outcome' = "terminal"
    BY <1>7 DEF StepRetried, StepGivenUp
  <2>2. PlaceInv'
    BY <1>4, <2>1 DEF PlaceInv, Phases
  <2>3. OutcomeInv'
    BY <1>1, <1>3, <2>1 DEF OutcomeInv
  <2>4. \A s \in 1 .. StepCount : Passed(s)' => Passed(s)
    BY <2>1 DEF Passed
  <2> QED
    BY <1>1, <2>2, <2>3, <2>4, NothingPasses DEF PassedInv
<1> QED
  BY <1>5, <1>6, <1>7

\* What happens before, after and around the sequence.
LEMMA OtherSteps ==
    ASSUME PassedInv,
           \/ EarlyInit \/ BootSucceeds \/ CyclicService \/ LinkChanges \/ PowerCycle
           \/ UNCHANGED vars
    PROVE  PassedInv'
<1>1. PlaceInv /\ OutcomeInv
  BY DEF PassedInv
<1>2. CASE EarlyInit
  <2>1. /\ UNCHANGED <<registered, safe, memory, devices, step, outcome, locked, aborted, failed>>
        /\ phase = "early" /\ phase' \in {"run", "halted"}
    BY <1>2 DEF EarlyInit
  <2>2. \A s \in 1 .. StepCount : Passed(s)' => Passed(s)
    BY <2>1 DEF Passed
  <2>3. PlaceInv' /\ OutcomeInv'
    BY <1>1, <2>1 DEF PlaceInv, OutcomeInv, Phases
  <2> QED
    BY <2>1, <2>2, <2>3, NothingPasses DEF PassedInv
<1>3. CASE BootSucceeds
  <2>1. /\ UNCHANGED <<registered, safe, memory, devices, step, aborted, failed>>
        /\ phase = "passed" /\ phase' = "loop" /\ outcome' = "success"
    BY <1>3 DEF BootSucceeds
  <2>2. \A s \in 1 .. StepCount : Passed(s)' => Passed(s)
    BY <2>1 DEF Passed
  <2>3. PlaceInv' /\ OutcomeInv'
    BY <1>1, <2>1 DEF PlaceInv, OutcomeInv, Phases
  <2> QED
    BY <2>1, <2>2, <2>3, NothingPasses DEF PassedInv
<1>4. CASE CyclicService \/ LinkChanges \/ UNCHANGED vars
  <2>1. /\ UNCHANGED <<registered, safe, memory, devices, step, outcome, locked, aborted, failed>>
        /\ phase' = phase
    BY <1>4 DEF CyclicService, ServicePass, LinkChanges, vars, bootVars
  <2>2. \A s \in 1 .. StepCount : Passed(s)' => Passed(s)
    BY <2>1 DEF Passed
  <2>3. PlaceInv' /\ OutcomeInv'
    BY <1>1, <2>1 DEF PlaceInv, OutcomeInv, Phases
  <2> QED
    BY <2>1, <2>2, <2>3, NothingPasses DEF PassedInv
<1>5. CASE PowerCycle
  <2>1. /\ phase' = "early" /\ step' = 1 /\ outcome' = "pending" /\ locked' = FALSE
        /\ aborted' = FALSE /\ safe' = {} /\ registered' = registered
    BY <1>5 DEF PowerCycle
  <2>2. \A s \in 1 .. StepCount : ~Passed(s)'
    BY <2>1 DEF Passed
  <2>3. {1, 3, 4} \subseteq 1 .. StepCount /\ 1 \in 1 .. StepCount
    BY DEF StepCount
  <2> QED
    BY <2>1, <2>2, <2>3
    DEF PassedInv, PlaceInv, OutcomeInv, Phases, SafeInv, MemoryInv, DevicesInv
<1> QED
  BY <1>2, <1>3, <1>4, <1>5

\* Nothing is passed at power-on.
LEMMA PassedInit ==
    ASSUME BootInit PROVE PassedInv
<1>1. /\ phase = "early" /\ step = 1 /\ outcome = "pending" /\ locked = FALSE
      /\ aborted = FALSE /\ safe = {}
  BY DEF BootInit
<1>2. \A s \in 1 .. StepCount : ~Passed(s)
  BY <1>1 DEF Passed
<1>3. {1, 3, 4} \subseteq 1 .. StepCount /\ 1 \in 1 .. StepCount
  BY DEF StepCount
<1> QED
  BY <1>1, <1>2, <1>3
  DEF PassedInv, PlaceInv, OutcomeInv, Phases, SafeInv, MemoryInv, DevicesInv

\* What each step answers for holds from the moment it passes.
THEOREM PassedHolds == BootSpec => []PassedInv
<1>1. BootInit => PassedInv
  BY PassedInit
<1>2. PassedInv /\ [BootNext]_vars => PassedInv'
  BY PassesStep, ReportsStep, DecidesStep, OtherSteps DEF BootNext, Boots
<1> QED
  BY <1>1, <1>2, PTL DEF BootSpec

\* plat_boot.c:107-109: no other step runs before every output is safe at once, for
\* any number of outputs and whatever they answer.
THEOREM OutputsSafeFirst == BootSpec => []NothingBeforeSafe
<1>1. PassedInv => NothingBeforeSafe
  BY DEF PassedInv, SafeInv, Passed, NothingBeforeSafe, StepOf
<1> QED
  BY <1>1, PassedHolds, PTL

\* Success is reported and the configuration locked only with the devices that are
\* required, on memory that works and with safe outputs.
THEOREM SuccessIsWorking == BootSpec => []SuccessMeansWorking
<1>1. PassedInv => SuccessMeansWorking
  <2> SUFFICES ASSUME PassedInv, outcome = "success"
               PROVE  /\ Required \subseteq devices /\ memory # "faulty"
                      /\ registered # {} /\ safe = registered /\ ~aborted
    BY DEF PassedInv, OutcomeInv, SuccessMeansWorking
  <2>1. step = StepCount
    BY DEF PassedInv, OutcomeInv
  <2>2. Passed(1) /\ Passed(3) /\ Passed(4)
    BY <2>1 DEF Passed, StepCount
  <2> QED
    BY <2>2 DEF PassedInv, OutcomeInv, SafeInv, MemoryInv, DevicesInv
<1> QED
  BY <1>1, PassedHolds, PTL

-----------------------------------------------------------------------------
\* Whatever is elevated, or severe and was classified, has been escalated.
EscalationInv ==
    \A c \in Class :
        elevated[c] \/ (c \in Severe /\ occurrences[c] > 0) => escalations[c] > 0

ServiceInv == CountInv /\ FlagTypes /\ ElevatedAtLimit /\ EscalationInv

\* A classification that raises elevation, or that of a severe class, escalates.
LEMMA ClassifyEscalates ==
    ASSUME ServiceInv, NEW up \in BOOLEAN, Classify(up)
    PROVE  /\ EscalationInv'
           /\ \A c \in Class : escalations[c] <= escalations'[c]
           /\ \A c \in Class : elevated[c] => elevated'[c]
           /\ \A c \in Class \ {LinkClass} : reported'[c] = reported[c]
<1> DEFINE count == occurrences[cursor] + (seen - serviced[cursor])
<1>1. /\ cursor \in Class
      /\ occurrences' = [occurrences EXCEPT ![cursor] = count]
      /\ elevated' = [elevated EXCEPT
             ![cursor] = @ \/ (cursor \in Critical /\ Escalates(count))]
      /\ IF Escalates(count) THEN Escalate(cursor, up) ELSE NoEscalation
  BY DEF Classify
<1>2. /\ occurrences \in [Class -> Nat] /\ escalations \in [Class -> Nat]
      /\ reported \in [Class -> Nat] /\ elevated \in [Class -> BOOLEAN]
  BY DEF ServiceInv, CountInv, NumberTypes, FlagTypes
<1> HIDE DEF count
<1>3. CASE Escalates(count)
  <2>1. /\ escalations' = [escalations EXCEPT ![cursor] = @ + 1]
        /\ reported' = reported \/ reported' = AddOne(reported, LinkClass)
    BY <1>1, <1>3 DEF Escalate, AddOne
  <2>2. /\ escalations'[cursor] = escalations[cursor] + 1
        /\ \A c \in Class \ {cursor} : escalations'[c] = escalations[c]
    BY <1>1, <1>2, <2>1
  <2>3. ASSUME NEW c \in Class
        PROVE  escalations[c] <= escalations'[c]
    <3>1. escalations[c] \in Nat
      BY <1>2
    <3>2. escalations'[c] = escalations[c] \/ escalations'[c] = escalations[c] + 1
      BY <2>2
    <3> QED
      BY <3>1, <3>2
  <2>4. \A c \in Class \ {LinkClass} : reported'[c] = reported[c]
    BY <1>2, <2>1 DEF AddOne
  <2>5. \A c \in Class \ {cursor} : elevated'[c] = elevated[c] /\ occurrences'[c] = occurrences[c]
    BY <1>1, <1>2
  <2>6. escalations'[cursor] > 0
    BY <1>1, <1>2, <2>2
  <2>7. EscalationInv'
    BY <2>2, <2>5, <2>6 DEF ServiceInv, EscalationInv
  <2>8. \A c \in Class : elevated[c] => elevated'[c]
    BY <1>1, <1>2, Zenon
  <2> QED
    BY <2>3, <2>4, <2>7, <2>8
<1>4. CASE ~Escalates(count)
  <2>1. escalations' = escalations /\ reported' = reported
    BY <1>1, <1>4 DEF NoEscalation
  <2>2. cursor \notin Severe
    BY <1>4 DEF Escalates
  <2>3. \A c \in Class : elevated'[c] <=> elevated[c]
    BY <1>1, <1>2, <1>4, Zenon
  <2>4. \A c \in Class \ {cursor} : occurrences'[c] = occurrences[c]
    BY <1>1, <1>2
  <2>5. EscalationInv'
    BY <2>1, <2>2, <2>3, <2>4 DEF ServiceInv, EscalationInv
  <2>6. \A c \in Class : escalations[c] <= escalations'[c]
    BY <1>2, <2>1
  <2> QED
    BY <2>1, <2>3, <2>5, <2>6
<1> QED
  BY <1>3, <1>4

\* A step of the pass, whoever makes it, and what it leaves to the boot sequence.
LEMMA ServicePassKeeps ==
    ASSUME ServiceInv, NEW after, ServicePass(after)
    PROVE  /\ ServiceInv' /\ clearedAt' = clearedAt
           /\ \A c \in Class : escalations[c] <= escalations'[c]
           /\ \A c \in Class : elevated[c] => elevated'[c]
           /\ \A c \in Class \ {LinkClass} : reported'[c] = reported[c]
<1>0. escalations \in [Class -> Nat] /\ reported \in [Class -> Nat]
  BY DEF ServiceInv, CountInv, NumberTypes
<1> DEFINE none == [c \in CollectedClasses |-> 0]
<1>1. CASE BeginPass(none)
  <2>1. none \in [CollectedClasses -> 0 .. 2]
    OBVIOUS
  <2>2. CountInv'
    BY <1>1, <2>1, BeginPassStep DEF ServiceInv
  <2>3. /\ UNCHANGED <<occurrences, flag, elevated>>
        /\ escalations' = escalations /\ clearedAt' = clearedAt
    BY <1>1 DEF BeginPass, recordVars
  <2>4. \A c \in Class : reported'[c] = reported[c]
    <3>1. \A c \in Class : c \in CollectedClasses => none[c] = 0
      OBVIOUS
    <3>2. reported' = [c \in Class |->
               reported[c] + (IF c \in CollectedClasses THEN none[c] ELSE 0)]
      BY <1>1 DEF BeginPass
    <3> HIDE DEF none
    <3> QED
      BY <1>0, <3>1, <3>2
  <2>5. FlagTypes' /\ ElevatedAtLimit'
    BY <2>3, FlagsKept DEF ServiceInv
  <2>6. EscalationInv'
    BY <2>3 DEF ServiceInv, EscalationInv
  <2> QED
    BY <1>0, <2>2, <2>3, <2>4, <2>5, <2>6 DEF ServiceInv
<1>2. CASE ReadClass \/ EndPass
  <2>1. /\ UNCHANGED <<occurrences, flag, elevated>>
        /\ escalations' = escalations /\ clearedAt' = clearedAt /\ reported' = reported
    BY <1>2 DEF ReadClass, EndPass, recordVars
  <2>2. CountInv'
    <3>1. CASE ReadClass
      BY <3>1, ReadStep DEF ServiceInv
    <3>2. CASE EndPass
      <4>1. [Next]_fdirVars
        BY <3>2 DEF Next, Pass, ServiceStep
      <4> QED
        BY <4>1, CountInvNext DEF ServiceInv
    <3> QED
      BY <1>2, <3>1, <3>2
  <2>3. FlagTypes' /\ ElevatedAtLimit'
    BY <2>1, FlagsKept DEF ServiceInv
  <2>4. EscalationInv'
    BY <2>1 DEF ServiceInv, EscalationInv
  <2> QED
    BY <1>0, <2>1, <2>2, <2>3, <2>4 DEF ServiceInv
<1>3. ASSUME NEW up \in BOOLEAN, Classify(up)
      PROVE  /\ ServiceInv' /\ clearedAt' = clearedAt
             /\ \A c \in Class : escalations[c] <= escalations'[c]
             /\ \A c \in Class : elevated[c] => elevated'[c]
             /\ \A c \in Class \ {LinkClass} : reported'[c] = reported[c]
  <2>1. clearedAt' = clearedAt
    BY <1>3 DEF Classify
  <2>2. CountInv' /\ FlagTypes' /\ ElevatedAtLimit'
    BY <1>3, ClassifyStep, FlagsClassified DEF ServiceInv
  <2> QED
    BY <1>3, <2>1, <2>2, ClassifyEscalates DEF ServiceInv
<1>4. BeginPass(none) \/ ReadClass \/ EndPass \/ \E up \in BOOLEAN : Classify(up)
  <2>1. Classify(linkUp) => \E up \in BOOLEAN : Classify(up)
    BY DEF Classify, Escalate
  <2> QED
    BY <2>1 DEF ServicePass
<1> QED
  BY <1>1, <1>2, <1>3, <1>4

-----------------------------------------------------------------------------
Cause == FaultOf(step)

\* Until boot ends the reports of a step's class are the attempts it has failed.
CountsInv ==
    phase \in {"early", "halted", "run", "service", "decide"} =>
        /\ clearedAt = Zero
        /\ reported[Cause] = tried
        /\ \A s \in 1 .. StepCount : s > step => reported[FaultOf(s)] = 0

\* No attempt is made, or serviced, beyond the limit of its class.
TriedInv ==
    /\ tried \in Nat
    /\ phase \in {"early", "halted", "run"} =>
           tried = 0 \/ (Limit[Cause] # 0 /\ tried < Limit[Cause])
    /\ phase \in {"service", "decide"} =>
           /\ tried > 0
           /\ IF Limit[Cause] = 0 THEN tried = 1 ELSE tried <= Limit[Cause]

\* The pass boot waits for leaves no report of the step's class behind.
VisitInv ==
    /\ phase \in {"early", "halted", "run", "decide", "passed"} => cursor = 0
    /\ phase = "service" =>
           /\ cursor > Cause => serviced[Cause] = reported[Cause]
           /\ cursor = Cause /\ seen # 0 => seen = reported[Cause]
    /\ phase = "decide" => serviced[Cause] = reported[Cause]

RetryInv ==
    /\ PassedInv /\ ServiceInv
    /\ CountsInv /\ TriedInv /\ VisitInv /\ TerminalAfterRetries

\* Classes of steps are classes, no two the same, and none is the link's.
LEMMA StepClasses ==
    ASSUME NEW s \in 1 .. StepCount
    PROVE  /\ FaultOf(s) \in Class /\ FaultOf(s) # LinkClass
           /\ FaultOf(s) \in Nat /\ FaultOf(s) > 0 /\ FaultOf(s) <= ClassCount
           /\ Limit[FaultOf(s)] \in Nat
           /\ \/ FaultOf(s) \in Severe /\ Limit[FaultOf(s)] = 0
              \/ FaultOf(s) \in Critical /\ Limit[FaultOf(s)] # 0
           /\ \A t \in 1 .. StepCount : FaultOf(t) = FaultOf(s) => t = s
<1>1. FaultOf(s) = StepFault[s] /\ FaultOf(s) \in Class
  BY DEF FaultOf, BootAssumption
<1>2. FaultOf(s) \in Nat /\ FaultOf(s) > 0 /\ FaultOf(s) <= ClassCount
  BY <1>1, ClassAssumption DEF Class
<1>3. Limit[FaultOf(s)] \in Nat
  BY <1>1, LimitAssumption
<1>4. FaultOf(s) # LinkClass
  BY <1>1, Zenon DEF BootAssumption
<1>5. \/ FaultOf(s) \in Severe /\ Limit[FaultOf(s)] = 0
      \/ FaultOf(s) \in Critical /\ Limit[FaultOf(s)] # 0
  BY <1>1 DEF BootAssumption
<1>6. \A t \in 1 .. StepCount : FaultOf(t) = FaultOf(s) => t = s
  BY <1>1 DEF FaultOf, BootAssumption
<1> QED
  BY <1>1, <1>2, <1>3, <1>4, <1>5, <1>6

\* Going on to the next step, with everything so far serviced or not.
LEMMA GoesOnRetry ==
    ASSUME RetryInv, GoesOn, phase \in {"run", "decide"}, outcome' = outcome,
           UNCHANGED fdirVars
    PROVE  ServiceInv' /\ CountsInv' /\ TriedInv' /\ VisitInv' /\ TerminalAfterRetries'
<1>1. step \in 1 .. StepCount /\ outcome = "pending" /\ cursor = 0
  BY DEF RetryInv, PassedInv, PlaceInv, OutcomeInv, VisitInv
<1>2. /\ UNCHANGED <<reported, serviced, occurrences, flag, elevated, bySeverity, escalations,
                     undelivered, reentries, cursor, seen, clearedAt, linkFailures>>
  BY DEF fdirVars, recordVars, passVars
<1>3. ServiceInv'
  BY <1>2 DEF RetryInv, ServiceInv, CountInv, NumberTypes, Accounted, CopyCurrent,
              FlagTypes, ElevatedAtLimit, EscalationInv
<1>4. TerminalAfterRetries'
  BY <1>1 DEF TerminalAfterRetries
<1>5. CASE step < StepCount /\ step' = step + 1 /\ tried' = 0 /\ phase' = "run"
  <2>1. step + 1 \in 1 .. StepCount /\ step + 1 > step
    BY <1>1, <1>5 DEF StepCount
  <2>2. /\ clearedAt = Zero /\ reported[FaultOf(step + 1)] = 0
        /\ \A s \in 1 .. StepCount : s > step + 1 => reported[FaultOf(s)] = 0
    BY <1>1, <2>1 DEF RetryInv, CountsInv, StepCount
  <2>3. CountsInv'
    BY <1>2, <1>5, <2>2 DEF CountsInv, Cause, FaultOf
  <2>4. TriedInv' /\ VisitInv'
    BY <1>1, <1>2, <1>5 DEF TriedInv, VisitInv
  <2> QED
    BY <1>3, <1>4, <2>3, <2>4
<1>6. CASE step' = step /\ tried' = tried /\ phase' = "passed"
  BY <1>1, <1>2, <1>3, <1>4, <1>6 DEF RetryInv, CountsInv, TriedInv, VisitInv
<1> QED
  BY <1>5, <1>6 DEF GoesOn

\* An attempt that is reported is one more of its class, and none of a later step's.
LEMMA ReportsRetry ==
    ASSUME RetryInv, NEW late \in BOOLEAN, AttemptReports(late)
    PROVE  ServiceInv' /\ CountsInv' /\ TriedInv' /\ VisitInv' /\ TerminalAfterRetries'
<1>1. /\ phase = "run" /\ phase' = "service" /\ step' = step /\ outcome' = outcome
      /\ tried' = tried + 1 /\ reported' = AddOne(reported, Cause)
      /\ UNCHANGED <<serviced, occurrences, flag, elevated, bySeverity, escalations,
                     undelivered, reentries, cursor, seen, clearedAt, linkFailures>>
  BY DEF AttemptReports, Report, recordVars, passVars, Cause
<1>2. step \in 1 .. StepCount /\ outcome = "pending" /\ cursor = 0
  BY <1>1 DEF RetryInv, PassedInv, PlaceInv, OutcomeInv, VisitInv
<1>3. Cause \in Class /\ Cause > 0 /\ Limit[Cause] \in Nat /\ Cause' = Cause
  BY <1>1, <1>2, StepClasses DEF Cause, FaultOf
<1>4. NumberTypes
  BY DEF RetryInv, ServiceInv, CountInv
<1>5. CountInv'
  <2>1. /\ escalations' \in [Class -> Nat] /\ undelivered' \in Nat
        /\ reentries' \in Nat /\ linkFailures' \in Nat
    BY <1>1, <1>4 DEF NumberTypes
  <2>2. reported' \in [Class -> Nat] /\ \A d \in Class : reported[d] <= reported'[d]
    BY <1>1, <1>3, <1>4, OneReport
  <2> QED
    BY <1>1, <2>1, <2>2, ReportsOnlyAdd DEF RetryInv, ServiceInv
<1>6. ServiceInv'
  <2>1. FlagTypes' /\ ElevatedAtLimit'
    BY <1>1, FlagsKept DEF RetryInv, ServiceInv
  <2>2. EscalationInv'
    BY <1>1 DEF RetryInv, ServiceInv, EscalationInv
  <2> QED
    BY <1>5, <2>1, <2>2 DEF ServiceInv
<1>7. CountsInv'
  <2>1. /\ clearedAt = Zero /\ reported[Cause] = tried
        /\ \A s \in 1 .. StepCount : s > step => reported[FaultOf(s)] = 0
    BY <1>1 DEF RetryInv, CountsInv
  <2>2. reported'[Cause] = tried + 1 /\ \A c \in Class \ {Cause} : reported'[c] = reported[c]
    BY <1>1, <1>3, <1>4, <2>1 DEF AddOne, NumberTypes
  <2>3. \A s \in 1 .. StepCount : s > step => FaultOf(s) \in Class \ {Cause}
    BY <1>2, StepClasses DEF Cause, StepCount
  <2>4. \A s \in 1 .. StepCount : s > step => reported'[FaultOf(s)] = 0
    BY <2>1, <2>2, <2>3
  <2>5. clearedAt' = Zero /\ Zero' = Zero
    BY <1>1, <2>1 DEF Zero
  <2> QED
    BY <1>1, <1>3, <2>2, <2>4, <2>5 DEF CountsInv, FaultOf
<1>8. TriedInv'
  BY <1>1, <1>3 DEF RetryInv, TriedInv
<1>9. VisitInv'
  <2>1. Cause' \in Nat /\ ~(cursor' > Cause') /\ cursor' # Cause'
    BY <1>1, <1>2, <1>3 DEF Class
  <2> QED
    BY <1>1, <1>2, <2>1 DEF VisitInv
<1>10. TerminalAfterRetries'
  BY <1>1, <1>2 DEF TerminalAfterRetries
<1> QED
  BY <1>6, <1>7, <1>8, <1>9, <1>10

\* A step of the pass that boot waits for.
LEMMA ServiceRetry ==
    ASSUME RetryInv, Service
    PROVE  ServiceInv' /\ CountsInv' /\ TriedInv' /\ VisitInv' /\ TerminalAfterRetries'
<1>1. /\ phase = "service" /\ ServicePass("decide")
      /\ step' = step /\ tried' = tried /\ outcome' = outcome
  BY DEF Service
<1>2. step \in 1 .. StepCount /\ outcome = "pending"
  BY <1>1 DEF RetryInv, PassedInv, PlaceInv, OutcomeInv
<1>3. /\ Cause \in Class /\ Cause # LinkClass /\ Cause' = Cause /\ Cause > 0
      /\ Cause <= ClassCount /\ Cause \in Nat
  BY <1>1, <1>2, StepClasses DEF Cause, FaultOf
<1>4. /\ ServiceInv' /\ clearedAt' = clearedAt
      /\ \A c \in Class \ {LinkClass} : reported'[c] = reported[c]
  BY <1>1, ServicePassKeeps DEF RetryInv
<1>5. phase' \in {"service", "decide"}
  BY <1>1 DEF ServicePass
<1>6. CountsInv'
  <2>1. /\ clearedAt = Zero /\ reported[Cause] = tried
        /\ \A s \in 1 .. StepCount : s > step => reported[FaultOf(s)] = 0
    BY <1>1 DEF RetryInv, CountsInv
  <2>2. \A s \in 1 .. StepCount : FaultOf(s) \in Class \ {LinkClass}
    BY StepClasses
  <2>3. \A s \in 1 .. StepCount : s > step => reported'[FaultOf(s)] = 0
    BY <1>4, <2>1, <2>2
  <2>4. clearedAt' = Zero /\ Zero' = Zero
    BY <1>4, <2>1 DEF Zero
  <2>5. reported'[Cause] = tried
    BY <1>3, <1>4, <2>1
  <2> QED
    BY <1>1, <1>3, <2>3, <2>4, <2>5 DEF CountsInv, FaultOf
<1>7. TriedInv'
  BY <1>1, <1>3, <1>5 DEF RetryInv, TriedInv
<1>8. TerminalAfterRetries'
  BY <1>1, <1>2 DEF TerminalAfterRetries
<1>9. VisitInv'
  <2>1. /\ cursor > Cause => serviced[Cause] = reported[Cause]
        /\ cursor = Cause /\ seen # 0 => seen = reported[Cause]
    BY <1>1 DEF RetryInv, VisitInv
  <2>2. /\ reported \in [Class -> Nat] /\ serviced \in [Class -> Nat]
        /\ cursor \in Int /\ ClassCount \in Nat /\ reported'[Cause] = reported[Cause]
    BY <1>3, <1>4, ClassAssumption DEF RetryInv, ServiceInv, CountInv, NumberTypes
  <2>3. CASE cursor = 0 /\ cursor' = 1 /\ seen' = seen /\ serviced' = serviced /\ phase' = phase
    <3>1. seen = 0
      BY <2>3 DEF RetryInv, ServiceInv, CountInv, CopyCurrent, Class
    <3>2. ~(cursor' > Cause') /\ (cursor' = Cause' /\ seen' # 0 => FALSE)
      BY <1>3, <2>3, <3>1
    <3> QED
      BY <1>1, <2>3, <3>2 DEF VisitInv
  <2>4. CASE ReadClass
    <3>1. cursor \in Class /\ seen = 0 /\ serviced' = serviced
      BY <2>4 DEF ReadClass
    <3>2. phase' = phase
      BY <1>1, <2>2, <3>1 DEF ServicePass, Class
    <3>3. CASE Unserviced(cursor) = 0 /\ cursor' = cursor + 1 /\ seen' = 0
      <4>1. cursor = Cause => serviced[Cause] = reported[Cause]
        BY <1>3, <2>2, <3>3 DEF Unserviced
      <4>2. cursor' > Cause => cursor > Cause \/ cursor = Cause
        BY <1>3, <2>2, <3>3
      <4> QED
        BY <1>1, <1>3, <2>1, <2>2, <3>1, <3>2, <3>3, <4>1, <4>2 DEF VisitInv
    <3>4. CASE cursor' = cursor /\ seen' = reported[cursor]
      BY <1>1, <1>3, <2>1, <2>2, <3>1, <3>2, <3>4 DEF VisitInv
    <3> QED
      BY <2>4, <3>3, <3>4 DEF ReadClass
  <2>5. CASE Classify(linkUp)
    <3>1. /\ cursor \in Class /\ seen # 0 /\ cursor' = cursor + 1 /\ seen' = 0
          /\ serviced' = [serviced EXCEPT ![cursor] = seen]
      BY <2>5 DEF Classify, ServicedNow
    <3>2. phase' = phase
      BY <1>1, <2>2, <3>1 DEF ServicePass, Class
    <3>3. cursor = Cause => serviced'[Cause] = reported[Cause]
      BY <1>3, <2>1, <2>2, <3>1
    <3>4. cursor # Cause => serviced'[Cause] = serviced[Cause]
      BY <1>3, <2>2, <3>1
    <3>5. cursor' > Cause => cursor > Cause \/ cursor = Cause
      BY <1>3, <2>2, <3>1
    <3> QED
      BY <1>1, <1>3, <2>1, <2>2, <3>1, <3>2, <3>3, <3>4, <3>5 DEF VisitInv
  <2>6. CASE EndPass
    <3>1. cursor > ClassCount /\ cursor' = 0 /\ serviced' = serviced /\ cursor # 0
      BY <2>2, <2>6 DEF EndPass
    <3>2. phase' = "decide"
      BY <1>1, <3>1 DEF ServicePass
    <3>3. serviced'[Cause] = reported'[Cause]
      BY <1>3, <2>1, <2>2, <3>1
    <3> QED
      BY <1>3, <3>1, <3>2, <3>3 DEF VisitInv
  <2> QED
    BY <1>1, <2>3, <2>4, <2>5, <2>6 DEF ServicePass, BeginPass
<1> QED
  BY <1>4, <1>6, <1>7, <1>8, <1>9

\* Before the cursor starts there is no copy to be stale.
LEMMA PassesRetry ==
    ASSUME RetryInv, AttemptPasses \/ StepSlow
    PROVE  ServiceInv' /\ CountsInv' /\ TriedInv' /\ VisitInv' /\ TerminalAfterRetries'
<1>1. /\ GoesOn /\ phase \in {"run", "decide"} /\ outcome' = outcome
      /\ UNCHANGED fdirVars
  BY DEF AttemptPasses, StepSlow
<1> QED
  BY <1>1, GoesOnRetry

\* What boot has not given up is within its limit, and unspent.
LEMMA RetriedRetry ==
    ASSUME RetryInv, StepRetried
    PROVE  ServiceInv' /\ CountsInv' /\ TriedInv' /\ VisitInv' /\ TerminalAfterRetries'
<1>1. /\ phase = "decide" /\ phase' = "run" /\ ~GivesUp(Cause)
      /\ UNCHANGED <<reported, serviced, occurrences, flag, elevated, bySeverity, escalations,
                     undelivered, reentries, cursor, seen, clearedAt, linkFailures,
                     step, tried, outcome>>
  BY DEF StepRetried, fdirVars, recordVars, passVars, Cause
<1>2. step \in 1 .. StepCount /\ outcome = "pending" /\ Cause' = Cause
  BY <1>1 DEF RetryInv, PassedInv, PlaceInv, OutcomeInv, Cause, FaultOf
<1>3. Cause \in Class /\ Limit[Cause] \in Nat
  BY <1>2, StepClasses DEF Cause
<1>4. ServiceInv'
  BY <1>1 DEF RetryInv, ServiceInv, CountInv, NumberTypes, Accounted, CopyCurrent,
              FlagTypes, ElevatedAtLimit, EscalationInv
<1>5. CountsInv'
  <2>1. Zero' = Zero
    BY DEF Zero
  <2> QED
    BY <1>1, <1>2, <2>1 DEF RetryInv, CountsInv, FaultOf
<1>6. TriedInv'
  <2>1. reported[Cause] = tried /\ serviced[Cause] = reported[Cause] /\ clearedAt[Cause] = 0
    BY <1>1, <1>3 DEF RetryInv, CountsInv, VisitInv, Zero
  <2>2. /\ serviced[Cause] \in Nat /\ reported[Cause] \in Nat
        /\ occurrences[Cause] = serviced[Cause] - clearedAt[Cause]
    BY <1>3 DEF RetryInv, ServiceInv, CountInv, NumberTypes, Accounted
  <2>3. Occurrences(Cause) = tried
    BY <2>1, <2>2 DEF Occurrences, Unserviced
  <2>4. Limit[Cause] # 0 /\ tried < Limit[Cause]
    BY <1>1, <1>3, <2>1, <2>2, <2>3 DEF GivesUp, ExhaustedAfter
  <2> QED
    BY <1>1, <1>2, <2>4 DEF RetryInv, TriedInv
<1>7. VisitInv' /\ TerminalAfterRetries'
  BY <1>1, <1>2 DEF RetryInv, VisitInv, TerminalAfterRetries
<1> QED
  BY <1>4, <1>5, <1>6, <1>7

\* Boot gives up: every attempt has been counted, and the spent limit escalated.
LEMMA GivenUpRetry ==
    ASSUME RetryInv, StepGivenUp
    PROVE  ServiceInv' /\ CountsInv' /\ TriedInv' /\ VisitInv' /\ TerminalAfterRetries'
<1>1. /\ phase = "decide" /\ phase' = "loop" /\ GivesUp(Cause) /\ outcome' = "terminal"
      /\ UNCHANGED <<reported, serviced, occurrences, flag, elevated, bySeverity, escalations,
                     undelivered, reentries, cursor, seen, clearedAt, linkFailures,
                     step, tried>>
  BY DEF StepGivenUp, fdirVars, recordVars, passVars, Cause
<1>2. step \in 1 .. StepCount /\ Cause' = Cause
  BY <1>1 DEF RetryInv, PassedInv, PlaceInv, Cause, FaultOf
<1>3. ~locked' /\ aborted'
  <2>1. ~locked
    BY <1>1 DEF RetryInv, PassedInv, OutcomeInv
  <2>2. locked' = locked /\ aborted' = TRUE
    BY DEF StepGivenUp
  <2> QED
    BY <2>1, <2>2, Zenon
<1>4. /\ Cause \in Class /\ Limit[Cause] \in Nat
      /\ Cause \in Severe \/ (Cause \in Critical /\ Limit[Cause] # 0)
  BY <1>2, StepClasses DEF Cause
<1>5. ServiceInv'
  BY <1>1 DEF RetryInv, ServiceInv, CountInv, NumberTypes, Accounted, CopyCurrent,
              FlagTypes, ElevatedAtLimit, EscalationInv
<1>6. occurrences[Cause] = tried /\ Occurrences(Cause) = tried /\ tried \in Nat
  <2>1. reported[Cause] = tried /\ serviced[Cause] = reported[Cause] /\ clearedAt[Cause] = 0
    BY <1>1, <1>4 DEF RetryInv, CountsInv, VisitInv, Zero
  <2>2. /\ serviced[Cause] \in Nat /\ reported[Cause] \in Nat
        /\ occurrences[Cause] = serviced[Cause] - clearedAt[Cause]
    BY <1>4 DEF RetryInv, ServiceInv, CountInv, NumberTypes, Accounted
  <2> QED
    BY <2>1, <2>2 DEF Occurrences, Unserviced
<1>7. tried > 0 /\ (IF Limit[Cause] = 0 THEN tried = 1 ELSE tried <= Limit[Cause])
  BY <1>1 DEF RetryInv, TriedInv
<1>8. tried = IF Limit[Cause] = 0 THEN 1 ELSE Limit[Cause]
  BY <1>1, <1>4, <1>6, <1>7 DEF GivesUp, ExhaustedAfter
<1>9. Cause \in Critical => elevated[Cause]
  <2>1. Cause \in Critical => Limit[Cause] # 0
    BY <1>4, ClassAssumption
  <2>2. Limit[Cause] # 0 => occurrences[Cause] >= Limit[Cause]
    BY <1>4, <1>6, <1>8
  <2> QED
    BY <1>4, <2>1, <2>2, Zenon DEF RetryInv, ServiceInv, ElevatedAtLimit
<1>10. escalations[Cause] > 0
  <2>1. occurrences[Cause] > 0
    BY <1>6, <1>7
  <2>2. elevated[Cause] \/ Cause \in Severe
    BY <1>4, <1>9
  <2> QED
    BY <1>4, <2>1, <2>2 DEF RetryInv, ServiceInv, EscalationInv
<1>11. TerminalAfterRetries'
  <2>1. /\ tried' = IF Limit[Cause'] = 0 THEN 1 ELSE Limit[Cause']
        /\ escalations'[Cause'] > 0 /\ (Cause' \in Critical => elevated'[Cause'])
    BY <1>1, <1>2, <1>8, <1>9, <1>10
  <2> QED
    BY <1>3, <2>1 DEF TerminalAfterRetries, Cause
<1> QED
  BY <1>1, <1>5, <1>6, <1>11 DEF CountsInv, TriedInv, VisitInv

\* Success clears every step's class at once, and may report the link's own fault.
LEMMA SucceedsRetry ==
    ASSUME RetryInv, BootSucceeds
    PROVE  ServiceInv' /\ CountsInv' /\ TriedInv' /\ VisitInv' /\ TerminalAfterRetries'
<1>1. /\ phase = "passed" /\ phase' = "loop" /\ outcome' = "success" /\ tried' = tried
      /\ UNCHANGED <<bySeverity, escalations, undelivered, reentries, cursor, seen, linkFailures>>
      /\ reported' = reported \/ reported' = AddOne(reported, LinkClass)
      /\ serviced' = [c \in Class |-> IF c \in StepFaults THEN reported[c] ELSE serviced[c]]
      /\ occurrences' = [c \in Class |-> IF c \in StepFaults THEN Zero[c] ELSE occurrences[c]]
      /\ clearedAt' = [c \in Class |-> IF c \in StepFaults THEN reported[c] ELSE clearedAt[c]]
  BY DEF BootSucceeds, ClearsOnSuccess, passVars, Report
<1>2. /\ flag' = [c \in Class |-> IF c \in StepFaults
                                   THEN [k \in Class |-> FALSE][c] ELSE flag[c]]
      /\ elevated' = [c \in Class |-> IF c \in StepFaults
                                       THEN [k \in Class |-> FALSE][c] ELSE elevated[c]]
  BY DEF BootSucceeds, ClearsOnSuccess
<1>3. NumberTypes /\ Accounted /\ CopyCurrent /\ cursor = 0
  BY <1>1 DEF RetryInv, ServiceInv, CountInv, VisitInv
<1>4. /\ reported' \in [Class -> Nat]
      /\ \A c \in Class : reported[c] <= reported'[c]
  <2>1. LinkClass \in Class
    BY ClassAssumption
  <2>2. /\ AddOne(reported, LinkClass) \in [Class -> Nat]
        /\ \A c \in Class : reported[c] <= AddOne(reported, LinkClass)[c]
    BY <1>3, <2>1, OneReport
  <2>3. reported \in [Class -> Nat] /\ \A c \in Class : reported[c] <= reported[c]
    BY <1>3 DEF NumberTypes
  <2> QED
    BY <1>1, <2>2, <2>3
<1>5. CountInv'
  <2>1. NumberTypes'
    BY <1>1, <1>3, <1>4 DEF NumberTypes, Zero
  <2>2. ASSUME NEW c \in Class
        PROVE  /\ serviced'[c] <= reported'[c]
               /\ occurrences'[c] = serviced'[c] - clearedAt'[c]
               /\ bySeverity'[c] <= serviced'[c]
    <3>1. /\ serviced[c] \in Nat /\ reported[c] \in Nat /\ bySeverity[c] \in Nat
          /\ reported'[c] \in Nat /\ reported[c] <= reported'[c]
          /\ serviced[c] <= reported[c] /\ bySeverity[c] <= serviced[c]
          /\ occurrences[c] = serviced[c] - clearedAt[c]
      BY <1>3, <1>4 DEF NumberTypes, Accounted
    <3>2. CASE c \in StepFaults
      <4>1. /\ serviced'[c] = reported[c] /\ occurrences'[c] = 0
            /\ clearedAt'[c] = reported[c] /\ bySeverity'[c] = bySeverity[c]
        BY <1>1, <3>2 DEF Zero
      <4> QED
        BY <3>1, <4>1
    <3>3. CASE c \notin StepFaults
      <4>1. /\ serviced'[c] = serviced[c] /\ occurrences'[c] = occurrences[c]
            /\ clearedAt'[c] = clearedAt[c] /\ bySeverity'[c] = bySeverity[c]
        BY <1>1, <3>3
      <4> QED
        BY <3>1, <4>1
    <3> QED
      BY <3>2, <3>3
  <2>3. CopyCurrent'
    BY <1>1, <1>3 DEF CopyCurrent, Class
  <2> QED
    BY <2>1, <2>2, <2>3 DEF CountInv, Accounted
<1>6. FlagTypes'
  BY <1>2, Zenon DEF RetryInv, ServiceInv, FlagTypes
<1>7. ASSUME NEW c \in Class
      PROVE  /\ elevated'[c] <=> c \in Critical /\ Limit[c] # 0 /\ occurrences'[c] >= Limit[c]
             /\ elevated'[c] \/ (c \in Severe /\ occurrences'[c] > 0) => escalations'[c] > 0
  <2>1. CASE c \in StepFaults
    <3>1. ~elevated'[c]
      BY <1>2, <2>1, Zenon
    <3>2. occurrences'[c] = 0 /\ Limit[c] \in Nat
      BY <1>1, <2>1, LimitAssumption DEF Zero
    <3>3. ~(Limit[c] # 0 /\ occurrences'[c] >= Limit[c]) /\ ~(occurrences'[c] > 0)
      BY <3>2
    <3> QED
      BY <3>1, <3>3, Zenon
  <2>2. CASE c \notin StepFaults
    <3>1. elevated'[c] = elevated[c]
      BY <1>2, <2>2, Zenon
    <3>2. occurrences'[c] = occurrences[c] /\ escalations' = escalations
      BY <1>1, <2>2
    <3>3. /\ elevated[c] <=> c \in Critical /\ Limit[c] # 0 /\ occurrences[c] >= Limit[c]
          /\ elevated[c] \/ (c \in Severe /\ occurrences[c] > 0) => escalations[c] > 0
      BY Zenon DEF RetryInv, ServiceInv, ElevatedAtLimit, EscalationInv
    <3> QED
      BY <3>1, <3>2, <3>3, Zenon
  <2> QED
    BY <2>1, <2>2
<1>8. ServiceInv'
  BY <1>5, <1>6, <1>7, Zenon DEF ServiceInv, ElevatedAtLimit, EscalationInv
<1>9. CountsInv' /\ TriedInv' /\ VisitInv' /\ TerminalAfterRetries'
  BY <1>1 DEF RetryInv, CountsInv, TriedInv, VisitInv, TerminalAfterRetries
<1> QED
  BY <1>8, <1>9

\* The loop's passes add escalations and raise elevations, and take none back.
LEMMA CyclicRetry ==
    ASSUME RetryInv, CyclicService
    PROVE  ServiceInv' /\ CountsInv' /\ TriedInv' /\ VisitInv' /\ TerminalAfterRetries'
<1>1. /\ ServicePass("loop") /\ phase = "loop" /\ phase' = "loop"
      /\ UNCHANGED <<step, tried, outcome, locked, aborted>>
  BY DEF CyclicService, ServicePass
<1>2. /\ ServiceInv' /\ \A c \in Class : escalations[c] <= escalations'[c]
      /\ \A c \in Class : elevated[c] => elevated'[c]
  BY <1>1, ServicePassKeeps DEF RetryInv
<1>3. step \in 1 .. StepCount /\ Cause' = Cause
  BY <1>1 DEF RetryInv, PassedInv, PlaceInv, Cause, FaultOf
<1>4. TerminalAfterRetries'
  <2> SUFFICES ASSUME outcome = "terminal"
               PROVE  TerminalAfterRetries'
    BY <1>1 DEF TerminalAfterRetries
  <2>1. /\ tried = IF Limit[Cause] = 0 THEN 1 ELSE Limit[Cause]
        /\ escalations[Cause] > 0 /\ (Cause \in Critical => elevated[Cause])
        /\ aborted /\ ~locked
    BY Zenon DEF RetryInv, TerminalAfterRetries, Cause
  <2>2. Cause \in Class
    BY <1>3, StepClasses DEF Cause
  <2>3. escalations'[Cause] > 0
    <3>1. escalations[Cause] \in Nat /\ escalations'[Cause] \in Nat
      BY <1>2, <2>2 DEF RetryInv, ServiceInv, CountInv, NumberTypes
    <3> QED
      BY <1>2, <2>1, <2>2, <3>1
  <2>4. Cause \in Critical => elevated'[Cause]
    BY <1>2, <2>1, <2>2
  <2>5. aborted' /\ ~locked'
    BY <1>1, <2>1, Zenon
  <2> QED
    BY <1>1, <1>3, <2>1, <2>3, <2>4, <2>5 DEF TerminalAfterRetries, Cause
<1>5. CountsInv' /\ TriedInv' /\ VisitInv'
  BY <1>1 DEF RetryInv, CountsInv, TriedInv, VisitInv
<1> QED
  BY <1>2, <1>4, <1>5

\* What leaves the sequence and the fault service alone.
LEMMA OthersRetry ==
    ASSUME RetryInv, EarlyInit \/ LinkChanges \/ UNCHANGED vars
    PROVE  ServiceInv' /\ CountsInv' /\ TriedInv' /\ VisitInv' /\ TerminalAfterRetries'
<1>1. /\ phase' = phase \/ (phase = "early" /\ phase' \in {"run", "halted"})
      /\ UNCHANGED <<reported, serviced, occurrences, flag, elevated, bySeverity, escalations,
                     undelivered, reentries, cursor, seen, clearedAt, linkFailures,
                     step, tried, outcome, locked, aborted>>
  BY DEF EarlyInit, LinkChanges, vars, fdirVars, bootVars, recordVars, passVars
<1>2. Cause' = Cause /\ Zero' = Zero /\ \A s \in 1 .. StepCount : FaultOf(s)' = FaultOf(s)
  BY <1>1 DEF Cause, FaultOf, Zero
<1>3. ServiceInv'
  BY <1>1 DEF RetryInv, ServiceInv, CountInv, NumberTypes, Accounted, CopyCurrent,
              FlagTypes, ElevatedAtLimit, EscalationInv
<1>4. CountsInv'
  BY <1>1, <1>2 DEF RetryInv, CountsInv
<1>5. TriedInv'
  BY <1>1, <1>2 DEF RetryInv, TriedInv
<1>6. VisitInv'
  BY <1>1, <1>2 DEF RetryInv, VisitInv
<1>7. TerminalAfterRetries'
  <2>1. TerminalAfterRetries' <=> TerminalAfterRetries
    BY <1>1, Zenon DEF TerminalAfterRetries, FaultOf
  <2> QED
    BY <2>1 DEF RetryInv
<1> QED
  BY <1>3, <1>4, <1>5, <1>6, <1>7

\* Memory as a reset finds it.
PoweredOn ==
    /\ FdirInit
    /\ phase = "early" /\ step = 1 /\ tried = 0 /\ outcome = "pending"

\* Nothing was reported, and nothing tried.
LEMMA PowerOnRetry ==
    PoweredOn => ServiceInv /\ CountsInv /\ TriedInv /\ VisitInv /\ TerminalAfterRetries
<1> SUFFICES ASSUME PoweredOn
             PROVE  ServiceInv /\ CountsInv /\ TriedInv /\ VisitInv /\ TerminalAfterRetries
  OBVIOUS
<1>1. /\ FdirInit /\ phase = "early" /\ step = 1 /\ tried = 0 /\ outcome = "pending"
  BY DEF PoweredOn
<1>2. CountInv /\ FlagTypes /\ ElevatedAtLimit
  BY <1>1, CountInvInit, ElevationInit DEF Init
<1>3. EscalationInv
  <2>1. \A c \in Class : ~elevated[c] /\ occurrences[c] = 0
    BY <1>1 DEF FdirInit, Zero
  <2> QED
    BY <2>1 DEF EscalationInv
<1>4. \A s \in 1 .. StepCount : FaultOf(s) \in Class
  BY StepClasses
<1>5. 1 \in 1 .. StepCount
  BY DEF StepCount
<1>6. CountsInv
  BY <1>1, <1>4, <1>5 DEF FdirInit, Zero, CountsInv, Cause
<1>7. TriedInv /\ VisitInv /\ TerminalAfterRetries
  BY <1>1 DEF FdirInit, TriedInv, VisitInv, TerminalAfterRetries
<1> QED
  BY <1>2, <1>3, <1>6, <1>7 DEF ServiceInv

\* The attempts counted, serviced and escalated, from power-on on.
THEOREM RetryInvariant == BootSpec => []RetryInv
<1>1. BootInit => RetryInv
  <2>1. BootInit => PoweredOn
    BY DEF BootInit, PoweredOn
  <2> QED
    BY <2>1, PassedInit, PowerOnRetry DEF RetryInv
<1>2. RetryInv /\ [BootNext]_vars => RetryInv'
  <2>1. PowerCycle => PoweredOn'
    BY DEF PowerCycle, PoweredOn, FdirInit, Zero
  <2>2. PoweredOn' => (ServiceInv /\ CountsInv /\ TriedInv /\ VisitInv /\ TerminalAfterRetries)'
    BY PowerOnRetry, PTL
  <2>3. RetryInv /\ [BootNext]_vars => PassedInv'
    BY PassesStep, ReportsStep, DecidesStep, OtherSteps DEF BootNext, Boots, RetryInv
  <2>4. RetryInv /\ [BootNext]_vars =>
            ServiceInv' /\ CountsInv' /\ TriedInv' /\ VisitInv' /\ TerminalAfterRetries'
    BY <2>1, <2>2, PassesRetry, ReportsRetry, ServiceRetry, RetriedRetry, GivenUpRetry,
       SucceedsRetry, CyclicRetry, OthersRetry
    DEF BootNext, Boots
  <2> QED
    BY <2>3, <2>4 DEF RetryInv
<1> QED
  BY <1>1, <1>2, PTL DEF BootSpec

\* FW-30 and plat_boot.c:144-148: boot gives up after exactly the attempts its class
\* allows, and has escalated the fault by then, for every policy of the steps' classes.
THEOREM GivesUpEscalated == BootSpec => []TerminalAfterRetries
<1>1. RetryInv => TerminalAfterRetries
  BY DEF RetryInv
<1> QED
  BY <1>1, RetryInvariant, PTL

-----------------------------------------------------------------------------
MarkTypes ==
    /\ failed \in BOOLEAN /\ locked \in BOOLEAN /\ aborted \in BOOLEAN
    /\ linkUp \in BOOLEAN

ReachTypes ==
    /\ tried \in 0 .. MaxAttempts /\ slow \subseteq 1 .. StepCount
    /\ registered \subseteq Output
    /\ memory \in {"untested", "works", "faulty"} /\ devices \subseteq Device

\* No mark is left neither set nor clear.
LEMMA MarksKept ==
    ASSUME MarkTypes, BootNext \/ UNCHANGED vars
    PROVE  MarkTypes'
<1>1. ASSUME NEW late \in BOOLEAN, AttemptReports(late)
      PROVE  MarkTypes'
  <2>1. /\ failed' = ~late
        /\ locked' = locked /\ aborted' = aborted /\ linkUp' = linkUp
    BY <1>1 DEF AttemptReports
  <2> QED
    BY <2>1, Zenon DEF MarkTypes
<1>2. CASE LinkChanges
  <2>1. linkUp' = ~linkUp /\ failed' = failed /\ locked' = locked /\ aborted' = aborted
    BY <1>2 DEF LinkChanges, bootVars
  <2> QED
    BY <2>1, Zenon DEF MarkTypes
<1>3. CASE \/ EarlyInit \/ AttemptPasses \/ Service \/ StepSlow \/ StepRetried \/ StepGivenUp
           \/ BootSucceeds \/ CyclicService \/ PowerCycle \/ UNCHANGED vars
  <2>1. /\ failed' = failed \/ failed' = FALSE
        /\ locked' = locked \/ locked' = TRUE \/ locked' = FALSE
        /\ aborted' = aborted \/ aborted' = TRUE \/ aborted' = FALSE
        /\ linkUp' = linkUp
    BY <1>3, Zenon
    DEF EarlyInit, AttemptPasses, Service, StepSlow, StepRetried, StepGivenUp, BootSucceeds,
        CyclicService, PowerCycle, vars, bootVars
  <2> QED
    BY <2>1, Zenon DEF MarkTypes
<1> QED
  BY <1>1, <1>2, <1>3 DEF BootNext, Boots

\* What a step leaves behind.
LEMMA StepTypes ==
    ASSUME ReachTypes, NEW answer \in BOOLEAN, RunStep(answer)
    PROVE  memory' \in {"untested", "works", "faulty"} /\ devices' \subseteq Device
<1>1. CASE \/ ApplySafeOutputs(answer) \/ CallHook
  BY <1>1 DEF ApplySafeOutputs, CallHook, ReachTypes
<1>2. CASE SelfTest(answer)
  BY <1>2 DEF SelfTest, ReachTypes
<1>3. CASE InitDevices(answer)
  BY <1>3 DEF InitDevices, ReachTypes
<1> QED
  BY <1>1, <1>2, <1>3 DEF RunStep

\* Attempts stay within the bound, what is reached within what there is.
LEMMA ReachKept ==
    ASSUME ReachTypes, PlaceInv, BootNext \/ UNCHANGED vars
    PROVE  ReachTypes'
<1>0. MaxAttempts \in Nat
  BY DEF BootAssumption
<1>1. CASE AttemptPasses
  <2>1. RunStep(TRUE) /\ GoesOn /\ UNCHANGED <<slow, registered>>
    BY <1>1 DEF AttemptPasses
  <2>2. memory' \in {"untested", "works", "faulty"} /\ devices' \subseteq Device
    <3>1. TRUE \in BOOLEAN
      OBVIOUS
    <3> QED
      BY <2>1, <3>1, StepTypes
  <2> QED
    BY <1>0, <2>1, <2>2 DEF GoesOn, ReachTypes
<1>2. ASSUME NEW late \in BOOLEAN, AttemptReports(late)
      PROVE  ReachTypes'
  <2>1. /\ RunStep(late) /\ tried < MaxAttempts /\ tried' = tried + 1 /\ registered' = registered
        /\ slow' = slow \cup {step} \/ slow' = slow
    BY <1>2 DEF AttemptReports
  <2>2. memory' \in {"untested", "works", "faulty"} /\ devices' \subseteq Device
    BY <2>1, StepTypes
  <2>3. tried' \in 0 .. MaxAttempts /\ registered' \subseteq Output
    BY <1>0, <2>1 DEF ReachTypes
  <2>4. slow' \subseteq 1 .. StepCount
    BY <2>1 DEF PlaceInv, ReachTypes
  <2> QED
    BY <2>2, <2>3, <2>4 DEF ReachTypes
<1>3. CASE \/ EarlyInit \/ Service \/ StepSlow \/ StepRetried \/ StepGivenUp
           \/ BootSucceeds \/ CyclicService \/ LinkChanges \/ UNCHANGED vars
  <2>1. UNCHANGED <<slow, registered, memory, devices>> /\ (tried' = tried \/ tried' = 0)
    BY <1>3
    DEF EarlyInit, Service, StepSlow, GoesOn, StepRetried, StepGivenUp, BootSucceeds,
        CyclicService, LinkChanges, vars, bootVars
  <2> QED
    BY <1>0, <2>1 DEF ReachTypes
<1>4. CASE PowerCycle
  BY <1>0, <1>4 DEF PowerCycle, ReachTypes
<1> QED
  BY <1>1, <1>2, <1>3, <1>4 DEF BootNext, Boots

\* The types of the start-up, for every number of attempts.
THEOREM BootTypes == BootSpec => []BootTypeOK
<1> DEFINE Types == MarkTypes /\ ReachTypes
<1>1. BootInit => Types
  <2> SUFFICES ASSUME BootInit PROVE MarkTypes /\ ReachTypes
    OBVIOUS
  <2>1. MarkTypes
    BY Zenon DEF BootInit, MarkTypes
  <2>2. ReachTypes
    BY DEF BootInit, ReachTypes, BootAssumption
  <2> QED
    BY <2>1, <2>2
<1>2. PassedInv /\ Types /\ [BootNext]_vars => Types'
  BY MarksKept, ReachKept DEF PassedInv
<1>3. PassedInv /\ Types => BootTypeOK
  BY Zenon
  DEF PassedInv, PlaceInv, OutcomeInv, SafeInv, Phases, MarkTypes, ReachTypes, BootTypeOK
<1> QED
  BY <1>1, <1>2, <1>3, PassedHolds, PTL DEF BootSpec

-----------------------------------------------------------------------------
\* Only the step under way has reports the pass has yet to see.
Settled(c) == serviced[c] = reported[c]

SettledInv ==
    \A s \in 1 .. StepCount : Settled(FaultOf(s)) \/ (s = step /\ phase = "service")

Spent == Limit[Cause] = 0 \/ tried >= Limit[Cause]

\* Until boot ends a step that was never late is escalated only when it is spent.
PendingInv ==
    /\ phase \in {"service", "decide"} /\ ~failed => step \in slow
    /\ outcome = "pending" =>
           \A s \in 1 .. StepCount \ slow :
               \/ escalations[FaultOf(s)] = 0
               \/ s = step /\ phase \in {"service", "decide"} /\ Spent

SuccessInv ==
    outcome = "success" =>
        /\ \A s \in 1 .. StepCount : occurrences[FaultOf(s)] = 0 /\ ~elevated[FaultOf(s)]
        /\ \A s \in 1 .. StepCount \ slow : escalations[FaultOf(s)] = 0

CleanInv == SettledInv /\ PendingInv /\ SuccessInv

\* A pass leaves a class without new reports as it is.
LEMMA PassLeavesSettled ==
    ASSUME ServiceInv, NEW after, ServicePass(after), NEW c \in Class \ {LinkClass}, Settled(c)
    PROVE  /\ Settled(c)' /\ escalations'[c] = escalations[c]
           /\ occurrences'[c] = occurrences[c] /\ elevated'[c] = elevated[c]
<1>0. /\ reported \in [Class -> Nat] /\ serviced \in [Class -> Nat]
      /\ escalations \in [Class -> Nat] /\ occurrences \in [Class -> Nat]
      /\ reported'[c] = reported[c]
  BY ServicePassKeeps DEF ServiceInv, CountInv, NumberTypes
<1>1. CASE UNCHANGED <<serviced, escalations, occurrences, elevated>>
  BY <1>0, <1>1 DEF Settled
<1>2. CASE Classify(linkUp)
  <2>1. cursor \in Class /\ cursor # c
    <3>1. cursor \in Class /\ seen # 0
      BY <1>2 DEF Classify
    <3>2. serviced[cursor] < seen /\ seen <= reported[cursor] /\ seen \in Nat
      BY <3>1 DEF ServiceInv, CountInv, CopyCurrent, NumberTypes
    <3> QED
      BY <1>0, <3>1, <3>2 DEF Settled
  <2>2. serviced'[c] = serviced[c] /\ occurrences'[c] = occurrences[c]
    BY <1>0, <1>2, <2>1 DEF Classify
  <2>3. elevated'[c] = elevated[c]
    BY <1>2, <2>1, Zenon DEF Classify, ServiceInv, FlagTypes
  <2>4. escalations'[c] = escalations[c]
    <3>1. escalations' = escalations \/ escalations' = [escalations EXCEPT ![cursor] = @ + 1]
      BY <1>2 DEF Classify, Escalate, NoEscalation, AddOne
    <3> QED
      BY <1>0, <2>1, <3>1
  <2> QED
    BY <1>0, <2>2, <2>3, <2>4 DEF Settled
<1>3. Classify(linkUp) \/ UNCHANGED <<serviced, escalations, occurrences, elevated>>
  BY DEF ServicePass, BeginPass, ReadClass, EndPass, recordVars
<1> QED
  BY <1>1, <1>2, <1>3

\* The pass escalates the class of the step under way only when it is spent.
LEMMA EscalatedWhenSpent ==
    ASSUME RetryInv, Service
    PROVE  escalations'[Cause] = escalations[Cause] \/ Spent
<1>0. /\ step \in 1 .. StepCount /\ phase = "service" /\ Cause \in Class
      /\ Cause \in Severe => Limit[Cause] = 0
  <2>1. phase = "service" /\ step \in 1 .. StepCount
    BY DEF Service, RetryInv, PassedInv, PlaceInv
  <2> QED
    BY <2>1, StepClasses, ClassAssumption DEF Cause
<1>1. /\ escalations \in [Class -> Nat] /\ tried \in Nat /\ Limit[Cause] \in Nat
      /\ occurrences[Cause] \in Nat /\ serviced[Cause] \in Nat
  BY <1>0, LimitAssumption DEF RetryInv, ServiceInv, CountInv, NumberTypes, TriedInv
<1>2. CASE UNCHANGED escalations
  BY <1>2
<1>3. CASE Classify(linkUp)
  <2> DEFINE count == occurrences[cursor] + (seen - serviced[cursor])
  <2>1. /\ cursor \in Class /\ seen # 0
        /\ IF Escalates(count) THEN Escalate(cursor, linkUp) ELSE NoEscalation
    BY <1>3 DEF Classify
  <2> HIDE DEF count
  <2>2. CASE ~Escalates(count)
    BY <2>1, <2>2 DEF NoEscalation
  <2>3. CASE cursor # Cause
    <3>1. escalations' = escalations \/ escalations' = [escalations EXCEPT ![cursor] = @ + 1]
      BY <2>1 DEF Escalate, NoEscalation, AddOne
    <3> QED
      BY <1>0, <1>1, <2>1, <2>3, <3>1
  <2>4. CASE Escalates(count) /\ cursor = Cause
    <3>1. count = tried
      <4>1. seen = reported[Cause] /\ reported[Cause] = tried /\ clearedAt[Cause] = 0
        BY <1>0, <2>1, <2>4 DEF RetryInv, VisitInv, CountsInv, Zero
      <4>2. occurrences[Cause] = serviced[Cause] - clearedAt[Cause]
        BY <1>0 DEF RetryInv, ServiceInv, CountInv, Accounted
      <4>3. count = occurrences[Cause] + (seen - serviced[Cause])
        BY <2>4 DEF count
      <4> QED
        BY <1>1, <4>1, <4>2, <4>3
    <3> QED
      BY <1>0, <2>4, <3>1 DEF Escalates, Spent
  <2> QED
    BY <2>2, <2>3, <2>4
<1>4. Classify(linkUp) \/ UNCHANGED escalations
  BY DEF Service, ServicePass, BeginPass, ReadClass, EndPass, recordVars
<1> QED
  BY <1>2, <1>3, <1>4

\* Going on leaves everything settled behind.
LEMMA GoesOnClean ==
    ASSUME RetryInv, CleanInv, AttemptPasses \/ StepSlow
    PROVE  CleanInv'
<1>1. /\ GoesOn /\ UNCHANGED <<reported, serviced, escalations>> /\ slow' = slow
      /\ phase \in {"run", "decide"} /\ phase' \in {"run", "passed"}
      /\ outcome' = outcome
  BY DEF AttemptPasses, StepSlow, GoesOn, fdirVars
<1>2. outcome = "pending" /\ step \in 1 .. StepCount
  BY <1>1 DEF RetryInv, PassedInv, PlaceInv, OutcomeInv
<1>3. phase = "decide" => step \in slow
  BY DEF AttemptPasses, StepSlow, CleanInv, PendingInv
<1>4. \A s \in 1 .. StepCount : Settled(FaultOf(s))
  BY <1>1 DEF CleanInv, SettledInv
<1>5. \A s \in 1 .. StepCount \ slow : escalations[FaultOf(s)] = 0
  BY <1>1, <1>2, <1>3 DEF CleanInv, PendingInv
<1> QED
  BY <1>1, <1>2, <1>4, <1>5
  DEF CleanInv, SettledInv, PendingInv, SuccessInv, Settled, FaultOf

\* A late step is remembered as slow; a report alone escalates nothing.
LEMMA ReportsClean ==
    ASSUME RetryInv, CleanInv, NEW late \in BOOLEAN, AttemptReports(late)
    PROVE  CleanInv'
<1>1. /\ phase = "run" /\ phase' = "service" /\ step' = step /\ outcome' = outcome
      /\ reported' = AddOne(reported, Cause)
      /\ UNCHANGED <<serviced, escalations>>
      /\ slow' = IF late THEN slow \cup {step} ELSE slow
  BY DEF AttemptReports, Report, Cause
<1>2. /\ outcome = "pending" /\ step \in 1 .. StepCount
      /\ reported \in [Class -> Nat] /\ Cause \in Class
  BY <1>1, StepClasses
  DEF RetryInv, PassedInv, PlaceInv, OutcomeInv, ServiceInv, CountInv, NumberTypes, Cause
<1>3. SettledInv'
  <2>1. \A s \in 1 .. StepCount : FaultOf(s) \in Class /\ (s # step => FaultOf(s) # Cause)
    BY <1>2, StepClasses DEF Cause
  <2>2. \A s \in 1 .. StepCount : s # step => reported'[FaultOf(s)] = reported[FaultOf(s)]
    BY <1>1, <1>2, <2>1 DEF AddOne
  <2>3. \A s \in 1 .. StepCount : Settled(FaultOf(s))
    BY <1>1 DEF CleanInv, SettledInv
  <2> QED
    BY <1>1, <2>2, <2>3 DEF SettledInv, Settled, FaultOf
<1>4. slow \subseteq slow' /\ (~failed' => step \in slow')
  <2>1. failed' = ~late
    BY DEF AttemptReports
  <2>2. ~failed' => late
    BY <2>1, Zenon
  <2> QED
    BY <1>1, <2>2
<1>5. \A s \in 1 .. StepCount \ slow' : escalations[FaultOf(s)] = 0
  BY <1>1, <1>2, <1>4 DEF CleanInv, PendingInv
<1>6. PendingInv' /\ SuccessInv'
  BY <1>1, <1>2, <1>4, <1>5 DEF PendingInv, SuccessInv, FaultOf
<1> QED
  BY <1>3, <1>6 DEF CleanInv

\* The pass boot waits for.
LEMMA ServiceClean ==
    ASSUME RetryInv, CleanInv, Service
    PROVE  CleanInv'
<1>1. /\ phase = "service" /\ phase' \in {"service", "decide"} /\ ServicePass("decide")
      /\ UNCHANGED <<step, tried, slow, outcome>>
  BY DEF Service, ServicePass
<1>2. failed' = failed
  BY DEF Service
<1>3. /\ outcome = "pending" /\ step \in 1 .. StepCount /\ ServiceInv
      /\ Cause' = Cause /\ Cause = FaultOf(step)
  BY <1>1 DEF RetryInv, PassedInv, PlaceInv, OutcomeInv, Cause, FaultOf
<1>4. ASSUME NEW s \in 1 .. StepCount, s # step
      PROVE  Settled(FaultOf(s))' /\ escalations'[FaultOf(s)] = escalations[FaultOf(s)]
  <2>1. FaultOf(s) \in Class \ {LinkClass} /\ Settled(FaultOf(s))
    BY <1>4, StepClasses DEF CleanInv, SettledInv
  <2>2. Settled(FaultOf(s))' <=> serviced'[FaultOf(s)] = reported'[FaultOf(s)]
    BY DEF Settled, FaultOf
  <2>3. /\ serviced'[FaultOf(s)] = reported'[FaultOf(s)]
        /\ escalations'[FaultOf(s)] = escalations[FaultOf(s)]
    <3> DEFINE c == FaultOf(s)
    <3>1. c \in Class \ {LinkClass} /\ Settled(c) /\ c' = c
      BY <2>1 DEF FaultOf
    <3> HIDE DEF c
    <3>2. Settled(c)' /\ escalations'[c] = escalations[c]
      BY <1>1, <1>3, <3>1, PassLeavesSettled
    <3>3. serviced'[c] = reported'[c]
      BY <3>1, <3>2 DEF Settled
    <3> QED
      BY <3>2, <3>3 DEF c
  <2> QED
    BY <2>2, <2>3
<1>5. SettledInv'
  <2>1. phase' = "decide" => serviced'[Cause] = reported'[Cause]
    <3>1. VisitInv'
      BY ServiceRetry
    <3> QED
      BY <1>3, <3>1 DEF VisitInv
  <2>2. phase' = "decide" => Settled(FaultOf(step))'
    BY <1>1, <1>3, <2>1 DEF Settled, FaultOf
  <2>3. \A s \in 1 .. StepCount : Settled(FaultOf(s))' \/ (s = step' /\ phase' = "service")
    BY <1>1, <1>4, <2>2
  <2> QED
    BY <2>3 DEF SettledInv
<1>6. Spent' <=> Spent
  BY <1>1, <1>3 DEF Spent
<1>7. escalations'[Cause] = escalations[Cause] \/ Spent
  BY EscalatedWhenSpent
<1>8. PendingInv'
  <2>1. ~failed' => step \in slow
    BY <1>1, <1>2, Zenon DEF CleanInv, PendingInv
  <2>2. \A s \in 1 .. StepCount \ slow :
            escalations'[FaultOf(s)] = 0 \/ (s = step /\ Spent)
    BY <1>1, <1>3, <1>4, <1>7 DEF CleanInv, PendingInv
  <2> QED
    BY <1>1, <1>6, <2>1, <2>2 DEF PendingInv, FaultOf
<1>9. SuccessInv'
  BY <1>1, <1>3 DEF SuccessInv
<1> QED
  BY <1>5, <1>8, <1>9 DEF CleanInv

\* What is retried is not spent; what is given up ends in the other outcome.
LEMMA DecidedClean ==
    ASSUME RetryInv, CleanInv, StepRetried \/ StepGivenUp
    PROVE  CleanInv'
<1>1. /\ phase = "decide" /\ UNCHANGED <<step, tried, slow, reported, serviced, escalations>>
      /\ \/ phase' = "run" /\ outcome' = outcome /\ ~GivesUp(Cause)
         \/ phase' = "loop" /\ outcome' = "terminal"
  BY DEF StepRetried, StepGivenUp, fdirVars, Cause
<1>2. outcome = "pending" /\ step \in 1 .. StepCount /\ Cause \in Class
  BY <1>1, StepClasses DEF RetryInv, PassedInv, PlaceInv, OutcomeInv, Cause
<1>3. SettledInv'
  BY <1>1 DEF CleanInv, SettledInv, Settled, FaultOf
<1>4. Spent => GivesUp(Cause)
  <2>1. reported[Cause] = tried /\ serviced[Cause] = reported[Cause] /\ clearedAt[Cause] = 0
    BY <1>1, <1>2 DEF RetryInv, CountsInv, VisitInv, Zero
  <2>2. /\ serviced[Cause] \in Nat /\ reported[Cause] \in Nat /\ Limit[Cause] \in Nat
        /\ occurrences[Cause] = serviced[Cause] - clearedAt[Cause]
    BY <1>2, LimitAssumption DEF RetryInv, ServiceInv, CountInv, NumberTypes, Accounted
  <2> QED
    BY <2>1, <2>2 DEF Spent, GivesUp, ExhaustedAfter, Occurrences, Unserviced
<1>5. PendingInv' /\ SuccessInv'
  BY <1>1, <1>2, <1>4 DEF CleanInv, PendingInv, SuccessInv, FaultOf
<1> QED
  BY <1>3, <1>5 DEF CleanInv

\* Success clears what it settled, and reports nothing but the link.
LEMMA SucceedsClean ==
    ASSUME RetryInv, CleanInv, BootSucceeds
    PROVE  CleanInv'
<1>1. /\ phase = "passed" /\ phase' = "loop" /\ outcome' = "success"
      /\ UNCHANGED <<step, slow, escalations>>
      /\ reported' = reported \/ reported' = AddOne(reported, LinkClass)
      /\ serviced' = [c \in Class |-> IF c \in StepFaults THEN reported[c] ELSE serviced[c]]
      /\ occurrences' = [c \in Class |-> IF c \in StepFaults THEN Zero[c] ELSE occurrences[c]]
  BY DEF BootSucceeds, ClearsOnSuccess, passVars, Report
<1>2. elevated' = [c \in Class |-> IF c \in StepFaults
                                   THEN [k \in Class |-> FALSE][c] ELSE elevated[c]]
  BY DEF BootSucceeds, ClearsOnSuccess
<1>3. reported \in [Class -> Nat] /\ outcome = "pending"
  BY <1>1 DEF RetryInv, PassedInv, OutcomeInv, ServiceInv, CountInv, NumberTypes
<1>4. ASSUME NEW s \in 1 .. StepCount
      PROVE  /\ serviced'[FaultOf(s)] = reported'[FaultOf(s)]
             /\ occurrences'[FaultOf(s)] = 0 /\ ~elevated'[FaultOf(s)]
  <2>1. FaultOf(s) \in Class /\ FaultOf(s) # LinkClass /\ FaultOf(s) \in StepFaults
    BY StepClasses DEF StepFaults, FaultOf
  <2>2. reported'[FaultOf(s)] = reported[FaultOf(s)]
    BY <1>1, <1>3, <2>1 DEF AddOne
  <2>3. ~elevated'[FaultOf(s)]
    BY <1>2, <2>1, Zenon
  <2> QED
    BY <1>1, <2>1, <2>2, <2>3 DEF Zero
<1>5. \A s \in 1 .. StepCount \ slow : escalations[FaultOf(s)] = 0
  BY <1>1, <1>3 DEF CleanInv, PendingInv
<1> QED
  BY <1>1, <1>4, <1>5 DEF CleanInv, SettledInv, PendingInv, SuccessInv, Settled, FaultOf

\* The loop's passes find nothing of a step to classify.
LEMMA CyclicClean ==
    ASSUME RetryInv, CleanInv, CyclicService
    PROVE  CleanInv'
<1>1. /\ phase = "loop" /\ phase' = "loop" /\ ServicePass("loop") /\ ServiceInv
      /\ UNCHANGED <<step, slow, outcome>>
  BY DEF CyclicService, ServicePass, RetryInv
<1>2. ASSUME NEW s \in 1 .. StepCount
      PROVE  /\ serviced'[FaultOf(s)] = reported'[FaultOf(s)]
             /\ escalations'[FaultOf(s)] = escalations[FaultOf(s)]
             /\ occurrences'[FaultOf(s)] = occurrences[FaultOf(s)]
             /\ elevated'[FaultOf(s)] = elevated[FaultOf(s)]
  <2> DEFINE c == FaultOf(s)
  <2>1. c \in Class \ {LinkClass} /\ Settled(c) /\ c' = c
    BY <1>1, StepClasses DEF CleanInv, SettledInv, FaultOf
  <2> HIDE DEF c
  <2>2. /\ Settled(c)' /\ escalations'[c] = escalations[c]
        /\ occurrences'[c] = occurrences[c] /\ elevated'[c] = elevated[c]
    BY <1>1, <2>1, PassLeavesSettled
  <2>3. serviced'[c] = reported'[c]
    BY <2>1, <2>2 DEF Settled
  <2> QED
    BY <2>2, <2>3 DEF c
<1>3. SettledInv'
  BY <1>2 DEF SettledInv, Settled, FaultOf
<1>4. PendingInv'
  BY <1>1, <1>2 DEF RetryInv, PassedInv, OutcomeInv, CleanInv, PendingInv, FaultOf
<1>5. SuccessInv'
  <2>1. ASSUME outcome = "success", NEW s \in 1 .. StepCount
        PROVE  occurrences'[FaultOf(s)] = 0 /\ ~elevated'[FaultOf(s)]
    <3>1. occurrences[FaultOf(s)] = 0 /\ ~elevated[FaultOf(s)]
      BY <2>1, Zenon DEF CleanInv, SuccessInv
    <3> QED
      BY <1>2, <3>1, Zenon
  <2>2. ASSUME outcome = "success", NEW s \in 1 .. StepCount \ slow
        PROVE  escalations'[FaultOf(s)] = 0
    BY <1>2, <2>2 DEF CleanInv, SuccessInv
  <2> QED
    BY <1>1, <2>1, <2>2 DEF SuccessInv, FaultOf
<1> QED
  BY <1>3, <1>4, <1>5 DEF CleanInv

\* What touches neither.
LEMMA OthersClean ==
    ASSUME RetryInv, CleanInv, EarlyInit \/ LinkChanges \/ UNCHANGED vars
    PROVE  CleanInv'
<1>1. /\ phase' = phase \/ (phase = "early" /\ phase' \in {"run", "halted"})
      /\ UNCHANGED <<reported, serviced, occurrences, escalations, step, tried, outcome, slow>>
  BY DEF EarlyInit, LinkChanges, vars, fdirVars, bootVars, recordVars
<1>2. failed' = failed /\ elevated' = elevated
  BY DEF EarlyInit, LinkChanges, vars, fdirVars, bootVars, recordVars
<1>3. SettledInv'
  BY <1>1 DEF CleanInv, SettledInv, Settled, FaultOf
<1>4. PendingInv'
  BY <1>1, <1>2 DEF CleanInv, PendingInv, Spent, Cause, FaultOf
<1>5. SuccessInv'
  BY <1>1, <1>2 DEF CleanInv, SuccessInv, FaultOf
<1> QED
  BY <1>3, <1>4, <1>5 DEF CleanInv

\* Nothing was reported.
LEMMA PowerOnClean == PoweredOn => CleanInv
<1> SUFFICES ASSUME PoweredOn PROVE CleanInv
  OBVIOUS
<1>1. \A s \in 1 .. StepCount : FaultOf(s) \in Class
  BY StepClasses
<1>2. /\ phase = "early" /\ outcome = "pending"
      /\ serviced = Zero /\ reported = Zero /\ escalations = Zero
  BY DEF PoweredOn, FdirInit
<1> QED
  BY <1>1, <1>2 DEF CleanInv, SettledInv, PendingInv, SuccessInv, Settled, Zero

\* plat_boot.c:216-219: after success every step's class counts from zero, and none
\* that was never late has been escalated, for every policy of the steps' classes.
THEOREM SuccessIsClean == BootSpec => []SuccessStartsClean
<1>1. BootInit => CleanInv
  BY PowerOnClean DEF BootInit, PoweredOn
<1>2. RetryInv /\ CleanInv /\ [BootNext]_vars => CleanInv'
  <2>1. PowerCycle => PoweredOn'
    BY DEF PowerCycle, PoweredOn, FdirInit, Zero
  <2>2. PoweredOn' => CleanInv'
    BY PowerOnClean, PTL
  <2> QED
    BY <2>1, <2>2, GoesOnClean, ReportsClean, ServiceClean, DecidedClean, SucceedsClean,
       CyclicClean, OthersClean
    DEF BootNext, Boots
<1>3. RetryInv /\ CleanInv => SuccessStartsClean
  <2> SUFFICES ASSUME RetryInv, CleanInv, outcome = "success"
               PROVE  /\ \A c \in StepFaults : Occurrences(c) = 0 /\ ~elevated[c]
                      /\ \A s \in 1 .. StepCount \ slow : escalations[FaultOf(s)] = 0
    BY DEF SuccessStartsClean
  <2>1. phase = "loop"
    BY DEF RetryInv, PassedInv, OutcomeInv
  <2>2. ASSUME NEW s \in 1 .. StepCount
        PROVE  Occurrences(FaultOf(s)) = 0 /\ ~elevated[FaultOf(s)]
    <3>1. /\ occurrences[FaultOf(s)] = 0 /\ serviced[FaultOf(s)] = reported[FaultOf(s)]
          /\ reported[FaultOf(s)] \in Nat
      BY <2>1, StepClasses
      DEF CleanInv, SettledInv, SuccessInv, Settled, RetryInv, ServiceInv, CountInv, NumberTypes
    <3>2. ~elevated[FaultOf(s)]
      BY Zenon DEF CleanInv, SuccessInv
    <3> QED
      BY <3>1, <3>2 DEF Occurrences, Unserviced
  <2>3. \A s \in 1 .. StepCount \ slow : escalations[FaultOf(s)] = 0
    BY DEF CleanInv, SuccessInv
  <2> QED
    BY <2>2, <2>3 DEF StepFaults, FaultOf
<1> QED
  BY <1>1, <1>2, <1>3, RetryInvariant, PTL DEF BootSpec
==============================================================================
