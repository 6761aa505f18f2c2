------------------------------- MODULE Rings -------------------------------
(* Arithmetic of the chip's ring buffers, proved with TLAPS: a pointer has  *)
(* P values, its cell in the ring is the pointer modulo S, the size of the  *)
(* ring, and P is a multiple of S.                                          *)
EXTENDS Integers, TLAPS

LEMMA ModDef ==
  ASSUME NEW a \in Int, NEW S \in Nat \ {0}
  PROVE  a % S \in 0 .. S - 1 /\ a \div S \in Int /\ a = S * (a \div S) + (a % S)
  OBVIOUS

LEMMA ModOf ==
  ASSUME NEW S \in Nat \ {0}, NEW q \in Int, NEW r \in 0 .. S - 1
  PROVE  (S * q + r) % S = r
  OBVIOUS

LEMMA ModSmall ==
  ASSUME NEW S \in Nat \ {0}, NEW r \in 0 .. S - 1
  PROVE  r % S = r /\ (r - S) % S = r
  OBVIOUS

\* Whole rounds do not matter.
LEMMA ModAdd ==
  ASSUME NEW S \in Nat \ {0}, NEW a \in Int, NEW q \in Int
  PROVE  (a + S * q) % S = a % S
<1> DEFINE r == a % S   d == a \div S
<1>1. r \in 0 .. S - 1 /\ d \in Int /\ a = S * d + r
  BY ModDef
<1>2. d + q \in Int /\ a + S * q = S * (d + q) + r
  BY <1>1
<1> HIDE DEF r, d
<1>3. (S * (d + q) + r) % S = r
  BY <1>1, <1>2, ModOf
<1>4. QED
  BY <1>2, <1>3 DEF r

\* A remainder may be taken of the left operand of a difference, ...
LEMMA ModLeft ==
  ASSUME NEW S \in Nat \ {0}, NEW a \in Int, NEW b \in Int
  PROVE  ((a % S) - b) % S = (a - b) % S
<1> DEFINE r == a % S   d == a \div S
<1>1. r \in 0 .. S - 1 /\ d \in Int /\ a = S * d + r
  BY ModDef
<1> HIDE DEF r, d
<1>2. -d \in Int /\ r - b = (a - b) + S * (-d) /\ a - b \in Int
  BY <1>1
<1>3. QED
  BY <1>2, ModAdd DEF r

\* ... and one with a multiple of S of the right one.
LEMMA ModRight ==
  ASSUME NEW S \in Nat \ {0}, NEW P \in Nat \ {0}, P % S = 0,
         NEW a \in Int, NEW b \in Int
  PROVE  (a - (b % P)) % S = (a - b) % S
<1> DEFINE r == b % P   d == b \div P   m == P \div S
<1>1. r \in 0 .. P - 1 /\ d \in Int /\ b = P * d + r
  BY ModDef
<1>2. m \in Int /\ P = S * m
  BY ModDef
<1> HIDE DEF r, d, m
<1>3. m * d \in Int /\ P * d = S * (m * d)
  BY <1>1, <1>2
<1>4. a - r = (a - b) + S * (m * d)
  BY <1>1, <1>3
<1>5. a - b \in Int
  OBVIOUS
<1>6. QED
  BY <1>3, <1>4, <1>5, ModAdd DEF r

\* The place of the cell of x, counted from the cell of pointer b.
LEMMA CellOffset ==
  ASSUME NEW S \in Nat \ {0}, NEW P \in Nat \ {0}, P % S = 0,
         NEW x \in Int, NEW b \in Int
  PROVE  ((x % S) - (b % P)) % S = (x - b) % S
<1> DEFINE c == b % P
<1>1. c \in Int
  BY ModDef
<1>2. (x - c) % S = (x - b) % S
  BY ModRight
<1> HIDE DEF c
<1>3. ((x % S) - c) % S = (x - c) % S
  BY <1>1, ModLeft
<1>4. QED
  BY <1>2, <1>3 DEF c

\* The place of the k-th cell behind the n-th one: among the first S cells each
\* has its own.
LEMMA PlaceAfter ==
  ASSUME NEW S \in Nat \ {0}, NEW n \in Nat, NEW k \in Nat, n <= S, k < S
  PROVE  (k - n) % S = IF n <= k THEN k - n ELSE S - n + k
<1>1. CASE n <= k
  <2>1. k - n \in 0 .. S - 1
    BY <1>1
  <2>2. QED
    BY <1>1, <2>1, ModSmall
<1>2. CASE k < n
  <2> DEFINE r == S - n + k
  <2>1. r \in 0 .. S - 1 /\ k - n = r - S
    BY <1>2
  <2> HIDE DEF r
  <2>2. (r - S) % S = r
    BY <2>1, ModSmall
  <2>3. QED
    BY <1>2, <2>1, <2>2 DEF r
<1>3. QED
  BY <1>1, <1>2

\* How far a pointer has moved.
LEMMA PointerDiff ==
  ASSUME NEW P \in Nat \ {0}, NEW a \in Nat, NEW k \in 0 .. P - 1
  PROVE  (((a + k) % P) - a) % P = k
<1> DEFINE b == a + k
<1>0. a \in Int /\ b \in Int
  OBVIOUS
<1> HIDE DEF b
<1>1. ((b % P) - a) % P = (b - a) % P
  BY <1>0, ModLeft
<1> USE DEF b
<1>2. (a + k) - a = k /\ k % P = k
  BY ModSmall
<1>3. QED
  BY <1>1, <1>2

\* Moving a pointer twice is moving it once.
LEMMA PointerMove ==
  ASSUME NEW P \in Nat \ {0}, NEW a \in Int, NEW k \in Int
  PROVE  ((a % P) + k) % P = (a + k) % P
<1> DEFINE m == -k
<1>0. m \in Int
  OBVIOUS
<1> HIDE DEF m
<1>1. ((a % P) - m) % P = (a - m) % P
  BY <1>0, ModLeft
<1>2. a % P \in Int
  BY ModDef
<1>3. (a % P) - m = (a % P) + k /\ a - m = a + k
  BY <1>2 DEF m
<1>4. QED
  BY <1>1, <1>3

\* The cell some places behind a pointer.
LEMMA CellBehind ==
  ASSUME NEW S \in Nat \ {0}, NEW P \in Nat \ {0}, P % S = 0,
         NEW b \in Int, NEW x \in Int
  PROVE  ((b % P) + x) % S = (b + x) % S
<1> DEFINE r == b % P   d == -(b \div P)   m == P \div S
<1>1. r \in 0 .. P - 1 /\ b \div P \in Int /\ b = P * (b \div P) + r
  BY ModDef
<1>2. d \in Int /\ r = b + P * d
  BY <1>1
<1>3. m \in Int /\ P = S * m
  BY ModDef
<1> HIDE DEF r, d, m
<1>4. m * d \in Int /\ P * d = S * (m * d)
  BY <1>2, <1>3
<1> DEFINE y == b + x
<1>5. y \in Int /\ r + x = y + S * (m * d)
  BY <1>2, <1>4
<1> HIDE DEF y
<1>6. (y + S * (m * d)) % S = y % S
  BY <1>4, <1>5, ModAdd
<1>7. QED
  BY <1>5, <1>6 DEF r, y

\* Two bytes that fit into the ring together have two cells.
LEMMA CellsDiffer ==
  ASSUME NEW S \in Nat \ {0}, NEW a \in Int, NEW b \in Int, a < b, b - a < S
  PROVE  a % S # b % S
<1> DEFINE da == a \div S   db == b \div S   d == db - da
<1>1. SUFFICES ASSUME a % S = b % S PROVE FALSE
  OBVIOUS
<1>2. da \in Int /\ a = S * da + (a % S) /\ db \in Int /\ b = S * db + (b % S)
      /\ a % S \in 0 .. S - 1
  BY ModDef
<1>3. d \in Int /\ b - a = S * d
  BY <1>1, <1>2
<1> HIDE DEF d
<1>4. CASE d >= 1
  <2>1. S * d >= S
    BY <1>3, <1>4
  <2>2. QED
    BY <1>3, <2>1
<1>5. CASE d <= 0
  <2>1. S * d <= 0
    BY <1>3, <1>5
  <2>2. QED
    BY <1>3, <2>1
<1>6. QED
  BY <1>3, <1>4, <1>5
=============================================================================
