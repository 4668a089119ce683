----------------------------- MODULE RingLemmas -----------------------------
(***************************************************************************)
(* Counters that wrap around at U and index a ring of S slots, as in        *)
(* pipe.c, console.c and uart.c: U is 2^32 or 2^64 there, S a power of two. *)
(***************************************************************************)
EXTENDS Integers, SequenceTheorems, TLAPS

\* The quotient and the remainder of a division are unique.
LEMMA DivUnique ==
  ASSUME NEW S \in Nat \ {0}, NEW q \in Int, NEW r \in 0 .. S - 1
  PROVE  (S * q + r) % S = r
OBVIOUS

\* A counter that has not reached U.
LEMMA ModSmall ==
  ASSUME NEW U \in Nat \ {0}, NEW x \in 0 .. U - 1
  PROVE  x % U = x
OBVIOUS

\* A counter that has passed U once.
LEMMA ModWrap ==
  ASSUME NEW U \in Nat \ {0}, NEW x \in U .. 2 * U - 1
  PROVE  x % U = x - U
OBVIOUS

\* A difference of counters that has gone below zero.
LEMMA ModNeg ==
  ASSUME NEW U \in Nat \ {0}, NEW x \in -U .. -1
  PROVE  x % U = x + U
OBVIOUS

\* A remainder is below U.
LEMMA ModType ==
  ASSUME NEW U \in Nat \ {0}, NEW x \in Int
  PROVE  x % U \in 0 .. U - 1
OBVIOUS

\* A number is its quotient times U and its remainder.
LEMMA DivMod ==
  ASSUME NEW U \in Nat \ {0}, NEW x \in Int
  PROVE  x = U * (x \div U) + (x % U) /\ x \div U \in Int
OBVIOUS

\* Going on from a counter that has wrapped around.
LEMMA PlusPlus ==
  ASSUME NEW U \in Nat \ {0}, NEW n \in 0 .. U - 1, NEW i \in Nat, NEW j \in Nat, i + j <= U
  PROVE  (((n + i) % U) + j) % U = (n + i + j) % U
<1>1. CASE n + i < U
  BY <1>1, ModSmall
<1>2. CASE n + i >= U
  <2>1. (n + i) % U = n + i - U
    BY <1>2, ModWrap
  <2>2. (n + i - U + j) % U = n + i - U + j /\ (n + i + j) % U = n + i + j - U
    BY <1>2, ModWrap, ModSmall
  <2> QED
    BY <2>1, <2>2
<1> QED
  BY <1>1, <1>2

\* What a counter has gone on by.
LEMMA MinusPlus ==
  ASSUME NEW U \in Nat \ {0}, NEW n \in 0 .. U - 1, NEW m \in 0 .. U - 1
  PROVE  /\ (m - n) % U \in 0 .. U - 1
         /\ (n + ((m - n) % U)) % U = m
         /\ \A k \in 0 .. U - 1 : (n + k) % U = m => k = (m - n) % U
<1>1. CASE m >= n
  <2>1. (m - n) % U = m - n
    BY <1>1, ModSmall
  <2>2. (n + (m - n)) % U = m
    BY <1>1, ModSmall
  <2>3. ASSUME NEW k \in 0 .. U - 1, (n + k) % U = m
        PROVE k = m - n
    BY <2>3, <1>1, ModSmall, ModWrap
  <2> QED
    BY <2>1, <2>2, <2>3
<1>2. CASE m < n
  <2>1. (m - n) % U = m - n + U
    BY <1>2, ModNeg
  <2>2. (n + (m - n + U)) % U = m
    BY <1>2, ModWrap
  <2>3. ASSUME NEW k \in 0 .. U - 1, (n + k) % U = m
        PROVE k = m - n + U
    BY <2>3, <1>2, ModSmall, ModWrap
  <2> QED
    BY <2>1, <2>2, <2>3
<1> QED
  BY <1>1, <1>2

\* The same, one fact at a time.
LEMMA MinusBack ==
  ASSUME NEW U \in Nat \ {0}, NEW n \in 0 .. U - 1, NEW m \in 0 .. U - 1
  PROVE  (n + ((m - n) % U)) % U = m
BY MinusPlus, SMT

\* Only one distance below U leads from n to m.
LEMMA MinusUnique ==
  ASSUME NEW U \in Nat \ {0}, NEW n \in 0 .. U - 1, NEW m \in 0 .. U - 1,
         NEW k \in 0 .. U - 1, (n + k) % U = m
  PROVE  (m - n) % U = k
BY MinusPlus, SMT

\* The test "m = n + k" on counters is a test of their distance.
LEMMA DistanceIs ==
  ASSUME NEW U \in Nat \ {0}, NEW n \in 0 .. U - 1, NEW m \in 0 .. U - 1, NEW k \in 0 .. U - 1
  PROVE  m = (n + k) % U <=> (m - n) % U = k
BY MinusPlus, SMT

\* m++ puts the counters one further apart.
LEMMA Further ==
  ASSUME NEW U \in Nat \ {0}, NEW n \in 0 .. U - 1, NEW m \in 0 .. U - 1,
         ((m - n) % U) + 1 < U
  PROVE  (m + 1) % U \in 0 .. U - 1 /\ (((m + 1) % U) - n) % U = ((m - n) % U) + 1
<1> DEFINE c == (m - n) % U
<1>0. c \in 0 .. U - 1 /\ c + 1 < U
  BY ModType
<1>a. m = (n + c) % U
  BY MinusBack
<1> HIDE DEF c
<1>1. c \in 0 .. U - 1 /\ m = (n + c) % U /\ c + 1 < U
  BY <1>0, <1>a
<1>2. (((n + c) % U) + 1) % U = (n + c + 1) % U
  BY <1>1, PlusPlus
<1>3. (m + 1) % U = (n + (c + 1)) % U /\ c + 1 \in 0 .. U - 1
  BY <1>1, <1>2
<1>4. (m + 1) % U \in 0 .. U - 1
  BY ModType
<1>5. (((m + 1) % U) - n) % U = c + 1
  BY <1>3, <1>4, MinusUnique
<1> QED
  BY <1>4, <1>5 DEF c

\* n++ puts them one closer.
LEMMA Closer ==
  ASSUME NEW U \in Nat \ {0}, NEW n \in 0 .. U - 1, NEW m \in 0 .. U - 1, n # m
  PROVE  (n + 1) % U \in 0 .. U - 1 /\ (m - ((n + 1) % U)) % U = ((m - n) % U) - 1
<1> DEFINE c == (m - n) % U
<1>0. c \in 0 .. U - 1
  BY ModType
<1>a. m = (n + c) % U
  BY MinusBack
<1> HIDE DEF c
<1>1. c \in 0 .. U - 1 /\ m = (n + c) % U
  BY <1>0, <1>a
<1>2. c # 0
  BY <1>1, ModSmall
<1>3. c - 1 \in 0 .. U - 1 /\ c - 1 \in Nat /\ 1 + (c - 1) <= U
  BY <1>1, <1>2
<1>4. (((n + 1) % U) + (c - 1)) % U = (n + 1 + (c - 1)) % U
  BY <1>3, PlusPlus
<1>5. m = (((n + 1) % U) + (c - 1)) % U
  BY <1>1, <1>4
<1>6. (n + 1) % U \in 0 .. U - 1
  BY ModType
<1> DEFINE n1 == (n + 1) % U
           c1 == c - 1
<1>7. n1 \in 0 .. U - 1 /\ c1 \in 0 .. U - 1 /\ (n1 + c1) % U = m
  BY <1>3, <1>5, <1>6
<1> HIDE DEF n1, c1
<1>8. (m - n1) % U = c1
  BY <1>7, MinusUnique
<1> QED
  BY <1>6, <1>8 DEF c, n1, c1

\* A ring whose size divides U: the remainder does not see a counter wrap.
LEMMA SlotWrap ==
  ASSUME NEW U \in Nat \ {0}, NEW S \in Nat \ {0}, U % S = 0, NEW x \in 0 .. 2 * U - 1
  PROVE  (x % U) % S = x % S
<1>1. CASE x < U
  BY <1>1, ModSmall
<1>2. CASE x >= U
  <2>1. x % U = x - U
    BY <1>2, ModWrap
  <2>2. x = S * (x \div S) + (x % S) /\ x \div S \in Int /\ x % S \in 0 .. S - 1
    BY DivMod, ModType
  <2>3. U = S * (U \div S) /\ U \div S \in Int
    BY DivMod
  <2>4. x - U = S * ((x \div S) - (U \div S)) + (x % S)
    BY <2>2, <2>3
  <2> DEFINE q == (x \div S) - (U \div S)
  <2>5. q \in Int
    BY <2>2, <2>3
  <2> HIDE DEF q
  <2>6. (S * q + (x % S)) % S = x % S
    BY <2>2, <2>5, DivUnique
  <2> QED
    BY <2>1, <2>4, <2>6 DEF q
<1> QED
  BY <1>1, <1>2

\* Counters less than S apart have slots of their own.
LEMMA SlotsDiffer ==
  ASSUME NEW U \in Nat \ {0}, NEW S \in Nat \ {0}, U % S = 0, NEW n \in 0 .. U - 1,
         NEW i \in Nat, NEW j \in Nat, i < j, j < i + S, j <= U
  PROVE  ((n + i) % U) % S # ((n + j) % U) % S
<1>0. n + i \in 0 .. 2 * U - 1 /\ n + j \in 0 .. 2 * U - 1
  OBVIOUS
<1>1. ((n + i) % U) % S = (n + i) % S /\ ((n + j) % U) % S = (n + j) % S
  BY <1>0, SlotWrap, Zenon
<1>2. n + i = S * ((n + i) \div S) + ((n + i) % S) /\ (n + i) \div S \in Int
  BY DivMod
<1>3. n + j = S * ((n + j) \div S) + ((n + j) % S) /\ (n + j) \div S \in Int
  BY DivMod
<1>4. SUFFICES ASSUME (n + i) % S = (n + j) % S PROVE FALSE
  BY <1>1
<1> DEFINE d == ((n + j) \div S) - ((n + i) \div S)
<1>5. d \in Int /\ j - i = S * d
  BY <1>2, <1>3, <1>4
<1> HIDE DEF d
<1>6. d # 0 /\ ~(d < 0) /\ ~(d > 0)
  BY <1>5
<1> QED
  BY <1>5, <1>6

\* The slot of the character k after counter n.
Slot(U, S, n, k) == ((n + k) % U) % S

\* A slot is an index of the buffer.
LEMMA SlotType ==
  ASSUME NEW U \in Nat \ {0}, NEW S \in Nat \ {0}, NEW n \in Int, NEW k \in Int
  PROVE  Slot(U, S, n, k) \in 0 .. S - 1
<1>1. (n + k) % U \in Int
  BY ModType
<1> QED
  BY <1>1, ModType DEF Slot

\* The slots of S consecutive counters are different.
LEMMA SlotInjective ==
  ASSUME NEW U \in Nat \ {0}, NEW S \in Nat \ {0}, U % S = 0, S < U, NEW n \in 0 .. U - 1,
         NEW i \in 0 .. S - 1, NEW j \in 0 .. S - 1, Slot(U, S, n, i) = Slot(U, S, n, j)
  PROVE  i = j
<1>1. ASSUME i < j PROVE FALSE
  <2>1. i \in Nat /\ j \in Nat /\ j < i + S /\ j <= U
    OBVIOUS
  <2> QED
    BY <1>1, <2>1, SlotsDiffer, Zenon DEF Slot
<1>2. ASSUME j < i PROVE FALSE
  <2>1. i \in Nat /\ j \in Nat /\ i < j + S /\ i <= U
    OBVIOUS
  <2> QED
    BY <1>2, <2>1, SlotsDiffer, Zenon DEF Slot
<1> QED
  BY <1>1, <1>2

\* Counting from a counter further on.
LEMMA SlotAfter ==
  ASSUME NEW U \in Nat \ {0}, NEW S, NEW n \in 0 .. U - 1, NEW d \in Nat, NEW k \in Nat, d + k <= U
  PROVE  Slot(U, S, (n + d) % U, k) = Slot(U, S, n, d + k)
<1>1. (((n + d) % U) + k) % U = (n + d + k) % U
  BY PlusPlus
<1>2. n + d + k = n + (d + k)
  OBVIOUS
<1> QED
  BY <1>1, <1>2, Zenon DEF Slot

\* A counter that goes back by k.
LEMMA GoBack ==
  ASSUME NEW U \in Nat \ {0}, NEW n \in 0 .. U - 1, NEW d \in 0 .. U - 1, NEW k \in 0 .. d,
         NEW m, m = (n + d) % U
  PROVE  (m - k) % U = (n + (d - k)) % U /\ (m - k) % U \in 0 .. U - 1
<1>1. CASE n + d < U
  <2>1. m = n + d
    BY <1>1, ModSmall
  <2>2. m - k = n + (d - k) /\ m - k \in 0 .. U - 1
    BY <1>1, <2>1
  <2> QED
    BY <2>2, ModSmall
<1>2. CASE n + d >= U
  <2>1. m = n + d - U
    BY <1>2, ModWrap
  <2>2. CASE n + d - k >= U
    <3>1. (n + (d - k)) % U = n + (d - k) - U
      BY <2>2, ModWrap
    <3>2. (m - k) % U = m - k
      BY <2>1, <2>2, ModSmall
    <3> QED
      BY <2>1, <2>2, <3>1, <3>2
  <2>3. CASE n + d - k < U
    <3>1. (n + (d - k)) % U = n + (d - k)
      BY <2>3, ModSmall
    <3>2. (m - k) % U = m - k + U
      BY <1>2, <2>1, <2>3, ModNeg
    <3> QED
      BY <2>1, <2>3, <3>1, <3>2
  <2> QED
    BY <2>2, <2>3
<1> QED
  BY <1>1, <1>2

\* The same for GoBack.
LEMMA GoBackFrom ==
  ASSUME NEW U \in Nat \ {0}, NEW n \in 0 .. U - 1, NEW d \in 0 .. U - 1, NEW k \in 0 .. d
  PROVE  (((n + d) % U) - k) % U = (n + (d - k)) % U /\ (((n + d) % U) - k) % U \in 0 .. U - 1
BY GoBack, Zenon

-----------------------------------------------------------------------------
\* A function on 1..c is a sequence of length c.
LEMMA FunIsSeq ==
  ASSUME NEW S, NEW c \in Nat, NEW f \in [1 .. c -> S]
  PROVE  f \in Seq(S) /\ Len(f) = c
<1>1. f \in Seq(S)
  BY SeqDef, Zenon
<1>2. Len(f) \in Nat /\ DOMAIN f = 1 .. Len(f)
  BY <1>1, LenProperties
<1>3. 1 .. c = 1 .. Len(f)
  BY <1>2
<1> QED
  BY <1>1, <1>2, <1>3

\* One element more at the end.
LEMMA IsAppend ==
  ASSUME NEW S, NEW c \in Nat, NEW f \in [1 .. c -> S], NEW b \in S,
         NEW g \in [1 .. c + 1 -> S], g[c + 1] = b, \A k \in 1 .. c : g[k] = f[k]
  PROVE  g = Append(f, b)
<1>1. f \in Seq(S) /\ Len(f) = c /\ g \in Seq(S) /\ Len(g) = c + 1
  BY FunIsSeq
<1>2. Append(f, b) \in Seq(S) /\ Len(Append(f, b)) = c + 1 /\ Append(f, b)[c + 1] = b
      /\ \A k \in 1 .. c : Append(f, b)[k] = f[k]
  BY <1>1, AppendProperties
<1>3. \A k \in 1 .. c + 1 : g[k] = Append(f, b)[k]
  BY <1>2
<1> QED
  BY <1>1, <1>2, <1>3, SeqEqual

\* One element fewer at the front.
LEMMA IsTail ==
  ASSUME NEW S, NEW c \in Nat \ {0}, NEW f \in [1 .. c -> S],
         NEW g \in [1 .. c - 1 -> S], \A k \in 1 .. c - 1 : g[k] = f[k + 1]
  PROVE  f # <<>> /\ g = Tail(f)
<1>1. f \in Seq(S) /\ Len(f) = c
  BY FunIsSeq
<1>2. g \in Seq(S) /\ Len(g) = c - 1
  BY FunIsSeq
<1>3. f # <<>>
  BY <1>1, EmptySeq
<1>4. Tail(f) \in Seq(S) /\ Len(Tail(f)) = c - 1
      /\ \A k \in 1 .. c - 1 : Tail(f)[k] = f[k + 1]
  BY <1>1, <1>3, HeadTailProperties
<1> QED
  BY <1>2, <1>3, <1>4, SeqEqual
=============================================================================
