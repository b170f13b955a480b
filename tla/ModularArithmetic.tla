-------------------------- MODULE ModularArithmetic --------------------------
(***************************************************************************)
(* Facts about counters that wrap around: what n % m does when n is        *)
(* incremented, and when two counts with the same remainder are the same   *)
(* count.  The provers know \div and % only through their ranges, so every *)
(* fact is derived from n = m * (n \div m) + (n % m).                      *)
(***************************************************************************)
EXTENDS Integers, TLAPS

\* Division with remainder.
LEMMA Div ==
  ASSUME NEW m \in Nat, m > 0, NEW a \in Nat
  PROVE  /\ a % m \in 0..m - 1
         /\ a \div m \in Nat
         /\ a = m * (a \div m) + (a % m)
BY SMT

\* A multiple that is not zero is at least the factor.
LEMMA MulPos ==
  ASSUME NEW m \in Nat, m > 0, NEW d \in Nat, d > 0
  PROVE  m * d >= m
BY SMT

\* Different multiples lie at least the factor apart.
LEMMA MulMono ==
  ASSUME NEW m \in Nat, m > 0, NEW p \in Nat, NEW q \in Nat, p < q
  PROVE  m * q >= m * p + m
<1>1. PICK d \in Nat : q = p + d /\ d > 0
  <2>1. q - p \in Nat /\ q = p + (q - p) /\ q - p > 0
    BY SMT
  <2> QED BY <2>1
<1>2. m * q = m * p + m * d
  BY <1>1, SMT
<1>3. m * d >= m
  BY <1>1, MulPos
<1>4. m * q \in Nat /\ m * p \in Nat /\ m * d \in Nat
  BY <1>1, SMT
<1> QED BY <1>2, <1>3, <1>4, SMT

\* Quotient and remainder are determined by the number.
LEMMA Unique ==
  ASSUME NEW m \in Nat, m > 0, NEW p \in Nat, NEW q \in Nat,
         NEW r \in 0..m - 1, NEW s \in 0..m - 1,
         m * p + r = m * q + s
  PROVE  p = q /\ r = s
<1>1. m * p \in Nat /\ m * q \in Nat
  BY SMT
<1>2. ~(p < q)
  BY <1>1, MulMono, SMT
<1>3. ~(q < p)
  BY <1>1, MulMono, SMT
<1> QED BY <1>1, <1>2, <1>3, SMT

\* Two numbers less than m apart with the same remainder are the same.
LEMMA ModInj ==
  ASSUME NEW m \in Nat, m > 0, NEW a \in Nat, NEW b \in Nat,
         a <= b, b - a < m, a % m = b % m
  PROVE  a = b
<1> DEFINE p == a \div m
           q == b \div m
<1>1. /\ p \in Nat /\ q \in Nat
      /\ a % m \in 0..m - 1
      /\ a = m * p + (a % m)
      /\ b = m * q + (b % m)
  BY Div
<1> HIDE DEF p, q
<1>2. m * p \in Nat /\ m * q \in Nat
  BY <1>1, SMT
<1>3. ~(p < q)
  BY <1>1, <1>2, MulMono, SMT
<1>4. ~(q < p)
  BY <1>1, <1>2, MulMono, SMT
<1>5. p = q
  BY <1>1, <1>3, <1>4, SMT
<1> QED BY <1>1, <1>2, <1>5, SMT

\* A counter that is kept as a remainder is incremented as a remainder.
LEMMA ModStep ==
  ASSUME NEW m \in Nat, m > 1, NEW n \in Nat
  PROVE  ((n % m) + 1) % m = (n + 1) % m
<1> DEFINE r == n % m
           q == n \div m
           s == (n + 1) % m
           p == (n + 1) \div m
<1>1. r \in 0..m - 1 /\ q \in Nat /\ n = m * q + r
  BY Div
<1>2. s \in 0..m - 1 /\ p \in Nat /\ n + 1 = m * p + s
  BY Div
<1> SUFFICES (r + 1) % m = s
  OBVIOUS
<1> HIDE DEF q, r, p, s
<1>3. m * q \in Nat /\ m * p \in Nat /\ m * (q + 1) = m * q + m
  BY <1>1, <1>2, SMT
<1>4. CASE r + 1 < m
  <2>1. m * q + (r + 1) = m * p + s
    BY <1>1, <1>2, <1>3, SMT
  <2>2. r + 1 \in 0..m - 1
    BY <1>1, <1>4, SMT
  <2>3. s = r + 1
    BY <1>1, <1>2, <2>1, <2>2, Unique
  <2> QED BY <1>1, <1>4, <2>3, SMT
<1>5. CASE r + 1 = m
  <2>1. m * (q + 1) = m * p + s
    BY <1>1, <1>2, <1>3, <1>5, SMT
  <2>2. ~(q + 1 < p)
    BY <1>1, <1>2, <1>3, <2>1, MulMono, SMT
  <2>3. ~(p < q + 1)
    <3>1. SUFFICES ASSUME p < q + 1 PROVE FALSE
      OBVIOUS
    <3>2. q + 1 \in Nat
      BY <1>1, SMT
    <3>3. m * (q + 1) >= m * p + m
      BY <1>2, <3>1, <3>2, MulMono, SMT
    <3> QED BY <1>2, <1>3, <2>1, <3>3, SMT
  <2>4. s = 0
    BY <1>1, <1>2, <1>3, <2>1, <2>2, <2>3, SMT
  <2> QED BY <1>5, <2>4, SMT
<1> QED BY <1>1, <1>4, <1>5, SMT

\* Division with remainder, of any integer.
LEMMA DivInt ==
  ASSUME NEW m \in Nat, m > 0, NEW a \in Int
  PROVE  /\ a % m \in 0..m - 1
         /\ a \div m \in Int
         /\ a = m * (a \div m) + (a % m)
BY SMT

\* A multiple that is smaller than the factor is zero.
LEMMA SmallMultiple ==
  ASSUME NEW m \in Nat, m > 0, NEW k \in Int, 0 - m < m * k, m * k < m
  PROVE  k = 0
<1>1. ~(k > 0)
  BY MulPos, SMT
<1>2. ~(k < 0)
  <2>1. SUFFICES ASSUME k < 0 PROVE FALSE
    OBVIOUS
  <2>2. PICK d \in Nat : d = 0 - k /\ d > 0
    <3>1. 0 - k \in Nat /\ 0 - k > 0
      BY <2>1, SMT
    <3> QED
      BY <3>1
  <2>3. m * d >= m
    BY <2>2, MulPos
  <2>4. m * d = 0 - m * k
    BY <2>2, SMT
  <2>5. m * d \in Nat /\ m * k \in Int
    BY <2>2, SMT
  <2> QED
    BY <2>3, <2>4, <2>5, SMT
<1> QED
  BY <1>1, <1>2, SMT

\* The difference of two counts, taken of their remainders, tells the earlier one
\* as long as they are less than half of the remainders apart.
LEMMA EarlierByRemainder ==
  ASSUME NEW m \in Nat, m > 0, NEW h \in Nat, 2 * h < m,
         NEW x \in Nat, NEW y \in Nat, x # y, x - y < h, y - x < h
  PROVE  ((y % m) - (x % m)) % m < h <=> x < y
<1> DEFINE p == x \div m
           q == y \div m
           u == x % m
           v == y % m
           k == (v - u) \div m
           r == (v - u) % m
<1>1. p \in Nat /\ q \in Nat /\ u \in 0..m - 1 /\ v \in 0..m - 1
      /\ x = m * p + u /\ y = m * q + v
  BY Div
<1>2. v - u \in Int
  BY <1>1
<1>3. k \in Int /\ r \in 0..m - 1 /\ v - u = m * k + r
  BY <1>2, DivInt
<1> SUFFICES r < h <=> x < y
  OBVIOUS
<1> HIDE DEF p, q, u, v, k, r
<1>4. PICK l \in Int : l = (q - p) + k
  BY <1>1, <1>3
<1>5. m * l = (m * q - m * p) + m * k
  BY <1>1, <1>3, <1>4, SMT
<1>6. m * q \in Nat /\ m * p \in Nat /\ m * k \in Int /\ m * l \in Int
  BY <1>1, <1>3, <1>4, SMT
<1>7. y - x = m * l + r
  BY <1>1, <1>3, <1>5, <1>6, SMT
<1>8. ASSUME x < y PROVE r < h
  <2>1. 0 - m < m * l /\ m * l < m
    BY <1>3, <1>6, <1>7, <1>8, SMT
  <2>2. l = 0
    BY <2>1, SmallMultiple
  <2>3. m * l = 0
    BY <2>2, SMT
  <2> QED
    BY <1>3, <1>7, <2>3, SMT
<1>9. ASSUME r < h PROVE x < y
  <2>1. SUFFICES ASSUME y < x PROVE FALSE
    BY SMT
  <2>2. 0 - m < m * l /\ m * l < 0
    BY <1>3, <1>6, <1>7, <1>9, <2>1, SMT
  <2>3. l = 0
    BY <1>6, <2>2, SmallMultiple, SMT
  <2>4. m * l = 0
    BY <2>3, SMT
  <2> QED
    BY <2>2, <2>4, SMT
<1> QED
  BY <1>8, <1>9
=============================================================================
