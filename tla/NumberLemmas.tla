---------------------------- MODULE NumberLemmas ----------------------------
(***************************************************************************)
(* Facts about remainders, which the proofs about wrapping sequence        *)
(* numbers and about stripes use, and about counting.                      *)
(***************************************************************************)
EXTENDS Integers, FiniteSetTheorems, TLAPS

-----------------------------------------------------------------------------
(* Remainders. *)


\* Division with remainder.
LEMMA DivMod ==
    ASSUME NEW a \in Int, NEW n \in Nat \ {0}
    PROVE  /\ a \div n \in Int
           /\ a % n \in 0..(n - 1)
           /\ a = n * (a \div n) + (a % n)
BY SMT

\* Multiples of n are at least n apart.
LEMMA MulMono ==
    ASSUME NEW n \in Nat \ {0}, NEW p \in Int, NEW q \in Int, p < q
    PROVE  n * p + n <= n * q
<1>1. q - p >= 1 OBVIOUS
<1>2. n * (q - p) >= n BY <1>1, SMT
<1>3. n * (q - p) = n * q - n * p BY SMT
<1> QED BY <1>2, <1>3

\* The remainder is the only one in 0..n-1.
LEMMA ModUnique ==
    ASSUME NEW n \in Nat \ {0}, NEW q \in Int, NEW r \in 0..(n - 1)
    PROVE  (n * q + r) % n = r
<1> DEFINE a == n * q + r
<1>0. a \in Int OBVIOUS
<1>1. a \div n \in Int /\ a % n \in 0..(n - 1) /\ a = n * (a \div n) + (a % n)
  BY <1>0, DivMod
<1>2. ~ (q < a \div n)
  <2>1. SUFFICES ASSUME q < a \div n PROVE FALSE OBVIOUS
  <2>2. n * q + n <= n * (a \div n) BY <2>1, <1>1, MulMono
  <2> QED BY <2>2, <1>1
<1>3. ~ (a \div n < q)
  <2>1. SUFFICES ASSUME a \div n < q PROVE FALSE OBVIOUS
  <2>2. n * (a \div n) + n <= n * q BY <2>1, <1>1, MulMono
  <2> QED BY <2>2, <1>1
<1>4. a \div n = q BY <1>1, <1>2, <1>3
<1> QED BY <1>1, <1>4

\* Adding to a remainder and reducing again is adding to the number.
LEMMA ModAdd ==
    ASSUME NEW n \in Nat \ {0}, NEW a \in Int, NEW k \in Int
    PROVE  ((a % n) + k) % n = (a + k) % n
<1> DEFINE b == (a % n) + k
<1>1. a \div n \in Int /\ a % n \in 0..(n - 1) /\ a = n * (a \div n) + (a % n)
  BY DivMod
<1>2. b \in Int BY <1>1
<1>3. b \div n \in Int /\ b % n \in 0..(n - 1) /\ b = n * (b \div n) + (b % n)
  BY <1>2, DivMod, Zenon
<1>4. a + k = n * ((a \div n) + (b \div n)) + (b % n)
  <2>1. n * ((a \div n) + (b \div n)) = n * (a \div n) + n * (b \div n)
    BY <1>1, <1>3, SMT
  <2> QED BY <2>1, <1>1, <1>3
<1>5. (n * ((a \div n) + (b \div n)) + (b % n)) % n = b % n
  <2>1. (a \div n) + (b \div n) \in Int BY <1>1, <1>3
  <2> HIDE DEF b
  <2> QED BY <2>1, <1>3, ModUnique, Zenon
<1> QED BY <1>4, <1>5

\* Numbers less than n apart have different remainders.
LEMMA ModDistinct ==
    ASSUME NEW n \in Nat \ {0}, NEW a \in Int, NEW b \in Int, a < b, b < a + n
    PROVE  a % n # b % n
<1>1. SUFFICES ASSUME a % n = b % n PROVE FALSE OBVIOUS
<1>2. a \div n \in Int /\ a % n \in 0..(n - 1) /\ a = n * (a \div n) + (a % n)
  BY DivMod
<1>3. b \div n \in Int /\ b % n \in 0..(n - 1) /\ b = n * (b \div n) + (b % n)
  BY DivMod
<1>4. CASE a \div n < b \div n
  <2>1. n * (a \div n) + n <= n * (b \div n) BY <1>4, <1>2, <1>3, MulMono
  <2> QED BY <2>1, <1>1, <1>2, <1>3
<1>5. CASE b \div n < a \div n
  <2>1. n * (b \div n) + n <= n * (a \div n) BY <1>5, <1>2, <1>3, MulMono
  <2> QED BY <2>1, <1>1, <1>2, <1>3
<1>6. CASE a \div n = b \div n
  BY <1>6, <1>1, <1>2, <1>3
<1> QED BY <1>4, <1>5, <1>6, <1>2, <1>3

\* Reducing by a multiple of n first does not change the remainder by n.
LEMMA ModMod ==
    ASSUME NEW n \in Nat \ {0}, NEW f \in Nat \ {0}, f % n = 0, NEW a \in Int
    PROVE  (a % f) % n = a % n
<1> DEFINE K == f \div n
           q == a \div f
           r == a % f
<1>1. K \in Int /\ f = n * K
  BY DivMod, f \in Int
<1>2. q \in Int /\ r \in Int /\ a = f * q + r
  BY DivMod
<1>3. r \div n \in Int /\ r % n \in 0..(n - 1) /\ r = n * (r \div n) + (r % n)
  BY <1>2, DivMod, Zenon
<1> HIDE DEF K, q, r
<1>4. f * q = n * (K * q)
  BY <1>1, <1>2, SMT
<1>5. K * q \in Int BY <1>1, <1>2
<1>6. a = n * ((K * q) + (r \div n)) + (r % n)
  <2>1. n * ((K * q) + (r \div n)) = n * (K * q) + n * (r \div n)
    BY <1>3, <1>5, SMT
  <2> QED BY <2>1, <1>2, <1>3, <1>4, <1>5
<1>7. (K * q) + (r \div n) \in Int BY <1>3, <1>5
<1>8. (n * ((K * q) + (r \div n)) + (r % n)) % n = r % n
  BY <1>3, <1>7, ModUnique, Zenon
<1> QED BY <1>6, <1>8 DEF r

\* Among n consecutive numbers one has a given remainder.
LEMMA ModOnto ==
    ASSUME NEW n \in Nat \ {0}, NEW b \in Int, NEW r \in 0..(n - 1)
    PROVE  \E m \in b..(b + n - 1) : m % n = r
<1> DEFINE d == (r - b) % n
<1>1. d \in 0..(n - 1)
  BY DivMod, r - b \in Int
<1>2. (d + b) % n = r
  <2>1. (d + b) % n = ((r - b) + b) % n
    BY ModAdd, r - b \in Int, Zenon
  <2>2. r % n = r
    <3>1. (n * 0 + r) % n = r BY ModUnique, 0 \in Int
    <3> QED BY <3>1
  <2> QED BY <2>1, <2>2
<1> HIDE DEF d
<1>3. b + d \in b..(b + n - 1) /\ b + d = d + b BY <1>1
<1> QED BY <1>2, <1>3

-----------------------------------------------------------------------------
(* Counting. *)

\* Two sets that differ in x at most.
LEMMA DifferInOne ==
    ASSUME NEW S, NEW T, NEW x, IsFiniteSet(S), \A a : a # x => (a \in S <=> a \in T)
    PROVE  /\ IsFiniteSet(T)
           /\ Cardinality(S) \in Nat /\ Cardinality(T) \in Nat
           /\ Cardinality(T) + (IF x \in S THEN 1 ELSE 0)
                = Cardinality(S) + (IF x \in T THEN 1 ELSE 0)
<1>1. CASE x \in S /\ x \in T
  <2>1. S = T BY <1>1
  <2> QED BY <2>1, <1>1, FS_CardinalityType
<1>2. CASE x \notin S /\ x \notin T
  <2>1. S = T BY <1>2
  <2> QED BY <2>1, <1>2, FS_CardinalityType
<1>3. CASE x \in S /\ x \notin T
  <2>1. T = S \ {x} BY <1>3
  <2>2. IsFiniteSet(T) /\ Cardinality(T) = Cardinality(S) - 1
    BY <2>1, <1>3, FS_RemoveElement
  <2> QED BY <2>2, <1>3, FS_CardinalityType
<1>4. CASE x \notin S /\ x \in T
  <2>1. T = S \cup {x} BY <1>4
  <2>2. IsFiniteSet(T) /\ Cardinality(T) = Cardinality(S) + 1
    BY <2>1, <1>4, FS_AddElement
  <2> QED BY <2>2, <1>4, FS_CardinalityType
<1> QED BY <1>1, <1>2, <1>3, <1>4
=============================================================================
