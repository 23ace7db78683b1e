---------------------------- MODULE StripesProofs ---------------------------
(***************************************************************************)
(* Lemmas about the cutting of a message into stripes, for every number of *)
(* rails, stripe size and alignment: how many stripes there are, where     *)
(* each begins and ends, and which rail it is dealt to.                    *)
(***************************************************************************)
EXTENDS Stripes, NumberLemmas, WellFoundedInduction, NaturalsInduction

-----------------------------------------------------------------------------
(* The arithmetic of get_num_stripes and set_schedule_by_threshold. *)

\* NCCL_OFI_DIV_CEIL is the least number of pieces of b that hold a.
LEMMA DivCeilFacts ==
    ASSUME NEW a \in Nat, NEW b \in Nat \ {0}
    PROVE  /\ DivCeil(a, b) \in Nat
           /\ a <= b * DivCeil(a, b)
           /\ a <= b => DivCeil(a, b) <= 1
<1> DEFINE s == a + (b - 1)
<1>1. s \in Nat OBVIOUS
<1>2. s \div b \in Int /\ s % b \in 0..(b - 1) /\ s = b * (s \div b) + (s % b)
  BY <1>1, DivMod
<1> DEFINE q == s \div b
<1>3. q >= 0
  <2>1. SUFFICES ASSUME q < 0 PROVE FALSE BY <1>2
  <2>2. b * q + b <= b * 0 BY <2>1, <1>2, MulMono, 0 \in Int
  <2> QED BY <2>2, <1>1, <1>2
<1>4. a <= b * q BY <1>2
<1>5. a <= b => q <= 1
  <2>1. SUFFICES ASSUME a <= b, 1 < q PROVE FALSE BY <1>2
  <2>2. b * 1 + b <= b * q BY <2>1, <1>2, MulMono, 1 \in Int
  <2> QED BY <2>1, <2>2, <1>2
<1> QED BY <1>2, <1>3, <1>4, <1>5 DEF DivCeil

\* A set of numbers that has a member, none of them above w, has a largest one.
LEMMA MaxFacts ==
    ASSUME NEW S \in SUBSET Nat, S # {}, NEW w \in Nat, \A x \in S : x <= w
    PROVE  Max(S) \in S /\ \A x \in S : x <= Max(S)
<1> DEFINE T == {w - x : x \in S}
<1>1. T \subseteq Nat /\ T # {}
  <2>1. \A x \in S : x \in Nat /\ x <= w OBVIOUS
  <2>2. \A x \in S : w - x \in Nat BY <2>1
  <2> QED BY <2>2, Zenon
<1>2. PICK y \in T : \A z \in T : ~ (<<z, y>> \in OpToRel(<, Nat))
  BY <1>1, WFMin, NatLessThanWellFounded, Zenon
<1>3. \A z \in T : y <= z
  <2> TAKE z \in T
  <2>1. y \in Nat /\ z \in Nat BY <1>1, <1>2, Zenon
  <2> HIDE DEF T
  <2>2. z < y => <<z, y>> \in OpToRel(<, Nat)
    <3>1. OpToRel(<, Nat) = {ss \in Nat \X Nat : ss[1] < ss[2]} BY DEF OpToRel
    <3> QED BY <3>1, <2>1, Zenon
  <2>3. ~ (z < y) BY <1>2, <2>2, Zenon
  <2> QED BY <2>1, <2>3
<1>4. PICK m \in S : y = w - m BY <1>2, Zenon
<1>5. \A x \in S : m >= x
  <2> TAKE x \in S
  <2>1. w - x \in T OBVIOUS
  <2> QED BY <2>1, <1>3, <1>4
<1>6. \E m1 \in S : \A x \in S : m1 >= x BY <1>4, <1>5
<1>7. Max(S) \in S /\ \A x \in S : Max(S) >= x BY <1>6, Zenon DEF Max
<1> QED BY <1>7

\* get_num_stripes: one stripe at least, one per rail at most, and one for a
\* message of at most min_stripe_size bytes.
LEMMA NumStripesFacts ==
    ASSUME NEW size \in Nat
    PROVE  /\ NumStripes(size) \in 1..NumRails
           /\ size <= MinStripe => NumStripes(size) = 1
<1> USE StripesAssumption
<1> DEFINE c == DivCeil(size, MinStripe)
           a == AtMost(c, NumRails)
           w == Worth(size)
           F == {i \in 2..w : NumRails % i = 0}
<1>1. c \in Nat /\ (size <= MinStripe => c <= 1) BY DivCeilFacts
<1>2. a \in Nat /\ a <= NumRails /\ (size <= MinStripe => a <= 1)
  BY <1>1 DEF AtMost
<1> HIDE DEF c, a
<1>3. w = Max({1, a}) BY DEF Worth, a, c
<1>4. w \in {1, a} /\ w >= 1 /\ w >= a
  <2> DEFINE S == {1, a}
  <2>1. S \in SUBSET Nat /\ S # {} /\ \A x \in S : x <= NumRails BY <1>2
  <2>2. Max(S) \in S /\ \A x \in S : x <= Max(S) BY <2>1, MaxFacts, NumRails \in Nat
  <2> QED BY <2>2, <1>3
<1>5. w \in 1..NumRails /\ (size <= MinStripe => w = 1) BY <1>2, <1>4
<1>6. CASE F = {}
  BY <1>6, <1>5 DEF NumStripes
<1>7. CASE F # {}
  <2>1. F \in SUBSET Nat /\ \A x \in F : x <= w BY <1>5
  <2>2. Max(F) \in F BY <2>1, <1>5, <1>7, MaxFacts, w \in Nat, Zenon
  <2>3. NumStripes(size) = Max(F) BY <1>7 DEF NumStripes
  <2> QED BY <2>2, <2>3, <1>5
<1> QED BY <1>6, <1>7

\* n stripes of the largest size hold the message.
LEMMA MaxStripeFacts ==
    ASSUME NEW size \in Nat, NEW n \in Nat \ {0}
    PROVE  MaxStripeSize(size, n) \in Nat /\ size <= n * MaxStripeSize(size, n)
<1> USE StripesAssumption
<1> DEFINE d == DivCeil(size, n)
           e == DivCeil(d, Align)
<1>1. d \in Nat /\ size <= n * d BY DivCeilFacts
<1> HIDE DEF d
<1>2. e \in Nat /\ d <= Align * e BY <1>1, DivCeilFacts
<1> HIDE DEF e
<1> DEFINE m == e * Align
<1>3. m \in Nat /\ d <= m BY <1>2, SMT
<1>4. MaxStripeSize(size, n) = m BY DEF MaxStripeSize, d, e
<1> HIDE DEF m
<1>5. n * d <= n * m BY <1>1, <1>3, SMT
<1>6. n * m \in Nat /\ n * d \in Nat BY <1>1, <1>3, SMT
<1> QED BY <1>1, <1>3, <1>4, <1>5, <1>6

\* A number below twice the number of rails, reduced.
LEMMA RailOf ==
    ASSUME NEW x \in 0..(2 * NumRails - 1)
    PROVE  x % NumRails = IF x < NumRails THEN x ELSE x - NumRails
<1> USE StripesAssumption
<1>1. CASE x < NumRails
  <2>1. (NumRails * 0 + x) % NumRails = x BY <1>1, ModUnique, 0 \in Int
  <2> QED BY <2>1, <1>1
<1>2. CASE x >= NumRails
  <2>1. x - NumRails \in 0..(NumRails - 1) BY <1>2
  <2>2. (NumRails * 1 + (x - NumRails)) % NumRails = x - NumRails
    BY <2>1, ModUnique, 1 \in Int
  <2> QED BY <2>2, <1>2
<1> QED BY <1>1, <1>2

\* The rail of stripe k is one there is, and the stripes of one message are on
\* different rails.
LEMMA RailsDistinct ==
    ASSUME NEW size \in Nat, NEW first \in Rails,
           NEW j \in 0..(NumStripes(size) - 1), NEW k \in 0..(NumStripes(size) - 1)
    PROVE  /\ (first + k) % NumRails \in Rails
           /\ (first + j) % NumRails = (first + k) % NumRails => j = k
<1> USE StripesAssumption
<1>1. NumStripes(size) \in 1..NumRails BY NumStripesFacts
<1>2. first \in Int /\ first + j \in Int /\ first + k \in Int BY <1>1 DEF Rails
<1>3. (first + k) % NumRails \in Rails BY <1>2, DivMod DEF Rails
<1>4. CASE j < k
  <2>1. first + j < first + k /\ first + k < first + j + NumRails BY <1>1, <1>2, <1>4
  <2> QED BY <2>1, <1>2, <1>3, ModDistinct, Zenon
<1>5. CASE k < j
  <2>1. first + k < first + j /\ first + j < first + k + NumRails BY <1>1, <1>2, <1>5
  <2> QED BY <2>1, <1>2, <1>3, ModDistinct, Zenon
<1> QED BY <1>1, <1>3, <1>4, <1>5

\* Where stripe k of n begins and where it ends.
LEMMA StripeFacts ==
    ASSUME NEW size \in Nat, NEW n \in Nat \ {0}, NEW k \in Nat, NEW first
    PROVE  LET m == MaxStripeSize(size, n)
               x == Stripe(size, n, k, first)
           IN  /\ x.rail_id = (first + k) % NumRails
               /\ x = [rail_id |-> x.rail_id, offset |-> x.offset, msg_size |-> x.msg_size]
               /\ x.offset \in Nat /\ x.msg_size \in Nat
               /\ x.offset = AtMost(size, k * m)
               /\ x.offset + x.msg_size = AtMost(size, (k + 1) * m)
<1> DEFINE m == MaxStripeSize(size, n)
           p == k * m
           q == (k + 1) * m
<1>1. m \in Nat BY MaxStripeFacts
<1> HIDE DEF m
<1>2. p \in Nat /\ q = p + m BY <1>1, SMT
<1> HIDE DEF p, q
<1>3. /\ AtMost(size, p) \in Nat
      /\ AtMost(size - AtMost(size, p), m) \in Nat
      /\ AtMost(size, p) + AtMost(size - AtMost(size, p), m) = AtMost(size, q)
  BY <1>1, <1>2 DEF AtMost
<1>4. Stripe(size, n, k, first) =
        [rail_id  |-> (first + k) % NumRails,
         offset   |-> AtMost(size, p),
         msg_size |-> AtMost(size - AtMost(size, p), m)]
  BY DEF Stripe, p, m
<1> QED BY <1>3, <1>4 DEF p, q, m

\* The schedule of a message, as a whole.
LEMMA ScheduleFacts ==
    ASSUME NEW size \in Nat, NEW first \in Rails
    PROVE  LET n == NumStripes(size)
               x == Schedule(size, first)
           IN  /\ DOMAIN x = 0..(n - 1)
               /\ x \in [0..(n - 1) -> [rail_id : Rails, offset : Nat, msg_size : Nat]]
               /\ \A k \in 0..(n - 1) : x[k].rail_id = (first + k) % NumRails
               /\ x[0].offset = 0
               /\ \A k \in 1..(n - 1) : x[k].offset = x[k - 1].offset + x[k - 1].msg_size
               /\ x[n - 1].offset + x[n - 1].msg_size = size
<1> USE StripesAssumption
<1> DEFINE n == NumStripes(size)
           x == Schedule(size, first)
           m == MaxStripeSize(size, n)
<1>1. n \in 1..NumRails BY NumStripesFacts
<1>2. x = [k \in 0..(n - 1) |-> Stripe(size, n, k, first)] BY DEF Schedule
<1>3. \A k \in 0..(n - 1) : (first + k) % NumRails \in Rails BY RailsDistinct
<1>4. m \in Nat /\ size <= n * m BY <1>1, MaxStripeFacts
<1> HIDE DEF n, x, m
<1>5. \A k \in 0..(n - 1) :
        /\ x[k].rail_id = (first + k) % NumRails
        /\ x[k] = [rail_id |-> x[k].rail_id, offset |-> x[k].offset, msg_size |-> x[k].msg_size]
        /\ x[k].offset \in Nat /\ x[k].msg_size \in Nat
        /\ x[k].offset = AtMost(size, k * m)
        /\ x[k].offset + x[k].msg_size = AtMost(size, (k + 1) * m)
  <2> TAKE k \in 0..(n - 1)
  <2>1. k \in Nat /\ n \in Nat \ {0} BY <1>1
  <2>2. x[k] = Stripe(size, n, k, first) BY <1>2
  <2> QED BY <2>1, <2>2, StripeFacts DEF m
<1>6. \A k \in 0..(n - 1) : x[k] \in [rail_id : Rails, offset : Nat, msg_size : Nat]
  <2> TAKE k \in 0..(n - 1)
  <2>1. x[k].rail_id \in Rails BY <1>3, <1>5, Zenon
  <2>2. x[k].offset \in Nat /\ x[k].msg_size \in Nat BY <1>5, Zenon
  <2>3. x[k] = [rail_id |-> x[k].rail_id, offset |-> x[k].offset, msg_size |-> x[k].msg_size]
    BY <1>5
  <2> DEFINE rail == x[k].rail_id
             off == x[k].offset
             len == x[k].msg_size
  <2> HIDE DEF rail, off, len
  <2>4. [rail_id |-> rail, offset |-> off, msg_size |-> len]
          \in [rail_id : Rails, offset : Nat, msg_size : Nat]
    BY <2>1, <2>2 DEF rail, off, len
  <2> QED BY <2>3, <2>4 DEF rail, off, len
<1>7. x[0].offset = 0
  <2>1. 0 \in 0..(n - 1) /\ 0 * m = 0 BY <1>1, <1>4, SMT
  <2>2. x[0].offset = AtMost(size, 0) BY <2>1, <1>5, Zenon
  <2> QED BY <2>2 DEF AtMost
<1>8. \A k \in 1..(n - 1) : x[k].offset = x[k - 1].offset + x[k - 1].msg_size
  <2> TAKE k \in 1..(n - 1)
  <2>1. k \in 0..(n - 1) /\ k - 1 \in 0..(n - 1) /\ (k - 1) + 1 = k BY <1>1
  <2>2. x[k].offset = AtMost(size, k * m) BY <2>1, <1>5, Zenon
  <2>3. x[k - 1].offset + x[k - 1].msg_size = AtMost(size, ((k - 1) + 1) * m)
    BY <2>1, <1>5, Zenon
  <2>4. AtMost(size, ((k - 1) + 1) * m) = AtMost(size, k * m) BY <2>1, Zenon
  <2> QED BY <2>2, <2>3, <2>4, Zenon
<1>9. x[n - 1].offset + x[n - 1].msg_size = size
  <2>1. n - 1 \in 0..(n - 1) /\ (n - 1) + 1 = n BY <1>1
  <2>2. n * m \in Nat BY <1>1, <1>4, SMT
  <2>3. AtMost(size, n * m) = size BY <2>2, <1>4 DEF AtMost
  <2> QED BY <2>1, <2>3, <1>5, Zenon
<1>10. DOMAIN x = 0..(n - 1) BY <1>2
<1>11. x \in [0..(n - 1) -> [rail_id : Rails, offset : Nat, msg_size : Nat]] BY <1>2, <1>6
<1> QED BY <1>5, <1>7, <1>8, <1>9, <1>10, <1>11 DEF n, x

\* How many stripes of n, dealt from rail first on, a rail gets: one if the stripes
\* come as far as the rail, on the way round at most once.
LEMMA DealtTo ==
    ASSUME NEW first \in Rails, NEW n \in 1..NumRails, NEW r \in Rails
    PROVE  Cardinality({k \in 0..(n - 1) : (first + k) % NumRails = r})
             = IF r >= first
               THEN IF r < first + n THEN 1 ELSE 0
               ELSE IF r + NumRails < first + n THEN 1 ELSE 0
<1> USE StripesAssumption DEF Rails
<1> DEFINE S == {k \in 0..(n - 1) : (first + k) % NumRails = r}
           d == IF r >= first THEN r - first ELSE r - first + NumRails
<1>1. \A k \in 0..(n - 1) : (first + k) % NumRails = r <=> k = d
  <2> TAKE k \in 0..(n - 1)
  <2>1. first + k \in 0..(2 * NumRails - 1) OBVIOUS
  <2>2. (first + k) % NumRails
          = IF first + k < NumRails THEN first + k ELSE first + k - NumRails
    BY <2>1, RailOf
  <2> QED BY <2>1, <2>2
<1>2. d \in Nat OBVIOUS
<1> HIDE DEF d
<1>3. CASE d < n
  <2>1. d \in 0..(n - 1) BY <1>2, <1>3
  <2>2. \A k : k \in S <=> k = d BY <1>1, <2>1, Zenon
  <2> HIDE DEF S
  <2>3. S = {d} BY <2>2
  <2>4. Cardinality(S) = 1 BY <2>3, FS_Singleton
  <2> QED BY <2>4, <1>3 DEF S, d
<1>4. CASE ~ (d < n)
  <2>1. S = {} BY <1>1, <1>2, <1>4
  <2>2. Cardinality(S) = 0 BY <2>1, FS_EmptySet
  <2> QED BY <2>2, <1>4 DEF d
<1> QED BY <1>3, <1>4
=============================================================================
