--------------------------- MODULE SchedulerProofs --------------------------
(***************************************************************************)
(* Proofs about the threshold scheduler, for every number of rails,        *)
(* stripe size and alignment: the stripes of a message cover it, each on a *)
(* rail of its own, and no rail is dealt more than one stripe more than    *)
(* another.                                                                *)
(***************************************************************************)
EXTENDS Scheduler, StripesProofs

-----------------------------------------------------------------------------
(* The invariants. *)

\* The stripes dealt so far are full rounds of all rails and one round that has come
\* as far as the counter.
Rounds ==
    \E b \in Nat : \A r \in Rails : used[r] = b + (IF r < rr_counter THEN 1 ELSE 0)

\* What get_threshold_schedule keeps true.
IInv == StripesCover /\ Rounds

\* Before the first message no stripe has been dealt.
LEMMA InitIInv == Init => IInv
<1> SUFFICES ASSUME Init PROVE IInv OBVIOUS
<1> USE StripesAssumption, SchedulerAssumption DEF Init
<1> DEFINE x == schedule.xfers
<1>1. DOMAIN x = {} /\ schedule.size = 0 OBVIOUS
<1>2. Cardinality(DOMAIN x) = 0 BY <1>1, FS_EmptySet
<1>3. TypeOK
  <2>1. rr_counter \in Rails /\ used \in [Rails -> Nat] BY DEF Rails
  <2>2. schedule.size \in 0..MaxSize BY <1>1
  <2>3. schedule.xfers = [k \in {} |-> 0] OBVIOUS
  <2>4. schedule.xfers \in [DOMAIN schedule.xfers ->
                              [rail_id : Rails, offset : Nat, msg_size : Nat]]
    BY <2>3
  <2> QED BY <2>1, <2>2, <2>4 DEF TypeOK
<1>4. StripesCover
  <2> HIDE DEF Init, x
  <2>1. /\ \A j, k \in DOMAIN x : x[j].rail_id = x[k].rail_id => j = k
        /\ Cardinality(DOMAIN x) <= 1
        /\ ~ (Cardinality(DOMAIN x) > 0)
    BY <1>1, <1>2
  <2> QED BY <1>3, <2>1 DEF StripesCover, x
<1>5. Rounds
  <2>1. \A r \in Rails : used[r] = 0 + (IF r < rr_counter THEN 1 ELSE 0) BY DEF Rails
  <2> QED BY <2>1, 0 \in Nat DEF Rounds
<1> QED BY <1>4, <1>5 DEF IInv

\* A schedule that get_threshold_schedule has just made covers its message.
LEMMA StepCovers ==
    ASSUME TypeOK, NEW size \in 0..MaxSize, GetSchedule(size)
    PROVE  StripesCover'
<1> USE StripesAssumption, SchedulerAssumption
<1> DEFINE n == NumStripes(size)
           x == Schedule(size, rr_counter)
<1>1. size \in Nat /\ rr_counter \in Rails BY DEF TypeOK
<1>2. n \in 1..NumRails /\ (size <= MinStripe => n = 1) BY <1>1, NumStripesFacts
<1>3. /\ DOMAIN x = 0..(n - 1)
      /\ x \in [0..(n - 1) -> [rail_id : Rails, offset : Nat, msg_size : Nat]]
      /\ \A k \in 0..(n - 1) : x[k].rail_id = (rr_counter + k) % NumRails
      /\ x[0].offset = 0
      /\ \A k \in 1..(n - 1) : x[k].offset = x[k - 1].offset + x[k - 1].msg_size
      /\ x[n - 1].offset + x[n - 1].msg_size = size
  BY <1>1, ScheduleFacts
<1>4. \A j, k \in 0..(n - 1) :
        (rr_counter + j) % NumRails = (rr_counter + k) % NumRails => j = k
  BY <1>1, RailsDistinct
<1>5. schedule'.size = size /\ schedule'.xfers = x BY DEF GetSchedule
<1>6. rr_counter' \in Rails
  <2>1. rr_counter + n \in Int BY <1>1, <1>2 DEF Rails
  <2>2. rr_counter' = (rr_counter + n) % NumRails BY DEF GetSchedule, NextRail
  <2> QED BY <2>1, <2>2, DivMod, Zenon DEF Rails
<1>7. used' \in [Rails -> Nat]
  <2>1. used' = [r \in Rails |-> used[r] + Cardinality({k \in DOMAIN x : x[k].rail_id = r})]
    BY <1>5 DEF GetSchedule
  <2> HIDE DEF x, n
  <2>2. \A r \in Rails : Cardinality({k \in DOMAIN x : x[k].rail_id = r}) \in Nat
    <3> TAKE r \in Rails
    <3> DEFINE D == 0..(n - 1)
               S == {k \in D : x[k].rail_id = r}
    <3>1. IsFiniteSet(D) BY <1>2, FS_Interval
    <3>2. S \in SUBSET D OBVIOUS
    <3> HIDE DEF D, S
    <3>3. IsFiniteSet(S) BY <3>1, <3>2, FS_Subset
    <3>4. Cardinality(S) \in Nat BY <3>3, FS_CardinalityType
    <3> QED BY <3>4, <1>3 DEF S, D
  <2>3. \A r \in Rails : used[r] \in Nat BY DEF TypeOK
  <2> QED BY <2>1, <2>2, <2>3
<1> HIDE DEF x, n
<1>8. TypeOK'
  BY <1>3, <1>5, <1>6, <1>7 DEF TypeOK
<1>9. Cardinality(DOMAIN x) = n
  <2>1. Cardinality(0..(n - 1)) = n BY <1>2, FS_Interval
  <2> QED BY <2>1, <1>3
<1>10. \A j, k \in DOMAIN x : x[j].rail_id = x[k].rail_id => j = k
  BY <1>3, <1>4
<1>11. size <= MinStripe => n <= 1 BY <1>2
<1> QED BY <1>3, <1>5, <1>8, <1>9, <1>10, <1>11 DEF StripesCover

\* The counter of get_threshold_schedule resumes where the last message ended.
LEMMA StepRounds ==
    ASSUME TypeOK, Rounds, NEW size \in 0..MaxSize, GetSchedule(size)
    PROVE  Rounds'
<1> USE StripesAssumption, SchedulerAssumption
<1> DEFINE n == NumStripes(size)
           x == Schedule(size, rr_counter)
           Dealt(r) == Cardinality({k \in 0..(n - 1) : (rr_counter + k) % NumRails = r})
<1>1. size \in Nat /\ rr_counter \in Rails BY DEF TypeOK
<1>2. n \in 1..NumRails BY <1>1, NumStripesFacts
<1>3. DOMAIN x = 0..(n - 1) /\ \A k \in 0..(n - 1) : x[k].rail_id = (rr_counter + k) % NumRails
  BY <1>1, ScheduleFacts
<1>4. schedule'.xfers = x BY DEF GetSchedule
<1>5. \A r \in Rails : used'[r] = used[r] + Dealt(r)
  <2> TAKE r \in Rails
  <2>1. used'[r] = used[r] + Cardinality({k \in DOMAIN x : x[k].rail_id = r})
    BY <1>4 DEF GetSchedule
  <2> HIDE DEF x, n
  <2>2. {k \in DOMAIN x : x[k].rail_id = r}
          = {k \in 0..(n - 1) : (rr_counter + k) % NumRails = r}
    BY <1>3
  <2> QED BY <2>1, <2>2, Zenon
<1>6. rr_counter' = (rr_counter + n) % NumRails BY DEF GetSchedule, NextRail
<1> HIDE DEF x, n
<1>7. rr_counter' = IF rr_counter + n < NumRails THEN rr_counter + n
                    ELSE rr_counter + n - NumRails
  <2> DEFINE y == rr_counter + n
  <2>1. y \in 0..(2 * NumRails - 1) BY <1>1, <1>2 DEF Rails
  <2> HIDE DEF y
  <2>2. y % NumRails = IF y < NumRails THEN y ELSE y - NumRails BY <2>1, RailOf
  <2>3. rr_counter' = y % NumRails BY <1>6 DEF y
  <2>4. rr_counter' = IF y < NumRails THEN y ELSE y - NumRails BY <2>2, <2>3
  <2> QED BY <2>4, <1>1, <1>2 DEF y, Rails
<1>8. \A r \in Rails :
        Dealt(r) = IF r >= rr_counter
                   THEN IF r < rr_counter + n THEN 1 ELSE 0
                   ELSE IF r + NumRails < rr_counter + n THEN 1 ELSE 0
  BY <1>1, <1>2, DealtTo
<1> HIDE DEF Dealt
<1>9. PICK b \in Nat : \A r \in Rails : used[r] = b + (IF r < rr_counter THEN 1 ELSE 0)
  BY DEF Rounds
<1>10. CASE rr_counter + n < NumRails
  <2>1. \A r \in Rails : used'[r] = b + (IF r < rr_counter' THEN 1 ELSE 0)
    BY <1>1, <1>2, <1>5, <1>7, <1>8, <1>9, <1>10 DEF Rails
  <2> QED BY <2>1 DEF Rounds
<1>11. CASE ~ (rr_counter + n < NumRails)
  <2>1. \A r \in Rails : used'[r] = (b + 1) + (IF r < rr_counter' THEN 1 ELSE 0)
    BY <1>1, <1>2, <1>5, <1>7, <1>8, <1>9, <1>11 DEF Rails
  <2> QED BY <2>1, b + 1 \in Nat DEF Rounds
<1> QED BY <1>10, <1>11

\* A schedule covers its message and goes on with the round where the last one stopped.
LEMMA StepIInv == IInv /\ [Next]_vars => IInv'
<1> SUFFICES ASSUME IInv, [Next]_vars PROVE IInv' OBVIOUS
<1>1. TypeOK BY DEF IInv, StripesCover
<1>2. CASE Next
  <2>1. PICK size \in 0..MaxSize : GetSchedule(size) BY <1>2 DEF Next
  <2>2. StripesCover' BY <1>1, <2>1, StepCovers
  <2>3. Rounds' BY <1>1, <2>1, StepRounds DEF IInv
  <2> QED BY <2>2, <2>3 DEF IInv
<1>3. CASE UNCHANGED vars
  BY <1>3 DEF vars, IInv, StripesCover, TypeOK, Rounds
<1> QED BY <1>2, <1>3

\* In every schedule of get_threshold_schedule, for any number of rails, stripe size and
\* alignment, the stripes are on different rails, cover the message from its first byte
\* to its last without overlap, and are one when the message is no longer than
\* min_stripe_size.
THEOREM CoverTheorem == Spec => []StripesCover
<1>1. IInv => StripesCover BY DEF IInv
<1> QED BY InitIInv, StepIInv, <1>1, PTL DEF Spec

\* After any sequence of messages no rail has been dealt more than one stripe more than
\* another by get_threshold_schedule.
THEOREM BalanceTheorem == Spec => []Balanced
<1>1. IInv => Balanced
  <2> SUFFICES ASSUME IInv PROVE Balanced OBVIOUS
  <2>1. PICK b \in Nat : \A r \in Rails : used[r] = b + (IF r < rr_counter THEN 1 ELSE 0)
    BY DEF IInv, Rounds
  <2>2. \A r \in Rails : used[r] = b \/ used[r] = b + 1 BY <2>1
  <2> QED BY <2>2 DEF Balanced
<1> QED BY InitIInv, StepIInv, <1>1, PTL DEF Spec
=============================================================================
