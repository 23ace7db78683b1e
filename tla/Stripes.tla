------------------------------ MODULE Stripes -------------------------------
(***************************************************************************)
(* How src/src/nccl_ofi_scheduler.c cuts a message into stripes and which  *)
(* rails it deals them to: the arithmetic of get_num_stripes and of        *)
(* set_schedule_by_threshold.  Sizes are in bytes.                         *)
(***************************************************************************)
EXTENDS Integers, FiniteSetsExt

CONSTANTS NumRails,    \* rails of the device
          MinStripe,   \* min_stripe_size
          Align        \* align, 128 in the code

ASSUME StripesAssumption ==
    /\ NumRails \in Nat \ {0}
    /\ MinStripe \in Nat \ {0}
    /\ Align \in Nat \ {0}

Rails == 0..(NumRails - 1)

DivCeil(a, b) == (a + (b - 1)) \div b

AtMost(a, b) == IF a <= b THEN a ELSE b

\* The most stripes the size is worth: at least one, at most one per rail.
Worth(size) == Max({1, AtMost(DivCeil(size, MinStripe), NumRails)})

\* The largest factor of the number of rails, 1 aside, among the counts that the
\* size is worth.  The loop stops short of 1: when it meets no factor, the count
\* it started from stands.
NumStripes(size) ==
    LET factors == {i \in 2..Worth(size) : NumRails % i = 0}
    IN  IF factors = {} THEN Worth(size) ELSE Max(factors)

\* The stripe size rounded down to the alignment.
MaxStripeSizeDown(size, n) == (DivCeil(size, n) \div Align) * Align

MaxStripeSize(size, n) == DivCeil(DivCeil(size, n), Align) * Align

\* The last stripe is as long as the others.
StripeUncut(size, n, k, first) ==
    [rail_id  |-> (first + k) % NumRails,
     offset   |-> AtMost(size, k * MaxStripeSize(size, n)),
     msg_size |-> MaxStripeSize(size, n)]

\* Stripe k of n.  The loop has assigned k full stripes, or the whole message.
Stripe(size, n, k, first) ==
    LET offset == AtMost(size, k * MaxStripeSize(size, n))
    IN  [rail_id  |-> (first + k) % NumRails,
         offset   |-> offset,
         msg_size |-> AtMost(size - offset, MaxStripeSize(size, n))]

Schedule(size, first) ==
    [k \in 0..(NumStripes(size) - 1) |-> Stripe(size, NumStripes(size), k, first)]
=============================================================================
