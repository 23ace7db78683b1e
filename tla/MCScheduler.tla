---------------------------- MODULE MCScheduler -----------------------------
(* Scheduler for TLC, and the loop of set_schedule_by_threshold run step by step. *)
EXTENDS Scheduler, Sequences

\* The for loop: the stripes from stripe k on, with offset and left as the loop
\* has them and rail the next rail.
RECURSIVE StripeLoop(_, _, _, _, _, _)
StripeLoop(k, n, max, offset, left, rail) ==
    IF k = n THEN <<>>
    ELSE LET size == AtMost(left, max)
         IN  <<[rail_id |-> rail, offset |-> offset, msg_size |-> size]>>
                \o StripeLoop(k + 1, n, max, offset + size, left - size, (rail + 1) % NumRails)

\* The factor loop of get_num_stripes.
RECURSIVE FactorLoop(_, _)
FactorLoop(i, most) ==
    IF i <= 1 THEN most ELSE IF NumRails % i = 0 THEN i ELSE FactorLoop(i - 1, most)

\* The schedule that Schedule describes stripe by stripe is the one the loop
\* builds with its running offset, and NumStripes is what the factor loop leaves.
LoopsAgree ==
    LET x == schedule.xfers
        n == Cardinality(DOMAIN x)
    IN  n > 0 =>
          /\ n = FactorLoop(Worth(schedule.size), Worth(schedule.size))
          /\ LET loop == StripeLoop(0, n, MaxStripeSize(schedule.size, n), 0,
                                    schedule.size, x[0].rail_id)
             IN  \A k \in DOMAIN x : x[k] = loop[k + 1]
=============================================================================
