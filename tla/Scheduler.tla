----------------------------- MODULE Scheduler ------------------------------
(***************************************************************************)
(* The threshold scheduler of src/src/nccl_ofi_scheduler.c: it cuts a      *)
(* message into stripes and deals the stripes to consecutive rails, the    *)
(* first one to the rail a round-robin counter names.                      *)
(*                                                                         *)
(* used is a history variable: the stripes each rail has been dealt so     *)
(* far.                                                                    *)
(***************************************************************************)
EXTENDS Stripes

CONSTANTS MaxSize,     \* bound on the size of a message
          MaxUsed      \* bound on the stripes dealt to a rail

ASSUME SchedulerAssumption ==
    /\ MaxSize \in Nat
    /\ MaxUsed \in Nat

VARIABLES rr_counter, schedule, used

vars == <<rr_counter, schedule, used>>

Init ==
    /\ rr_counter = 0
    /\ schedule = [size |-> 0, xfers |-> [k \in {} |-> 0]]
    /\ used = [r \in Rails |-> 0]

\* The counter moves by one rail whatever the number of stripes.
NextRailByOne(n) == (rr_counter + 1) % NumRails

NextRail(n) == (rr_counter + n) % NumRails

\* get_threshold_schedule.  The freelist of schedules has no maximum; when the
\* allocation fails the counter does not move, and nothing else changes.
GetSchedule(size) ==
    /\ schedule' = [size |-> size, xfers |-> Schedule(size, rr_counter)]
    /\ rr_counter' = NextRail(NumStripes(size))
    /\ used' = [r \in Rails |->
                  used[r] + Cardinality({k \in DOMAIN schedule'.xfers :
                                           schedule'.xfers[k].rail_id = r})]
    /\ \A r \in Rails : used'[r] <= MaxUsed

Next == \E size \in 0..MaxSize : GetSchedule(size)

Spec == Init /\ [][Next]_vars

-----------------------------------------------------------------------------
(* Properties *)

\* The type invariant of the scheduler: every stripe is dealt to a rail there is.
TypeOK ==
    /\ rr_counter \in Rails
    /\ used \in [Rails -> Nat]
    /\ schedule.size \in 0..MaxSize
    /\ schedule.xfers \in [DOMAIN schedule.xfers ->
                             [rail_id : Rails, offset : Nat, msg_size : Nat]]

\* The stripes of set_schedule_by_threshold go to different rails there are and follow
\* one another from the first byte of the message to the last: no byte is sent twice
\* and none is left out.  A message of at most min_stripe_size bytes is one stripe:
\* control and close messages, which insert_send_ctrl_req and
\* recv_comm_insert_send_close_req refuse to stripe, and eager messages, whose limit
\* rdma_init checks against min_stripe_size, rely on it; so does one of size 0.
StripesCover ==
    LET x == schedule.xfers
        n == Cardinality(DOMAIN x)
    IN  /\ TypeOK
        /\ \A j, k \in DOMAIN x : x[j].rail_id = x[k].rail_id => j = k
        /\ schedule.size <= MinStripe => n <= 1
        /\ n > 0 =>
              /\ x[0].offset = 0
              /\ \A k \in 1..(n - 1) : x[k].offset = x[k - 1].offset + x[k - 1].msg_size
              /\ x[n - 1].offset + x[n - 1].msg_size = schedule.size

\* Over any sequence of messages, of whatever sizes, no rail is dealt more than
\* one stripe more than another: the counter resumes where the last message ended.
Balanced == \A r, q \in Rails : used[r] <= used[q] + 1
=============================================================================
