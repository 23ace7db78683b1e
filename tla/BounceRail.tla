----------------------------- MODULE BounceRail -----------------------------
(***************************************************************************)
(* The bounce buffers of one rail of an endpoint (src/src/nccl_ofi_rdma.c).*)
(*                                                                         *)
(* A rail keeps receive buffers posted for the messages that come without  *)
(* being asked for.  num is its count of posted buffers: the handlers      *)
(* lower it when they keep a buffer, raise it before they post one again,  *)
(* and fill up to max when it is below min.  It is changed under           *)
(* bounce_mutex and read without.  What a thread does between two          *)
(* critical sections is a step of its own; several threads may handle      *)
(* completions of the endpoint.                                            *)
(*                                                                         *)
(* loc says where a buffer, with its request, is:                          *)
(*   "free"     in the free list                                           *)
(*   "posted"   posted to the rail                                         *)
(*   "pending"  in the queue of pending requests after EAGAIN              *)
(*   "handler"  in the hands of a thread                                   *)
(*   "held"     in a message buffer or under an eager copy                 *)
(***************************************************************************)
EXTENDS Integers, FiniteSetsExt

CONSTANTS Threads, Bufs,
          MinPosted, MaxPosted,   \* min_bounce_posted, max_bounce_posted
          MaxHeld,                \* bound on the buffers held by messages
          MaxFailures,            \* bound on the failed allocations
          None

ASSUME BounceAssumption ==
    /\ MinPosted \in Nat \ {0} /\ MaxPosted \in Nat /\ MinPosted <= MaxPosted
    /\ MaxHeld \in Nat /\ MaxFailures \in Nat
    /\ IsFiniteSet(Threads) /\ IsFiniteSet(Bufs) /\ None \notin Bufs
    /\ Cardinality(Bufs) >= MaxPosted + MaxHeld

VARIABLES num, loc,
          pc,       \* what each thread does next
          cur,      \* the buffer the thread handles
          need,     \* buffers the thread has counted and not yet posted
          lost,     \* buffers counted for good, after a failed allocation
          failures

vars == <<num, loc, pc, cur, need, lost, failures>>

At(place) == {b \in Bufs : loc[b] = place}

\* init_bounce_buffers; the first thread is in post_bounce_buffs.
Init ==
    /\ num = 0
    /\ loc = [b \in Bufs |-> "free"]
    /\ \E t \in Threads : pc = [u \in Threads |-> IF u = t THEN "promise" ELSE "idle"]
    /\ cur = [t \in Threads |-> None]
    /\ need = [t \in Threads |-> 0]
    /\ lost = 0 /\ failures = 0

\* The buffers that messages keep, or are about to.
Kept == At("held") \cup {b \in Bufs : \E t \in Threads : cur[t] = b /\ pc[t] # "repost"}

\* A message that leaves its buffer free: a connect message, a close message, a
\* control message for which the send request is there (repost_bounce_buff).
TakeRepost(t, b) ==
    /\ pc[t] = "idle" /\ loc[b] = "posted"
    /\ loc' = [loc EXCEPT ![b] = "handler"]
    /\ cur' = [cur EXCEPT ![t] = b]
    /\ pc' = [pc EXCEPT ![t] = "repost"]
    /\ UNCHANGED <<num, need, lost, failures>>

\* A control message that comes before send(): handle_ctrl_recv has put its buffer
\* into the message buffer when it calls decrease_bounce_buff_cnt.
TakeCtrl(t, b) ==
    /\ pc[t] = "idle" /\ loc[b] = "posted" /\ Cardinality(Kept) < MaxHeld
    /\ loc' = [loc EXCEPT ![b] = "held"]
    /\ cur' = [cur EXCEPT ![t] = b]
    /\ pc' = [pc EXCEPT ![t] = "decrease_ctrl"]
    /\ UNCHANGED <<num, need, lost, failures>>

\* An eager message: handle_eager_recv calls decrease_bounce_buff_cnt first.
TakeEager(t, b) ==
    /\ pc[t] = "idle" /\ loc[b] = "posted" /\ Cardinality(Kept) < MaxHeld
    /\ loc' = [loc EXCEPT ![b] = "handler"]
    /\ cur' = [cur EXCEPT ![t] = b]
    /\ pc' = [pc EXCEPT ![t] = "decrease_eager"]
    /\ UNCHANGED <<num, need, lost, failures>>

\* check_post_bounce_req, called by send(), by recv() and at the end of an eager
\* copy: the buffer is posted again if it counts, and freed if the rail is full.
Return(t, b) ==
    /\ pc[t] = "idle" /\ loc[b] = "held"
    /\ IF num < MaxPosted
       THEN /\ num' = num + 1
            /\ loc' = [loc EXCEPT ![b] = "handler"]
            /\ cur' = [cur EXCEPT ![t] = b]
            /\ pc' = [pc EXCEPT ![t] = "repost"]
       ELSE /\ loc' = [loc EXCEPT ![b] = "free"]
            /\ UNCHANGED <<num, cur, pc>>
    /\ UNCHANGED <<need, lost, failures>>

\* Without the queue of pending requests: on EAGAIN the buffer is freed.
RepostForgets(t) ==
    /\ pc[t] = "repost"
    /\ \/ /\ loc' = [loc EXCEPT ![cur[t]] = "posted"]
          /\ pc' = [pc EXCEPT ![t] = "check"]
       \/ /\ loc' = [loc EXCEPT ![cur[t]] = "free"]
          /\ pc' = [pc EXCEPT ![t] = "idle"]
    /\ cur' = [cur EXCEPT ![t] = None]
    /\ UNCHANGED <<num, need, lost, failures>>

\* send_progress on the buffer; on EAGAIN it waits in the queue of pending requests
\* and the thread is through.
Repost(t) ==
    /\ pc[t] = "repost"
    /\ \/ /\ loc' = [loc EXCEPT ![cur[t]] = "posted"]
          /\ pc' = [pc EXCEPT ![t] = "check"]
       \/ /\ loc' = [loc EXCEPT ![cur[t]] = "pending"]
          /\ pc' = [pc EXCEPT ![t] = "idle"]
    /\ cur' = [cur EXCEPT ![t] = None]
    /\ UNCHANGED <<num, need, lost, failures>>

\* process_pending_reqs on a bounce buffer.
PostPending(t, b) ==
    /\ pc[t] = "idle" /\ loc[b] = "pending"
    /\ loc' = [loc EXCEPT ![b] = "posted"]
    /\ UNCHANGED <<num, pc, cur, need, lost, failures>>

\* decrease_bounce_buff_cnt, the critical section.  The eager handler has its buffer
\* in hand still.
Decrease(t) ==
    /\ \/ pc[t] = "decrease_ctrl" /\ cur' = [cur EXCEPT ![t] = None]
       \/ pc[t] = "decrease_eager" /\ UNCHANGED cur
    /\ num' = num - 1
    /\ pc' = [pc EXCEPT ![t] = "check"]
    /\ UNCHANGED <<loc, need, lost, failures>>

\* The end of a handler: an eager message keeps the buffer.
Leave(t) ==
    /\ pc' = [pc EXCEPT ![t] = "idle"]
    /\ cur' = [cur EXCEPT ![t] = None]
    /\ loc' = IF cur[t] = None THEN loc ELSE [loc EXCEPT ![cur[t]] = "held"]

\* check_post_bounce_buffers_rail: a look at num without the lock.
Check(t) ==
    /\ pc[t] = "check"
    /\ \/ num < MinPosted /\ pc' = [pc EXCEPT ![t] = "promise"] /\ UNCHANGED <<loc, cur>>
       \/ num >= MinPosted /\ Leave(t)
    /\ UNCHANGED <<num, need, lost, failures>>

\* post_bounce_buffs_on_rail, the critical section: the rail is full in advance.
Promise(t) ==
    /\ pc[t] = "promise"
    /\ need' = [need EXCEPT ![t] = MaxPosted - num]
    /\ num' = MaxPosted
    /\ IF num = MaxPosted THEN Leave(t)
       ELSE pc' = [pc EXCEPT ![t] = "post"] /\ UNCHANGED <<loc, cur>>
    /\ UNCHANGED <<lost, failures>>

\* post_bounce_buffs_on_rail, one more buffer.
Post(t) ==
    /\ pc[t] = "post"
    /\ \E b \in At("free") :
        /\ need' = [need EXCEPT ![t] = @ - 1]
        /\ \/ /\ need[t] > 1
              /\ loc' = [loc EXCEPT ![b] = "posted"]
              /\ UNCHANGED <<pc, cur>>
           \/ /\ need[t] = 1
              /\ pc' = [pc EXCEPT ![t] = "idle"]
              /\ cur' = [cur EXCEPT ![t] = None]
              /\ loc' = [a \in Bufs |-> IF a = b THEN "posted"
                                        ELSE IF a = cur[t] THEN "held" ELSE loc[a]]
           \/ /\ loc' = [loc EXCEPT ![b] = "pending"]
              /\ pc' = [pc EXCEPT ![t] = "giveback"]
              /\ UNCHANGED cur
    /\ UNCHANGED <<num, lost, failures>>

\* post_bounce_buffs_on_rail, when there is no memory for one more buffer: what the
\* thread has promised stays counted, and its message is dropped.
PostFails(t) ==
    /\ pc[t] = "post" /\ failures < MaxFailures
    /\ failures' = failures + 1
    /\ lost' = lost + need[t]
    /\ need' = [need EXCEPT ![t] = 0]
    /\ pc' = [pc EXCEPT ![t] = "idle"]
    /\ cur' = [cur EXCEPT ![t] = None]
    /\ UNCHANGED <<num, loc>>

\* handle_bounce_eagain that takes back the buffer in the queue as well.
GiveBackOneMore(t) ==
    /\ pc[t] = "giveback"
    /\ num' = num - (need[t] + 1)
    /\ need' = [need EXCEPT ![t] = 0]
    /\ Leave(t)
    /\ UNCHANGED <<lost, failures>>

\* handle_bounce_eagain, the critical section: the buffers not tried are not counted.
GiveBack(t) ==
    /\ pc[t] = "giveback"
    /\ num' = num - need[t]
    /\ need' = [need EXCEPT ![t] = 0]
    /\ Leave(t)
    /\ UNCHANGED <<lost, failures>>

Next ==
    \E t \in Threads :
        \/ \E b \in Bufs : \/ TakeRepost(t, b) \/ TakeCtrl(t, b) \/ TakeEager(t, b)
                           \/ Return(t, b) \/ PostPending(t, b)
        \/ Repost(t) \/ Decrease(t) \/ Check(t)
        \/ Promise(t) \/ Post(t) \/ PostFails(t) \/ GiveBack(t)

\* A thread in a handler goes on, test() keeps retrying the pending requests, and the
\* messages held are used in the end by send() and recv().
Fairness ==
    \A t \in Threads :
        /\ WF_vars(Repost(t)) /\ WF_vars(Decrease(t)) /\ WF_vars(Check(t))
        /\ WF_vars(Promise(t)) /\ WF_vars(Post(t)) /\ WF_vars(GiveBack(t))
        /\ WF_vars(\E b \in Bufs : PostPending(t, b)) /\ WF_vars(\E b \in Bufs : Return(t, b))

Spec == Init /\ [][Next]_vars

FairSpec == Spec /\ Fairness

-----------------------------------------------------------------------------

\* The type invariant: in particular num is never negative and never above max.
TypeOK ==
    /\ num \in 0..MaxPosted
    /\ loc \in [Bufs -> {"free", "posted", "pending", "handler", "held"}]
    /\ pc \in [Threads -> {"idle", "repost", "decrease_ctrl", "decrease_eager", "check",
                           "promise", "post", "giveback"}]
    /\ cur \in [Threads -> Bufs \cup {None}]
    /\ need \in [Threads -> 0..MaxPosted]
    /\ lost \in Nat /\ failures \in 0..MaxFailures

\* The buffers posted or waiting to be posted, the threads that are about to post one
\* or to take one off, and the n-th buffer thread t has promised, as pairs <<t, n>>.
OnRail == {b \in Bufs : loc[b] \in {"posted", "pending"}}
Busy == {t \in Threads : pc[t] \in {"repost", "decrease_ctrl", "decrease_eager"}}
Promised == {p \in Threads \X (1..MaxPosted) : p[2] <= need[p[1]]}

\* num counts what it is meant to count, at every point of every handler: the buffers
\* posted or waiting to be posted, the ones threads have promised or are about to post,
\* and those that a thread has kept and not yet taken off.  Only a failed allocation
\* of post_bounce_buffs_on_rail leaves buffers counted that are not there.  So the
\* assertions of decrease_bounce_buff_cnt and handle_bounce_eagain hold, and num is
\* never above the maximum.
CountAgrees ==
    /\ TypeOK
    /\ num = Cardinality(OnRail) + Cardinality(Busy) + Cardinality(Promised) + lost
    /\ \A t \in Threads : pc[t] \in {"decrease_ctrl", "decrease_eager"} => num > 0
    /\ \A t \in Threads : pc[t] = "giveback" => num >= need[t]

\* With at most two threads on the rail, and as long as no allocation fails, messages can
\* always be received again: a rail that is short of buffers is not forgotten, a buffer
\* is posted again and again, however often posting meets EAGAIN, though a thread that
\* sees the promises of the other one does not post (check_post_bounce_buffers_rail).
\* It is not so for three threads: between the steps in which one takes back its
\* promises and another keeps the last buffer, a third one may free that buffer, as the
\* rail counts as full (check_post_bounce_req).
KeepsReceiving == Cardinality(Threads) <= 2 => []<>(At("posted") # {} \/ lost > 0)
=============================================================================
