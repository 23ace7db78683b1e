------------------------------ MODULE RdmaFlush ------------------------------
(***************************************************************************)
(* Flushes and one-sided reads and writes of the RDMA protocol             *)
(* (src/src/nccl_ofi_rdma.c): flush() and rma_read() of a receive          *)
(* communicator and rma_write() and rma_write_inline() of a send           *)
(* communicator on one endpoint, each used by a thread of its own.         *)
(*                                                                         *)
(* The communicators share the completion queues of the endpoint and its   *)
(* queue of pending requests, where a request waits that libfabric had no  *)
(* room for.  A flush is one read on every rail and complete with the last *)
(* of them; a one-sided operation is one operation on rail 0.  The context *)
(* of an operation is the address of its request, and requests are used    *)
(* again: a completion is counted on whatever request is there by then.    *)
(***************************************************************************)
EXTENDS Integers, Sequences, FiniteSets, SequencesExt

CONSTANTS MaxRequests,  \* NCCL_OFI_MAX_REQUESTS, of either communicator
          MaxOps,       \* bound on the requests made
          Setups        \* what to consider: the number of rails, how flushes are done,
                        \* the calls made, how often libfabric is busy or fails, and how
                        \* many operations complete in error

ASSUME FlushAssumption == MaxRequests \in Nat \ {0} /\ MaxOps \in Nat

VARIABLES
    setup,
    reqs,            \* the requests of each communicator
    free,            \* its free list
    num_inflight_reqs,
    held,            \* the requests NCCL has
    pending,         \* pending_reqs_queue of the endpoint
    posted,          \* operations posted whose completions have not been handled
    pc,              \* what each thread is at
    made,            \* bounded counters
    busy, fails, errors,
    trouble,         \* history: what posting has left undone or done twice
    flushed          \* history: for each flush reported done, the rails it was read on

vars == <<setup, reqs, free, num_inflight_reqs, held, pending, posted, pc, made, busy, fails, errors,
          trouble, flushed>>

Comms == {"recv", "send"}
Slots == 1..MaxRequests
Reqs == Comms \X Slots
Rails == 0..setup.rails - 1

\* zero_nccl_ofi_req; serial tells the uses of a request apart, and read the rails on
\* which it has been completed.
Zero == [type |-> "INVALID", state |-> "CREATED", ncompls |-> 0, serial |-> 0, tries |-> 0, read |-> {}]
Idle == [at |-> "idle", op |-> "", req |-> <<"recv", 1>>, tested |-> <<"recv", 1>>, then |-> "", busy |-> FALSE]

Init ==
    /\ setup \in Setups
    /\ reqs = [r \in Reqs |-> Zero]
    /\ free = [c \in Comms |-> [i \in Slots |-> <<c, i>>]]
    /\ num_inflight_reqs = [c \in Comms |-> 0]
    /\ held = {} /\ pending = <<>> /\ posted = {}
    /\ pc = [c \in Comms |-> Idle]
    /\ made = 0 /\ busy = 0 /\ fails = 0 /\ errors = 0
    /\ trouble = {} /\ flushed = {}

-----------------------------------------------------------------------------
(* Requests.                                                               *)

\* total_num_compls of a flush that waits for one rail.
FlushComplsOne == 1

\* rdma_comm_alloc_flush_req: as many completions as there are rails.
FlushCompls == setup.rails

\* init_rma_op_req
RmaCompls == 1

Total(type) == IF type = "FLUSH" THEN FlushCompls ELSE RmaCompls

\* inc_req_completion
IncReqCompletion(q) ==
    [q EXCEPT !.ncompls = @ + 1,
              !.state = IF q.ncompls + 1 = Total(q.type) /\ @ # "ERROR" THEN "COMPLETED" ELSE @]

\* free_base_req that never lowers it.
CountNever(n, dec) == n

\* free_base_req, by way of free_flush_req, free_read_req or free_write_req: the request
\* is zeroed and first in the free list, and one less is counted where the caller says.
Count(n, dec) == IF dec THEN n - 1 ELSE n
Freed(q) == [Zero EXCEPT !.serial = q.serial]

-----------------------------------------------------------------------------
(* Posting.  A request is posted with outcome rc, one of "ok", "busy", "error". *)

Op(r, q, rail) == [req |-> r, serial |-> q.serial, rail |-> rail, try |-> q.tries]

\* What posting costs: busy and error are bounded.
Cost(n, rc) ==
    /\ busy' = busy + n /\ busy' <= setup.busy
    /\ fails' = fails + (IF rc = "error" THEN 1 ELSE 0) /\ fails' <= setup.fails

\* post_flush_req: a read on every rail.  A busy rail does not stop it, a failure does,
\* and it returns what the last rail tried has said.
PostFlush(r, q, rc, ops) ==
    \E last \in Rails, oks \in SUBSET Rails :
        /\ oks \subseteq 0..last /\ (rc # "error" => last = setup.rails - 1)
        /\ last \in oks <=> rc = "ok"
        /\ ops = {Op(r, q, rail) : rail \in oks}
        /\ Cost(Cardinality((0..last) \ oks) - (IF rc = "error" THEN 1 ELSE 0), rc)
        /\ trouble' = trouble \cup (IF rc = "ok" /\ oks # Rails THEN {"missing"} ELSE {})
                              \cup (IF rc = "busy" /\ oks # {} THEN {"twice"} ELSE {})
                              \cup (IF rc = "error" /\ oks # {} THEN {"orphaned"} ELSE {})

\* post_rma_read
PostRmaRead(r, q, rc, ops) ==
    /\ ops = IF rc = "ok" THEN {Op(r, q, 0)} ELSE {}
    /\ Cost(IF rc = "busy" THEN 1 ELSE 0, rc) /\ UNCHANGED trouble

\* post_rma_write
PostRmaWrite(r, q, rc, ops) ==
    /\ ops = IF rc = "ok" THEN {Op(r, q, 0)} ELSE {}
    /\ Cost(IF rc = "busy" THEN 1 ELSE 0, rc) /\ UNCHANGED trouble

\* The switches of receive_progress, send_progress and process_pending_reqs; a request
\* that has been freed in the meantime has no type any more, which is an error.
Post(r, q, rc, ops) ==
    \/ q.type = "FLUSH" /\ PostFlush(r, q, rc, ops)
    \/ q.type = "READ" /\ PostRmaRead(r, q, rc, ops)
    \/ q.type = "WRITE" /\ PostRmaWrite(r, q, rc, ops)
    \/ q.type = "INVALID" /\ rc = "error" /\ ops = {} /\ UNCHANGED <<busy, fails, trouble>>

\* Sets of operations one call may post for a request.
OpSets(r, q) == {{Op(r, q, rail) : rail \in R} : R \in SUBSET Rails}

\* Posting anew what is pending forgets to wait for room.
PendingOnBusyLost(r) == pending

\* receive_progress with add_to_pending, and rma_write_impl: nccl_ofi_deque_insert_back.
PendingOnBusy(r) == Append(pending, r)

-----------------------------------------------------------------------------
(* The completion queues of the endpoint.                                  *)

\* A thread calls ofi_process_cq and is to go on at "then".
ProcessCq(c, p, then) == pc' = [pc EXCEPT ![c] = [p EXCEPT !.at = "cq", !.then = then]]

\* What the thread returns to when ofi_process_cq has returned an error: an error.
Failed(c) == pc' = [pc EXCEPT ![c] = Idle]

\* process_completions of an entry: handle_flush_comp or inc_req_completion on the
\* request in its context, and an error when that request is free.
Completion(c, o) ==
    LET q == reqs[o.req] IN
    /\ pc[c].at = "cq" /\ o \in posted
    /\ trouble' = IF q.serial = o.serial /\ q.type # "INVALID" THEN trouble ELSE trouble \cup {"stale"}
    /\ IF q.type = "INVALID"
       THEN \* the entries read with it are lost
            /\ Failed(c) /\ UNCHANGED reqs
            /\ \E lost \in SUBSET {p \in posted \ {o} : p.rail = o.rail} : posted' = posted \ ({o} \cup lost)
       ELSE /\ reqs' = [reqs EXCEPT ![o.req] =
                           IncReqCompletion([q EXCEPT !.read = IF q.serial = o.serial THEN @ \cup {o.rail} ELSE @])]
            /\ posted' = posted \ {o} /\ UNCHANGED pc
    /\ UNCHANGED <<setup, free, num_inflight_reqs, held, pending, made, busy, fails, errors, flushed>>

\* process_err_completion: the request fails, and so does the call.
ErrCompletion(c, o) ==
    /\ pc[c].at = "cq" /\ o \in posted /\ errors < setup.errors
    /\ errors' = errors + 1
    /\ posted' = posted \ {o}
    /\ reqs' = [reqs EXCEPT ![o.req].state = "ERROR"]
    /\ trouble' = IF reqs[o.req].serial = o.serial /\ reqs[o.req].type # "INVALID" THEN trouble
                  ELSE trouble \cup {"stale"}
    /\ Failed(c)
    /\ UNCHANGED <<setup, free, num_inflight_reqs, held, pending, made, busy, fails, flushed>>

\* No more completions: process_pending_reqs takes the front of the queue, or is done.
TakePending(c) ==
    /\ pc[c].at \in {"cq", "pending"}
    /\ IF pending = <<>>
       THEN pc' = [pc EXCEPT ![c].at = pc[c].then] /\ UNCHANGED pending
       ELSE /\ pc' = [pc EXCEPT ![c].at = "post", ![c].req = Head(pending)]
            /\ pending' = Tail(pending)
    /\ UNCHANGED <<setup, reqs, free, num_inflight_reqs, held, posted, made, busy, fails, errors, trouble,
                   flushed>>

\* nccl_ofi_deque_insert_front
PutBack(r) == <<r>> \o pending

\* process_pending_reqs posts what it has taken: back to the front of the queue when
\* libfabric is busy, and out of it for good when it fails.
PostPending(c) ==
    LET r == pc[c].req
        q == [reqs[r] EXCEPT !.tries = @ + 1]
        p == [pc[c] EXCEPT !.req = Idle.req]
    IN
    /\ pc[c].at = "post"
    /\ \E rc \in {"ok", "busy", "error"}, ops \in OpSets(r, q) :
        /\ Post(r, q, rc, ops)
        /\ posted' = posted \cup ops
        /\ pending' = IF rc = "busy" THEN PutBack(r) ELSE pending
        /\ CASE rc = "ok" -> pc' = [pc EXCEPT ![c] = [p EXCEPT !.at = "pending"]]
             [] rc = "busy" -> pc' = [pc EXCEPT ![c] = [p EXCEPT !.at = p.then]]
             [] OTHER -> Failed(c)
    /\ reqs' = [reqs EXCEPT ![r] = q]
    /\ UNCHANGED <<setup, free, num_inflight_reqs, held, made, errors, flushed>>

-----------------------------------------------------------------------------
(* The calls.                                                              *)

AtLimit(c) == num_inflight_reqs[c] = MaxRequests

\* The checks at the beginning of flush(), rma_read() and rma_write_impl(): the limit of
\* requests, and process_cq_if_pending.
Begin(c, op) ==
    /\ pc[c].at = "idle"
    /\ IF AtLimit(c) THEN UNCHANGED pc
       ELSE IF pending = <<>> THEN pc' = [pc EXCEPT ![c] = [Idle EXCEPT !.at = "go", !.op = op]]
       ELSE ProcessCq(c, [Idle EXCEPT !.op = op], "recheck")
    /\ UNCHANGED <<setup, reqs, free, num_inflight_reqs, held, pending, posted, made, busy, fails,
                   errors, trouble, flushed>>

\* The end of process_cq_if_pending: the network is busy while the queue is not empty.
Recheck(c) ==
    /\ pc[c].at = "recheck"
    /\ pc' = [pc EXCEPT ![c].at = "go", ![c].busy = pending # <<>>]
    /\ UNCHANGED <<setup, reqs, free, num_inflight_reqs, held, pending, posted, made, busy, fails,
                   errors, trouble, flushed>>

\* nccl_net_ofi_iflush
IFlush == "FLUSH" \in setup.calls /\ Begin("recv", "FLUSH")

\* nccl_net_ofi_iread
IRead == "READ" \in setup.calls /\ Begin("recv", "READ")

\* nccl_net_ofi_iwrite
IWrite == "WRITE" \in setup.calls /\ Begin("send", "WRITE")

\* nccl_net_ofi_iwrite_inline
IWriteInline == "INLINE" \in setup.calls /\ Begin("send", "WRITE")

\* A new request: the first of the free list, or an error.
NewReq(c, op) == [Zero EXCEPT !.type = op, !.serial = made + 1]

\* NCCL gets no request, and the call has no effect.
NoRequest(c) ==
    /\ pc' = [pc EXCEPT ![c] = Idle]
    /\ UNCHANGED <<setup, reqs, free, num_inflight_reqs, held, pending, posted, made, busy, fails, errors,
                   trouble, flushed>>

\* The rest of flush(): nothing to do without GPUDirect RDMA, with the flush of CUDA, or
\* when all sizes are 0; otherwise a request, posted or, while the network is busy,
\* pending, and counted.
Flush ==
    LET c == "recv"
        r == Head(free[c])
        q == NewReq(c, "FLUSH")
    IN
    /\ pc[c].at = "go" /\ pc[c].op = "FLUSH"
    /\ \/ NoRequest(c)
       \/ /\ setup.flush_on /\ free[c] # <<>> /\ made < MaxOps
          /\ made' = made + 1
          /\ \/ \* network_busy
                /\ pc[c].busy
                /\ pending' = Append(pending, r)
                /\ reqs' = [reqs EXCEPT ![r] = q]
                /\ free' = [free EXCEPT ![c] = Tail(@)] /\ held' = held \cup {r}
                /\ num_inflight_reqs' = [num_inflight_reqs EXCEPT ![c] = @ + 1]
                /\ UNCHANGED <<posted, busy, fails, trouble>>
             \/ /\ ~pc[c].busy
                /\ \E rc \in {"ok", "busy", "error"}, ops \in OpSets(r, q) :
                    /\ Post(r, q, rc, ops)
                    /\ posted' = posted \cup ops
                    /\ pending' = IF rc = "busy" THEN PendingOnBusy(r) ELSE pending
                    /\ IF rc = "error"   \* freed with false, and not counted yet
                       THEN /\ reqs' = [reqs EXCEPT ![r] = Freed(q)]
                            /\ num_inflight_reqs' = [num_inflight_reqs EXCEPT ![c] = Count(@, FALSE)]
                            /\ UNCHANGED <<free, held>>
                       ELSE /\ reqs' = [reqs EXCEPT ![r] = q]
                            /\ free' = [free EXCEPT ![c] = Tail(@)] /\ held' = held \cup {r}
                            /\ num_inflight_reqs' = [num_inflight_reqs EXCEPT ![c] = @ + 1]
          /\ pc' = [pc EXCEPT ![c] = Idle]
          /\ UNCHANGED <<setup, errors, flushed>>

\* The rest of rma_read() and rma_write_impl(): nothing while the network is busy;
\* otherwise a request, counted, and posted or pending.  When it cannot be posted it is
\* freed and remains counted.
Rma(c, op) ==
    LET r == Head(free[c])
        q == NewReq(c, op)
    IN
    /\ pc[c].at = "go" /\ pc[c].op = op
    /\ IF pc[c].busy \/ free[c] = <<>> THEN NoRequest(c)
       ELSE /\ made < MaxOps
            /\ made' = made + 1
            /\ \E rc \in {"ok", "busy", "error"}, ops \in OpSets(r, q) :
                /\ Post(r, q, rc, ops)
                /\ num_inflight_reqs' = [num_inflight_reqs EXCEPT ![c] =
                                            IF rc = "error" THEN Count(@ + 1, FALSE) ELSE @ + 1]
                /\ posted' = posted \cup ops
                /\ pending' = IF rc = "busy" THEN PendingOnBusy(r) ELSE pending
                /\ IF rc = "error"
                   THEN reqs' = [reqs EXCEPT ![r] = Freed(q)] /\ UNCHANGED <<free, held>>
                   ELSE /\ reqs' = [reqs EXCEPT ![r] = q]
                        /\ free' = [free EXCEPT ![c] = Tail(@)] /\ held' = held \cup {r}
            /\ pc' = [pc EXCEPT ![c] = Idle]
            /\ UNCHANGED <<setup, errors, flushed>>

RmaRead == Rma("recv", "READ")
RmaWrite == Rma("send", "WRITE")

\* The end of test(): a completed request is reported and freed.
Done(c, r) ==
    /\ pc' = [pc EXCEPT ![c] = Idle]
    /\ IF reqs[r].state = "COMPLETED"
       THEN /\ reqs' = [reqs EXCEPT ![r] = Freed(reqs[r])]
            /\ free' = [free EXCEPT ![c] = <<r>> \o @]
            /\ num_inflight_reqs' = [num_inflight_reqs EXCEPT ![c] = Count(@, TRUE)]
            /\ held' = held \ {r}
            /\ flushed' = IF reqs[r].type = "FLUSH" THEN flushed \cup {reqs[r].read} ELSE flushed
       ELSE UNCHANGED <<reqs, free, num_inflight_reqs, held, flushed>>
    /\ UNCHANGED <<setup, pending, posted, made, busy, fails, errors, trouble>>

\* nccl_net_ofi_test: completions are processed unless the request is completed already.
Test(c, r) ==
    /\ pc[c].at = "idle" /\ r \in held /\ r[1] = c
    /\ IF reqs[r].state \in {"COMPLETED", "ERROR"} THEN Done(c, r)
       ELSE /\ ProcessCq(c, [Idle EXCEPT !.op = "TEST", !.tested = r], "tested")
            /\ UNCHANGED <<setup, reqs, free, num_inflight_reqs, held, pending, posted, made, busy, fails,
                           errors, trouble, flushed>>

Tested(c) == pc[c].at = "tested" /\ Done(c, pc[c].tested)

\* Every request is in the queue once.  What an element inserted twice does to the
\* pointers of the list is not followed further.
Intact == Cardinality(Range(pending)) = Len(pending)

Next ==
    /\ Intact
    /\ \/ IFlush \/ IRead \/ IWrite \/ IWriteInline \/ Flush \/ RmaRead \/ RmaWrite
       \/ \E c \in Comms :
            \/ \E o \in posted : Completion(c, o) \/ ErrCompletion(c, o)
            \/ TakePending(c) \/ PostPending(c) \/ Recheck(c) \/ Tested(c)
            \/ \E r \in held : Test(c, r)

Spec == Init /\ [][Next]_vars

-----------------------------------------------------------------------------
(* Properties.                                                             *)

\* Every variable holds a value the code can hold; the unsigned count of requests does
\* not pass below 0 and not beyond its limit.
TypeOK ==
    /\ \A c \in Comms : num_inflight_reqs[c] \in 0..MaxRequests
    /\ held \subseteq Reqs /\ \A o \in posted : o.req \in Reqs /\ o.rail \in Rails
    /\ \A r \in Reqs : reqs[r].state \in {"CREATED", "COMPLETED", "ERROR"}
    /\ \A i \in DOMAIN pending : pending[i] \in Reqs

Of(c) == {r \in held : r[1] = c}
Taken(r) == \E c \in Comms : pc[c].at = "post" /\ pc[c].req = r

\* A call that has passed the limit of requests in flight finds a request in the free
\* list, which has as many as the limit allows (rma_write_impl, alloc_rdma_write_req).
RequestAtHand == \A c \in Comms : pc[c].at = "go" => free[c] # <<>>

\* The count of requests in flight is the number of those NCCL has, over every order of
\* posting, waiting, completing and testing; only a read or write that could not be
\* posted is counted for good (rma_read, rma_write_impl), and never too few are counted.
\* So a call below the limit finds a request in the free list.
InflightCounted ==
    /\ TypeOK /\ RequestAtHand
    /\ \A c \in Comms :
          /\ num_inflight_reqs[c] >= Cardinality(Of(c))
          /\ fails = 0 => num_inflight_reqs[c] = Cardinality(Of(c))

\* The queue of pending requests holds requests that NCCL has, each once, and none that
\* a thread has taken out to post it: a second insertion would break the list
\* (nccl_ofi_deque_insert_back, process_pending_reqs with two threads).  A flush posted
\* twice may be complete, freed and used again while it is in the queue.
PendingOnce ==
    trouble \cap {"twice", "stale"} = {} =>
    /\ Intact
    /\ \A r \in Range(pending) : r \in held /\ ~Taken(r)
    /\ \A c, d \in Comms : c # d /\ pc[c].at = "post" /\ pc[d].at = "post" => pc[c].req # pc[d].req

Outstanding(r) == Cardinality({o \in posted : o.req = r /\ o.serial = reqs[r].serial})

\* A request NCCL waits for is going to be completed: the completions it lacks are under
\* way, or it is pending, or a thread is about to post it.  receive_progress returns 0
\* "if request is successfully posted or added to pending requests queue".
PostedOrPending ==
    \A r \in held :
        \/ reqs[r].state \in {"COMPLETED", "ERROR"} \/ r \in Range(pending) \/ Taken(r)
        \/ reqs[r].ncompls + Outstanding(r) >= Total(reqs[r].type)

\* Every request NCCL waits for is posted or pending, unless posting a flush has left a
\* rail out or posted one twice, a request could not be posted once it was pending, or
\* an operation completed in error (process_pending_reqs, post_flush_req).  What is
\* pending is in the queue once.
WaitsForSomething ==
    /\ PendingOnce
    /\ trouble = {} /\ fails = 0 /\ errors = 0 => PostedOrPending

\* A completion is counted on the request it was posted for; it finds another one only
\* when a flush was posted twice or freed with reads under way (post_flush_req).
StaleOnlyAfterTrouble == "stale" \in trouble => trouble \cap {"twice", "orphaned"} # {}

\* A flush that test() reports done has been read on every rail, unless it has been
\* posted twice (post_flush_req posts all rails again when the last one was busy), or a
\* completion was counted on a request it was not for.
FlushedOnAllRails ==
    /\ StaleOnlyAfterTrouble
    /\ trouble \cap {"twice", "stale"} = {} => \A R \in flushed : R = Rails

=============================================================================
