---------------------------- MODULE RdmaTransfer ----------------------------
(***************************************************************************)
(* Sending and receiving over one connection of the RDMA protocol          *)
(* (src/src/nccl_ofi_rdma.c): a send communicator, a receive communicator, *)
(* and the network between them.                                           *)
(*                                                                         *)
(* recv() tells the sender by a control message where message m is to go.  *)
(* The sender writes the message there, one write per stripe, and the      *)
(* immediate data of a write names the message.  A small message may be    *)
(* sent eagerly, before its control message has come: it lands in a bounce *)
(* buffer and the receiver copies it.                                      *)
(*                                                                         *)
(* Messages are numbered without wrapping: MsgTracker is what the message  *)
(* buffer of each side promises, and MsgBuff implements it with the ten    *)
(* bits the wire carries.  Two threads may work on an endpoint, so send()  *)
(* and recv() are two steps each, one up to the look into the message      *)
(* buffer and one from there, and completions may be handled in between.   *)
(* Posting to the network may fail with EAGAIN at every call.  An          *)
(* operation posted is in the network until the other side handles it, and *)
(* in the completion queue of its own side until that side handles it;     *)
(* everything may overtake everything.  Bounce buffers are in BounceRail.  *)
(***************************************************************************)
EXTENDS Stripes, Sequences

CONSTANTS MaxMsgs,      \* bound on the messages sent
          MaxRequests,  \* NCCL_OFI_MAX_REQUESTS
          MsgbuffSize,  \* NCCL_OFI_RDMA_MSGBUFF_SIZE
          EagerMax,     \* eager_max_size
          SendSizes,    \* sizes send() is called with
          RecvSizes,    \* sizes recv() is called with
          AnyOrder,     \* whether requests may be tested in any order
          MaxErrors,    \* bound on the operations that complete in error
          None

ASSUME TransferAssumption ==
    /\ MaxMsgs \in Nat /\ MaxErrors \in Nat /\ AnyOrder \in BOOLEAN
    /\ MaxRequests \in Nat \ {0}
    /\ MsgbuffSize \in Nat \ {0}
    /\ SendSizes \subseteq Nat /\ RecvSizes \subseteq Nat
    /\ EagerMax \in 0..MinStripe      \* checked by nccl_net_ofi_rdma_init

VARIABLES
    s_low, s_high, s_msgs,   \* message buffer of the send communicator
    s_next, s_call, s_req, s_pending,
    r_low, r_high, r_msgs,   \* message buffer of the receive communicator
    r_next, r_call, r_req, r_pending,
    ctrl_net, eager_net, write_net,   \* messages and writes under way
    send_cq, ctrl_cq, copy_cq,        \* completions of one's own operations
    n_ctrl_sent, n_ctrl_delivered,    \* counters of the receive communicator
    n_ctrl_received, s_counting,      \* counter of the send communicator
    errors,                           \* history: operations completed in error
    fail,                             \* what went wrong: error returns
    posts, s_done, r_done             \* history: operations posted, sizes reported

sbuf == <<s_low, s_high, s_msgs>>
rbuf == <<r_low, r_high, r_msgs>>
svars == <<s_next, s_call, s_req, s_pending, s_done, posts>>
rvars == <<r_next, r_call, r_req, r_pending, r_done>>
net == <<ctrl_net, eager_net, write_net>>
cqs == <<send_cq, ctrl_cq, copy_cq>>
counters == <<n_ctrl_sent, n_ctrl_delivered, n_ctrl_received, s_counting>>
vars == <<sbuf, svars, rbuf, rvars, net, cqs, counters, errors, fail>>

Msgs == 0..(MaxMsgs - 1)

\* Entries of the message buffers: a request, or a bounce buffer and the length
\* it tells of (of the receive buffer, or of the eager data).
Req       == [type |-> "REQ", len |-> 0]
Buff(len) == [type |-> "BUFF", len |-> len]

SBuf == INSTANCE MsgTracker WITH
    N <- MsgbuffSize, Horizon <- MaxMsgs, Null <- None, ret <- None,
    Elems <- {Req} \cup {Buff(len) : len \in RecvSizes},
    low <- s_low, high <- s_high, msgs <- s_msgs

RBuf == INSTANCE MsgTracker WITH
    N <- MsgbuffSize, Horizon <- MaxMsgs, Null <- None, ret <- None,
    Elems <- {Req} \cup {Buff(len) : len \in SendSizes},
    low <- r_low, high <- r_high, msgs <- r_msgs

Init ==
    /\ s_low = 0 /\ s_high = 0 /\ s_msgs = [m \in {} |-> None]
    /\ r_low = 0 /\ r_high = 0 /\ r_msgs = [m \in {} |-> None]
    /\ s_next = 0 /\ r_next = 0 /\ s_call = None /\ r_call = None
    /\ s_req = [m \in Msgs |-> None] /\ r_req = [m \in Msgs |-> None]
    /\ s_pending = <<>> /\ r_pending = <<>>
    /\ ctrl_net = {} /\ eager_net = {} /\ write_net = {}
    /\ send_cq = {} /\ ctrl_cq = {} /\ copy_cq = {}
    /\ n_ctrl_sent = 0 /\ n_ctrl_delivered = 0 /\ n_ctrl_received = 0 /\ s_counting = 0
    /\ errors = {} /\ fail = {}
    /\ posts = [m \in Msgs |-> 0]
    /\ s_done = [m \in Msgs |-> None] /\ r_done = [m \in Msgs |-> None]

-----------------------------------------------------------------------------
(* Requests *)

\* inc_req_completion.
IncReqCompletion(q, size, total) ==
    [q EXCEPT !.size = @ + size, !.ncompls = @ + 1,
              !.state = IF q.ncompls + 1 = total /\ @ # "ERROR" THEN "COMPLETED" ELSE @]

\* The requests counted by num_inflight_reqs: those handed out by send() or
\* recv() and not yet freed by test().
Inflight(req) == {m \in Msgs : req[m] # None}

\* A send request that is complete without the control message.
SendReqNoCtrl(size, eager) ==
    [state |-> "CREATED", eager |-> eager, size |-> size, ncompls |-> 0, xferred |-> 0,
     asked |-> size, sched |-> IF eager THEN size ELSE None,
     total |-> IF eager THEN NumStripes(size) ELSE None]

\* A send request; the schedule is that of sched bytes, once there is one.
SendReq(size, eager) ==
    [state |-> "CREATED", eager |-> eager, size |-> size, ncompls |-> 0, xferred |-> 0,
     asked |-> size, sched |-> IF eager THEN size ELSE None,
     total |-> IF eager THEN NumStripes(size) + 1 ELSE None]

\* update_send_data_from_remote that keeps the length of the send buffer.
UpdateKeepsLength(q, remote_len) ==
    [q EXCEPT !.sched = q.size, !.total = NumStripes(q.size)]

\* update_send_data_from_remote: the receive buffer may be the shorter one.
UpdateFromRemote(q, remote_len) ==
    LET len == AtMost(remote_len, q.size)
    IN  [q EXCEPT !.size = len, !.sched = len, !.total = NumStripes(len)]

\* The number of operations send_progress has to post for q.
ToPost(q) == IF q.eager THEN 1 ELSE NumStripes(q.sched)

\* send_progress resumes from the first stripe.
ProgressFromStart(m, q, upto) ==
    /\ upto \in q.xferred..ToPost(q)
    /\ s_req' = [s_req EXCEPT ![m] = IF q.eager THEN q ELSE [q EXCEPT !.xferred = upto]]
    /\ send_cq' = send_cq \cup {[msg |-> m, seg |-> k] : k \in 0..(upto - 1)}
    /\ posts' = [posts EXCEPT ![m] = @ + upto]
    /\ eager_net' = IF q.eager /\ upto = 1 THEN eager_net \cup {[msg |-> m, len |-> q.sched]}
                    ELSE eager_net
    /\ write_net' = IF q.eager THEN write_net
                    ELSE write_net \cup
                         {[msg |-> m, seg |-> k, nseg |-> ToPost(q),
                           len |-> Stripe(q.sched, ToPost(q), k, 0).msg_size] :
                          k \in 0..(upto - 1)}

\* send_progress posts the stripes from xferred_rail_id on, and stops before
\* stripe upto when that one gets EAGAIN.  An eager message is one operation.
SendProgress(m, q, upto) ==
    /\ upto \in q.xferred..ToPost(q)
    /\ s_req' = [s_req EXCEPT ![m] = IF q.eager THEN q ELSE [q EXCEPT !.xferred = upto]]
    /\ send_cq' = send_cq \cup {[msg |-> m, seg |-> k] : k \in q.xferred..(upto - 1)}
    /\ posts' = [posts EXCEPT ![m] = @ + (upto - q.xferred)]
    /\ eager_net' = IF q.eager /\ upto = 1 THEN eager_net \cup {[msg |-> m, len |-> q.sched]}
                    ELSE eager_net
    /\ write_net' = IF q.eager THEN write_net
                    ELSE write_net \cup
                         {[msg |-> m, seg |-> k, nseg |-> ToPost(q),
                           len |-> Stripe(q.sched, ToPost(q), k, 0).msg_size] :
                          k \in q.xferred..(upto - 1)}

\* send_progress, and a place in the queue of pending requests on EAGAIN.
ProgressOrQueue(m, q) ==
    \E upto \in q.xferred..ToPost(q) :
        /\ SendProgress(m, q, upto)
        /\ s_pending' = IF upto = ToPost(q) THEN s_pending ELSE Append(s_pending, m)

-----------------------------------------------------------------------------
(* The send communicator *)

\* The message buffers hold an entry of the type for message m.
SHolds(m, type) == SBuf!Status(m) = "INPROGRESS" /\ s_msgs[m].elem.type = type
RHolds(m, type) == RBuf!Status(m) = "INPROGRESS" /\ r_msgs[m].elem.type = type

\* What an error return of a handler, of send() or of recv() leaves behind.
Fail(what) == fail' = fail \cup {what}

\* process_cq_if_pending lets the caller go on: the queue is empty, or all there is
\* in it has been taken out by process_pending_reqs in another thread, which is
\* going to put it back.
NothingPending(queue) == Len(queue) <= 1

\* send(), up to the last look for the control message of the next message.
SendCall ==
    /\ s_call = None /\ s_next \in Msgs
    /\ Cardinality(Inflight(s_req)) # MaxRequests
    /\ NothingPending(s_pending)
    /\ \E size \in SendSizes :
        \/ /\ SHolds(s_next, "BUFF")
           /\ s_call' = [size |-> size, have_ctrl |-> TRUE, remote_len |-> s_msgs[s_next].elem.len]
           /\ UNCHANGED fail
        \/ /\ SBuf!Status(s_next) \in {"NOTSTARTED", "UNAVAILABLE"}
           /\ s_call' = [size |-> size, have_ctrl |-> FALSE, remote_len |-> 0]
           /\ UNCHANGED fail
        \/ /\ SBuf!Status(s_next) = "COMPLETED" \/ SHolds(s_next, "REQ")
           /\ Fail("SEND") /\ UNCHANGED s_call
    /\ UNCHANGED <<sbuf, s_next, s_req, s_pending, s_done, posts, rbuf, rvars, net, cqs,
                   counters, errors>>

\* Messages to be sent without waiting for the control message, if one is there
\* or not.
Eager(size, have_ctrl) == (~have_ctrl /\ size <= EagerMax) \/ size = 0

\* The rest of send(), with the control message at hand.
SendWithCtrl ==
    /\ s_call # None /\ s_call.have_ctrl
    /\ SBuf!ReplaceMsg(s_next, Req)
    /\ ProgressOrQueue(s_next, UpdateFromRemote(SendReq(s_call.size, Eager(s_call.size, TRUE)),
                                                s_call.remote_len))
    /\ s_call' = None /\ s_next' = s_next + 1
    /\ UNCHANGED <<s_done, rbuf, rvars, ctrl_net, ctrl_cq, copy_cq, counters, errors, fail>>

\* The rest of send(), without.
SendWithoutCtrl ==
    /\ s_call # None /\ ~s_call.have_ctrl
    /\ SBuf!InsertMsg(s_next, Req)
    /\ LET q == SendReq(s_call.size, Eager(s_call.size, FALSE))
       IN  \/ q.eager /\ ProgressOrQueue(s_next, q)
           \/ /\ ~q.eager
              /\ s_req' = [s_req EXCEPT ![s_next] = q]
              /\ UNCHANGED <<s_pending, posts, send_cq, eager_net, write_net>>
    /\ s_call' = None /\ s_next' = s_next + 1
    /\ UNCHANGED <<s_done, rbuf, rvars, ctrl_net, ctrl_cq, copy_cq, counters, errors, fail>>

\* The rest of send(), refused: the control message came in between, and NCCL is
\* told to call again; anything else is an error.
SendRefused ==
    /\ s_call # None /\ ~s_call.have_ctrl
    /\ SBuf!Status(s_next) # "NOTSTARTED"
    /\ s_call' = None
    /\ IF SBuf!Status(s_next) = "INPROGRESS" THEN UNCHANGED fail ELSE Fail("SEND")
    /\ UNCHANGED <<sbuf, s_next, s_req, s_pending, s_done, posts, rbuf, rvars, net, cqs,
                   counters, errors>>

\* handle_bounce_recv of a control message, up to the counter.
HandleCtrl(c) ==
    /\ ctrl_net' = ctrl_net \ {c}
    /\ \/ /\ SBuf!InsertMsg(c.msg, Buff(c.len))
          /\ s_counting' = s_counting + 1
          /\ UNCHANGED <<s_req, s_pending, posts, send_cq, eager_net, write_net, fail>>
       \/ /\ SHolds(c.msg, "REQ") /\ ~s_req[c.msg].eager
          /\ ProgressOrQueue(c.msg, UpdateFromRemote(s_req[c.msg], c.len))
          /\ s_counting' = s_counting + 1
          /\ UNCHANGED <<sbuf, fail>>
       \/ /\ SHolds(c.msg, "REQ") /\ s_req[c.msg].eager
          /\ LET q == s_req[c.msg]
             IN  s_req' = [s_req EXCEPT ![c.msg] =
                     IncReqCompletion([q EXCEPT !.size = AtMost(c.len, @)], 0, q.total)]
          /\ s_counting' = s_counting + 1
          /\ UNCHANGED <<sbuf, s_pending, posts, send_cq, eager_net, write_net, fail>>
       \/ /\ SBuf!Status(c.msg) \in {"COMPLETED", "UNAVAILABLE"} \/ SHolds(c.msg, "BUFF")
          /\ Fail("CTRL_RECV")
          /\ UNCHANGED <<sbuf, s_req, s_pending, posts, send_cq, eager_net, write_net, s_counting>>
    /\ UNCHANGED <<s_next, s_call, s_done, rbuf, rvars, ctrl_cq, copy_cq,
                   n_ctrl_sent, n_ctrl_delivered, n_ctrl_received, errors>>

\* The last step of handle_bounce_recv: the control message is counted once its
\* handler has let go of the communicator.
CountCtrl ==
    /\ s_counting > 0
    /\ s_counting' = s_counting - 1
    /\ n_ctrl_received' = n_ctrl_received + 1
    /\ UNCHANGED <<sbuf, svars, rbuf, rvars, net, cqs, n_ctrl_sent, n_ctrl_delivered, errors, fail>>

\* process_completions for a write or an eager message of this side.  The context
\* of the completion is the request, which has to be there still.
SendCompletion(c) ==
    /\ send_cq' = send_cq \ {c}
    /\ IF s_req[c.msg] = None
       THEN Fail("STALE_SEND") /\ UNCHANGED s_req
       ELSE /\ s_req' = [s_req EXCEPT ![c.msg] = IncReqCompletion(@, 0, @.total)]
            /\ UNCHANGED fail
    /\ UNCHANGED <<sbuf, s_next, s_call, s_pending, s_done, posts, rbuf, rvars, net,
                   ctrl_cq, copy_cq, counters, errors>>

\* process_pending_reqs on a send request: it stays in front until all is posted.
SendPending ==
    /\ s_pending # <<>>
    /\ LET m == Head(s_pending) IN
       \E upto \in (s_req[m].xferred + 1)..ToPost(s_req[m]) :
          /\ SendProgress(m, s_req[m], upto)
          /\ s_pending' = IF upto = ToPost(s_req[m]) THEN Tail(s_pending) ELSE s_pending
    /\ UNCHANGED <<sbuf, s_next, s_call, s_done, rbuf, rvars, ctrl_net, ctrl_cq, copy_cq,
                   counters, errors, fail>>

\* Requests NCCL may test: the oldest, or any.
Testable(req) == {m \in Inflight(req) : AnyOrder \/ \A k \in Inflight(req) : m <= k}

\* test() of a completed send: the size is reported, the message completed in the
\* message buffer, the request freed.
TestSend ==
    \E m \in Testable(s_req) :
        /\ s_req[m].state = "COMPLETED"
        /\ SBuf!CompleteMsg(m)
        /\ s_done' = [s_done EXCEPT ![m] = [asked |-> s_req[m].asked, got |-> s_req[m].size]]
        /\ s_req' = [s_req EXCEPT ![m] = None]
        /\ UNCHANGED <<s_next, s_call, s_pending, posts, rbuf, rvars, net, cqs, counters, errors, fail>>

-----------------------------------------------------------------------------
(* The receive communicator *)

\* A receive request, with its control request, its segments request and its
\* eager copy request.
RecvReq(size) ==
    [state |-> "CREATED", size |-> 0, ncompls |-> 0, dst_len |-> size,
     ctrl |-> "CREATED", segs |-> 0, seg_size |-> 0, copy |-> "NONE", copy_len |-> 0]

\* A receive request is complete by its control message and by its data.
RecvCompls == 2

\* Complete by one of the two.
IncRecvOne(q, size) == IncReqCompletion(q, size, 1)

\* Complete by one more than there are.
IncRecvThree(q, size) == IncReqCompletion(q, size, 3)

IncRecv(q, size) == IncReqCompletion(q, size, RecvCompls)

\* recv(), up to the look for an eager message.
RecvCall ==
    /\ r_call = None /\ r_next \in Msgs
    /\ Cardinality(Inflight(r_req)) # MaxRequests
    /\ NothingPending(r_pending)
    /\ \E size \in RecvSizes :
        \/ /\ RHolds(r_next, "BUFF")
           /\ r_call' = [size |-> size, eager |-> TRUE, recv_len |-> r_msgs[r_next].elem.len]
           /\ UNCHANGED fail
        \/ /\ RBuf!Status(r_next) \in {"NOTSTARTED", "UNAVAILABLE"}
           /\ r_call' = [size |-> size, eager |-> FALSE, recv_len |-> 0]
           /\ UNCHANGED fail
        \/ /\ RBuf!Status(r_next) = "COMPLETED" \/ RHolds(r_next, "REQ")
           /\ Fail("RECV") /\ UNCHANGED r_call
    /\ UNCHANGED <<sbuf, svars, rbuf, r_next, r_req, r_pending, r_done, net, cqs, counters, errors>>

\* receive_progress with the pending queue for the control message of r_next and,
\* if there is one, for its eager copy.
PostCtrlAndCopy(size, copy) ==
    \E ctrl_posted \in BOOLEAN, copy_posted \in IF copy THEN BOOLEAN ELSE {FALSE} :
        /\ ctrl_net' = IF ctrl_posted THEN ctrl_net \cup {[msg |-> r_next, len |-> size]} ELSE ctrl_net
        /\ ctrl_cq' = IF ctrl_posted THEN ctrl_cq \cup {r_next} ELSE ctrl_cq
        /\ copy_cq' = IF copy_posted THEN copy_cq \cup {r_next} ELSE copy_cq
        /\ r_pending' = r_pending \o (IF ctrl_posted THEN <<>> ELSE <<<<"CTRL", r_next>>>>)
                                  \o (IF copy /\ ~copy_posted THEN <<<<"COPY", r_next>>>> ELSE <<>>)

\* The eager copy takes what fits into the receive buffer (post_eager_copy).
WithCopy(q, recv_len) == [q EXCEPT !.copy = "CREATED", !.copy_len = AtMost(recv_len, q.dst_len)]

\* The rest of recv(), with an eager message at hand.
RecvWithEager ==
    /\ r_call # None /\ r_call.eager
    /\ RBuf!ReplaceMsg(r_next, Req)
    /\ PostCtrlAndCopy(r_call.size, r_call.recv_len # 0)
    /\ r_req' = [r_req EXCEPT ![r_next] =
                    IF r_call.recv_len = 0 THEN IncRecv(RecvReq(r_call.size), 0)
                    ELSE WithCopy(RecvReq(r_call.size), r_call.recv_len)]
    /\ n_ctrl_sent' = n_ctrl_sent + 1
    /\ r_call' = None /\ r_next' = r_next + 1
    /\ UNCHANGED <<sbuf, svars, r_done, eager_net, write_net, send_cq,
                   n_ctrl_delivered, n_ctrl_received, s_counting, errors, fail>>

\* The rest of recv(), without.
RecvWithoutEager ==
    /\ r_call # None /\ ~r_call.eager
    /\ RBuf!InsertMsg(r_next, Req)
    /\ PostCtrlAndCopy(r_call.size, FALSE)
    /\ r_req' = [r_req EXCEPT ![r_next] = RecvReq(r_call.size)]
    /\ n_ctrl_sent' = n_ctrl_sent + 1
    /\ r_call' = None /\ r_next' = r_next + 1
    /\ UNCHANGED <<sbuf, svars, r_done, eager_net, write_net, send_cq,
                   n_ctrl_delivered, n_ctrl_received, s_counting, errors, fail>>

\* The rest of recv(), refused: an eager message came in between.  The request is
\* freed, and recv() returns -ENOMEM.
RecvRefused ==
    /\ r_call # None /\ ~r_call.eager
    /\ RBuf!Status(r_next) # "NOTSTARTED"
    /\ r_call' = None
    /\ Fail(IF RBuf!Status(r_next) = "INPROGRESS" THEN "RECV_ENOMEM" ELSE "RECV")
    /\ UNCHANGED <<sbuf, svars, rbuf, r_next, r_req, r_pending, r_done, net, cqs, counters, errors>>

\* handle_bounce_recv of an eager message.
HandleEager(e) ==
    /\ eager_net' = eager_net \ {e}
    /\ \/ /\ RBuf!InsertMsg(e.msg, Buff(e.len))
          /\ UNCHANGED <<r_req, r_pending, copy_cq, fail>>
       \/ /\ RHolds(e.msg, "REQ") /\ e.len = 0
          /\ r_req' = [r_req EXCEPT ![e.msg] = IncRecv(@, 0)]
          /\ UNCHANGED <<rbuf, r_pending, copy_cq, fail>>
       \/ /\ RHolds(e.msg, "REQ") /\ e.len # 0
          /\ r_req' = [r_req EXCEPT ![e.msg] = WithCopy(@, e.len)]
          /\ \/ copy_cq' = copy_cq \cup {e.msg} /\ UNCHANGED r_pending
             \/ r_pending' = Append(r_pending, <<"COPY", e.msg>>) /\ UNCHANGED copy_cq
          /\ UNCHANGED <<rbuf, fail>>
       \/ /\ RBuf!Status(e.msg) \in {"COMPLETED", "UNAVAILABLE"} \/ RHolds(e.msg, "BUFF")
          /\ Fail("EAGER_RECV")
          /\ UNCHANGED <<rbuf, r_req, r_pending, copy_cq>>
    /\ UNCHANGED <<sbuf, svars, r_next, r_call, r_done, ctrl_net, write_net, send_cq, ctrl_cq,
                   counters, errors>>

\* inc_recv_seg_completion by a write of len bytes, one of nseg: the last one
\* completes the data of the receive request.
IncRecvSeg(q, len, nseg) ==
    LET seg == [q EXCEPT !.segs = @ + 1, !.seg_size = @ + len]
    IN  IF seg.segs = nseg THEN IncRecv(seg, seg.seg_size) ELSE seg

\* handle_write_comp: the immediate data leads to the request.
HandleWrite(w) ==
    /\ write_net' = write_net \ {w}
    /\ IF RHolds(w.msg, "REQ")
       THEN /\ r_req' = [r_req EXCEPT ![w.msg] = IncRecvSeg(@, w.len, w.nseg)]
            /\ UNCHANGED fail
       ELSE Fail("WRITE_RECV") /\ UNCHANGED r_req
    /\ UNCHANGED <<sbuf, svars, rbuf, r_next, r_call, r_pending, r_done, ctrl_net, eager_net, cqs,
                   counters, errors>>

\* set_send_ctrl_completed.
CtrlCompletion(m) ==
    /\ ctrl_cq' = ctrl_cq \ {m}
    /\ n_ctrl_delivered' = n_ctrl_delivered + 1
    /\ IF r_req[m] = None
       THEN Fail("STALE_CTRL") /\ UNCHANGED r_req
       ELSE /\ r_req' = [r_req EXCEPT ![m] = IncRecv([@ EXCEPT !.ctrl = "COMPLETED"], 0)]
            /\ UNCHANGED fail
    /\ UNCHANGED <<sbuf, svars, rbuf, r_next, r_call, r_pending, r_done, net, send_cq, copy_cq,
                   n_ctrl_sent, n_ctrl_received, s_counting, errors>>

\* set_eager_copy_completed.
CopyCompletion(m) ==
    /\ copy_cq' = copy_cq \ {m}
    /\ IF r_req[m] = None
       THEN Fail("STALE_COPY") /\ UNCHANGED r_req
       ELSE /\ r_req' = [r_req EXCEPT ![m] = IncRecv([@ EXCEPT !.copy = "COMPLETED"], @.copy_len)]
            /\ UNCHANGED fail
    /\ UNCHANGED <<sbuf, svars, rbuf, r_next, r_call, r_pending, r_done, net, send_cq, ctrl_cq,
                   counters, errors>>

\* process_pending_reqs on a control message or an eager copy.
RecvPending ==
    /\ r_pending # <<>>
    /\ r_pending' = Tail(r_pending)
    /\ LET m == Head(r_pending)[2] IN
       \/ /\ Head(r_pending)[1] = "CTRL"
          /\ ctrl_net' = ctrl_net \cup {[msg |-> m, len |-> r_req[m].dst_len]}
          /\ ctrl_cq' = ctrl_cq \cup {m}
          /\ UNCHANGED copy_cq
       \/ /\ Head(r_pending)[1] = "COPY"
          /\ copy_cq' = copy_cq \cup {m}
          /\ UNCHANGED <<ctrl_net, ctrl_cq>>
    /\ UNCHANGED <<sbuf, svars, rbuf, r_next, r_call, r_req, r_done, eager_net, write_net, send_cq,
                   counters, errors, fail>>

\* test() of a completed receive.
TestRecv ==
    \E m \in Testable(r_req) :
        /\ r_req[m].state = "COMPLETED"
        /\ RBuf!CompleteMsg(m)
        /\ r_done' = [r_done EXCEPT ![m] = [asked |-> r_req[m].dst_len, got |-> r_req[m].size]]
        /\ r_req' = [r_req EXCEPT ![m] = None]
        /\ UNCHANGED <<sbuf, svars, r_next, r_call, r_pending, net, cqs, counters, errors, fail>>

-----------------------------------------------------------------------------
(* Operations that complete in error: process_err_completion *)

\* An error of a write or an eager message counted as a completion.
SendErrorCounted(c) ==
    /\ send_cq' = send_cq \ {c}
    /\ s_req' = [s_req EXCEPT ![c.msg] = IncReqCompletion(@, 0, @.total)]
    /\ UNCHANGED <<s_next, s_call, s_pending, s_done, posts, rvars, net, ctrl_cq, copy_cq>>

\* set_request_state_to_error for a write or an eager message: what it carried may
\* not have arrived, and never will.
SendError(c) ==
    /\ send_cq' = send_cq \ {c}
    /\ s_req' = [s_req EXCEPT ![c.msg].state = "ERROR"]
    /\ \/ UNCHANGED <<write_net, eager_net>>
       \/ /\ write_net' = {w \in write_net : w.msg # c.msg \/ w.seg # c.seg}
          /\ eager_net' = {e \in eager_net : e.msg # c.msg}
    /\ UNCHANGED <<s_next, s_call, s_pending, s_done, posts, rvars, ctrl_net, ctrl_cq, copy_cq>>

\* The same for a control message: the receive request is its parent.
CtrlError(m) ==
    /\ ctrl_cq' = ctrl_cq \ {m}
    /\ r_req' = [r_req EXCEPT ![m].ctrl = "ERROR", ![m].state = "ERROR"]
    /\ \/ UNCHANGED ctrl_net
       \/ ctrl_net' = {c \in ctrl_net : c.msg # m}
    /\ UNCHANGED <<svars, r_next, r_call, r_pending, r_done, eager_net, write_net, send_cq, copy_cq>>

\* The same for an eager copy, the parent of which is left as it is.
CopyError(m) ==
    /\ copy_cq' = copy_cq \ {m}
    /\ r_req' = [r_req EXCEPT ![m].copy = "ERROR"]
    /\ UNCHANGED <<svars, r_next, r_call, r_pending, r_done, net, send_cq, ctrl_cq>>

\* The same for a write of the other side, found by its immediate data.
WriteError(w) ==
    /\ write_net' = write_net \ {w}
    /\ RHolds(w.msg, "REQ")
    /\ r_req' = [r_req EXCEPT ![w.msg].state = "ERROR"]
    /\ UNCHANGED <<svars, r_next, r_call, r_pending, r_done, ctrl_net, eager_net, cqs>>

ErrorCompletion ==
    /\ Cardinality(errors) < MaxErrors
    /\ \/ \E c \in send_cq : SendError(c) /\ errors' = errors \cup {<<"SEND", c.msg, c.seg>>}
       \/ \E m \in ctrl_cq : CtrlError(m) /\ errors' = errors \cup {<<"CTRL", m, 0>>}
       \/ \E m \in copy_cq : CopyError(m) /\ errors' = errors \cup {<<"COPY", m, 0>>}
       \/ \E w \in write_net : WriteError(w) /\ errors' = errors \cup {<<"WRITE", w.msg, w.seg>>}
    /\ UNCHANGED <<sbuf, rbuf, counters, fail>>

-----------------------------------------------------------------------------

HandleAnyCtrl  == \E c \in ctrl_net : HandleCtrl(c)
HandleAnyEager == \E e \in eager_net : HandleEager(e)
HandleAnyWrite == \E w \in write_net : HandleWrite(w)
CompleteAnySend == \E c \in send_cq : SendCompletion(c)
CompleteAnyCtrl == \E m \in ctrl_cq : CtrlCompletion(m)
CompleteAnyCopy == \E m \in copy_cq : CopyCompletion(m)

SenderStep ==
    \/ SendCall \/ SendWithCtrl \/ SendWithoutCtrl \/ SendRefused
    \/ HandleAnyCtrl \/ CountCtrl \/ CompleteAnySend \/ SendPending \/ TestSend

ReceiverStep ==
    \/ RecvCall \/ RecvWithEager \/ RecvWithoutEager \/ RecvRefused
    \/ HandleAnyEager \/ HandleAnyWrite \/ CompleteAnyCtrl \/ CompleteAnyCopy
    \/ RecvPending \/ TestRecv

Next == SenderStep \/ ReceiverStep \/ ErrorCompletion

Spec == Init /\ [][Next]_vars

-----------------------------------------------------------------------------
(* Properties *)

ReqState == {"CREATED", "COMPLETED", "ERROR"}

\* The type invariant of the two communicators and of the network.
TypeOK ==
    /\ s_next \in 0..MaxMsgs /\ r_next \in 0..MaxMsgs
    /\ \A m \in Msgs : s_req[m] # None =>
          /\ s_req[m].state \in ReqState /\ s_req[m].xferred \in 0..NumRails
          /\ s_req[m].total \in {None} \cup 1..(NumRails + 1)
          /\ s_req[m].ncompls \in 0..(NumRails + 1)
    /\ \A m \in Msgs : r_req[m] # None =>
          /\ r_req[m].state \in ReqState /\ r_req[m].ncompls \in 0..RecvCompls
          /\ r_req[m].segs \in 0..NumRails
    /\ {c.msg : c \in ctrl_net \cup eager_net \cup write_net \cup send_cq} \subseteq Msgs
    /\ ctrl_cq \subseteq Msgs /\ copy_cq \subseteq Msgs
    /\ n_ctrl_sent \in 0..MaxMsgs /\ n_ctrl_delivered \in 0..n_ctrl_sent
    /\ Cardinality(errors) <= MaxErrors

\* No handler meets what it takes for impossible: a control message, an eager
\* message or a write always finds its message buffer slot in a state it expects,
\* however far the two sides are apart; send() and recv() never find the message
\* buffer full; and no completion finds its request freed (msg_seq_num checks of
\* handle_ctrl_recv, handle_eager_recv and get_req_from_imm_data).  The two failures
\* that do happen, of recv() and of a close message, have properties of their own.
NoSurprise == fail \subseteq {"RECV_ENOMEM", "CLOSE_LOST"}

\* What test() reports: both sides of a message report the same number of bytes, the
\* lesser of what the two asked for, whether the message went eagerly, was cut by the
\* receive buffer, or was written in stripes.
SizesAgree ==
    \A m \in Msgs : s_done[m] # None /\ r_done[m] # None =>
        /\ s_done[m].got = r_done[m].got
        /\ s_done[m].got = AtMost(s_done[m].asked, r_done[m].asked)

\* A request is reported complete only when nothing of it is under way: a receive
\* has all of its data, and no completion, message or pending entry can reach the
\* request any more once test() frees it.  The counters stay in their ranges.
CompleteMeansOver ==
    /\ TypeOK
    /\ \A m \in Msgs :
           /\ s_req[m] # None /\ s_req[m].state = "COMPLETED" =>
                 /\ \A c \in send_cq \cup ctrl_net : c.msg # m
                 /\ \A i \in 1..Len(s_pending) : s_pending[i] # m
           /\ r_req[m] # None /\ r_req[m].state = "COMPLETED" =>
                 /\ m \notin ctrl_cq \cup copy_cq
                 /\ \A c \in write_net \cup eager_net : c.msg # m
                 /\ \A i \in 1..Len(r_pending) : r_pending[i][2] # m

\* However often send_progress is interrupted by EAGAIN and resumed from the pending
\* queue, each stripe of a message is posted once: never more operations than there
\* are stripes, all of them when the send is complete.
PostedOnce ==
    \A m \in Msgs : s_req[m] # None /\ s_req[m].sched # None =>
        /\ posts[m] <= ToPost(s_req[m])
        /\ s_req[m].state = "COMPLETED" => posts[m] = ToPost(s_req[m])

\* No operation that completes in error is taken for a success: test() never reports
\* a message done to the side one of whose operations on it has failed, whatever else
\* of the message completes, before or after.
NoFalseSuccess ==
    \A e \in errors : IF e[1] = "SEND" THEN s_done[e[2]] = None
                      ELSE e[1] # "CLOSE" => r_done[e[2]] = None

\* The comment of insert_rdma_recv_req_into_msgbuff: when an eager message arrives
\* while recv() is at work, recv() returns without a request and without an error,
\* and NCCL calls it again.
RecvRaceIsNoError == "RECV_ENOMEM" \notin fail
=============================================================================
