------------------------------ MODULE RdmaClose ------------------------------
(***************************************************************************)
(* Closing the two communicators of a connection (src/src/nccl_ofi_rdma.c).*)
(*                                                                         *)
(* A receive may be over while its control message is still on its way: an *)
(* eager message needs none.  The send communicator must not be destroyed  *)
(* under the handler of a late control message, so the receive side ends   *)
(* with a close message that says how many control messages there were.    *)
(* Close and control messages go over different rails and may overtake     *)
(* each other.                                                             *)
(*                                                                         *)
(* NCCL closes a communicator when it has no request in flight, and after  *)
(* as many calls of recv() as of send().  recv_close_deferred and          *)
(* send_close_deferred put it on a list; comm_close_handler works on the   *)
(* list in this and in later closes, and waits at the last one.            *)
(***************************************************************************)
EXTENDS RdmaTransfer

VARIABLES
    s_comm, r_comm,                     \* "active", "closing" or "destroyed"
    send_close_req,                     \* state of the request, None before
    close_net, close_cq,                \* the close message and its completion
    received_close_message, n_ctrl_expected

closing == <<s_comm, r_comm, send_close_req, close_net, close_cq,
             received_close_message, n_ctrl_expected>>

CloseInit ==
    /\ Init
    /\ s_comm = "active" /\ r_comm = "active"
    /\ send_close_req = None /\ close_net = {} /\ close_cq = FALSE
    /\ received_close_message = FALSE /\ n_ctrl_expected = None

Open == s_comm = "active" /\ r_comm = "active"

\* Sends and receives, as long as both communicators are open to calls.
Transfer ==
    /\ \/ Open /\ (SendCall \/ RecvCall)
       \/ SendWithCtrl \/ SendWithoutCtrl \/ SendRefused
       \/ HandleAnyCtrl \/ CountCtrl \/ CompleteAnySend \/ SendPending \/ TestSend
       \/ RecvWithEager \/ RecvWithoutEager \/ RecvRefused
       \/ HandleAnyEager \/ HandleAnyWrite \/ CompleteAnyCtrl \/ CompleteAnyCopy
       \/ RecvPending \/ TestRecv
       \/ ErrorCompletion
    /\ UNCHANGED closing

\* As many calls on one side as on the other, and none under way.
Matched == s_next = r_next /\ s_call = None /\ r_call = None

\* recv_close_deferred.
RecvClose ==
    /\ r_comm = "active" /\ Matched
    /\ Inflight(r_req) = {}
    /\ r_comm' = "closing"
    /\ UNCHANGED <<vars, s_comm, send_close_req, close_net, close_cq,
                   received_close_message, n_ctrl_expected>>

\* send_close_deferred.
SendClose ==
    /\ s_comm = "active" /\ Matched
    /\ Inflight(s_req) = {}
    /\ s_comm' = "closing"
    /\ UNCHANGED <<vars, r_comm, send_close_req, close_net, close_cq,
                   received_close_message, n_ctrl_expected>>

\* recv_comm_process_all_finalizing, the close message: it is posted, or put into
\* the queue of pending requests.
SendCloseMsg ==
    /\ r_comm = "closing" /\ send_close_req = None
    /\ n_ctrl_delivered = n_ctrl_sent
    /\ send_close_req' = "PENDING"
    /\ \/ close_net' = {n_ctrl_delivered} /\ close_cq' = TRUE /\ UNCHANGED r_pending
       \/ r_pending' = Append(r_pending, <<"CLOSE", None>>) /\ UNCHANGED <<close_net, close_cq>>
    /\ UNCHANGED <<sbuf, svars, rbuf, r_next, r_call, r_req, r_done, net, cqs, counters, errors, fail,
                   s_comm, r_comm, received_close_message, n_ctrl_expected>>

\* process_pending_reqs, which takes the close request off the queue and rejects it.
ClosePending ==
    /\ r_pending # <<>> /\ Head(r_pending)[1] = "CLOSE"
    /\ r_pending' = Tail(r_pending)
    /\ Fail("CLOSE_LOST")
    /\ UNCHANGED <<sbuf, svars, rbuf, r_next, r_call, r_req, r_done, net, cqs, counters, errors, closing>>

\* The completion of the close message, good or bad.
CloseCompletion ==
    /\ close_cq
    /\ close_cq' = FALSE
    /\ \/ send_close_req' = "COMPLETED" /\ UNCHANGED <<errors, close_net>>
       \/ /\ Cardinality(errors) < MaxErrors
          /\ errors' = errors \cup {<<"CLOSE", None, 0>>}
          /\ send_close_req' = "ERROR" /\ close_net' = {}
    /\ UNCHANGED <<sbuf, svars, rbuf, rvars, net, cqs, counters, fail,
                   s_comm, r_comm, received_close_message, n_ctrl_expected>>

\* recv_comm_process_all_finalizing, the end: recv_comm_destroy.
RecvDestroy ==
    /\ r_comm = "closing" /\ send_close_req = "COMPLETED"
    /\ r_comm' = "destroyed"
    /\ UNCHANGED <<vars, s_comm, send_close_req, close_net, close_cq,
                   received_close_message, n_ctrl_expected>>

\* handle_close_msg_recv that counts the close message as well.
HandleCloseOneMore ==
    \E n \in close_net :
        /\ close_net' = close_net \ {n}
        /\ received_close_message' = TRUE
        /\ n_ctrl_expected' = n + 1
        /\ UNCHANGED <<vars, s_comm, r_comm, send_close_req, close_cq>>

\* handle_close_msg_recv.
HandleClose ==
    \E n \in close_net :
        /\ close_net' = close_net \ {n}
        /\ received_close_message' = TRUE
        /\ n_ctrl_expected' = n
        /\ UNCHANGED <<vars, s_comm, r_comm, send_close_req, close_cq>>

\* send_comm_process_all_finalizing that does not wait for control messages.
SendDestroyAtClose ==
    /\ s_comm = "closing" /\ received_close_message
    /\ s_comm' = "destroyed"
    /\ UNCHANGED <<vars, r_comm, send_close_req, close_net, close_cq,
                   received_close_message, n_ctrl_expected>>

\* send_comm_process_all_finalizing: send_comm_destroy.
SendDestroy ==
    /\ s_comm = "closing" /\ received_close_message
    /\ n_ctrl_received = n_ctrl_expected
    /\ s_comm' = "destroyed"
    /\ UNCHANGED <<vars, r_comm, send_close_req, close_net, close_cq,
                   received_close_message, n_ctrl_expected>>

CloseNext ==
    \/ Transfer
    \/ RecvClose \/ SendClose \/ SendCloseMsg \/ ClosePending \/ CloseCompletion
    \/ RecvDestroy \/ HandleClose \/ SendDestroy

cvars == <<vars, closing>>

CloseSpec == CloseInit /\ [][CloseNext]_cvars

\* NCCL keeps calling send() and recv() until it has a request, and then test()
\* until the request is complete; every call of test() reads the completion queues
\* and retries the pending requests.  The network does not refuse for ever, and
\* delivers what was posted.  NCCL closes both communicators in the end, and the last
\* close of a process works on its lists until they are empty, reading the completion
\* queues as it does.
CloseFairness ==
    /\ WF_cvars(RecvClose) /\ WF_cvars(SendClose)
    /\ WF_cvars(SendCloseMsg) /\ WF_cvars(ClosePending) /\ WF_cvars(CloseCompletion)
    /\ WF_cvars(RecvDestroy) /\ WF_cvars(HandleClose) /\ WF_cvars(SendDestroy)
    /\ WF_cvars(Transfer)

FairCloseSpec == CloseSpec /\ CloseFairness

-----------------------------------------------------------------------------

\* The type invariant of the closing state.
CloseTypeOK ==
    /\ s_comm \in {"active", "closing", "destroyed"}
    /\ r_comm \in {"active", "closing", "destroyed"}
    /\ send_close_req \in {None, "PENDING", "COMPLETED", "ERROR"}
    /\ Cardinality(close_net) <= 1 /\ close_cq \in BOOLEAN
    /\ received_close_message \in BOOLEAN
    /\ n_ctrl_expected \in {None} \cup 0..MaxMsgs

\* Nothing that would be looked up in a communicator is left once the communicator is
\* destroyed: no control message, eager message, write or completion under way, no
\* handler of a control message still at work, no pending request.
NothingAfterDestroy ==
    /\ s_comm = "destroyed" =>
          /\ ctrl_net = {} /\ s_counting = 0 /\ close_net = {}
          /\ send_cq = {} /\ s_pending = <<>>
    /\ r_comm = "destroyed" =>
          /\ eager_net = {} /\ write_net = {}
          /\ ctrl_cq = {} /\ copy_cq = {} /\ ~close_cq /\ r_pending = <<>>

\* The count in the close message is final: what the send communicator is told to
\* expect is what recv() has sent, and what it has handled never exceeds it.
CountIsFinal ==
    /\ CloseTypeOK
    /\ received_close_message => n_ctrl_expected = n_ctrl_sent /\ n_ctrl_received <= n_ctrl_expected

\* Every message that both sides ask for is delivered, both are told, and both
\* communicators are destroyed in the end, unless process_pending_reqs has lost the
\* close message.  A communicator with a request in flight is never closed, so a
\* message stuck anywhere shows here.
BothDestroyed ==
    <>({s_comm, r_comm} = {"destroyed"} \/ "CLOSE_LOST" \in fail)

=============================================================================
