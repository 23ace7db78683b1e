------------------------------- MODULE SendRecv -------------------------------
(***************************************************************************)
(* The SENDRECV protocol (src/src/nccl_ofi_sendrecv.c) under the calls of  *)
(* src/src/nccl_ofi_api.c: connections between threads, the requests of    *)
(* their communicators, and the tagged messages they exchange.             *)
(*                                                                         *)
(* A thread has at most one endpoint of the device at a time, which its    *)
(* communicators share and count, and one completion queue with it.        *)
(* Connection c has a listen and a receive communicator at thread to[c]    *)
(* and a send communicator at thread from[c]; the two may be the same      *)
(* thread, and the connection is then one to itself.  A receive posted by  *)
(* the plugin names a tag and no sender, so that messages are told apart   *)
(* by their tags alone.                                                    *)
(*                                                                         *)
(* Every call of NCCL is one step, since a thread makes its calls one      *)
(* after the other and nothing else touches its endpoint.  libfabric       *)
(* matches messages and completes operations in steps of its own.  NCCL    *)
(* does not call accept() again once it has returned a communicator or an  *)
(* error, closes a communicator when it holds no request of it, and does   *)
(* not use a connection to itself before accept() has returned.            *)
(***************************************************************************)
EXTENDS Integers, Sequences, SequencesExt

CONSTANTS Conns, Threads, None,
          MaxReq,       \* NCCL_OFI_MAX_REQUESTS
          Setups        \* what to consider: from, to, max_tag, flush_on, the number of
                        \* messages over each connection NCCL opens, and how many calls
                        \* of the environment fail at most

ASSUME SendRecvAssumption ==
    /\ MaxReq \in Nat \ {0}
    /\ \A u \in Setups :
        /\ u.from \in [Conns -> Threads] /\ u.to \in [Conns -> Threads]
        /\ u.max_tag \in Nat /\ u.flush_on \in BOOLEAN /\ u.faults \in Nat
        /\ DOMAIN u.load \subseteq Conns /\ \A c \in DOMAIN u.load : u.load[c] \in Nat

VARIABLES
    setup,           \* one of Setups, which never changes
    ep,              \* ref_cnt and tag of the endpoint of a thread; its incarnation
    handle,          \* of each connection, passed on by NCCL
    l_comm, s_comm, r_comm,
    recvq,           \* receives posted to an endpoint, in order
    busy,            \* sends and reads posted, by their requests
    wire,            \* messages sent and not matched yet
    cq,              \* completions of an endpoint not read yet
    got,             \* what the receives of a connection were given, in order
    failed,          \* calls that NCCL has seen fail
    cq_failed,       \* threads that have met a failing completion queue
    faults

comms == <<l_comm, s_comm, r_comm>>
provider == <<ep, recvq, busy, cq>>
vars == <<setup, provider, handle, comms, wire, got, failed, cq_failed, faults>>

Slots == 1..MaxReq
from == setup.from
to == setup.to
max_tag == setup.max_tag
flush_on == setup.flush_on
load == setup.load

\* Requests are <<kind, connection, slot>>: of the listen communicator (one), of
\* the send communicator and of the receive communicator.
OwnerOf(q) == IF q[1] = "S" THEN from[q[2]] ELSE to[q[2]]

\* nccl_ofi_reqs_fl, the states of its requests, num_inflight_reqs, and the
\* requests NCCL holds.
NewPool == [free |-> [i \in Slots |-> i], state |-> [i \in Slots |-> "CREATED"],
            inflight |-> 0, held |-> {}]

NoListen == [open |-> "none", stage |-> "CREATE_START", tag |-> 0, accepted |-> FALSE,
             req |-> "none", conn_info |-> "none", conn |-> None, slot |-> 0]
NoSend == [open |-> "none", pool |-> NewPool, conn_info |-> "none", req |-> 0, sent |-> 0]
NoRecv == [open |-> "none", pool |-> NewPool, posted |-> 0, flushed |-> FALSE]

Init ==
    /\ setup \in Setups
    /\ ep = [t \in Threads |-> [ref_cnt |-> 0, tag |-> 0, gen |-> 0]]
    /\ handle = [c \in Conns |-> [stage |-> "none", tag |-> 0, ep_name |-> <<>>]]
    /\ l_comm = [c \in Conns |-> NoListen]
    /\ s_comm = [c \in Conns |-> NoSend]
    /\ r_comm = [c \in Conns |-> NoRecv]
    /\ recvq = [t \in Threads |-> <<>>] /\ busy = {}
    /\ wire = <<>> /\ cq = [t \in Threads |-> {}]
    /\ got = [c \in Conns |-> <<>>]
    /\ failed = {} /\ cq_failed = {} /\ faults = 0

\* One more call of the environment fails.
Fault == faults < setup.faults /\ faults' = faults + 1

-----------------------------------------------------------------------------
(* Endpoints.                                                              *)

\* get_ep: the endpoint of the thread, or a new one with tags from the start.
GetEp(t) ==
    [ep EXCEPT ![t] = IF @.ref_cnt = 0 THEN [ref_cnt |-> 1, tag |-> 0, gen |-> @.gen + 1]
                      ELSE [@ EXCEPT !.ref_cnt = @ + 1]]

\* release_ep on the endpoints E.
ReleaseEp(E, t) == [E EXCEPT ![t].ref_cnt = @ - 1]

EpName(E, t) == <<t, E[t].gen>>

\* The endpoints become E, with receives Q, operations B and completions C; an
\* endpoint without references is closed (nccl_net_ofi_sendrecv_endpoint_free),
\* and what was posted to it is gone.
EpState(E, Q, B, C) ==
    /\ ep' = E
    /\ recvq' = [t \in Threads |-> IF E[t].ref_cnt = 0 THEN <<>> ELSE Q[t]]
    /\ busy' = {q \in B : E[OwnerOf(q)].ref_cnt # 0}
    /\ cq' = [t \in Threads |-> IF E[t].ref_cnt = 0 THEN {} ELSE C[t]]

-----------------------------------------------------------------------------
(* Requests and completions.                                               *)

\* sendrecv_allocate_req takes the first free request.
Allocated(p) == [p EXCEPT !.free = Tail(@)]

\* sendrecv_req_free that does not look at dec_inflight_reqs.
FreeReqAlways(p, s, dec) ==
    [p EXCEPT !.free = <<s>> \o @, !.state[s] = "CREATED", !.held = @ \ {s}, !.inflight = @ - 1]

\* sendrecv_req_free: zeroed and first in the free list again.
FreeReq(p, s, dec) ==
    [p EXCEPT !.free = <<s>> \o @, !.state[s] = "CREATED", !.held = @ \ {s},
              !.inflight = IF dec THEN @ - 1 ELSE @]

\* Counted, and handed to NCCL.
HandOut(p, s) == [p EXCEPT !.inflight = @ + 1, !.held = @ \cup {s}]

Completion(q, err) == [req |-> q, err |-> err]

\* sendrecv_process_completions and the error entries of sendrecv_cq_process.
ReqUpdate(state, t, k, c) ==
    [s \in Slots |-> IF Completion(<<k, c, s>>, FALSE) \in cq[t] THEN "COMPLETED"
                     ELSE IF Completion(<<k, c, s>>, TRUE) \in cq[t] THEN "ERROR"
                     ELSE state[s]]

\* The communicators of thread t after sendrecv_cq_process, which reads all there is.
SendAfter(t) ==
    [c \in Conns |-> IF from[c] = t
                     THEN [s_comm[c] EXCEPT !.pool.state = ReqUpdate(@, t, "S", c)]
                     ELSE s_comm[c]]
RecvAfter(t) ==
    [c \in Conns |-> IF to[c] = t
                     THEN [r_comm[c] EXCEPT !.pool.state = ReqUpdate(@, t, "R", c)]
                     ELSE r_comm[c]]

\* A connect message received completes its request only.
ListenAfterSilent(t) ==
    [c \in Conns |-> IF Completion(<<"L", c, 0>>, FALSE) \in cq[t]
                     THEN [l_comm[c] EXCEPT !.req = "COMPLETED"] ELSE l_comm[c]]

\* A connect message received marks the listen communicator.
ListenAfter(t) ==
    [c \in Conns |->
        IF Completion(<<"L", c, 0>>, FALSE) \in cq[t]
        THEN [l_comm[c] EXCEPT !.accepted = TRUE, !.req = "COMPLETED"]
        ELSE IF Completion(<<"L", c, 0>>, TRUE) \in cq[t] THEN [l_comm[c] EXCEPT !.req = "ERROR"]
        ELSE l_comm[c]]

Read(t) == [cq EXCEPT ![t] = {}]

\* Nothing but sendrecv_cq_process happens.
OnlyProgress(t) ==
    /\ s_comm' = SendAfter(t) /\ r_comm' = RecvAfter(t) /\ l_comm' = ListenAfter(t)
    /\ EpState(ep, recvq, busy, Read(t))

\* A message on its way, with the request that sent it.
Message(q, name, tag, ctrl, body) ==
    [req |-> q, ep_name |-> name, tag |-> tag, ctrl |-> ctrl, body |-> body]
Receive(q, tag, ctrl) == [req |-> q, tag |-> tag, ctrl |-> ctrl]

-----------------------------------------------------------------------------
(* Opening a connection.                                                   *)

\* nccl_net_ofi_listen: an endpoint for the thread, and given back on an error.
ListenFails(c, E) ==
    /\ failed' = failed \cup {<<"listen", c>>}
    /\ EpState(ReleaseEp(E, to[c]), recvq, busy, cq)
    /\ UNCHANGED <<comms, handle>>

\* sendrecv_endpoint_listen that lets listeners share their tags.
NextTagSame(E, t) == 1

\* sendrecv_endpoint_listen: a tag of its own for every listen communicator.
NextTag(E, t) == E[t].tag + 1

Listen(c) ==
    LET t == to[c]
        E == GetEp(t)
        tag == NextTag(E, t)
        tagged == [E EXCEPT ![t].tag = tag]
    IN
    /\ c \in DOMAIN load /\ l_comm[c].open = "none" /\ <<"listen", c>> \notin failed
    /\ \/ tag >= max_tag /\ ListenFails(c, E) /\ UNCHANGED faults
       \/ tag < max_tag /\ Fault /\ ListenFails(c, tagged)
       \/ /\ tag < max_tag
          /\ l_comm' = [l_comm EXCEPT ![c].open = "open", ![c].tag = tag]
          /\ handle' = [handle EXCEPT ![c] = [stage |-> "CREATE_START", tag |-> tag,
                                              ep_name |-> EpName(E, t)]]
          /\ EpState(tagged, recvq, busy, cq)
          /\ UNCHANGED <<s_comm, r_comm, failed, faults>>
    /\ UNCHANGED <<setup, wire, got, cq_failed>>

\* sendrecv_send_comm_create and the request for the connect message.
SendComm(c, E) ==
    [NoSend EXCEPT !.open = "open", !.pool = Allocated(NewPool), !.req = Head(NewPool.free),
                   !.conn_info = IF EpName(E, from[c]) = handle[c].ep_name THEN "self" ELSE "other"]

\* connect() returns an error with communicators S, and the API releases its endpoint.
ConnectFails(c, E, S) ==
    /\ failed' = failed \cup {<<"connect", c>>}
    /\ s_comm' = S
    /\ EpState(ReleaseEp(E, from[c]), recvq, busy, cq)
    /\ UNCHANGED <<l_comm, r_comm, handle, wire>>

\* The end of connect(): the request is freed, unless accept() is to look at it.
Connected(s) ==
    IF s.conn_info = "self" THEN s
    ELSE [s EXCEPT !.pool = FreeReq(@, s.req, FALSE), !.conn_info = "none", !.req = 0]

\* sendrecv_send_comm_send_connect_message and what follows it in the same call:
\* no room, a failure, or posted; a connection to itself is complete with that.
SendConnect(c, E, s) ==
    LET t == from[c]
        q == <<"S", c, s.req>>
        self == s.conn_info = "self"
    IN
    \/ /\ s_comm' = [SendAfter(t) EXCEPT ![c] = s]
       /\ r_comm' = RecvAfter(t) /\ l_comm' = ListenAfter(t)
       /\ handle' = [handle EXCEPT ![c].stage = "SEND_CONN"]
       /\ EpState(E, recvq, busy, Read(t))
       /\ UNCHANGED <<wire, failed, faults>>
    \/ /\ Fault
       /\ ConnectFails(c, E, [s_comm EXCEPT ![c] = [s EXCEPT !.open = "closed"]])
    \/ /\ wire' = Append(wire, Message(q, handle[c].ep_name, handle[c].tag, TRUE,
                                       <<s.conn_info, c, s.req>>))
       /\ handle' = [handle EXCEPT ![c].stage = IF self THEN "CONNECTED" ELSE "CONN_REQ_PENDING"]
       /\ IF self THEN /\ s_comm' = [s_comm EXCEPT ![c] = Connected(s)]
                       /\ EpState(E, recvq, busy \cup {q}, cq)
                       /\ UNCHANGED <<r_comm, l_comm>>
                  ELSE /\ s_comm' = [SendAfter(t) EXCEPT ![c] = s]
                       /\ r_comm' = RecvAfter(t) /\ l_comm' = ListenAfter(t)
                       /\ EpState(E, recvq, busy \cup {q}, Read(t))
       /\ UNCHANGED <<failed, faults>>

\* nccl_net_ofi_connect with a new handle: get_ep, then sendrecv_endpoint_connect.
ConnectStart(c) ==
    LET E == GetEp(from[c]) IN
    /\ handle[c].stage = "CREATE_START" /\ <<"connect", c>> \notin failed
    /\ \/ SendConnect(c, E, SendComm(c, E))
       \/ Fault /\ ConnectFails(c, E, s_comm)
    /\ UNCHANGED <<setup, got, cq_failed>>

\* nccl_net_ofi_connect again, with the endpoint of the communicator in the handle.
ConnectRetry(c) ==
    /\ handle[c].stage = "SEND_CONN" /\ <<"connect", c>> \notin failed
    /\ SendConnect(c, ep, s_comm[c])
    /\ UNCHANGED <<setup, got, cq_failed>>

\* sendrecv_endpoint_connect in stage COMM_CONN_REQ_PENDING.
ConnectPending(c) ==
    LET t == from[c]
        s == SendAfter(t)[c]
        done == s.pool.state[s.req] = "COMPLETED"
    IN
    /\ handle[c].stage = "CONN_REQ_PENDING" /\ <<"connect", c>> \notin failed
    /\ \/ /\ s_comm' = [SendAfter(t) EXCEPT ![c] = IF done THEN Connected(s) ELSE s]
          /\ r_comm' = RecvAfter(t) /\ l_comm' = ListenAfter(t)
          /\ handle' = [handle EXCEPT ![c].stage = IF done THEN "CONNECTED" ELSE @]
          /\ EpState(ep, recvq, busy, Read(t))
          /\ UNCHANGED <<wire, failed, faults, cq_failed>>
       \/ /\ Fault
          /\ ConnectFails(c, ep, [s_comm EXCEPT ![c].open = "closed"])
          /\ cq_failed' = cq_failed \cup {t}
    /\ UNCHANGED <<setup, got>>

\* accept() returns an error, and nccl_net_ofi_accept releases the endpoint.
AcceptFails(c, E, L) ==
    /\ failed' = failed \cup {<<"accept", c>>}
    /\ l_comm' = L
    /\ EpState(ReleaseEp(E, to[c]), recvq, busy, cq)
    /\ UNCHANGED <<s_comm, r_comm>>

\* accept() that does not count the endpoint for the receive communicator.
AcceptRefNone(c) == ep

\* accept() counts the endpoint once more when it is first called, for the receive
\* communicator to come.
AcceptRef(c) ==
    IF l_comm[c].stage = "CREATE_START" THEN [ep EXCEPT ![to[c]].ref_cnt = @ + 1] ELSE ep

\* sendrecv_listen_comm_accept up to the receive for the connect message: no room,
\* a failure, or posted.
AcceptPost(c) ==
    LET t == to[c]
        E == AcceptRef(c)
        L == ListenAfter(t)
        receive == Receive(<<"L", c, 0>>, l_comm[c].tag, TRUE)
    IN
    /\ l_comm[c].open = "open" /\ <<"accept", c>> \notin failed
    /\ l_comm[c].stage \in {"CREATE_START", "RECV_CONN"}
    /\ \/ /\ s_comm' = SendAfter(t) /\ r_comm' = RecvAfter(t)
          /\ \/ /\ l_comm' = [L EXCEPT ![c].stage = "RECV_CONN", ![c].req = "CREATED",
                                       ![c].conn_info = "empty"]
                /\ EpState(E, recvq, busy, Read(t))
             \/ /\ l_comm' = [L EXCEPT ![c].stage = "CONN_REQ_PENDING", ![c].req = "CREATED",
                                       ![c].conn_info = "empty"]
                /\ EpState(E, [recvq EXCEPT ![t] = Append(@, receive)], busy, Read(t))
          /\ UNCHANGED <<failed, faults>>
       \/ /\ Fault
          /\ AcceptFails(c, E, [l_comm EXCEPT ![c].stage = "RECV_CONN", ![c].req = "none",
                                              ![c].conn_info = "none"])
    /\ UNCHANGED <<setup, handle, wire, got, cq_failed>>

\* A connection of the thread with itself is accepted when the request in its
\* connect message has completed.
SelfDone(l, S) == l.conn_info = "self" => S[l.conn].pool.state[l.slot] = "COMPLETED"

\* sendrecv_listen_comm_accept in stage COMM_CONN_REQ_PENDING.
AcceptPending(c) ==
    LET t == to[c]
        L == ListenAfter(t)
        done == L[c].accepted /\ SelfDone(L[c], SendAfter(t))
        end == [L EXCEPT ![c].stage = "CONNECTED", ![c].req = "none", ![c].conn_info = "none"]
    IN
    /\ l_comm[c].stage = "CONN_REQ_PENDING" /\ <<"accept", c>> \notin failed
    /\ \/ ~done /\ OnlyProgress(t) /\ UNCHANGED <<failed, faults, cq_failed>>
       \/ /\ done /\ l_comm' = end /\ s_comm' = SendAfter(t)
          /\ r_comm' = [RecvAfter(t) EXCEPT ![c].open = "open"]
          /\ EpState(ep, recvq, busy, Read(t))
          /\ UNCHANGED <<failed, faults, cq_failed>>
       \/ /\ done /\ Fault /\ l_comm' = end /\ s_comm' = SendAfter(t) /\ r_comm' = RecvAfter(t)
          /\ failed' = failed \cup {<<"accept", c>>}
          /\ EpState(ReleaseEp(ep, t), recvq, busy, Read(t))
          /\ UNCHANGED cq_failed
       \/ /\ Fault /\ AcceptFails(c, ep, [l_comm EXCEPT ![c].req = "none"])
          /\ cq_failed' = cq_failed \cup {t}
    /\ UNCHANGED <<setup, handle, wire, got>>

-----------------------------------------------------------------------------
(* Messages.                                                               *)

\* The request of a connection to itself, freed by the first send() without a look
\* at its state.
SelfPendingNever(s) == FALSE

\* send() waits for the request of a connection to itself.
SelfPending(s) == s.conn_info = "self" /\ s.pool.state[s.req] # "COMPLETED"

\* Its request freed, the communicator is like any other.
SelfFreed(s) ==
    IF s.conn_info = "self"
    THEN [s EXCEPT !.pool = FreeReq(@, s.req, FALSE), !.conn_info = "none", !.req = 0]
    ELSE s

\* send() of a request that could not be posted: freed, and not counted.
SendUnposted(s) == [s EXCEPT !.pool = FreeReq(Allocated(@), Head(s.pool.free), FALSE)]

\* sendrecv_send_comm_send: the request of a connection to itself is still under way,
\* or there is no room, or the message could not be sent, or it is sent.  The caller is
\* assumed to send to itself only when accept() is over: send() frees the request that
\* accept() looks at.
Send(c) ==
    LET t == from[c]
        s == SelfFreed(s_comm[c])
        slot == Head(s.pool.free)
        q == <<"S", c, slot>>
    IN
    /\ s_comm[c].open = "open" /\ handle[c].stage = "CONNECTED"
    /\ s_comm[c].sent < load[c] /\ s_comm[c].pool.inflight < MaxReq
    /\ s_comm[c].conn_info = "self" => r_comm[c].open # "none" \/ <<"accept", c>> \in failed
    /\ \/ SelfPending(s_comm[c]) /\ OnlyProgress(t) /\ UNCHANGED wire
       \/ /\ ~SelfPending(s_comm[c])
          /\ \/ /\ s_comm' = [SendAfter(t) EXCEPT ![c] = [SendUnposted(s) EXCEPT
                                   !.pool.state = ReqUpdate(@, t, "S", c)]]
                /\ r_comm' = RecvAfter(t) /\ l_comm' = ListenAfter(t)
                /\ EpState(ep, recvq, busy, Read(t))
                /\ UNCHANGED wire
             \/ /\ s_comm' = [s_comm EXCEPT ![c] = SendUnposted(s)]
                /\ UNCHANGED <<r_comm, l_comm, provider, wire>>
             \/ /\ s_comm' = [s_comm EXCEPT ![c] = [s EXCEPT !.sent = @ + 1,
                                   !.pool = HandOut(Allocated(@), slot)]]
                /\ wire' = Append(wire, Message(q, handle[c].ep_name, handle[c].tag, FALSE,
                                                <<c, s.sent + 1>>))
                /\ EpState(ep, recvq, busy \cup {q}, cq)
                /\ UNCHANGED <<r_comm, l_comm>>
    /\ UNCHANGED <<setup, handle, got, failed, cq_failed, faults>>

\* recv() and flush() count a request that is posted, and hand it to NCCL.
RecvPosted(r, slot) == [r EXCEPT !.pool = HandOut(Allocated(@), slot)]

\* sendrecv_recv_comm_recv reads completions first; without room, or on a failure,
\* the request it has taken is freed again.
Recv(c) ==
    LET t == to[c]
        slot == Head(r_comm[c].pool.free)
        receive == Receive(<<"R", c, slot>>, l_comm[c].tag, FALSE)
    IN
    /\ r_comm[c].open = "open" /\ r_comm[c].posted < load[c]
    /\ r_comm[c].pool.inflight < MaxReq
    /\ \/ OnlyProgress(t)
       \/ /\ r_comm' = [RecvAfter(t) EXCEPT ![c] = [RecvPosted(@, slot) EXCEPT !.posted = @ + 1]]
          /\ s_comm' = SendAfter(t) /\ l_comm' = ListenAfter(t)
          /\ EpState(ep, [recvq EXCEPT ![t] = Append(@, receive)], busy, Read(t))
    /\ UNCHANGED <<setup, handle, wire, got, failed, cq_failed, faults>>

\* sendrecv_recv_comm_flush: nothing to do when flushes are off; otherwise a read of
\* its own memory, tried again after reading completions when there is no room.
Flush(c) ==
    LET t == to[c]
        slot == Head(r_comm[c].pool.free)
    IN
    /\ r_comm[c].open = "open" /\ ~r_comm[c].flushed /\ got[c] # <<>>
    /\ r_comm[c].pool.inflight < MaxReq
    /\ \/ ~flush_on /\ r_comm' = [r_comm EXCEPT ![c].flushed = TRUE]
          /\ UNCHANGED <<s_comm, l_comm, provider>>
       \/ flush_on /\ OnlyProgress(t)
       \/ /\ flush_on
          /\ r_comm' = [r_comm EXCEPT ![c] = [RecvPosted(@, slot) EXCEPT !.flushed = TRUE]]
          /\ EpState(ep, recvq, busy \cup {<<"R", c, slot>>}, cq)
          /\ UNCHANGED <<s_comm, l_comm>>
    /\ UNCHANGED <<setup, handle, wire, got, failed, cq_failed, faults>>

\* sendrecv_req_test reads completions unless the request is complete already, and
\* frees a request that is complete or in error.
Tested(p, slot) ==
    IF p.state[slot] \in {"COMPLETED", "ERROR"} THEN FreeReq(p, slot, TRUE) ELSE p

TestSend(c, slot) ==
    LET t == from[c] IN
    /\ slot \in s_comm[c].pool.held
    /\ IF s_comm[c].pool.state[slot] = "COMPLETED"
       THEN /\ s_comm' = [s_comm EXCEPT ![c].pool = Tested(@, slot)]
            /\ UNCHANGED <<r_comm, l_comm, provider>>
       ELSE /\ s_comm' = [SendAfter(t) EXCEPT ![c].pool = Tested(@, slot)]
            /\ r_comm' = RecvAfter(t) /\ l_comm' = ListenAfter(t)
            /\ EpState(ep, recvq, busy, Read(t))
    /\ UNCHANGED <<setup, handle, wire, got, failed, cq_failed, faults>>

TestRecv(c, slot) ==
    LET t == to[c] IN
    /\ slot \in r_comm[c].pool.held
    /\ IF r_comm[c].pool.state[slot] = "COMPLETED"
       THEN /\ r_comm' = [r_comm EXCEPT ![c].pool = Tested(@, slot)]
            /\ UNCHANGED <<s_comm, l_comm, provider>>
       ELSE /\ r_comm' = [RecvAfter(t) EXCEPT ![c].pool = Tested(@, slot)]
            /\ s_comm' = SendAfter(t) /\ l_comm' = ListenAfter(t)
            /\ EpState(ep, recvq, busy, Read(t))
    /\ UNCHANGED <<setup, handle, wire, got, failed, cq_failed, faults>>

-----------------------------------------------------------------------------
(* Closing.                                                                *)

\* sendrecv_send_comm_close.
CloseSend(c) ==
    /\ s_comm[c].open = "open" /\ handle[c].stage = "CONNECTED"
    /\ s_comm[c].sent = load[c] /\ s_comm[c].pool.held = {}
    /\ s_comm[c].conn_info = "self" => r_comm[c].open # "none"
    /\ s_comm' = [s_comm EXCEPT ![c].open = "closed"]
    /\ EpState(ReleaseEp(ep, from[c]), recvq, busy, cq)
    /\ UNCHANGED <<setup, handle, l_comm, r_comm, wire, got, failed, cq_failed, faults>>

\* sendrecv_recv_comm_close.
CloseRecv(c) ==
    /\ r_comm[c].open = "open" /\ r_comm[c].posted = load[c] /\ r_comm[c].pool.held = {}
    /\ r_comm' = [r_comm EXCEPT ![c].open = "closed"]
    /\ EpState(ReleaseEp(ep, to[c]), recvq, busy, cq)
    /\ UNCHANGED <<setup, handle, l_comm, s_comm, wire, got, failed, cq_failed, faults>>

\* sendrecv_listen_comm_close, when accept() has returned.
CloseListen(c) ==
    /\ l_comm[c].open = "open"
    /\ r_comm[c].open # "none" \/ <<"accept", c>> \in failed
    /\ l_comm' = [l_comm EXCEPT ![c].open = "closed"]
    /\ EpState(ReleaseEp(ep, to[c]), recvq, busy, cq)
    /\ UNCHANGED <<setup, handle, s_comm, r_comm, wire, got, failed, cq_failed, faults>>

-----------------------------------------------------------------------------
(* libfabric.                                                              *)

\* A message and the receive it goes to: the first of each with the same tag.
Matching(t, m, r) ==
    LET same(x) == x.tag = wire[m].tag /\ x.ctrl = wire[m].ctrl IN
    /\ wire[m].ep_name = EpName(ep, t) /\ same(recvq[t][r])
    /\ \A i \in 1..m - 1 : wire[i].ep_name = wire[m].ep_name => ~same(wire[i])
    /\ \A i \in 1..r - 1 : ~same(recvq[t][i])

\* A message fills the buffer of its receive, or is too long for it.
Arrive(t, m, r) ==
    LET msg == wire[m]
        q == recvq[t][r].req
    IN
    /\ Matching(t, m, r)
    /\ wire' = RemoveAt(wire, m)
    /\ recvq' = [recvq EXCEPT ![t] = RemoveAt(@, r)]
    /\ \/ /\ cq' = [cq EXCEPT ![t] = @ \cup {Completion(q, FALSE)}]
          /\ IF msg.ctrl
             THEN /\ l_comm' = [l_comm EXCEPT ![q[2]].conn_info = msg.body[1],
                                              ![q[2]].conn = msg.body[2], ![q[2]].slot = msg.body[3]]
                  /\ UNCHANGED got
             ELSE /\ got' = [got EXCEPT ![q[2]] = Append(@, msg.body)]
                  /\ UNCHANGED l_comm
          /\ UNCHANGED faults
       \/ /\ Fault
          /\ cq' = [cq EXCEPT ![t] = @ \cup {Completion(q, TRUE)}]
          /\ UNCHANGED <<got, l_comm>>
    /\ UNCHANGED <<setup, ep, busy, handle, s_comm, r_comm, failed, cq_failed>>

\* A send or a read completes, in order or in error; the message of a send in error
\* is lost unless it has arrived.
Complete(q) ==
    /\ busy' = busy \ {q}
    /\ \/ /\ cq' = [cq EXCEPT ![OwnerOf(q)] = @ \cup {Completion(q, FALSE)}]
          /\ wire' = [i \in DOMAIN wire |-> IF wire[i].req = q THEN [wire[i] EXCEPT !.req = <<>>]
                                            ELSE wire[i]]
          /\ UNCHANGED faults
       \/ /\ Fault
          /\ cq' = [cq EXCEPT ![OwnerOf(q)] = @ \cup {Completion(q, TRUE)}]
          /\ wire' = SelectSeq(wire, LAMBDA m : m.req # q)
    /\ UNCHANGED <<setup, ep, recvq, handle, comms, got, failed, cq_failed>>

Next ==
    \/ \E c \in Conns :
        \/ Listen(c) \/ ConnectStart(c) \/ ConnectRetry(c) \/ ConnectPending(c)
        \/ AcceptPost(c) \/ AcceptPending(c)
        \/ Send(c) \/ Recv(c) \/ Flush(c)
        \/ \E slot \in Slots : TestSend(c, slot) \/ TestRecv(c, slot)
        \/ CloseSend(c) \/ CloseRecv(c) \/ CloseListen(c)
    \/ \E t \in Threads :
        \E m \in DOMAIN wire, r \in DOMAIN recvq[t] : Arrive(t, m, r)
    \/ \E q \in busy : Complete(q)

Spec == Init /\ [][Next]_vars

-----------------------------------------------------------------------------
(* Properties.                                                             *)

\* Every variable holds a value the code can hold; in particular no reference count
\* and no count of requests is negative, and tags stay below max_tag.
TypeOK ==
    /\ \A t \in Threads : ep[t].ref_cnt \in Nat /\ ep[t].tag \in 0..max_tag - 1
    /\ \A c \in Conns :
        /\ l_comm[c].stage \in {"CREATE_START", "RECV_CONN", "CONN_REQ_PENDING", "CONNECTED"}
        /\ handle[c].stage \in {"none", "CREATE_START", "SEND_CONN", "CONN_REQ_PENDING", "CONNECTED"}
        /\ l_comm[c].conn_info \in {"none", "empty", "self", "other"}
        /\ s_comm[c].pool.inflight \in 0..MaxReq /\ r_comm[c].pool.inflight \in 0..MaxReq
        /\ s_comm[c].pool.held \subseteq Slots /\ r_comm[c].pool.held \subseteq Slots
    /\ busy \subseteq {"S", "R"} \X Conns \X Slots

\* Every request of an open communicator is free, held by NCCL or the one of the
\* connect message, and no two of these; num_inflight_reqs counts the ones NCCL holds.
\* So a call below the limit of requests always finds a free one, whatever mixture of
\* failures, retries and connect requests came before (sendrecv_req_free).
PoolCounted(p, req) ==
    /\ \A i, j \in DOMAIN p.free : p.free[i] = p.free[j] => i = j
    /\ Range(p.free) \cap (p.held \cup {req}) = {} /\ req \notin p.held
    /\ Range(p.free) \cup p.held \cup ({req} \ {0}) = Slots
    /\ p.inflight = Cardinality(p.held)
RequestsCounted ==
    /\ TypeOK
    /\ \A c \in Conns : /\ s_comm[c].open = "open" => PoolCounted(s_comm[c].pool, s_comm[c].req)
                        /\ r_comm[c].open = "open" => PoolCounted(r_comm[c].pool, 0)

\* While accept() has still to look at the request of a connection of the thread with
\* itself, that request is the one of the connect message and belongs to an open
\* communicator: it has not been freed, and not been used for a message
\* (conn_info->req in sendrecv_listen_comm_accept).
AcceptSeesRequest ==
    \A c \in Conns :
        l_comm[c].conn_info = "self" /\ <<"accept", c>> \notin failed =>
            LET s == s_comm[l_comm[c].conn] IN
            <<"connect", c>> \notin failed => s.open = "open" /\ s.req = l_comm[c].slot

\* In how many places the outcome of request q is: posted, in the completion queue,
\* or in its state.
Places(q, state) ==
    Cardinality({r \in DOMAIN recvq[OwnerOf(q)] : recvq[OwnerOf(q)][r].req = q})
    + Cardinality({x \in cq[OwnerOf(q)] : x.req = q})
    + (IF q \in busy THEN 1 ELSE 0) + (IF state \in {"COMPLETED", "ERROR"} THEN 1 ELSE 0)

\* A request that NCCL holds, or that connect() or accept() wait for, is with the
\* provider, in the completion queue or finished, and in one of these only: it is never
\* forgotten and never completed twice.  A free request and a request of a communicator
\* that is closed are in none: no completion is written into memory given away
\* (sendrecv_process_completions trusts the context of every completion), and accept()
\* reads the request of the connect message as long as it is one.
RequestsInOnePlace ==
    /\ AcceptSeesRequest
    /\ \A c \in Conns :
           /\ from[c] \notin cq_failed =>
               \A i \in Slots :
                   Places(<<"S", c, i>>, IF s_comm[c].open = "open" THEN s_comm[c].pool.state[i] ELSE "")
                   = IF /\ s_comm[c].open = "open"
                        /\ \/ i \in s_comm[c].pool.held
                           \/ i = s_comm[c].req /\ handle[c].stage \in {"CONN_REQ_PENDING", "CONNECTED"}
                     THEN 1 ELSE 0
           /\ to[c] \notin cq_failed =>
               /\ \A i \in Slots :
                   Places(<<"R", c, i>>, IF r_comm[c].open = "open" THEN r_comm[c].pool.state[i] ELSE "")
                   = IF r_comm[c].open = "open" /\ i \in r_comm[c].pool.held THEN 1 ELSE 0
               /\ Places(<<"L", c, 0>>, l_comm[c].req)
                  = IF l_comm[c].open = "open" /\ l_comm[c].stage = "CONN_REQ_PENDING" THEN 1 ELSE 0

\* The endpoint of a thread has one reference for each of its listen communicators, for
\* each of its send communicators from the first call of connect() on, and for each of
\* its receive communicators from the first call of accept() on, with every failure of
\* listen(), connect() and accept() taken into account (nccl_net_ofi_listen,
\* nccl_net_ofi_connect and nccl_net_ofi_accept release it).
EndpointCounted ==
    \A t \in Threads :
        ep[t].ref_cnt =
            Cardinality({c \in Conns : to[c] = t /\ l_comm[c].open = "open"})
            + Cardinality({c \in Conns : from[c] = t /\ s_comm[c].open = "open"})
            + Cardinality({c \in Conns : /\ to[c] = t /\ l_comm[c].stage # "CREATE_START"
                                         /\ r_comm[c].open # "closed" /\ <<"accept", c>> \notin failed})

\* The receives of a connection get the messages of that connection, in the order in
\* which they were sent, and all of them as long as nothing fails: tags keep the
\* connections of an endpoint apart though receives name no sender, also when an
\* endpoint is freed and its tags start again (sendrecv_endpoint_listen).
ReceivedInOrder ==
    \A c \in Conns : \A i \in DOMAIN got[c] :
        /\ got[c][i][1] = c
        /\ faults = 0 => got[c][i][2] = i
        /\ i > 1 => got[c][i][2] > got[c][i - 1][2]

\* When nothing fails and nothing can happen any more, every connection has been opened,
\* every message received, everything closed and every endpoint freed: no call waits
\* for what will not come, in any order of the calls of the threads.
RestsWhenDone ==
    ~ENABLED <<Next>>_vars =>
        faults > 0 \/ failed # {}
        \/ /\ \A c \in DOMAIN load : /\ l_comm[c].open = "closed" /\ s_comm[c].open = "closed"
                                     /\ r_comm[c].open = "closed" /\ Len(got[c]) = load[c]
           /\ \A t \in Threads : ep[t].ref_cnt = 0

=============================================================================
