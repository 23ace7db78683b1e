----------------------------- MODULE RdmaConnect -----------------------------
(***************************************************************************)
(* Opening and closing connections of the RDMA protocol                    *)
(* (src/src/nccl_ofi_rdma.c, with the endpoints of src/src/nccl_ofi_net.c, *)
(* the address list of src/src/nccl_ofi_ep_addr_list.c and the calls of    *)
(* src/src/nccl_ofi_api.c), several of them between devices of different   *)
(* processes.                                                              *)
(*                                                                         *)
(* Connection c has a listen communicator <<"L", c>> and a receive         *)
(* communicator <<"R", c>> at device to[c], and a send communicator        *)
(* <<"S", c>> at device from[c].  Communicators of all three kinds take    *)
(* their ids from one pool of the device and are looked up, by the id in a *)
(* message, in one table of it.  They hold references to endpoints: the    *)
(* one get_ep finds or creates, or, for receive communicators with the     *)
(* parameter endpoint_per_communicator, one from the address list.         *)
(*                                                                         *)
(* NCCL calls connect() and accept() until they return a communicator.  A  *)
(* call goes through as many stages as it can; each stage is an action, as *)
(* a call may return before every one of them.  Messages are handled when  *)
(* some call reads the completion queue.  Transfers over the connection    *)
(* are in RdmaTransfer, and the counters of its close in RdmaClose.        *)
(***************************************************************************)
EXTENDS Integers, Sequences, SequencesExt

CONSTANTS Conns, Devices,
          NumIds,       \* num_comm_ids
          OneThread,    \* whether a device is used by one thread only
          None

ASSUME ConnectAssumption ==
    /\ NumIds \in Nat \ {0} /\ OneThread \in BOOLEAN

VARIABLES
    endpoint_per_communicator,   \* the parameter, which never changes
    from, to,                    \* devices of each connection, which never change
    comm_idpool,                 \* free ids of each device
    comms,                       \* table of communicators of each device
    comm,                        \* state, id, id of the peer, endpoint, endpoint of the
                                 \* peer, conn_msg
    endpoint_table, ep_addr_list, ref_cnt, live,
    handle,                      \* of each connection, passed on by NCCL
    stage, req, conn_resp_req,
    send_close_req, received_close_message,
    num_open_comms, in_close,    \* in_close: a call is in comm_close_handler
    net, cq                      \* messages under way, completions of sends

config == <<endpoint_per_communicator, from, to>>
endpoints == <<endpoint_table, ep_addr_list, ref_cnt, live>>
ids == <<comm_idpool, comms>>
setup == <<handle, stage, req, conn_resp_req>>
finish == <<send_close_req, received_close_message, num_open_comms, in_close>>
vars == <<config, ids, comm, endpoints, setup, finish, net, cq>>

Ids == 0..NumIds - 1
Comms == {"L", "S", "R"} \X Conns
DeviceOf(o) == IF o[1] = "S" THEN from[o[2]] ELSE to[o[2]]
CommsOf(d) == {o \in Comms : DeviceOf(o) = d}

\* nccl_ofi_rdma_connection_info_t: ids and endpoint of the side that sends it.
ConnInfo(local, remote, ep) == [local_comm_id |-> local, remote_comm_id |-> remote, ep |-> ep]

NoComm == [state |-> "none", id |-> None, remote |-> None, ep |-> None, peer |-> None,
           conn_msg |-> None]

Init ==
    /\ endpoint_per_communicator \in BOOLEAN
    /\ from \in [Conns -> Devices] /\ to \in [Conns -> Devices]
    /\ \A c \in Conns : from[c] # to[c]
    /\ comm_idpool = [d \in Devices |-> Ids]
    /\ comms = [d \in Devices |-> [i \in Ids |-> None]]
    /\ comm = [o \in Comms |-> NoComm]
    /\ endpoint_table = [d \in Devices |-> None]
    /\ ep_addr_list = [d \in Devices |-> <<>>]
    /\ ref_cnt = <<>> /\ live = {}
    /\ handle = [c \in Conns |-> None]
    /\ stage = [o \in {"L", "S"} \X Conns |-> "CREATE_START"]
    /\ req = [o \in {"L", "S"} \X Conns |-> None]
    /\ conn_resp_req = [c \in Conns |-> None]
    /\ send_close_req = [c \in Conns |-> None]
    /\ received_close_message = [c \in Conns |-> FALSE]
    /\ num_open_comms = [d \in Devices |-> 0]
    /\ in_close = [d \in Devices |-> FALSE]
    /\ net = {} /\ cq = {}

-----------------------------------------------------------------------------
(* Endpoints and ids.  An endpoint is <<device, number>>, and its number is *)
(* never used again: a new endpoint has a new address.                      *)

NewEp(d) == <<d, Cardinality({e \in DOMAIN ref_cnt : e[1] = d}) + 1>>

\* nccl_net_ofi_device_get_ep: the endpoint of this thread, or a new one.
BaseEp(d) == IF endpoint_table[d] = None THEN NewEp(d) ELSE endpoint_table[d]

GetEp(d) ==
    LET e == BaseEp(d) IN
    /\ endpoint_table' = [endpoint_table EXCEPT ![d] = e]
    /\ ref_cnt' = IF e \in live THEN [ref_cnt EXCEPT ![e] = @ + 1] ELSE (e :> 1) @@ ref_cnt
    /\ live' = live \cup {e}
    /\ UNCHANGED ep_addr_list

\* n calls of nccl_net_ofi_rdma_endpoint_release: the last reference frees it.
ReleaseTimes(e, n) ==
    LET d == e[1]
        gone == ref_cnt[e] \in 1..n
    IN  /\ ref_cnt' = [ref_cnt EXCEPT ![e] = @ - n]
        /\ live' = IF gone THEN live \ {e} ELSE live
        /\ endpoint_table' = IF gone /\ endpoint_table[d] = e
                             THEN [endpoint_table EXCEPT ![d] = None] ELSE endpoint_table
        /\ ep_addr_list' = IF gone
                           THEN [ep_addr_list EXCEPT ![d] = SelectSeq(@, LAMBDA p : p.ep # e)]
                           ELSE ep_addr_list

Release(e) == ReleaseTimes(e, 1)

\* nccl_ofi_ep_addr_list_get: places of the endpoints not yet connected to addr.
Usable(d, addr) == {i \in 1..Len(ep_addr_list[d]) : addr \notin ep_addr_list[d][i].addrs}

\* prepare_recv_comm's endpoint: the first usable one of the list, or a new one,
\* which is entered but not counted yet; the listener's without the parameter.
RecvEp(d, addr, l_ep) ==
    IF ~endpoint_per_communicator THEN l_ep
    ELSE IF Usable(d, addr) = {} THEN NewEp(d)
    ELSE ep_addr_list[d][Min(Usable(d, addr))].ep

PickRecvEp(d, addr) ==
    IF ~endpoint_per_communicator THEN UNCHANGED endpoints
    ELSE /\ IF Usable(d, addr) = {}
            THEN LET e == NewEp(d) IN
                 /\ ep_addr_list' = [ep_addr_list EXCEPT ![d] = Append(@, [ep |-> e, addrs |-> {addr}])]
                 /\ ref_cnt' = (e :> 0) @@ ref_cnt
                 /\ live' = live \cup {e}
            ELSE /\ ep_addr_list' = [ep_addr_list EXCEPT ![d][Min(Usable(d, addr))].addrs = @ \cup {addr}]
                 /\ UNCHANGED <<ref_cnt, live>>
         /\ UNCHANGED endpoint_table

\* nccl_ofi_idpool_allocate_id: the lowest id that is free.
NextId(d) == Min(comm_idpool[d])

\* A new communicator under that id, in the table of its device.
Enter(o, remote, ep, peer, msg) ==
    LET d == DeviceOf(o) IN
    /\ comm_idpool[d] # {}
    /\ comm_idpool' = [comm_idpool EXCEPT ![d] = @ \ {NextId(d)}]
    /\ comms' = [comms EXCEPT ![d][NextId(d)] = o]
    /\ comm' = [comm EXCEPT ![o] = [state |-> "open", id |-> NextId(d), remote |-> remote,
                                    ep |-> ep, peer |-> peer, conn_msg |-> msg]]

\* Frees a communicator and its id; the table is cleared unless it is a listen
\* communicator, whose entry listen_close leaves as it is.
Leave(o) ==
    LET d == DeviceOf(o) IN
    /\ comm' = [comm EXCEPT ![o] = [NoComm EXCEPT !.state = "freed"]]
    /\ comm_idpool' = [comm_idpool EXCEPT ![d] = @ \cup {comm[o].id}]
    /\ comms' = IF o[1] = "L" THEN comms ELSE [comms EXCEPT ![d][comm[o].id] = None]

Accepting(d) == \E c \in Conns : to[c] = d /\ stage[<<"L", c>>] = "PREPARED"

\* Whether NCCL may make a call on the device: one thread makes one at a time.
Idle(d) == OneThread => ~in_close[d] /\ ~Accepting(d)

-----------------------------------------------------------------------------
(* The listening side.                                                      *)

\* listen(), with the get_ep of nccl_net_ofi_listen.
Listen(c) ==
    LET o == <<"L", c>>
        d == to[c]
    IN  /\ comm[o].state = "none" /\ Idle(d)
        /\ GetEp(d)
        /\ Enter(o, None, BaseEp(d), None, None)
        /\ handle' = [handle EXCEPT ![c] = [comm_id |-> NextId(d), ep |-> BaseEp(d)]]
        /\ req' = [req EXCEPT ![o] = "PENDING"]
        /\ UNCHANGED <<config, stage, conn_resp_req, finish, net, cq>>

\* accept() up to prepare_recv_comm: the connect message has come.  The stages before
\* this one only follow each other.
AcceptPrepare(c) ==
    LET o == <<"L", c>>
        d == to[c]
        m == comm[o].conn_msg
    IN  /\ comm[o].state = "open" /\ Idle(d)
        /\ stage[o] = "CREATE_START" /\ req[o] = "COMPLETED"
        /\ PickRecvEp(d, m.ep)
        /\ Enter(<<"R", c>>, m.local_comm_id, RecvEp(d, m.ep, comm[o].ep), m.ep, None)
        /\ stage' = [stage EXCEPT ![o] = "PREPARED"]
        /\ UNCHANGED <<config, handle, req, conn_resp_req, finish, net, cq>>

\* The rest of the stage: accept() takes the device's lock to count the new
\* communicator, n times, then writes the response over the connect message.
AcceptCounted(c, n) ==
    LET o == <<"L", c>>
        r == comm[<<"R", c>>]
    IN  /\ stage[o] = "PREPARED"
        /\ ref_cnt' = [ref_cnt EXCEPT ![r.ep] = @ + n]
        /\ req' = [req EXCEPT ![o] = "CREATED"]
        /\ comm' = [comm EXCEPT ![o].conn_msg = ConnInfo(r.id, r.remote, r.ep)]
        /\ stage' = [stage EXCEPT ![o] = "SEND_CONN"]
        /\ UNCHANGED <<config, ids, endpoint_table, ep_addr_list, live,
                       handle, conn_resp_req, finish, net, cq>>

\* accept() that relies on the reference of the listen communicator.
AcceptNoRef(c) == AcceptCounted(c, 0)

AcceptRef(c) == AcceptCounted(c, 1)

\* post_send_conn_resp; a post refused with EAGAIN changes nothing, the next call
\* of accept() tries again.
AcceptSend(c) ==
    LET o == <<"L", c>>
        m == comm[o].conn_msg
        r == comm[<<"R", c>>]
    IN  /\ stage[o] = "SEND_CONN" /\ Idle(to[c])
        /\ net' = net \cup {[type |-> "CONN_RESP", conn |-> c, to |-> r.peer,
                             local_comm_id |-> m.local_comm_id, remote_comm_id |-> m.remote_comm_id,
                             ep |-> m.ep]}
        /\ cq' = cq \cup {<<"CONN_RESP", c>>}
        /\ req' = [req EXCEPT ![o] = "PENDING"]
        /\ stage' = [stage EXCEPT ![o] = "CONN_RESP_REQ_PENDING"]
        /\ UNCHANGED <<config, ids, comm, endpoints, handle, conn_resp_req, finish>>

\* accept() once the response is sent, with n more communicators open.  Their number
\* has the lock that comm_close_handler holds.
AcceptReturns(c, n) ==
    LET o == <<"L", c>>
        d == to[c]
    IN  /\ stage[o] = "CONN_RESP_REQ_PENDING" /\ req[o] = "COMPLETED"
        /\ Idle(d) /\ ~in_close[d]
        /\ stage' = [stage EXCEPT ![o] = "CONNECTED"]
        /\ num_open_comms' = [num_open_comms EXCEPT ![d] = @ + n]
        /\ UNCHANGED <<config, ids, comm, endpoints, handle, req, conn_resp_req,
                       send_close_req, received_close_message, in_close, net, cq>>

AcceptFinish(c) == AcceptReturns(c, 1)

\* listen_close(), which NCCL calls when it has the receive communicator.
ListenClose(c) ==
    LET o == <<"L", c>> IN
    /\ comm[o].state = "open" /\ stage[o] = "CONNECTED" /\ Idle(to[c])
    /\ Leave(o)
    /\ Release(comm[o].ep)
    /\ UNCHANGED <<config, setup, finish, net, cq>>

-----------------------------------------------------------------------------
(* The connecting side.                                                     *)

\* connect(), COMM_CREATE_START, with the get_ep of nccl_net_ofi_connect.  The name and
\* the id in the handle are not read again.
ConnectStart(c) ==
    LET o == <<"S", c>>
        d == from[c]
    IN  /\ handle[c] # None /\ comm[o].state = "none" /\ Idle(d)
        /\ GetEp(d)
        /\ Enter(o, handle[c].comm_id, BaseEp(d), handle[c].ep,
                 ConnInfo(NextId(d), handle[c].comm_id, BaseEp(d)))
        /\ req' = [req EXCEPT ![o] = "CREATED"]
        /\ conn_resp_req' = [conn_resp_req EXCEPT ![c] = "CREATED"]
        /\ stage' = [stage EXCEPT ![o] = "SEND_CONN"]
        /\ handle' = [handle EXCEPT ![c] = None]
        /\ UNCHANGED <<config, finish, net, cq>>

\* create_send_comm that keeps its id when it fails.
IdAfterErrorKept(d) == comm_idpool[d] \ {NextId(d)}

\* The error path of create_send_comm gives the id back.
IdAfterError(d) == comm_idpool[d]

\* create_send_comm fails once the communicator is in the table, which is left as it is,
\* and nccl_net_ofi_connect releases the endpoint; an endpoint made for this call is
\* freed again before anyone has heard of it.  The handle is as it was: NCCL may call
\* connect() again, which may fail any number of times.
ConnectStartFails(c) ==
    LET d == from[c] IN
    /\ handle[c] # None /\ comm[<<"S", c>>].state = "none" /\ Idle(d) /\ comm_idpool[d] # {}
    /\ comms' = [comms EXCEPT ![d][NextId(d)] = <<"S", c>>]
    /\ comm_idpool' = [comm_idpool EXCEPT ![d] = IdAfterError(d)]
    /\ UNCHANGED <<config, comm, endpoints, setup, finish, net, cq>>

\* post_send_conn; EAGAIN changes nothing, the next call of connect() tries again.
ConnectSend(c) ==
    LET o == <<"S", c>>
        m == comm[o].conn_msg
    IN  /\ comm[o].state = "open" /\ stage[o] = "SEND_CONN" /\ Idle(from[c])
        /\ net' = net \cup {[type |-> "CONN", conn |-> c, to |-> comm[o].peer,
                             local_comm_id |-> m.local_comm_id, remote_comm_id |-> m.remote_comm_id,
                             ep |-> m.ep]}
        /\ cq' = cq \cup {<<"CONN", c>>}
        /\ stage' = [stage EXCEPT ![o] = "CONN_REQ_PENDING"]
        /\ UNCHANGED <<config, ids, comm, endpoints, handle, req, conn_resp_req, finish>>

\* connect(), from COMM_CONN_REQ_PENDING to the end: the connect message is sent and the
\* response has come.  finish_connect then takes remote for the id of the peer.
ConnectWith(c, remote) ==
    LET o == <<"S", c>>
        d == from[c]
    IN  /\ stage[o] = "CONN_REQ_PENDING" /\ req[o] = "COMPLETED" /\ conn_resp_req[c] = "COMPLETED"
        /\ Idle(d) /\ ~in_close[d]
        /\ comm' = [comm EXCEPT ![o].remote = remote, ![o].peer = comm[o].conn_msg.ep]
        /\ req' = [req EXCEPT ![o] = None]
        /\ conn_resp_req' = [conn_resp_req EXCEPT ![c] = None]
        /\ stage' = [stage EXCEPT ![o] = "CONNECTED"]
        /\ num_open_comms' = [num_open_comms EXCEPT ![d] = @ + 1]
        /\ UNCHANGED <<config, ids, endpoints, handle,
                       send_close_req, received_close_message, in_close, net, cq>>

\* finish_connect that keeps the id of the handle.
ConnectKeepsId(c) == ConnectWith(c, comm[<<"S", c>>].remote)

ConnectFinish(c) == ConnectWith(c, comm[<<"S", c>>].conn_msg.local_comm_id)

-----------------------------------------------------------------------------
(* Closing, and the messages.                                               *)

\* recv_close_deferred and send_close_deferred, up to comm_close_handler.
Close(o) ==
    LET d == DeviceOf(o)
        s == IF o[1] = "S" THEN o ELSE <<"L", o[2]>>
    IN  /\ o[1] # "L" /\ comm[o].state = "open" /\ stage[s] = "CONNECTED"
        /\ Idle(d) /\ ~in_close[d]
        /\ comm' = [comm EXCEPT ![o].state = "closing"]
        /\ num_open_comms' = [num_open_comms EXCEPT ![d] = @ - 1]
        /\ in_close' = [in_close EXCEPT ![d] = TRUE]
        /\ UNCHANGED <<config, ids, endpoints, setup, send_close_req,
                       received_close_message, net, cq>>

\* comm_close_handler returns: always after a round when communicators are open,
\* else when none is left on its lists.
CloseReturn(d) ==
    /\ in_close[d]
    /\ num_open_comms[d] > 0 \/ \A o \in CommsOf(d) : comm[o].state # "closing"
    /\ in_close' = [in_close EXCEPT ![d] = FALSE]
    /\ UNCHANGED <<config, ids, comm, endpoints, setup, send_close_req,
                   received_close_message, num_open_comms, net, cq>>

\* recv_comm_process_all_finalizing, the close message.
SendCloseMsg(c) ==
    LET r == comm[<<"R", c>>] IN
    /\ in_close[to[c]] /\ r.state = "closing" /\ send_close_req[c] = None
    /\ send_close_req' = [send_close_req EXCEPT ![c] = "PENDING"]
    /\ net' = net \cup {[type |-> "CLOSE", conn |-> c, to |-> r.peer, remote_comm_id |-> r.remote]}
    /\ cq' = cq \cup {<<"CLOSE", c>>}
    /\ UNCHANGED <<config, ids, comm, endpoints, setup,
                   received_close_message, num_open_comms, in_close>>

\* recv_comm_process_all_finalizing, recv_comm_destroy.
RecvDestroy(c) ==
    LET o == <<"R", c>> IN
    /\ in_close[to[c]] /\ comm[o].state = "closing" /\ send_close_req[c] = "COMPLETED"
    /\ Leave(o)
    /\ Release(comm[o].ep)
    /\ UNCHANGED <<config, setup, finish, net, cq>>

\* send_comm_process_all_finalizing that does not wait for the close message.
SendDestroyEarly(c) ==
    LET o == <<"S", c>> IN
    /\ in_close[from[c]] /\ comm[o].state = "closing"
    /\ Leave(o)
    /\ Release(comm[o].ep)
    /\ UNCHANGED <<config, setup, finish, net, cq>>

\* send_comm_process_all_finalizing, send_comm_destroy.
SendDestroy(c) ==
    LET o == <<"S", c>> IN
    /\ in_close[from[c]] /\ comm[o].state = "closing" /\ received_close_message[c]
    /\ Leave(o)
    /\ Release(comm[o].ep)
    /\ UNCHANGED <<config, setup, finish, net, cq>>

\* The communicator that a handler finds for a message.
Target(m) == comms[m.to[1]][m.remote_comm_id]

\* handle_bounce_recv that keeps a connect message but does not complete the request.
HandleConnSilent(m) ==
    /\ m.type = "CONN"
    /\ comm' = [comm EXCEPT ![Target(m)].conn_msg = ConnInfo(m.local_comm_id, m.remote_comm_id, m.ep)]
    /\ UNCHANGED <<req, conn_resp_req, received_close_message>>

\* handle_bounce_recv of a connect message.
HandleConn(m) ==
    /\ m.type = "CONN"
    /\ comm' = [comm EXCEPT ![Target(m)].conn_msg = ConnInfo(m.local_comm_id, m.remote_comm_id, m.ep)]
    /\ req' = [req EXCEPT ![Target(m)] = "COMPLETED"]
    /\ UNCHANGED <<conn_resp_req, received_close_message>>

\* handle_bounce_recv of a connect response.
HandleConnResp(m) ==
    /\ m.type = "CONN_RESP"
    /\ comm' = [comm EXCEPT ![Target(m)].conn_msg = ConnInfo(m.local_comm_id, m.remote_comm_id, m.ep)]
    /\ conn_resp_req' = [conn_resp_req EXCEPT ![Target(m)[2]] = "COMPLETED"]
    /\ UNCHANGED <<req, received_close_message>>

\* handle_close_msg_recv.
HandleClose(m) ==
    /\ m.type = "CLOSE"
    /\ received_close_message' = [received_close_message EXCEPT ![Target(m)[2]] = TRUE]
    /\ UNCHANGED <<comm, req, conn_resp_req>>

Handle ==
    \E m \in net :
        /\ net' = net \ {m}
        /\ HandleConn(m) \/ HandleConnResp(m) \/ HandleClose(m)
        /\ UNCHANGED <<config, ids, endpoints, handle, stage,
                       send_close_req, num_open_comms, in_close, cq>>

\* Completions of the three sends.
SendCompletion ==
    \E x \in cq :
        /\ cq' = cq \ {x}
        /\ \/ x[1] = "CONN" /\ req' = [req EXCEPT ![<<"S", x[2]>>] = "COMPLETED"] /\ UNCHANGED send_close_req
           \/ x[1] = "CONN_RESP" /\ req' = [req EXCEPT ![<<"L", x[2]>>] = "COMPLETED"] /\ UNCHANGED send_close_req
           \/ x[1] = "CLOSE" /\ send_close_req' = [send_close_req EXCEPT ![x[2]] = "COMPLETED"] /\ UNCHANGED req
        /\ UNCHANGED <<config, ids, comm, endpoints, handle, stage, conn_resp_req, received_close_message, num_open_comms, in_close, net>>

Step ==
    \/ \E c \in Conns :
          \/ Listen(c) \/ AcceptPrepare(c) \/ AcceptRef(c) \/ AcceptSend(c) \/ AcceptFinish(c)
          \/ ListenClose(c)
          \/ ConnectStart(c) \/ ConnectSend(c) \/ ConnectFinish(c)
          \/ SendCloseMsg(c) \/ RecvDestroy(c) \/ SendDestroy(c)
    \/ \E o \in Comms : Close(o)
    \/ \E d \in Devices : CloseReturn(d)
    \/ Handle \/ SendCompletion

Next == Step \/ \E c \in Conns : ConnectStartFails(c)

Spec == Init /\ [][Next]_vars

-----------------------------------------------------------------------------

Alive(o) == comm[o].state \in {"open", "closing"}

\* The type invariant.
TypeOK ==
    /\ endpoint_per_communicator \in BOOLEAN
    /\ comm_idpool \in [Devices -> SUBSET Ids]
    /\ comms \in [Devices -> [Ids -> Comms \cup {None}]]
    /\ \A o \in Comms : /\ comm[o].state \in {"none", "open", "closing", "freed"}
                        /\ comm[o].id \in Ids \cup {None} /\ comm[o].remote \in Ids \cup {None}
                        /\ comm[o].ep \in DOMAIN ref_cnt \cup {None}
    /\ live \subseteq DOMAIN ref_cnt
    /\ \A e \in DOMAIN ref_cnt : ref_cnt[e] \in Nat
    /\ \A d \in Devices : num_open_comms[d] \in Nat
    /\ in_close \in [Devices -> BOOLEAN]

\* A message on its way arrives at an endpoint that exists, finds by its id the
\* communicator it was meant for, of the kind its handler casts it to, and a request
\* that waits for it: although ids and table entries are used again as communicators
\* come and go.
FindsItsComm ==
    /\ TypeOK
    /\ \A m \in net :
           LET o == <<CASE m.type = "CONN" -> "L" [] OTHER -> "S", m.conn>> IN
           /\ m.to \in live
           /\ Target(m) = o /\ Alive(o)
           /\ m.type = "CONN" => req[o] = "PENDING"
           /\ m.type = "CONN_RESP" => conn_resp_req[m.conn] # None

\* The two communicators of a connection name each other, by id and by endpoint, from
\* the time both have been returned to NCCL until one is destroyed: what is sent over
\* one connection does not end up in another.
PeersAgree ==
    \A c \in Conns :
        LET s == comm[<<"S", c>>]
            r == comm[<<"R", c>>]
        IN  stage[<<"S", c>>] = "CONNECTED" /\ Alive(<<"S", c>>) /\ Alive(<<"R", c>>)
            => s.remote = r.id /\ r.remote = s.id /\ s.peer = r.ep /\ r.peer = s.ep

\* An id is taken exactly as long as one communicator of the device has it: it is
\* neither lost nor given to two.
IdsOwned ==
    \A d \in Devices : \A i \in Ids :
        Cardinality({o \in CommsOf(d) : Alive(o) /\ comm[o].id = i})
            = IF i \in comm_idpool[d] THEN 0 ELSE 1

\* Users of an endpoint that have been counted.
Users(e) == {o \in Comms : /\ Alive(o) /\ comm[o].ep = e
                           /\ o[1] = "R" => stage[<<"L", o[2]>>] # "PREPARED"}

\* With endpoint_per_communicator, no two receive communicators on one endpoint are
\* connected to the same remote endpoint.
AddressesDistinct ==
    endpoint_per_communicator =>
        \A b, c \in Conns :
            LET q == comm[<<"R", b>>]
                r == comm[<<"R", c>>]
            IN  b # c /\ Alive(<<"R", b>>) /\ Alive(<<"R", c>>) => <<q.ep, q.peer>> # <<r.ep, r.peer>>

\* Every communicator has its reference, and no more: the count of an endpoint is the
\* number of communicators on it, and the endpoint of a communicator has not been freed.
\* Receive communicators share an endpoint only if their peers differ.
EndpointCounted ==
    /\ \A e \in live : ref_cnt[e] = Cardinality(Users(e))
    /\ \A o \in Comms : Alive(o) => comm[o].ep \in live
    /\ AddressesDistinct

\* A process waits in comm_close_handler, by its count for the last of its
\* communicators, while accept() has still to return one.
HastyClose(d) ==
    in_close[d] /\ \E c \in Conns : to[c] = d /\ comm[<<"L", c>>].state = "open"
                                              /\ stage[<<"L", c>>] # "CONNECTED"

\* NCCL opens every connection, calls connect() and accept() until they are through and
\* closes what it has opened.  The system comes to rest only when everything is closed
\* and nothing is left behind: no communicator, no id in use, no endpoint, no call that
\* waits in comm_close_handler for a peer that waits itself.  (No step but a connect()
\* that fails can be taken twice, so it comes to rest if they do not fail for ever.)
\* The exception are peers that both close their last open communicator too early, with
\* a connection half accepted: they wait for each other.
NothingLeftBehind ==
    \/ ENABLED Step
    \/ \A d \in Devices : HastyClose(d)
    \/ /\ \A o \in Comms : comm[o].state = "freed"
       /\ \A d \in Devices : comm_idpool[d] = Ids /\ ~in_close[d] /\ ep_addr_list[d] = <<>>
       /\ live = {}

\* The comment of accept(): the endpoint of a receive communicator is not freed before
\* the communicator is closed.
EndpointKept ==
    \A c \in Conns : Alive(<<"R", c>>) => comm[<<"R", c>>].ep \in live
=============================================================================
