------------------------------- MODULE Plugin -------------------------------
(***************************************************************************)
(* Start-up of the plugin, its devices and endpoints, and its end          *)
(* (nccl_net_ofi_create_plugin and the devices of src/src/nccl_ofi_net.c,  *)
(* the init functions, devices and endpoints of nccl_ofi_rdma.c and        *)
(* nccl_ofi_sendrecv.c, nccl_ofi_ofiutils.c, platform-aws.c).              *)
(*                                                                         *)
(* The thread that calls nccl_net_ofi_init goes through the stages of      *)
(* variable stage.  When the plugin is up, threads take endpoints with     *)
(* get_ep (listen, connect), give them back with release_ep (the close     *)
(* functions), and, with endpoint_per_communicator, create endpoints in    *)
(* accept().  The libfabric objects that are open are in variable open:    *)
(* fi_close of an object another open one uses returns -FI_EBUSY and does  *)
(* nothing.  An address vector comes and goes with its libfabric endpoint. *)
(*                                                                         *)
(* A setup is the environment of a process: parameters, platform, what     *)
(* fi_getinfo finds, the hardware topology, the answers of endpoint        *)
(* options, the number of calls that may fail (fails), the number of       *)
(* endpoints made and the number of references to one.  CUDA is in use,    *)
(* and the rails of an endpoint give the same answers until one is refused.*)
(***************************************************************************)
EXTENDS Topology, Providers

CONSTANTS Threads, Setups,
          MaxNumRails,   \* MAX_NUM_RAILS
          None

VARIABLES
    setup, fails, stage,
    selected,                       \* nccl_ofi_selected_protocol, or "none"
    plugins,                        \* of each protocol: "none", "made" or "freed"
    provider_list, info_lists,      \* infos of sendrecv; groups of rdma, by device
    domain_per_thread, nic_dup_conns,
    num_devs,                       \* devices made so far
    eps,                            \* all endpoints ever made
    device_lock, stuck,             \* owner of each lock; threads that wait for their own
    open, again,                    \* again: an object has been closed twice
    support_gdr, reported,          \* reported: support_gdr when NCCL was told of it
    api_1_18,                       \* the infos are those of API 1.18 or later
    nccl_proto_configured, need_ordering

choice == <<selected, plugins, provider_list, info_lists, domain_per_thread, nic_dup_conns, api_1_18>>
options == <<support_gdr, nccl_proto_configured, need_ordering>>
objects == <<open, again>>
threads == <<eps, device_lock, stuck>>
vars == <<setup, fails, stage, choice, num_devs, threads, objects, options, reported>>

rdma == selected = "RDMA"
Devices == 1..num_devs
Rails(d) == IF rdma THEN 1..Len(info_lists[d]) ELSE {1}
epc == rdma /\ setup.endpoint_per_communicator

Init ==
    /\ setup \in Setups /\ fails = setup.fails
    /\ stage = "platform" /\ selected = "none"
    /\ plugins = [p \in {"RDMA", "SENDRECV"} |-> "none"]
    /\ provider_list = <<>> /\ info_lists = <<>>
    /\ domain_per_thread = FALSE /\ nic_dup_conns = setup.nic_dup_conns
    /\ num_devs = 0 /\ eps = <<>>
    /\ device_lock = <<>> /\ stuck = {}
    /\ open = {} /\ again = FALSE
    /\ support_gdr = "UNKNOWN" /\ reported = "UNKNOWN" /\ api_1_18 = FALSE
    /\ nccl_proto_configured = FALSE /\ need_ordering = FALSE

\* A call that may fail does.
Fault == fails > 0 /\ fails' = fails - 1

Fail == stage' = "failed"

-----------------------------------------------------------------------------
(* Choice of the protocol. *)

\* The protocol of the platform is taken only if the EFA provider may be used.
PlatformProtocol ==
    IF setup.aws /\ setup.fi_provider \in {"unset", "efa"} THEN setup.platform.protocol ELSE "none"

\* platform_init, and the choice of the user, which goes first.
PlatformInit ==
    /\ stage = "platform"
    /\ \/ Fault /\ Fail /\ UNCHANGED <<selected, nic_dup_conns>>
       \/ /\ stage' = "init"
          /\ selected' = IF setup.protocol # "none" THEN setup.protocol ELSE PlatformProtocol
          /\ nic_dup_conns' = IF setup.nic_dup_conns = 0 /\ setup.aws
                              THEN setup.platform.default_dup_conns ELSE setup.nic_dup_conns
          /\ UNCHANGED fails
    /\ UNCHANGED <<setup, plugins, provider_list, info_lists, domain_per_thread, api_1_18, num_devs,
                   threads, objects, options, reported>>

Filter == IF setup.aws /\ setup.fi_provider = "unset" THEN {"efa"} ELSE {}
Found == GetProviders(Filter, setup.infos)

\* The topology, in which the NICs are those of the infos found.
Topo == [setup.topo EXCEPT !.kind = [n \in DOMAIN @ |->
            IF @[n] = "nic" /\ \A i \in 1..Len(Found) : Found[i].node # n THEN "other" ELSE @[n]]]

\* The checks of nccl_net_ofi_rdma_init that do not depend on calls that may fail.
RdmaUsable ==
    /\ "rdma" \in setup.finds /\ Found # <<>>
    /\ ~setup.endpoint_mr                                  \* query_provider_capabilities
    /\ setup.eager_max_size <= setup.min_stripe_size
    /\ MaxGroupSize(Topo) \in 1..MaxNumRails

\* nccl_net_ofi_rdma_init, and where create_plugin goes from there.
RdmaInit ==
    /\ stage = "init" /\ selected \in {"none", "RDMA"}
    /\ \/ /\ RdmaUsable
          /\ plugins' = [plugins EXCEPT !["RDMA"] = "made"]
          /\ info_lists' = InfoLists(Topo)
          /\ stage' = IF rdma THEN "domain"
                      ELSE IF MaxGroupSize(Topo) > 1 THEN "choose" ELSE "sendrecv"
          /\ UNCHANGED fails
       \/ /\ IF RdmaUsable THEN Fault ELSE UNCHANGED fails
          /\ stage' = IF rdma THEN "failed" ELSE "sendrecv"
          /\ UNCHANGED <<plugins, info_lists>>
    /\ IF "rdma" \in setup.finds /\ Found # <<>>
       THEN support_gdr' = "UNKNOWN" /\ api_1_18' = TRUE
       ELSE UNCHANGED <<support_gdr, api_1_18>>
    /\ UNCHANGED <<setup, selected, provider_list, domain_per_thread, nic_dup_conns, num_devs, threads,
                   objects, nccl_proto_configured, need_ordering, reported>>

\* The calls of fi_getinfo that find infos, in the order sendrecv_init tries them.
Hits == SelectSeq(Attempts(setup.dmabuf_viable), LAMBDA a : a[1] \in setup.finds)

SendrecvInit ==
    /\ stage = "sendrecv" \/ (stage = "init" /\ selected = "SENDRECV")
    /\ LET usable == Hits # <<>> /\ Found # <<>>
       IN  /\ IF usable
              THEN support_gdr' = Hits[1][2] /\ api_1_18' = (Hits[1][1] \in {"1.20", "1.18"})
              ELSE UNCHANGED <<support_gdr, api_1_18>>
           /\ \/ /\ usable
                 /\ plugins' = [plugins EXCEPT !["SENDRECV"] = "made"]
                 /\ provider_list' = DupConns(Found, nic_dup_conns)
                 /\ stage' = IF selected = "none" THEN "choose" ELSE "domain"
                 /\ UNCHANGED fails
              \/ /\ IF usable THEN Fault ELSE UNCHANGED fails
                 /\ stage' = IF selected = "none" THEN "choose" ELSE "failed"
                 /\ UNCHANGED <<plugins, provider_list>>
    /\ UNCHANGED <<setup, selected, info_lists, domain_per_thread, nic_dup_conns, num_devs, threads,
                   objects, nccl_proto_configured, need_ordering, reported>>

\* The protocol selected is neither.
UnknownProtocol ==
    /\ stage = "init" /\ selected \notin {"none", "RDMA", "SENDRECV"}
    /\ Fail
    /\ UNCHANGED <<setup, fails, choice, num_devs, threads, objects, options, reported>>

\* have_multiple_rails decides.
Chosen ==
    IF plugins["RDMA"] = "made" /\ MaxGroupSize(Topo) > 1 THEN "RDMA" ELSE "SENDRECV"

\* release_plugin of the plugin not chosen, which has no devices yet.
ReleaseUnused(p) == [q \in DOMAIN p |-> IF q # Chosen /\ p[q] = "made" THEN "freed" ELSE p[q]]

Choose ==
    /\ stage = "choose"
    /\ selected' = Chosen
    /\ plugins' = ReleaseUnused(plugins)
    /\ stage' = IF plugins[Chosen] = "made" THEN "domain" ELSE "failed"
    /\ UNCHANGED <<setup, fails, provider_list, info_lists, domain_per_thread, nic_dup_conns, api_1_18,
                   num_devs, threads, objects, options, reported>>

\* domain_per_thread, and the first check of nccl_net_ofi_rdma_plugin_complete_init.
SetDomain ==
    /\ stage = "domain"
    /\ domain_per_thread' = IF setup.domain_per_thread # -1 THEN setup.domain_per_thread > 0
                            ELSE setup.aws /\ setup.platform.domain_per_thread
    /\ stage' = IF epc /\ domain_per_thread' THEN "failed" ELSE "complete"
    /\ UNCHANGED <<setup, fails, selected, plugins, provider_list, info_lists, nic_dup_conns, api_1_18,
                   num_devs, threads, objects, options, reported>>

-----------------------------------------------------------------------------
(* Libfabric objects.  Number 0 stands for the device, others for one of   *)
(* its endpoints; part 1 is a rail, part 2 a control rail.                 *)

Fabric(d, r) == <<"fabric", d, r, 0, 0>>
Domain(d, r, e, p) == IF domain_per_thread THEN <<"domain", d, r, e, p>> ELSE <<"domain", d, r, 0, 0>>
Cq(d, r, e) == IF epc THEN <<"cq", d, r, 0, 0>> ELSE <<"cq", d, r, e, 1>>
Ep(d, r, e, p) == <<"ep", d, r, e, p>>

\* What an object cannot be without; a control rail uses the queue of its rail.
Needs(o) ==
    LET d == o[2]  r == o[3]  e == o[4]
    IN  CASE o[1] = "fabric" -> {}
          [] o[1] = "domain" -> {Fabric(d, r)}
          [] o[1] = "cq" -> {Domain(d, r, e, 1)}
          [] OTHER -> {Domain(d, r, e, o[5]), Cq(d, r, e)}

\* fi_close, one after the other.
Close(os, from) ==
    LET One(s, o) ==
            IF o \notin s.open THEN [s EXCEPT !.again = TRUE]
            ELSE IF \E u \in s.open : o \in Needs(u) THEN s
            ELSE [s EXCEPT !.open = @ \ {o}]
    IN  FoldLeft(One, from, os)

Opened(os) == [open |-> open \cup Range(os), again |-> again]
Becomes(s) == open' = s.open /\ again' = s.again

Each(f(_), n) == FlattenSeq([i \in 1..n |-> f(i)])

-----------------------------------------------------------------------------
(* Devices. *)

NumDevs == IF rdma THEN Len(info_lists) ELSE Len(provider_list)

\* init_device_rail_ofi_resources, sendrecv_device_prepare_for_connection
RailObjects(d, r) ==
    <<Fabric(d, r)>> \o (IF domain_per_thread THEN <<>> ELSE <<Domain(d, r, 0, 0)>>)
        \o (IF epc THEN <<Cq(d, r, 0)>> ELSE <<>>)

DeviceObjects(d) == LET Of(r) == RailObjects(d, r) IN Each(Of, Cardinality(Rails(d)))

\* release_device_ofi_resources in the order in which the objects have been opened.
ReleaseObjectsForward(d) == DeviceObjects(d)

\* release_device_ofi_resources: the domain goes before the queue that uses it.
ReleaseObjects(d) ==
    LET Of(r) == (IF domain_per_thread THEN <<>> ELSE <<Domain(d, r, 0, 0)>>)
                     \o <<Fabric(d, r)>> \o (IF epc THEN <<Cq(d, r, 0)>> ELSE <<>>)
    IN  Each(Of, Cardinality(Rails(d)))

\* nccl_net_ofi_rdma_device_release; that of sendrecv closes nothing.
DeviceRelease(d) == IF rdma THEN ReleaseObjects(d) ELSE <<>>

\* Object k of a new device cannot be opened: the objects before it are closed, those of
\* its rail by the error path of the rail and, with rdma, the others by the release.
DeviceFails(d, k) ==
    LET made == SubSeq(DeviceObjects(d), 1, k - 1)
        rail == DeviceObjects(d)[k][3]
        mine == Reverse(SelectSeq(made, LAMBDA o : o[3] = rail))
        rest == SelectSeq(DeviceRelease(d), LAMBDA o : o \in Range(made) /\ o[3] # rail)
    IN  Close(mine \o rest, Opened(made))

\* nccl_net_ofi_rdma_device_create: every device has as many rails as the largest group.
RailsMatch(d) == rdma => Len(info_lists[d]) = MaxGroupSize(Topo)

\* nccl_net_ofi_rdma_device_create, nccl_net_ofi_sendrecv_device_create for the next
\* device; complete_init is over after the last one, and returns if there is an error.
CreateDevice ==
    /\ stage = "complete"
    /\ LET d == num_devs + 1 IN
       \/ /\ RailsMatch(d)
          /\ Becomes(Opened(DeviceObjects(d)))
          /\ num_devs' = d /\ device_lock' = Append(device_lock, None)
          /\ stage' = IF d = NumDevs THEN "first_ep" ELSE stage
          /\ UNCHANGED fails
       \/ /\ ~RailsMatch(d)
          /\ Fail
          /\ UNCHANGED <<fails, num_devs, device_lock, objects>>
       \/ /\ RailsMatch(d) /\ Fault /\ Fail
          /\ \E k \in 1..Len(DeviceObjects(d)) : Becomes(DeviceFails(d, k))
          /\ UNCHANGED <<num_devs, device_lock>>
    /\ UNCHANGED <<setup, choice, eps, stuck, options, reported>>

-----------------------------------------------------------------------------
(* Endpoints. *)

NumControlRails(d) == IF setup.rdma_rr_ctrl_msg THEN Cardinality(Rails(d)) ELSE 1

\* Rails and control rails, in the order init_rail_ofi_resources initialises them.
EpRails(d) ==
    [r \in 1..Cardinality(Rails(d)) |-> <<r, 1>>]
        \o (IF rdma THEN [r \in 1..NumControlRails(d) |-> <<r, 2>>] ELSE <<>>)

\* ep_rail_init and nccl_ofi_ofiutils_init_connection: a control rail and, with
\* endpoint_per_communicator, a rail find a completion queue already there.
EpRailObjects(d, e, rp) ==
    (IF domain_per_thread THEN <<Domain(d, rp[1], e, rp[2])>> ELSE <<>>)
        \o (IF rp[2] = 1 /\ ~epc THEN <<Cq(d, rp[1], e)>> ELSE <<>>)
        \o <<Ep(d, rp[1], e, rp[2])>>

EpObjects(d, e) ==
    LET Of(i) == EpRailObjects(d, e, EpRails(d)[i]) IN Each(Of, Len(EpRails(d)))

\* nccl_ofi_ofiutils_ep_release through ep_rail_release of a rail that has its queue.
EpRailReleaseCq(d, e, rp) == <<Ep(d, rp[1], e, rp[2]), Cq(d, rp[1], e)>>

\* ep_rail_release, nccl_net_ofi_sendrecv_endpoint_free: the libfabric endpoint and, for a
\* rail, the queue unless it is the device's.  A domain is never closed.
EpRailRelease(d, e, rp) ==
    <<Ep(d, rp[1], e, rp[2])>> \o (IF rp[2] = 1 /\ ~epc THEN <<Cq(d, rp[1], e)>> ELSE <<>>)

\* release_rdma_ep_resources of the rails in rps, control rails first.
EpRelease(d, e, rps) ==
    LET order == SelectSeq(rps, LAMBDA rp : rp[2] = 2) \o SelectSeq(rps, LAMBDA rp : rp[2] = 1)
        Of(i) == EpRailRelease(d, e, order[i])
    IN  Each(Of, Len(order))

\* The error path of init_connection closes the queue even if it was there before.
ConnectionError(d, e, rp) == <<Ep(d, rp[1], e, rp[2]), Cq(d, rp[1], e)>>

\* Rails that init_rail_ofi_resources has initialised when rail i fails: the failing
\* one has reset its pointers.
GivenUp(i) == i - 1

\* Rail i of a new endpoint fails: without a domain ("domain"), in init_connection
\* ("connection") or in set_local_address ("name").
RailFails(d, e, i, how) ==
    LET rp == EpRails(d)[i]
        before == SubSeq(EpRails(d), 1, GivenUp(i))
        Of(j) == EpRailObjects(d, e, EpRails(d)[j])
        made == Each(Of, i - 1)
        own == IF how = "domain" THEN <<>> ELSE EpRailObjects(d, e, rp)
        undo == CASE how = "domain" -> <<>>
                  [] how = "connection" -> ConnectionError(d, e, rp)
                  [] OTHER -> EpRailRelease(d, e, rp) \o
                              (IF rp[2] = 2 /\ ~epc THEN <<Cq(d, rp[1], e)>> ELSE <<>>)
        rest == IF rdma THEN EpRelease(d, e, before) ELSE <<>>
    IN  Close(undo \o rest, Opened(made \o own))

\* Where the creation of an endpoint may fail; "bounce" is after all rails are made.
Failures(d) ==
    {<<i, how>> : i \in 1..Len(EpRails(d)),
        how \in {"connection"} \cup (IF domain_per_thread THEN {"domain"} ELSE {})
                    \cup (IF rdma THEN {"name"} ELSE {})}
        \cup (IF rdma THEN {<<0, "bounce">>} ELSE {})

EpFails(d, e, f) ==
    IF f[2] = "bounce" THEN Opened(EpObjects(d, e)) ELSE RailFails(d, e, f[1], f[2])

\* GDR support after FI_OPT_CUDA_API_PERMITTED has been answered, whatever it was before.
GdrForgets(cuda) ==
    IF ~api_1_18 \/ support_gdr = "UNSUPPORTED" THEN [level |-> support_gdr, ok |-> TRUE]
    ELSE [level |-> IF cuda = "ok" THEN "SUPPORTED" ELSE "UNSUPPORTED", ok |-> TRUE]

\* GDR support after FI_OPT_CUDA_API_PERMITTED has been answered (init_connection): it is
\* an error to lose what has been there.
Gdr(cuda) ==
    IF ~api_1_18 \/ support_gdr = "UNSUPPORTED" THEN [level |-> support_gdr, ok |-> TRUE]
    ELSE IF cuda = "ok" THEN [level |-> "SUPPORTED", ok |-> TRUE]
    ELSE IF support_gdr = "SUPPORTED" THEN [level |-> support_gdr, ok |-> FALSE]
    ELSE [level |-> "UNSUPPORTED", ok |-> TRUE]

\* The checks of platform_config_endpoint before the ordering: GDR where the platform
\* needs it, and writes that are not emulated.
EndpointChecked(gdr) ==
    /\ setup.platform.gdr_required => gdr = "SUPPORTED"
    /\ rdma => setup.native_write

\* The ordering of platform_config_endpoint: the first endpoint decides whether ordering
\* is needed, and then every endpoint must have it.
Ordering(order) ==
    LET configured == nccl_proto_configured \/ (rdma /\ setup.platform.skip_proto)
        tries == need_ordering \/ ~configured
        have == tries /\ order = "ok"
    IN  [need |-> IF configured THEN need_ordering ELSE have,
         configured |-> TRUE, ordered |-> have, ok |-> ~(need_ordering /\ ~have)]

\* platform_config_endpoint, which only looks at EFA endpoints on AWS.
Configured(cuda, order) ==
    LET gdr == Gdr(cuda)
        on == setup.aws /\ Found[1].prov = "efa"
        reached == gdr.ok /\ (on => EndpointChecked(gdr.level))
        o == Ordering(order)
    IN  IF on /\ reached
        THEN [gdr |-> gdr.level, need |-> o.need, configured |-> o.configured, ordered |-> o.ordered, ok |-> o.ok]
        ELSE [gdr |-> gdr.level, need |-> need_ordering, configured |-> nccl_proto_configured,
              ordered |-> FALSE, ok |-> reached]

ConfiguredOptions(c) ==
    support_gdr' = c.gdr /\ need_ordering' = c.need /\ nccl_proto_configured' = c.configured

NewEp(d, t, ref, ordered) ==
    [dev |-> d, thread |-> t, ref_cnt |-> ref, live |-> TRUE, ordered |-> ordered]

\* create_endpoint of either protocol succeeds, and the caller counts ref users.
CreateEndpoint(d, t, c) ==
    /\ c.ok
    /\ eps' = Append(eps, NewEp(d, t, 1, c.ordered))
    /\ Becomes(Opened(EpObjects(d, Len(eps) + 1)))
    /\ UNCHANGED fails

\* It fails, for the options of a rail or for a fault.
CreateEndpointFails(d, c) ==
    \/ /\ ~c.ok /\ UNCHANGED fails
       /\ \E i \in 1..Len(EpRails(d)) : Becomes(RailFails(d, Len(eps) + 1, i, "connection"))
    \/ c.ok /\ Fault /\ \E f \in Failures(d) : Becomes(EpFails(d, Len(eps) + 1, f))

\* The endpoint of a device that HASH_FIND finds under the thread's id.
FoundEp(d, t) == {e \in 1..Len(eps) : eps[e].live /\ eps[e].dev = d /\ eps[e].thread = t}

Free(d, t) == device_lock[d] = None /\ t \notin stuck

\* A failed creation releases the endpoint, for which it waits for the lock that get_ep
\* holds for it.  sendrecv just returns.
LockedRelease(d, t) ==
    IF rdma THEN device_lock' = [device_lock EXCEPT ![d] = t] /\ stuck' = stuck \cup {t}
    ELSE UNCHANGED <<device_lock, stuck>>

\* nccl_net_ofi_device_get_ep for a thread that has an endpoint on the device
GetEp(d, t) ==
    /\ Free(d, t)
    /\ \E e \in FoundEp(d, t) :
         /\ eps[e].ref_cnt < setup.refs
         /\ eps' = [eps EXCEPT ![e].ref_cnt = @ + 1]
    /\ UNCHANGED <<setup, fails, stage, choice, num_devs, device_lock, stuck, objects, options, reported>>

\* nccl_net_ofi_device_get_ep for a thread that has none; ok and failed are the stages it
\* returns to.  After an error the number of the endpoint that was not made is used up.
GetNewEp(d, t, ok, failed) ==
    /\ Free(d, t) /\ FoundEp(d, t) = {} /\ Len(eps) < setup.eps
    /\ \E cuda \in setup.cuda, order \in setup.order :
         LET c == Configured(cuda, order) IN
         /\ ConfiguredOptions(c)
         /\ \/ CreateEndpoint(d, t, c) /\ stage' = ok /\ UNCHANGED <<device_lock, stuck>>
            \/ /\ CreateEndpointFails(d, c)
               /\ eps' = Append(eps, [NewEp(d, None, 0, FALSE) EXCEPT !.live = FALSE])
               /\ LockedRelease(d, t)
               /\ stage' = IF rdma THEN stage ELSE failed
    /\ UNCHANGED <<setup, choice, num_devs, reported>>

\* nccl_net_ofi_endpoint_release that frees the endpoint of every call.
LastRefAny(e) == TRUE

LastRef(e) == eps[e].ref_cnt = 1

\* nccl_net_ofi_endpoint_release, nccl_net_ofi_rdma_endpoint_release
ReleaseEp(e, t) ==
    LET d == eps[e].dev IN
    /\ Free(d, t) /\ eps[e].live /\ eps[e].ref_cnt > 0
    /\ eps' = [eps EXCEPT ![e].ref_cnt = @ - 1, ![e].live = ~LastRef(e)]
    /\ Becomes(IF LastRef(e) THEN Close(EpRelease(d, e, EpRails(d)), Opened(<<>>)) ELSE Opened(<<>>))
    /\ UNCHANGED <<setup, fails, choice, num_devs, device_lock, stuck, options>>

-----------------------------------------------------------------------------
(* The end of start-up, calls and exit. *)

Main == CHOOSE t \in Threads : TRUE

\* get_ep of create_plugin
FirstEp == stage = "first_ep" /\ GetNewEp(1, Main, "properties", "failed")

\* get_properties, release_ep and the last check of create_plugin
Report ==
    /\ stage = "properties"
    /\ ReleaseEp(1, Main)
    /\ IF nic_dup_conns > 0 /\ support_gdr # "UNSUPPORTED" THEN Fail ELSE stage' = "up"
    /\ reported' = support_gdr

\* get_properties fails, and the endpoint is kept.
ReportFails ==
    /\ stage = "properties" /\ Fault /\ Fail
    /\ UNCHANGED <<setup, choice, num_devs, threads, objects, options, reported>>

\* listen() and connect(), close functions
CallGetEp(t, d) == stage = "up" /\ (GetEp(d, t) \/ GetNewEp(d, t, "up", "up"))
CallRelease(t, e) == stage = "up" /\ ReleaseEp(e, t) /\ UNCHANGED <<stage, reported>>

\* prepare_recv_comm with endpoint_per_communicator: an endpoint of no thread, made
\* without the lock of the device.  If that fails, the release finds the lock free, and
\* a count of -1 does not free the endpoint.
AcceptEp(t, d) ==
    /\ stage = "up" /\ epc /\ t \notin stuck /\ Len(eps) < setup.eps
    /\ \E e \in 1..Len(eps) : eps[e].live /\ eps[e].dev = d
    /\ \E cuda \in setup.cuda, order \in setup.order :
         LET c == Configured(cuda, order) IN
         /\ ConfiguredOptions(c)
         /\ \/ CreateEndpoint(d, None, c)
            \/ /\ CreateEndpointFails(d, c) /\ device_lock[d] = None
               /\ eps' = Append(eps, [NewEp(d, None, -1, FALSE) EXCEPT !.live = FALSE])
    /\ UNCHANGED <<setup, stage, choice, num_devs, device_lock, stuck, reported>>

\* nccl_net_ofi_fini at the exit of the process: release_plugin releases the devices.
Fini ==
    /\ stage = "up"
    /\ stage' = "exited"
    /\ plugins' = [plugins EXCEPT ![selected] = "freed"]
    /\ LET Of(d) == DeviceRelease(d) IN Becomes(Close(Each(Of, num_devs), Opened(<<>>)))
    /\ UNCHANGED <<setup, fails, selected, provider_list, info_lists, domain_per_thread, nic_dup_conns,
                   api_1_18, num_devs, threads, options, reported>>

Next ==
    \/ PlatformInit \/ RdmaInit \/ SendrecvInit \/ UnknownProtocol \/ Choose \/ SetDomain
    \/ CreateDevice \/ FirstEp \/ Report \/ ReportFails \/ Fini
    \/ \E t \in Threads :
         \/ \E d \in Devices : CallGetEp(t, d) \/ AcceptEp(t, d)
         \/ \E e \in 1..Len(eps) : CallRelease(t, e)

Spec == Init /\ [][Next]_vars

-----------------------------------------------------------------------------
(* Properties. *)

Usable(d) == d \in Devices /\ stage \in {"first_ep", "properties", "up"}

\* Type correctness: the stages of create_plugin, the plugins made, and endpoints whose
\* count is never below the -1 of a failed creation.
TypeOK ==
    /\ setup \in Setups /\ fails \in 0..setup.fails
    /\ stage \in {"platform", "init", "sendrecv", "choose", "domain", "complete", "first_ep",
                  "properties", "up", "failed", "exited"}
    /\ plugins \in [{"RDMA", "SENDRECV"} -> {"none", "made", "freed"}]
    /\ \A e \in 1..Len(eps) : eps[e].ref_cnt \in -1..setup.refs /\ eps[e].dev \in Devices
    /\ \A d \in Devices : device_lock[d] \in Threads \cup {None}
    /\ stuck \subseteq Threads /\ again \in BOOLEAN
    /\ support_gdr \in {"UNKNOWN", "SUPPORTED", "UNSUPPORTED"}

\* Groups of NICs are a partition: no NIC the provider list has is lost, or is a rail of
\* two devices, when lists are lifted, sorted and split (nccl_ofi_topo_group).
NicsPartitioned ==
    LET rails == FlattenSeq(info_lists) IN
    plugins["RDMA"] # "none" =>
        Range(rails) = Nics(Topo) /\ Len(rails) = Cardinality(Nics(Topo))

\* NICs of one group are as near to accelerators as each other: the lowest node of
\* the topology that has an accelerator and the NIC below it, and no NIC nearer to that
\* accelerator, is the same for all of them.  The groups made at one such node differ by
\* one NIC at most, and there are as many as accelerators, or as NICs if those are fewer.
\* No NIC is lost or in two groups.
GroupsByLocality ==
    LET groups == Range(info_lists)
        Nearest(n) == {a \in Up(Topo)[n] : \E g \in Gpus(Topo) :
                          /\ a \in Up(Topo)[g]
                          /\ \A m \in Nics(Topo) : Max(Up(Topo)[m] \cap Up(Topo)[g]) <= a}
        Home(g) == IF Nearest(g[1]) = {} THEN g[1] ELSE Max(Nearest(g[1]))
        At(a) == {g \in groups : Home(g) = a}
        GpusAt(a) == {g \in Gpus(Topo) : Max({Max(Up(Topo)[m] \cap Up(Topo)[g]) : m \in Nics(Topo)}) = a}
    IN  NicsPartitioned /\ \A g \in groups :
          /\ \A i \in 1..Len(g) : IF Nearest(g[i]) = {} THEN Len(g) = 1 ELSE Max(Nearest(g[i])) = Home(g)
          /\ \A h \in At(Home(g)) : Len(g) <= Len(h) + 1
          /\ Nearest(g[1]) # {} =>
                \/ Cardinality(At(Home(g))) = Cardinality(GpusAt(Home(g)))
                \/ \A h \in At(Home(g)) : Len(h) = 1

\* After the choice of the protocol, the plugin of that protocol is there and the other
\* one is gone.  The choice is that of the rules in nccl_net_ofi_create_plugin: the user's
\* goes first, then the platform's, then RDMA if it could be initialised and a device has
\* several rails, then SENDRECV if it could.  The fifth rule, RDMA if it could be
\* initialised and SENDRECV could not, is not part of this: the code fails there.
ProtocolChosen ==
    stage \in {"domain", "complete", "first_ep", "properties", "up"} =>
        /\ plugins[selected] = "made"
        /\ \A p \in DOMAIN plugins : p # selected => plugins[p] # "made"
        /\ setup.protocol # "none" => selected = setup.protocol
        /\ setup.protocol = "none" /\ PlatformProtocol # "none" => selected = PlatformProtocol
        /\ setup.protocol = "none" /\ PlatformProtocol = "none" =>
              IF plugins["RDMA"] # "none" /\ \E d \in 1..Len(info_lists) : Len(info_lists[d]) > 1
              THEN rdma
              ELSE plugins["SENDRECV"] # "none" => selected = "SENDRECV"

\* With endpoint_per_communicator, a failing init_connection closes the queue of the
\* device if no endpoint uses it, and the thread then waits for itself.
QueueLost(d) == epc /\ device_lock[d] \in stuck

\* No libfabric object is closed a second time, on the error paths of rails, endpoints and
\* devices included (init_connection, ep_rail_init, init_rail_ofi_resources, device_create).
ClosedOnce == ~again

\* What a live endpoint or a device refers to is open: closing one endpoint, or giving up a
\* new one, leaves the queues and domains it shares with others (ep_rail_release), and
\* nothing is closed twice.  Only the queue of a device on which a thread waits for itself
\* may be closed, and closed again at the exit.
UsedIsOpen ==
    /\ ClosedOnce \/ \E d \in Devices : QueueLost(d)
    /\ \A e \in 1..Len(eps) : eps[e].live /\ stage # "exited" =>
          Range(EpObjects(eps[e].dev, e)) \subseteq open
    /\ \A d \in Devices : Usable(d) =>
          \A o \in Range(DeviceObjects(d)) : o \in open \/ (QueueLost(d) /\ o[1] = "cq")

\* When all endpoints have been released before the exit, those of accept() included, and
\* no call has failed but for endpoint options that were refused, only fabrics and domains
\* can be open after it, and with rdma not even those if domains are the devices' and
\* completion queues are not.
LeftAtExit ==
    stage = "exited" /\ fails = setup.fails /\ stuck = {} /\ (\A e \in 1..Len(eps) : ~eps[e].live) =>
        /\ \A o \in open : o[1] \in {"fabric", "domain"}
        /\ rdma /\ ~domain_per_thread /\ ~epc => open = {}

\* What NCCL has been told about GPUDirect stays true: later endpoints either have it as
\* well or are not made (nccl_ofi_ofiutils_init_connection), and it is known by then, as
\* the assertion in create_plugin says.
GdrAsReported ==
    stage \in {"up", "exited"} => reported # "UNKNOWN" /\ support_gdr = reported

\* If the first endpoint had in-order delivery, so that NCCL_PROTO was left alone, every
\* endpoint in use has it (platform_config_endpoint).
OrderingKept == need_ordering => \A e \in 1..Len(eps) : eps[e].live => eps[e].ordered

\* What start-up has decided is what is used from then on: the protocol, whether there is
\* GPUDirect, and whether messages are delivered in order (nccl_net_ofi_create_plugin,
\* nccl_ofi_ofiutils_init_connection, platform_config_endpoint).
AsDecided == ProtocolChosen /\ GdrAsReported /\ OrderingKept

\* A thread has one endpoint on a device, which lives as long as it is counted
\* (nccl_net_ofi_device_get_ep, nccl_net_ofi_endpoint_release).
OneEndpointPerThread ==
    /\ TypeOK
    /\ \A e, f \in 1..Len(eps) : eps[e].live /\ eps[f].live /\ e # f /\ eps[e].dev = eps[f].dev =>
          eps[e].thread # eps[f].thread \/ eps[e].thread = None
    /\ \A e \in 1..Len(eps) : eps[e].live <=> eps[e].ref_cnt > 0

=============================================================================
