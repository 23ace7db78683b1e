------------------------------ MODULE MCPlugin ------------------------------
(* Instances of Plugin. *)
EXTENDS Plugin

Info(prov, node) == [prov |-> prov, node |-> node, excluded |-> FALSE, ipv6 |-> FALSE, tag |-> 1]
Efas(nodes) == [i \in 1..Len(nodes) |-> Info("efa", nodes[i])]

\* Node 1 is the root; nodes 2 and 3 are bridges below it; the others are devices.
Tree(devices) ==
    [kind |-> [n \in 1..Len(devices) + 3 |-> IF n <= 3 THEN "bridge" ELSE devices[n - 3][1]],
     parent |-> [n \in 1..Len(devices) + 3 |-> IF n <= 3 THEN 1 ELSE devices[n - 3][2]],
     vf |-> [n \in 1..Len(devices) + 3 |-> n % 2], sorts |-> FALSE]

NicsOf(topo) == SetToSortSeq(Nics(topo), <)

TwoPairs == Tree(<<<<"gpu", 2>>, <<"nic", 2>>, <<"nic", 2>>, <<"gpu", 3>>, <<"nic", 3>>, <<"nic", 3>>>>)
OnePair == Tree(<<<<"gpu", 2>>, <<"nic", 2>>, <<"nic", 2>>>>)

NoPlatform == [protocol |-> "none", default_dup_conns |-> 0, domain_per_thread |-> FALSE,
               gdr_required |-> FALSE, skip_proto |-> FALSE]

Base == [protocol |-> "none", aws |-> TRUE, fi_provider |-> "unset", platform |-> NoPlatform,
         nic_dup_conns |-> 0, domain_per_thread |-> -1, endpoint_per_communicator |-> FALSE,
         infos |-> Efas(NicsOf(OnePair)), topo |-> OnePair, finds |-> {"rdma", "1.18"},
         dmabuf_viable |-> FALSE, endpoint_mr |-> FALSE, eager_max_size |-> 1, min_stripe_size |-> 2,
         cuda |-> {"ok"}, order |-> {"ok"}, native_write |-> TRUE, rdma_rr_ctrl_msg |-> FALSE,
         fails |-> 0, eps |-> 3, refs |-> 2]

With(topo) == [Base EXCEPT !.topo = topo, !.infos = Efas(NicsOf(topo))]

\* All orders of n devices below the root and the bridges in which the devices below a
\* bridge come one after the other, the first bridge first.
Kinds == {"gpu", "nic"}
Trees(n) ==
    {Tree(ds) : ds \in {ds \in [1..n -> Kinds \X (1..3)] :
        \A i \in 1..n : ds[i][2] = 3 =>
            /\ \E j \in 1..i - 1 : ds[j][2] = 2
            /\ \A j \in i + 1..n : ds[j][2] # 2
            /\ \A j, k \in 1..n : j < k /\ k < i /\ ds[j][2] = 3 => ds[k][2] = 3}}

\* Trees in which the root or a bridge has more NICs than accelerators.
Shared(nics, gpus) ==
    {[Tree([i \in 1..nics + gpus |-> <<IF i <= gpus THEN "gpu" ELSE "nic", 2>>])
        EXCEPT !.sorts = TRUE, !.vf = [n \in DOMAIN @ |-> IF n \in evens THEN 0 ELSE 1]] :
     evens \in {e \in SUBSET (4..nics + gpus + 3) : e \cap (4..gpus + 3) = {}}}

Topologies == {[With(t) EXCEPT !.eps = 0] : t \in Trees(5) \cup Shared(4, 3) \cup Shared(4, 4)}

\* Environments in which start-up goes another way; two endpoints at most.
Small == [Base EXCEPT !.eps = 2, !.refs = 1]
Platform(p) == [Small EXCEPT !.platform = p]
Tcp(node, excluded, ipv6) == [prov |-> "tcp", node |-> node, excluded |-> excluded, ipv6 |-> ipv6, tag |-> 1]
Environments == {
    [Small EXCEPT !.protocol = "RDMA", !.infos = Efas(<<5>>)],
    [Small EXCEPT !.protocol = "SENDRECV", !.nic_dup_conns = 2, !.finds = {"1.6"}],
    [Small EXCEPT !.protocol = "SENDRECV", !.nic_dup_conns = 2],
    [Small EXCEPT !.protocol = "TCP"],
    [Small EXCEPT !.endpoint_mr = TRUE, !.fails = 1],
    [Small EXCEPT !.eager_max_size = 3, !.finds = {"rdma", "1.6gdr"}],
    [Small EXCEPT !.dmabuf_viable = TRUE, !.finds = {"1.20"}],
    [Small EXCEPT !.infos = Efas(<<5>>), !.finds = {"rdma"}],
    [Small EXCEPT !.infos = Efas(<<5>>), !.fails = 1],
    [Small EXCEPT !.infos = <<Info("tcp", 5), Info("efa", 6)>>, !.fails = 1],
    [Small EXCEPT !.aws = FALSE, !.finds = {"1.6"},
        !.infos = <<Tcp(5, FALSE, FALSE), Info("efa", 6), Tcp(6, TRUE, FALSE), Tcp(6, FALSE, TRUE)>>],
    [Small EXCEPT !.fi_provider = "tcp", !.infos = <<Tcp(5, TRUE, FALSE)>>],
    Platform([NoPlatform EXCEPT !.protocol = "RDMA", !.gdr_required = TRUE]),
    Platform([NoPlatform EXCEPT !.protocol = "SENDRECV", !.default_dup_conns = 2]),
    [Platform([NoPlatform EXCEPT !.protocol = "SENDRECV", !.domain_per_thread = TRUE]) EXCEPT !.fails = 1],
    [Platform([NoPlatform EXCEPT !.protocol = "RDMA"]) EXCEPT !.protocol = "SENDRECV"],
    [Small EXCEPT !.native_write = FALSE]}

\* Endpoint options whose answer may change from endpoint to endpoint.
Options == {
    [Base EXCEPT !.cuda = {"ok", "notsupp"}, !.order = {"ok", "notsupp"}],
    [Base EXCEPT !.cuda = {"ok", "notsupp"}, !.platform.gdr_required = TRUE],
    [Base EXCEPT !.order = {"ok", "notsupp"}, !.platform.skip_proto = TRUE],
    [Base EXCEPT !.order = {"ok", "notsupp"}, !.endpoint_per_communicator = TRUE],
    [Base EXCEPT !.order = {"ok", "notsupp"}, !.protocol = "SENDRECV"]}

\* Two devices, endpoints of threads and of communicators, own and shared domains, and
\* failures wherever an object is opened.
Objects == {
    [Base EXCEPT !.fails = 1, !.rdma_rr_ctrl_msg = TRUE],
    [Base EXCEPT !.fails = 1, !.domain_per_thread = 1],
    [Base EXCEPT !.fails = 1, !.endpoint_per_communicator = TRUE],
    [Base EXCEPT !.domain_per_thread = 1, !.endpoint_per_communicator = TRUE],
    [Base EXCEPT !.fails = 1, !.protocol = "SENDRECV", !.domain_per_thread = 1],
    [With(TwoPairs) EXCEPT !.fails = 1]}

MCSetups == Environments \cup Options \cup Objects \cup Topologies
=============================================================================
