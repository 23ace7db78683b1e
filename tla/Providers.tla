----------------------------- MODULE Providers ------------------------------
(***************************************************************************)
(* The libfabric infos a protocol works with (src/src/nccl_ofi_ofiutils.c, *)
(* nccl_net_ofi_sendrecv_init of src/src/nccl_ofi_sendrecv.c).             *)
(*                                                                         *)
(* fi_getinfo returns a list of infos.  An info has the name of its        *)
(* provider, the node of its NIC in the hardware topology, and says        *)
(* whether its interface is in the list OFI_NCCL_EXCLUDE_TCP_IF, whether   *)
(* it has IPv6 addresses that OFI_NCCL_USE_IPV6_TCP does not allow, and    *)
(* which tag format it has.                                                *)
(***************************************************************************)
EXTENDS Integers, Sequences, SequencesExt

\* match_prov_info: the TCP interfaces to leave out.
MatchProvInfo(info, expected_tag) == info.excluded \/ info.ipv6 \/ info.tag # expected_tag

\* filter_tcp_info_list: the expected tag format is that of the info looked at.
FilterTcp(infos) == SelectSeq(infos, LAMBDA i : ~MatchProvInfo(i, i.tag))

\* nccl_ofi_ofiutils_get_providers: the infos of one provider, which is the first one
\* there is, or the first of those in the filter.
GetProviders(filter, infos) ==
    LET named == IF filter = {} THEN infos ELSE SelectSeq(infos, LAMBDA i : i.prov \in filter)
        same == SelectSeq(infos, LAMBDA i : i.prov = named[1].prov)
    IN  IF named = <<>> THEN <<>>
        ELSE IF named[1].prov = "tcp" THEN FilterTcp(same)
        ELSE same

\* The list, nic_dup_conns times (sendrecv_init).
DupConns(infos, nic_dup_conns) ==
    IF nic_dup_conns <= 1 THEN infos
    ELSE [i \in 1..Len(infos) * nic_dup_conns |-> infos[((i - 1) % Len(infos)) + 1]]

\* The calls of fi_getinfo of sendrecv_init, in order, and the support_gdr each stands for.
Attempts(dmabuf_viable) ==
    (IF dmabuf_viable THEN <<<<"1.20", "UNKNOWN">>>> ELSE <<>>)
        \o <<<<"1.18", "UNKNOWN">>, <<"1.6gdr", "SUPPORTED">>, <<"1.6", "UNSUPPORTED">>>>
=============================================================================
