------------------------------ MODULE Topology ------------------------------
(***************************************************************************)
(* Grouping of NICs into devices (src/src/nccl_ofi_topo.c) and the order   *)
(* of the NICs in a group (platform_sort_rails of src/src/platform-aws.c). *)
(*                                                                         *)
(* A hardware topology is a tree over the nodes 1..n, in which the parent  *)
(* of a node has a smaller number and node 1 is the root, its own parent.  *)
(* kind says which nodes are NICs with a libfabric info, accelerators or   *)
(* neither; PCI devices are visited in the order of their numbers.  vf is  *)
(* the index of a NIC on its card, of which a sysfs file tells.            *)
(***************************************************************************)
EXTENDS Integers, Sequences, SequencesExt, FiniteSetsExt

Nodes(t) == DOMAIN t.kind
Nics(t) == {n \in Nodes(t) : t.kind[n] = "nic"}
Gpus(t) == {n \in Nodes(t) : t.kind[n] = "gpu"}

\* The way from a node to the root.
Up(t) ==
    LET up[n \in Nodes(t)] == IF n = 1 THEN {1} ELSE {n} \cup up[t.parent[n]]
    IN  up

\* mark_topo_nodes_with_ofi_info_subtree: the nodes with a NIC below them.
Marked(t) == UNION {Up(t)[n] : n \in Nics(t)}

\* propoagate_accel_count: the node at which accelerator g is counted.
CountedAt(t, g) == Max(Up(t)[g] \cap Marked(t))

\* propoagate_accel_group_counts: num_groups of each node.
NumGroups(t) ==
    [n \in Nodes(t) |-> Cardinality({g \in Gpus(t) : Marked(t) # {} /\ CountedAt(t, g) = n})]

\* lift_up_ofi_infos that always takes the NICs up to the root.
TargetRoot(t, n) == IF Gpus(t) = {} THEN n ELSE 1

\* lift_up_ofi_infos: the node that takes over the list of NIC n, which is n itself
\* when no accelerator is counted on its way to the root.
Target(t, n) ==
    LET counted == {a \in Up(t)[n] : NumGroups(t)[a] > 0}
    IN  IF counted = {} THEN n ELSE Max(counted)

\* The info list a node ends up with: a list taken over goes before what is there.
InfoList(t, a) == Reverse(SetToSortSeq({n \in Nics(t) : Target(t, n) = a}, <))

GroupCount(t, a) == IF NumGroups(t)[a] > 0 THEN NumGroups(t)[a] ELSE 1

\* The list in an order in which the indices go 0, 1, .., highest, 0, 1, ..; an index
\* that is looked for and not found leaves the list as it was.
Alternated(t, list) ==
    LET highest == Max({t.vf[n] : n \in Range(list)})
        Step(s, i) ==
            LET next == (i - 1) % (highest + 1)
                at == {j \in 1..Len(s.left) : t.vf[s.left[j]] = next}
            IN  IF at = {} THEN [s EXCEPT !.ok = FALSE]
                ELSE [s EXCEPT !.out = Append(@, s.left[Min(at)]), !.left = RemoveAt(@, Min(at))]
        end == FoldLeft(Step, [out |-> <<>>, left |-> list, ok |-> TRUE],
                        [i \in 1..Len(list) |-> i])
    IN  IF end.ok THEN end.out ELSE list

\* platform_sort_rails: the list stays as it is on a platform without this function, if
\* an index cannot be read, and if there is at most one NIC per num_groups.
SortRails(t, list, num_groups) ==
    IF ~t.sorts \/ Len(list) \div num_groups <= 1 THEN list ELSE Alternated(t, list)

\* create_groups_from_info_list: the first groups get the NICs left over.  The size of
\* a large group is passed to platform_sort_rails.
GroupsOf(t, list, count) ==
    LET groups == Min({count, Len(list)})
        large == Len(list) % groups
        size == Len(list) \div groups
        sorted == SortRails(t, list, size + 1)
        First(g) == (g - 1) * size + Min({g - 1, large})
    IN  {SubSeq(sorted, First(g) + 1, First(g + 1)) : g \in 1..groups}

\* create_groups_from_info_lists, for all nodes that hold a list.
Groups(t) ==
    UNION {GroupsOf(t, InfoList(t, a), GroupCount(t, a)) : a \in {Target(t, n) : n \in Nics(t)}}

\* nccl_ofi_topo_next_info_list: groups in the order of the nodes of their leaders.
InfoLists(t) == SetToSortSeq(Groups(t), LAMBDA g, h : g[1] < h[1])

\* max_group_size
MaxGroupSize(t) == Max({Len(g) : g \in Groups(t)} \cup {0})
=============================================================================
