------------------------------ MODULE FreeList -------------------------------
(***************************************************************************)
(* Free lists (src/src/nccl_ofi_freelist.c, include/nccl_ofi_freelist.h):  *)
(* entries handed out last in first out, allocated a block at a time, each *)
(* block with one memory registration.  An entry is <<block, number>>.     *)
(* Every operation holds the lock of the list.                             *)
(***************************************************************************)
EXTENDS Integers, Sequences, SequencesExt

CONSTANTS Increase,     \* entries of a block
          MaxEntries    \* max_entry_count, 0 for no limit

\* freelist_init_internal, before the first block; made counts the blocks ever made.
NewFreeList == [entries |-> <<>>, blocks |-> <<>>, num |-> 0, made |-> 0]

\* A block of full size though fewer entries are left.
BlockEntriesFull(fl) == Increase

\* nccl_ofi_freelist_add: the entries of the next block, none when the list is full.
BlockEntries(fl) ==
    IF MaxEntries > 0 /\ MaxEntries - fl.num < Increase THEN MaxEntries - fl.num ELSE Increase
Full(fl) == BlockEntries(fl) = 0

\* nccl_ofi_freelist_add when the block has been registered as h.
Add(fl, h) ==
    LET block == fl.made + 1
        n == BlockEntries(fl)
    IN [entries |-> [i \in 1..n |-> <<block, n + 1 - i>>] \o fl.entries,
        blocks |-> <<[block |-> block, handle |-> h]>> \o fl.blocks,
        num |-> fl.num + n, made |-> block]

\* nccl_ofi_freelist_entry_alloc and nccl_ofi_freelist_entry_free
EntryAlloc(fl) == [fl EXCEPT !.entries = Tail(@)]
EntryFree(fl, e) == [fl EXCEPT !.entries = <<e>> \o @]

=============================================================================
