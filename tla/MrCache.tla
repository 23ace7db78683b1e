------------------------------- MODULE MrCache -------------------------------
(***************************************************************************)
(* The cache of memory registrations of a device (src/src/nccl_ofi_mr.c):  *)
(* an array of entries sorted by the page they start at, each with the     *)
(* pages it spans, a handle, and the number of users of the handle.  Its   *)
(* callers hold the lock of the cache, so each operation is a function.    *)
(*                                                                         *)
(* cap is the number of slots the array really has, size the number the    *)
(* cache believes it has.  A slot may hold a null pointer: handle NoHandle.*)
(***************************************************************************)
EXTENDS Integers, Sequences, SequencesExt

CONSTANT PageSize

NoHandle == 0
NullSlot == [addr |-> 0, pages |-> 0, refcnt |-> 0, handle |-> NoHandle]

\* nccl_ofi_mr_cache_init
NewCache(n) == [slots |-> <<>>, size |-> n, cap |-> n]

\* compute_page_address
PageAddr(b) == b.addr - (b.addr % PageSize)
Pages(b) == (b.addr + b.len - PageAddr(b) + PageSize - 1) \div PageSize

\* An entry serves a buffer when it spans all its pages.
Covers(e, b) ==
    PageAddr(b) >= e.addr /\ (PageAddr(b) - e.addr) \div PageSize + Pages(b) <= e.pages

\* The slot at which the search for a buffer ends: at the end of the cache, at an
\* entry that starts beyond the buffer, at one that covers it, or at a null pointer,
\* which is the end of the process, too.
Stop(c, b) ==
    Min({i \in 1..Len(c.slots) + 1 :
            \/ i = Len(c.slots) + 1 \/ c.slots[i].handle = NoHandle
            \/ PageAddr(b) < c.slots[i].addr \/ Covers(c.slots[i], b)})

AtNull(c, i) == i \in DOMAIN c.slots /\ c.slots[i].handle = NoHandle
Hit(c, b) == LET i == Stop(c, b) IN i <= Len(c.slots) /\ Covers(c.slots[i], b)

\* nccl_ofi_mr_cache_lookup_entry that does not count the new user.
LookupNoCount(c, b) == [handle |-> c.slots[Stop(c, b)].handle, cache |-> c]

\* nccl_ofi_mr_cache_lookup_entry on a hit.
LookupEntry(c, b) ==
    LET i == Stop(c, b) IN
    [handle |-> c.slots[i].handle, cache |-> [c EXCEPT !.slots[i].refcnt = @ + 1]]

\* nccl_ofi_mr_cache_grow, before an insertion into a full cache; and when realloc()
\* fails, the size has been doubled all the same.
Grown(c) == IF Len(c.slots) = c.size THEN [c EXCEPT !.size = 2 * @, !.cap = c.size * 2] ELSE c
GrowFails(c) == [c EXCEPT !.size = 2 * @]

\* An insertion that does not look for the place of the entry.
PutLast(c, b, e) == Append(c.slots, e)

\* The entries behind the place of the new one move up.
Put(c, b, e) == InsertAt(c.slots, Stop(c, b), e)

\* nccl_ofi_mr_cache_insert_entry of a buffer not in the cache; and when the entry
\* cannot be allocated, a null pointer is in its place and the last entry out of reach.
InsertEntry(c, b, h) ==
    LET e == [addr |-> PageAddr(b), pages |-> Pages(b), refcnt |-> 1, handle |-> h]
    IN [Grown(c) EXCEPT !.slots = Put(c, b, e)]
InsertFails(c, b) == [Grown(c) EXCEPT !.slots = SubSeq(Put(c, b, NullSlot), 1, Len(c.slots))]

\* nccl_ofi_mr_cache_lookup_handle
SlotOf(c, h) ==
    LET S == {i \in DOMAIN c.slots : c.slots[i].handle \in {h, NoHandle}}
    IN IF S = {} THEN 0 ELSE Min(S)

\* nccl_ofi_mr_cache_del_entry that removes the entry whoever uses it.
DelAlways(c, h) ==
    IF SlotOf(c, h) = 0 THEN [ret |-> -1, cache |-> c]
    ELSE [ret |-> 1, cache |-> [c EXCEPT !.slots = RemoveAt(@, SlotOf(c, h))]]

\* nccl_ofi_mr_cache_del_entry: 1 when the entry is gone, 0 when it has users left,
\* and -1 when there is none.
DelEntry(c, h) ==
    LET i == SlotOf(c, h) IN
    CASE i = 0 -> [ret |-> -1, cache |-> c]
      [] i # 0 /\ c.slots[i].refcnt # 1 -> [ret |-> 0, cache |-> [c EXCEPT !.slots[i].refcnt = @ - 1]]
      [] OTHER -> [ret |-> 1, cache |-> [c EXCEPT !.slots = RemoveAt(@, i)]]

=============================================================================
