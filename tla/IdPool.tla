------------------------------- MODULE IdPool --------------------------------
(***************************************************************************)
(* Pools of ids (src/src/nccl_ofi_idpool.c).  A pool keeps one bit per id  *)
(* in words of WordBits bits, of which memset() sets whole bytes; the bits *)
(* that are set are the ids available.  Every operation holds the lock of  *)
(* the pool from beginning to end, so each is a function of the pool.      *)
(***************************************************************************)
EXTENDS Integers, FiniteSetsExt

CONSTANTS WordBits, ByteBits

ASSUME IdPoolAssumption ==
    ByteBits \in Nat \ {0} /\ WordBits \in Nat \ {0} /\ WordBits % ByteBits = 0

NumWords(size) == (size + WordBits - 1) \div WordBits

\* nccl_ofi_idpool_init: the pools of this size it may leave.  Bits that neither
\* memset() nor the mask of the last word sets are as malloc() has left them.
InitPools(size) ==
    LET bytes == 0..(size \div ByteBits) * ByteBits - 1
        last == (NumWords(size) - 1) * WordBits
        all == 0..NumWords(size) * WordBits - 1
        untouched == IF size % ByteBits # 0 THEN {} ELSE all \ bytes
        set == IF size % ByteBits # 0
               THEN {i \in bytes : i < last} \cup last..last + (size % WordBits) - 1
               ELSE bytes
    IN IF size = 0 THEN {[ids |-> {}, size |-> 0]}
       ELSE {[ids |-> set \cup garbage, size |-> size] : garbage \in SUBSET untouched}

Active(p) == p.size # 0

NoId == -1

\* nccl_ofi_idpool_allocate_id that leaves the bit set.
AllocateKeeps(p) ==
    [id |-> IF p.size = 0 \/ p.ids = {} THEN NoId ELSE Min(p.ids), pool |-> p]

\* nccl_ofi_idpool_allocate_id: the first bit that is set is cleared, and is an id
\* unless it lies beyond the size of the pool.
AllocateId(p) ==
    IF p.size = 0 \/ p.ids = {} THEN [id |-> NoId, pool |-> p]
    ELSE LET i == Min(p.ids) IN
         [id |-> IF i < p.size THEN i ELSE NoId, pool |-> [p EXCEPT !.ids = @ \ {i}]]

\* nccl_ofi_idpool_free_id: an id out of range or not in use is refused.
FreeIdRefused(p, i) == i >= p.size \/ i \in p.ids
FreeId(p, i) == IF FreeIdRefused(p, i) THEN p ELSE [p EXCEPT !.ids = @ \cup {i}]

=============================================================================
