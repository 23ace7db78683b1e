---------------------------- MODULE Registration -----------------------------
(***************************************************************************)
(* Memory registration on a device, in both protocols                      *)
(* (src/src/nccl_ofi_rdma.c, src/src/nccl_ofi_sendrecv.c), over the cache  *)
(* of registrations, the pool of keys and the free lists.                  *)
(*                                                                         *)
(* Each thread registers and deregisters buffers of NCCL through the cache *)
(* of the device, and, without the cache, the flush buffer of its receive  *)
(* communicators and the blocks of its free list.  The threads share the   *)
(* cache, its lock, and the pool of keys.  A handle is an array of         *)
(* libfabric registrations, one for every rail, in the RDMA protocol, and  *)
(* one registration in the SENDRECV protocol.                              *)
(*                                                                         *)
(* libfabric may refuse a registration with a key that another one of the  *)
(* domain has ("checks"); a control rail is in the domain of the data rail *)
(* of its number.  With domain_per_thread each thread has its own domains. *)
(***************************************************************************)
EXTENDS Integers, Sequences, FiniteSets, IdPool, MrCache, FreeList

CONSTANTS Threads,
          NumHandles,   \* bound on the handles there are at a time
          MaxComms,     \* bound on the receive communicators of a thread
          Setups        \* what to consider: protocol, size of the pool of keys, whether
                        \* registrations are cached, local_mr, endpoint_mr, checks,
                        \* domain_per_thread, the buffers NCCL registers, the number
                        \* of failures, and which threads do what

ASSUME RegistrationAssumption == NumHandles \in Nat \ {0} /\ MaxComms \in Nat /\ PageSize \in Nat \ {0}

VARIABLES
    setup,
    pool, cache, lock,
    handles,         \* the handles in memory
    stray,           \* registrations that no handle leads to any more
    pc,              \* what each thread is at
    held,            \* the handle NCCL has for each buffer, by thread
    r_comm,          \* the flush buffer of the receive communicator of a thread: its
                     \* communicator is "none", in "setup", "open", or "left" by a close
    fl, out,         \* the free list of a thread, and the entries taken from it
    crashed,         \* a null pointer has been followed
    trouble,         \* "empty": the pool had no key; "refused": a key was taken
    faults

vars == <<setup, pool, cache, lock, handles, stray, pc, held, r_comm, fl, out, crashed, trouble,
          faults>>

rdma == setup.protocol = "rdma"
Buffers == setup.buffers
Ids == 1..NumHandles

\* The registrations of a handle, in the order in which they are made: the data rails
\* and then the control rails, or the one of the SENDRECV protocol.
DataRails == setup.rails
NumMrs == IF rdma THEN setup.rails + setup.control_rails ELSE 1
Domain(t, r) == <<IF setup.domain_per_thread THEN t ELSE "process",
                  IF r > DataRails THEN r - DataRails ELSE r>>

Dead == [alive |-> FALSE, key |-> 0, open |-> {}, owner |-> "", addr |-> 0, len |-> 0]
Idle == [at |-> "idle", kind |-> "", buf |-> [addr |-> 0, len |-> 0], h |-> NoHandle, rail |-> 0, undo |-> FALSE]
NoComm == [comm |-> "none", buffer |-> FALSE, h |-> NoHandle, made |-> 0]
None == "none"
Unregistered == -1     \* and NoHandle is the NULL that stands for no registration

Init ==
    /\ setup \in Setups
    /\ pool \in InitPools(setup.keys)
    /\ cache = NewCache(1) /\ lock = None
    /\ handles = [h \in Ids |-> Dead] /\ stray = {}
    /\ pc = [t \in Threads |-> Idle]
    /\ held = [t \in Threads |-> [b \in Buffers |-> Unregistered]]
    /\ r_comm = [t \in Threads |-> NoComm]
    /\ fl = [t \in Threads |-> NewFreeList] /\ out = [t \in Threads |-> {}]
    /\ crashed = FALSE /\ trouble = {} /\ faults = 0

Fault == faults < setup.faults /\ faults' = faults + 1

-----------------------------------------------------------------------------
(* Making a registration.                                                  *)

\* sendrecv_mr_buffer_skip_local_registration, for memory of the host.
SkipLocal == ~rdma /\ ~setup.local_mr

\* What a call leaves behind when it has made its registration h, or NULL, and returns 0.
\* For a block of a free list the first of its entries is handed out.
Succeeds(t, kind, b, h) ==
    /\ pc' = [pc EXCEPT ![t] = Idle]
    /\ held' = IF kind = "nccl" THEN [held EXCEPT ![t][b] = h] ELSE held
    /\ r_comm' = IF kind = "flush"
                 THEN [r_comm EXCEPT ![t] = [@ EXCEPT !.comm = "open", !.buffer = TRUE, !.h = h]]
                 ELSE r_comm
    /\ fl' = IF kind = "block" THEN [fl EXCEPT ![t] = EntryAlloc(Add(@, h))] ELSE fl
    /\ out' = IF kind = "block" THEN [out EXCEPT ![t] = @ \cup {Head(Add(fl[t], h).entries)}] ELSE out

\* alloc_and_reg_flush_buff returns the error, and there is no communicator.
FlushFailsRdma(t) == [r_comm EXCEPT ![t].comm = "none"]

\* sendrecv_recv_comm_alloc_and_reg_flush_buff returns what the unmapping of the buffer
\* returned, and there is a communicator without one, but with the registration h if
\* that has been made and could not be bound or enabled.
FlushFailsSendrecv(t, h) ==
    [r_comm EXCEPT ![t] = [@ EXCEPT !.comm = "open", !.buffer = FALSE, !.h = h]]

\* What it leaves behind when it returns an error, with h in the pointer to the handle.
Fails(t, kind, h) ==
    /\ pc' = [pc EXCEPT ![t] = Idle]
    /\ r_comm' = IF kind # "flush" THEN r_comm
                 ELSE IF rdma THEN FlushFailsRdma(t) ELSE FlushFailsSendrecv(t, h)
    /\ UNCHANGED <<held, fl, out>>

Unlocked(t) == IF lock = t THEN None ELSE lock

\* set_mr_req_attr: without a key left the registration goes on with key 0.
RdmaKey(t, kind, b, k) ==
    /\ pc' = [pc EXCEPT ![t] = [Idle EXCEPT !.at = "rail", !.kind = kind, !.buf = b,
                                            !.h = Min({i \in Ids : ~handles[i].alive}), !.rail = 1]]
    /\ handles' = [handles EXCEPT ![pc'[t].h] =
                      [Dead EXCEPT !.alive = TRUE, !.key = IF k = NoId THEN 0 ELSE k, !.owner = t,
                                   !.addr = b.addr, !.len = b.len]]
    /\ UNCHANGED <<held, r_comm, fl, out>>

\* sendrecv_mr_buffers_register: without a key left it returns 0 and no registration.
SendrecvKey(t, kind, b, k) ==
    IF Active(pool) /\ k = NoId THEN Succeeds(t, kind, b, NoHandle) /\ UNCHANGED handles
    ELSE RdmaKey(t, kind, b, k)

\* The beginning of reg_mr_on_device and of sendrecv_mr_buffers_register: a handle, the
\* attributes and a key; or an error with nothing taken.  L is the lock by then.
Begin(t, kind, b, L) ==
    LET a == AllocateId(pool) IN
    /\ \E h \in Ids : ~handles[h].alive
    /\ \/ /\ IF rdma THEN RdmaKey(t, kind, b, a.id) ELSE SendrecvKey(t, kind, b, a.id)
          /\ pool' = a.pool
          /\ trouble' = IF Active(pool) /\ a.id = NoId THEN trouble \cup {"empty"} ELSE trouble
          /\ lock' = IF pc'[t].at = "idle" /\ L = t THEN None ELSE L
          /\ UNCHANGED faults
       \/ /\ Fault /\ Fails(t, kind, NoHandle)
          /\ UNCHANGED <<pool, trouble, handles, lock>>

\* Another registration of the domain has the key.
KeyTaken(t, h, r) ==
    /\ Active(pool)
    /\ \/ <<Domain(t, r), handles[h].key>> \in stray
       \/ \E i \in Ids : \E s \in handles[i].open :
            /\ handles[i].key = handles[h].key /\ Domain(handles[i].owner, s) = Domain(t, r)

\* reg_mr_on_device undoes what it has done, with dereg_mr_ep.
RdmaRailFails(t) ==
    /\ pc' = [pc EXCEPT ![t].at = "key", ![t].undo = TRUE]
    /\ UNCHANGED <<handles, stray, lock, held, r_comm, fl, out>>

\* sendrecv_mr_buffers_register returns the error as it is, also when the registration
\* has been made and could not be bound to the endpoint or enabled.  Only the flush
\* buffer of a communicator keeps the pointer then.
SendrecvRailFails(t, made) ==
    LET h == pc[t].h
        kept == made /\ pc[t].kind = "flush"
    IN
    /\ handles' = [handles EXCEPT ![h] = IF kept THEN [@ EXCEPT !.open = {1}] ELSE Dead]
    /\ stray' = IF made /\ ~kept THEN stray \cup {<<Domain(t, 1), handles[h].key>>} ELSE stray
    /\ lock' = Unlocked(t)
    /\ Fails(t, pc[t].kind, IF kept THEN h ELSE NoHandle)

\* register_rail_mr_buffer on the next rail, or the registration of the SENDRECV protocol.
RegRail(t) ==
    LET h == pc[t].h
        r == pc[t].rail
        taken == setup.checks /\ KeyTaken(t, h, r)
    IN
    /\ pc[t].at = "rail"
    /\ \/ /\ ~taken
          /\ handles' = [handles EXCEPT ![h].open = @ \cup {r}]
          /\ pc' = [pc EXCEPT ![t].rail = @ + 1, ![t].at = IF r = NumMrs THEN "made" ELSE "rail"]
          /\ UNCHANGED <<stray, lock, held, r_comm, fl, out, trouble, faults>>
       \/ /\ taken /\ trouble' = trouble \cup {"refused"} /\ UNCHANGED faults
          /\ IF rdma THEN RdmaRailFails(t) ELSE SendrecvRailFails(t, FALSE)
       \/ /\ ~taken /\ Fault /\ UNCHANGED trouble
          /\ \/ rdma /\ RdmaRailFails(t)
             \/ ~rdma /\ SendrecvRailFails(t, FALSE)
             \/ ~rdma /\ setup.endpoint_mr /\ SendrecvRailFails(t, TRUE)
    /\ UNCHANGED <<setup, pool, cache, crashed>>

\* reg_mr_ep and sendrecv_comm_mr_base_reg when the registration has been made: into the
\* cache, if there is one, and the lock is released; or, when the cache cannot grow or
\* the entry cannot be allocated, undone.
Insert(t) ==
    LET p == pc[t]
        cached == lock = t
    IN
    /\ p.at = "made"
    /\ \/ /\ cache' = IF cached THEN InsertEntry(cache, p.buf, p.h) ELSE cache
          /\ Succeeds(t, p.kind, p.buf, p.h)
          /\ lock' = Unlocked(t) /\ UNCHANGED <<faults, handles>>
       \/ /\ cached /\ Fault
          /\ \/ Len(cache.slots) = cache.size /\ cache' = GrowFails(cache)
             \/ cache' = InsertFails(cache, p.buf)
          /\ pc' = [pc EXCEPT ![t].at = "key", ![t].undo = TRUE]
          /\ UNCHANGED <<held, r_comm, fl, out, lock, handles>>
       \* freelist_regmr_host_fn has no memory for its own handle.
       \/ /\ p.kind = "block" /\ Fault /\ Fails(t, "block", NoHandle)
          /\ UNCHANGED <<cache, lock, handles>>
    /\ UNCHANGED <<setup, pool, stray, crashed, trouble>>

Crash ==
    /\ crashed' = TRUE
    /\ UNCHANGED <<setup, pool, cache, lock, handles, stray, pc, held, r_comm, fl, out, trouble, faults>>

\* nccl_net_ofi_regMrDmaBuf, by way of reg_mr_ep or sendrecv_comm_mr_base_reg: skipped,
\* found in the cache, or made, with the lock of the cache held.
RegMr(t, b) ==
    /\ pc[t].at = "idle" /\ t \in setup.users /\ held[t][b] = Unregistered
    /\ \/ /\ SkipLocal /\ Succeeds(t, "nccl", b, NoHandle)
          /\ UNCHANGED <<setup, pool, cache, lock, handles, stray, crashed, trouble, faults>>
       \/ /\ ~SkipLocal /\ setup.cached /\ lock = None
          /\ \/ AtNull(cache, Stop(cache, b)) /\ Crash
             \/ /\ Hit(cache, b)
                /\ cache' = LookupEntry(cache, b).cache
                /\ Succeeds(t, "nccl", b, LookupEntry(cache, b).handle)
                /\ UNCHANGED <<setup, pool, lock, handles, stray, crashed, trouble, faults>>
             \/ /\ ~Hit(cache, b) /\ ~AtNull(cache, Stop(cache, b))
                /\ Begin(t, "nccl", b, t)
                /\ UNCHANGED <<setup, cache, stray, crashed>>
       \/ /\ ~SkipLocal /\ ~setup.cached
          /\ Begin(t, "nccl", b, lock)
          /\ UNCHANGED <<setup, cache, stray, crashed>>

-----------------------------------------------------------------------------
(* Giving a registration up.                                               *)

\* dereg_mr_ep and sendrecv_comm_mr_base_dereg: first the user is taken out of the cache,
\* and the registration stays when there are others.
DeregMr(t, b) ==
    LET d == DelEntry(cache, held[t][b])
        stays == setup.cached /\ d.ret = 0
    IN
    /\ pc[t].at = "idle" /\ held[t][b] # Unregistered
    /\ held' = [held EXCEPT ![t][b] = Unregistered]
    /\ IF held[t][b] = NoHandle \/ ~setup.cached THEN UNCHANGED <<cache, crashed>>
       ELSE /\ lock = None
            /\ crashed' = (crashed \/ AtNull(cache, SlotOf(cache, held[t][b])))
            /\ cache' = IF crashed' THEN cache ELSE d.cache
    /\ pc' = IF held[t][b] = NoHandle \/ stays THEN pc
             ELSE [pc EXCEPT ![t] = [Idle EXCEPT !.at = "key", !.kind = "nccl", !.h = held[t][b]]]
    /\ UNCHANGED <<setup, pool, lock, handles, stray, r_comm, fl, out, trouble, faults>>

\* The key is read from the first registration, there or not.
FollowsNull(h) == Active(pool) /\ 1 \notin handles[h].open

\* Giving the key back never.
KeyReturnedNever(h) == pool

\* nccl_ofi_idpool_free_id of the key of the first registration.
KeyReturned(h) == FreeId(pool, handles[h].key)

\* The key goes back to the pool before anything is closed.
ReturnKey(t) ==
    /\ pc[t].at = "key"
    /\ IF FollowsNull(pc[t].h) THEN Crash
       ELSE /\ pool' = IF Active(pool) THEN KeyReturned(pc[t].h) ELSE pool
            /\ pc' = [pc EXCEPT ![t].at = "close"]
            /\ UNCHANGED <<setup, cache, lock, handles, stray, held, r_comm, fl, out, crashed, trouble,
                           faults>>

\* nccl_ofi_freelist_fini when the first block is gone: the next one, or the end.
BlockGone(t) ==
    LET rest == Tail(fl[t].blocks) IN
    /\ pc' = [pc EXCEPT ![t] = IF rest = <<>> THEN Idle
                               ELSE [Idle EXCEPT !.at = "key", !.kind = "block", !.h = Head(rest).handle]]
    /\ fl' = [fl EXCEPT ![t] = IF rest = <<>> THEN NewFreeList ELSE [@ EXCEPT !.blocks = rest]]
    /\ UNCHANGED r_comm

\* The flush buffer is unmapped and the communicator gone.  After a registration that
\* could not be closed, or for a buffer that is not there, the close returns an error
\* before that, and the communicator is left as it is.
FlushGone(t, closed) ==
    /\ pc' = [pc EXCEPT ![t] = Idle]
    /\ r_comm' = [r_comm EXCEPT ![t].comm = IF closed /\ r_comm[t].buffer THEN "none" ELSE "left",
                                ![t].h = NoHandle]
    /\ UNCHANGED fl

\* dereg_rails and free_rdma_mr_handle, or fi_close() of the one registration: the
\* registrations that cannot be closed are left behind.
CloseRails(t) ==
    LET p == pc[t]
        h == p.h
    IN
    /\ p.at = "close"
    /\ handles' = [handles EXCEPT ![h] = Dead]
    /\ \/ UNCHANGED <<stray, faults>>
       \/ Fault /\ \E r \in handles[h].open : stray' = stray \cup {<<Domain(handles[h].owner, r), handles[h].key>>}
    /\ lock' = Unlocked(t)
    /\ CASE p.undo -> Fails(t, p.kind, NoHandle)
         [] ~p.undo /\ p.kind = "flush" -> FlushGone(t, faults' = faults) /\ UNCHANGED <<held, out>>
         [] ~p.undo /\ p.kind = "block" -> BlockGone(t) /\ UNCHANGED <<held, out>>
         [] OTHER -> pc' = [pc EXCEPT ![t] = Idle] /\ UNCHANGED <<r_comm, fl, held, out>>
    /\ UNCHANGED <<setup, pool, cache, crashed, trouble>>

-----------------------------------------------------------------------------
(* Flush buffers of receive communicators.                                 *)

FlushBuffer == [addr |-> 0, len |-> PageSize]

\* alloc_and_reg_flush_buff and sendrecv_recv_comm_alloc_and_reg_flush_buff: a page of
\* memory, or an error, and its registration where the provider wants one.
RecvComm(t) ==
    /\ pc[t].at = "idle" /\ t \in setup.receivers
    /\ r_comm[t].comm = "none" /\ r_comm[t].made < MaxComms
    /\ LET counted == [r_comm EXCEPT ![t].made = @ + 1] IN
       IF ~setup.local_mr
       THEN /\ r_comm' = [counted EXCEPT ![t].comm = "open", ![t].buffer = TRUE]
            /\ UNCHANGED <<pool, lock, handles, pc, held, fl, out, trouble, faults>>
       ELSE \/ /\ r_comm' = [counted EXCEPT ![t].comm = "setup"]
               /\ pc' = [pc EXCEPT ![t].at = "flush"]
               /\ UNCHANGED <<pool, lock, handles, held, fl, out, trouble, faults>>
            \/ /\ Fault /\ r_comm' = counted
               /\ UNCHANGED <<pool, lock, handles, pc, held, fl, out, trouble>>
    /\ UNCHANGED <<setup, cache, stray, crashed>>

\* reg_internal_mr_ep and sendrecv_mr_buffers_internal_register do without the cache.
RegFlush(t) ==
    /\ pc[t].at = "flush"
    /\ Begin(t, "flush", FlushBuffer, lock)
    /\ UNCHANGED <<setup, cache, stray, crashed>>

\* dealloc_and_dereg_flush_buff
CloseFlushRdma(t) == pc' = [pc EXCEPT ![t] = [Idle EXCEPT !.at = "key", !.kind = "flush", !.h = r_comm[t].h]]

\* sendrecv_recv_comm_close closes the registration, and that is all.
CloseFlushSendrecv(t) ==
    pc' = [pc EXCEPT ![t] = [Idle EXCEPT !.at = "close", !.kind = "flush", !.h = r_comm[t].h]]

\* The communicator is closed, without a registration or after it; one that the close
\* has left behind with an error is not closed again.
CloseRecvComm(t) ==
    /\ pc[t].at = "idle" /\ r_comm[t].comm = "open"
    /\ IF r_comm[t].h = NoHandle
       THEN FlushGone(t, TRUE)
       ELSE (IF rdma THEN CloseFlushRdma(t) ELSE CloseFlushSendrecv(t)) /\ UNCHANGED <<r_comm, fl>>
    /\ UNCHANGED <<setup, pool, cache, lock, handles, stray, held, out, crashed, trouble, faults>>

-----------------------------------------------------------------------------
(* Free lists.                                                             *)

Block == [addr |-> 0, len |-> PageSize]

\* nccl_ofi_freelist_entry_alloc: an entry at hand, or the first of a new block, which
\* freelist_regmr_host_fn registers in the RDMA protocol, or none.
TakeEntry(t) ==
    /\ pc[t].at = "idle" /\ t \in setup.listers
    /\ \/ /\ fl[t].entries # <<>>
          /\ out' = [out EXCEPT ![t] = @ \cup {Head(fl[t].entries)}]
          /\ fl' = [fl EXCEPT ![t] = EntryAlloc(@)]
          /\ UNCHANGED <<pool, lock, handles, pc, held, r_comm, trouble, faults>>
       \/ fl[t].entries = <<>> /\ ~Full(fl[t]) /\ rdma /\ Begin(t, "block", Block, lock)
       \/ /\ fl[t].entries = <<>> /\ ~Full(fl[t]) /\ ~rdma /\ Succeeds(t, "block", Block, NoHandle)
          /\ UNCHANGED <<pool, lock, handles, trouble, faults>>
    /\ UNCHANGED <<setup, cache, stray, crashed>>

\* nccl_ofi_freelist_entry_free
GiveEntry(t, e) ==
    /\ pc[t].at = "idle" /\ e \in out[t]
    /\ out' = [out EXCEPT ![t] = @ \ {e}]
    /\ fl' = [fl EXCEPT ![t] = EntryFree(@, e)]
    /\ UNCHANGED <<setup, pool, cache, lock, handles, stray, pc, held, r_comm, crashed, trouble, faults>>

\* nccl_ofi_freelist_fini, with no entries out: block after block, with
\* freelist_deregmr_host_fn.
FiniList(t) ==
    /\ pc[t].at = "idle" /\ fl[t].blocks # <<>> /\ out[t] = {}
    /\ IF rdma
       THEN /\ fl' = [fl EXCEPT ![t].entries = <<>>]
            /\ pc' = [pc EXCEPT ![t] = [Idle EXCEPT !.at = "key", !.kind = "block", !.h = Head(fl[t].blocks).handle]]
       ELSE fl' = [fl EXCEPT ![t] = NewFreeList] /\ UNCHANGED pc
    /\ UNCHANGED <<setup, pool, cache, lock, handles, stray, held, r_comm, out, crashed, trouble, faults>>

Next ==
    /\ ~crashed
    /\ \E t \in Threads :
        \/ \E b \in Buffers : RegMr(t, b) \/ DeregMr(t, b)
        \/ RegRail(t) \/ Insert(t) \/ ReturnKey(t) \/ CloseRails(t)
        \/ RecvComm(t) \/ RegFlush(t) \/ CloseRecvComm(t)
        \/ TakeEntry(t) \/ FiniList(t) \/ \E e \in out[t] : GiveEntry(t, e)

Spec == Init /\ [][Next]_vars

-----------------------------------------------------------------------------
(* Properties.                                                             *)

\* Every variable holds a value the code can hold: the pool holds ids of its words, and
\* what a thread refers to is a handle, and an entry of the cache has a user.
TypeOK ==
    /\ pool.ids \subseteq 0..NumWords(pool.size) * WordBits - 1
    /\ lock \in Threads \cup {None}
    /\ \A h \in Ids : handles[h].open \subseteq 1..NumMrs
    /\ \A t \in Threads : /\ pc[t].h \in Ids \cup {NoHandle}
                          /\ \A b \in Buffers : held[t][b] \in Ids \cup {Unregistered, NoHandle}
    /\ \A i \in DOMAIN cache.slots : cache.slots[i].handle # NoHandle => cache.slots[i].refcnt \in Nat \ {0}

Users(h) == {u \in Threads \X Buffers : held[u[1]][u[2]] = h}
Broken == \E i \in DOMAIN cache.slots : cache.slots[i].handle = NoHandle

\* An entry of the cache counts the handles NCCL has of it, and is the only entry with
\* that handle; every handle NCCL has is in the cache, when there is one: over all
\* orders of lookups, insertions, failed insertions and deletions by several threads
\* (nccl_ofi_mr_cache_lookup_entry, nccl_ofi_mr_cache_del_entry).  Only an entry that
\* could not be allocated, and left a null pointer in the cache, makes it forget one.
RefCounted ==
    /\ TypeOK
    /\ ~Broken /\ setup.cached =>
          /\ \A i \in DOMAIN cache.slots : cache.slots[i].refcnt = Cardinality(Users(cache.slots[i].handle))
          /\ \A h \in Ids : Users(h) # {} =>
                Cardinality({i \in DOMAIN cache.slots : cache.slots[i].handle = h}) = 1

Aligned(r) == r.addr % PageSize = 0 /\ (r.addr + r.len) % PageSize = 0

\* A handle that NCCL has, for whichever of the buffers that share it, is registered on
\* every rail: no thread closes what another one still uses, though the cache lock is
\* released before anything is closed (dereg_mr_ep).  The bytes registered, which are
\* those of the buffer the handle was made for (nccl_ofi_mr_ckey_fill_mr_attrs), hold
\* every byte of the buffer NCCL has the handle for: always without the cache, and with
\* it when they are whole pages.  The cache compares pages only
\* (nccl_ofi_mr_cache_lookup_entry), so that for a registration of parts of pages this
\* need not be so.
HandleOpen ==
    \A t \in Threads, b \in Buffers :
        held[t][b] \in Ids =>
            LET r == handles[held[t][b]] IN
            /\ r.alive /\ r.open = 1..NumMrs
            /\ Aligned(r) \/ ~setup.cached => r.addr <= b.addr /\ b.addr + b.len <= r.addr + r.len

\* The cache finds an entry that spans the buffer whenever it has one, though it stops
\* at the first entry that starts beyond it: insertions and deletions keep it sorted
\* (nccl_ofi_mr_cache_insert_entry).  It never uses more slots than its array has, unless
\* a realloc() has failed (nccl_ofi_mr_cache_grow doubles the size before it knows).
LookupComplete ==
    /\ ~Broken => \A b \in Buffers : Hit(cache, b) <=> \E i \in DOMAIN cache.slots : Covers(cache.slots[i], b)
    /\ cache.size = cache.cap => Len(cache.slots) <= cache.cap

InUse(h) ==
    \/ Users(h) # {} \/ \E t \in Threads : r_comm[t].h = h /\ r_comm[t].comm = "open"
    \/ \E t \in Threads : \E i \in DOMAIN fl[t].blocks : fl[t].blocks[i].handle = h

\* A key in use is not in the pool, and no other registration in use has it, as long as
\* the pool has never been found empty (set_mr_req_attr goes on with key 0 then).  A
\* thread that is closing a registration has given its key back, and another one may
\* have it by then (dereg_mr_ep).
KeysOwned ==
    Active(pool) /\ "empty" \notin trouble =>
        \A h \in Ids : InUse(h) /\ handles[h].alive /\ (\A t \in Threads : pc[t].h # h) =>
            /\ handles[h].key \notin pool.ids /\ handles[h].key < pool.size
            /\ \A i \in Ids \ {h} :
                InUse(i) /\ (\A t \in Threads : pc[t].h # i) => handles[i].key # handles[h].key

Quiet == \A t \in Threads : pc[t].at = "idle" /\ r_comm[t].comm = "none" /\ fl[t].blocks = <<>>
                             /\ \A b \in Buffers : held[t][b] = Unregistered

\* The process follows a null pointer only when keys come from the pool and a call has
\* failed or the pool was empty, or after an entry of the cache could not be allocated:
\* with keys from the provider every error path of a registration is safe.
CrashesOnlyWithKeys == crashed => (Active(pool) /\ (faults > 0 \/ trouble # {})) \/ Broken

\* When everything has been given up and nothing has failed, no handle, no entry and no
\* registration is left, and every key is back in the pool, but for one for every
\* receive communicator of the SENDRECV protocol (sendrecv_recv_comm_close closes the
\* registration of the flush buffer and keeps its key).  No error path ends the process
\* but those of a pool of keys or a cache that is short of memory.
NothingLeft ==
    /\ CrashesOnlyWithKeys
    /\ Quiet /\ faults = 0 /\ "refused" \notin trouble /\ ~crashed =>
           /\ \A h \in Ids : ~handles[h].alive
           /\ cache.slots = <<>> /\ stray = {} /\ lock = None
           /\ "empty" \notin trouble =>
               Cardinality(0..pool.size - 1) - Cardinality(pool.ids \cap 0..pool.size - 1)
               = IF ~rdma /\ setup.local_mr /\ Active(pool)
                 THEN MapThenSumSet(LAMBDA t : r_comm[t].made, Threads) ELSE 0

\* The entries of a free list, free or taken, are as many as it has made and no more
\* than its limit, no entry is free twice or free and taken, and each lies in a block
\* that is registered (nccl_ofi_freelist_add, also after registrations that failed).
FreeListCounted ==
    \A t \in Threads : pc[t].kind # "block" \/ ~pc[t].at \in {"key", "close"} \/ pc[t].undo =>
        /\ Cardinality(Range(fl[t].entries)) = Len(fl[t].entries)
        /\ Range(fl[t].entries) \cap out[t] = {}
        /\ Len(fl[t].entries) + Cardinality(out[t]) = fl[t].num
        /\ MaxEntries > 0 => fl[t].num <= MaxEntries
        /\ \A e \in Range(fl[t].entries) \cup out[t] :
            \E i \in DOMAIN fl[t].blocks :
                /\ fl[t].blocks[i].block = e[1]
                /\ rdma => handles[fl[t].blocks[i].handle].open = 1..NumMrs

=============================================================================
