# A TLA+ model of the aws-ofi-nccl network plugin

The plugin gives NCCL's network interface (listen, connect, accept, send,
receive, flush, one-sided reads and writes, registration of memory, test, close)
on top of libfabric.  This directory models the parts of it that are hard to
test: what happens when messages overtake each other, when the network is busy,
when an operation or an allocation fails, and when two threads work on one
endpoint or one device.  `PROJECT.json` maps every definition to the lines of
the source it stands for and lists the hazards the properties are about.

## The system

| part | source | model |
|---|---|---|
| message buffer: window of messages in flight, by wrapping sequence number | `nccl_ofi_msgbuff.c` | `MsgTracker`, `MsgBuff`, `MsgBuffProofs` |
| scheduler: stripes of a message, and their rails | `nccl_ofi_scheduler.c` | `Stripes`, `Scheduler`, `SchedulerProofs` |
| RDMA protocol, data path: send, receive, test, completions, pending requests | `nccl_ofi_rdma.c` | `RdmaTransfer` |
| RDMA protocol, close of a connection | `nccl_ofi_rdma.c` | `RdmaClose` |
| RDMA protocol, bounce buffers of a rail | `nccl_ofi_rdma.c` | `BounceRail`, `BounceProofs` |
| RDMA protocol, flush and one-sided reads and writes | `nccl_ofi_rdma.c`, `nccl_ofi_deque.c` | `RdmaFlush` |
| RDMA protocol, listen / connect / accept, ids, endpoints | `nccl_ofi_rdma.c`, `nccl_ofi_ep_addr_list.c` | `RdmaConnect` |
| SENDRECV protocol | `nccl_ofi_sendrecv.c` | `SendRecv` |
| memory registration of both protocols | `nccl_ofi_rdma.c`, `nccl_ofi_sendrecv.c` | `Registration` |
| its parts: cache of registrations, pool of ids, free lists | `nccl_ofi_mr.c`, `nccl_ofi_idpool.c`, `nccl_ofi_freelist.c` | `MrCache`, `IdPool`, `FreeList` |
| start-up, choice of the protocol, devices, endpoints, exit | `nccl_ofi_net.c`, `nccl_ofi_rdma.c`, `nccl_ofi_sendrecv.c`, `platform-aws.c` | `Plugin` |
| choice and filters of providers | `nccl_ofi_ofiutils.c` | `Providers` |
| grouping of NICs into devices, order of the NICs of a group | `nccl_ofi_topo.c`, `platform-aws.c` | `Topology` |
| NCCL's API: the references it takes and releases | `nccl_ofi_api.c` | in the module of each call |

How they interact.  `create_plugin` finds providers, groups the NICs, chooses a
protocol and makes its devices.  Threads take an endpoint of a device with
`listen()` and `connect()`, and the communicators they open share it and count
it.  `send()` and `recv()` of the RDMA protocol keep their requests in a message
buffer each, at the sequence number that is also on the wire.  `recv()` sends a
control message that says where the data is to go; `send()` writes it there, in
the stripes the scheduler gives it, one write per rail.  Control, eager,
connection and close messages land in bounce buffers.  A request that libfabric
refuses with `FI_EAGAIN` goes into the endpoint's queue of pending requests.
Everything moves when some thread reads the completion queues: in `test()`, in
`send()` and `recv()` when requests are pending, and in `comm_close_handler`.  The
SENDRECV protocol has one tagged message per call instead, matched by libfabric.
Memory is registered once per device with the help of the cache, under keys that
come from a pool of ids if the provider does not choose them; free lists and
flush buffers register their own memory without the cache.

## The modules

**MsgTracker** is what a message buffer promises, with message numbers that never
wrap: a window `low..high-1` of tracked messages, all below it completed, all
above not started.  It is used twice: `MsgBuff` implements it, and `RdmaTransfer`
uses it for the buffers of its two sides.

**MsgBuff** is `nccl_ofi_msgbuff.c`: two wrapped pointers and an array of slots
indexed by the sequence number modulo the number of slots.  One action per
operation and per refusal; each takes the lock for its whole body, so an action
is one step.  `low` is a history variable, the unwrapped number behind
`msg_last_incomplete`.  The two `while` loops are described by where they stop;
`MCMsgBuff` runs them step by step and compares.

**Stripes** holds the arithmetic of `get_num_stripes` and
`set_schedule_by_threshold`; **Scheduler** adds the round-robin counter and, as a
history variable, how many stripes each rail has been dealt.  `MCScheduler`
compares with the loops.

**RdmaTransfer** is one connection: a send communicator, a receive communicator
and the network.  Requests are records with the counters the code keeps
(`ncompls`, `xferred`, `segs`).  `send()` and `recv()` are two steps each, split
between the look into the message buffer and the insertion into it, because
completions may be handled by another thread in between; the code has a branch
for each of these races.  Handlers are one step each, but for `CountCtrl`: a
control message is counted after its handler is through, and the counter is what
permits the communicator to be destroyed.  Every post may be refused; what is
posted is in the network until the peer handles it and in the completion queue
until its own side does, in any order.  `ErrorCompletion` completes any operation
in error instead.  `fail` records error returns, so that "this branch is never
taken" can be stated.

**RdmaClose** extends it with the close protocol: the close message with the
number of control messages, and the destruction of the two communicators by
`comm_close_handler`.

**BounceRail** is the count of posted bounce buffers of one rail, with every
buffer and every thread: the count is changed in short critical sections of
handlers that run in several threads, and read without the lock.  The steps are
the critical sections and the posts between them.

**RdmaFlush** is `flush()`, `rma_read()`, `rma_write()` and `rma_write_inline()` of
two communicators on one endpoint, each with a thread of its own.  A call, a
post and a retry from the queue of pending requests are steps of their own, so
that the other thread may read completions in between.  A request is the address
the completion carries: requests are used again, and a completion counts on
whatever is there (`serial` tells the uses apart).  `trouble` records how posting
went wrong: a flush posted on some rails only or again on all, or freed with reads
under way.

**RdmaConnect** is the life of several connections between devices of different
processes: `listen()`, the stages of `connect()` and `accept()`, and the closes.
A stage is an action, as a call may return before each of them and the next call
resumes from the saved stage.  Communicators of all kinds share the ids and the
table of their device, and hold references to endpoints, including those that
`endpoint_per_communicator` takes from the address list.  `accept()` picks its
endpoint in one step and counts its reference in the next; with `OneThread` no
other call on the device comes between.  A `connect()` may fail to make its
communicator, any number of times.  The data path is left out: it is `RdmaTransfer`.

**SendRecv** is the second protocol: endpoints of threads with their tags, the
stages of `connect()` and `accept()` with connections of a thread to itself, the
requests of the communicators, and libfabric's matching of tagged messages.  A
call of NCCL is one step, as no other thread touches the endpoint.  Posts are
refused, operations and the completion queue fail, and `listen()`, `connect()` and
`accept()` fail at the points where they can, up to a number the setup gives.

**IdPool**, **MrCache** and **FreeList** are the operations of three libraries, each
under its lock from beginning to end and so a function of its state.  A pool of
ids is a set of bits in words; the cache is a sorted sequence of page ranges with
reference counts, in an array that may fail to grow; a free list grows by blocks.

**Registration** puts them together for both protocols: registrations of NCCL's
buffers through the cache, of flush buffers and of blocks of free lists without
it.  A handle is made rail by rail, and given up in the steps of the code (cache,
key, registrations), because threads share the cache, its lock and the keys.  Any
allocation or registration may fail, and the undoing of what was done is
modelled.  `stray` are registrations nothing leads to any more.

**Plugin** is start-up to exit.  `nccl_net_ofi_create_plugin` goes through stages;
devices, rails and endpoints open libfabric objects one by one, each of which may
fail, and the error paths close what the code closes.  `open` are the objects that
are open: one cannot be closed while another that uses it is open.  When the
plugin is up, threads take and release endpoints.  **Topology** is the grouping of
NICs over a hardware tree, with the lifting, sorting and splitting of the lists,
and **Providers** the choice of infos; both are functions.

What is abstracted.  Payloads are sizes; addresses, keys and rails of messages are
left out where no property depends on them.  Hardware topologies are trees whose
nodes are numbered in the order hwloc visits them.  What a provider answers is
part of the setup.

A `Setups` constant is a set of configurations (protocol, number of rails, who does
what, how much may fail), one of which is chosen in the initial state: one run
covers them all, and every combination listed in the `MC` module is a
configuration a process can have.

## The runs

| run | shows |
|---|---|
| `msgbuff` | The buffer implements the tracker (`TrackerSpec`), its window stays within the slots (`WindowInv`), its loops do what the actions say (`LoopsAgree`). 2 slots and 8 sequence numbers, which wrap twice. |
| `scheduler` | Stripes cover a message exactly, on different rails, and a message that must not be striped is not (`StripesCover`); rails are dealt equally (`Balanced`); the loops agree (`LoopsAgree`). 4 rails, sizes up to 17 with stripes of 3 and alignment 2: one, two and four stripes, short and empty ones. |
| `transfer` | Both sides report the same size (`SizesAgree`); a completed request is out of reach of every late event (`CompleteMeansOver`); stripes are posted once (`PostedOnce`); no failed operation is taken for a success (`NoFalseSuccess`); nothing refers to a destroyed communicator (`NothingAfterDestroy`); the count in the close message is final (`CountIsFinal`). Two messages, each empty, eager, cut by the receive buffer, or striped; two rails; one error; requests tested in any order. |
| `transfer_live` | No handler meets a slot in a state it rejects (`NoSurprise`) and everything ends (`BothDestroyed`). Four messages and two requests in flight, so that each side can be as far ahead as a message buffer of twice the requests allows. |
| `bounce` | The count is right at every point, and the code's assertions about it hold (`CountAgrees`); with no more than two threads, a rail is not left dry for good (`KeepsReceiving`). Two threads, five buffers, two to three posted, one failed allocation. |
| `connect` | Messages arrive at a live endpoint and find the communicator they were meant for (`FindsItsComm`); the two sides of a connection name each other (`PeersAgree`); ids and endpoint references are owned exactly (`IdsOwned`, `EndpointCounted`); when no step is possible everything is released (`NothingLeftBehind`). Two connections between two devices, in every direction, with and without `endpoint_per_communicator`, and any number of failed `connect()`s. |
| `sendrecv` | Requests are free, held or the connect request, and counted (`RequestsCounted`); what a call waits for is in exactly one place (`RequestsInOnePlace`); references of endpoints add up (`EndpointCounted`); messages reach the receives of their connection in order (`ReceivedInOrder`); with no failure the system rests only when all is done (`RestsWhenDone`). Two threads, two connections in parallel, in opposite directions and to oneself, with up to two failures, and with more listeners than tags. |
| `registration` | Users of a cached registration are counted (`RefCounted`); what a user holds is open on every rail and, if it was registered in whole pages or without the cache, has all bytes of the buffer (`HandleOpen`); the cache finds what it has (`LookupComplete`); a key has one owner (`KeysOwned`); nothing is left when all is given up, and errors do not end the process (`NothingLeft`); entries of free lists are counted and registered (`FreeListCounted`). Two threads, nine configurations of both protocols, up to two failures, pools of no, one, two and four keys. |
| `flush` | Requests in flight are counted and one is at hand below the limit (`InflightCounted`); what NCCL waits for is posted or pending, once (`WaitsForSomething`); a flush reported done was read on every rail (`FlushedOnAllRails`). Two threads, one and two rails, three requests with two at a time, up to two busy rails, failed posts, an operation in error. |
| `startup` | NICs are grouped by locality and none is lost (`GroupsByLocality`); what is in use is open and nothing is closed twice (`UsedIsOpen`); what is left at exit (`LeftAtExit`); the protocol is chosen by rules 1 to 4 of the comment in `create_plugin`, and GPUDirect and ordering stay as decided (`AsDecided`); a thread has one endpoint per device (`OneEndpointPerThread`). All trees of two bridges with five devices and trees with four NICs and three or four accelerators; 28 environments with different platforms, providers and options; a failure of any libfabric call. |

Runs that end in a counterexample, each about a line of the repository that says
otherwise:

| run | shows |
|---|---|
| `transfer_race` | An eager message that arrives during `recv()` makes it return `-ENOMEM`, where the comment has NCCL call it again. |
| `connect_threads` | With `endpoint_per_communicator` and two threads, `accept()` picks an endpoint of the address list that a close frees before `accept()` has counted its reference. |

Remarks on single properties:

* `NoSurprise` is checked for callers that test their requests in order: with
  requests tested in any order a fifth message finds the message buffer of four
  full, although `send()` limits the requests in flight.  The bound is tight: with
  three slots the property fails for in-order callers too.
* `KeepsReceiving` is stated for at most two threads on a rail, because it does not
  hold for three: one thread promises buffers and gives the promises back after
  `FI_EAGAIN`; before it does, another counts the rail as full and keeps the last
  buffer for a message that waits, and a third later frees that buffer in
  `check_post_bounce_req`, as the rail still counts as full.  No buffer is posted
  then, and no completion comes that would make a thread look again.
* `HandleOpen` says nothing about the bytes of a buffer that shares a cached
  registration of parts of pages; see "Known limits".
* `BothDestroyed`, `WaitsForSomething`, `FlushedOnAllRails`, `KeysOwned` and
  `LookupComplete` make exceptions for situations that the code does reach
  (`CLOSE_LOST`, `trouble`, a cache whose array did not grow).  The hazards behind
  these exceptions are listed in `PROJECT.json` without a property.
* `SendRecv` assumes that a thread connected to itself calls `send()` only when
  `accept()` has returned or failed: `send()` frees the request of the connect message
  without regard to an `accept()` that has still to look at it.
* `NothingLeftBehind` has one exception, `HastyClose`.  A communicator is counted as
  open when `accept()` returns it.  Two processes that each close their only counted
  communicator, while each has an `accept()` to finish, both wait in
  `comm_close_handler` for the other's close message.
* In `registration`, `flush` and `startup` the properties are stated up to what the
  code is known not to keep, listed under "Known limits": `trouble`, `Broken`,
  `stuck` and `faults` name those situations, and the properties say that nothing
  else leads to them or follows from them.

Bounds.  `MaxLow`, `MaxUsed`, `MaxMsgs`, `MaxOps`, `MaxComms` and the numbers of
failures (`MaxErrors`, `MaxFailures`, `faults`, `busy`, `fails`) cut off
histories; `MaxHeld` is the number of messages a rail's buffers wait for;
`NumHandles` is as many handles as the configurations can have at once, or one
more waits.  Sequence numbers wrap only in `MsgBuff`, which needs no more than two
turns; `RdmaTransfer` can leave wrapping out because the buffer implements the
tracker.  `connect` has four ids per device, as many as its communicators can hold
at once; the lowest free id is taken, so ids are used again all the same.  Words
of the pool of ids have two bits and pages two bytes: buffers that share a page,
span two, or lie within another occur.  Runs that check liveness have no
symmetry.  Deadlock is not checked where the system stops when its messages are
delivered or its histories end; `NothingLeftBehind` and `RestsWhenDone` say where it
may stop.

Fairness.  `RdmaClose`: NCCL calls `send()`, `recv()` and `test()` until it has
what it asked for, then closes; each call of `test()` reads the completion queues
and retries pending requests; the last close of a process loops in
`comm_close_handler`.  So each of these steps is weakly fair; no order among
completions is assumed, and errors are never forced.  `BounceRail`: a thread in a
handler goes on, pending requests are retried, and messages held are used in the
end by `send()` and `recv()`; arrival of messages is not fair.  The other modules have
no fairness: their histories are finite, so that every behaviour comes to rest.

## What is proved

`MsgBuffProofs`, with the facts about remainders in `NumberLemmas`:

* `WindowTheorem`: `Spec => [](TypeOK /\ WindowInv)`, for every `max_inprogress`
  and number of sequence numbers that `nccl_ofi_msgbuff_init` accepts.
  `TypeOK /\ WindowInv` is inductive: `Insert` needs that a message told
  "not started" is less than a window ahead (`NotStartedWhere`), `Complete` that
  the tail stops at `msg_next` at the latest.
* `Refinement`: if the slots divide the sequence numbers (`Divides`), the buffer
  implements the tracker.  The argument: each sequence number stands for exactly
  one message near the window (`MsgOfSeq`), for which both answer the same status
  (`StatusAgrees`); messages of the window lie in slots of their own
  (`SlotsDistinct`), so a step changes the entry of its message and of no other;
  the skipped slots are exactly the messages that become tracked (`InsertSlots`).
  `nccl_ofi_msgbuff_init` does not check this; the plugin's sizes, 256 of 1024, divide.

`SchedulerProofs`:

* `CoverTheorem`: `Spec => []StripesCover`, for every number of rails, stripe size
  and alignment.  `get_num_stripes` gives at least one stripe and at most one per
  rail (`NumStripesFacts`), that many stripes of the aligned size hold the message
  (`MaxStripeFacts`), stripe `k` ends where stripe `k + 1` begins (`StripeFacts`),
  and fewer than `NumRails` consecutive numbers have different remainders.
* `BalanceTheorem`: `Spec => []Balanced`.  `Balanced` is not inductive: it does not
  say which rails are ahead.  `Rounds` does: the stripes dealt are full rounds
  of all rails and one round that has come as far as the counter.

`BounceProofs`:

* `CountTheorem`: `Spec => []CountAgrees`, for any threads, buffers and limits.  The
  inductive invariant adds that a buffer in the hands of a thread is in no other
  hands (`Hands`), so that posting it counts once, and that a thread owes buffers
  only while it posts them or gives them back (`Owed`).  What a thread has promised
  is counted by a set of pairs, so that the sum over the threads is a cardinality.

The assumptions are those about the constants: `MsgBuffAssumption` (what
`nccl_ofi_msgbuff_init` checks) with `Divides` for `Refinement`,
`StripesAssumption` and `SchedulerAssumption` (positive numbers), and
`BounceAssumption` (finite sets, `min_bounce_posted` at most `max_bounce_posted`).

Only model-checked: everything else.  Liveness and what a recursive definition
computes stay with TLC, being outside the proof system's reach; the invariants of
`RdmaTransfer`, `RdmaConnect`, `SendRecv`, `Registration`, `RdmaFlush` and `Plugin`
are checked on the instances above only.

## Known limits of the code that the models show

Found while modelling and kept in the models; the properties are stated around
them.

RDMA protocol:

* The error of an eager copy does not reach the receive request, which never
  completes; a close message taken from the queue of pending requests is rejected
  by `process_pending_reqs` (`CLOSE_LOST`).
* A flush for which one rail is busy is either left without that rail or posted
  again on all rails; a flush freed after a failed post leaves reads under way whose
  completions count on the next user of the request.
* A `connect()` that fails once its communicator exists releases the endpoint in the
  destruction of the communicator and again in `nccl_net_ofi_connect`.
* Keys go back to the pool before the registration is closed: another thread's
  registration with that key may be refused.  With an empty pool a registration
  goes on with key 0; undoing a registration whose first rail failed reads its key
  through a null pointer.
* With three threads on a rail its last bounce buffer can be freed while another
  thread's promise of new ones is being given back (see `KeepsReceiving`).
* An endpoint that cannot be created is released under the lock of the device,
  which its release takes again: the thread waits for itself (`stuck`).  The error
  path of `init_connection` closes a completion queue it was given.
* At exit domains are closed before the completion queue of a device, and domains
  of threads not at all.

SENDRECV protocol:

* A connect or accept request in error makes `connect()` or `accept()` return
  nothing for ever; when the completion queue fails, requests are freed with their
  operations posted.
* `accept()` may still read the request of a connection to itself when a failing
  `connect()` has freed it; `closeListen` with an `accept()` pending leaves a
  reference.
* The registration of a flush buffer is closed without its key going back; a
  failed one is reported as success, and if bind or enable failed its registration
  stays with the communicator.  When the registration of a flush buffer cannot be
  closed, the close of the communicator ends there and the communicator is left.
  Without a key left a registration succeeds with no handle; a failed bind or enable
  of another buffer leaves registration and key.
* Failing paths of `create_endpoint`, and `device_release`, leave domains and fabrics
  open.

Start-up, cache, pools:

* The comment of `nccl_net_ofi_create_plugin` ends its rules for the choice of the
  protocol with "If the rdma protocol initialized successfully, use that."
  (`nccl_ofi_net.c:184-185`).  The code has no such case: when only the RDMA protocol
  initialized and no device has more than one rail, it releases that plugin and
  start-up fails (lines 244-255).  `AsDecided` states the rules before it.
* The cache compares pages, and a registration is of the bytes that were asked for.
  After a registration of part of a page, another buffer of the same pages is given
  the same handle, although the handle lacks some of its bytes: with pages of two
  bytes, bytes 1 and 2 are registered and bytes 0 and 1 are then found in the cache.
* `create_groups_from_info_list` passes the size of a group to `platform_sort_rails`
  as the number of groups.  The tag formats in the TCP filter are compared with
  themselves.  Groups of different sizes make `complete_init` of the RDMA protocol
  fail.
* The cache doubles its size before `realloc()` is known to have succeeded, and an
  entry that cannot be allocated leaves a null pointer in the array.
* `nccl_ofi_idpool_init` leaves bits of the last word unset by anything for sizes
  that are a multiple of 8 and not of 64; the plugin has no such pool.

## Not modelled

* Hard failures of posting in `send()` and `recv()` of the RDMA protocol, and
  accesses of a handler to a request that another thread may have freed by then
  (two hazards in `PROJECT.json` say where): a handler of `RdmaTransfer` is one
  step, and splitting it at every access is beyond the instance TLC can check.
* Failures of `connect()` after its communicator is made and of `accept()` in
  `prepare_recv_comm`; `SendRecv` has the failures of both.
* The tuner: a floating-point cost model and a point-in-polygon test over tables,
  without state that changes.
* Entry tables and version shims (`nccl_ofi_interface_*.c`, `nccl_ofi_compat.c`,
  most of the argument checks of `nccl_ofi_api.c`): no state.
* hwloc and the topology file written for NCCL, the table of instance types, sysfs:
  translations of data between formats.
* Parameters, tracing, CUDA, DMA-BUF and accelerator calls: wrappers of drivers and
  of the environment.
* The device properties told to NCCL, but for GPUDirect.
