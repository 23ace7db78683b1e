--------------------------- MODULE MCRegistration ----------------------------
(***************************************************************************)
(* Registration for TLC: two threads, pages of two bytes.                  *)
(***************************************************************************)
EXTENDS Registration

Buffer(a, n) == [addr |-> a, len |-> n]

\* A page, two pages, and the second of them: in the cache one covers another.
One == {Buffer(0, 2)}
Two == {Buffer(0, 2), Buffer(1, 2)}
Three == {Buffer(0, 2), Buffer(0, 4), Buffer(2, 2)}

Base == [protocol |-> "rdma", keys |-> 0, cached |-> TRUE, local_mr |-> TRUE, endpoint_mr |-> FALSE,
         checks |-> FALSE, domain_per_thread |-> FALSE, rails |-> 1, control_rails |-> 1,
         buffers |-> Three, faults |-> 0, users |-> Threads, receivers |-> {}, listers |-> {}]

MCSetups == {Base,
    [Base EXCEPT !.keys = 2, !.buffers = Two, !.faults = 2],
    [Base EXCEPT !.keys = 2, !.cached = FALSE, !.buffers = One, !.users = {"t1"}, !.receivers = {"t1"},
                 !.listers = {"t2"}, !.faults = 1],
    [Base EXCEPT !.rails = 2, !.buffers = One, !.users = {"t1"}, !.listers = {"t2"}, !.faults = 1],
    [Base EXCEPT !.keys = 1, !.buffers = Two, !.users = {"t1"}, !.receivers = {"t2"}],
    [Base EXCEPT !.protocol = "sendrecv", !.keys = 4, !.checks = TRUE, !.buffers = One,
                 !.receivers = {"t1"}, !.faults = 1],
    [Base EXCEPT !.protocol = "sendrecv", !.keys = 2, !.checks = TRUE, !.buffers = Two, !.cached = FALSE],
    [Base EXCEPT !.protocol = "sendrecv", !.endpoint_mr = TRUE, !.keys = 2, !.checks = TRUE,
                 !.buffers = One, !.receivers = {"t1"}, !.faults = 1],
    [Base EXCEPT !.protocol = "sendrecv", !.local_mr = FALSE, !.buffers = One, !.receivers = {"t1"},
                 !.listers = {"t2"}]}
=============================================================================
