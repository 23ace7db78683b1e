----------------------------- MODULE MCSendRecv ------------------------------
(***************************************************************************)
(* SendRecv for TLC: up to two connections of two threads, in parallel, in *)
(* opposite directions and of a thread with itself, without failures, with *)
(* one failure, and with more listeners than there are tags.               *)
(***************************************************************************)
EXTENDS SendRecv

CONSTANTS c1, c2, t1, t2

Setup(f1, o1, f2, o2, tags, flush, messages, n) ==
    [from |-> (c1 :> f1 @@ c2 :> f2), to |-> (c1 :> o1 @@ c2 :> o2), max_tag |-> tags,
     flush_on |-> flush, load |-> messages, faults |-> n]

MCSetups ==
    {Setup(t1, t2, t1, t2, 3, TRUE, c1 :> 1 @@ c2 :> 1, 0),
     Setup(t1, t1, t2, t1, 3, FALSE, c1 :> 1 @@ c2 :> 1, 0),
     Setup(t1, t1, t1, t2, 3, FALSE, c1 :> 0 @@ c2 :> 0, 1),
     Setup(t1, t2, t2, t1, 2, TRUE, c1 :> 0 @@ c2 :> 0, 1),
     Setup(t1, t2, t1, t2, 2, TRUE, c1 :> 1 @@ c2 :> 1, 0),
     Setup(t1, t2, t1, t2, 3, TRUE, c1 :> 1 @@ c2 :> 0, 1),
     Setup(t1, t2, t1, t2, 3, TRUE, c1 :> 2, 2),
     Setup(t1, t1, t1, t1, 3, TRUE, c1 :> 2, 1)}
=============================================================================
