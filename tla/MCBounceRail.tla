---------------------------- MODULE MCBounceRail ----------------------------
(* BounceRail for TLC: threads and buffers are interchangeable.            *)
EXTENDS BounceRail, TLC

Symmetry == Permutations(Threads) \cup Permutations(Bufs)
=============================================================================
