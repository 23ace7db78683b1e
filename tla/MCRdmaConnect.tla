---------------------------- MODULE MCRdmaConnect ----------------------------
(* RdmaConnect for TLC: connections and devices are interchangeable.         *)
EXTENDS RdmaConnect

Symmetry == Permutations(Conns) \cup Permutations(Devices)
=============================================================================
