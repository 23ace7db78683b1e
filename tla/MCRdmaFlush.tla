----------------------------- MODULE MCRdmaFlush -----------------------------
(* Instances of RdmaFlush. *)
EXTENDS RdmaFlush

Base == [rails |-> 1, flush_on |-> TRUE, calls |-> {"FLUSH", "READ", "WRITE", "INLINE"}, busy |-> 1, fails |-> 0,
         errors |-> 0]

MCSetups == {Base,
    [Base EXCEPT !.rails = 2, !.calls = {"FLUSH", "WRITE"}, !.busy = 2],
    [Base EXCEPT !.rails = 2, !.calls = {"FLUSH", "WRITE"}, !.fails = 1],
    [Base EXCEPT !.errors = 1],
    [Base EXCEPT !.fails = 2, !.busy = 0],
    [Base EXCEPT !.flush_on = FALSE]}
=============================================================================
