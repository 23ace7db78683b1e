----------------------------- MODULE MCMsgBuff ------------------------------
(* MsgBuff for TLC, and the two loops of msgbuff.c run step by step. *)
EXTENDS MsgBuff

\* The while loop of nccl_ofi_msgbuff_insert: <<buff, msg_next>> after it.
RECURSIVE InsertLoop(_, _, _)
InsertLoop(b, next, idx) ==
    IF Distance(idx, next) > MaxInProgress THEN <<b, next>>
    ELSE InsertLoop(IF next = idx THEN b
                    ELSE [b EXCEPT ![BuffIdx(next)] = [stat |-> "NOTSTARTED", elem |-> Null]],
                    (next + 1) % FieldSize, idx)

\* The while loop of nccl_ofi_msgbuff_complete: msg_last_incomplete after it.
RECURSIVE CompleteLoop(_, _)
CompleteLoop(b, tail) ==
    IF tail = msg_next \/ b[BuffIdx(tail)].stat # "COMPLETED" THEN tail
    ELSE CompleteLoop(b, (tail + 1) % FieldSize)

\* The steps of nccl_ofi_msgbuff_insert and nccl_ofi_msgbuff_complete, which Insert
\* describes by the set of indices its loop steps over and Complete by where its loop
\* stops, are the steps the loops take.
LoopsAgree ==
    [][\A idx \in Idx, e \in Elems :
          /\ Insert(idx, e) =>
              <<buff', msg_next'>> =
                 InsertLoop([buff EXCEPT ![BuffIdx(idx)] = [stat |-> "INPROGRESS", elem |-> e]],
                            msg_next, idx)
          /\ Complete(idx) => msg_last_incomplete' =
                 CompleteLoop([buff EXCEPT ![BuffIdx(idx)] = [stat |-> "COMPLETED", elem |-> Null]],
                              msg_last_incomplete)]_vars
=============================================================================
