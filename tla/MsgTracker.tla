----------------------------- MODULE MsgTracker -----------------------------
(***************************************************************************)
(* What the message buffer of src/src/nccl_ofi_msgbuff.c promises to the   *)
(* protocol above it, stated over message numbers that never wrap.         *)
(*                                                                         *)
(* Messages are numbered 0, 1, 2, ...  Those below low are complete, those *)
(* in low..high-1 are tracked one by one, those from high on have not been *)
(* started.  At most N messages are tracked at a time.  A caller may ask   *)
(* about any message from N below low up to Horizon above it, and is told  *)
(* the truth about that message.                                           *)
(*                                                                         *)
(* InsertMsg, ReplaceMsg and CompleteMsg say what a call does to the       *)
(* tracked messages, for the modules of the protocol; Insert, Replace and  *)
(* Complete add the answer the caller gets.                                *)
(***************************************************************************)
EXTENDS Integers

CONSTANTS N,        \* the most messages tracked at a time
          Horizon,  \* how far above low a caller may ask
          Elems,    \* what callers store: requests and bounce buffers
          Null      \* no element

VARIABLES low, high, msgs, ret

vars == <<low, high, msgs, ret>>

Entry == [stat : {"NOTSTARTED", "COMPLETED"}, elem : {Null}]
             \cup [stat : {"INPROGRESS"}, elem : Elems]

Absent   == [stat |-> "NOTSTARTED", elem |-> Null]
Done     == [stat |-> "COMPLETED",  elem |-> Null]
Holds(e) == [stat |-> "INPROGRESS", elem |-> e]

Answer(result, stat, elem) == [result |-> result, stat |-> stat, elem |-> elem]

\* The status of message m.
Status(m) ==
    CASE m < low              -> "COMPLETED"
      [] m \in low..(high-1)  -> msgs[m].stat
      [] m \in high..(low+N-1) -> "NOTSTARTED"
      [] OTHER                -> "UNAVAILABLE"

Init ==
    /\ low = 0
    /\ high = 0
    /\ msgs = [m \in {} |-> Absent]
    /\ ret = Answer("NONE", "NOTSTARTED", Null)

\* Start tracking m; messages skipped on the way are tracked as not started.
InsertMsg(m, e) ==
    /\ Status(m) = "NOTSTARTED"
    /\ high' = IF m < high THEN high ELSE m + 1
    /\ msgs' = [k \in low..(high'-1) |->
                   IF k = m THEN Holds(e) ELSE IF k < high THEN msgs[k] ELSE Absent]
    /\ UNCHANGED low

Insert(m, e) ==
    /\ InsertMsg(m, e)
    /\ ret' = Answer("SUCCESS", "NOTSTARTED", Null)

ReplaceMsg(m, e) ==
    /\ Status(m) = "INPROGRESS"
    /\ msgs' = [msgs EXCEPT ![m] = Holds(e)]
    /\ UNCHANGED <<low, high>>

Replace(m, e) ==
    /\ ReplaceMsg(m, e)
    /\ ret' = Answer("SUCCESS", "INPROGRESS", Null)

Retrieve(m) ==
    /\ Status(m) = "INPROGRESS"
    /\ ret' = Answer("SUCCESS", "INPROGRESS", msgs[m].elem)
    /\ UNCHANGED <<low, high, msgs>>

\* Complete m.  low moves to the lowest message that is not complete.
CompleteMsg(m) ==
    /\ Status(m) = "INPROGRESS"
    /\ \E l \in low..high :
          /\ \A k \in low..(l-1) : k = m \/ msgs[k].stat = "COMPLETED"
          /\ l # high => l # m /\ msgs[l].stat # "COMPLETED"
          /\ low' = l
          /\ msgs' = [k \in l..(high-1) |-> IF k = m THEN Done ELSE msgs[k]]
    /\ UNCHANGED high

Complete(m) ==
    /\ CompleteMsg(m)
    /\ ret' = Answer("SUCCESS", "INPROGRESS", Null)

\* A refused call changes nothing.  Only an insertion tells a message beyond
\* the tracked ones apart from one that is merely not started.
RefuseInsert(m) ==
    /\ Status(m) # "NOTSTARTED"
    /\ ret' = Answer("INVALID_IDX", Status(m), Null)
    /\ UNCHANGED <<low, high, msgs>>

RefuseReplace(m) ==
    /\ Status(m) # "INPROGRESS"
    /\ ret' = Answer("INVALID_IDX", Status(m), Null)
    /\ UNCHANGED <<low, high, msgs>>

RefuseAccess(m) ==
    /\ Status(m) # "INPROGRESS"
    /\ ret' = Answer("INVALID_IDX",
                     IF Status(m) = "UNAVAILABLE" THEN "NOTSTARTED" ELSE Status(m), Null)
    /\ UNCHANGED <<low, high, msgs>>

Next ==
    \E m \in (low - N)..(low + Horizon - 1) :
        \/ \E e \in Elems : Insert(m, e) \/ Replace(m, e)
        \/ Retrieve(m) \/ Complete(m)
        \/ RefuseInsert(m) \/ RefuseReplace(m) \/ RefuseAccess(m)

Spec == Init /\ [][Next]_vars
=============================================================================
