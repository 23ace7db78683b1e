------------------------------ MODULE MsgBuff -------------------------------
(***************************************************************************)
(* The message buffer of src/src/nccl_ofi_msgbuff.c: a circular buffer of  *)
(* MaxInProgress slots that tracks messages by a sequence number that      *)
(* wraps at FieldSize = 2^bit_width.  Every operation runs under the       *)
(* buffer's lock, so an operation is one step.                             *)
(*                                                                         *)
(* The pair (elem, type) the code stores is one value of Elems: the two    *)
(* fields are always written together and returned together.  ret is what  *)
(* the last call returned: its result, *msg_idx_status and *elem.          *)
(*                                                                         *)
(* low is a history variable: the number, counted from 0 without wrapping, *)
(* of the message msg_last_incomplete stands for.                          *)
(***************************************************************************)
EXTENDS Integers

CONSTANTS MaxInProgress,  \* max_inprogress
          FieldSize,      \* 1 << bit_width
          Elems,          \* what callers store
          Null,           \* NULL
          MaxLow          \* bound on low

\* What nccl_ofi_msgbuff_init accepts.
ASSUME MsgBuffAssumption ==
    /\ MaxInProgress \in Nat \ {0}
    /\ FieldSize \in Nat
    /\ FieldSize > 2 * MaxInProgress
    /\ Null \notin Elems
    /\ MaxLow \in Nat

VARIABLES msg_last_incomplete, msg_next, buff, ret, low

vars == <<msg_last_incomplete, msg_next, buff, ret, low>>

Idx   == 0..(FieldSize - 1)
Slots == 0..(MaxInProgress - 1)

Entry == [stat : {"NOTSTARTED", "INPROGRESS", "COMPLETED"}, elem : Elems \cup {Null}]

Answer(result, stat, elem) == [result |-> result, stat |-> stat, elem |-> elem]

-----------------------------------------------------------------------------
Distance(front, back) == (IF front < back THEN FieldSize ELSE 0) + front - back

NumInflight == Distance(msg_next, msg_last_incomplete)

BuffIdx(idx) == idx % MaxInProgress

\* (idx + n) & field_mask
Advance(idx, n) == (idx + n) % FieldSize

\* The not-started test lets one message too many in.
GetIdxStatusLoose(idx) ==
    IF Distance(idx, msg_last_incomplete) < NumInflight
    THEN buff[BuffIdx(idx)].stat
    ELSE IF Distance(idx, msg_next) <= Distance(MaxInProgress, NumInflight)
    THEN "NOTSTARTED" ELSE "COMPLETED"

\* The tests for in-progress, completed and not-started, in the code's order.
GetIdxStatus(idx) ==
    CASE Distance(idx, msg_last_incomplete) < NumInflight ->
            buff[BuffIdx(idx)].stat
      [] /\ Distance(idx, msg_last_incomplete) >= NumInflight
         /\ idx # msg_last_incomplete
         /\ Distance(msg_last_incomplete, idx) <= MaxInProgress ->
            "COMPLETED"
      [] OTHER ->
            IF Distance(idx, msg_next) < Distance(MaxInProgress, NumInflight)
            THEN "NOTSTARTED" ELSE "UNAVAILABLE"

\* The buffer is allocated and not cleared, so a slot may hold anything.
Init ==
    /\ msg_last_incomplete = 0
    /\ msg_next = 0
    /\ buff \in [Slots -> Entry]
    /\ ret = Answer("NONE", "NOTSTARTED", Null)
    /\ low = 0

\* The loop forgets to clear what it steps over.
SkippedNone(idx) == {}

\* The indices the loop that moves msg_next steps over before it reaches idx.
\* It does not run when idx lies behind msg_next.
Skipped(idx) ==
    {i \in Idx : /\ Distance(idx, msg_next) <= MaxInProgress
                 /\ Distance(i, msg_next) < Distance(idx, msg_next)}

Insert(idx, e) ==
    /\ GetIdxStatus(idx) = "NOTSTARTED"
    /\ buff' = [s \in Slots |->
                   CASE \E i \in Skipped(idx) : BuffIdx(i) = s ->
                           [stat |-> "NOTSTARTED", elem |-> Null]
                     [] s = BuffIdx(idx) /\ ~ \E i \in Skipped(idx) : BuffIdx(i) = s ->
                           [stat |-> "INPROGRESS", elem |-> e]
                     [] OTHER -> buff[s]]
    /\ msg_next' = IF Distance(idx, msg_next) <= MaxInProgress
                   THEN Advance(idx, 1) ELSE msg_next
    /\ ret' = Answer("SUCCESS", "NOTSTARTED", Null)
    /\ UNCHANGED <<msg_last_incomplete, low>>

RefuseInsert(idx) ==
    /\ GetIdxStatus(idx) # "NOTSTARTED"
    /\ ret' = Answer("INVALID_IDX", GetIdxStatus(idx), Null)
    /\ UNCHANGED <<msg_last_incomplete, msg_next, buff, low>>

Replace(idx, e) ==
    /\ GetIdxStatus(idx) = "INPROGRESS"
    /\ buff' = [buff EXCEPT ![BuffIdx(idx)].elem = e]
    /\ ret' = Answer("SUCCESS", "INPROGRESS", Null)
    /\ UNCHANGED <<msg_last_incomplete, msg_next, low>>

RefuseReplace(idx) ==
    /\ GetIdxStatus(idx) # "INPROGRESS"
    /\ ret' = Answer("INVALID_IDX", GetIdxStatus(idx), Null)
    /\ UNCHANGED <<msg_last_incomplete, msg_next, buff, low>>

Retrieve(idx) ==
    /\ GetIdxStatus(idx) = "INPROGRESS"
    /\ ret' = Answer("SUCCESS", "INPROGRESS", buff[BuffIdx(idx)].elem)
    /\ UNCHANGED <<msg_last_incomplete, msg_next, buff, low>>

\* retrieve and complete report UNAVAILABLE as NOTSTARTED.
RefuseAccess(idx) ==
    /\ GetIdxStatus(idx) # "INPROGRESS"
    /\ ret' = Answer("INVALID_IDX",
                     IF GetIdxStatus(idx) = "UNAVAILABLE" THEN "NOTSTARTED"
                     ELSE GetIdxStatus(idx), Null)
    /\ UNCHANGED <<msg_last_incomplete, msg_next, buff, low>>

\* The tail moves over the completed message only, not over later ones.
TailMovesOnce(b, n) ==
    n = IF b[BuffIdx(msg_last_incomplete)].stat = "COMPLETED" THEN 1 ELSE 0

\* The loop that moves msg_last_incomplete stops after n steps.
TailMoves(b, n) ==
    /\ \A k \in 0..(n-1) :
          b[BuffIdx(Advance(msg_last_incomplete, k))].stat = "COMPLETED"
    /\ \/ n = NumInflight
       \/ b[BuffIdx(Advance(msg_last_incomplete, n))].stat # "COMPLETED"

Complete(idx) ==
    /\ GetIdxStatus(idx) = "INPROGRESS"
    /\ buff' = [buff EXCEPT ![BuffIdx(idx)] = [stat |-> "COMPLETED", elem |-> Null]]
    /\ \E n \in 0..NumInflight :
          /\ TailMoves(buff', n)
          /\ low + n <= MaxLow
          /\ msg_last_incomplete' = Advance(msg_last_incomplete, n)
          /\ low' = low + n
    /\ ret' = Answer("SUCCESS", "INPROGRESS", Null)
    /\ UNCHANGED msg_next

Next ==
    \E idx \in Idx :
        \/ \E e \in Elems : Insert(idx, e) \/ Replace(idx, e)
        \/ Retrieve(idx) \/ Complete(idx)
        \/ RefuseInsert(idx) \/ RefuseReplace(idx) \/ RefuseAccess(idx)

Spec == Init /\ [][Next]_vars

-----------------------------------------------------------------------------
(* Properties *)

\* The two indices stay in the range of the sequence numbers (every update is
\* masked with field_mask), and a slot holds a status and an element.
TypeOK ==
    /\ msg_last_incomplete \in Idx
    /\ msg_next \in Idx
    /\ buff \in [Slots -> Entry]
    /\ low \in Nat
    /\ ret \in [result : {"NONE", "SUCCESS", "INVALID_IDX"},
               stat : {"NOTSTARTED", "INPROGRESS", "COMPLETED", "UNAVAILABLE"},
               elem : Elems \cup {Null}]

\* The tracked window never exceeds max_inprogress slots, and msg_last_incomplete
\* is the wrapped number of the oldest tracked message.
WindowInv ==
    /\ NumInflight <= MaxInProgress
    /\ msg_last_incomplete = low % FieldSize

\* Entry the tracker has for message low + k.
TrackedEntry(k) ==
    LET b == buff[BuffIdx(Advance(msg_last_incomplete, k))]
    IN  [stat |-> b.stat, elem |-> IF b.stat = "INPROGRESS" THEN b.elem ELSE Null]

TrackedMsgs == [m \in low..(low + NumInflight - 1) |-> TrackedEntry(m - low)]

Tracker == INSTANCE MsgTracker WITH
    N       <- MaxInProgress,
    Horizon <- FieldSize - MaxInProgress,
    high    <- low + NumInflight,
    msgs    <- TrackedMsgs

\* The buffer answers every call as a tracker of unwrapped message numbers
\* would: for a sequence number that stands for a message no more than
\* max_inprogress behind and field_size - max_inprogress ahead of
\* msg_last_incomplete, insert, replace, retrieve and complete act on that
\* message and no other, whatever the wrap-around, the order of completion
\* and the garbage malloc left in the slots.
TrackerSpec == Tracker!Spec
=============================================================================
