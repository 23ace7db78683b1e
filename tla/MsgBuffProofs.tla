--------------------------- MODULE MsgBuffProofs ----------------------------
(***************************************************************************)
(* Proofs about MsgBuff for every buffer size and every field size that    *)
(* nccl_ofi_msgbuff_init accepts: types, the bound on the tracked window,  *)
(* and, when the buffer size divides the field size, that the buffer       *)
(* implements MsgTracker.                                                  *)
(***************************************************************************)
EXTENDS MsgBuff, NumberLemmas

\* Distance is the number of steps from back to front, modulo FieldSize.
LEMMA DistanceType ==
    ASSUME NEW f \in Idx, NEW b \in Idx
    PROVE  Distance(f, b) \in Idx
BY MsgBuffAssumption DEF Distance, Idx

\* Masked sequence numbers stay in range.
LEMMA AdvanceType ==
    ASSUME NEW i \in Idx, NEW n \in Nat
    PROVE  Advance(i, n) \in Idx
<1>1. i + n \in Int /\ FieldSize \in Nat \ {0}
  BY MsgBuffAssumption DEF Idx
<1> QED BY <1>1, DivMod DEF Advance, Idx

\* A sequence number names a slot of the backing buffer.
LEMMA BuffIdxType ==
    ASSUME NEW i \in Idx
    PROVE  BuffIdx(i) \in Slots
<1>1. i \in Int /\ MaxInProgress \in Nat \ {0}
  BY MsgBuffAssumption DEF Idx
<1> QED BY <1>1, DivMod DEF BuffIdx, Slots

\* Remainders by FieldSize keep distances: the wrap-around is invisible
\* between numbers less than FieldSize apart.
LEMMA DistanceMod ==
    ASSUME NEW l \in Int, NEW m \in Int, l <= m, m < l + FieldSize
    PROVE  Distance(m % FieldSize, l % FieldSize) = m - l
<1> DEFINE F == FieldSize
<1>0. F \in Nat \ {0} BY MsgBuffAssumption
<1> HIDE DEF F
<1>1. l \div F \in Int /\ l % F \in 0..(F - 1) /\ l = F * (l \div F) + (l % F)
  BY <1>0, DivMod
<1>2. m \div F \in Int /\ m % F \in 0..(F - 1) /\ m = F * (m \div F) + (m % F)
  BY <1>0, DivMod
<1>3. m < l + F BY DEF F
<1>4. ~ (m \div F < l \div F)
  <2>1. SUFFICES ASSUME m \div F < l \div F PROVE FALSE OBVIOUS
  <2>2. F * (m \div F) + F <= F * (l \div F) BY <2>1, <1>0, <1>1, <1>2, MulMono
  <2> QED BY <2>2, <1>0, <1>1, <1>2
<1>5. ~ (l \div F + 1 < m \div F)
  <2>1. SUFFICES ASSUME l \div F + 1 < m \div F PROVE FALSE OBVIOUS
  <2>2. F * (l \div F + 1) + F <= F * (m \div F)
    BY <2>1, <1>0, <1>1, <1>2, l \div F + 1 \in Int, MulMono
  <2>3. F * (l \div F + 1) = F * (l \div F) + F BY <1>0, <1>1, SMT
  <2> QED BY <2>2, <2>3, <1>0, <1>1, <1>2, <1>3
<1>6. CASE m \div F = l \div F
  BY <1>6, <1>0, <1>1, <1>2 DEF Distance, F
<1>7. CASE m \div F = l \div F + 1
  <2>1. F * (m \div F) = F * (l \div F) + F BY <1>7, <1>0, <1>1, SMT
  <2>2. m % F < l % F BY <2>1, <1>0, <1>1, <1>2, <1>3
  <2> QED BY <2>1, <2>2, <1>0, <1>1, <1>2 DEF Distance, F
<1> QED BY <1>1, <1>2, <1>4, <1>5, <1>6, <1>7

\* One masked step and a masked step of up to FieldSize, without remainders.
LEMMA AdvanceSmall ==
    ASSUME NEW i \in Idx, NEW n \in 0..FieldSize
    PROVE  Advance(i, n) = IF i + n < FieldSize THEN i + n ELSE i + n - FieldSize
<1>0. FieldSize \in Nat \ {0} BY MsgBuffAssumption
<1>1. CASE i + n < FieldSize
  <2>1. i + n \in 0..(FieldSize - 1) BY <1>0, <1>1 DEF Idx
  <2>2. (FieldSize * 0 + (i + n)) % FieldSize = i + n
    BY <1>0, <2>1, 0 \in Int, ModUnique, Zenon
  <2> QED BY <1>0, <1>1, <2>1, <2>2 DEF Advance
<1>2. CASE ~ (i + n < FieldSize)
  <2>1. i + n - FieldSize \in 0..(FieldSize - 1) BY <1>0, <1>2 DEF Idx
  <2>2. (FieldSize * 1 + (i + n - FieldSize)) % FieldSize = i + n - FieldSize
    BY <1>0, <2>1, 1 \in Int, ModUnique
  <2>3. FieldSize * 1 + (i + n - FieldSize) = i + n BY <1>0 DEF Idx
  <2> QED BY <1>2, <2>2, <2>3 DEF Advance
<1> QED BY <1>1, <1>2

Statuses == {"NOTSTARTED", "INPROGRESS", "COMPLETED", "UNAVAILABLE"}

\* nccl_ofi_msgbuff_get_idx_status answers one of four statuses.
LEMMA StatusType ==
    ASSUME TypeOK, NEW i \in Idx
    PROVE  GetIdxStatus(i) \in Statuses
<1>1. buff[BuffIdx(i)].stat \in Statuses
  BY BuffIdxType DEF TypeOK, Entry, Statuses
<1> QED BY <1>1 DEF GetIdxStatus, Statuses

\* A message told to be not started lies in the window, where it leaves
\* msg_next alone, or less than a full window ahead of msg_last_incomplete.
LEMMA NotStartedWhere ==
    ASSUME TypeOK, WindowInv, NEW i \in Idx, GetIdxStatus(i) = "NOTSTARTED"
    PROVE  \/ /\ Distance(i, msg_last_incomplete) < NumInflight
              /\ Distance(i, msg_next) > MaxInProgress
           \/ /\ Distance(i, msg_last_incomplete) >= NumInflight
              /\ NumInflight + Distance(i, msg_next) < MaxInProgress
<1>1. /\ msg_last_incomplete \in Idx /\ msg_next \in Idx
      /\ NumInflight \in Idx /\ NumInflight <= MaxInProgress
  BY DistanceType DEF TypeOK, WindowInv, NumInflight
<1>2. CASE Distance(i, msg_last_incomplete) < NumInflight
  BY <1>1, <1>2, MsgBuffAssumption DEF NumInflight, Distance, Idx
<1>3. CASE ~ (Distance(i, msg_last_incomplete) < NumInflight)
  <2>1. Distance(i, msg_last_incomplete) >= NumInflight
    BY <1>1, <1>3, DistanceType DEF Idx
  <2>2. Distance(i, msg_next) < Distance(MaxInProgress, NumInflight)
    BY <1>3, <2>1 DEF GetIdxStatus
  <2>3. Distance(MaxInProgress, NumInflight) = MaxInProgress - NumInflight
    BY <1>1, MsgBuffAssumption DEF Distance, Idx
  <2> QED BY <1>1, <2>1, <2>2, <2>3, DistanceType, MsgBuffAssumption DEF Idx
<1> QED BY <1>2, <1>3

IInv == TypeOK /\ WindowInv

\* nccl_ofi_msgbuff_init establishes the invariant.
LEMMA InitIInv == Init => IInv
<1> SUFFICES ASSUME Init PROVE IInv OBVIOUS
<1>1. TypeOK
  BY MsgBuffAssumption DEF Init, TypeOK, Idx, Answer
<1>2. 0 % FieldSize = 0
  BY MsgBuffAssumption, DivMod
<1>3. WindowInv
  BY <1>2, MsgBuffAssumption DEF Init, WindowInv, NumInflight, Distance
<1> QED BY <1>1, <1>3 DEF IInv

\* nccl_ofi_msgbuff_insert preserves the invariant: msg_next moves past the message
\* and not out of the window.
LEMMA InsertIInv ==
    ASSUME IInv, NEW i \in Idx, NEW e \in Elems, Insert(i, e)
    PROVE  IInv'
<1>0. TypeOK /\ WindowInv BY DEF IInv
<1>1. /\ msg_last_incomplete \in Idx /\ msg_next \in Idx
      /\ NumInflight \in Idx /\ NumInflight <= MaxInProgress
  BY <1>0, DistanceType DEF TypeOK, WindowInv, NumInflight
<1>2. Advance(i, 1) = IF i + 1 < FieldSize THEN i + 1 ELSE i + 1 - FieldSize
  BY AdvanceSmall, MsgBuffAssumption
<1>3. msg_next' \in Idx
  BY <1>1, <1>2, MsgBuffAssumption DEF Insert, Idx
<1>4. buff' \in [Slots -> Entry]
  BY <1>0 DEF Insert, TypeOK, Entry
<1>5. TypeOK'
  BY <1>0, <1>3, <1>4 DEF TypeOK, Insert, Answer
<1>6. NumInflight' <= MaxInProgress
  <2>1. CASE /\ Distance(i, msg_last_incomplete) < NumInflight
             /\ Distance(i, msg_next) > MaxInProgress
    <3>1. Distance(i, msg_next) \in Nat BY <1>1, DistanceType DEF Idx
    <3>2. msg_next' = msg_next BY <2>1, <3>1, MsgBuffAssumption DEF Insert
    <3> QED BY <1>1, <3>2 DEF Insert, NumInflight, Distance
  <2>2. CASE /\ Distance(i, msg_last_incomplete) >= NumInflight
             /\ NumInflight + Distance(i, msg_next) < MaxInProgress
    <3>1. Distance(i, msg_next) \in Nat BY <1>1, DistanceType DEF Idx
    <3>2. msg_next' = Advance(i, 1)
      BY <1>1, <2>2, <3>1, MsgBuffAssumption DEF Insert, Idx
    <3>3. msg_last_incomplete' = msg_last_incomplete BY DEF Insert
    <3> QED BY <1>1, <1>2, <2>2, <3>2, <3>3, MsgBuffAssumption
            DEF NumInflight, Distance, Idx
  <2> QED BY <1>0, <2>1, <2>2, NotStartedWhere DEF Insert
<1>7. msg_last_incomplete' = low' % FieldSize
  BY <1>0 DEF Insert, WindowInv
<1> QED BY <1>5, <1>6, <1>7 DEF IInv, WindowInv

\* nccl_ofi_msgbuff_complete preserves the invariant: msg_last_incomplete does not
\* move past msg_next.
LEMMA CompleteIInv ==
    ASSUME IInv, NEW i \in Idx, Complete(i)
    PROVE  IInv'
<1>0. TypeOK /\ WindowInv BY DEF IInv
<1>1. /\ msg_last_incomplete \in Idx /\ msg_next \in Idx
      /\ NumInflight \in Idx /\ NumInflight <= MaxInProgress
  BY <1>0, DistanceType DEF TypeOK, WindowInv, NumInflight
<1>2. PICK n \in 0..NumInflight :
         /\ msg_last_incomplete' = Advance(msg_last_incomplete, n)
         /\ low' = low + n
  BY DEF Complete
<1>3. n \in 0..FieldSize BY <1>1, MsgBuffAssumption DEF Idx
<1>4. Advance(msg_last_incomplete, n) =
          IF msg_last_incomplete + n < FieldSize THEN msg_last_incomplete + n
          ELSE msg_last_incomplete + n - FieldSize
  BY <1>1, <1>3, AdvanceSmall
<1>5. buff' \in [Slots -> Entry]
  BY <1>0, BuffIdxType DEF Complete, TypeOK, Entry
<1>6. TypeOK'
  <2>1. msg_last_incomplete' \in Idx BY <1>1, <1>2, <1>3, AdvanceType
  <2>2. low' \in Nat BY <1>0, <1>1, <1>2 DEF TypeOK, Idx
  <2> QED BY <1>0, <1>5, <2>1, <2>2 DEF TypeOK, Complete, Answer
<1>7. NumInflight' <= MaxInProgress
  <2>1. msg_next' = msg_next BY DEF Complete
  <2> QED BY <1>1, <1>2, <1>4, <2>1, MsgBuffAssumption DEF NumInflight, Distance, Idx
<1>8. msg_last_incomplete' = low' % FieldSize
  <2>1. ((low % FieldSize) + n) % FieldSize = (low + n) % FieldSize
    <3>1. FieldSize \in Nat \ {0} /\ low \in Int /\ n \in Int
      BY <1>0, <1>3, MsgBuffAssumption DEF TypeOK
    <3> QED BY <3>1, ModAdd, Zenon
  <2> QED BY <1>0, <1>2, <2>1 DEF Advance, WindowInv
<1> QED BY <1>6, <1>7, <1>8 DEF IInv, WindowInv

\* Every operation of the message buffer preserves the invariant.
LEMMA NextIInv == IInv /\ [Next]_vars => IInv'
<1> SUFFICES ASSUME IInv, [Next]_vars PROVE IInv' OBVIOUS
<1>0. TypeOK /\ WindowInv BY DEF IInv
<1>1. CASE UNCHANGED vars
  BY <1>0, <1>1 DEF IInv, TypeOK, WindowInv, NumInflight, Distance, vars
<1>2. ASSUME NEW i \in Idx, NEW e \in Elems, Insert(i, e) PROVE IInv'
  BY <1>2, InsertIInv
<1>3. ASSUME NEW i \in Idx, Complete(i) PROVE IInv'
  BY <1>3, CompleteIInv
<1>4. ASSUME NEW i \in Idx, NEW e \in Elems, Replace(i, e) PROVE IInv'
  <2>1. buff' \in [Slots -> Entry]
    BY <1>0, <1>4, BuffIdxType DEF Replace, TypeOK, Entry
  <2> QED BY <1>0, <1>4, <2>1 DEF IInv, TypeOK, WindowInv, NumInflight, Distance, Replace, Answer
<1>5. ASSUME NEW i \in Idx, Retrieve(i) PROVE IInv'
  <2>1. buff[BuffIdx(i)].elem \in Elems \cup {Null}
    BY <1>0, BuffIdxType DEF TypeOK, Entry
  <2> QED BY <1>0, <1>5, <2>1 DEF IInv, TypeOK, WindowInv, NumInflight, Distance, Retrieve, Answer
<1>6. ASSUME NEW i \in Idx, RefuseInsert(i) \/ RefuseReplace(i) \/ RefuseAccess(i) PROVE IInv'
  <2>1. GetIdxStatus(i) \in Statuses BY <1>0, StatusType
  <2> QED BY <1>0, <1>6, <2>1
          DEF IInv, TypeOK, WindowInv, NumInflight, Distance, Statuses,
              RefuseInsert, RefuseReplace, RefuseAccess, Answer
<1> QED BY <1>1, <1>2, <1>3, <1>4, <1>5, <1>6 DEF Next

\* The indices stay in range and the window of tracked messages never grows
\* beyond the max_inprogress slots that back it, for every max_inprogress and
\* bit_width that nccl_ofi_msgbuff_init accepts.
THEOREM WindowTheorem == Spec => [](TypeOK /\ WindowInv)
<1>1. Init => IInv BY InitIInv
<1>2. IInv /\ [Next]_vars => IInv' BY NextIInv
<1>3. IInv => TypeOK /\ WindowInv BY DEF IInv
<1> QED BY <1>1, <1>2, <1>3, PTL DEF Spec

-----------------------------------------------------------------------------
(* The refinement.  Message m has sequence number m % FieldSize and, when   *)
(* the number of slots divides FieldSize, slot m % MaxInProgress.           *)

Divides == FieldSize % MaxInProgress = 0

High == low + NumInflight

Norm(b) == [stat |-> b.stat, elem |-> IF b.stat = "INPROGRESS" THEN b.elem ELSE Null]

\* The slot of a message is its number modulo max_inprogress, wrapped or not.
LEMMA SlotOfMsg ==
    ASSUME Divides, NEW m \in Int
    PROVE  BuffIdx(m % FieldSize) = m % MaxInProgress
<1>1. MaxInProgress \in Nat \ {0} /\ FieldSize \in Nat \ {0} BY MsgBuffAssumption
<1> QED BY <1>1, ModMod, Zenon DEF Divides, BuffIdx

\* The sequence number of a message is in range.
LEMMA SeqOfMsg ==
    ASSUME NEW m \in Int
    PROVE  m % FieldSize \in Idx
<1>1. FieldSize \in Nat \ {0} BY MsgBuffAssumption
<1> QED BY <1>1, DivMod DEF Idx

\* A full turn of the sequence numbers changes nothing.
LEMMA SeqPeriodic ==
    ASSUME NEW m \in Int
    PROVE  (m + FieldSize) % FieldSize = m % FieldSize
<1>1. FieldSize \in Nat \ {0} BY MsgBuffAssumption
<1>2. /\ m \div FieldSize \in Int /\ m % FieldSize \in 0..(FieldSize - 1)
      /\ m = FieldSize * (m \div FieldSize) + (m % FieldSize)
  BY <1>1, DivMod
<1>3. FieldSize * ((m \div FieldSize) + 1) = FieldSize * (m \div FieldSize) + FieldSize
  BY <1>1, <1>2, SMT
<1>4. (m \div FieldSize) + 1 \in Int BY <1>2
<1>5. (FieldSize * ((m \div FieldSize) + 1) + (m % FieldSize)) % FieldSize = m % FieldSize
  BY <1>1, <1>2, <1>4, ModUnique, Zenon
<1>6. m + FieldSize = FieldSize * ((m \div FieldSize) + 1) + (m % FieldSize)
  BY <1>1, <1>2, <1>3
<1> QED BY <1>5, <1>6

\* What the invariant says about the numbers a step works with.
LEMMA Numbers ==
    ASSUME IInv
    PROVE  /\ low \in Nat /\ NumInflight \in Nat /\ NumInflight <= MaxInProgress
           /\ msg_last_incomplete = low % FieldSize
           /\ msg_next = High % FieldSize
           /\ \A k \in Nat : Advance(msg_last_incomplete, k) = (low + k) % FieldSize
<1>0. TypeOK /\ WindowInv BY DEF IInv
<1>1. /\ msg_last_incomplete \in Idx /\ msg_next \in Idx /\ low \in Nat
      /\ NumInflight \in Idx /\ NumInflight <= MaxInProgress
      /\ msg_last_incomplete = low % FieldSize
  BY <1>0, DistanceType DEF TypeOK, WindowInv, NumInflight
<1>2. ASSUME NEW k \in Nat PROVE Advance(msg_last_incomplete, k) = (low + k) % FieldSize
  <2>1. FieldSize \in Nat \ {0} /\ low \in Int /\ k \in Int
    BY <1>1, MsgBuffAssumption
  <2> QED BY <1>1, <2>1, ModAdd, Zenon DEF Advance
<1>3. msg_next = Advance(msg_last_incomplete, NumInflight)
  <2>1. NumInflight \in 0..FieldSize BY <1>1, MsgBuffAssumption DEF Idx
  <2>2. Advance(msg_last_incomplete, NumInflight) =
           IF msg_last_incomplete + NumInflight < FieldSize
           THEN msg_last_incomplete + NumInflight
           ELSE msg_last_incomplete + NumInflight - FieldSize
    BY <1>1, <2>1, AdvanceSmall
  <2> QED BY <1>1, <2>2, MsgBuffAssumption DEF NumInflight, Distance, Idx
<1>4. NumInflight \in Nat BY <1>1 DEF Idx
<1> QED BY <1>1, <1>2, <1>3, <1>4 DEF High

\* Tracked messages lie in slots of their own.
LEMMA SlotsDistinct ==
    ASSUME IInv, NEW j \in Int, NEW k \in Int, j # k,
           low <= j, j < low + MaxInProgress, low <= k, k < low + MaxInProgress
    PROVE  j % MaxInProgress # k % MaxInProgress
<1>1. MaxInProgress \in Nat \ {0} /\ low \in Nat BY MsgBuffAssumption, Numbers
<1>2. CASE j < k
  <2>1. k < j + MaxInProgress BY <1>1
  <2> QED BY <1>1, <1>2, <2>1, ModDistinct, Zenon
<1>3. CASE k < j
  <2>1. j < k + MaxInProgress BY <1>1
  <2>2. k % MaxInProgress # j % MaxInProgress BY <1>1, <1>3, <2>1, ModDistinct, Zenon
  <2> QED BY <2>2
<1> QED BY <1>2, <1>3

\* The entry of a tracked message is what its slot holds.
LEMMA TrackedAt ==
    ASSUME Divides, IInv, NEW m \in low..(High - 1)
    PROVE  TrackedMsgs[m] = Norm(buff[m % MaxInProgress])
<1>1. low \in Nat /\ NumInflight \in Nat BY Numbers
<1>2. m \in Int /\ m - low \in Nat /\ low + (m - low) = m BY <1>1 DEF High
<1>3. Advance(msg_last_incomplete, m - low) = m % FieldSize BY <1>2, Numbers
<1>4. BuffIdx(m % FieldSize) = m % MaxInProgress BY <1>2, SlotOfMsg
<1>5. TrackedEntry(m - low) = Norm(buff[m % MaxInProgress])
  BY <1>3, <1>4 DEF TrackedEntry, Norm
<1>6. m \in low..(low + NumInflight - 1) BY <1>1, m \in low..(High - 1) DEF High
<1> QED BY <1>5, <1>6 DEF TrackedMsgs

\* The status the buffer reports for a sequence number is the status of the
\* one message near the window that the number stands for.
LEMMA StatusAgrees ==
    ASSUME Divides, IInv,
           NEW m \in (low - MaxInProgress)..(low + (FieldSize - MaxInProgress) - 1)
    PROVE  GetIdxStatus(m % FieldSize) = Tracker!Status(m)
<1> DEFINE i == m % FieldSize
           k == NumInflight
<1>1. /\ low \in Nat /\ k \in Nat /\ k <= MaxInProgress
      /\ msg_last_incomplete = low % FieldSize
      /\ msg_next = High % FieldSize
  BY Numbers
<1>2. m \in Int /\ i \in Idx BY <1>1, SeqOfMsg, MsgBuffAssumption
<1>3. CASE m < low
  <2>1. Distance(i, msg_last_incomplete) = (m + FieldSize) - low
    <3>1. (m + FieldSize) % FieldSize = i BY <1>2, SeqPeriodic
    <3>2. m + FieldSize \in Int /\ low \in Int /\ low <= m + FieldSize
          /\ m + FieldSize < low + FieldSize
      BY <1>1, <1>2, <1>3, MsgBuffAssumption
    <3>3. Distance((m + FieldSize) % FieldSize, low % FieldSize) = (m + FieldSize) - low
      BY <3>2, DistanceMod
    <3> QED BY <1>1, <3>1, <3>3
  <2>2. Distance(msg_last_incomplete, i) = low - m
    <3>1. low \in Int /\ m \in Int /\ m <= low /\ low < m + FieldSize
      BY <1>1, <1>2, <1>3, MsgBuffAssumption
    <3> QED BY <1>1, <3>1, DistanceMod
  <2>3. i # msg_last_incomplete
    BY <1>1, <1>2, <1>3, <2>2, MsgBuffAssumption DEF Distance, Idx
  <2>4. Distance(i, msg_last_incomplete) >= NumInflight
    BY <1>1, <1>2, <1>3, <2>1, MsgBuffAssumption
  <2>5. Distance(msg_last_incomplete, i) <= MaxInProgress
    BY <1>1, <1>2, <2>2, MsgBuffAssumption
  <2>6. ~ (Distance(i, msg_last_incomplete) < NumInflight)
    BY <1>1, <1>2, <1>3, <2>1, MsgBuffAssumption
  <2>7. GetIdxStatus(i) = "COMPLETED"
    BY <2>3, <2>4, <2>5, <2>6 DEF GetIdxStatus
  <2>8. Tracker!Status(m) = "COMPLETED"
    BY <1>1, <1>2, <1>3 DEF Tracker!Status
  <2> QED BY <2>7, <2>8
<1>4. CASE low <= m
  <2>1. Distance(i, msg_last_incomplete) = m - low
    <3>1. low \in Int /\ m \in Int /\ low <= m /\ m < low + FieldSize
      BY <1>1, <1>2, <1>4, MsgBuffAssumption
    <3> QED BY <1>1, <3>1, DistanceMod
  <2>2. CASE m < High
    <3>1. Distance(i, msg_last_incomplete) < NumInflight
      BY <1>1, <1>2, <2>1, <2>2 DEF High
    <3>2. m \in low..(High - 1) BY <1>1, <1>2, <1>4, <2>2 DEF High
    <3>3. GetIdxStatus(i) = buff[m % MaxInProgress].stat
      <4>1. BuffIdx(i) = m % MaxInProgress BY <1>2, SlotOfMsg
      <4>2. ~ (Distance(i, msg_last_incomplete) >= NumInflight)
        BY <1>1, <1>2, <2>1, <2>2 DEF High
      <4> QED BY <3>1, <4>1, <4>2 DEF GetIdxStatus
    <3>4. TrackedMsgs[m].stat = buff[m % MaxInProgress].stat
      <4>1. TrackedMsgs[m] = Norm(buff[m % MaxInProgress]) BY <3>2, TrackedAt
      <4> QED BY <4>1 DEF Norm
    <3>5. Tracker!Status(m) = TrackedMsgs[m].stat
      <4>1. ~ (m < low) /\ m \in low..((low + NumInflight) - 1)
            /\ ~ (m \in (low + NumInflight)..(low + MaxInProgress - 1))
        BY <1>1, <1>2, <3>2, MsgBuffAssumption DEF High
      <4> QED BY <4>1 DEF Tracker!Status
    <3> QED BY <3>3, <3>4, <3>5
  <2>3. CASE High <= m
    <3>1. Distance(i, msg_next) = m - High
      <4>1. High \in Int /\ m \in Int /\ High <= m /\ m < High + FieldSize
        BY <1>1, <1>2, <2>3, MsgBuffAssumption DEF High
      <4> QED BY <1>1, <4>1, DistanceMod
    <3>2. /\ Distance(i, msg_last_incomplete) >= NumInflight
          /\ ~ (Distance(i, msg_last_incomplete) < NumInflight)
      BY <1>1, <1>2, <2>1, <2>3 DEF High
    <3>3. ~ (i # msg_last_incomplete
             /\ Distance(msg_last_incomplete, i) <= MaxInProgress)
      <4>1. SUFFICES ASSUME i # msg_last_incomplete
                     PROVE  ~ (Distance(msg_last_incomplete, i) <= MaxInProgress)
        OBVIOUS
      <4>2. m # low BY <1>1, <4>1
      <4>3. (low + FieldSize) % FieldSize = msg_last_incomplete
        BY <1>1, SeqPeriodic
      <4>4. Distance((low + FieldSize) % FieldSize, m % FieldSize) = (low + FieldSize) - m
        <5>1. /\ low + FieldSize \in Int /\ m \in Int
              /\ m <= low + FieldSize /\ low + FieldSize < m + FieldSize
          BY <1>1, <1>2, <1>4, <4>2, MsgBuffAssumption
        <5> QED BY <5>1, DistanceMod
      <4> QED BY <1>1, <1>2, <4>3, <4>4, MsgBuffAssumption
    <3>4. Distance(MaxInProgress, NumInflight) = MaxInProgress - NumInflight
      BY <1>1, MsgBuffAssumption DEF Distance
    <3>5. GetIdxStatus(i) = IF m < low + MaxInProgress THEN "NOTSTARTED" ELSE "UNAVAILABLE"
      <4>1. (m - High < MaxInProgress - NumInflight) <=> (m < low + MaxInProgress)
        BY <1>1, <1>2, MsgBuffAssumption DEF High
      <4> QED BY <3>1, <3>2, <3>3, <3>4, <4>1 DEF GetIdxStatus
    <3>6. Tracker!Status(m) = IF m < low + MaxInProgress THEN "NOTSTARTED" ELSE "UNAVAILABLE"
      <4>1. /\ ~ (m < low)
            /\ ~ (m \in low..((low + NumInflight) - 1))
            /\ (m \in (low + NumInflight)..(low + MaxInProgress - 1)) <=> (m < low + MaxInProgress)
        BY <1>1, <1>2, <1>4, <2>3, MsgBuffAssumption DEF High
      <4> QED BY <4>1 DEF Tracker!Status
    <3> QED BY <3>5, <3>6
  <2> QED BY <1>1, <1>2, <2>2, <2>3 DEF High
<1> QED BY <1>1, <1>2, <1>3, <1>4

\* The messages a caller may name: those the tracker lets it ask about.
Near == (low - MaxInProgress)..(low + (FieldSize - MaxInProgress) - 1)

\* Every sequence number stands for a message near the window.
LEMMA MsgOfSeq ==
    ASSUME IInv, NEW i \in Idx
    PROVE  \E m \in Near : i = m % FieldSize
<1> DEFINE b == low - MaxInProgress
<1>1. FieldSize \in Nat \ {0} /\ b \in Int /\ i \in 0..(FieldSize - 1)
  BY MsgBuffAssumption, Numbers DEF Idx
<1>2. b..(b + FieldSize - 1) = Near
  BY MsgBuffAssumption, Numbers DEF Near
<1> HIDE DEF b
<1>3. \E m \in b..(b + FieldSize - 1) : m % FieldSize = i BY <1>1, ModOnto, Zenon
<1> QED BY <1>2, <1>3, Zenon

\* After a step that keeps the invariant, the pointers are those of the moved window.
LEMMA PrimedNumbers ==
    ASSUME IInv'
    PROVE  /\ low' \in Nat /\ NumInflight' \in Nat
           /\ \A k \in Nat : Advance(msg_last_incomplete', k) = (low' + k) % FieldSize
<1>0. TypeOK' /\ WindowInv' BY DEF IInv
<1>1. /\ msg_last_incomplete' \in Idx /\ msg_next' \in Idx /\ low' \in Nat
      /\ msg_last_incomplete' = low' % FieldSize
  BY <1>0 DEF TypeOK, WindowInv
<1>2. NumInflight' \in Nat
  BY <1>1, DistanceType DEF NumInflight, Idx
<1>3. ASSUME NEW k \in Nat PROVE Advance(msg_last_incomplete', k) = (low' + k) % FieldSize
  <2>1. FieldSize \in Nat \ {0} /\ low' \in Int /\ k \in Int
    BY <1>1, MsgBuffAssumption
  <2> QED BY <1>1, <2>1, ModAdd DEF Advance
<1> QED BY <1>1, <1>2, <1>3

\* A tracked message is low plus an offset.
LEMMA OffsetOf ==
    ASSUME NEW a \in Nat, NEW n \in Nat, NEW m \in a..((a + n) - 1)
    PROVE  m \in Int /\ m - a \in Nat /\ a + (m - a) = m
  OBVIOUS

\* What is tracked after a step, read from the slots after the step.
LEMMA PrimedTracked ==
    ASSUME Divides, IInv'
    PROVE  TrackedMsgs' = [m \in low'..(High' - 1) |-> Norm(buff'[m % MaxInProgress])]
<1>1. low' \in Nat /\ NumInflight' \in Nat BY PrimedNumbers
<1>2. ASSUME NEW m \in low'..(High' - 1)
      PROVE  TrackedEntry(m - low)' = Norm(buff'[m % MaxInProgress])
  <2>0. m \in low'..((low' + NumInflight') - 1) BY m \in low'..(High' - 1) DEF High
  <2>1. m \in Int /\ m - low' \in Nat /\ low' + (m - low') = m
    BY <1>1, <2>0, OffsetOf, Zenon
  <2>2. Advance(msg_last_incomplete', m - low') = m % FieldSize BY <2>1, PrimedNumbers
  <2>3. BuffIdx(m % FieldSize) = m % MaxInProgress BY <2>1, SlotOfMsg
  <2> QED BY <2>2, <2>3 DEF TrackedEntry, Norm
<1>3. low'..(low' + NumInflight' - 1) = low'..(High' - 1) BY <1>1 DEF High
<1>4. TrackedMsgs' = [m \in low'..(low' + NumInflight' - 1) |-> TrackedEntry(m - low)']
  BY DEF TrackedMsgs
<1> QED BY <1>2, <1>3, <1>4, Zenon

\* What is tracked before a step, read from the slots before it.
LEMMA UnprimedTracked ==
    ASSUME Divides, IInv
    PROVE  TrackedMsgs = [m \in low..(High - 1) |-> Norm(buff[m % MaxInProgress])]
<1>1. \A m \in low..(High - 1) : TrackedMsgs[m] = Norm(buff[m % MaxInProgress])
  BY TrackedAt
<1>2. TrackedMsgs = [m \in low..(High - 1) |-> TrackedMsgs[m]]
  <2>1. low..(low + NumInflight - 1) = low..(High - 1) BY Numbers DEF High
  <2> QED BY <2>1 DEF TrackedMsgs
<1> QED BY <1>1, <1>2

\* The slot of every message exists.
LEMMA SlotInRange ==
    ASSUME NEW m \in Int
    PROVE  m % MaxInProgress \in Slots
<1>1. MaxInProgress \in Nat \ {0} BY MsgBuffAssumption
<1> QED BY <1>1, DivMod DEF Slots

\* What Insert does to the slot of each message that it leaves tracked.
LEMMA InsertSlots ==
    ASSUME Divides, IInv, NEW m \in Near, NEW e \in Elems, Insert(m % FieldSize, e)
    PROVE  /\ low <= m /\ m < low + MaxInProgress
           /\ High' = IF m < High THEN High ELSE m + 1
           /\ low' = low
           /\ \A k \in low..(High' - 1) :
                 buff'[k % MaxInProgress] =
                    IF k = m THEN [stat |-> "INPROGRESS", elem |-> e]
                    ELSE IF k < High THEN buff[k % MaxInProgress]
                    ELSE [stat |-> "NOTSTARTED", elem |-> Null]
<1> DEFINE i == m % FieldSize
           N == MaxInProgress
           F == FieldSize
<1>0. /\ low \in Nat /\ NumInflight \in Nat /\ NumInflight <= N
      /\ msg_last_incomplete = low % F /\ msg_next = High % F
      /\ N \in Nat \ {0} /\ F \in Nat \ {0} /\ F > 2 * N
  BY Numbers, MsgBuffAssumption
<1>1. m \in Int /\ High \in Nat /\ i \in Idx
  BY <1>0, SeqOfMsg DEF Near, High
<1>2. low <= m /\ m < low + N
  <2>1. Tracker!Status(m) = "NOTSTARTED"
    BY StatusAgrees DEF Insert, Near
  <2>2. CASE m < low
    <3>1. /\ ~ (m \in low..((low + NumInflight) - 1))
          /\ ~ (m \in (low + NumInflight)..(low + N - 1))
      BY <1>0, <1>1, <2>2
    <3> QED BY <2>1, <2>2, <3>1 DEF Tracker!Status
  <2>3. CASE ~ (m < low) /\ ~ (m < low + N)
    <3>1. /\ ~ (m \in low..((low + NumInflight) - 1))
          /\ ~ (m \in (low + NumInflight)..(low + N - 1))
      BY <1>0, <1>1, <2>3
    <3> QED BY <2>1, <2>3, <3>1 DEF Tracker!Status
  <2>4. m < low \/ (~ (m < low) /\ ~ (m < low + N)) \/ (low <= m /\ m < low + N)
    BY <1>0, <1>1
  <2> QED BY <2>2, <2>3, <2>4
<1>3. low' = low /\ msg_last_incomplete' = msg_last_incomplete BY DEF Insert
<1>4. CASE m < High
  <2>1. Distance(i, msg_next) = (m + F) - High
    <3>1. m + F \in Int /\ High \in Int /\ High <= m + F /\ m + F < High + F
      BY <1>0, <1>1, <1>2, <1>4 DEF High
    <3>2. (m + F) % F = i BY <1>1, SeqPeriodic
    <3> QED BY <1>0, <3>1, <3>2, DistanceMod, Zenon
  <2>2. ~ (Distance(i, msg_next) <= N)
    BY <1>0, <1>1, <1>2, <2>1 DEF High
  <2>3. Skipped(i) = {} BY <2>2 DEF Skipped
  <2>4. High' = High
    BY <1>3, <2>2 DEF Insert, High, NumInflight, Distance
  <2>5. ASSUME NEW k \in low..(High - 1)
        PROVE  buff'[k % N] = IF k = m THEN [stat |-> "INPROGRESS", elem |-> e]
                              ELSE buff[k % N]
    <3>1. k \in Int /\ low <= k /\ k < low + N BY <1>0 DEF High
    <3>2. k % N \in Slots BY <3>1, SlotInRange
    <3>3. BuffIdx(i) = m % N BY <1>1, SlotOfMsg
    <3>4. k # m => k % N # m % N BY <1>1, <1>2, <3>1, SlotsDistinct
    <3> QED BY <2>3, <3>2, <3>3, <3>4 DEF Insert
  <2> QED BY <1>0, <1>1, <1>2, <1>3, <1>4, <2>4, <2>5 DEF High
<1>5. CASE High <= m
  <2>1. Distance(i, msg_next) = m - High
    <3>1. m \in Int /\ High \in Int /\ High <= m /\ m < High + F
      BY <1>0, <1>1, <1>2, <1>5 DEF High
    <3> QED BY <1>0, <3>1, DistanceMod, Zenon
  <2>2. Distance(i, msg_next) <= N
    BY <1>0, <1>1, <1>2, <2>1 DEF High
  <2>3. High' = m + 1
    <3>1. msg_next' = (m + 1) % F
      <4>1. msg_next' = (i + 1) % F BY <2>2 DEF Insert, Advance
      <4> QED BY <1>0, <1>1, <4>1, ModAdd, 1 \in Int, Zenon
    <3>2. m + 1 \in Int /\ low \in Int /\ low <= m + 1 /\ m + 1 < low + F
      BY <1>0, <1>1, <1>2
    <3>3. Distance((m + 1) % F, low % F) = (m + 1) - low BY <3>2, DistanceMod
    <3>4. NumInflight' = (m + 1) - low BY <1>0, <1>3, <3>1, <3>3 DEF NumInflight
    <3> QED BY <1>0, <1>1, <1>3, <3>4 DEF High
  \* A skipped index is that of a message from High to m - 1.
  <2>4. ASSUME NEW j \in Skipped(i)
        PROVE  \E h \in High..(m - 1) : j = h % F
    <3>1. j \in 0..(F - 1) /\ Distance(j, msg_next) < m - High
      BY <2>1 DEF Skipped, Idx
    <3>0. F \in Nat \ {0} /\ High \in Int /\ j \in 0..(F - 1) BY <1>0, <1>1, <3>1
    <3>2. PICK h \in High..(High + F - 1) : h % F = j
      BY <3>0, ModOnto, Zenon
    <3>3. h \in Int /\ High \in Int /\ High <= h /\ h < High + F BY <1>0, <1>1, <3>2
    <3>4. Distance(h % F, High % F) = h - High BY <3>3, DistanceMod
    <3>5. h - High < m - High BY <1>0, <3>1, <3>2, <3>4
    <3> QED BY <1>1, <3>2, <3>3, <3>5
  <2>5. ASSUME NEW h \in High..(m - 1)
        PROVE  h % F \in Skipped(i)
    <3>1. h \in Int /\ High \in Int /\ High <= h /\ h < High + F
      BY <1>0, <1>1, <1>2 DEF High
    <3>2. Distance(h % F, High % F) = h - High BY <3>1, DistanceMod
    <3>3. h % F \in Idx BY <3>1, SeqOfMsg
    <3> QED BY <1>0, <1>1, <2>1, <2>2, <3>1, <3>2, <3>3 DEF Skipped
  <2>6. ASSUME NEW k \in low..m
        PROVE  buff'[k % N] = IF k = m THEN [stat |-> "INPROGRESS", elem |-> e]
                              ELSE IF k < High THEN buff[k % N]
                              ELSE [stat |-> "NOTSTARTED", elem |-> Null]
    <3>1. k \in Int /\ low <= k /\ k < low + N BY <1>0, <1>1, <1>2
    <3>2. k % N \in Slots BY <3>1, SlotInRange
    <3>3. BuffIdx(i) = m % N BY <1>1, SlotOfMsg
    <3>4. k # m => k % N # m % N BY <1>1, <1>2, <3>1, SlotsDistinct
    <3>5. CASE k \in High..(m - 1)
      <4>1. k % F \in Skipped(i) BY <2>5, <3>5
      <4>2. BuffIdx(k % F) = k % N BY <3>1, SlotOfMsg
      <4>3. buff'[k % N] = [stat |-> "NOTSTARTED", elem |-> Null]
        BY <3>2, <4>1, <4>2 DEF Insert
      <4>4. k # m /\ ~ (k < High) BY <1>1, <3>1, <3>5
      <4> QED BY <4>3, <4>4
    <3>6. CASE ~ (k \in High..(m - 1))
      <4>1. k = m \/ k < High BY <1>1, <3>1, <3>6
      <4>2. ASSUME NEW j \in Skipped(i) PROVE BuffIdx(j) # k % N
        <5>1. PICK h \in High..(m - 1) : j = h % F BY <2>4, <4>2
        <5>2. h \in Int /\ low <= h /\ h < low + N /\ h # k
          BY <1>0, <1>1, <1>2, <3>1, <3>6, <5>1 DEF High
        <5>3. BuffIdx(h % F) = h % N BY <5>2, SlotOfMsg
        <5>4. h % N # k % N BY <3>1, <5>2, SlotsDistinct
        <5> QED BY <5>1, <5>3, <5>4
      <4>3. buff'[k % N] = IF k % N = m % N THEN [stat |-> "INPROGRESS", elem |-> e]
                           ELSE buff[k % N]
        BY <3>2, <3>3, <4>2 DEF Insert
      <4> QED BY <3>4, <4>1, <4>3
    <3> QED BY <3>5, <3>6
  <2>7. low..(High' - 1) = low..m /\ ~ (m < High) BY <1>0, <1>1, <1>5, <2>3
  <2> QED BY <1>2, <1>3, <2>3, <2>6, <2>7, Zenon
<1>6. m < High \/ High <= m BY <1>1
<1> QED BY <1>4, <1>5, <1>6

\* nccl_ofi_msgbuff_insert is Insert of the tracker for the message the number stands for.
LEMMA InsertStep ==
    ASSUME Divides, IInv, IInv', NEW m \in Near, NEW e \in Elems, Insert(m % FieldSize, e)
    PROVE  Tracker!Insert(m, e)
<1>1. /\ High' = IF m < High THEN High ELSE m + 1
      /\ low' = low
      /\ \A k \in low..(High' - 1) :
            buff'[k % MaxInProgress] =
               IF k = m THEN [stat |-> "INPROGRESS", elem |-> e]
               ELSE IF k < High THEN buff[k % MaxInProgress]
               ELSE [stat |-> "NOTSTARTED", elem |-> Null]
  BY InsertSlots
<1>2. Tracker!Status(m) = "NOTSTARTED" BY StatusAgrees DEF Insert, Near
<1>3. TrackedMsgs' = [k \in low..(High' - 1) |-> Norm(buff'[k % MaxInProgress])]
  BY <1>1, PrimedTracked
<1>4. ASSUME NEW k \in low..(High' - 1)
      PROVE  Norm(buff'[k % MaxInProgress]) =
                IF k = m THEN Tracker!Holds(e)
                ELSE IF k < High THEN TrackedMsgs[k] ELSE Tracker!Absent
  <2>1. CASE k = m BY <1>1, <2>1 DEF Norm, Tracker!Holds
  <2>2. CASE k # m /\ k < High
    <3>1. low \in Nat /\ High \in Nat /\ High' \in Nat
      BY Numbers, PrimedNumbers DEF High
    <3>2. k \in low..(High - 1) BY <2>2, <3>1
    <3>3. TrackedMsgs[k] = Norm(buff[k % MaxInProgress]) BY <3>2, TrackedAt
    <3> QED BY <1>1, <2>2, <3>3
  <2>3. CASE k # m /\ ~ (k < High) BY <1>1, <2>3 DEF Norm, Tracker!Absent
  <2> QED BY <2>1, <2>2, <2>3
<1>5. TrackedMsgs' = [k \in low..(High' - 1) |->
                        IF k = m THEN Tracker!Holds(e)
                        ELSE IF k < High THEN TrackedMsgs[k] ELSE Tracker!Absent]
  BY <1>3, <1>4
<1>6. ret' = Answer("SUCCESS", "NOTSTARTED", Null) BY DEF Insert
<1> QED
  BY <1>1, <1>2, <1>5, <1>6
  DEF Tracker!Insert, Tracker!InsertMsg, Tracker!Answer, Answer, High

\* Only a tracked message is in progress.
LEMMA InProgressTracked ==
    ASSUME Divides, IInv, NEW m \in Near, GetIdxStatus(m % FieldSize) = "INPROGRESS"
    PROVE  /\ Tracker!Status(m) = "INPROGRESS"
           /\ m \in Int /\ low <= m /\ m < High /\ m < low + MaxInProgress
           /\ BuffIdx(m % FieldSize) = m % MaxInProgress
           /\ m % MaxInProgress \in Slots
           /\ buff[m % MaxInProgress].stat = "INPROGRESS"
<1>0. /\ low \in Nat /\ NumInflight \in Nat /\ NumInflight <= MaxInProgress
      /\ MaxInProgress \in Nat /\ FieldSize \in Nat
  BY Numbers, MsgBuffAssumption
<1>1. m \in Int BY <1>0 DEF Near
<1>2. Tracker!Status(m) = "INPROGRESS" BY StatusAgrees DEF Near
<1>3. CASE m \in low..((low + NumInflight) - 1)
  <2>1. m \in low..(High - 1) BY <1>3 DEF High
  <2>2. low <= m /\ m < High /\ m < low + MaxInProgress
        /\ ~ (m < low) /\ ~ (m \in (low + NumInflight)..(low + MaxInProgress - 1))
    BY <1>0, <1>1, <1>3 DEF High
  <2>3. Tracker!Status(m) = TrackedMsgs[m].stat BY <1>3, <2>2 DEF Tracker!Status
  <2>4. TrackedMsgs[m] = Norm(buff[m % MaxInProgress]) BY <2>1, TrackedAt
  <2>5. buff[m % MaxInProgress].stat = "INPROGRESS" BY <1>2, <2>3, <2>4 DEF Norm
  <2> QED BY <1>1, <1>2, <2>2, <2>5, SlotOfMsg, SlotInRange
<1>4. CASE ~ (m \in low..((low + NumInflight) - 1))
  <2>1. CASE m < low
    <3>1. ~ (m \in (low + NumInflight)..(low + MaxInProgress - 1)) BY <1>0, <1>1, <2>1
    <3> QED BY <1>2, <1>4, <2>1, <3>1 DEF Tracker!Status
  <2>2. CASE ~ (m < low) BY <1>2, <1>4, <2>2 DEF Tracker!Status
  <2> QED BY <2>1, <2>2
<1> QED BY <1>3, <1>4

\* A step that leaves the pointers alone leaves the window alone.
LEMMA WindowStays ==
    ASSUME UNCHANGED <<msg_last_incomplete, msg_next, low>>
    PROVE  low' = low /\ NumInflight' = NumInflight /\ High' = High
  BY DEF NumInflight, Distance, High

\* A step that changes ret at most leaves the tracker where it is.
LEMMA NothingMoves ==
    ASSUME UNCHANGED <<msg_last_incomplete, msg_next, buff, low>>
    PROVE  /\ low' = low /\ (low + NumInflight)' = low + NumInflight
           /\ TrackedMsgs' = TrackedMsgs
  BY DEF NumInflight, Distance, TrackedMsgs, TrackedEntry, BuffIdx, Advance

\* nccl_ofi_msgbuff_replace is Replace of the tracker.
LEMMA ReplaceStep ==
    ASSUME Divides, IInv, IInv', NEW m \in Near, NEW e \in Elems, Replace(m % FieldSize, e)
    PROVE  Tracker!Replace(m, e)
<1>1. /\ Tracker!Status(m) = "INPROGRESS"
      /\ m \in Int /\ low <= m /\ m < High /\ m < low + MaxInProgress
      /\ BuffIdx(m % FieldSize) = m % MaxInProgress
      /\ m % MaxInProgress \in Slots
      /\ buff[m % MaxInProgress].stat = "INPROGRESS"
  BY InProgressTracked DEF Replace
<1>2. /\ low' = low /\ NumInflight' = NumInflight /\ High' = High
      /\ low \in Nat /\ High \in Nat /\ High <= low + MaxInProgress
      /\ MaxInProgress \in Nat
  <2>1. low' = low /\ NumInflight' = NumInflight /\ High' = High
    BY WindowStays DEF Replace
  <2>2. /\ low \in Nat /\ High \in Nat /\ High <= low + MaxInProgress
        /\ MaxInProgress \in Nat
    BY Numbers, MsgBuffAssumption DEF High
  <2> QED BY <2>1, <2>2
<1>3. buff \in [Slots -> Entry] BY DEF IInv, TypeOK
<1>4. buff' = [buff EXCEPT ![m % MaxInProgress].elem = e] BY <1>1, Zenon DEF Replace
<1>5. ASSUME NEW k \in low..(High - 1)
      PROVE  Norm(buff'[k % MaxInProgress]) =
                IF k = m THEN Tracker!Holds(e) ELSE TrackedMsgs[k]
  <2>1. k \in Int /\ low <= k /\ k < low + MaxInProgress BY <1>2
  <2>2. CASE k = m
    <3>1. buff'[m % MaxInProgress].stat = "INPROGRESS"
          /\ buff'[m % MaxInProgress].elem = e
      BY <1>1, <1>3, <1>4 DEF Entry
    <3> QED BY <2>2, <3>1 DEF Norm, Tracker!Holds
  <2>3. CASE k # m
    <3>1. k % MaxInProgress # m % MaxInProgress BY <1>1, <2>1, <2>3, SlotsDistinct
    <3>2. k % MaxInProgress \in Slots BY <2>1, SlotInRange
    <3>3. buff'[k % MaxInProgress] = buff[k % MaxInProgress] BY <1>3, <1>4, <3>1, <3>2
    <3> QED BY <2>3, <3>3, TrackedAt
  <2> QED BY <2>2, <2>3
<1>6. TrackedMsgs' = [k \in low..(High - 1) |-> Norm(buff'[k % MaxInProgress])]
  BY <1>2, PrimedTracked
<1>7. TrackedMsgs' = [k \in low..(High - 1) |->
                         IF k = m THEN Tracker!Holds(e) ELSE TrackedMsgs[k]]
  BY <1>5, <1>6
<1>8. TrackedMsgs = [k \in low..(High - 1) |-> TrackedMsgs[k]]
  BY UnprimedTracked
<1>9. m \in low..(High - 1) BY <1>1, <1>2
<1>10. TrackedMsgs' = [TrackedMsgs EXCEPT ![m] = Tracker!Holds(e)]
  BY <1>7, <1>8, <1>9, Zenon
<1> QED
  BY <1>1, <1>2, <1>10
  DEF Replace, Tracker!Replace, Tracker!ReplaceMsg, Tracker!Answer, Answer

\* nccl_ofi_msgbuff_retrieve is Retrieve of the tracker.
LEMMA RetrieveStep ==
    ASSUME Divides, IInv, NEW m \in Near, Retrieve(m % FieldSize)
    PROVE  Tracker!Retrieve(m)
<1>1. /\ Tracker!Status(m) = "INPROGRESS"
      /\ m \in Int /\ low <= m /\ m < High
      /\ BuffIdx(m % FieldSize) = m % MaxInProgress
      /\ buff[m % MaxInProgress].stat = "INPROGRESS"
  BY InProgressTracked DEF Retrieve
<1>2. low \in Nat /\ High \in Nat BY Numbers DEF High
<1>3. m \in low..(High - 1) BY <1>1, <1>2
<1>4. TrackedMsgs[m].elem = buff[m % MaxInProgress].elem
  <2>1. TrackedMsgs[m] = Norm(buff[m % MaxInProgress]) BY <1>3, TrackedAt
  <2> QED BY <1>1, <2>1 DEF Norm
<1>5. /\ low' = low /\ (low + NumInflight)' = low + NumInflight
      /\ TrackedMsgs' = TrackedMsgs
  BY NothingMoves DEF Retrieve
<1>6. ret' = Answer("SUCCESS", "INPROGRESS", buff[m % MaxInProgress].elem)
  BY <1>1 DEF Retrieve
<1> QED BY <1>1, <1>4, <1>5, <1>6 DEF Tracker!Retrieve, Tracker!Answer, Answer

\* The calls that answer INVALID_IDX do so in the tracker, with the same status.
LEMMA RefuseSteps ==
    ASSUME Divides, IInv, NEW m \in Near
    PROVE  /\ RefuseInsert(m % FieldSize) => Tracker!RefuseInsert(m)
           /\ RefuseReplace(m % FieldSize) => Tracker!RefuseReplace(m)
           /\ RefuseAccess(m % FieldSize) => Tracker!RefuseAccess(m)
<1>1. GetIdxStatus(m % FieldSize) = Tracker!Status(m) BY StatusAgrees DEF Near
<1>2. UNCHANGED <<msg_last_incomplete, msg_next, buff, low>> =>
        UNCHANGED <<low, low + NumInflight, TrackedMsgs>>
  BY NothingMoves
<1>3. RefuseInsert(m % FieldSize) => Tracker!RefuseInsert(m)
  BY <1>1, <1>2 DEF RefuseInsert, Tracker!RefuseInsert, Tracker!Answer, Answer
<1>4. RefuseReplace(m % FieldSize) => Tracker!RefuseReplace(m)
  BY <1>1, <1>2 DEF RefuseReplace, Tracker!RefuseReplace, Tracker!Answer, Answer
<1>5. RefuseAccess(m % FieldSize) => Tracker!RefuseAccess(m)
  BY <1>1, <1>2 DEF RefuseAccess, Tracker!RefuseAccess, Tracker!Answer, Answer
<1> QED BY <1>3, <1>4, <1>5

\* nccl_ofi_msgbuff_complete is Complete of the tracker: low moves with the pointer.
LEMMA CompleteStep ==
    ASSUME Divides, IInv, IInv', NEW m \in Near, Complete(m % FieldSize)
    PROVE  Tracker!Complete(m)
<1> DEFINE N == MaxInProgress
           dn == [stat |-> "COMPLETED", elem |-> Null]
<1>1. /\ Tracker!Status(m) = "INPROGRESS"
      /\ m \in Int /\ low <= m /\ m < High /\ m < low + N
      /\ BuffIdx(m % FieldSize) = m % N /\ m % N \in Slots
  BY InProgressTracked DEF Complete
<1>2. /\ low \in Nat /\ NumInflight \in Nat /\ NumInflight <= N
      /\ N \in Nat /\ High = low + NumInflight
  BY Numbers, MsgBuffAssumption DEF High
<1>3. PICK n \in 0..NumInflight :
         /\ TailMoves(buff', n)
         /\ msg_last_incomplete' = Advance(msg_last_incomplete, n)
         /\ low' = low + n
  BY DEF Complete
<1>4. buff \in [Slots -> Entry] /\ buff' = [buff EXCEPT ![m % N] = dn]
  BY <1>1, Zenon DEF IInv, TypeOK, Complete
<1>5. ASSUME NEW k \in low..(High - 1)
      PROVE  /\ k \in Int /\ k - low \in Nat /\ low + (k - low) = k
             /\ buff'[k % N] = IF k = m THEN dn ELSE buff[k % N]
             /\ TrackedMsgs[k] = Norm(buff[k % N])
             /\ BuffIdx(Advance(msg_last_incomplete, k - low)) = k % N
  <2>1. k \in Int /\ low <= k /\ k < low + N /\ k - low \in Nat /\ low + (k - low) = k
    BY <1>2
  <2>2. k % N \in Slots BY <2>1, SlotInRange
  <2>3. k # m => k % N # m % N BY <1>1, <2>1, SlotsDistinct
  <2>4. buff'[k % N] = IF k = m THEN dn ELSE buff[k % N] BY <1>4, <2>2, <2>3
  <2>5. Advance(msg_last_incomplete, k - low) = k % FieldSize BY <2>1, Numbers
  <2>6. BuffIdx(k % FieldSize) = k % N BY <2>1, SlotOfMsg
  <2> QED BY <2>1, <2>4, <2>5, <2>6, TrackedAt
<1>6. High' = High
  <2>1. n \in Nat /\ n <= NumInflight BY <1>2, <1>3
  <2>2. /\ low + n \in Int /\ High \in Int /\ low + n <= High
        /\ High < (low + n) + FieldSize
    BY <1>2, <2>1, MsgBuffAssumption
  <2>3. msg_last_incomplete' = (low + n) % FieldSize BY <1>3, <2>1, Numbers
  <2>4. msg_next' = High % FieldSize BY Numbers DEF Complete
  <2>5. Distance(High % FieldSize, (low + n) % FieldSize) = High - (low + n)
    BY <2>2, DistanceMod
  <2>6. NumInflight' = High - (low + n) BY <2>3, <2>4, <2>5 DEF NumInflight
  <2>7. High' = low' + NumInflight' BY DEF High
  <2>8. low' = low + n BY <1>3
  <2> HIDE DEF N, dn
  <2> QED BY <2>2, <2>6, <2>7, <2>8
<1> DEFINE l == low + n
<1>7. l \in low..High BY <1>2, <1>3
<1>8. ASSUME NEW k \in low..(l - 1)
      PROVE  k = m \/ TrackedMsgs[k].stat = "COMPLETED"
  <2>1. k \in low..(High - 1) /\ k - low \in 0..(n - 1) BY <1>2, <1>3
  <2>2. buff'[BuffIdx(Advance(msg_last_incomplete, k - low))].stat = "COMPLETED"
    BY <1>3, <2>1 DEF TailMoves
  <2>3. buff'[k % N].stat = "COMPLETED" BY <1>5, <2>1, <2>2
  <2>4. k # m => buff[k % N].stat = "COMPLETED" BY <1>5, <2>1, <2>3
  <2>5. TrackedMsgs[k] = Norm(buff[k % N]) BY <1>5, <2>1
  <2> QED BY <2>4, <2>5 DEF Norm
<1>9. l # High => l # m /\ TrackedMsgs[l].stat # "COMPLETED"
  <2> SUFFICES ASSUME l # High PROVE l # m /\ TrackedMsgs[l].stat # "COMPLETED"
    OBVIOUS
  <2>1. n # NumInflight /\ l \in low..(High - 1) /\ l - low = n BY <1>2, <1>3, <1>7
  <2>2. buff'[BuffIdx(Advance(msg_last_incomplete, n))].stat # "COMPLETED"
    BY <1>3, <2>1 DEF TailMoves
  <2>3. buff'[l % N].stat # "COMPLETED" BY <1>5, <2>1, <2>2
  <2>4. l # m /\ buff[l % N].stat # "COMPLETED" BY <1>5, <2>1, <2>3
  <2>5. TrackedMsgs[l] = Norm(buff[l % N]) BY <1>5, <2>1
  <2> QED BY <2>4, <2>5 DEF Norm
<1>10. TrackedMsgs' = [k \in l..(High - 1) |->
                          IF k = m THEN Tracker!Done ELSE TrackedMsgs[k]]
  <2>1. TrackedMsgs' = [k \in l..(High - 1) |-> Norm(buff'[k % N])]
    BY <1>3, <1>6, PrimedTracked
  <2>2. ASSUME NEW k \in l..(High - 1)
        PROVE  Norm(buff'[k % N]) = IF k = m THEN Tracker!Done ELSE TrackedMsgs[k]
    <3>1. k \in low..(High - 1) BY <1>2, <1>3
    <3>2. /\ buff'[k % N] = IF k = m THEN dn ELSE buff[k % N]
          /\ TrackedMsgs[k] = Norm(buff[k % N])
      BY <1>5, <3>1
    <3> QED BY <3>2 DEF Norm, Tracker!Done
  <2> QED BY <2>1, <2>2
<1>11. ret' = Tracker!Answer("SUCCESS", "INPROGRESS", Null)
  BY DEF Complete, Tracker!Answer, Answer
<1>12. low' = l BY <1>3
<1> HIDE DEF l
<1>13. \E x \in low..High :
          /\ \A k \in low..(x - 1) : k = m \/ TrackedMsgs[k].stat = "COMPLETED"
          /\ x # High => x # m /\ TrackedMsgs[x].stat # "COMPLETED"
          /\ low' = x
          /\ TrackedMsgs' = [k \in x..(High - 1) |->
                                IF k = m THEN Tracker!Done ELSE TrackedMsgs[k]]
  BY <1>7, <1>8, <1>9, <1>10, <1>12
<1> QED BY <1>1, <1>6, <1>11, <1>13 DEF Tracker!Complete, Tracker!CompleteMsg, High

\* The initial message buffer is the initial tracker.
LEMMA InitStep ==
    ASSUME Init
    PROVE  Tracker!Init
<1>1. low = 0 /\ NumInflight = 0 BY MsgBuffAssumption DEF Init, NumInflight, Distance
<1>2. low..(low + NumInflight - 1) = {} BY <1>1
<1>3. TrackedMsgs = [k \in {} |-> Tracker!Absent] BY <1>2 DEF TrackedMsgs
<1> QED BY <1>1, <1>3 DEF Init, Tracker!Init, Tracker!Answer, Answer

\* Every step of the buffer is a step of the tracker.
LEMMA StepRefines ==
    ASSUME Divides, IInv, IInv', Next
    PROVE  Tracker!Next
<1>1. PICK idx \in Idx :
         \/ \E e \in Elems : Insert(idx, e) \/ Replace(idx, e)
         \/ Retrieve(idx) \/ Complete(idx)
         \/ RefuseInsert(idx) \/ RefuseReplace(idx) \/ RefuseAccess(idx)
  BY DEF Next
<1>2. PICK m \in Near : idx = m % FieldSize BY MsgOfSeq
<1>3. \/ \E e \in Elems : Tracker!Insert(m, e) \/ Tracker!Replace(m, e)
      \/ Tracker!Retrieve(m) \/ Tracker!Complete(m)
      \/ Tracker!RefuseInsert(m) \/ Tracker!RefuseReplace(m) \/ Tracker!RefuseAccess(m)
  BY <1>1, <1>2, InsertStep, ReplaceStep, RetrieveStep, CompleteStep, RefuseSteps
<1> QED BY <1>3 DEF Tracker!Next, Near

\* When max_inprogress divides the range of the sequence numbers, as 256 divides
\* 1024 in nccl_ofi_rdma.c, the wrapped buffer answers every call as the tracker
\* of unwrapped message numbers does, for every size of the two.
THEOREM Refinement ==
    ASSUME Divides
    PROVE  Spec => TrackerSpec
<1>1. Init => Tracker!Init BY InitStep
<1>2. IInv /\ IInv' /\ [Next]_vars => [Tracker!Next]_(Tracker!vars)
  <2> SUFFICES ASSUME IInv, IInv', [Next]_vars PROVE [Tracker!Next]_(Tracker!vars)
    OBVIOUS
  <2>1. CASE Next BY <2>1, StepRefines
  <2>2. CASE UNCHANGED vars
    <3>1. UNCHANGED <<low, low + NumInflight, TrackedMsgs>> /\ UNCHANGED ret
      BY <2>2, NothingMoves DEF vars
    <3> QED BY <3>1 DEF Tracker!vars
  <2> QED BY <2>1, <2>2
<1>3. Spec => []IInv BY WindowTheorem DEF IInv
<1> QED BY <1>1, <1>2, <1>3, PTL DEF Spec, TrackerSpec, Tracker!Spec
=============================================================================
