---------------------------- MODULE BounceProofs ----------------------------
(***************************************************************************)
(* Proof that the count of posted bounce buffers is right at every point   *)
(* of every handler, for any number of threads and buffers and any limits. *)
(***************************************************************************)
EXTENDS BounceRail, NumberLemmas

-----------------------------------------------------------------------------
(* Counting. *)

\* The pairs that stand for promises f.
Pairs(f) == {p \in Threads \X (1..MaxPosted) : p[2] <= f[p[1]]}

\* The promises are finitely many, so they can be counted.
LEMMA PairsFinite ==
    ASSUME NEW f PROVE IsFiniteSet(Pairs(f)) /\ Cardinality(Pairs(f)) \in Nat
<1> USE BounceAssumption
<1> DEFINE I == 1..MaxPosted
<1>1. IsFiniteSet(I) BY FS_Interval, 1 \in Int, MaxPosted \in Int
<1> HIDE DEF I
<1>2. IsFiniteSet(Threads \X I) BY <1>1, FS_Product
<1>3. Pairs(f) \in SUBSET (Threads \X I) BY DEF Pairs, I
<1>4. IsFiniteSet(Pairs(f)) BY <1>2, <1>3, FS_Subset
<1> QED BY <1>4, FS_CardinalityType

\* The promises of one thread are as many as it has made.
LEMMA PairsSplit ==
    ASSUME NEW f \in [Threads -> 0..MaxPosted], NEW t \in Threads
    PROVE  LET rest == {p \in Threads \X (1..MaxPosted) : p[1] # t /\ p[2] <= f[p[1]]}
           IN  Cardinality(rest) \in Nat /\ Cardinality(Pairs(f)) = Cardinality(rest) + f[t]
<1> USE BounceAssumption
<1> DEFINE rest == {p \in Threads \X (1..MaxPosted) : p[1] # t /\ p[2] <= f[p[1]]}
           I == 1..f[t]
           own == {t} \X I
<1>1. f[t] \in 0..MaxPosted OBVIOUS
<1>2. IsFiniteSet(I) /\ Cardinality(I) = f[t]
  <2>1. f[t] \in Int /\ 1 \in Int BY <1>1
  <2>2. /\ IsFiniteSet(I)
        /\ Cardinality(I) = IF 1 > f[t] THEN 0 ELSE f[t] - 1 + 1
    BY <2>1, FS_Interval, Zenon
  <2> QED BY <1>1, <2>2
<1>3. IsFiniteSet(own) /\ Cardinality(own) = f[t]
  <2> HIDE DEF I
  <2>1. IsFiniteSet({t}) /\ Cardinality({t}) = 1 BY FS_Singleton, Zenon
  <2>2. IsFiniteSet({t} \X I) /\ Cardinality({t} \X I) = 1 * f[t]
    BY <2>1, <1>2, FS_Product
  <2> QED BY <2>2, <1>1
<1>4. rest \in SUBSET Pairs(f) BY DEF Pairs
<1>5. IsFiniteSet(rest) /\ Cardinality(rest) \in Nat
  <2> HIDE DEF rest
  <2>1. IsFiniteSet(rest) BY <1>4, PairsFinite, FS_Subset
  <2> QED BY <2>1, FS_CardinalityType
<1>6. Pairs(f) = rest \cup own
  <2>1. \A p \in Pairs(f) : p \in rest \/ p \in own
    <3> TAKE p \in Pairs(f)
    <3>1. PICK u \in Threads, i \in 1..MaxPosted : p = <<u, i>> /\ i <= f[u] BY DEF Pairs
    <3>2. CASE u = t
      <4>1. i \in 1..f[t] BY <3>1, <3>2, <1>1
      <4> QED BY <4>1, <3>1, <3>2
    <3>3. CASE u # t BY <3>1, <3>3
    <3> QED BY <3>2, <3>3
  <2>2. \A p \in own : p \in Pairs(f)
    <3> TAKE p \in own
    <3>1. PICK i \in 1..f[t] : p = <<t, i>> OBVIOUS
    <3>2. i \in 1..MaxPosted /\ i <= f[t] BY <3>1, <1>1
    <3> QED BY <3>1, <3>2 DEF Pairs
  <2> HIDE DEF rest, own
  <2> QED BY <2>1, <2>2, <1>4
<1>7. rest \cap own = {} OBVIOUS
<1> HIDE DEF rest, own
<1>8. Cardinality(rest \cup own) = Cardinality(rest) + Cardinality(own) - Cardinality({})
  BY <1>3, <1>5, <1>7, FS_Union
<1>9. Cardinality({}) = 0 BY FS_EmptySet
<1>10. Cardinality(Pairs(f)) = Cardinality(rest) + f[t]
  BY <1>1, <1>3, <1>5, <1>6, <1>8, <1>9
<1> QED BY <1>5, <1>10 DEF rest

\* A thread that promises v buffers instead of f[t].
LEMMA PairsExcept ==
    ASSUME NEW f \in [Threads -> 0..MaxPosted], NEW t \in Threads, NEW v \in 0..MaxPosted
    PROVE  Cardinality(Pairs([f EXCEPT ![t] = v])) + f[t] = Cardinality(Pairs(f)) + v
<1> USE BounceAssumption
<1> DEFINE g == [f EXCEPT ![t] = v]
           Rest(h) == {p \in Threads \X (1..MaxPosted) : p[1] # t /\ p[2] <= h[p[1]]}
<1>1. g \in [Threads -> 0..MaxPosted] /\ g[t] = v /\ \A u \in Threads : u # t => g[u] = f[u]
  OBVIOUS
<1> HIDE DEF g
<1>2. Rest(f) = Rest(g)
  <2>1. \A p \in Threads \X (1..MaxPosted) : p[1] # t => g[p[1]] = f[p[1]] BY <1>1
  <2> QED BY <2>1
<1>3. Cardinality(Rest(f)) \in Nat /\ Cardinality(Pairs(f)) = Cardinality(Rest(f)) + f[t]
  BY PairsSplit
<1>4. Cardinality(Pairs(g)) = Cardinality(Rest(g)) + v
  BY <1>1, PairsSplit
<1> HIDE DEF Rest
<1>5. f[t] \in Nat /\ v \in Nat OBVIOUS
<1>6. Cardinality(Pairs(g)) + f[t] = Cardinality(Pairs(f)) + v
  BY <1>2, <1>3, <1>4, <1>5
<1> QED BY <1>6 DEF g

-----------------------------------------------------------------------------
(* The invariant. *)

\* A buffer in the hands of a thread is in the hands of that thread only.  A control
\* message is an exception: its buffer is in the message buffer already.
Hands ==
    /\ \A t \in Threads : pc[t] = "repost" => cur[t] # None
    /\ \A t \in Threads :
         cur[t] # None /\ pc[t] # "decrease_ctrl" => loc[cur[t]] = "handler"
    /\ \A t, u \in Threads :
         t # u /\ cur[t] = cur[u] /\ cur[t] # None
           => pc[t] = "decrease_ctrl" \/ pc[u] = "decrease_ctrl"

\* A thread owes buffers only while it posts them or gives them back.
Owed ==
    \A t \in Threads :
        /\ pc[t] \notin {"post", "giveback"} => need[t] = 0
        /\ pc[t] = "post" => need[t] >= 1

Count == num = Cardinality(OnRail) + Cardinality(Busy) + Cardinality(Promised) + lost

IInv == TypeOK /\ Count /\ Hands /\ Owed

\* The sets counted are finite.
LEMMA SetsFinite ==
    /\ IsFiniteSet(OnRail) /\ Cardinality(OnRail) \in Nat
    /\ IsFiniteSet(Busy) /\ Cardinality(Busy) \in Nat
    /\ Promised = Pairs(need) /\ Cardinality(Promised) \in Nat
<1> USE BounceAssumption
<1>1. OnRail \in SUBSET Bufs /\ Busy \in SUBSET Threads BY DEF OnRail, Busy
<1>2. IsFiniteSet(OnRail) /\ IsFiniteSet(Busy) BY <1>1, FS_Subset
<1>3. Promised = Pairs(need) BY DEF Promised, Pairs
<1> QED BY <1>2, <1>3, PairsFinite, FS_CardinalityType

\* How the three numbers change when at most buffer b and thread t change.
LEMMA RailStep ==
    ASSUME NEW b, \A a \in Bufs : a # b => loc'[a] = loc[a]
    PROVE  /\ Cardinality(OnRail') \in Nat
           /\ Cardinality(OnRail') + (IF b \in OnRail THEN 1 ELSE 0)
                = Cardinality(OnRail) + (IF b \in OnRail' THEN 1 ELSE 0)
<1>1. \A a : a # b => (a \in OnRail <=> a \in OnRail') BY DEF OnRail
<1>2. IsFiniteSet(OnRail) BY SetsFinite
<1> DEFINE S == OnRail
           T == OnRail'
<1> HIDE DEF S, T
<1>3. \A a : a # b => (a \in S <=> a \in T) BY <1>1 DEF S, T
<1>4. /\ Cardinality(T) \in Nat
      /\ Cardinality(T) + (IF b \in S THEN 1 ELSE 0)
           = Cardinality(S) + (IF b \in T THEN 1 ELSE 0)
  BY <1>2, <1>3, DifferInOne DEF S
<1> QED BY <1>4 DEF S, T

\* The number of threads with a counted buffer in hand, when at most thread t moves.
LEMMA BusyStep ==
    ASSUME NEW t, \A u \in Threads : u # t => pc'[u] = pc[u]
    PROVE  /\ Cardinality(Busy') \in Nat
           /\ Cardinality(Busy') + (IF t \in Busy THEN 1 ELSE 0)
                = Cardinality(Busy) + (IF t \in Busy' THEN 1 ELSE 0)
<1>1. \A u : u # t => (u \in Busy <=> u \in Busy') BY DEF Busy
<1>2. IsFiniteSet(Busy) BY SetsFinite
<1> DEFINE S == Busy
           T == Busy'
<1> HIDE DEF S, T
<1>3. \A u : u # t => (u \in S <=> u \in T) BY <1>1 DEF S, T
<1>4. /\ Cardinality(T) \in Nat
      /\ Cardinality(T) + (IF t \in S THEN 1 ELSE 0)
           = Cardinality(S) + (IF t \in T THEN 1 ELSE 0)
  BY <1>2, <1>3, DifferInOne DEF S
<1> QED BY <1>4 DEF S, T

\* The number of promised buffers, when thread t promises v instead of need[t].
LEMMA PromiseStep ==
    ASSUME TypeOK, NEW t \in Threads, NEW v \in 0..MaxPosted, need' = [need EXCEPT ![t] = v]
    PROVE  /\ Cardinality(Promised') \in Nat
           /\ Cardinality(Promised') + need[t] = Cardinality(Promised) + v
<1>1. need \in [Threads -> 0..MaxPosted] BY DEF TypeOK
<1>2. Promised' = Pairs(need') BY DEF Promised, Pairs
<1>3. Cardinality(Pairs(need')) \in Nat BY PairsFinite
<1>4. Cardinality(Pairs([need EXCEPT ![t] = v])) + need[t] = Cardinality(Pairs(need)) + v
  BY <1>1, PairsExcept, Zenon
<1> QED BY <1>2, <1>3, <1>4, SetsFinite

\* After init_bounce_buffers nothing is in hand or owed, and the count is right.
LEMMA InitIInv == Init => IInv
<1> SUFFICES ASSUME Init PROVE IInv OBVIOUS
<1> USE BounceAssumption
<1>1. TypeOK BY DEF Init, TypeOK
<1>2. Hands /\ Owed BY DEF Init, Hands, Owed
<1>3. Count
  <2>1. OnRail = {} BY DEF Init, OnRail
  <2>2. Busy = {} BY DEF Init, Busy
  <2>3. Promised = {} BY DEF Init, Promised
  <2>4. Cardinality({}) = 0 BY FS_EmptySet
  <2> QED BY <2>1, <2>2, <2>3, <2>4 DEF Init, Count
<1> QED BY <1>1, <1>2, <1>3 DEF IInv

-----------------------------------------------------------------------------
(* The actions, one by one. *)

\* A buffer comes off the rail into the hands of a thread that will post or count it.
LEMMA TakeIInv ==
    ASSUME IInv, NEW t \in Threads, NEW b \in Bufs,
           TakeRepost(t, b) \/ TakeCtrl(t, b) \/ TakeEager(t, b)
    PROVE  IInv'
<1> USE BounceAssumption DEF IInv
<1>1. /\ pc[t] = "idle" /\ loc[b] = "posted" /\ UNCHANGED <<num, need, lost, failures>>
      /\ cur' = [cur EXCEPT ![t] = b]
      /\ \/ loc' = [loc EXCEPT ![b] = "handler"] /\ pc' = [pc EXCEPT ![t] = "repost"]
         \/ loc' = [loc EXCEPT ![b] = "held"] /\ pc' = [pc EXCEPT ![t] = "decrease_ctrl"]
         \/ loc' = [loc EXCEPT ![b] = "handler"] /\ pc' = [pc EXCEPT ![t] = "decrease_eager"]
  BY DEF TakeRepost, TakeCtrl, TakeEager
<1>2. TypeOK' BY <1>1 DEF TypeOK
<1>3. Hands' BY <1>1 DEF TypeOK, Hands
<1>4. Owed' BY <1>1 DEF TypeOK, Owed
<1>5. Count'
  <2>1. b \in OnRail /\ b \notin OnRail' BY <1>1, <1>2 DEF OnRail, TypeOK
  <2>2. t \notin Busy /\ t \in Busy' BY <1>1, <1>2 DEF Busy, TypeOK
  <2>3. Cardinality(OnRail') \in Nat /\ Cardinality(OnRail') + 1 = Cardinality(OnRail)
    BY <2>1, <1>1, RailStep, SetsFinite DEF TypeOK
  <2>4. Cardinality(Busy') \in Nat /\ Cardinality(Busy') = Cardinality(Busy) + 1
    BY <2>2, <1>1, BusyStep, SetsFinite DEF TypeOK
  <2>5. Promised' = Promised BY <1>1 DEF Promised
  <2> QED BY <2>3, <2>4, <2>5, <1>1, SetsFinite DEF Count, TypeOK
<1> QED BY <1>2, <1>3, <1>4, <1>5

\* A buffer that a message has kept is counted again, or freed.
LEMMA ReturnIInv ==
    ASSUME IInv, NEW t \in Threads, NEW b \in Bufs, Return(t, b)
    PROVE  IInv'
<1> USE BounceAssumption DEF IInv
<1>1. pc[t] = "idle" /\ loc[b] = "held" /\ UNCHANGED <<need, lost, failures>>
  BY DEF Return
<1>2. Promised' = Promised BY <1>1 DEF Promised
<1>3. CASE num < MaxPosted
  <2>1. /\ num' = num + 1
        /\ loc' = [loc EXCEPT ![b] = "handler"]
        /\ cur' = [cur EXCEPT ![t] = b]
        /\ pc' = [pc EXCEPT ![t] = "repost"]
    BY <1>3 DEF Return
  <2>2. TypeOK' BY <1>1, <1>3, <2>1 DEF TypeOK
  <2>3. Hands' BY <1>1, <2>1 DEF TypeOK, Hands
  <2>4. Owed' BY <1>1, <2>1 DEF TypeOK, Owed
  <2>5. Count'
    <3>1. b \notin OnRail /\ b \notin OnRail' BY <1>1, <2>1 DEF OnRail, TypeOK
    <3>2. t \notin Busy /\ t \in Busy' BY <1>1, <2>1 DEF Busy, TypeOK
    <3>3. Cardinality(OnRail') \in Nat /\ Cardinality(OnRail') = Cardinality(OnRail)
      BY <3>1, <2>1, RailStep, SetsFinite DEF TypeOK
    <3>4. Cardinality(Busy') \in Nat /\ Cardinality(Busy') = Cardinality(Busy) + 1
      BY <3>2, <2>1, BusyStep, SetsFinite DEF TypeOK
    <3> QED BY <3>3, <3>4, <1>1, <1>2, <2>1, SetsFinite DEF Count, TypeOK
  <2> QED BY <2>2, <2>3, <2>4, <2>5
<1>4. CASE ~ (num < MaxPosted)
  <2>1. loc' = [loc EXCEPT ![b] = "free"] /\ UNCHANGED <<num, cur, pc>>
    BY <1>4 DEF Return
  <2>2. TypeOK' BY <1>1, <2>1 DEF TypeOK
  <2>3. Hands' BY <1>1, <2>1 DEF TypeOK, Hands
  <2>4. Owed' BY <1>1, <2>1 DEF Owed
  <2>5. Count'
    <3>1. OnRail' = OnRail BY <1>1, <2>1 DEF OnRail, TypeOK
    <3>2. Busy' = Busy BY <2>1 DEF Busy
    <3> QED BY <3>1, <3>2, <1>1, <1>2, <2>1 DEF Count
  <2> QED BY <2>2, <2>3, <2>4, <2>5
<1> QED BY <1>3, <1>4

\* The buffer in hand is posted, or waits to be.
LEMMA RepostIInv ==
    ASSUME IInv, NEW t \in Threads, Repost(t)
    PROVE  IInv'
<1> USE BounceAssumption DEF IInv
<1> DEFINE b == cur[t]
<1>1. /\ pc[t] = "repost" /\ UNCHANGED <<num, need, lost, failures>>
      /\ cur' = [cur EXCEPT ![t] = None]
      /\ \/ loc' = [loc EXCEPT ![b] = "posted"] /\ pc' = [pc EXCEPT ![t] = "check"]
         \/ loc' = [loc EXCEPT ![b] = "pending"] /\ pc' = [pc EXCEPT ![t] = "idle"]
  BY DEF Repost
<1>2. b \in Bufs /\ loc[b] = "handler" BY <1>1 DEF TypeOK, Hands
<1>3. TypeOK' BY <1>1, <1>2 DEF TypeOK
<1>4. Hands' BY <1>1, <1>2 DEF TypeOK, Hands
<1>5. Owed' BY <1>1 DEF TypeOK, Owed
<1>6. Count'
  <2> HIDE DEF b
  <2>1. b \notin OnRail /\ b \in OnRail' BY <1>1, <1>2 DEF OnRail, TypeOK
  <2>2. t \in Busy /\ t \notin Busy' BY <1>1 DEF Busy, TypeOK
  <2>3. Cardinality(OnRail') \in Nat /\ Cardinality(OnRail') = Cardinality(OnRail) + 1
    <3>1. \A a \in Bufs : a # b => loc'[a] = loc[a] BY <1>1 DEF TypeOK
    <3> QED BY <2>1, <3>1, RailStep, SetsFinite
  <2>4. Cardinality(Busy') \in Nat /\ Cardinality(Busy') + 1 = Cardinality(Busy)
    BY <2>2, <1>1, BusyStep, SetsFinite DEF TypeOK
  <2>5. Promised' = Promised BY <1>1 DEF Promised
  <2> QED BY <2>3, <2>4, <2>5, <1>1, SetsFinite DEF Count, TypeOK
<1> QED BY <1>3, <1>4, <1>5, <1>6

\* A buffer that waited is posted.
LEMMA PostPendingIInv ==
    ASSUME IInv, NEW t \in Threads, NEW b \in Bufs, PostPending(t, b)
    PROVE  IInv'
<1> USE BounceAssumption DEF IInv, PostPending
<1>1. TypeOK' BY DEF TypeOK
<1>2. Hands' /\ Owed' BY DEF TypeOK, Hands, Owed
<1>3. OnRail' = OnRail BY DEF OnRail, TypeOK
<1>4. Busy' = Busy /\ Promised' = Promised BY DEF Busy, Promised
<1>5. Count' BY <1>3, <1>4 DEF Count
<1> QED BY <1>1, <1>2, <1>5

\* The assertion of decrease_bounce_buff_cnt: the thread itself is counted.
LEMMA BusyCounted ==
    ASSUME IInv, NEW t \in Busy
    PROVE  num > 0
<1>1. Busy # {} OBVIOUS
<1>2. Cardinality(Busy) # 0 BY <1>1, SetsFinite, FS_EmptySet
<1> QED BY <1>2, SetsFinite DEF IInv, Count, TypeOK

\* decrease_bounce_buff_cnt: the buffer that was taken off the rail is no longer counted.
LEMMA DecreaseIInv ==
    ASSUME IInv, NEW t \in Threads, Decrease(t)
    PROVE  IInv'
<1> USE BounceAssumption DEF IInv
<1>1. /\ \/ pc[t] = "decrease_ctrl" /\ cur' = [cur EXCEPT ![t] = None]
         \/ pc[t] = "decrease_eager" /\ cur' = cur
      /\ num' = num - 1 /\ pc' = [pc EXCEPT ![t] = "check"]
      /\ UNCHANGED <<loc, need, lost, failures>>
  BY DEF Decrease
<1>2. t \in Busy /\ t \notin Busy' BY <1>1 DEF Busy, TypeOK
<1>3. TypeOK'
  <2>1. num > 0 BY <1>2, BusyCounted
  <2>2. num' \in 0..MaxPosted BY <2>1, <1>1 DEF TypeOK
  <2> QED BY <2>2, <1>1 DEF TypeOK
<1>4. Hands' BY <1>1 DEF TypeOK, Hands
<1>5. Owed' BY <1>1 DEF TypeOK, Owed
<1>6. Count'
  <2>1. Cardinality(Busy') \in Nat /\ Cardinality(Busy') + 1 = Cardinality(Busy)
    BY <1>1, <1>2, BusyStep, SetsFinite DEF TypeOK
  <2>2. OnRail' = OnRail /\ Promised' = Promised BY <1>1 DEF OnRail, Promised
  <2> QED BY <2>1, <2>2, <1>1, SetsFinite DEF Count, TypeOK
<1> QED BY <1>3, <1>4, <1>5, <1>6

\* The end of a handler that owes nothing: what Leave does to the invariant.
LEMMA LeaveKeeps ==
    ASSUME IInv, NEW t \in Threads, Leave(t), pc[t] \in {"check", "promise", "giveback"}
    PROVE  /\ loc' \in [Bufs -> {"free", "posted", "pending", "handler", "held"}]
           /\ pc' = [pc EXCEPT ![t] = "idle"]
           /\ cur' \in [Threads -> Bufs \cup {None}]
           /\ Hands'
           /\ OnRail' = OnRail /\ Busy' = Busy
<1> USE BounceAssumption DEF IInv, Leave
<1>1. CASE cur[t] = None
  <2>1. loc' = loc BY <1>1
  <2> QED BY <2>1, <1>1 DEF TypeOK, Hands, OnRail, Busy
<1>2. CASE cur[t] # None
  <2>1. cur[t] \in Bufs /\ loc[cur[t]] = "handler" BY <1>2 DEF TypeOK, Hands
  <2>2. loc' = [loc EXCEPT ![cur[t]] = "held"] BY <1>2
  <2>3. Hands' BY <2>1, <2>2, <1>2 DEF TypeOK, Hands
  <2>4. OnRail' = OnRail BY <2>1, <2>2 DEF OnRail, TypeOK
  <2>5. Busy' = Busy BY DEF Busy, TypeOK
  <2> QED BY <2>1, <2>2, <2>3, <2>4, <2>5 DEF TypeOK
<1> QED BY <1>1, <1>2

\* check_post_bounce_buffers_rail reads the count and changes nothing that is counted.
LEMMA CheckIInv ==
    ASSUME IInv, NEW t \in Threads, Check(t)
    PROVE  IInv'
<1> USE BounceAssumption DEF IInv
<1>1. pc[t] = "check" /\ UNCHANGED <<num, need, lost, failures>> BY DEF Check
<1>2. Promised' = Promised BY <1>1 DEF Promised
<1>3. CASE pc' = [pc EXCEPT ![t] = "promise"] /\ UNCHANGED <<loc, cur>>
  <2>1. TypeOK' BY <1>1, <1>3 DEF TypeOK
  <2>2. Hands' /\ Owed' BY <1>1, <1>3 DEF TypeOK, Hands, Owed
  <2>3. OnRail' = OnRail /\ Busy' = Busy BY <1>1, <1>3 DEF OnRail, Busy, TypeOK
  <2> QED BY <2>1, <2>2, <2>3, <1>1, <1>2 DEF Count
<1>4. CASE Leave(t)
  <2>1. /\ loc' \in [Bufs -> {"free", "posted", "pending", "handler", "held"}]
        /\ pc' = [pc EXCEPT ![t] = "idle"]
        /\ cur' \in [Threads -> Bufs \cup {None}]
        /\ Hands' /\ OnRail' = OnRail /\ Busy' = Busy
    BY <1>1, <1>4, LeaveKeeps
  <2>2. TypeOK' BY <1>1, <2>1 DEF TypeOK
  <2>3. Owed' BY <1>1, <2>1 DEF TypeOK, Owed
  <2> QED BY <2>1, <2>2, <2>3, <1>1, <1>2 DEF Count
<1> QED BY <1>3, <1>4 DEF Check

\* post_bounce_buffs_on_rail raises the count to the maximum by what it promises to post.
LEMMA PromiseIInv ==
    ASSUME IInv, NEW t \in Threads, Promise(t)
    PROVE  IInv'
<1> USE BounceAssumption DEF IInv
<1>1. /\ pc[t] = "promise" /\ UNCHANGED <<lost, failures>>
      /\ need' = [need EXCEPT ![t] = MaxPosted - num] /\ num' = MaxPosted
  BY DEF Promise
<1>2. MaxPosted - num \in 0..MaxPosted /\ need[t] = 0 BY <1>1 DEF TypeOK, Owed
<1>3. /\ Cardinality(Promised') \in Nat
      /\ Cardinality(Promised') = Cardinality(Promised) + (MaxPosted - num)
  <2> DEFINE v == MaxPosted - num
  <2>1. v \in 0..MaxPosted /\ need' = [need EXCEPT ![t] = v] BY <1>1, <1>2
  <2> HIDE DEF v
  <2>2. /\ Cardinality(Promised') \in Nat
        /\ Cardinality(Promised') + need[t] = Cardinality(Promised) + v
    BY <2>1, PromiseStep, Zenon
  <2>3. Cardinality(Promised') = Cardinality(Promised) + v BY <2>2, <1>2
  <2> QED BY <2>2, <2>3 DEF v
<1>4. CASE num = MaxPosted
  <2>1. Leave(t) BY <1>4 DEF Promise
  <2>2. /\ loc' \in [Bufs -> {"free", "posted", "pending", "handler", "held"}]
        /\ pc' = [pc EXCEPT ![t] = "idle"]
        /\ cur' \in [Threads -> Bufs \cup {None}]
        /\ Hands' /\ OnRail' = OnRail /\ Busy' = Busy
    BY <1>1, <2>1, LeaveKeeps
  <2>3. TypeOK' BY <1>1, <1>2, <2>2 DEF TypeOK
  <2>4. Owed' BY <1>1, <1>4, <2>2 DEF TypeOK, Owed
  <2>5. Count' BY <1>1, <1>3, <1>4, <2>2, SetsFinite DEF Count, TypeOK
  <2> QED BY <2>2, <2>3, <2>4, <2>5
<1>5. CASE num # MaxPosted
  <2>1. pc' = [pc EXCEPT ![t] = "post"] /\ UNCHANGED <<loc, cur>> BY <1>5 DEF Promise
  <2>2. TypeOK' BY <1>1, <1>2, <2>1 DEF TypeOK
  <2>3. Hands' BY <1>1, <2>1 DEF TypeOK, Hands
  <2>4. Owed'
    <3>1. MaxPosted - num >= 1 BY <1>5 DEF TypeOK
    <3> QED BY <1>1, <2>1, <3>1 DEF TypeOK, Owed
  <2>5. OnRail' = OnRail /\ Busy' = Busy BY <1>1, <2>1 DEF OnRail, Busy, TypeOK
  <2>6. Count' BY <1>1, <1>3, <2>5, SetsFinite DEF Count, TypeOK
  <2> QED BY <2>2, <2>3, <2>4, <2>6
<1> QED BY <1>4, <1>5

\* A promised buffer is posted, or waits in the queue after EAGAIN: it is counted either way.
LEMMA PostIInv ==
    ASSUME IInv, NEW t \in Threads, Post(t)
    PROVE  IInv'
<1> USE BounceAssumption DEF IInv
<1>1. PICK b \in At("free") :
        /\ need' = [need EXCEPT ![t] = need[t] - 1]
        /\ \/ /\ need[t] > 1
              /\ loc' = [loc EXCEPT ![b] = "posted"]
              /\ UNCHANGED <<pc, cur>>
           \/ /\ need[t] = 1
              /\ pc' = [pc EXCEPT ![t] = "idle"]
              /\ cur' = [cur EXCEPT ![t] = None]
              /\ loc' = [a \in Bufs |-> IF a = b THEN "posted"
                                        ELSE IF a = cur[t] THEN "held" ELSE loc[a]]
           \/ /\ loc' = [loc EXCEPT ![b] = "pending"]
              /\ pc' = [pc EXCEPT ![t] = "giveback"]
              /\ UNCHANGED cur
  BY DEF Post, TypeOK
<1>2. pc[t] = "post" /\ UNCHANGED <<num, lost, failures>> BY DEF Post
<1>3. b \in Bufs /\ loc[b] = "free" BY DEF At
<1>4. need[t] \in 1..MaxPosted /\ need[t] - 1 \in 0..MaxPosted BY <1>2 DEF TypeOK, Owed
<1>5. Cardinality(Promised') \in Nat /\ Cardinality(Promised') + 1 = Cardinality(Promised)
  <2> DEFINE v == need[t] - 1
  <2>1. v \in 0..MaxPosted /\ need' = [need EXCEPT ![t] = v] BY <1>1, <1>4
  <2> HIDE DEF v
  <2>2. /\ Cardinality(Promised') \in Nat
        /\ Cardinality(Promised') + need[t] = Cardinality(Promised) + v
    BY <2>1, PromiseStep, Zenon
  <2> QED BY <2>2, <1>4, SetsFinite DEF v
<1>6. Busy' = Busy BY <1>1, <1>2 DEF Busy, TypeOK
<1>7. Cardinality(OnRail') \in Nat /\ Cardinality(OnRail') = Cardinality(OnRail) + 1
  <2>1. OnRail' = OnRail \cup {b}
    <3>1. cur[t] \in Bufs => loc[cur[t]] = "handler" BY <1>2 DEF Hands, TypeOK
    <3> QED BY <1>1, <1>3, <3>1 DEF OnRail, TypeOK
  <2>2. b \notin OnRail BY <1>3 DEF OnRail
  <2> HIDE DEF IInv
  <2>3. Cardinality(OnRail \cup {b}) = Cardinality(OnRail) + 1
    BY <2>2, SetsFinite, FS_AddElement, Zenon
  <2> QED BY <2>1, <2>3, SetsFinite
<1>8. Count' BY <1>2, <1>5, <1>6, <1>7, SetsFinite DEF Count, TypeOK
<1>9. TypeOK' BY <1>1, <1>2, <1>3, <1>4 DEF TypeOK
<1>10. Owed' BY <1>1, <1>2, <1>4 DEF TypeOK, Owed
<1>11. Hands'
  <2>1. \A u \in Threads : cur[u] # None /\ pc[u] # "decrease_ctrl" => cur[u] # b
    BY <1>3 DEF Hands
  <2> QED BY <1>1, <1>2, <1>3, <2>1 DEF TypeOK, Hands
<1> QED BY <1>8, <1>9, <1>10, <1>11

\* A request that cannot be allocated leaves the promises counted for good (lost).
LEMMA PostFailsIInv ==
    ASSUME IInv, NEW t \in Threads, PostFails(t)
    PROVE  IInv'
<1> USE BounceAssumption DEF IInv, PostFails
<1>1. need[t] \in 0..MaxPosted BY DEF TypeOK
<1>2. /\ Cardinality(Promised') \in Nat
      /\ Cardinality(Promised') + need[t] = Cardinality(Promised) + 0
  BY PromiseStep, 0 \in 0..MaxPosted, Zenon
<1>3. TypeOK' BY <1>1 DEF TypeOK
<1>4. Hands' BY DEF TypeOK, Hands
<1>5. Owed' BY DEF TypeOK, Owed
<1>6. OnRail' = OnRail /\ Busy' = Busy BY DEF OnRail, Busy, TypeOK
<1>7. Count' BY <1>1, <1>2, <1>6, SetsFinite DEF Count, TypeOK
<1> QED BY <1>3, <1>4, <1>5, <1>7

\* The assertion of handle_bounce_eagain: what a thread owes is counted.
LEMMA OwedCounted ==
    ASSUME IInv, NEW t \in Threads
    PROVE  num >= need[t]
<1> USE BounceAssumption
<1>1. need[t] \in 0..MaxPosted /\ need \in [Threads -> 0..MaxPosted] BY DEF IInv, TypeOK
<1>2. Cardinality(Promised) >= need[t]
  <2> DEFINE rest == {p \in Threads \X (1..MaxPosted) : p[1] # t /\ p[2] <= need[p[1]]}
  <2>1. Cardinality(rest) \in Nat /\ Cardinality(Pairs(need)) = Cardinality(rest) + need[t]
    BY <1>1, PairsSplit
  <2> HIDE DEF rest
  <2> QED BY <2>1, <1>1, SetsFinite
<1> QED BY <1>1, <1>2, SetsFinite DEF IInv, Count, TypeOK

\* handle_bounce_eagain takes from the count what was promised and not posted.
LEMMA GiveBackIInv ==
    ASSUME IInv, NEW t \in Threads, GiveBack(t)
    PROVE  IInv'
<1> USE BounceAssumption DEF IInv
<1>1. /\ pc[t] = "giveback" /\ UNCHANGED <<lost, failures>> /\ Leave(t)
      /\ num' = num - need[t] /\ need' = [need EXCEPT ![t] = 0]
  BY DEF GiveBack
<1>2. need[t] \in 0..MaxPosted /\ num >= need[t] BY OwedCounted DEF TypeOK
<1>3. /\ Cardinality(Promised') \in Nat
      /\ Cardinality(Promised') + need[t] = Cardinality(Promised) + 0
  BY <1>1, PromiseStep, 0 \in 0..MaxPosted, Zenon
<1>4. /\ loc' \in [Bufs -> {"free", "posted", "pending", "handler", "held"}]
      /\ pc' = [pc EXCEPT ![t] = "idle"]
      /\ cur' \in [Threads -> Bufs \cup {None}]
      /\ Hands' /\ OnRail' = OnRail /\ Busy' = Busy
  BY <1>1, LeaveKeeps
<1>5. TypeOK' BY <1>1, <1>2, <1>4 DEF TypeOK
<1>6. Owed' BY <1>1, <1>4 DEF TypeOK, Owed
<1>7. Count' BY <1>1, <1>2, <1>3, <1>4, SetsFinite DEF Count, TypeOK
<1> QED BY <1>4, <1>5, <1>6, <1>7

-----------------------------------------------------------------------------

\* Every step of every handler keeps the inductive invariant.
LEMMA StepIInv == IInv /\ [Next]_vars => IInv'
<1> SUFFICES ASSUME IInv, [Next]_vars PROVE IInv' OBVIOUS
<1>1. ASSUME NEW t \in Threads, NEW b \in Bufs,
             \/ TakeRepost(t, b) \/ TakeCtrl(t, b) \/ TakeEager(t, b)
             \/ Return(t, b) \/ PostPending(t, b)
      PROVE  IInv'
  BY <1>1, TakeIInv, ReturnIInv, PostPendingIInv
<1>2. ASSUME NEW t \in Threads, Repost(t) \/ Decrease(t) \/ Check(t)
      PROVE  IInv'
  BY <1>2, RepostIInv, DecreaseIInv, CheckIInv
<1>3. ASSUME NEW t \in Threads, Promise(t) \/ Post(t) \/ PostFails(t) \/ GiveBack(t)
      PROVE  IInv'
  BY <1>3, PromiseIInv, PostIInv, PostFailsIInv, GiveBackIInv
<1>4. CASE UNCHANGED vars
  BY <1>4 DEF vars, IInv, TypeOK, Count, Hands, Owed, OnRail, Busy, Promised
<1> QED BY <1>1, <1>2, <1>3, <1>4 DEF Next

\* For any number of threads and buffers and any limits of a rail, num counts the buffers
\* that are posted, waiting or promised at every point of every handler, it stays between
\* zero and the maximum, and the assertions of decrease_bounce_buff_cnt and
\* handle_bounce_eagain hold.
THEOREM CountTheorem == Spec => []CountAgrees
<1>1. IInv => CountAgrees
  <2> SUFFICES ASSUME IInv PROVE CountAgrees OBVIOUS
  <2>1. TypeOK /\ Count BY DEF IInv
  <2>2. ASSUME NEW t \in Threads, pc[t] \in {"decrease_ctrl", "decrease_eager"}
        PROVE  num > 0
    <3>1. t \in Busy BY <2>2 DEF Busy
    <3> QED BY <3>1, BusyCounted
  <2>3. \A t \in Threads : num >= need[t] BY OwedCounted
  <2> QED BY <2>1, <2>2, <2>3 DEF CountAgrees, Count
<1> QED BY InitIInv, StepIInv, <1>1, PTL DEF Spec
=============================================================================
