---------------------------- MODULE QuotaProofs ----------------------------
(***************************************************************************)
(* Theorems about the sweep of Board: what it counts, what it leaves, and  *)
(* what it may remove from under a message.                                *)
(***************************************************************************)
EXTENDS BoardProofs, FiniteSetTheorems

-----------------------------------------------------------------------------
(* Counting bytes.                                                         *)

\* The bytes of one file are as many as its size says.
LEMMA OneFile ==
    ASSUME NEW i, NEW n \in Nat
    PROVE  IsFiniteSet({i} \X (1 .. n)) /\ Cardinality({i} \X (1 .. n)) = n
<1>1. IsFiniteSet({i}) /\ Cardinality({i}) = 1
  BY FS_Singleton
<1>2. IsFiniteSet(1 .. n) /\ Cardinality(1 .. n) = n
  BY FS_Interval
<1>3. /\ IsFiniteSet({i} \X (1 .. n))
      /\ Cardinality({i} \X (1 .. n)) = Cardinality({i}) * Cardinality(1 .. n)
  BY <1>1, <1>2, FS_Product
<1> QED  BY <1>1, <1>2, <1>3

\* One more file adds its size.
LEMMA FileAdded ==
    ASSUME NEW f, NEW S, NEW i, i \notin S, f[i] \in Nat, IsFiniteSet(BytesIn(f, S))
    PROVE  /\ IsFiniteSet(BytesIn(f, S \cup {i}))
           /\ Cardinality(BytesIn(f, S \cup {i})) = Cardinality(BytesIn(f, S)) + f[i]
<1> DEFINE new == {i} \X (1 .. f[i])
<1>1. IsFiniteSet(new) /\ Cardinality(new) = f[i]
  BY OneFile
<1>2. BytesIn(f, S \cup {i}) = BytesIn(f, S) \cup new
  BY DEF BytesIn
<1>3. BytesIn(f, S) \cap new = {}
  BY DEF BytesIn
<1> HIDE DEF new
<1>4. /\ IsFiniteSet(BytesIn(f, S) \cup new)
      /\ Cardinality(BytesIn(f, S) \cup new)
           = Cardinality(BytesIn(f, S)) + Cardinality(new) - Cardinality(BytesIn(f, S) \cap new)
  BY <1>1, FS_Union
<1>5. Cardinality(BytesIn(f, S) \cap new) = 0
  BY <1>3, FS_EmptySet
<1>6. Cardinality(BytesIn(f, S)) \in Nat
  BY FS_CardinalityType
<1>7. Cardinality(BytesIn(f, S) \cup new) = Cardinality(BytesIn(f, S)) + f[i]
  BY <1>1, <1>4, <1>5, <1>6
<1> QED  BY <1>2, <1>4, <1>7, Zenon

\* One file less takes its size off.
LEMMA FileRemoved ==
    ASSUME NEW f, NEW S, NEW i \in S, f[i] \in Nat, IsFiniteSet(BytesIn(f, S))
    PROVE  /\ IsFiniteSet(BytesIn(f, S \ {i}))
           /\ Cardinality(BytesIn(f, S \ {i})) \in Nat
           /\ Cardinality(BytesIn(f, S)) = Cardinality(BytesIn(f, S \ {i})) + f[i]
<1>1. BytesIn(f, S \ {i}) \subseteq BytesIn(f, S)
  BY DEF BytesIn
<1>2. IsFiniteSet(BytesIn(f, S \ {i}))
  BY <1>1, FS_Subset
<1>3. (S \ {i}) \cup {i} = S
  OBVIOUS
<1>4. Cardinality(BytesIn(f, (S \ {i}) \cup {i})) = Cardinality(BytesIn(f, S \ {i})) + f[i]
  BY <1>2, FileAdded
<1> QED  BY <1>2, <1>3, <1>4, FS_CardinalityType

\* Only the sizes of those files count.
LEMMA SameBytes ==
    ASSUME NEW f, NEW g, NEW S, \A i \in S : f[i] = g[i]
    PROVE  BytesIn(f, S) = BytesIn(g, S)
BY DEF BytesIn

-----------------------------------------------------------------------------
(* The inductive invariant of the sweep's count.                           *)

Sweeping == {"listing", "sweeping", "persisting"}

\* The sweep's locals are blank unless a request is in the sweep.
BlankOutside == (\A r \in Requests : pc[r] \notin Sweeping) => sweep = NoSweep

\* While the directory is listed, the total is what was seen of it: the Mutex
\* keeps uploads from changing a file that was counted.
ListedRight ==
    (\E r \in Requests : pc[r] = "listing") =>
        /\ sweep.seen \subseteq Present
        /\ \A i \in sweep.seen : sweep.size[i] = files[i]
        /\ IsFiniteSet(BytesIn(files, sweep.seen))
        /\ sweep.total = Cardinality(BytesIn(files, sweep.seen))

\* While files are removed, it is what is on disk; every file still to be tried
\* is there, in the size that was read.
CountedRight ==
    (\E r \in Requests : pc[r] = "sweeping") =>
        /\ sweep.todo \subseteq Present
        /\ \A i \in sweep.todo : sweep.size[i] = files[i]
        /\ IsFiniteSet(BytesIn(files, Present))
        /\ sweep.total = OnDisk

CountInv == BlankOutside /\ ListedRight /\ CountedRight

-----------------------------------------------------------------------------
(* Each step keeps the count.                                              *)

\* Steps that are no part of a sweep and change no file.
LEMMA CountElsewhere ==
    ASSUME TypeOK, CountInv, UNCHANGED <<files, sweep>>,
           NEW r \in Requests, pc[r] \notin Sweeping,
           NEW l, l \notin Sweeping, pc' = [pc EXCEPT ![r] = l]
    PROVE  CountInv'
<1>1. \A q \in Requests : pc'[q] \in Sweeping <=> pc[q] \in Sweeping
  BY DEF TypeOK
<1>2. \A q \in Requests : pc'[q] \in Sweeping => pc'[q] = pc[q]
  BY DEF TypeOK
<1> QED
  BY <1>1, <1>2 DEF CountInv, BlankOutside, ListedRight, CountedRight, OnDisk, Present, Sweeping

\* Steps that leave nobody in a sweep.
LEMMA CountBlank ==
    ASSUME sweep' = NoSweep, \A q \in Requests : pc'[q] \notin Sweeping
    PROVE  CountInv'
BY DEF CountInv, BlankOutside, ListedRight, CountedRight, Sweeping

\* A sweep begins with nothing seen.
LEMMA CountBegins ==
    ASSUME sweep' = NoSweep, \A q \in Requests : pc'[q] \in Sweeping => pc'[q] = "listing"
    PROVE  CountInv'
<1>1. BytesIn(files', {}) = {}
  BY DEF BytesIn
<1>2. IsFiniteSet(BytesIn(files', {})) /\ Cardinality(BytesIn(files', {})) = 0
  BY <1>1, FS_EmptySet
<1>3. sweep'.seen = {} /\ sweep'.total = 0
  BY DEF NoSweep
<1>4. ListedRight'
  BY <1>2, <1>3 DEF ListedRight
<1>5. BlankOutside' /\ CountedRight'
  BY DEF BlankOutside, CountedRight, Sweeping
<1> QED  BY <1>4, <1>5 DEF CountInv

\* Nobody sweeps while the Mutex is free or another request holds it.
LEMMA NobodySweeps ==
    ASSUME LockInv, CountInv, NEW r \in Requests,
           lock = None \/ pc[r] \in Locked \ Sweeping
    PROVE  sweep = NoSweep /\ \A q \in Requests : pc[q] \notin Sweeping
<1>1. \A q \in Requests : pc[q] \notin Sweeping
  BY Alone, FreeMutex DEF Locked, Sweeping
<1> QED  BY <1>1 DEF CountInv, BlankOutside

LEMMA StatCounts ==
    ASSUME IInv, CountInv, NEW r \in Requests, SweepStat(r)
    PROVE  CountInv'
<1>1. TypeOK /\ LockInv
  BY DEF IInv
<1>2. PICK i \in Present \ sweep.seen :
         sweep' = [sweep EXCEPT !.seen = @ \cup {i}, !.size = [@ EXCEPT ![i] = files[i]],
                                !.total = @ + files[i]]
  BY DEF SweepStat
<1>3. /\ sweep'.seen = sweep.seen \cup {i} /\ sweep'.total = sweep.total + files[i]
      /\ sweep'.size = [sweep.size EXCEPT ![i] = files[i]]
      /\ sweep.size \in [Images -> Nat] /\ i \in Images /\ files[i] \in Nat
  BY <1>1, <1>2 DEF TypeOK, SweepType, Present, Absent
<1>4. pc[r] = "listing" /\ UNCHANGED <<files, pc>>
  BY DEF SweepStat, disk, slots
<1>5. \A q \in Requests : pc[q] # "sweeping"
  BY <1>1, <1>4, Alone DEF Locked
<1>6. ListedRight
  BY DEF CountInv
<1>7. /\ sweep.seen \subseteq Present
      /\ \A j \in sweep.seen : sweep.size[j] = files[j]
      /\ IsFiniteSet(BytesIn(files, sweep.seen))
      /\ sweep.total = Cardinality(BytesIn(files, sweep.seen))
  BY <1>4, <1>6 DEF ListedRight
<1>8. /\ IsFiniteSet(BytesIn(files, sweep.seen \cup {i}))
      /\ Cardinality(BytesIn(files, sweep.seen \cup {i})) = sweep.total + files[i]
  <2>1. i \notin sweep.seen /\ files[i] \in Nat /\ IsFiniteSet(BytesIn(files, sweep.seen))
    BY <1>2, <1>3, <1>7
  <2>2. /\ IsFiniteSet(BytesIn(files, sweep.seen \cup {i}))
        /\ Cardinality(BytesIn(files, sweep.seen \cup {i}))
             = Cardinality(BytesIn(files, sweep.seen)) + files[i]
    BY <2>1, FileAdded
  <2> QED  BY <1>7, <2>2, Zenon
<1>9. \A j \in sweep'.seen : sweep'.size[j] = files[j]
  BY <1>1, <1>3, <1>7 DEF Present
<1>10. ListedRight'
  BY <1>2, <1>3, <1>4, <1>7, <1>8, <1>9 DEF ListedRight, Present
<1>11. BlankOutside' /\ CountedRight'
  BY <1>4, <1>5 DEF BlankOutside, CountedRight, Sweeping
<1> QED  BY <1>10, <1>11 DEF CountInv

LEMMA JudgeCounts ==
    ASSUME IInv, CountInv, NEW r \in Requests, SweepJudge(r)
    PROVE  CountInv'
<1>1. TypeOK /\ LockInv /\ pc[r] = "listing" /\ sweep.seen = Present /\ UNCHANGED files
  BY DEF IInv, SweepJudge, disk
<1>2. \A q \in Requests : q # r => pc[q] \notin Sweeping
  BY <1>1, Alone DEF Locked, Sweeping
<1>3. CASE Leave(r)
  BY <1>1, <1>2, <1>3, CountBlank DEF Leave, Goto, TypeOK, Sweeping
<1>4. ASSUME NEW cutoff, pc' = [pc EXCEPT ![r] = "sweeping"],
             sweep' = [sweep EXCEPT !.cutoff = cutoff,
                                    !.todo = {i \in sweep.seen : OldEnough(i, cutoff)}]
      PROVE  CountInv'
  <2>1. /\ sweep'.todo \subseteq sweep.seen /\ sweep'.size = sweep.size
        /\ sweep'.total = sweep.total
    BY <1>1, <1>4 DEF TypeOK, SweepType
  <2>2. /\ \A i \in sweep.seen : sweep.size[i] = files[i]
        /\ IsFiniteSet(BytesIn(files, Present))
        /\ sweep.total = OnDisk
    BY <1>1 DEF CountInv, ListedRight, OnDisk
  <2>3. \A q \in Requests : pc'[q] # "listing"
    BY <1>1, <1>2, <1>4 DEF TypeOK, Sweeping
  <2>4. pc'[r] = "sweeping"
    BY <1>1, <1>4 DEF TypeOK
  <2>5. CountedRight'
    BY <1>1, <2>1, <2>2 DEF CountedRight, OnDisk, Present
  <2> QED  BY <2>3, <2>4, <2>5 DEF CountInv, BlankOutside, ListedRight, Sweeping
<1> QED  BY <1>3, <1>4 DEF SweepJudge, Goto

LEMMA RemoveCounts ==
    ASSUME IInv, CountInv, NEW r \in Requests, SweepRemove(r)
    PROVE  CountInv'
<1>1. TypeOK /\ LockInv /\ pc[r] = "sweeping" /\ UNCHANGED pc
  BY DEF IInv, SweepRemove, slots
<1>2. PICK i \in sweep.todo :
         /\ files' = [files EXCEPT ![i] = Absent]
         /\ sweep' = [sweep EXCEPT !.todo = @ \ {i}, !.gone = @ \cup {i},
                                   !.total = SaturatingSub(@, sweep.size[i])]
  BY DEF SweepRemove, NextVictims
<1>3. /\ sweep.todo \subseteq Present
      /\ \A j \in sweep.todo : sweep.size[j] = files[j]
      /\ IsFiniteSet(BytesIn(files, Present))
      /\ sweep.total = Cardinality(BytesIn(files, Present))
  BY <1>1 DEF CountInv, CountedRight, OnDisk
<1>4. /\ sweep'.todo = sweep.todo \ {i} /\ sweep'.size = sweep.size
      /\ sweep'.total = SaturatingSub(sweep.total, files[i])
      /\ i \in Present /\ files[i] \in Nat
  BY <1>1, <1>2, <1>3 DEF TypeOK, SweepType, Present, Absent
<1>5. Present' = Present \ {i} /\ \A j \in Present \ {i} : files'[j] = files[j]
  BY <1>1, <1>2, <1>4 DEF TypeOK, Present
<1>6. BytesIn(files', Present') = BytesIn(files, Present \ {i})
  BY <1>5, SameBytes
<1>7. /\ IsFiniteSet(BytesIn(files, Present \ {i}))
      /\ Cardinality(BytesIn(files, Present \ {i})) \in Nat
      /\ sweep.total = Cardinality(BytesIn(files, Present \ {i})) + files[i]
  BY <1>3, <1>4, FileRemoved
<1>8. sweep'.total = Cardinality(BytesIn(files, Present \ {i}))
  BY <1>4, <1>7 DEF SaturatingSub
<1>9. CountedRight'
  BY <1>3, <1>4, <1>5, <1>6, <1>7, <1>8 DEF CountedRight, OnDisk
<1>10. \A q \in Requests : pc'[q] # "listing"
  BY <1>1, Alone DEF Locked
<1> QED  BY <1>1, <1>9, <1>10 DEF CountInv, BlankOutside, ListedRight, Sweeping

LEMMA CountStep == IInv /\ CountInv /\ [Next]_vars => CountInv'
<1> SUFFICES ASSUME IInv, CountInv, [Next]_vars PROVE CountInv'
  OBVIOUS
<1> USE DEF store, disk, slots, host
<1>0. TypeOK /\ LockInv
  BY DEF IInv
<1>1. ASSUME NEW r \in Requests,
             PostArrive(r) \/ PostReject(r) \/ StoreDedup(r) \/ DeleteLock(r) \/ ServeLookup(r)
             \/ PostLock(r) \/ AppendJson(r) \/ ServeRead(r) \/ Reply(r) \/ Cancel(r)
      PROVE  CountInv'
  <2>1. UNCHANGED <<files, sweep>> /\ pc[r] \notin Sweeping
    BY <1>1 DEF PostArrive, PostReject, StoreDedup, DeleteLock, ServeLookup, PostLock, AppendJson,
                ServeRead, Reply, Cancel, Awaiting, Sweeping
  <2>2. \E l : l \notin Sweeping /\ pc' = [pc EXCEPT ![r] = l]
    BY <1>1 DEF PostArrive, PostReject, StoreDedup, DeleteLock, ServeLookup, PostLock, AppendJson,
                ServeRead, Reply, Cancel, Answer, Goto, Sweeping
  <2> QED  BY <1>0, <2>1, <2>2, CountElsewhere
<1>2. ASSUME NEW r \in Requests, StoreBegin(r) \/ StoreWrite(r) \/ StoreFail(r)
      PROVE  CountInv'
  <2>1. lock = None \/ pc[r] \in Locked \ Sweeping
    BY <1>2 DEF StoreBegin, Acquire, StoreWrite, StoreFail, Locked, Sweeping
  <2>2. UNCHANGED sweep /\ \E l : l \notin Sweeping /\ pc' = [pc EXCEPT ![r] = l]
    BY <1>2 DEF StoreBegin, StoreWrite, StoreFail, Answer, Goto, Sweeping
  <2>3. sweep' = NoSweep /\ \A q \in Requests : pc'[q] \notin Sweeping
    BY <1>0, <2>1, <2>2, NobodySweeps DEF TypeOK
  <2> QED  BY <2>3, CountBlank
<1>3. ASSUME NEW r \in Requests, AppendNewline(r) \/ AppendFail(r) PROVE CountInv'
  <2>1. pc[r] \in Locked \ Sweeping
    BY <1>3 DEF AppendNewline, AppendFail, Locked, Sweeping
  <2>2. UNCHANGED sweep /\ \E l \in {"listing", "replying"} : pc' = [pc EXCEPT ![r] = l]
    BY <1>3 DEF AppendNewline, AppendFail, AfterAppend, Goto
  <2>3. sweep' = NoSweep /\ \A q \in Requests : pc'[q] \in Sweeping => pc'[q] = "listing"
    BY <1>0, <2>1, <2>2, NobodySweeps DEF TypeOK, Sweeping
  <2> QED  BY <2>3, CountBegins
<1>4. ASSUME NEW r \in Requests, SweepListFail(r) \/ Rewrite(r) PROVE CountInv'
  <2>1. pc[r] \in Locked
    BY <1>4 DEF SweepListFail, Rewrite, Persist, PersistFail, Locked
  <2>2. sweep' = NoSweep /\ \E l : l \notin Sweeping /\ pc' = [pc EXCEPT ![r] = l]
    BY <1>4 DEF SweepListFail, Leave, Rewrite, Persist, PersistFail, AfterRewrite, Answer, Goto,
                Sweeping
  <2>3. \A q \in Requests : pc'[q] \notin Sweeping
    BY <1>0, <2>1, <2>2, Alone DEF TypeOK, Locked, Sweeping
  <2> QED  BY <2>2, <2>3, CountBlank
<1>5. ASSUME NEW r \in Requests, SweepRemoveFail(r) PROVE CountInv'
  <2>1. /\ sweep'.todo \subseteq sweep.todo /\ sweep'.seen = sweep.seen
        /\ sweep'.size = sweep.size /\ sweep'.total = sweep.total
        /\ UNCHANGED <<files, pc>> /\ pc[r] = "sweeping"
    BY <1>0, <1>5 DEF SweepRemoveFail, PassedOver, TypeOK, SweepType
  <2> QED
    BY <2>1 DEF CountInv, BlankOutside, ListedRight, CountedRight, OnDisk, Present, Sweeping
<1>6. ASSUME NEW r \in Requests, SweepMark(r) PROVE CountInv'
  <2>1. \A q \in Requests : q # r => pc[q] \notin Sweeping
    BY <1>0, <1>6, Alone DEF SweepMark, Locked, Sweeping
  <2>2. CASE Leave(r)
    BY <1>0, <2>1, <2>2, CountBlank DEF Leave, Goto, TypeOK, Sweeping
  <2>3. CASE Goto(r, "persisting")
    BY <1>0, <2>1, <2>3
       DEF Goto, TypeOK, CountInv, BlankOutside, ListedRight, CountedRight, Sweeping
  <2> QED  BY <1>6, <2>2, <2>3 DEF SweepMark
<1>7. CASE Kill
  BY <1>7, CountBlank DEF Kill, Sweeping
<1>8. CASE Tick \/ Restart \/ LoadRefused \/ UNCHANGED vars
  <2>1. UNCHANGED <<files, sweep, pc>>
    BY <1>8 DEF Tick, Restart, LoadRefused, vars
  <2> QED
    BY <2>1 DEF CountInv, BlankOutside, ListedRight, CountedRight, OnDisk, Present
<1> QED
  BY <1>1, <1>2, <1>3, <1>4, <1>5, <1>6, <1>7, <1>8, StatCounts, JudgeCounts, RemoveCounts
     DEF Next, Proceed, Upload, Append, Sweep

LEMMA CountAlways == Spec => []CountInv
<1>1. Init => CountInv
  BY DEF Init, CountInv, BlankOutside, ListedRight, CountedRight
<1> QED  BY <1>1, CountStep, IInvAlways, PTL DEF Spec

\* Whatever fails and whoever else is at work, the total by which a sweep decides
\* is what is on disk: the files it passed over are in it, those it removed are
\* not (Store::enforce_quota).
THEOREM SweepCountsRight == Spec => []SweepAccurate
<1>1. CountInv => SweepAccurate
  BY DEF CountInv, CountedRight, SweepAccurate
<1> QED  BY <1>1, CountAlways, PTL

-----------------------------------------------------------------------------
(* What the loop leaves where every removal succeeds.                      *)

\* What the loop will not try is within its grace.
FreshLeft ==
    (\E r \in Requests : pc[r] = "sweeping") =>
        \A i \in Present \ sweep.todo : mtime[i] > sweep.cutoff

LEMMA FreshLeftStep ==
    ASSUME "remove" \notin Faults, IInv, FreshLeft, [Next]_vars
    PROVE  FreshLeft'
<1> USE DEF store, disk, slots, host
<1>0. TypeOK /\ LockInv
  BY DEF IInv
<1>1. CASE \A q \in Requests : pc'[q] # "sweeping"
  BY <1>1 DEF FreshLeft
<1>2. ASSUME UNCHANGED <<files, mtime, sweep>>,
             \A q \in Requests : pc'[q] = "sweeping" => pc[q] = "sweeping"
      PROVE  FreshLeft'
  BY <1>2 DEF FreshLeft, Present
<1>3. ASSUME NEW r \in Requests,
             PostArrive(r) \/ PostReject(r) \/ StoreDedup(r) \/ DeleteLock(r) \/ ServeLookup(r)
             \/ PostLock(r) \/ Append(r) \/ ServeRead(r) \/ Reply(r) \/ Cancel(r) \/ SweepStat(r)
      PROVE  FreshLeft'
  <2>1. CASE SweepStat(r)
    <3>1. /\ sweep'.todo = sweep.todo /\ sweep'.cutoff = sweep.cutoff
          /\ UNCHANGED <<files, mtime, pc>>
      BY <1>0, <2>1 DEF SweepStat, TypeOK, SweepType
    <3> QED  BY <3>1 DEF FreshLeft, Present
  <2>2. CASE ~SweepStat(r)
    <3>1. UNCHANGED <<files, mtime, sweep>>
      BY <1>3, <2>2 DEF PostArrive, PostReject, StoreDedup, DeleteLock, ServeLookup, PostLock,
                        Append, AppendJson, AppendNewline, AppendFail, ServeRead, Reply, Cancel
    <3>2. \E l : l # "sweeping" /\ pc' = [pc EXCEPT ![r] = l]
      BY <1>3, <2>2 DEF PostArrive, PostReject, StoreDedup, DeleteLock, ServeLookup, PostLock,
                        Append, AppendJson, AppendNewline, AppendFail, AfterAppend, ServeRead,
                        Reply, Cancel, Answer, Goto
    <3> QED  BY <1>0, <1>2, <3>1, <3>2 DEF TypeOK
  <2> QED  BY <2>1, <2>2
<1>4. ASSUME NEW r \in Requests,
             StoreBegin(r) \/ StoreWrite(r) \/ StoreFail(r) \/ SweepListFail(r) \/ SweepMark(r)
             \/ Rewrite(r)
      PROVE  FreshLeft'
  <2>1. lock = None \/ pc[r] \in Locked
    BY <1>4 DEF StoreBegin, Acquire, StoreWrite, StoreFail, SweepListFail, SweepMark, Rewrite,
                Persist, PersistFail, Locked
  <2>2. \A q \in Requests : q # r => pc[q] # "sweeping"
    BY <1>0, <2>1, Alone, FreeMutex DEF Locked
  <2>3. \E l : l # "sweeping" /\ pc' = [pc EXCEPT ![r] = l]
    BY <1>4 DEF StoreBegin, StoreWrite, StoreFail, SweepListFail, SweepMark, Leave, Rewrite, Persist,
                PersistFail, AfterRewrite, Answer, Goto
  <2> QED  BY <1>0, <1>1, <2>2, <2>3 DEF TypeOK
<1>5. ASSUME NEW r \in Requests, SweepJudge(r) PROVE FreshLeft'
  <2>1. pc[r] = "listing" /\ sweep.seen = Present /\ UNCHANGED <<files, mtime>>
    BY <1>5 DEF SweepJudge
  <2>2. CASE Leave(r)
    <3>1. \A q \in Requests : q # r => pc[q] # "sweeping"
      BY <1>0, <2>1, Alone DEF Locked
    <3> QED  BY <1>0, <1>1, <2>2, <3>1 DEF Leave, Goto, TypeOK
  <2>3. ASSUME NEW cutoff \in Nat,
               sweep' = [sweep EXCEPT !.cutoff = cutoff,
                                      !.todo = {i \in sweep.seen : OldEnough(i, cutoff)}]
        PROVE  FreshLeft'
    <3>1. sweep'.cutoff = cutoff /\ sweep'.todo = {i \in Present : OldEnough(i, cutoff)}
      BY <1>0, <2>1, <2>3 DEF TypeOK, SweepType
    <3>2. \A i \in Present : i \notin sweep'.todo => mtime[i] > cutoff
      BY <1>0, <3>1 DEF OldEnough, TypeOK, Present
    <3> QED  BY <2>1, <3>1, <3>2 DEF FreshLeft, Present
  <2>4. SaturatingSub(clock, Grace) \in Nat
    BY <1>0, LimitAssumption DEF SaturatingSub, TypeOK
  <2> QED  BY <1>5, <2>2, <2>3, <2>4 DEF SweepJudge
<1>6. ASSUME NEW r \in Requests, SweepRemove(r) PROVE FreshLeft'
  <2>1. PICK i \in NextVictims :
           /\ files' = [files EXCEPT ![i] = Absent]
           /\ mtime' = [mtime EXCEPT ![i] = 0]
           /\ sweep' = [sweep EXCEPT !.todo = @ \ {i}, !.gone = @ \cup {i},
                                     !.total = SaturatingSub(@, sweep.size[i])]
    BY <1>6 DEF SweepRemove
  <2>2. /\ sweep'.todo = sweep.todo \ {i} /\ sweep'.cutoff = sweep.cutoff
        /\ i \in Images /\ pc[r] = "sweeping"
    BY <1>0, <1>6, <2>1 DEF TypeOK, SweepType, NextVictims, SweepRemove
  <2>3. Present' = Present \ {i} /\ \A j \in Present \ {i} : mtime'[j] = mtime[j]
    BY <1>0, <2>1, <2>2 DEF TypeOK, Present
  <2> QED  BY <2>2, <2>3 DEF FreshLeft
<1>7. \A r \in Requests : ~SweepRemoveFail(r)
  BY DEF SweepRemoveFail
<1>8. CASE Kill
  BY <1>1, <1>8 DEF Kill
<1>9. CASE Tick \/ Restart \/ LoadRefused \/ UNCHANGED vars
  BY <1>2, <1>9 DEF Tick, Restart, LoadRefused, vars
<1> QED
  BY <1>3, <1>4, <1>5, <1>6, <1>7, <1>8, <1>9 DEF Next, Proceed, Upload, Sweep

\* Where no removal fails, a sweep ends within the quota or with nothing left
\* but files within their grace, whatever else fails, whoever uploads or deletes
\* and whenever the process is killed (Store::enforce_quota).
THEOREM SweepEndsWithinQuota ==
    ASSUME "remove" \notin Faults
    PROVE  Spec => []WithinQuotaOrFresh
<1>1. Init => FreshLeft
  BY DEF Init, FreshLeft
<1>2. IInv /\ FreshLeft /\ [Next]_vars => FreshLeft'
  BY FreshLeftStep
<1>3. IInv /\ CountInv /\ FreshLeft => WithinQuotaOrFresh
  <2> SUFFICES ASSUME IInv, CountInv, FreshLeft,
                      NEW r \in Requests, pc[r] = "sweeping", LoopDone
               PROVE  OnDisk <= MaxStorage \/ \A i \in Present : mtime[i] > sweep.cutoff
    BY DEF WithinQuotaOrFresh
  <2>1. CASE sweep.todo = {}
    BY <2>1 DEF FreshLeft
  <2>2. CASE ~OverQuota
    <3>1. sweep.total = OnDisk /\ sweep.total \in Nat
      BY DEF CountInv, CountedRight, IInv, TypeOK, SweepType
    <3> QED  BY <2>2, <3>1, LimitAssumption DEF OverQuota
  <2> QED  BY <2>1, <2>2 DEF LoopDone
<1> QED  BY <1>1, <1>2, <1>3, IInvAlways, CountAlways, PTL DEF Spec

-----------------------------------------------------------------------------
(* Files that messages show.                                               *)

\* A file that is gone from under a message is one the sweep in progress has
\* removed and will mark.
Backed ==
    /\ proc = "up"
    /\ \A m \in mem : m.att # None /\ files[m.att] = Absent =>
          m.att \in sweep.gone /\ \E r \in Requests : pc[r] = "sweeping"

\* An image that was stored is there when its message is created.
Held == \A r \in Requests :
            pc[r] = "stored" /\ arg[r].img # None => files[arg[r].img] # Absent

\* No image is removed between its upload and its post.
NoGap == \A r \in Requests :
             pc[r] = "stored" /\ arg[r].img # None /\ files[arg[r].img] # Absent =>
                 files'[arg[r].img] # Absent

\* Steps that remove no file and show no image that was not shown, while no sweep
\* has removed files, or without being a part of it.
LEMMA BackedElsewhere ==
    ASSUME TypeOK, Backed, UNCHANGED proc,
           mem' \subseteq Message,
           \A m \in mem' : m.att # None => \E n \in mem : n.att = m.att,
           \A i \in Images : files[i] # Absent => files'[i] # Absent,
           \/ \A q \in Requests : pc[q] # "sweeping"
           \/ /\ UNCHANGED sweep
              /\ \A q \in Requests : pc[q] = "sweeping" => pc'[q] = "sweeping"
    PROVE  Backed'
<1> SUFFICES ASSUME NEW m \in mem', m.att # None, files'[m.att] = Absent
             PROVE  m.att \in sweep'.gone /\ \E r \in Requests : pc'[r] = "sweeping"
  BY DEF Backed
<1>1. PICK n \in mem : n.att = m.att
  OBVIOUS
<1>2. m.att \in Images
  BY DEF Message
<1>3. files[n.att] = Absent
  BY <1>1, <1>2
<1>4. n.att \in sweep.gone /\ \E r \in Requests : pc[r] = "sweeping"
  BY <1>1, <1>3 DEF Backed
<1> QED  BY <1>1, <1>4

\* Steps that put nobody between upload and post, and remove no file.
LEMMA HeldElsewhere ==
    ASSUME TypeOK, Held,
           \A q \in Requests : pc'[q] = "stored" => pc[q] = "stored" /\ arg'[q] = arg[q],
           \A i \in Images : files[i] # Absent => files'[i] # Absent
    PROVE  Held'
<1>1. \A q \in Requests : arg[q].img \in Images \cup {None}
  BY DEF TypeOK, ArgType
<1> QED  BY <1>1 DEF Held

\* A ghost and an evicted message show no image.
LEMMA ShowNothing ==
    ASSUME NEW m \in Message
    PROVE  Ghosted(m).att = None /\ Evict(m).att = None
BY DEF Message, Ghosted, Evict

LEMMA BackStep ==
    ASSUME "kill" \notin Faults, IInv, Backed, Held, [Next]_vars, [NoGap]_vars
    PROVE  Backed' /\ Held'
<1> USE DEF store, disk, slots, host
<1>0. TypeOK /\ LockInv /\ mem' \subseteq Message
  BY TypeStep DEF IInv, TypeOK
<1>1. ASSUME NEW r \in Requests,
             PostArrive(r) \/ PostReject(r) \/ Append(r) \/ ServeLookup(r) \/ ServeRead(r)
             \/ Reply(r) \/ Cancel(r)
      PROVE  Backed' /\ Held'
  <2>1. UNCHANGED <<files, sweep, mem, proc>> /\ pc[r] # "sweeping"
    BY <1>1 DEF PostArrive, PostReject, Append, AppendJson, AppendNewline, AppendFail, ServeLookup,
                ServeRead, Reply, Cancel, Awaiting
  <2>2. \E l : l # "stored" /\ pc' = [pc EXCEPT ![r] = l]
    BY <1>1 DEF PostArrive, PostReject, Append, AppendJson, AppendNewline, AppendFail, AfterAppend,
                ServeLookup, ServeRead, Reply, Cancel, Answer, Goto
  <2>3. \A q \in Requests : q # r => arg'[q] = arg[q]
    BY <1>0, <1>1 DEF PostArrive, PostReject, Append, AppendJson, AppendNewline, AppendFail,
                      ServeLookup, ServeRead, Reply, Cancel, Answer, TypeOK
  <2>4. \A q \in Requests : pc'[q] = "stored" => pc[q] = "stored" /\ arg'[q] = arg[q]
    BY <1>0, <2>2, <2>3 DEF TypeOK
  <2>5. \A q \in Requests : pc[q] = "sweeping" => pc'[q] = "sweeping"
    BY <1>0, <2>1, <2>2 DEF TypeOK
  <2>6. Backed'
    BY <1>0, <2>1, <2>5, BackedElsewhere
  <2>7. Held'
    BY <1>0, <2>1, <2>4, HeldElsewhere
  <2> QED  BY <2>6, <2>7
<1>2. ASSUME NEW r \in Requests, Upload(r) PROVE Backed' /\ Held'
  <2>1. \A q \in Requests : pc[q] # "sweeping"
    BY <1>0, <1>2, Alone, FreeMutex
       DEF Upload, StoreDedup, StoreBegin, Acquire, StoreWrite, StoreFail, Locked
  <2>2. /\ UNCHANGED <<mem, proc>>
        /\ \A i \in Images : files[i] # Absent => files'[i] # Absent
    BY <1>0, <1>2, BytesAssumption
       DEF Upload, StoreDedup, StoreBegin, StoreWrite, StoreFail, TypeOK, Absent
  <2>3. Backed'
    BY <1>0, <2>1, <2>2, BackedElsewhere
  <2>4. CASE StoreBegin(r) \/ StoreFail(r)
    <3>1. \A q \in Requests : pc'[q] = "stored" => pc[q] = "stored" /\ arg'[q] = arg[q]
      BY <1>0, <2>4 DEF StoreBegin, StoreFail, Answer, Goto, TypeOK
    <3> QED  BY <1>0, <2>2, <2>3, <3>1, HeldElsewhere
  <2>5. CASE StoreDedup(r) \/ StoreWrite(r)
    <3>1. /\ UNCHANGED arg
          /\ \A q \in Requests : pc'[q] = "stored" => pc[q] = "stored" \/ q = r
      BY <1>0, <2>5 DEF StoreDedup, StoreWrite, Goto, TypeOK
    <3>2. arg[r].img # None => files'[arg[r].img] # Absent
      BY <1>0, <2>5, BytesAssumption DEF StoreDedup, StoreWrite, TypeOK, ArgType, Absent
    <3>3. \A q \in Requests : arg[q].img \in Images \cup {None}
      BY <1>0 DEF TypeOK, ArgType
    <3> QED  BY <2>2, <2>3, <3>1, <3>2, <3>3 DEF Held
  <2> QED  BY <1>2, <2>4, <2>5 DEF Upload
<1>3. ASSUME NEW r \in Requests, PostLock(r) PROVE Backed' /\ Held'
  <2>1. \A q \in Requests : pc[q] # "sweeping"
    BY <1>0, <1>3, FreeMutex DEF PostLock, Acquire, Locked
  <2>2. UNCHANGED <<files, arg, proc>> /\ mem' = mem \cup {Posted(r)} /\ Posted(r).att = arg[r].img
    BY <1>3 DEF PostLock, Posted
  <2>3. arg[r].img # None => files[arg[r].img] # Absent
    BY <1>3 DEF PostLock, Held
  <2>4. Backed'
    BY <2>1, <2>2, <2>3 DEF Backed
  <2>5. \A q \in Requests : pc'[q] = "stored" => pc[q] = "stored"
    BY <1>0, <1>3 DEF PostLock, Goto, TypeOK
  <2> QED  BY <1>0, <2>2, <2>4, <2>5, HeldElsewhere
<1>4. ASSUME NEW r \in Requests,
             SweepStat(r) \/ SweepListFail(r) \/ SweepJudge(r) \/ Rewrite(r) \/ DeleteLock(r)
      PROVE  Backed' /\ Held'
  <2>1. \A q \in Requests : pc[q] # "sweeping"
    BY <1>0, <1>4, Alone, FreeMutex
       DEF SweepStat, SweepListFail, SweepJudge, Rewrite, Persist, PersistFail, DeleteLock, Acquire,
           Locked
  <2>2. UNCHANGED <<files, proc>>
    BY <1>4 DEF SweepStat, SweepListFail, SweepJudge, Rewrite, Persist, PersistFail, DeleteLock
  <2>3. \A m \in mem' : m.att # None => \E n \in mem : n.att = m.att
    <3>1. mem' = mem \/ \E d \in mem : mem' = (mem \ {d}) \cup {Ghosted(d)}
      BY <1>4 DEF SweepStat, SweepListFail, SweepJudge, Rewrite, Persist, PersistFail, DeleteLock,
                  Deleted
    <3> QED  BY <1>0, <3>1, ShowNothing DEF TypeOK
  <2>4. /\ \E l : l # "stored" /\ pc' \in {pc, [pc EXCEPT ![r] = l]}
        /\ pc[r] # "stored"
    BY <1>4 DEF SweepStat, SweepListFail, SweepJudge, Leave, Rewrite, Persist, PersistFail,
                AfterRewrite, DeleteLock, Answer, Goto
  <2>5. \A q \in Requests : q # r => arg'[q] = arg[q]
    BY <1>0, <1>4 DEF SweepStat, SweepListFail, SweepJudge, Rewrite, Persist, PersistFail,
                      AfterRewrite, DeleteLock, Answer, TypeOK
  <2>6. \A q \in Requests : pc'[q] = "stored" => pc[q] = "stored" /\ arg'[q] = arg[q]
    BY <1>0, <2>4, <2>5 DEF TypeOK
  <2>7. Backed'
    BY <1>0, <2>1, <2>2, <2>3, BackedElsewhere
  <2> QED  BY <1>0, <2>2, <2>6, <2>7, HeldElsewhere
<1>5. ASSUME NEW r \in Requests, SweepRemove(r) PROVE Backed' /\ Held'
  <2>1. PICK i \in NextVictims :
           /\ files' = [files EXCEPT ![i] = Absent]
           /\ sweep' = [sweep EXCEPT !.todo = @ \ {i}, !.gone = @ \cup {i},
                                     !.total = SaturatingSub(@, sweep.size[i])]
    BY <1>5 DEF SweepRemove
  <2>2. /\ sweep'.gone = sweep.gone \cup {i} /\ i \in Images
        /\ UNCHANGED <<mem, proc, pc, arg>> /\ pc[r] = "sweeping"
    BY <1>0, <1>5, <2>1 DEF SweepRemove, TypeOK, SweepType, NextVictims
  <2>3. \A m \in mem : m.att # None => m.att \in Images
    BY <1>0 DEF TypeOK, Message
  <2>4. Backed'
    BY <1>0, <2>1, <2>2, <2>3 DEF Backed, TypeOK
  <2>5. Held'
    <3>1. CASE NoGap
      BY <2>2, <3>1 DEF Held, NoGap
    <3>2. CASE UNCHANGED vars
      BY <3>2 DEF Held, vars
    <3> QED  BY <3>1, <3>2
  <2> QED  BY <2>4, <2>5
<1>6. ASSUME NEW r \in Requests, SweepRemoveFail(r) PROVE Backed' /\ Held'
  <2>1. sweep'.gone = sweep.gone /\ UNCHANGED <<mem, files, pc, arg, proc>>
    BY <1>0, <1>6 DEF SweepRemoveFail, PassedOver, TypeOK, SweepType
  <2> QED  BY <2>1 DEF Backed, Held
<1>7. ASSUME NEW r \in Requests, SweepMark(r) PROVE Backed' /\ Held'
  <2>1. mem' = EvictedIn(mem, sweep.gone) /\ UNCHANGED <<files, proc, arg>> /\ pc[r] = "sweeping"
    BY <1>7 DEF SweepMark
  <2>2. \A m \in mem' : m.att # None => m \in mem /\ m.att \notin sweep.gone
    <3>1. \A m \in mem' : \E n \in mem : m = IF n.att \in sweep.gone THEN Evict(n) ELSE n
      BY <2>1 DEF EvictedIn
    <3> QED  BY <1>0, <3>1, ShowNothing DEF TypeOK
  <2>3. Backed'
    BY <2>1, <2>2 DEF Backed
  <2>4. \E l : l # "stored" /\ pc' = [pc EXCEPT ![r] = l]
    BY <1>7 DEF SweepMark, Leave, Goto
  <2>5. \A q \in Requests : pc'[q] = "stored" => pc[q] = "stored"
    BY <1>0, <2>4 DEF TypeOK
  <2> QED  BY <1>0, <2>1, <2>3, <2>5, HeldElsewhere
<1>8. CASE Tick \/ UNCHANGED vars
  BY <1>8 DEF Tick, vars, Backed, Held
<1>9. ~Kill /\ ~Restart /\ ~LoadRefused
  BY DEF Kill, Restart, LoadRefused, Backed
<1> QED
  BY <1>1, <1>2, <1>3, <1>4, <1>5, <1>6, <1>7, <1>8, <1>9 DEF Next, Proceed, Sweep

\* Unless the process is killed, the gap between an upload and its post is the
\* only way to a message whose file is gone without its being marked: where no
\* sweep removes an image in its gap, every message that shows an image has its
\* file, though listings, removals, writes and rewrites fail (store.rs:20-23).
THEOREM OnlyTheGapLosesRefs ==
    ASSUME "kill" \notin Faults
    PROVE  Spec /\ [][NoGap]_vars => []RefsBacked
<1>1. Init => Backed /\ Held
  BY DEF Init, Backed, Held
<1>2. IInv /\ Backed /\ Held /\ [Next]_vars /\ [NoGap]_vars => Backed' /\ Held'
  BY BackStep
<1>3. IInv /\ Backed => RefsBacked
  <2> SUFFICES ASSUME IInv, Backed, lock = None,
                      NEW m \in mem, m.att # None
               PROVE  files[m.att] # Absent
    BY DEF RefsBacked
  <2>1. \A r \in Requests : pc[r] # "sweeping"
    BY FreeMutex DEF IInv, Locked
  <2> QED  BY <2>1 DEF Backed
<1> QED  BY <1>1, <1>2, <1>3, IInvAlways, PTL DEF Spec

\* A board that serves one request at a time has no such gap.
THEOREM OneRequestBacksRefs ==
    ASSUME "kill" \notin Faults, \A r, s \in Requests : r = s
    PROVE  Spec => []RefsBacked
<1>1. IInv /\ [Next]_vars => [NoGap]_vars
  <2> SUFFICES ASSUME IInv, [Next]_vars,
                      NEW r \in Requests, pc[r] = "stored", arg[r].img # None,
                      files[arg[r].img] # Absent
               PROVE  files'[arg[r].img] # Absent
    BY DEF NoGap
  <2>1. TypeOK /\ arg[r].img \in Images
    BY DEF IInv, TypeOK, ArgType
  <2>2. CASE UNCHANGED files
    BY <2>2
  <2>3. \A q \in Requests : q = r
    OBVIOUS
  <2>4. UNCHANGED files
    <3> USE DEF store, disk, slots, host
    <3>1. /\ ~StoreBegin(r) /\ ~StoreWrite(r) /\ ~StoreFail(r) /\ ~SweepRemove(r)
          /\ ~AppendJson(r) /\ ~AppendNewline(r) /\ ~AppendFail(r) /\ ~SweepStat(r)
          /\ ~SweepListFail(r) /\ ~SweepJudge(r) /\ ~SweepRemoveFail(r) /\ ~SweepMark(r)
          /\ ~Persist(r) /\ ~PersistFail(r)
      BY DEF StoreBegin, StoreWrite, StoreFail, SweepRemove, AppendJson, AppendNewline,
             AppendFail, SweepStat, SweepListFail, SweepJudge, SweepRemoveFail, SweepMark, Persist,
             PersistFail
    <3>2. /\ PostArrive(r) \/ PostReject(r) \/ StoreDedup(r) \/ PostLock(r) => UNCHANGED files
          /\ DeleteLock(r) \/ ServeLookup(r) \/ ServeRead(r) => UNCHANGED files
          /\ Reply(r) \/ Cancel(r) => UNCHANGED files
      BY DEF PostArrive, PostReject, StoreDedup, PostLock, DeleteLock, ServeLookup, ServeRead,
             Reply, Cancel
    <3>3. Tick \/ Kill \/ Restart \/ LoadRefused \/ UNCHANGED vars => UNCHANGED files
      BY DEF Tick, Kill, Restart, LoadRefused, vars
    <3> QED  BY <2>3, <3>1, <3>2, <3>3 DEF Next, Proceed, Upload, Append, Sweep, Rewrite
  <2> QED  BY <2>2, <2>4
<1>2. Spec => [][NoGap]_vars
  BY <1>1, IInvAlways, PTL DEF Spec
<1> QED  BY <1>2, OnlyTheGapLosesRefs, PTL
=============================================================================
