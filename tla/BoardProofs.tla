---------------------------- MODULE BoardProofs ----------------------------
(***************************************************************************)
(* Theorems about Board for every number of requests, every set of images  *)
(* and every combination of faults.                                        *)
(***************************************************************************)
EXTENDS Board, WellFoundedInduction, TLAPS

-----------------------------------------------------------------------------
(* NextIdAfter: the largest identifier exists, so the next is above all.   *)

\* A nonempty set of naturals has a least element.
LEMMA LeastNat ==
    ASSUME NEW T \in SUBSET Nat, T # {}
    PROVE  \E x \in T : \A y \in T : x <= y
<1>1. PICK x \in T : \A y \in T : <<y, x>> \notin OpToRel(<, Nat)
  BY NatLessThanWellFounded, WFMin
<1>2. \A y \in T : ~(y < x)
  BY <1>1 DEF OpToRel
<1> QED  BY <1>2

\* What next_id is after a load: above every identifier that was loaded.
LEMMA NextIdAfterSpec ==
    ASSUME NEW rows \in SUBSET Message,
           NEW b \in Nat, \A m \in rows : m.id < b
    PROVE  /\ NextIdAfter(rows) \in Nat \ {0}
           /\ \A m \in rows : m.id < NextIdAfter(rows)
<1>1. CASE rows = {}
  BY <1>1 DEF NextIdAfter
<1>2. CASE rows # {}
  <2> DEFINE Above == {n \in Nat : \A m \in rows : m.id <= n}
             Ids == {m.id : m \in rows}
  <2>1. \A m \in rows : m.id \in Nat \ {0}
    BY DEF Message
  <2>2. b \in Above
    BY <2>1
  <2>3. PICK top \in Above : \A n \in Above : top <= n
    BY <2>2, LeastNat
  <2>4. top \in Ids
    <3>1. SUFFICES ASSUME top \notin Ids PROVE FALSE
      OBVIOUS
    <3>2. \A m \in rows : m.id < top
      BY <2>1, <3>1
    <3>3. top - 1 \in Above
      BY <1>2, <2>1, <3>2
    <3> QED  BY <2>3, <3>3
  <2>5. \E n \in Ids : \A m \in rows : m.id <= n
    BY <2>4
  <2> DEFINE c == CHOOSE n \in Ids : \A m \in rows : m.id <= n
  <2>6. c \in Ids /\ \A m \in rows : m.id <= c
    BY <2>5
  <2>7. NextIdAfter(rows) = 1 + c
    BY <1>2 DEF NextIdAfter
  <2> HIDE DEF c
  <2>8. c \in Nat \ {0}
    BY <2>1, <2>6
  <2>9. \A m \in rows : m.id < 1 + c
    BY <2>1, <2>6, <2>8
  <2> QED  BY <2>7, <2>8, <2>9
<1> QED  BY <1>1, <1>2

-----------------------------------------------------------------------------
(* The inductive invariant.                                                *)

\* A request holds the Mutex exactly while it is at one of those steps.
LockInv == \A r \in Requests : pc[r] \in Locked <=> lock = r

\* A process that is not running has no requests.
DownIdle == proc # "up" => \A r \in Requests : pc[r] = "idle"

\* A deleted message shows no image, so the sweep leaves ghosts alone.
GhostShape == \A m \in mem \cup log.rows : m.deleted => m.att = None

\* The row about to be appended is newer than all of the log.
Unwritten ==
    \A r \in Requests : pc[r] = "appending" => \A n \in log.rows : n.id < nextId - 1

\* The log's identifiers are bounded also while no process holds a next_id.
Bounded == \E top \in Nat : \A n \in log.rows : n.id < top

Data == IdsFresh /\ LogBehindMemory /\ GhostShape /\ Unwritten /\ Bounded

IInv == TypeOK /\ LockInv /\ DownIdle /\ Data

-----------------------------------------------------------------------------
(* What the helpers return.                                                *)

LEMMA MessageType ==
    ASSUME NEW m \in Message
    PROVE  Ghosted(m) \in Message /\ Evict(m) \in Message
BY DEF Message, Ghosted, Evict

LEMMA EvictedInType ==
    ASSUME NEW S \in SUBSET Message, NEW gone
    PROVE  EvictedIn(S, gone) \in SUBSET Message
BY MessageType DEF EvictedIn

LEMMA LogOpsType ==
    ASSUME NEW l \in LogType, NEW m \in Message, NEW midChar \in BOOLEAN
    PROVE  /\ WithJson(l, m) \in LogType
           /\ WithNewline(l) \in LogType
           /\ WithFragment(l, midChar) \in LogType
<1>1. WithJson(l, m) \in LogType
  BY DEF LogType, WithJson
<1>2. WithNewline(l) \in LogType
  BY DEF LogType, WithNewline
<1>3. WithFragment(l, midChar) \in LogType
  BY DEF LogType, WithFragment
<1> QED  BY <1>1, <1>2, <1>3

\* What they do to its rows: only a whole line brings a new one.
LEMMA LogOpsRows ==
    ASSUME NEW l \in LogType, NEW m \in Message
    PROVE  WithJson(l, m).rows \subseteq l.rows \/ WithJson(l, m).rows = l.rows \cup {m}
BY DEF LogType, WithJson

LEMMA FragmentRows ==
    ASSUME NEW l \in LogType, NEW midChar \in BOOLEAN
    PROVE  WithFragment(l, midChar) \in LogType /\ WithFragment(l, midChar).rows \subseteq l.rows
BY DEF LogType, WithFragment

LEMMA RewrittenType ==
    ASSUME NEW S \in SUBSET Message
    PROVE  Rewritten(S) \in LogType /\ EmptyLog \in LogType
BY DEF LogType, Rewritten, EmptyLog

LEMMA BlankTypes == NoArg \in ArgType /\ NoSweep \in SweepType
BY DEF NoArg, ArgType, NoSweep, SweepType

LEMMA InitIInv == Init => IInv
<1> SUFFICES ASSUME Init PROVE IInv
  OBVIOUS
<1>1. TypeOK
  BY LimitAssumption, BlankTypes, RewrittenType DEF Init, TypeOK, PCs, Absent
<1> QED
  BY <1>1, NoneAssumption
     DEF Init, IInv, Data, LockInv, DownIdle, IdsFresh, Fresh, LogBehindMemory, GhostShape,
         Unwritten, Bounded, EmptyLog, Locked

-----------------------------------------------------------------------------
(* Each action keeps the types.                                            *)

LEMMA TypeStep == IInv /\ [Next]_vars => TypeOK'
<1> SUFFICES ASSUME IInv, [Next]_vars PROVE TypeOK'
  OBVIOUS
<1> USE BytesAssumption, LimitAssumption DEF store, disk, slots, host
<1>0. TypeOK /\ Bounded
  BY DEF IInv, Data
<1>1. ASSUME NEW r \in Requests, PostArrive(r) PROVE TypeOK'
  BY <1>0, <1>1 DEF TypeOK, PostArrive, Goto, PCs, Awaiting, ArgType
<1>2. ASSUME NEW r \in Requests, PostReject(r) PROVE TypeOK'
  BY <1>0, <1>2, BlankTypes DEF TypeOK, PostReject, Goto, PCs, Answer
<1>3. ASSUME NEW r \in Requests, StoreDedup(r) PROVE TypeOK'
  BY <1>0, <1>3 DEF TypeOK, StoreDedup, Goto, PCs, Awaiting
<1>4. ASSUME NEW r \in Requests, StoreBegin(r) PROVE TypeOK'
  BY <1>0, <1>4 DEF TypeOK, StoreBegin, Goto, PCs, Locked, Acquire, Absent, ArgType
<1>5. ASSUME NEW r \in Requests, StoreWrite(r) PROVE TypeOK'
  BY <1>0, <1>5 DEF TypeOK, StoreWrite, Goto, PCs, Awaiting, Release, ArgType
<1>6. ASSUME NEW r \in Requests, StoreFail(r) PROVE TypeOK'
  BY <1>0, <1>6, BlankTypes DEF TypeOK, StoreFail, Goto, PCs, Release, Answer
<1>7. ASSUME NEW r \in Requests, PostLock(r) PROVE TypeOK'
  <2>1. Posted(r) \in Message
    BY <1>0 DEF TypeOK, Posted, Message, ArgType
  <2> QED  BY <1>0, <1>7, <2>1 DEF TypeOK, PostLock, Goto, PCs, Locked, Acquire
<1>8. ASSUME NEW r \in Requests, AppendJson(r) PROVE TypeOK'
  BY <1>0, <1>8, LogOpsType DEF TypeOK, AppendJson, Goto, PCs, Locked
<1>9. ASSUME NEW r \in Requests, AppendNewline(r) PROVE TypeOK'
  <2>1. log' \in LogType
    BY <1>0, <1>9 DEF TypeOK, AppendNewline, WithNewline, LogType
  <2> QED
    BY <1>0, <1>9, <2>1
       DEF TypeOK, AppendNewline, AfterAppend, Goto, PCs, Locked, Awaiting, Release
<1>10. ASSUME NEW r \in Requests, AppendFail(r) PROVE TypeOK'
  <2>1. log' \in LogType
    BY <1>0, <1>10, FragmentRows DEF TypeOK, AppendFail
  <2> QED
    BY <1>0, <1>10, <2>1
       DEF TypeOK, AppendFail, AfterAppend, Goto, PCs, Locked, Awaiting, Release
<1>11. ASSUME NEW r \in Requests, SweepStat(r) PROVE TypeOK'
  <2>1. PICK i \in Present :
               sweep' = [sweep EXCEPT !.seen = @ \cup {i}, !.size = [@ EXCEPT ![i] = files[i]],
                                      !.total = @ + files[i]]
    BY <1>11 DEF SweepStat
  <2>2. i \in Images /\ files[i] \in Nat
    BY <1>0 DEF TypeOK, Present
  <2>3. [sweep.size EXCEPT ![i] = files[i]] \in [Images -> Nat] /\ sweep.total + files[i] \in Nat
    BY <1>0, <2>2 DEF TypeOK, SweepType
  <2>4. sweep' \in SweepType
    BY <1>0, <2>1, <2>2, <2>3 DEF TypeOK, SweepType
  <2> QED  BY <1>0, <1>11, <2>4 DEF TypeOK, SweepStat
<1>12. ASSUME NEW r \in Requests, SweepListFail(r) PROVE TypeOK'
  BY <1>0, <1>12, BlankTypes DEF TypeOK, SweepListFail, Goto, PCs, Awaiting, Leave, Release
<1>13. ASSUME NEW r \in Requests, SweepJudge(r) PROVE TypeOK'
  <2>1. SaturatingSub(clock, Grace) \in Nat
    BY <1>0 DEF TypeOK, SaturatingSub
  <2>2. sweep' \in SweepType
    <3>1. CASE Leave(r)
      BY <3>1, BlankTypes DEF Leave
    <3>2. ASSUME NEW cutoff \in Nat,
                 sweep' = [sweep EXCEPT !.cutoff = cutoff,
                                        !.todo = {i \in sweep.seen : OldEnough(i, cutoff)}]
          PROVE  sweep' \in SweepType
      <4>1. {i \in sweep.seen : OldEnough(i, cutoff)} \in SUBSET Images
        BY <1>0 DEF TypeOK, SweepType
      <4> QED  BY <1>0, <3>2, <4>1 DEF TypeOK, SweepType
    <3> QED  BY <1>13, <2>1, <3>1, <3>2 DEF SweepJudge
  <2> QED
    BY <1>0, <1>13, <2>2
       DEF TypeOK, SweepJudge, Goto, PCs, Locked, Awaiting, Leave, Release
<1>14. ASSUME NEW r \in Requests, SweepRemove(r) PROVE TypeOK'
  <2>1. PICK i \in sweep.todo :
           /\ files' = [files EXCEPT ![i] = Absent]
           /\ mtime' = [mtime EXCEPT ![i] = 0]
           /\ sweep' = [sweep EXCEPT !.todo = @ \ {i}, !.gone = @ \cup {i},
                                     !.total = SaturatingSub(@, sweep.size[i])]
    BY <1>14 DEF SweepRemove, NextVictims
  <2>2. i \in Images /\ sweep.size[i] \in Nat /\ sweep.total \in Nat
    BY <1>0 DEF TypeOK, SweepType
  <2>3. SaturatingSub(sweep.total, sweep.size[i]) \in Nat
    BY <2>2 DEF SaturatingSub
  <2>4. sweep' \in SweepType
    BY <1>0, <2>1, <2>2, <2>3 DEF TypeOK, SweepType
  <2> QED  BY <1>0, <1>14, <2>1, <2>4 DEF TypeOK, SweepRemove
<1>15. ASSUME NEW r \in Requests, SweepRemoveFail(r) PROVE TypeOK'
  BY <1>0, <1>15 DEF TypeOK, SweepRemoveFail, PassedOver, SweepType
<1>16. ASSUME NEW r \in Requests, SweepMark(r) PROVE TypeOK'
  BY <1>0, <1>16, BlankTypes, EvictedInType DEF TypeOK, SweepMark, Goto, PCs, Locked, Awaiting, Leave, Release
<1>17. ASSUME NEW r \in Requests, DeleteLock(r) PROVE TypeOK'
  BY <1>0, <1>17, MessageType DEF TypeOK, DeleteLock, Deleted, Goto, PCs, Locked, Acquire
<1>18. ASSUME NEW r \in Requests, Persist(r) PROVE TypeOK'
  BY <1>0, <1>18, BlankTypes, RewrittenType DEF TypeOK, Persist, AfterRewrite, Goto, PCs, Awaiting, Release, Answer
<1>19. ASSUME NEW r \in Requests, PersistFail(r) PROVE TypeOK'
  BY <1>0, <1>19, BlankTypes DEF TypeOK, PersistFail, AfterRewrite, Goto, PCs, Awaiting, Release, Answer
<1>20. ASSUME NEW r \in Requests, ServeLookup(r) PROVE TypeOK'
  BY <1>0, <1>20 DEF TypeOK, ServeLookup, Goto, PCs, Awaiting, ArgType
<1>21. ASSUME NEW r \in Requests, ServeRead(r) PROVE TypeOK'
  BY <1>0, <1>21, BlankTypes DEF TypeOK, ServeRead, Answer, Goto, PCs
<1>22. ASSUME NEW r \in Requests, Reply(r) PROVE TypeOK'
  BY <1>0, <1>22, BlankTypes DEF TypeOK, Reply, Answer, Goto, PCs
<1>23. ASSUME NEW r \in Requests, Cancel(r) PROVE TypeOK'
  BY <1>0, <1>23, BlankTypes DEF TypeOK, Cancel, Answer, Goto, PCs
<1>24. CASE Tick
  BY <1>0, <1>24 DEF TypeOK, Tick
<1>25. CASE Kill
  <2>1. log' \in LogType
    BY <1>0, <1>25, FragmentRows DEF TypeOK, Kill
  <2> QED  BY <1>0, <1>25, <2>1, BlankTypes DEF TypeOK, Kill, PCs
<1>26. CASE Restart
  <2>1. NextIdAfter(log.rows) \in Nat \ {0}
    BY <1>0, NextIdAfterSpec DEF TypeOK, LogType, Bounded
  <2> QED  BY <1>0, <1>26, <2>1 DEF TypeOK, Restart, Loaded, LogType
<1>27. CASE LoadRefused
  BY <1>0, <1>27 DEF TypeOK, LoadRefused
<1>28. CASE UNCHANGED vars
  BY <1>0, <1>28 DEF TypeOK, vars
<1> QED
  BY <1>1, <1>2, <1>3, <1>4, <1>5, <1>6, <1>7, <1>8, <1>9, <1>10, <1>11, <1>12, <1>13, <1>14, <1>15, <1>16, <1>17, <1>18, <1>19, <1>20, <1>21, <1>22, <1>23, <1>24, <1>25, <1>26, <1>27, <1>28
     DEF Next, Proceed, Upload, Append, Sweep, Rewrite

-----------------------------------------------------------------------------
(* Each action keeps the Mutex with whoever is inside, and a dead process  *)
(* without requests.                                                       *)

LEMMA ControlStep == IInv /\ [Next]_vars => LockInv' /\ DownIdle'
<1> SUFFICES ASSUME IInv, [Next]_vars PROVE LockInv' /\ DownIdle'
  OBVIOUS
<1> USE NoneAssumption DEF store, disk, slots, host, LockInv, DownIdle, Locked
<1>0. TypeOK /\ LockInv /\ DownIdle
  BY DEF IInv
<1>1. ASSUME NEW r \in Requests, PostArrive(r) PROVE LockInv' /\ DownIdle'
  BY <1>0, <1>1 DEF TypeOK, PostArrive, Goto
<1>2. ASSUME NEW r \in Requests, PostReject(r) PROVE LockInv' /\ DownIdle'
  BY <1>0, <1>2 DEF TypeOK, PostReject, Answer, Goto
<1>3. ASSUME NEW r \in Requests, StoreDedup(r) PROVE LockInv' /\ DownIdle'
  BY <1>0, <1>3 DEF TypeOK, StoreDedup, Goto
<1>4. ASSUME NEW r \in Requests, StoreBegin(r) PROVE LockInv' /\ DownIdle'
  BY <1>0, <1>4 DEF TypeOK, StoreBegin, Acquire, Goto
<1>5. ASSUME NEW r \in Requests, StoreWrite(r) PROVE LockInv' /\ DownIdle'
  BY <1>0, <1>5 DEF TypeOK, StoreWrite, Release, Goto
<1>6. ASSUME NEW r \in Requests, StoreFail(r) PROVE LockInv' /\ DownIdle'
  BY <1>0, <1>6 DEF TypeOK, StoreFail, Release, Answer, Goto
<1>7. ASSUME NEW r \in Requests, PostLock(r) PROVE LockInv' /\ DownIdle'
  BY <1>0, <1>7 DEF TypeOK, PostLock, Acquire, Goto
<1>8. ASSUME NEW r \in Requests, AppendJson(r) PROVE LockInv' /\ DownIdle'
  BY <1>0, <1>8 DEF TypeOK, AppendJson, Goto
<1>9. ASSUME NEW r \in Requests, AppendNewline(r) PROVE LockInv' /\ DownIdle'
  BY <1>0, <1>9 DEF TypeOK, AppendNewline, AfterAppend, Release, Goto
<1>10. ASSUME NEW r \in Requests, AppendFail(r) PROVE LockInv' /\ DownIdle'
  BY <1>0, <1>10 DEF TypeOK, AppendFail, AfterAppend, Release, Goto
<1>11. ASSUME NEW r \in Requests, SweepStat(r) PROVE LockInv' /\ DownIdle'
  BY <1>0, <1>11 DEF TypeOK, SweepStat
<1>12. ASSUME NEW r \in Requests, SweepListFail(r) PROVE LockInv' /\ DownIdle'
  BY <1>0, <1>12 DEF TypeOK, SweepListFail, Leave, Release, Goto
<1>13. ASSUME NEW r \in Requests, SweepJudge(r) PROVE LockInv' /\ DownIdle'
  BY <1>0, <1>13 DEF TypeOK, SweepJudge, Leave, Release, Goto
<1>14. ASSUME NEW r \in Requests, SweepRemove(r) PROVE LockInv' /\ DownIdle'
  BY <1>0, <1>14 DEF TypeOK, SweepRemove
<1>15. ASSUME NEW r \in Requests, SweepRemoveFail(r) PROVE LockInv' /\ DownIdle'
  BY <1>0, <1>15 DEF TypeOK, SweepRemoveFail
<1>16. ASSUME NEW r \in Requests, SweepMark(r) PROVE LockInv' /\ DownIdle'
  BY <1>0, <1>16 DEF TypeOK, SweepMark, Leave, Release, Goto
<1>17. ASSUME NEW r \in Requests, DeleteLock(r) PROVE LockInv' /\ DownIdle'
  BY <1>0, <1>17 DEF TypeOK, DeleteLock, Acquire, Goto
<1>18. ASSUME NEW r \in Requests, Persist(r) PROVE LockInv' /\ DownIdle'
  BY <1>0, <1>18 DEF TypeOK, Persist, AfterRewrite, Release, Answer, Goto
<1>19. ASSUME NEW r \in Requests, PersistFail(r) PROVE LockInv' /\ DownIdle'
  BY <1>0, <1>19 DEF TypeOK, PersistFail, AfterRewrite, Release, Answer, Goto
<1>20. ASSUME NEW r \in Requests, ServeLookup(r) PROVE LockInv' /\ DownIdle'
  BY <1>0, <1>20 DEF TypeOK, ServeLookup, Goto
<1>21. ASSUME NEW r \in Requests, ServeRead(r) PROVE LockInv' /\ DownIdle'
  BY <1>0, <1>21 DEF TypeOK, ServeRead, Answer, Goto
<1>22. ASSUME NEW r \in Requests, Reply(r) PROVE LockInv' /\ DownIdle'
  BY <1>0, <1>22 DEF TypeOK, Reply, Answer, Goto
<1>23. ASSUME NEW r \in Requests, Cancel(r) PROVE LockInv' /\ DownIdle'
  BY <1>0, <1>23 DEF TypeOK, Cancel, Answer, Goto, Awaiting
<1>24. CASE Tick
  BY <1>0, <1>24 DEF TypeOK, Tick
<1>25. CASE Kill
  BY <1>0, <1>25 DEF TypeOK, Kill
<1>26. CASE Restart
  BY <1>0, <1>26 DEF TypeOK, Restart
<1>27. CASE LoadRefused
  BY <1>0, <1>27 DEF TypeOK, LoadRefused
<1>28. CASE UNCHANGED vars
  BY <1>0, <1>28 DEF TypeOK, vars
<1> QED
  BY <1>1, <1>2, <1>3, <1>4, <1>5, <1>6, <1>7, <1>8, <1>9, <1>10, <1>11, <1>12, <1>13, <1>14, <1>15, <1>16, <1>17, <1>18, <1>19, <1>20, <1>21, <1>22, <1>23, <1>24, <1>25, <1>26, <1>27, <1>28
     DEF Next, Proceed, Upload, Append, Sweep, Rewrite

-----------------------------------------------------------------------------
(* Each action keeps identifiers fresh and the log behind memory.          *)

\* An older form of a message is an older form of what delete leaves of it.
LEMMA GhostDescends ==
    ASSUME NEW n \in Message, NEW m \in Message, Descends(n, m), ~m.deleted,
           n.deleted => n.att = None
    PROVE  Descends(n, Ghosted(m))
BY DEF Descends, Ghosted, Evict, Message

\* ... and of what the sweep leaves of it, if it shows an image.
LEMMA EvictDescends ==
    ASSUME NEW n \in Message, NEW m \in Message, Descends(n, m), m.att # None
    PROVE  Descends(n, Evict(m))
BY DEF Descends, Ghosted, Evict, Message

LEMMA SameId ==
    ASSUME NEW n \in Message, NEW m \in Message, Descends(n, m)
    PROVE  n.id = m.id
BY DEF Descends, Ghosted, Evict, Message

\* Actions that touch neither store, log nor process, and start no append.
LEMMA QuietData ==
    ASSUME Data, UNCHANGED <<mem, nextId, log, proc>>,
           \A q \in Requests : pc'[q] = "appending" => pc[q] = "appending"
    PROVE  Data'
BY DEF Data, IdsFresh, Fresh, LogBehindMemory, GhostShape, Unwritten, Bounded

LEMMA QuietStep ==
    ASSUME IInv, NEW r \in Requests,
           PostArrive(r) \/ PostReject(r) \/ StoreDedup(r) \/ StoreBegin(r) \/ StoreWrite(r) \/ StoreFail(r)
           \/ SweepStat(r) \/ SweepListFail(r) \/ SweepJudge(r) \/ SweepRemove(r) \/ SweepRemoveFail(r)
           \/ PersistFail(r) \/ ServeLookup(r) \/ ServeRead(r) \/ Reply(r) \/ Cancel(r)
    PROVE  Data'
<1> USE DEF store, disk, slots, host
<1>0. TypeOK /\ Data
  BY DEF IInv
<1> DEFINE Still == /\ UNCHANGED <<mem, nextId, log, proc>>
                    /\ \A q \in Requests : pc'[q] = "appending" => pc[q] = "appending"
<1>1. ASSUME PostArrive(r) PROVE Still
  BY <1>0, <1>1 DEF TypeOK, PostArrive, Goto
<1>2. ASSUME PostReject(r) PROVE Still
  BY <1>0, <1>2 DEF TypeOK, PostReject, Answer, Goto
<1>3. ASSUME StoreDedup(r) PROVE Still
  BY <1>0, <1>3 DEF TypeOK, StoreDedup, Goto
<1>4. ASSUME StoreBegin(r) PROVE Still
  BY <1>0, <1>4 DEF TypeOK, StoreBegin, Acquire, Goto
<1>5. ASSUME StoreWrite(r) PROVE Still
  BY <1>0, <1>5 DEF TypeOK, StoreWrite, Release, Goto
<1>6. ASSUME StoreFail(r) PROVE Still
  BY <1>0, <1>6 DEF TypeOK, StoreFail, Release, Answer, Goto
<1>7. ASSUME SweepStat(r) PROVE Still
  BY <1>0, <1>7 DEF TypeOK, SweepStat
<1>8. ASSUME SweepListFail(r) PROVE Still
  BY <1>0, <1>8 DEF TypeOK, SweepListFail, Leave, Release, Goto
<1>9. ASSUME SweepJudge(r) PROVE Still
  BY <1>0, <1>9 DEF TypeOK, SweepJudge, Leave, Release, Goto
<1>10. ASSUME SweepRemove(r) PROVE Still
  BY <1>0, <1>10 DEF TypeOK, SweepRemove
<1>11. ASSUME SweepRemoveFail(r) PROVE Still
  BY <1>0, <1>11 DEF TypeOK, SweepRemoveFail
<1>12. ASSUME PersistFail(r) PROVE Still
  BY <1>0, <1>12 DEF TypeOK, PersistFail, AfterRewrite, Release, Answer, Goto
<1>13. ASSUME ServeLookup(r) PROVE Still
  BY <1>0, <1>13 DEF TypeOK, ServeLookup, Goto
<1>14. ASSUME ServeRead(r) PROVE Still
  BY <1>0, <1>14 DEF TypeOK, ServeRead, Answer, Goto
<1>15. ASSUME Reply(r) PROVE Still
  BY <1>0, <1>15 DEF TypeOK, Reply, Answer, Goto
<1>16. ASSUME Cancel(r) PROVE Still
  BY <1>0, <1>16 DEF TypeOK, Cancel, Answer, Goto, Awaiting
<1>17. Still
  BY <1>1, <1>2, <1>3, <1>4, <1>5, <1>6, <1>7, <1>8, <1>9, <1>10, <1>11, <1>12, <1>13, <1>14, <1>15, <1>16
<1> QED  BY <1>0, <1>17, QuietData

\* A new message: its identifier is new to memory and to the log.
LEMMA PostLockStep ==
    ASSUME IInv, NEW r \in Requests, PostLock(r)
    PROVE  Data'
<1> USE DEF disk, host
<1>0. TypeOK /\ LockInv /\ DownIdle /\ Data /\ proc = "up"
  BY DEF IInv, PostLock, DownIdle, TypeOK
<1>1. /\ Posted(r) \in Message /\ Posted(r).id = nextId /\ ~Posted(r).deleted
      /\ mem' = mem \cup {Posted(r)} /\ nextId' = nextId + 1
      /\ UNCHANGED <<log, proc>>
  BY <1>0 DEF PostLock, Posted, TypeOK, Message, ArgType
<1>2. mem \subseteq Message /\ log.rows \subseteq Message /\ nextId \in Nat \ {0}
  BY <1>0 DEF TypeOK, LogType
<1>3. \A m \in mem \cup log.rows : m.id \in Nat /\ m.id < nextId
  BY <1>0, <1>2 DEF Data, IdsFresh, Fresh, Message
<1>4. IdsFresh'
  BY <1>0, <1>1, <1>2, <1>3 DEF Data, IdsFresh, Fresh
<1>5. LogBehindMemory'
  BY <1>0, <1>1 DEF Data, LogBehindMemory
<1>6. GhostShape'
  BY <1>0, <1>1 DEF Data, GhostShape
<1>7. Unwritten'
  BY <1>1, <1>2, <1>3 DEF Unwritten
<1>8. Bounded'
  BY <1>0, <1>1 DEF Data, Bounded
<1> QED  BY <1>4, <1>5, <1>6, <1>7, <1>8 DEF Data

\* Whatever an append leaves in the file is what was there, less an unfinished
\* last line, with or without the new row.
LEMMA AppendStep ==
    ASSUME IInv, NEW r \in Requests,
           AppendJson(r) \/ AppendNewline(r) \/ AppendFail(r)
    PROVE  Data'
<1> USE DEF store, disk, host
<1>0. TypeOK /\ LockInv /\ DownIdle /\ Data /\ proc = "up"
  BY DEF IInv, AppendJson, AppendNewline, AppendFail, DownIdle, TypeOK
<1>1. UNCHANGED <<mem, nextId, proc>>
  BY DEF AppendJson, AppendNewline, AppendFail
<1>2. \A q \in Requests : pc'[q] # "appending"
  <2>1. pc[r] \in {"appending", "newline"} /\ lock = r
    BY <1>0 DEF LockInv, Locked, AppendJson, AppendNewline, AppendFail
  <2>2. \A q \in Requests : q # r => pc[q] # "appending"
    BY <1>0, <2>1 DEF LockInv, Locked
  <2>3. \E l \in {"newline", "listing", "replying"} : pc' = [pc EXCEPT ![r] = l]
    BY DEF AppendJson, AppendNewline, AppendFail, AfterAppend, Goto
  <2> QED  BY <1>0, <2>2, <2>3 DEF TypeOK
<1>3. mem \subseteq Message /\ log.rows \subseteq Message /\ nextId \in Nat \ {0}
  BY <1>0 DEF TypeOK, LogType
<1>4. \/ log'.rows \subseteq log.rows
      \/ \E m \in mem : /\ m.id = nextId - 1
                        /\ log'.rows = log.rows \cup {m}
                        /\ pc[r] = "appending"
  <2>1. log \in LogType
    BY <1>0 DEF TypeOK
  <2>2. CASE AppendJson(r)
    BY <1>3, <2>1, <2>2, LogOpsRows DEF AppendJson
  <2>3. CASE AppendNewline(r)
    BY <2>1, <2>3 DEF AppendNewline, WithNewline, LogType
  <2>4. CASE AppendFail(r)
    BY <2>1, <2>4, FragmentRows DEF AppendFail
  <2> QED  BY <2>2, <2>3, <2>4
<1>5. CASE log'.rows \subseteq log.rows
  BY <1>0, <1>1, <1>2, <1>5
     DEF Data, IdsFresh, Fresh, LogBehindMemory, GhostShape, Unwritten, Bounded
<1>6. ASSUME NEW m \in mem, m.id = nextId - 1, log'.rows = log.rows \cup {m},
             pc[r] = "appending"
      PROVE  Data'
  <2>1. \A n \in log.rows : n.id \in Nat /\ n.id < nextId - 1
    BY <1>0, <1>3, <1>6 DEF Data, Unwritten, Message
  <2>2. IdsFresh'
    BY <1>0, <1>1, <1>3, <1>6, <2>1 DEF Data, IdsFresh, Fresh
  <2>3. LogBehindMemory'
    BY <1>0, <1>1, <1>6 DEF Data, LogBehindMemory, Descends
  <2>4. GhostShape'
    BY <1>0, <1>1, <1>6 DEF Data, GhostShape
  <2>5. Bounded'
    <3>1. nextId \in Nat /\ \A n \in log'.rows : n.id < nextId
      BY <1>3, <1>6, <2>1
    <3> QED  BY <3>1 DEF Bounded
  <2> QED  BY <1>2, <2>2, <2>3, <2>4, <2>5 DEF Data, Unwritten
<1> QED  BY <1>4, <1>5, <1>6

\* A rewrite makes the log equal to memory.
LEMMA PersistStep ==
    ASSUME IInv, NEW r \in Requests, Persist(r)
    PROVE  Data'
<1> USE DEF store, host
<1>0. TypeOK /\ LockInv /\ DownIdle /\ Data /\ proc = "up"
  BY DEF IInv, Persist, DownIdle, TypeOK
<1>1. UNCHANGED <<mem, nextId, proc>> /\ log'.rows = mem
  BY DEF Persist, Rewritten, EmptyLog
<1>2. \A q \in Requests : pc'[q] # "appending"
  <2>1. \A q \in Requests : q # r => pc[q] # "appending"
    BY <1>0 DEF LockInv, Locked, Persist
  <2>2. \E l \in {"idle", "replying"} : pc' = [pc EXCEPT ![r] = l]
    BY DEF Persist, AfterRewrite, Answer, Goto
  <2> QED  BY <1>0, <2>1, <2>2 DEF TypeOK
<1>3. IdsFresh' /\ GhostShape'
  BY <1>0, <1>1 DEF Data, IdsFresh, Fresh, GhostShape
<1>4. LogBehindMemory'
  BY <1>1 DEF LogBehindMemory, Descends
<1>5. Bounded'
  BY <1>0, <1>1 DEF Data, IdsFresh, Fresh, Bounded, TypeOK
<1> QED  BY <1>2, <1>3, <1>4, <1>5 DEF Data, Unwritten

\* Marking replaces messages by later forms of themselves.
LEMMA SweepMarkStep ==
    ASSUME IInv, NEW r \in Requests, SweepMark(r)
    PROVE  Data'
<1> USE DEF disk, host
<1>0. TypeOK /\ LockInv /\ DownIdle /\ Data
  BY DEF IInv
<1> DEFINE Mark(m) == IF m.att \in sweep.gone THEN Evict(m) ELSE m
<1>1. mem' = {Mark(m) : m \in mem} /\ UNCHANGED <<nextId, log, proc>>
  BY DEF SweepMark, EvictedIn
<1>2. mem \subseteq Message /\ log.rows \subseteq Message /\ None \notin sweep.gone
  BY <1>0, NoneAssumption DEF TypeOK, LogType, SweepType
<1>3. \A m \in mem : Mark(m).id = m.id /\ Mark(m).deleted = m.deleted
                       /\ (m.att = None => Mark(m) = m) /\ (Mark(m) # m => m.att # None)
  BY <1>2 DEF Message, Evict
<1>4. \A q \in Requests : pc'[q] = "appending" => pc[q] = "appending"
  BY <1>0 DEF SweepMark, Leave, Goto, TypeOK
<1>5. IdsFresh'
  <2>1. \A m \in mem' : \E n \in mem : m = Mark(n) /\ m.id = n.id
    BY <1>1, <1>3
  <2> HIDE DEF Mark
  <2>2. \A m, n \in mem' : m.id = n.id => m = n
    BY <1>0, <2>1 DEF Data, IdsFresh, Fresh
  <2>3. proc' = "up" => \A m \in mem' : m.id < nextId'
    BY <1>0, <1>1, <2>1 DEF Data, IdsFresh, Fresh
  <2> QED  BY <1>0, <1>1, <2>2, <2>3 DEF Data, IdsFresh, Fresh
<1>6. LogBehindMemory'
  <2> SUFFICES ASSUME proc = "up", NEW n \in log.rows
               PROVE  \E m \in mem' : Descends(n, m)
    BY <1>1 DEF LogBehindMemory
  <2>1. PICK m \in mem : Descends(n, m)
    BY <1>0 DEF Data, LogBehindMemory
  <2>2. Descends(n, Mark(m))
    BY <1>2, <1>3, <2>1, EvictDescends
  <2> QED  BY <1>1, <2>2
<1>7. GhostShape'
  <2>1. \A m \in mem : m.deleted => m.att = None
    BY <1>0 DEF Data, GhostShape
  <2>2. \A m \in mem : Mark(m).deleted => Mark(m).att = None
    BY <1>3, <2>1
  <2> QED  BY <1>0, <1>1, <2>2 DEF Data, GhostShape
<1> QED  BY <1>0, <1>1, <1>4, <1>5, <1>6, <1>7 DEF Data, Unwritten, Bounded

\* A delete replaces one message by its ghost.
LEMMA DeleteLockStep ==
    ASSUME IInv, NEW r \in Requests, DeleteLock(r)
    PROVE  Data'
<1> USE DEF disk, host
<1>0. TypeOK /\ LockInv /\ DownIdle /\ Data
  BY DEF IInv
<1>1. PICK d \in mem : ~d.deleted /\ mem' = (mem \ {d}) \cup {Ghosted(d)}
  BY DEF DeleteLock, Deleted
<1>2. UNCHANGED <<nextId, log, proc>>
  BY DEF DeleteLock
<1>3. mem \subseteq Message /\ log.rows \subseteq Message
  BY <1>0 DEF TypeOK, LogType
<1>4. Ghosted(d).id = d.id /\ Ghosted(d).att = None
  BY <1>3 DEF Message, Ghosted
<1>5. \A q \in Requests : pc'[q] = "appending" => pc[q] = "appending"
  BY <1>0 DEF DeleteLock, Goto, TypeOK
<1>6. IdsFresh'
  BY <1>0, <1>1, <1>2, <1>4 DEF Data, IdsFresh, Fresh
<1>7. LogBehindMemory'
  <2> SUFFICES ASSUME proc = "up", NEW n \in log.rows
               PROVE  \E m \in mem' : Descends(n, m)
    BY <1>2 DEF LogBehindMemory
  <2>1. PICK m \in mem : Descends(n, m)
    BY <1>0 DEF Data, LogBehindMemory
  <2>2. CASE m = d
    BY <1>0, <1>1, <1>3, <2>1, <2>2, GhostDescends DEF Data, GhostShape
  <2>3. CASE m # d
    BY <1>1, <2>1, <2>3
  <2> QED  BY <2>2, <2>3
<1>8. GhostShape'
  BY <1>0, <1>1, <1>2, <1>4 DEF Data, GhostShape
<1> QED  BY <1>0, <1>2, <1>5, <1>6, <1>7, <1>8 DEF Data, Unwritten, Bounded

\* A kill loses memory and perhaps an unfinished line.
LEMMA KillStep == IInv /\ Kill => Data'
<1> SUFFICES ASSUME IInv, Kill PROVE Data'
  OBVIOUS
<1>1. TypeOK /\ Data
  BY DEF IInv
<1>2. mem' = {} /\ proc' = "down" /\ \A q \in Requests : pc'[q] = "idle"
  BY DEF Kill
<1>3. log'.rows \subseteq log.rows
  <2>1. log' = log \/ \E midChar \in BOOLEAN : log' = WithFragment(log, midChar)
    BY DEF Kill
  <2> QED  BY <1>1, <2>1, FragmentRows DEF TypeOK
<1> QED
  BY <1>1, <1>2, <1>3
     DEF Data, IdsFresh, Fresh, LogBehindMemory, GhostShape, Unwritten, Bounded

\* A load numbers on above all of what it loaded.
LEMMA RestartStep == IInv /\ Restart => Data'
<1> SUFFICES ASSUME IInv, Restart PROVE Data'
  OBVIOUS
<1> USE DEF disk, slots
<1>1. TypeOK /\ DownIdle /\ Data
  BY DEF IInv
<1>2. /\ mem' = log.rows /\ nextId' = NextIdAfter(log.rows)
      /\ UNCHANGED <<log, pc>> /\ proc = "down"
  BY DEF Restart, Loaded
<1>3. \A m \in log.rows : m.id < nextId'
  BY <1>1, <1>2, NextIdAfterSpec DEF TypeOK, LogType, Data, Bounded
<1>4. IdsFresh'
  BY <1>1, <1>2, <1>3 DEF Data, IdsFresh, Fresh
<1>5. LogBehindMemory'
  BY <1>2 DEF LogBehindMemory, Descends
<1>6. Unwritten'
  BY <1>1, <1>2 DEF Unwritten, DownIdle
<1> QED  BY <1>1, <1>2, <1>4, <1>5, <1>6 DEF Data, GhostShape, Bounded

\* The clock, and a load that is refused, leave store and log alone.
LEMMA HostStep == IInv /\ (Tick \/ LoadRefused \/ UNCHANGED vars) => Data'
<1> SUFFICES ASSUME IInv, Tick \/ LoadRefused \/ UNCHANGED vars PROVE Data'
  OBVIOUS
<1> USE DEF store, disk, slots, host
<1>1. Data
  BY DEF IInv
<1>2. UNCHANGED <<mem, nextId, log, pc>> /\ (proc' = "up" => proc = "up")
  BY DEF Tick, LoadRefused, vars
<1> QED
  BY <1>1, <1>2
     DEF Data, IdsFresh, Fresh, LogBehindMemory, GhostShape, Unwritten, Bounded

LEMMA DataStep == IInv /\ [Next]_vars => Data'
BY QuietStep, PostLockStep, AppendStep, SweepMarkStep, DeleteLockStep, PersistStep,
   KillStep, RestartStep, HostStep
   DEF Next, Proceed, Upload, Append, Sweep, Rewrite

-----------------------------------------------------------------------------
(* The theorems.                                                           *)

LEMMA IInvStep == IInv /\ [Next]_vars => IInv'
BY TypeStep, ControlStep, DataStep DEF IInv

LEMMA IInvAlways == Spec => []IInv
BY InitIInv, IInvStep, PTL DEF Spec

\* Every variable keeps its type, for any number of requests and images.
THEOREM TypeCorrect == Spec => []TypeOK
BY IInvAlways, PTL DEF IInv

\* Identifiers stay unique and below the next one, across lost rows, failed
\* writes, kills and restarts (Store::post, Store::load).
THEOREM IdsStayFresh == Spec => []IdsFresh
BY IInvAlways, PTL DEF IInv, Data

\* The log is never ahead of memory (Store::append, Store::rewrite).
THEOREM LogStaysBehind == Spec => []LogBehindMemory
BY IInvAlways, PTL DEF IInv, Data

\* A complete row survives each step of a running or a dead board, in its form
\* or a later one.  Only a rewrite replaces rows, and memory holds a later form
\* of each (LogBehindMemory); an append or a kill costs at most the unfinished
\* last line.
THEOREM RowsAreNotLost == Spec => NoLostRow
<1> DEFINE Kept == \A n \in log.rows \ log.last : \E m \in log'.rows : Descends(n, m)
<1>1. IInv /\ [Next]_vars => [Kept]_vars
  <2> SUFFICES ASSUME IInv, [Next]_vars PROVE Kept
    OBVIOUS
  <2>0. TypeOK /\ Data
    BY DEF IInv
  <2> USE DEF store, disk, slots, host
  <2>1. CASE log.rows \ log.last \subseteq log'.rows
    BY <2>1 DEF Descends
  <2>2. ASSUME NEW r \in Requests, Persist(r) PROVE Kept
    <3>1. proc = "up" /\ log'.rows = mem
      BY <2>2 DEF IInv, DownIdle, Persist, Rewritten, EmptyLog
    <3> QED  BY <2>0, <3>1 DEF Data, LogBehindMemory
  <2>3. ASSUME NEW r \in Requests, Append(r)
        PROVE  log.rows \ log.last \subseteq log'.rows
    <3>1. \/ \E m \in mem : log' = WithJson(log, m)
          \/ log' = WithNewline(log)
          \/ log' = log
          \/ \E midChar \in BOOLEAN : log' = WithFragment(log, midChar)
      BY <2>3 DEF Append, AppendJson, AppendNewline, AppendFail
    <3> QED
      BY <2>0, <3>1 DEF WithJson, WithNewline, WithFragment, TypeOK, LogType
  <2>4. CASE Kill
    <3>1. log' = log \/ \E midChar \in BOOLEAN : log' = WithFragment(log, midChar)
      BY <2>4 DEF Kill
    <3>2. log.rows \ log.last \subseteq log'.rows
      BY <2>0, <3>1 DEF WithFragment, TypeOK, LogType
    <3> QED  BY <2>1, <3>2
  <2>5. CASE UNCHANGED log
    BY <2>1, <2>5
  <2>6. ASSUME NEW r \in Requests,
               \/ PostArrive(r) \/ DeleteLock(r) \/ ServeLookup(r) \/ PostReject(r) \/ Upload(r)
               \/ PostLock(r) \/ Sweep(r) \/ PersistFail(r) \/ ServeRead(r) \/ Reply(r)
               \/ Cancel(r)
        PROVE  UNCHANGED log
    BY <2>6 DEF PostArrive, DeleteLock, ServeLookup, PostReject, Upload, StoreDedup, StoreBegin,
                StoreWrite, StoreFail, PostLock, Sweep, SweepStat, SweepListFail, SweepJudge,
                SweepRemove, SweepRemoveFail, SweepMark, PersistFail, ServeRead, Reply, Cancel
  <2>7. CASE Tick \/ Restart \/ LoadRefused \/ UNCHANGED vars
    BY <2>5, <2>7 DEF Tick, Restart, LoadRefused, vars
  <2> QED
    BY <2>1, <2>2, <2>3, <2>4, <2>5, <2>6, <2>7 DEF Next, Proceed, Rewrite
<1> QED  BY <1>1, IInvAlways, PTL DEF Spec, NoLostRow

-----------------------------------------------------------------------------
(* The sweep.                                                              *)

\* Files are counted as removed only by the loop and until its marks are
\* persisted.
GoneInv ==
    sweep.gone # {} => \E r \in Requests : pc[r] \in {"sweeping", "persisting"}

\* What the loop has still to try is no larger than what it removed.
LargestFirst ==
    \A i \in sweep.todo, g \in sweep.gone : sweep.size[i] <= sweep.size[g]

SweepInv == IInv /\ GoneInv /\ LargestFirst /\ NoNeedlessEviction

SweepGoals == GoneInv /\ LargestFirst /\ NoNeedlessEviction

\* Steps of which the sweep's locals are not a part.
LEMMA ElsewhereSweep ==
    ASSUME SweepInv, NEW r \in Requests, UNCHANGED sweep,
           pc[r] \notin {"sweeping", "persisting"},
           NEW l, pc' = [pc EXCEPT ![r] = l]
    PROVE  SweepGoals'
<1>1. TypeOK
  BY DEF SweepInv, IInv
<1> QED
  BY <1>1 DEF SweepInv, SweepGoals, GoneInv, LargestFirst, NoNeedlessEviction, TypeOK

\* Steps that end a sweep, or a whole process.
LEMMA NoSweepGoals == ASSUME sweep' = NoSweep PROVE SweepGoals'
BY DEF NoSweep, SweepGoals, GoneInv, LargestFirst, NoNeedlessEviction

\* While a request lists the directory nothing has been removed.
LEMMA ListingGone ==
    ASSUME SweepInv, NEW r \in Requests, pc[r] = "listing"
    PROVE  sweep.gone = {}
BY DEF SweepInv, IInv, LockInv, Locked, GoneInv

LEMMA RemoveStep ==
    ASSUME SweepInv, NEW r \in Requests, SweepRemove(r)
    PROVE  SweepGoals'
<1>1. TypeOK /\ LargestFirst /\ NoNeedlessEviction
  BY DEF SweepInv, IInv
<1>2. PICK i \in NextVictims :
         sweep' = [sweep EXCEPT !.todo = @ \ {i}, !.gone = @ \cup {i},
                                !.total = SaturatingSub(@, sweep.size[i])]
  BY DEF SweepRemove
<1>3. /\ sweep \in SweepType /\ i \in Images /\ sweep.size \in [Images -> Nat]
      /\ i \in sweep.todo /\ \A j \in sweep.todo : sweep.size[j] <= sweep.size[i]
      /\ sweep.total \in Nat /\ sweep.total > MaxStorage
      /\ sweep.todo \subseteq Images /\ sweep.gone \subseteq Images
  BY <1>1 DEF TypeOK, SweepType, NextVictims, SweepRemove, OverQuota
<1>4. /\ sweep'.todo = sweep.todo \ {i} /\ sweep'.gone = sweep.gone \cup {i}
      /\ sweep'.total = SaturatingSub(sweep.total, sweep.size[i])
      /\ sweep'.size = sweep.size
  BY <1>2, <1>3 DEF SweepType
<1>5. GoneInv'
  BY <1>1 DEF GoneInv, SweepRemove, slots, TypeOK
<1>6. LargestFirst'
  BY <1>1, <1>3, <1>4 DEF LargestFirst
<1>7. NoNeedlessEviction'
  <2> SUFFICES ASSUME NEW g \in sweep.gone \cup {i}
               PROVE  SaturatingSub(sweep.total, sweep.size[i]) + sweep.size[g] > MaxStorage
    BY <1>4 DEF NoNeedlessEviction
  <2>1. sweep.size[i] \in Nat /\ sweep.size[g] \in Nat /\ sweep.size[i] <= sweep.size[g]
    BY <1>1, <1>3 DEF LargestFirst
  <2> QED  BY <1>3, <2>1, LimitAssumption DEF SaturatingSub
<1> QED  BY <1>5, <1>6, <1>7 DEF SweepGoals

LEMMA SweepStep == SweepInv /\ [Next]_vars => SweepGoals'
<1> SUFFICES ASSUME SweepInv, [Next]_vars PROVE SweepGoals'
  OBVIOUS
<1> USE DEF store, disk, slots, host
<1>0. TypeOK /\ SweepGoals
  BY DEF SweepInv, IInv, SweepGoals
<1>1. ASSUME NEW r \in Requests, PostArrive(r) \/ DeleteLock(r) \/ ServeLookup(r) \/ PostReject(r)
      PROVE  SweepGoals'
  BY <1>1, ElsewhereSweep
     DEF PostArrive, DeleteLock, ServeLookup, PostReject, Answer, Goto
<1>2. ASSUME NEW r \in Requests, Upload(r) PROVE SweepGoals'
  BY <1>2, ElsewhereSweep
     DEF Upload, StoreDedup, StoreBegin, StoreWrite, StoreFail, Answer, Goto
<1>3. ASSUME NEW r \in Requests, PostLock(r) \/ Append(r) PROVE SweepGoals'
  <2>1. pc[r] \in {"stored", "parsed", "appending", "newline"} /\ UNCHANGED sweep
    BY <1>3 DEF PostLock, Append, AppendJson, AppendNewline, AppendFail
  <2>2. \E l : pc' = [pc EXCEPT ![r] = l]
    BY <1>3 DEF PostLock, Append, AppendJson, AppendNewline, AppendFail, AfterAppend, Goto
  <2> QED  BY <2>1, <2>2, ElsewhereSweep
<1>4. ASSUME NEW r \in Requests, ServeRead(r) \/ Reply(r) \/ Cancel(r) PROVE SweepGoals'
  BY <1>4, ElsewhereSweep DEF ServeRead, Reply, Cancel, Awaiting, Answer, Goto
<1>5. ASSUME NEW r \in Requests, SweepStat(r) PROVE SweepGoals'
  <2>1. sweep.gone = {} /\ sweep'.gone = sweep.gone
    BY <1>0, <1>5, ListingGone DEF SweepStat, TypeOK, SweepType
  <2> QED  BY <2>1 DEF SweepGoals, GoneInv, LargestFirst, NoNeedlessEviction
<1>6. ASSUME NEW r \in Requests, SweepJudge(r) PROVE SweepGoals'
  <2>1. CASE sweep' = NoSweep
    BY <2>1, NoSweepGoals
  <2>2. CASE sweep'.gone = sweep.gone
    <3>1. sweep'.gone = {}
      BY <1>6, <2>2, ListingGone DEF SweepJudge
    <3> QED  BY <3>1 DEF SweepGoals, GoneInv, LargestFirst, NoNeedlessEviction
  <2> QED  BY <1>0, <1>6, <2>1, <2>2 DEF SweepJudge, Leave, TypeOK, SweepType
<1>7. ASSUME NEW r \in Requests, SweepRemove(r) PROVE SweepGoals'
  BY <1>7, RemoveStep
<1>8. ASSUME NEW r \in Requests, SweepRemoveFail(r) PROVE SweepGoals'
  <2>1. /\ sweep'.todo \subseteq sweep.todo /\ sweep'.gone = sweep.gone
        /\ sweep'.size = sweep.size /\ sweep'.total = sweep.total /\ UNCHANGED pc
    BY <1>0, <1>8 DEF SweepRemoveFail, PassedOver, TypeOK, SweepType
  <2> QED  BY <1>0, <2>1 DEF SweepGoals, GoneInv, LargestFirst, NoNeedlessEviction
<1>9. ASSUME NEW r \in Requests, SweepMark(r) PROVE SweepGoals'
  <2>1. CASE sweep' = NoSweep
    BY <2>1, NoSweepGoals
  <2>2. CASE UNCHANGED sweep /\ Goto(r, "persisting")
    BY <1>0, <2>2 DEF Goto, TypeOK, SweepGoals, GoneInv, LargestFirst, NoNeedlessEviction
  <2> QED  BY <1>9, <2>1, <2>2 DEF SweepMark, Leave
<1>10. ASSUME NEW r \in Requests, SweepListFail(r) \/ Rewrite(r) PROVE SweepGoals'
  BY <1>10, NoSweepGoals DEF SweepListFail, Leave, Rewrite, Persist, PersistFail, AfterRewrite
<1>11. CASE Kill
  BY <1>11, NoSweepGoals DEF Kill
<1>12. CASE Tick \/ Restart \/ LoadRefused \/ UNCHANGED vars
  <2>1. UNCHANGED <<sweep, pc>>
    BY <1>12 DEF Tick, Restart, LoadRefused, vars
  <2> QED  BY <1>0, <2>1 DEF SweepGoals, GoneInv, LargestFirst, NoNeedlessEviction
<1> QED
  BY <1>1, <1>2, <1>3, <1>4, <1>5, <1>6, <1>7, <1>8, <1>9, <1>10, <1>11, <1>12
     DEF Next, Proceed, Sweep

\* No sweep removes a file it could have kept: with any one of its victims back
\* the board would be over quota.  It follows from the order, largest first,
\* and the break before each removal (Store::enforce_quota).
THEOREM EvictionIsNeeded == Spec => []NoNeedlessEviction
<1>1. Init => SweepInv
  BY InitIInv DEF Init, NoSweep, SweepInv, GoneInv, LargestFirst, NoNeedlessEviction
<1>2. SweepInv /\ [Next]_vars => SweepInv'
  BY IInvStep, SweepStep DEF SweepInv, SweepGoals
<1>3. SweepInv => NoNeedlessEviction
  BY DEF SweepInv
<1> QED  BY <1>1, <1>2, <1>3, PTL DEF Spec

-----------------------------------------------------------------------------
(* A board whose log is never cut short: memory and log agree.             *)

LogFaults == {"kill", "cut", "append", "rewrite"}

\* Only a post's second write leaves the log within a line; only an append in
\* progress, or a rewrite still to come, parts log and memory.
MirrorInv ==
    /\ proc = "up"
    /\ log.ragged => \E r \in Requests : pc[r] = "newline"
    /\ \A r \in Requests :
          pc[r] = "appending" => log.rows = {m \in mem : m.id # nextId - 1}
    /\ (\A r \in Requests : pc[r] \notin {"appending", "persisting", "deleting"}) => log.rows = mem

\* While r holds the Mutex nobody else is inside.
LEMMA Alone ==
    ASSUME LockInv, NEW r \in Requests, pc[r] \in Locked,
           NEW q \in Requests, q # r
    PROVE  pc[q] \notin Locked
BY DEF LockInv

LEMMA FreeMutex ==
    ASSUME LockInv, lock = None, NEW q \in Requests
    PROVE  pc[q] \notin Locked
BY NoneAssumption DEF LockInv

\* Steps outside the log, between program counters that owe it nothing.
LEMMA MirrorElsewhere ==
    ASSUME TypeOK, MirrorInv, NEW r \in Requests, UNCHANGED <<mem, nextId, log, proc>>,
           pc[r] \notin {"appending", "newline", "persisting", "deleting"},
           NEW l \in PCs \ {"appending"}, pc' = [pc EXCEPT ![r] = l]
    PROVE  MirrorInv'
BY DEF MirrorInv, TypeOK

LEMMA MirrorStep ==
    ASSUME LogFaults \cap Faults = {}, IInv, MirrorInv, [Next]_vars
    PROVE  MirrorInv'
<1> USE DEF store, disk, slots, host, PCs, Locked, Awaiting
<1>0. TypeOK /\ LockInv /\ Data /\ MirrorInv
  BY DEF IInv
<1>1. "kill" \notin Faults /\ "cut" \notin Faults /\ "append" \notin Faults /\ "rewrite" \notin Faults
  BY DEF LogFaults
<1>2. mem \subseteq Message /\ nextId \in Nat \ {0} /\ \A m \in mem : m.id < nextId
  BY <1>0 DEF TypeOK, Data, IdsFresh, Fresh, MirrorInv
<1>3. ASSUME NEW r \in Requests,
             PostArrive(r) \/ PostReject(r) \/ Upload(r) \/ ServeLookup(r) \/ ServeRead(r)
             \/ Reply(r) \/ Cancel(r) \/ SweepListFail(r)
      PROVE  MirrorInv'
  <2>1. /\ pc[r] \notin {"appending", "newline", "persisting", "deleting"}
        /\ UNCHANGED <<mem, nextId, log, proc>>
    BY <1>3 DEF PostArrive, PostReject, Upload, StoreDedup, StoreBegin, StoreWrite, StoreFail,
                ServeLookup, ServeRead, Reply, Cancel, SweepListFail
  <2>2. \E l \in PCs \ {"appending"} : pc' = [pc EXCEPT ![r] = l]
    BY <1>3 DEF PostArrive, PostReject, Upload, StoreDedup, StoreBegin, StoreWrite, StoreFail,
                ServeLookup, ServeRead, Reply, Cancel, SweepListFail, Leave, Answer, Goto
  <2> QED  BY <1>0, <2>1, <2>2, MirrorElsewhere
<1>4. ASSUME NEW r \in Requests, PostLock(r) PROVE MirrorInv'
  <2>1. \A q \in Requests : pc[q] \notin Locked
    BY <1>0, <1>4, FreeMutex DEF PostLock, Acquire
  <2>2. log.rows = mem /\ ~log.ragged
    BY <1>0, <2>1 DEF MirrorInv
  <2>3. mem' = mem \cup {Posted(r)} /\ nextId' = nextId + 1 /\ Posted(r).id = nextId
    BY <1>4 DEF PostLock, Posted
  <2>4. {m \in mem' : m.id # nextId' - 1} = mem
    BY <1>2, <2>3 DEF Message
  <2> QED  BY <1>0, <1>4, <2>1, <2>2, <2>4 DEF PostLock, Goto, MirrorInv, TypeOK
<1>5. ASSUME NEW r \in Requests, AppendJson(r) PROVE MirrorInv'
  <2>1. \A q \in Requests : q # r => pc[q] \notin Locked
    BY <1>0, <1>5, Alone DEF AppendJson
  <2>2. log.rows = {m \in mem : m.id # nextId - 1} /\ ~log.ragged
    BY <1>0, <1>5, <2>1 DEF MirrorInv, AppendJson
  <2>3. PICK m \in mem : m.id = nextId - 1 /\ log' = WithJson(log, m)
    BY <1>5 DEF AppendJson
  <2>4. \A n \in mem : n.id = nextId - 1 => n = m
    BY <1>0, <2>3 DEF Data, IdsFresh, Fresh
  <2>5. log'.rows = log.rows \cup {m}
    BY <1>0, <2>2, <2>3 DEF WithJson, TypeOK, LogType
  <2>6. log'.rows = mem
    BY <2>2, <2>4, <2>5
  <2> QED  BY <1>0, <1>5, <2>1, <2>6 DEF AppendJson, Goto, MirrorInv, TypeOK
<1>6. ASSUME NEW r \in Requests, AppendNewline(r) PROVE MirrorInv'
  <2>1. \A q \in Requests : q # r => pc[q] \notin Locked
    BY <1>0, <1>6, Alone DEF AppendNewline
  <2>2. log.rows = mem
    BY <1>0, <1>6, <2>1 DEF MirrorInv, AppendNewline
  <2>3. log'.rows = mem /\ ~log'.ragged /\ UNCHANGED <<mem, nextId, proc>>
    BY <1>0, <1>6, <2>2 DEF AppendNewline, WithNewline, TypeOK, LogType
  <2>4. \A q \in Requests : pc'[q] # "appending"
    BY <1>0, <1>6, <2>1 DEF AppendNewline, AfterAppend, Goto, TypeOK
  <2> QED  BY <1>0, <2>3, <2>4 DEF MirrorInv
<1>7. ASSUME NEW r \in Requests, SweepStat(r) \/ SweepRemove(r) \/ SweepRemoveFail(r)
      PROVE  MirrorInv'
  BY <1>0, <1>7 DEF SweepStat, SweepRemove, SweepRemoveFail, MirrorInv
<1>8. ASSUME NEW r \in Requests, SweepJudge(r) PROVE MirrorInv'
  <2>1. \E l \in PCs \ {"appending"} : pc' = [pc EXCEPT ![r] = l]
    BY <1>8 DEF SweepJudge, Leave, Goto
  <2> QED  BY <1>0, <1>8, <2>1, MirrorElsewhere DEF SweepJudge
<1>9. ASSUME NEW r \in Requests, SweepMark(r) PROVE MirrorInv'
  <2>1. \A q \in Requests : q # r => pc[q] \notin Locked
    BY <1>0, <1>9, Alone DEF SweepMark
  <2>2. log.rows = mem /\ ~log.ragged
    BY <1>0, <1>9, <2>1 DEF MirrorInv, SweepMark
  <2>3. CASE \E m \in mem : m.att \in sweep.gone
    <3>1. pc' = [pc EXCEPT ![r] = "persisting"]
      BY <1>9, <2>3 DEF SweepMark, Goto
    <3> QED  BY <1>0, <1>9, <2>1, <2>2, <3>1 DEF SweepMark, MirrorInv, TypeOK
  <2>4. CASE ~\E m \in mem : m.att \in sweep.gone
    <3>1. mem' = mem
      BY <1>9, <2>4 DEF SweepMark, EvictedIn
    <3>2. pc' = [pc EXCEPT ![r] = "replying"]
      BY <1>9, <2>4 DEF SweepMark, Leave, Goto
    <3> QED  BY <1>0, <1>9, <2>1, <2>2, <3>1, <3>2 DEF SweepMark, MirrorInv, TypeOK
  <2> QED  BY <2>3, <2>4
<1>10. ASSUME NEW r \in Requests, DeleteLock(r) PROVE MirrorInv'
  <2>1. \A q \in Requests : pc[q] \notin Locked
    BY <1>0, <1>10, FreeMutex DEF DeleteLock, Acquire
  <2>2. ~log.ragged
    BY <1>0, <2>1 DEF MirrorInv
  <2> QED  BY <1>0, <1>10, <2>1, <2>2 DEF DeleteLock, Goto, MirrorInv, TypeOK
<1>11. ASSUME NEW r \in Requests, Persist(r) PROVE MirrorInv'
  <2>1. \A q \in Requests : q # r => pc[q] \notin Locked
    BY <1>0, <1>11, Alone DEF Persist
  <2>2. log'.rows = mem /\ ~log'.ragged /\ UNCHANGED <<mem, nextId, proc>>
    BY <1>11 DEF Persist, Rewritten, EmptyLog
  <2>3. \A q \in Requests : pc'[q] # "appending"
    BY <1>0, <1>11, <2>1 DEF Persist, AfterRewrite, Answer, Goto, TypeOK
  <2> QED  BY <1>0, <2>2, <2>3 DEF MirrorInv
<1>12. CASE Tick \/ UNCHANGED vars
  BY <1>0, <1>12 DEF Tick, vars, MirrorInv
<1>13. ~Kill /\ ~Restart /\ ~LoadRefused /\ \A r \in Requests : ~AppendFail(r) /\ ~PersistFail(r)
  BY <1>0, <1>1 DEF Kill, Restart, LoadRefused, AppendFail, PersistFail, MirrorInv
<1> QED
  BY <1>3, <1>4, <1>5, <1>6, <1>7, <1>8, <1>9, <1>10, <1>11, <1>12, <1>13
     DEF Next, Proceed, Append, Sweep, Rewrite

\* Where no write to the log fails or is cut short and the process is not
\* killed, the log holds exactly what memory does whenever the Mutex is free,
\* whatever happens to attachments (store.rs:7-9).
THEOREM MirrorHolds ==
    ASSUME LogFaults \cap Faults = {}
    PROVE  Spec => []MirroredToDisk
<1>1. Init => MirrorInv
  BY DEF Init, MirrorInv, EmptyLog
<1>2. IInv /\ MirrorInv /\ [Next]_vars => MirrorInv'
  BY MirrorStep
<1>3. IInv /\ MirrorInv => MirroredToDisk
  <2> SUFFICES ASSUME LockInv, MirrorInv, lock = None PROVE log.rows = mem
    BY DEF IInv, MirroredToDisk
  <2> QED  BY FreeMutex DEF MirrorInv, Locked
<1> QED  BY <1>1, <1>2, <1>3, IInvAlways, PTL DEF Spec

-----------------------------------------------------------------------------
(* Attachments are whole unless a write is cut short.                      *)

LEMMA WholeStep ==
    ASSUME {"kill", "write"} \cap Faults = {}, IInv, AttachmentsWhole, [Next]_vars
    PROVE  AttachmentsWhole'
<1> USE DEF store, disk, slots, host
<1>0. TypeOK /\ LockInv
  BY DEF IInv
<1>1. ASSUME NEW r \in Requests, StoreBegin(r) PROVE AttachmentsWhole'
  <2>1. arg[r].img \in Images /\ pc' = [pc EXCEPT ![r] = "writing"] /\ UNCHANGED arg
    BY <1>0, <1>1 DEF StoreBegin, Goto, TypeOK, ArgType
  <2>2. \A i \in Images : i # arg[r].img => files'[i] = files[i]
    BY <1>0, <1>1 DEF StoreBegin, TypeOK
  <2>3. \A q \in Requests : pc[q] = "writing" => pc'[q] = "writing"
    BY <1>0, <2>1 DEF TypeOK
  <2> QED  BY <1>0, <2>1, <2>2, <2>3 DEF AttachmentsWhole, TypeOK
<1>2. ASSUME NEW r \in Requests, StoreWrite(r) PROVE AttachmentsWhole'
  <2>1. \A q \in Requests : q # r => pc[q] # "writing"
    BY <1>0, <1>2, Alone DEF StoreWrite, Locked
  <2>2. files' = [files EXCEPT ![arg[r].img] = Bytes[arg[r].img]]
    BY <1>2 DEF StoreWrite
  <2> QED  BY <1>0, <2>1, <2>2 DEF AttachmentsWhole, TypeOK
<1>3. ASSUME NEW r \in Requests, SweepRemove(r) PROVE AttachmentsWhole'
  <2>1. PICK i \in NextVictims : files' = [files EXCEPT ![i] = Absent]
    BY <1>3 DEF SweepRemove
  <2> QED  BY <1>0, <1>3, <2>1 DEF SweepRemove, AttachmentsWhole, TypeOK
<1>4. ASSUME UNCHANGED files,
             \A q \in Requests : pc[q] = "writing" => pc'[q] = "writing" /\ arg'[q] = arg[q]
      PROVE  AttachmentsWhole'
  BY <1>4 DEF AttachmentsWhole
<1>5. ASSUME NEW r \in Requests, UNCHANGED files, pc[r] # "writing",
             NEW l, pc' = [pc EXCEPT ![r] = l],
             \A q \in Requests : q # r => arg'[q] = arg[q]
      PROVE  AttachmentsWhole'
  <2>1. \A q \in Requests : q # r => pc'[q] = pc[q]
    BY <1>0, <1>5 DEF TypeOK
  <2> QED  BY <1>4, <1>5, <2>1
<1>6. ASSUME NEW r \in Requests, PostArrive(r) PROVE AttachmentsWhole'
  BY <1>0, <1>5, <1>6 DEF PostArrive, Goto, TypeOK
<1>7. ASSUME NEW r \in Requests,
             PostReject(r) \/ StoreDedup(r) \/ DeleteLock(r) \/ ServeLookup(r) \/ ServeRead(r)
             \/ Reply(r) \/ Cancel(r)
      PROVE  AttachmentsWhole'
  BY <1>0, <1>5, <1>7 DEF TypeOK, PostReject, StoreDedup, DeleteLock, ServeLookup, ServeRead, Reply, Cancel,
                    Awaiting, Answer, Goto
<1>8. ASSUME NEW r \in Requests, PostLock(r) \/ Append(r) PROVE AttachmentsWhole'
  <2>1. pc[r] # "writing" /\ UNCHANGED <<files, arg>>
    BY <1>8 DEF PostLock, Append, AppendJson, AppendNewline, AppendFail
  <2>2. \E l : pc' = [pc EXCEPT ![r] = l]
    BY <1>8 DEF PostLock, Append, AppendJson, AppendNewline, AppendFail, AfterAppend, Goto
  <2> QED  BY <1>5, <2>1, <2>2
<1>9. ASSUME NEW r \in Requests, SweepStat(r) \/ SweepRemoveFail(r) PROVE AttachmentsWhole'
  BY <1>4, <1>9 DEF SweepStat, SweepRemoveFail
<1>10. ASSUME NEW r \in Requests, SweepListFail(r) \/ SweepJudge(r) \/ SweepMark(r)
       PROVE  AttachmentsWhole'
  <2>1. pc[r] # "writing" /\ UNCHANGED <<files, arg>>
    BY <1>10 DEF SweepListFail, SweepJudge, SweepMark
  <2>2. \E l : pc' = [pc EXCEPT ![r] = l]
    BY <1>10 DEF SweepListFail, SweepJudge, SweepMark, Leave, Goto
  <2> QED  BY <1>5, <2>1, <2>2
<1>11. ASSUME NEW r \in Requests, Rewrite(r) PROVE AttachmentsWhole'
  <2>1. pc[r] # "writing" /\ UNCHANGED files
    BY <1>11 DEF Rewrite, Persist, PersistFail
  <2>2. /\ \E l : pc' = [pc EXCEPT ![r] = l]
        /\ \A q \in Requests : q # r => arg'[q] = arg[q]
    BY <1>0, <1>11 DEF TypeOK, Rewrite, Persist, PersistFail, AfterRewrite, Answer, Goto
  <2> QED  BY <1>5, <2>1, <2>2
<1>12. CASE Tick \/ Restart \/ LoadRefused \/ UNCHANGED vars
  BY <1>4, <1>12 DEF Tick, Restart, LoadRefused, vars
<1>13. ~Kill /\ \A r \in Requests : ~StoreFail(r)
  BY DEF Kill, StoreFail
<1> QED
  BY <1>1, <1>2, <1>3, <1>6, <1>7, <1>8, <1>9, <1>10, <1>11, <1>12, <1>13
     DEF Next, Proceed, Upload, Sweep

\* Where no write of an attachment fails and the process is not killed, a file
\* that no request is writing is whole: the Mutex keeps a second upload from
\* taking a file for stored while the first still writes it (store.rs:36).
THEOREM AttachmentsStayWhole ==
    ASSUME {"kill", "write"} \cap Faults = {}
    PROVE  Spec => []AttachmentsWhole
<1>1. Init => AttachmentsWhole
  BY DEF Init, AttachmentsWhole
<1>2. IInv /\ AttachmentsWhole /\ [Next]_vars => AttachmentsWhole'
  BY WholeStep
<1> QED  BY <1>1, <1>2, IInvAlways, PTL DEF Spec
=============================================================================
