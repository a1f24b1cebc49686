-------------------------- MODULE BoardRefinement --------------------------
(***************************************************************************)
(* Board implements AbstractBoard: every step of the store, with its       *)
(* requests, its Mutex, its log and what may fail, is a step of what       *)
(* readers are promised, or shows them nothing.                            *)
(***************************************************************************)
EXTENDS BoardProofs

-----------------------------------------------------------------------------
(* What the refinement needs beyond the inductive invariant of the board.  *)

\* Only an image that was accepted is stored.
Vetted ==
    \A r \in Requests :
        pc[r] \in {"writing", "stored"} => arg[r].img \in Images /\ Acceptable(arg[r].img)

\* A row without its newline is the end of the file.
LastLine == log.last # {} => log.ragged

RInv == IInv /\ Vetted /\ LastLine

LEMMA VettedStep == IInv /\ Vetted /\ [Next]_vars => Vetted'
<1> SUFFICES ASSUME IInv, Vetted, [Next]_vars PROVE Vetted'
  OBVIOUS
<1> USE DEF store, disk, slots, host
<1>0. TypeOK /\ Vetted
  BY DEF IInv
<1> DEFINE Keeps(r) ==
             /\ \A q \in Requests : q # r => pc'[q] = pc[q] /\ arg'[q] = arg[q]
             /\ pc'[r] \in {"writing", "stored"} =>
                   arg'[r].img \in Images /\ Acceptable(arg'[r].img)
<1>1. ASSUME NEW r \in Requests, Keeps(r) PROVE Vetted'
  BY <1>0, <1>1 DEF Vetted, Acceptable
<1>2. ASSUME NEW r \in Requests, PostArrive(r) \/ PostReject(r) PROVE Vetted'
  <2>1. Keeps(r)
    BY <1>0, <1>2 DEF TypeOK, PostArrive, PostReject, Answer, Goto
  <2> QED  BY <1>1, <2>1
<1>3. ASSUME NEW r \in Requests, Upload(r) PROVE Vetted'
  <2>1. Keeps(r)
    <3>1. CASE StoreDedup(r)
      BY <1>0, <3>1, NoneAssumption DEF TypeOK, ArgType, StoreDedup, Goto
    <3>2. CASE StoreBegin(r)
      BY <1>0, <3>2 DEF TypeOK, ArgType, StoreBegin, Goto
    <3>3. CASE StoreWrite(r)
      BY <1>0, <3>3 DEF TypeOK, StoreWrite, Goto, Vetted
    <3>4. CASE StoreFail(r)
      BY <1>0, <3>4 DEF TypeOK, StoreFail, Answer, Goto
    <3> QED  BY <1>3, <3>1, <3>2, <3>3, <3>4 DEF Upload
  <2> QED  BY <1>1, <2>1
<1>4. ASSUME NEW r \in Requests, PostLock(r) \/ Append(r) \/ Sweep(r) \/ DeleteLock(r)
      PROVE  Vetted'
  <2>1. Keeps(r)
    BY <1>0, <1>4
       DEF TypeOK, PostLock, Append, AppendJson, AppendNewline, AppendFail, AfterAppend, Sweep,
           SweepStat, SweepListFail, SweepJudge, SweepRemove, SweepRemoveFail, SweepMark, Leave,
           DeleteLock, Goto
  <2> QED  BY <1>1, <2>1
<1>5. ASSUME NEW r \in Requests,
             Rewrite(r) \/ ServeLookup(r) \/ ServeRead(r) \/ Reply(r) \/ Cancel(r)
      PROVE  Vetted'
  <2>1. Keeps(r)
    BY <1>0, <1>5
       DEF TypeOK, Rewrite, Persist, PersistFail, AfterRewrite, ServeLookup, ServeRead, Reply,
           Cancel, Answer, Goto
  <2> QED  BY <1>1, <2>1
<1>6. CASE Kill
  BY <1>6 DEF Kill, Vetted
<1>7. CASE Tick \/ Restart \/ LoadRefused \/ UNCHANGED vars
  <2>1. UNCHANGED <<pc, arg>>
    BY <1>7 DEF Tick, Restart, LoadRefused, vars
  <2> QED  BY <1>0, <2>1 DEF Vetted, Acceptable
<1> QED
  BY <1>2, <1>3, <1>4, <1>5, <1>6, <1>7 DEF Next, Proceed

\* What a step may make of the log.
LEMMA LogCases ==
    ASSUME TypeOK, [Next]_vars
    PROVE  \/ UNCHANGED log
           \/ \E r \in Requests : AppendJson(r) \/ AppendNewline(r) \/ Persist(r)
           \/ \E midChar \in BOOLEAN : log' = WithFragment(log, midChar)
<1> USE DEF store, disk, slots, host
<1>1. ASSUME NEW r \in Requests,
             \/ PostArrive(r) \/ DeleteLock(r) \/ ServeLookup(r) \/ PostReject(r) \/ Upload(r)
             \/ PostLock(r) \/ Sweep(r) \/ PersistFail(r) \/ ServeRead(r) \/ Reply(r) \/ Cancel(r)
      PROVE  UNCHANGED log
  BY <1>1 DEF PostArrive, DeleteLock, ServeLookup, PostReject, Upload, StoreDedup, StoreBegin,
              StoreWrite, StoreFail, PostLock, Sweep, SweepStat, SweepListFail, SweepJudge,
              SweepRemove, SweepRemoveFail, SweepMark, PersistFail, ServeRead, Reply, Cancel
<1>2. ASSUME NEW r \in Requests, AppendFail(r)
      PROVE  UNCHANGED log \/ \E midChar \in BOOLEAN : log' = WithFragment(log, midChar)
  BY <1>2 DEF AppendFail
<1>3. CASE Kill
  BY <1>3 DEF Kill
<1>4. CASE Tick \/ Restart \/ LoadRefused \/ UNCHANGED vars
  BY <1>4 DEF Tick, Restart, LoadRefused, vars
<1> QED
  BY <1>1, <1>2, <1>3, <1>4 DEF Next, Proceed, Append, Rewrite

LEMMA LastLineStep == IInv /\ LastLine /\ [Next]_vars => LastLine'
<1> SUFFICES ASSUME IInv, LastLine, [Next]_vars PROVE LastLine'
  OBVIOUS
<1>0. TypeOK
  BY DEF IInv
<1>1. ASSUME NEW r \in Requests, AppendJson(r) \/ AppendNewline(r) \/ Persist(r)
      PROVE  LastLine'
  BY <1>0, <1>1 DEF TypeOK, LogType, LastLine, AppendJson, AppendNewline, Persist, WithJson,
                    WithNewline, Rewritten, EmptyLog
<1>2. ASSUME NEW midChar \in BOOLEAN, log' = WithFragment(log, midChar)
      PROVE  LastLine'
  BY <1>0, <1>2 DEF TypeOK, LogType, LastLine, WithFragment
<1> QED  BY <1>0, <1>1, <1>2, LogCases DEF LastLine

LEMMA RInvAlways == Spec => []RInv
<1>1. Init => Vetted /\ LastLine
  BY DEF Init, Vetted, LastLine, EmptyLog
<1>2. IInv /\ Vetted /\ LastLine /\ [Next]_vars => Vetted' /\ LastLine'
  BY VettedStep, LastLineStep
<1> QED  BY <1>1, <1>2, IInvAlways, PTL DEF Spec, RInv

-----------------------------------------------------------------------------
(* Each step maps to a step of AbstractBoard or to a stutter.              *)

Mapped == Abstract!Next \/ UNCHANGED Abstract!vars

LEMMA OlderRefl == ASSUME NEW S, NEW T, S \subseteq T PROVE Abstract!Older(S, T)
BY DEF Abstract!Older, Abstract!Descends

\* While a request is at work the board is up.
LEMMA Running ==
    ASSUME RInv, NEW r \in Requests, pc[r] # "idle"
    PROVE  proc = "up"
BY DEF RInv, IInv, DownIdle

\* AbstractBoard has the operators on messages by names of its own.
LEMMA SameOperators ==
    /\ \A n, m : Abstract!Descends(n, m) <=> Descends(n, m)
    /\ \A S, m : Abstract!Deleted(S, m) = Deleted(S, m)
    /\ \A S, gone : Abstract!EvictedIn(S, gone) = EvictedIn(S, gone)
    /\ Abstract!Message = Message
BY DEF Abstract!Descends, Abstract!Ghosted, Abstract!Evict, Abstract!Deleted, Abstract!EvictedIn,
       Abstract!Message, Descends, Ghosted, Evict, Deleted, EvictedIn, Message

\* Steps that change neither store, log nor process are not seen.
LEMMA QuietMapped == ASSUME UNCHANGED <<mem, log, proc>> PROVE Mapped
BY DEF Mapped, Abstract!vars, Shown, Safe, Health, Loaded

\* A board that runs shows its memory, and is not refused.
LEMMA UpShows ==
    ASSUME proc = "up"
    PROVE  Shown = mem /\ Health = (IF log.utf8 THEN "sound" ELSE "spoiled")
BY DEF Shown, Health

LEMMA PostMapped ==
    ASSUME RInv, NEW r \in Requests, PostLock(r)
    PROVE  Mapped
<1> USE DEF disk, host
<1>1. proc = "up" /\ TypeOK /\ Data /\ Vetted
  BY Running DEF RInv, IInv, PostLock
<1>2. Shown = mem /\ Shown' = mem' /\ Safe' = Safe /\ Health' = Health /\ Health # "refused"
  BY <1>1 DEF Shown, Safe, Health, PostLock
<1> DEFINE m == Posted(r)
<1>3. mem' = mem \cup {m}
  BY DEF PostLock
<1>4. m \in Message /\ m.id = nextId /\ ~m.deleted /\ ~m.evicted
      /\ m.text = arg[r].text /\ m.att = arg[r].img
  BY <1>1 DEF Posted, TypeOK, Message, ArgType
<1>5. \A n \in mem : n.id \in Nat /\ n.id < m.id
  BY <1>1, <1>4 DEF Data, IdsFresh, Fresh, TypeOK, Message
<1>6. m \notin mem
  BY <1>4, <1>5
<1>7. (m.text \/ m.att # None) /\ m.att \in {i \in Images : Acceptable(i)} \cup {None}
  BY <1>1, <1>4, NoneAssumption DEF PostLock, Vetted
<1> HIDE DEF m
<1>8. Abstract!Post
  BY <1>2, <1>3, <1>4, <1>5, <1>6, <1>7, SameOperators DEF Abstract!Post
<1> QED  BY <1>8 DEF Mapped, Abstract!Next

LEMMA DeleteMapped ==
    ASSUME RInv, NEW r \in Requests, DeleteLock(r)
    PROVE  Mapped
<1>1. Shown = mem /\ Shown' = mem' /\ Safe' = Safe /\ Health' = Health /\ Health # "refused"
  BY DEF DeleteLock, Shown, Safe, Health, disk, host
<1>2. Abstract!Delete
  BY <1>1, SameOperators DEF DeleteLock, Abstract!Delete
<1> QED  BY <1>2 DEF Mapped, Abstract!Next

LEMMA EvictMapped ==
    ASSUME RInv, NEW r \in Requests, SweepMark(r)
    PROVE  Mapped
<1>1. proc = "up" /\ TypeOK
  BY Running DEF RInv, IInv, SweepMark
<1>2. Shown = mem /\ Shown' = mem' /\ Safe' = Safe /\ Health' = Health /\ Health # "refused"
  BY <1>1 DEF SweepMark, Shown, Safe, Health, disk, host
<1>3. sweep.gone \in SUBSET Images /\ mem' = EvictedIn(mem, sweep.gone)
  BY <1>1 DEF TypeOK, SweepType, SweepMark
<1>4. Abstract!Evictions
  BY <1>2, <1>3, SameOperators DEF Abstract!Evictions
<1> QED  BY <1>4 DEF Mapped, Abstract!Next

\* The first half of an append makes no row safe, and costs no safe row.
LEMMA JsonMapped ==
    ASSUME RInv, NEW r \in Requests, AppendJson(r)
    PROVE  Mapped
<1>1. proc = "up" /\ TypeOK /\ Data /\ LastLine
  BY Running DEF RInv, IInv, AppendJson
<1>2. PICK m \in mem : m.id = nextId - 1 /\ log' = WithJson(log, m)
  BY DEF AppendJson
<1>3. m \notin log.rows
  <2>1. \A n \in log.rows : n.id \in Nat /\ n.id < nextId - 1
    BY <1>1 DEF Data, Unwritten, AppendJson, TypeOK, LogType, Message
  <2> QED  BY <1>2, <2>1
<1>4. log'.utf8 = log.utf8 /\ log'.rows \ log'.last = log.rows \ log.last
  BY <1>1, <1>2, <1>3 DEF WithJson, TypeOK, LogType, LastLine
<1>5. Shown' = Shown /\ Safe' = Safe /\ Health' = Health
  BY <1>1, <1>4 DEF AppendJson, Shown, Safe, Health, store, host
<1> QED  BY <1>5 DEF Mapped, Abstract!vars

\* The newline makes its row safe, if the log is sound.
LEMMA NewlineMapped ==
    ASSUME RInv, NEW r \in Requests, AppendNewline(r)
    PROVE  Mapped
<1>1. proc = "up" /\ TypeOK /\ Data
  BY Running DEF RInv, IInv, AppendNewline
<1>2. log'.utf8 = log.utf8 /\ log'.rows = log.rows /\ log'.last = {}
  BY <1>1 DEF AppendNewline, WithNewline, TypeOK, LogType
<1>3. Shown' = Shown /\ Shown = mem /\ Health' = Health
  BY <1>1, <1>2 DEF AppendNewline, Shown, Health, store, host
<1>4. CASE log.utf8
  <2>1. Safe' = log.rows /\ Safe \subseteq log.rows /\ Health = "sound"
    BY <1>2, <1>4 DEF Safe, Health
  <2>2. Abstract!Older(Safe, Safe')
    BY <2>1, OlderRefl
  <2>3. Abstract!Older(Safe', Shown)
    BY <1>1, <1>3, <2>1, SameOperators DEF Data, LogBehindMemory, Abstract!Older
  <2> QED  BY <1>3, <2>1, <2>2, <2>3 DEF Mapped, Abstract!Next, Abstract!Settle
<1>5. CASE ~log.utf8
  <2>1. Safe' = Safe
    BY <1>2, <1>5 DEF Safe
  <2> QED  BY <1>3, <2>1 DEF Mapped, Abstract!vars
<1> QED  BY <1>4, <1>5

\* A rewrite makes all of memory safe, and mends a log that was spoiled.
LEMMA RewriteMapped ==
    ASSUME RInv, NEW r \in Requests, Persist(r)
    PROVE  Mapped
<1>1. proc = "up" /\ TypeOK /\ Data
  BY Running DEF RInv, IInv, Persist
<1>2. log'.utf8 /\ Safe' = mem
  BY DEF Persist, Safe, Rewritten, EmptyLog
<1>3. Shown' = Shown /\ Shown = mem /\ Health' = "sound"
  BY <1>1, <1>2 DEF Persist, Shown, Health, store, host
<1>4. CASE log.utf8
  <2>1. Safe \subseteq log.rows /\ Health = "sound"
    BY <1>4 DEF Safe, Health
  <2>2. Abstract!Older(Safe, Safe')
    BY <1>1, <1>2, <2>1, SameOperators DEF Data, LogBehindMemory, Abstract!Older
  <2>3. Abstract!Older(Safe', Shown)
    BY <1>2, <1>3, OlderRefl
  <2> QED  BY <1>3, <2>1, <2>2, <2>3 DEF Mapped, Abstract!Next, Abstract!Settle
<1>5. CASE ~log.utf8
  <2>1. Health = "spoiled"
    BY <1>1, <1>5, UpShows
  <2> QED  BY <1>2, <1>3, <2>1 DEF Mapped, Abstract!Next, Abstract!Mend
<1> QED  BY <1>4, <1>5

\* A cut append costs no safe row, unless the cut is within a character.
LEMMA CutMapped ==
    ASSUME RInv, proc = "up", UNCHANGED <<mem, proc>>, "cut" \in Faults,
           NEW midChar \in BOOLEAN, log' = WithFragment(log, midChar)
    PROVE  Mapped
<1>1. /\ log'.utf8 = (log.utf8 /\ ~midChar)
      /\ log'.rows \ log'.last = log.rows \ log.last
  BY DEF RInv, IInv, TypeOK, LogType, WithFragment
<1>2. Shown' = Shown
  BY DEF Shown
<1>3. CASE log'.utf8 = log.utf8
  <2>1. Safe' = Safe /\ Health' = Health
    BY <1>1, <1>3 DEF Safe, Health
  <2> QED  BY <1>2, <2>1 DEF Mapped, Abstract!vars
<1>4. CASE log'.utf8 # log.utf8
  <2>1. log.utf8 /\ ~log'.utf8
    BY <1>1, <1>4 DEF RInv, IInv, TypeOK, LogType
  <2>2. Health = "sound" /\ Health' = "spoiled" /\ Safe' = {}
    BY <2>1 DEF Safe, Health
  <2> QED  BY <1>2, <2>2 DEF Mapped, Abstract!Next, Abstract!Spoil
<1> QED  BY <1>3, <1>4

\* A kill leaves what the log has: what is safe, and nothing newer than memory;
\* or a log that no start will load.
LEMMA KillMapped == ASSUME RInv, Kill PROVE Mapped
<1>1. TypeOK /\ Data /\ proc = "up" /\ proc' = "down"
  BY DEF RInv, IInv, Kill
<1>2. \/ log' = log
      \/ "cut" \in Faults /\ \E midChar \in BOOLEAN : log' = WithFragment(log, midChar)
  BY DEF Kill
<1>3. /\ log'.utf8 => log.utf8
      /\ log'.rows \ log'.last = log.rows \ log.last
      /\ log'.rows \subseteq log.rows /\ log.rows \ log.last \subseteq log'.rows
  BY <1>1, <1>2 DEF WithFragment, TypeOK, LogType
<1>4. Shown = mem
  BY <1>1 DEF Shown
<1>5. CASE log'.utf8
  <2>1. Safe' = Safe /\ Safe \subseteq log'.rows /\ Health = "sound" /\ Health' = "sound"
    BY <1>3, <1>5 DEF Safe, Health
  <2>2. Shown' = log'.rows
    BY <1>1, <1>5 DEF Shown, Loaded
  <2>3. Abstract!Older(Safe, Shown')
    BY <2>1, <2>2, OlderRefl
  <2>4. Abstract!Older(Shown', Shown)
    BY <1>1, <1>3, <1>4, <2>2, SameOperators DEF Data, LogBehindMemory, Abstract!Older
  <2>5. Abstract!Unique(Shown')
    BY <1>1, <1>3, <2>2 DEF Data, IdsFresh, Fresh, Abstract!Unique
  <2> QED  BY <2>1, <2>3, <2>4, <2>5 DEF Mapped, Abstract!Next, Abstract!Fallback
<1>6. CASE ~log'.utf8
  <2>1. Shown' = {} /\ Safe' = {} /\ Health' = "refused"
    BY <1>1, <1>6 DEF Shown, Safe, Health
  <2>2. Health = "spoiled" \/ ("cut" \in Faults /\ Health = "sound")
    BY <1>1, <1>2, <1>6 DEF Health
  <2> QED  BY <2>1, <2>2 DEF Mapped, Abstract!Next, Abstract!Refuse
<1> QED  BY <1>5, <1>6

\* A start shows what the log has, and so did the board that was down; a log
\* that is refused is refused at every start.
LEMMA HostMapped == ASSUME Tick \/ Restart \/ LoadRefused \/ UNCHANGED vars PROVE Mapped
<1>1. Shown' = Shown /\ Safe' = Safe /\ Health' = Health
  BY DEF Tick, Restart, LoadRefused, vars, store, disk, host, Shown, Safe, Health, Loaded
<1> QED  BY <1>1 DEF Mapped, Abstract!vars

LEMMA StepMapped == RInv /\ [Next]_vars => Mapped
<1> SUFFICES ASSUME RInv, [Next]_vars PROVE Mapped
  OBVIOUS
<1> USE DEF store, disk, slots, host
<1>1. ASSUME NEW r \in Requests,
             PostArrive(r) \/ PostReject(r) \/ Upload(r) \/ PersistFail(r) \/ ServeLookup(r)
             \/ ServeRead(r) \/ Reply(r) \/ Cancel(r)
      PROVE  Mapped
  BY <1>1, QuietMapped
     DEF PostArrive, PostReject, Upload, StoreDedup, StoreBegin, StoreWrite, StoreFail, PersistFail,
         ServeLookup, ServeRead, Reply, Cancel
<1>2. ASSUME NEW r \in Requests,
             SweepStat(r) \/ SweepListFail(r) \/ SweepJudge(r) \/ SweepRemove(r)
             \/ SweepRemoveFail(r)
      PROVE  Mapped
  BY <1>2, QuietMapped DEF SweepStat, SweepListFail, SweepJudge, SweepRemove, SweepRemoveFail
<1>3. ASSUME NEW r \in Requests, AppendFail(r) PROVE Mapped
  <2>1. proc = "up" /\ UNCHANGED <<mem, proc>>
    BY <1>3, Running DEF AppendFail
  <2> QED  BY <1>3, <2>1, QuietMapped, CutMapped DEF AppendFail
<1> QED
  BY <1>1, <1>2, <1>3, PostMapped, DeleteMapped, EvictMapped, JsonMapped, NewlineMapped,
     RewriteMapped, KillMapped, HostMapped
     DEF Next, Proceed, Append, Sweep, Rewrite

\* What readers see, through every interleaving, failure, kill and restart, is
\* what AbstractBoard allows: the board grows by accepted messages under new
\* identifiers, and falls back only when it stops, to no less than the rows
\* whose lines were complete; or, if a write to its log was cut within a
\* character and the log not rewritten since, to nothing and for good
\* (Store::post, Store::delete, Store::load).
THEOREM BoardImplementsAbstract == Spec => Implements
<1>1. Init => Abstract!Init
  BY DEF Init, Abstract!Init, Shown, Safe, Health, EmptyLog
<1>2. RInv /\ [Next]_vars => [Abstract!Next]_(Abstract!vars)
  BY StepMapped DEF Mapped
<1> QED  BY <1>1, <1>2, RInvAlways, PTL DEF Spec, Implements, Abstract!Spec
=============================================================================
