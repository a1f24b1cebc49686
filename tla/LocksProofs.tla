---------------------------- MODULE LocksProofs ----------------------------
(***************************************************************************)
(* Theorems about Locks for any number of requests in flight.              *)
(***************************************************************************)
EXTENDS Locks, SequenceTheorems, TLAPS

-----------------------------------------------------------------------------
(* Queues.                                                                 *)

LEMMA EmptyLists == Lists(<<>>, {})
BY DEF Lists

LEMMA AppendLists ==
    ASSUME NEW q, NEW S \in SUBSET Tasks, Lists(q, S), NEW t \in Tasks, t \notin S
    PROVE  Lists(Append(q, t), S \cup {t})
<1>1. q \in Seq(Tasks) /\ Append(q, t) \in Seq(Tasks)
  BY AppendProperties DEF Lists
<1>2. /\ Len(q) \in Nat /\ DOMAIN q = 1 .. Len(q)
      /\ DOMAIN Append(q, t) = 1 .. Len(q) + 1
      /\ \A i \in 1 .. Len(q) : Append(q, t)[i] = q[i] /\ q[i] \in S
      /\ Append(q, t)[Len(q) + 1] = t
  BY <1>1, AppendProperties, LenProperties DEF Lists
<1>3. {Append(q, t)[i] : i \in DOMAIN Append(q, t)} = S \cup {t}
  <2>1. \A i \in 1 .. Len(q) + 1 : i \in 1 .. Len(q) \/ i = Len(q) + 1
    BY <1>2
  <2>2. S = {q[i] : i \in 1 .. Len(q)}
    BY <1>2 DEF Lists
  <2>3. \A i \in 1 .. Len(q) : i \in 1 .. Len(q) + 1
    BY <1>2
  <2>4. Len(q) + 1 \in 1 .. Len(q) + 1
    BY <1>2
  <2> QED  BY <1>2, <2>1, <2>2, <2>3, <2>4
<1>4. \A i, j \in DOMAIN Append(q, t) : Append(q, t)[i] = Append(q, t)[j] => i = j
  BY <1>2 DEF Lists
<1> QED  BY <1>1, <1>3, <1>4 DEF Lists

LEMMA WithoutLists ==
    ASSUME NEW q, NEW S \in SUBSET Tasks, Lists(q, S), NEW t \in S
    PROVE  Lists(Without(q, t), S \ {t})
<1> DEFINE p == CHOOSE i \in DOMAIN q : q[i] = t
           s == Without(q, t)
<1>1. q \in Seq(Tasks) /\ Len(q) \in Nat /\ DOMAIN q = 1 .. Len(q)
  BY LenProperties DEF Lists
<1>2. p \in 1 .. Len(q) /\ q[p] = t
  BY <1>1 DEF Lists
<1>3. s = SubSeq(q, 1, p - 1) \o SubSeq(q, p + 1, Len(q))
  BY DEF Without, RemoveAt
<1> HIDE DEF p, s
<1>4. /\ s \in Seq(Tasks) /\ Len(s) = Len(q) - 1
      /\ \A i \in 1 .. Len(s) : s[i] = IF i < p THEN q[i] ELSE q[i + 1]
  <2> DEFINE a == SubSeq(q, 1, p - 1)
             b == SubSeq(q, p + 1, Len(q))
  <2>0. \A i \in 1 .. Len(q) : q[i] \in Tasks
    BY <1>1, ElementOfSeq
  <2>1. a \in Seq(Tasks) /\ Len(a) = p - 1 /\ \A i \in 1 .. p - 1 : a[i] = q[i]
    <3>1. p - 1 \in Int /\ \A i \in 1 .. p - 1 : q[i] \in Tasks
      BY <1>1, <1>2, <2>0
    <3>2. /\ a \in Seq(Tasks)
          /\ Len(a) = IF 1 <= p - 1 THEN (p - 1) - 1 + 1 ELSE 0
          /\ \A i \in 1 .. (p - 1) - 1 + 1 : a[i] = q[1 + i - 1]
      BY <3>1, SubSeqProperties
    <3> HIDE DEF a
    <3> QED  BY <1>1, <1>2, <3>2
  <2>2. b \in Seq(Tasks) /\ Len(b) = Len(q) - p /\ \A i \in 1 .. Len(q) - p : b[i] = q[p + i]
    <3>1. p + 1 \in Int /\ Len(q) \in Int /\ \A i \in p + 1 .. Len(q) : q[i] \in Tasks
      BY <1>1, <1>2, <2>0
    <3>2. /\ b \in Seq(Tasks)
          /\ Len(b) = IF p + 1 <= Len(q) THEN Len(q) - (p + 1) + 1 ELSE 0
          /\ \A i \in 1 .. Len(q) - (p + 1) + 1 : b[i] = q[(p + 1) + i - 1]
      BY <3>1, SubSeqProperties
    <3> HIDE DEF b
    <3>3. \A i \in 1 .. Len(q) - p : (p + 1) + i - 1 = p + i
      BY <1>1, <1>2
    <3> QED  BY <1>1, <1>2, <3>2, <3>3
  <2> HIDE DEF a, b
  <2>3. /\ s \in Seq(Tasks) /\ Len(s) = Len(a) + Len(b)
        /\ \A i \in 1 .. Len(a) + Len(b) : s[i] = IF i <= Len(a) THEN a[i] ELSE b[i - Len(a)]
    BY <1>3, <2>1, <2>2, ConcatProperties DEF a, b
  <2>4. ASSUME NEW i \in 1 .. Len(s) PROVE s[i] = IF i < p THEN q[i] ELSE q[i + 1]
    <3>1. CASE i < p
      <4>1. i <= Len(a) /\ i \in 1 .. p - 1
        BY <1>1, <1>2, <2>1, <2>3, <3>1
      <4> QED  BY <2>1, <2>3, <3>1, <4>1
    <3>2. CASE ~(i < p)
      <4>1. ~(i <= Len(a)) /\ i - Len(a) \in 1 .. Len(q) - p /\ p + (i - Len(a)) = i + 1
        BY <1>1, <1>2, <2>1, <2>2, <2>3, <3>2
      <4> QED  BY <2>2, <2>3, <3>2, <4>1
    <3> QED  BY <3>1, <3>2
  <2> QED  BY <1>1, <1>2, <2>1, <2>2, <2>3, <2>4
<1>5. DOMAIN s = 1 .. Len(s)
  BY <1>4, LenProperties
<1>6. {s[i] : i \in DOMAIN s} = S \ {t}
  <2>1. S = {q[i] : i \in 1 .. Len(q)} /\ \A i, j \in 1 .. Len(q) : q[i] = q[j] => i = j
    BY <1>1 DEF Lists
  <2>2. \A i \in 1 .. Len(s) : s[i] \in S \ {t}
    BY <1>1, <1>2, <1>4, <2>1
  <2>3. ASSUME NEW u \in S \ {t} PROVE \E i \in 1 .. Len(s) : s[i] = u
    <3>1. PICK j \in 1 .. Len(q) : q[j] = u
      BY <2>1
    <3>2. j # p
      BY <1>2, <2>3, <3>1
    <3>3. CASE j < p
      BY <1>1, <1>2, <1>4, <3>1, <3>3
    <3>4. CASE j > p
      <4>1. j - 1 \in 1 .. Len(s) /\ ~(j - 1 < p) /\ (j - 1) + 1 = j
        BY <1>1, <1>2, <1>4, <3>1, <3>4
      <4> QED  BY <1>4, <3>1, <4>1
    <3> QED  BY <1>1, <1>2, <3>1, <3>2, <3>3, <3>4
  <2> QED  BY <1>5, <2>2, <2>3
<1>7. ASSUME NEW i \in DOMAIN s, NEW j \in DOMAIN s, s[i] = s[j] PROVE i = j
  <2> DEFINE At(x) == IF x < p THEN x ELSE x + 1
  <2>1. \A x \in 1 .. Len(s) : At(x) \in 1 .. Len(q) /\ s[x] = q[At(x)]
    BY <1>1, <1>2, <1>4
  <2>2. At(i) = At(j)
    BY <1>1, <1>5, <1>7, <2>1 DEF Lists
  <2> QED  BY <1>1, <1>2, <1>4, <1>5, <1>7, <2>2
<1> QED  BY <1>4, <1>6, <1>7 DEF Lists, s

\* A queue that is not empty has its first, and that one waits.
LEMMA HeadWaits ==
    ASSUME NEW q, NEW S, Lists(q, S), S # {}
    PROVE  Head(q) \in S
<1>1. q \in Seq(Tasks) /\ DOMAIN q # {}
  BY DEF Lists
<1>2. Len(q) \in Nat /\ DOMAIN q = 1 .. Len(q) /\ Len(q) # 0
  BY <1>1, LenProperties
<1>3. Head(q) = q[1] /\ 1 \in DOMAIN q
  BY <1>1, <1>2
<1> QED  BY <1>3 DEF Lists

-----------------------------------------------------------------------------
(* Labels and queues stay in step.                                         *)

\* A task that was in no queue goes on, perhaps to the end of one.
LEMMA GoTypes ==
    ASSUME TypeOK, NEW t \in Tasks, at[t] \notin Queued, NEW l \in Labels, Go(t, l),
           t = Refresher <=> l \in RefresherLabels,
           UNCHANGED truth, fetched' \in Versions, view' \in Versions
    PROVE  TypeOK'
<1>1. at' \in [Tasks -> Labels] /\ \A u \in Tasks : u = Refresher <=> at'[u] \in RefresherLabels
  BY DEF TypeOK, Go
<1>2. DOMAIN queue' = Locks
  BY DEF Go
<1>3. ASSUME NEW k \in Locks
      PROVE  Lists(queue'[k], {u \in Tasks : at'[u] \in Waiting[k]})
  <2> DEFINE S == {u \in Tasks : at[u] \in Waiting[k]}
  <2>1. Lists(queue[k], S) /\ t \notin S
    BY DEF TypeOK, Queued
  <2>2. CASE l \in Waiting[k]
    <3>1. {u \in Tasks : at'[u] \in Waiting[k]} = S \cup {t}
      BY <2>2 DEF TypeOK, Go
    <3>2. queue'[k] = Append(queue[k], t)
      BY <2>2 DEF Go
    <3> QED  BY <2>1, <3>1, <3>2, AppendLists
  <2>3. CASE l \notin Waiting[k]
    <3>1. {u \in Tasks : at'[u] \in Waiting[k]} = S
      BY <2>1, <2>3 DEF TypeOK, Go
    <3>2. queue'[k] = queue[k]
      BY <2>3 DEF Go
    <3> QED  BY <2>1, <3>1, <3>2
  <2> QED  BY <2>2, <2>3
<1> QED  BY <1>1, <1>2, <1>3 DEF TypeOK

\* What the queues are once a task has left the one it was in.
LEMMA UnqueuedLists ==
    ASSUME TypeOK, NEW t \in Tasks, NEW k \in Locks
    PROVE  Lists(Unqueued(at[t], t)[k], {u \in Tasks : at[u] \in Waiting[k]} \ {t})
<1> DEFINE S == {u \in Tasks : at[u] \in Waiting[k]}
<1>1. Lists(queue[k], S)
  BY DEF TypeOK
<1>2. CASE at[t] \in Waiting[k]
  <2>1. t \in S /\ Unqueued(at[t], t)[k] = Without(queue[k], t)
    BY <1>2 DEF Unqueued
  <2> QED  BY <1>1, <2>1, WithoutLists
<1>3. CASE at[t] \notin Waiting[k]
  <2>1. S \ {t} = S /\ Unqueued(at[t], t)[k] = queue[k]
    BY <1>3 DEF Unqueued
  <2> QED  BY <1>1, <2>1
<1> QED  BY <1>2, <1>3

\* A task leaves a queue, with the lock or without.
LEMMA LeaveTypes ==
    ASSUME TypeOK, NEW t \in Tasks, NEW l \in Labels \ Queued, UNCHANGED roster,
           at' = [at EXCEPT ![t] = l], queue' = Unqueued(at[t], t),
           t = Refresher <=> l \in RefresherLabels
    PROVE  TypeOK'
<1>1. at' \in [Tasks -> Labels] /\ \A u \in Tasks : u = Refresher <=> at'[u] \in RefresherLabels
  BY DEF TypeOK
<1>2. DOMAIN queue' = Locks
  BY DEF Unqueued
<1>3. ASSUME NEW k \in Locks
      PROVE  Lists(queue'[k], {u \in Tasks : at'[u] \in Waiting[k]})
  <2>1. {u \in Tasks : at'[u] \in Waiting[k]} = {u \in Tasks : at[u] \in Waiting[k]} \ {t}
    BY DEF TypeOK, Queued
  <2> QED  BY <2>1, UnqueuedLists
<1> QED  BY <1>1, <1>2, <1>3 DEF TypeOK, roster

LEMMA ListRosterTypes ==
    ASSUME TypeOK, NEW r \in Requests, ListRoster(r), UNCHANGED roster
    PROVE  TypeOK'
<1> DEFINE q == Unqueued("toRoster", r)
<1>0. r \in Tasks /\ r # Refresher /\ at[r] = "toRoster" /\ at' = [at EXCEPT ![r] = "toList"]
      /\ queue' = [q EXCEPT !["store"] = Append(@, r)]
  BY RefresherAssumption DEF Tasks, ListRoster
<1>1. at' \in [Tasks -> Labels] /\ \A u \in Tasks : u = Refresher <=> at'[u] \in RefresherLabels
  BY <1>0 DEF TypeOK, Labels, Held, Holding, Locks, RefresherLabels
<1>2. DOMAIN q = Locks /\ DOMAIN queue' = Locks
  BY <1>0 DEF Unqueued
<1>3. ASSUME NEW k \in Locks
      PROVE  Lists(queue'[k], {u \in Tasks : at'[u] \in Waiting[k]})
  <2> DEFINE S == {u \in Tasks : at[u] \in Waiting[k]} \ {r}
  <2>1. Lists(q[k], S)
    BY <1>0, UnqueuedLists
  <2>2. CASE k = "store"
    <3>1. {u \in Tasks : at'[u] \in Waiting[k]} = S \cup {r}
      BY <1>0, <2>2 DEF TypeOK, Waiting
    <3>2. queue'[k] = Append(q[k], r)
      BY <1>0, <1>2, <2>2
    <3> QED  BY <1>0, <2>1, <3>1, <3>2, AppendLists
  <2>3. CASE k # "store"
    <3>1. "toList" \notin Waiting[k]
      BY <2>3 DEF Locks, Waiting
    <3>2. {u \in Tasks : at'[u] \in Waiting[k]} = S
      BY <1>0, <3>1 DEF TypeOK
    <3>3. queue'[k] = q[k]
      BY <1>0, <1>2, <2>3
    <3> QED  BY <2>1, <3>2, <3>3
  <2> QED  BY <2>2, <2>3
<1> QED  BY <1>1, <1>2, <1>3 DEF TypeOK, roster

\* The labels in one place, for the steps that only compare them.
LEMMA LabelFacts ==
    /\ Queued = {"toCheck", "toList", "toUpload", "toPost", "toDelete", "toLookup", "toPath",
                 "toRoster", "toLabel", "toRefresh"}
    /\ Held = {"checking", "listing", "uploading", "posting", "deleting", "looking", "locating",
               "toList", "labelling", "refreshing"}
    /\ Labels = Queued \cup Held \cup {"body", "reading", "idle", "asleep", "fetching"}
BY DEF Queued, Held, Locks, Waiting, Holding, Awaits, Labels, RefresherLabels

LEMMA StepTypes ==
    ASSUME TypeOK, NEW t \in Tasks, NEW from \in Labels \ Queued, NEW to \in Labels,
           Step(t, from, to), t = Refresher <=> to \in RefresherLabels,
           UNCHANGED truth, fetched' \in Versions, view' \in Versions
    PROVE  TypeOK'
BY GoTypes DEF Step

LEMMA EnterTypes ==
    ASSUME TypeOK, NEW t \in Tasks, NEW k, NEW from, NEW to \in Labels \ Queued,
           Enter(t, k, from, to), t = Refresher <=> to \in RefresherLabels, UNCHANGED roster
    PROVE  TypeOK'
BY LeaveTypes DEF Enter

LEMMA TypeStep == TypeOK /\ [Next]_vars => TypeOK'
<1> SUFFICES ASSUME TypeOK, [Next]_vars PROVE TypeOK'
  OBVIOUS
<1> USE DEF RefresherLabels
<1>0. truth \in Versions /\ fetched \in Versions /\ view \in Versions
  BY DEF TypeOK
<1>1. ASSUME NEW r \in Requests, Arrive(r) \/ Work(r) \/ Body(r) \/ Cancel(r)
      PROVE  TypeOK'
  <2>0. r \in Tasks /\ r # Refresher /\ UNCHANGED roster
    BY <1>1, RefresherAssumption DEF Tasks, Arrive, Work, Body, Cancel
  <2>1. ASSUME NEW from \in Labels \ Queued, NEW to \in Labels \ RefresherLabels,
               Step(r, from, to)
        PROVE  TypeOK'
    BY <1>0, <2>0, <2>1, StepTypes DEF roster
  <2>2. ASSUME NEW k, NEW from, NEW to \in Labels \ (Queued \cup RefresherLabels),
               Enter(r, k, from, to)
        PROVE  TypeOK'
    BY <2>0, <2>2, EnterTypes
  <2>3. CASE Arrive(r) \/ Body(r)
    BY <2>1, <2>3, LabelFacts DEF Arrive, Body, PostBody
  <2>4. CASE List(r)
    BY <2>0, <2>1, <2>2, <2>4, ListRosterTypes, LabelFacts DEF List
  <2>5. CASE PostCheck(r)
    BY <2>1, <2>2, <2>5, LabelFacts DEF PostCheck
  <2>6. CASE PostStore(r)
    BY <2>1, <2>2, <2>6, LabelFacts DEF PostStore
  <2>7. CASE PostAnswer(r) \/ Delete(r)
    BY <2>1, <2>2, <2>7, LabelFacts DEF PostAnswer, Delete
  <2>8. CASE Serve(r)
    BY <2>1, <2>2, <2>8, LabelFacts DEF Serve
  <2>9. CASE Cancel(r)
    <3>1. "idle" \in Labels \ Queued /\ "idle" \notin RefresherLabels
      BY LabelFacts
    <3> QED  BY <2>0, <2>9, <3>1, LeaveTypes DEF Cancel
  <2> QED  BY <1>1, <2>3, <2>4, <2>5, <2>6, <2>7, <2>8, <2>9 DEF Work
<1>2. CASE Wake \/ Snapshot \/ SnapshotFail \/ Refresh
  <2>1. ASSUME NEW from \in Labels \ Queued, NEW to \in RefresherLabels,
               Step(Refresher, from, to), UNCHANGED truth, fetched' \in Versions, view' \in Versions
        PROVE  TypeOK'
    BY <2>1, StepTypes DEF Tasks, Labels
  <2>2. UNCHANGED truth /\ fetched' \in Versions /\ view' \in Versions
    BY <1>0, <1>2 DEF Wake, Snapshot, SnapshotFail, Refresh, roster
  <2> QED  BY <1>2, <2>1, <2>2, LabelFacts DEF Wake, Snapshot, SnapshotFail, Refresh
<1>3. CASE RefreshLock
  BY <1>3, EnterTypes, LabelFacts DEF RefreshLock, Tasks
<1>4. CASE Change \/ UNCHANGED vars
  BY <1>0, <1>4 DEF Change, vars, roster, TypeOK
<1> QED  BY <1>1, <1>2, <1>3, <1>4 DEF Next

\* Labels are of their type, and a queue has every task that waits for its
\* lock, once: a dropped handler leaves no place behind (tokio's Acquire).
THEOREM TypeCorrect == Spec => []TypeOK
<1>1. Init => TypeOK
  <2> SUFFICES ASSUME Init PROVE TypeOK
    OBVIOUS
  <2>1. at \in [Tasks -> Labels] /\ \A t \in Tasks : t = Refresher <=> at[t] \in RefresherLabels
    BY LabelFacts DEF Init, RefresherLabels
  <2>2. \A k \in Locks : {t \in Tasks : at[t] \in Waiting[k]} = {}
    BY DEF Init, Locks, Waiting
  <2> QED  BY <2>1, <2>2, EmptyLists, VersionsAssumption DEF Init, TypeOK
<1> QED  BY <1>1, TypeStep, PTL DEF Spec

-----------------------------------------------------------------------------
(* No deadlock.                                                            *)

\* The first in a queue may enter, unless a task holds the lock.
LEMMA FirstMayEnter ==
    ASSUME TypeOK, NEW k \in Locks, NEW t \in Tasks, at[t] \in Waiting[k],
           \A u \in Tasks : at[u] \notin Holding[k]
    PROVE  \E h \in Tasks : at[h] \in Waiting[k] /\ MayEnter(h, k)
<1> DEFINE S == {u \in Tasks : at[u] \in Waiting[k]}
<1>1. Head(queue[k]) \in S
  BY HeadWaits DEF TypeOK
<1> QED  BY <1>1 DEF MayEnter

\* Locks are ordered: who waits for the roster or the limiter holds nothing,
\* and who waits for the store holds at most the roster.  So whoever holds the
\* store is at work; if nobody waits for the store, so is whoever holds another
\* lock (api.rs:82-83, 206).
THEOREM DeadlockFree == Spec => []NoDeadlock
<1>1. TypeOK => NoDeadlock
  <2> SUFFICES ASSUME TypeOK, NEW t \in Tasks, at[t] \in Queued,
                      \A u \in Tasks : at[u] \notin Held \ Queued
               PROVE  \E h \in Tasks, k \in Locks : at[h] \in Waiting[k] /\ MayEnter(h, k)
    BY DEF NoDeadlock
  <2>1. \A u \in Tasks : at[u] \notin Holding["store"] /\ at[u] \notin Holding["limiter"]
    BY LabelFacts DEF Holding
  <2>2. \A u \in Tasks : at[u] \in Holding["roster"] => at[u] \in Waiting["store"]
    BY LabelFacts DEF Holding, Waiting
  <2>3. CASE \E u \in Tasks : at[u] \in Waiting["store"]
    BY <2>1, <2>3, FirstMayEnter DEF Locks
  <2>4. CASE ~\E u \in Tasks : at[u] \in Waiting["store"]
    <3>1. PICK k \in Locks : at[t] \in Waiting[k]
      BY DEF Queued
    <3>2. \A u \in Tasks : at[u] \notin Holding[k]
      BY <2>1, <2>2, <2>4 DEF Locks
    <3> QED  BY <3>1, <3>2, FirstMayEnter
  <2> QED  BY <2>3, <2>4
<1> QED  BY <1>1, TypeCorrect, PTL

-----------------------------------------------------------------------------
(* The roster is not changed under a reader.                               *)

\* While the refresher writes the view no request has the roster.
Exclusion ==
    at[Refresher] = "refreshing" =>
        \A r \in Requests : at[r] \notin {"toList", "listing", "labelling"}

LEMMA ExclusionStep == TypeOK /\ Exclusion /\ [Next]_vars => Exclusion'
<1> SUFFICES ASSUME TypeOK, Exclusion, [Next]_vars PROVE Exclusion'
  OBVIOUS
<1> DEFINE Readers == {"toList", "listing", "labelling"}
<1>0. Readers \subseteq Holding["roster"] /\ "refreshing" \in Holding["roster"]
  BY DEF Holding
<1>1. ASSUME NEW r \in Requests, NEW l, at' = [at EXCEPT ![r] = l],
             l \in Readers => at[r] \in Readers \/ MayEnter(r, "roster")
      PROVE  Exclusion'
  <2>1. Refresher # r /\ Refresher \in Tasks /\ r \in Tasks
    BY RefresherAssumption DEF Tasks
  <2>2. at'[Refresher] = at[Refresher] /\ \A q \in Requests : q # r => at'[q] = at[q]
    BY <1>1, <2>1 DEF TypeOK, Tasks
  <2>3. MayEnter(r, "roster") => at[Refresher] # "refreshing"
    BY <1>0, <2>1, RefresherAssumption DEF MayEnter
  <2> QED  BY <1>1, <2>1, <2>2, <2>3 DEF Exclusion, TypeOK
<1>2. ASSUME NEW r \in Requests, Arrive(r) \/ Work(r) \/ Body(r) \/ Cancel(r)
      PROVE  Exclusion'
  <2>1. ASSUME NEW from, NEW to, to \notin Readers, Step(r, from, to) PROVE Exclusion'
    BY <1>1, <2>1 DEF Step, Go
  <2>2. ASSUME NEW k, NEW from, NEW to,
               to \in Readers => from \in Readers \/ k = "roster", Enter(r, k, from, to)
        PROVE  Exclusion'
    BY <1>1, <2>2 DEF Enter
  <2>3. CASE Arrive(r) \/ Body(r)
    BY <2>1, <2>3 DEF Arrive, Body, PostBody
  <2>4. CASE ListRoster(r)
    BY <1>1, <2>4 DEF ListRoster
  <2>5. CASE List(r) /\ ~ListRoster(r)
    BY <2>1, <2>2, <2>5 DEF List
  <2>6. CASE PostCheck(r) \/ PostAnswer(r)
    BY <2>1, <2>2, <2>6 DEF PostCheck, PostAnswer
  <2>7. CASE PostStore(r) \/ Delete(r) \/ Serve(r)
    BY <2>1, <2>2, <2>7 DEF PostStore, Delete, Serve
  <2>8. CASE Cancel(r)
    BY <1>1, <2>8 DEF Cancel
  <2> QED  BY <1>2, <2>3, <2>4, <2>5, <2>6, <2>7, <2>8 DEF Work
<1>3. CASE Wake \/ Snapshot \/ SnapshotFail \/ Refresh
  <2>1. PICK l \in Labels \ {"refreshing"} : at' = [at EXCEPT ![Refresher] = l]
    BY <1>3, LabelFacts DEF Wake, Snapshot, SnapshotFail, Refresh, Step, Go
  <2> QED  BY <2>1 DEF Exclusion, TypeOK, Tasks
<1>4. CASE RefreshLock
  <2>1. \A u \in Requests : at[u] \notin Holding["roster"]
    BY <1>4, RefresherAssumption DEF RefreshLock, Enter, MayEnter, Tasks
  <2>2. \A u \in Requests : at'[u] = at[u]
    BY <1>4, RefresherAssumption DEF RefreshLock, Enter, TypeOK, Tasks
  <2> QED  BY <1>0, <2>1, <2>2 DEF Exclusion
<1>5. CASE Change \/ UNCHANGED vars
  BY <1>5 DEF Change, vars, Exclusion
<1> QED  BY <1>2, <1>3, <1>4, <1>5 DEF Next

\* A list, and the answer to a post, are labelled by one view of the roster:
\* the write lock keeps the refresher out while any request reads (api.rs:82).
THEOREM ViewIsStable == Spec => OneView
<1> DEFINE Quiet == (\E r \in Requests : at[r] \in {"toList", "listing", "labelling"})
                        => UNCHANGED view
<1>1. Init => Exclusion
  BY DEF Init, Exclusion, Tasks
<1>2. Exclusion /\ [Next]_vars => [Quiet]_vars
  <2> SUFFICES ASSUME Exclusion, [Next]_vars PROVE Quiet \/ UNCHANGED vars
    OBVIOUS
  <2>1. CASE Refresh
    BY <2>1 DEF Refresh, Step, Exclusion
  <2>2. CASE ~Refresh
    <3>1. UNCHANGED view
      BY <2>2 DEF Next, vars, roster, Arrive, Work, Body, Cancel, Wake, Snapshot, SnapshotFail,
                  RefreshLock, Change
    <3> QED  BY <3>1
  <2> QED  BY <2>1, <2>2
<1> QED  BY <1>1, <1>2, ExclusionStep, TypeCorrect, PTL DEF Spec, OneView
=============================================================================
