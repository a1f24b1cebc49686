------------------------------- MODULE Locks -------------------------------
(***************************************************************************)
(* Who waits for whom: the three locks of AppState (src/src/api.rs), the   *)
(* handlers that take them, and the task of src/src/main.rs that refreshes *)
(* the roster.                                                             *)
(*                                                                         *)
(* tokio's locks are handed over in the order they were asked for, a       *)
(* RwLock too: a reader waits behind a writer that waits.  What a handler  *)
(* does to the store under the Mutex is Board.tla; here a task is at a     *)
(* label of its handler, and the label says which lock it waits for and    *)
(* which it holds.                                                         *)
(***************************************************************************)
EXTENDS Sequences, Integers, SequencesExt

CONSTANTS
    Requests,   \* slots for the requests in flight at the same time
    Refresher,  \* the roster refresh task
    Versions    \* contents of the daemon's roster

ASSUME RefresherAssumption == Refresher \notin Requests
ASSUME VersionsAssumption  == Versions # {}

Tasks == Requests \cup {Refresher}
Locks == {"limiter", "store", "roster"}

VARIABLES
    at,         \* where each task is
    queue,      \* those waiting for each lock, in the order they came
    truth,      \* the roster the daemon has
    fetched,    \* the last snapshot the refresher took
    view        \* AppState.roster

roster == <<truth, fetched, view>>
vars   == <<at, queue, roster>>

-----------------------------------------------------------------------------
(* Labels.  A handler waits at "to..." until it has the lock.              *)

Waiting == [limiter |-> {"toCheck"},
            store   |-> {"toList", "toUpload", "toPost", "toDelete", "toLookup", "toPath"},
            roster  |-> {"toRoster", "toLabel", "toRefresh"}]

HoldingPostLong ==                     \* bug: post keeps the store while it labels its answer
    [limiter |-> {"checking"},
     store   |-> {"listing", "uploading", "posting", "deleting", "looking", "locating",
                  "toLabel", "labelling"},
     roster  |-> {"toList", "listing", "labelling", "refreshing"}]
HoldingListShort ==                    \* bug: list lets the roster go before it waits
    [limiter |-> {"checking"},
     store   |-> {"listing", "uploading", "posting", "deleting", "looking", "locating"},
     roster  |-> {"labelling", "refreshing"}]
HoldingFetch ==                        \* bug: the write lock is taken before the daemon is asked
    [limiter |-> {"checking"},
     store   |-> {"listing", "uploading", "posting", "deleting", "looking", "locating"},
     roster  |-> {"toList", "listing", "labelling", "refreshing", "fetching"}]
\* list waits for the store with the roster in its hands.
Holding == [limiter |-> {"checking"},
            store   |-> {"listing", "uploading", "posting", "deleting", "looking", "locating"},
            roster  |-> {"toList", "listing", "labelling", "refreshing"}]

Queued == UNION {Waiting[k] : k \in Locks}
Held   == UNION {Holding[k] : k \in Locks}

\* Where a handler is dropped when its client goes away: at its awaits.
Awaits == (Queued \ {"toRefresh"}) \cup {"body", "reading"}

RefresherLabels == {"asleep", "fetching", "toRefresh", "refreshing"}
Labels == Queued \cup Held \cup Awaits \cup RefresherLabels \cup {"idle"}

\* q has every member of S, once.
Lists(q, S) ==
    /\ q \in Seq(Tasks)
    /\ {q[i] : i \in DOMAIN q} = S
    /\ \A i, j \in DOMAIN q : q[i] = q[j] => i = j

\* Every task that waits for a lock has one place in its queue, and nobody else.
TypeOK ==
    /\ at \in [Tasks -> Labels]
    /\ \A t \in Tasks : t = Refresher <=> at[t] \in RefresherLabels
    /\ DOMAIN queue = Locks
    /\ \A k \in Locks : Lists(queue[k], {t \in Tasks : at[t] \in Waiting[k]})
    /\ truth \in Versions /\ fetched \in Versions /\ view \in Versions

Init ==
    /\ at = [t \in Tasks |-> IF t = Refresher THEN "asleep" ELSE "idle"]
    /\ queue = [k \in Locks |-> <<>>]
    /\ truth \in Versions /\ fetched = truth /\ view = truth

-----------------------------------------------------------------------------
Without(q, t) == RemoveAt(q, CHOOSE i \in DOMAIN q : q[i] = t)

WithoutCancelled(l, t) == queue        \* bug: a dropped handler keeps its place
\* The queues once t, at label l, waits no more.
Unqueued(l, t) ==
    [k \in Locks |-> IF l \in Waiting[k] THEN Without(queue[k], t) ELSE queue[k]]

\* t goes on to label l, and to the end of a queue if l is a wait.
Go(t, l) ==
    /\ at' = [at EXCEPT ![t] = l]
    /\ queue' = [k \in Locks |-> IF l \in Waiting[k] THEN Append(queue[k], t) ELSE queue[k]]

MayEnterReadersFirst(t, k) ==          \* bug: a reader passes a writer that waits
    /\ (t \in Requests /\ k = "roster") \/ t = Head(queue[k])
    /\ \A u \in Tasks : at[u] \in Holding[k] => k = "roster" /\ {t, u} \subseteq Requests
\* It is t's turn at lock k, and no one holds it, or readers only and t reads.
MayEnter(t, k) ==
    /\ t = Head(queue[k])
    /\ \A u \in Tasks : at[u] \in Holding[k] => k = "roster" /\ {t, u} \subseteq Requests

\* t, waiting at label `from` for lock k, gets it and goes on to label `to`.
Enter(t, k, from, to) ==
    /\ at[t] = from
    /\ MayEnter(t, k)
    /\ at' = [at EXCEPT ![t] = to]
    /\ queue' = Unqueued(from, t)

Step(t, from, to) == at[t] = from /\ Go(t, to)

-----------------------------------------------------------------------------
(* The handlers.                                                           *)

\* list_messages: the roster, and with it the store.
ListRoster(r) ==
    /\ at[r] = "toRoster"
    /\ MayEnter(r, "roster")
    /\ at' = [at EXCEPT ![r] = "toList"]
    /\ queue' = [Unqueued("toRoster", r) EXCEPT !["store"] = Append(@, r)]

List(r) ==
    \/ ListRoster(r)
    \/ Enter(r, "store", "toList", "listing")
    \/ Step(r, "listing", "idle")

\* post_message: the limiter, the body, the store for the image and again for
\* the message, the roster for the answer; one lock at a time.
PostCheck(r) ==
    \/ Enter(r, "limiter", "toCheck", "checking")
    \/ \E l \in {"body", "idle"} : Step(r, "checking", l)

\* The client sends the body as fast as it likes.
PostBody(r) == \E l \in {"toUpload", "toPost", "idle"} : Step(r, "body", l)

PostStore(r) ==
    \/ Enter(r, "store", "toUpload", "uploading")
    \/ \E l \in {"toPost", "idle"} : Step(r, "uploading", l)
    \/ Enter(r, "store", "toPost", "posting")
    \/ Step(r, "posting", "toLabel")

PostAnswer(r) ==
    \/ Enter(r, "roster", "toLabel", "labelling")
    \/ Step(r, "labelling", "idle")

\* delete_message.
Delete(r) ==
    \/ Enter(r, "store", "toDelete", "deleting")
    \/ Step(r, "deleting", "idle")

\* serve_attachment: the store twice, then the file without it.
Serve(r) ==
    \/ Enter(r, "store", "toLookup", "looking")
    \/ \E l \in {"toPath", "idle"} : Step(r, "looking", l)
    \/ Enter(r, "store", "toPath", "locating")
    \/ Step(r, "locating", "reading")
    \/ Step(r, "reading", "idle")

Arrive(r) ==
    /\ \E l \in {"toRoster", "toCheck", "toDelete", "toLookup"} : Step(r, "idle", l)
    /\ UNCHANGED roster

Work(r) ==
    /\ List(r) \/ PostCheck(r) \/ PostStore(r) \/ PostAnswer(r) \/ Delete(r) \/ Serve(r)
    /\ UNCHANGED roster

Body(r) == PostBody(r) /\ UNCHANGED roster

\* The client goes away: guards are dropped, and so is the place in a queue.
Cancel(r) ==
    /\ at[r] \in Awaits
    /\ at' = [at EXCEPT ![r] = "idle"]
    /\ queue' = Unqueued(at[r], r)
    /\ UNCHANGED roster

-----------------------------------------------------------------------------
(* The refresh task, and the daemon's roster.                              *)

\* Sixty seconds are over.
Wake == Step(Refresher, "asleep", "fetching") /\ UNCHANGED roster

\* The daemon answers with its roster, which may change before it is used, ...
Snapshot ==
    /\ Step(Refresher, "fetching", "toRefresh")
    /\ fetched' = truth
    /\ UNCHANGED <<truth, view>>

\* ... or with an error, and the last view is kept.
SnapshotFail == Step(Refresher, "fetching", "asleep") /\ UNCHANGED roster

RefreshLock ==
    /\ Enter(Refresher, "roster", "toRefresh", "refreshing")
    /\ UNCHANGED roster

Refresh ==
    /\ Step(Refresher, "refreshing", "asleep")
    /\ view' = fetched
    /\ UNCHANGED <<truth, fetched>>

\* Peers come, go and change names.
Change ==
    /\ truth' \in Versions \ {truth}
    /\ UNCHANGED <<at, queue, fetched, view>>

-----------------------------------------------------------------------------
Next ==
    \/ \E r \in Requests : Arrive(r) \/ Work(r) \/ Body(r) \/ Cancel(r)
    \/ Wake \/ Snapshot \/ SnapshotFail \/ RefreshLock \/ Refresh
    \/ Change

Spec == Init /\ [][Next]_vars

\* The runtime polls every task it can, and its timer goes off.  The body of a
\* post and the daemon's answer may never come: neither has a timeout.
Fairness ==
    /\ \A r \in Requests : WF_vars(Work(r))
    /\ WF_vars(Wake) /\ WF_vars(RefreshLock) /\ WF_vars(Refresh)

FairSpec == Spec /\ Fairness

-----------------------------------------------------------------------------
(* Properties.                                                             *)

\* The tasks never all wait for one another: while one waits for a lock, some
\* task is inside one and at work, or it is some task's turn (api.rs:82-83
\* takes the store with the roster in hand, main.rs:194 queues a writer).
NoDeadlock ==
    (\E t \in Tasks : at[t] \in Queued) =>
        \/ \E t \in Tasks : at[t] \in Held \ Queued
        \/ \E t \in Tasks, k \in Locks : at[t] \in Waiting[k] /\ MayEnter(t, k)

\* A list is labelled by one view of the roster from its first line to its
\* last, however long it waits for the store; so is the answer to a post.
OneView ==
    [][(\E r \in Requests : at[r] \in {"toList", "listing", "labelling"}) => UNCHANGED view]_vars

\* No request that arrived, and whose body did, waits for ever, though the
\* daemon never answers the refresher and others keep coming.
Answered ==
    \A r \in Requests : at[r] \notin {"idle", "body"} ~> at[r] \in {"idle", "body"}

\* If the daemon goes on answering, the board's labels come to be those of its
\* roster: readers do not keep the refresher out (main.rs:185-186).
LabelsFollow ==
    SF_vars(Snapshot) => \A v \in Versions : <>[](truth = v) => <>[](view = v)
=============================================================================
