------------------------------- MODULE Board -------------------------------
(***************************************************************************)
(* The message board's core: the store (src/src/store.rs) as the HTTP      *)
(* handlers of src/src/api.rs drive it.                                    *)
(*                                                                         *)
(* The in-memory log is mirrored to an NDJSON file, attachments are files  *)
(* named by the hash of their bytes, and one tokio Mutex guards the store. *)
(* A request is a slot with a program counter; it gives the Mutex up       *)
(* between the upload and the post, and never holds it while it reads an   *)
(* attachment to serve it.  File operations fail, and the process is       *)
(* killed and started again, as the constant Faults allows.                *)
(***************************************************************************)
EXTENDS Messages, Integers, FiniteSets

CONSTANTS
    Requests,       \* slots for the requests in flight at the same time
    Bytes,          \* Bytes[i]: the size of image i
    Raster,         \* the images sniff_image recognises
    MaxAttachment,  \* AppState.max_attachment_bytes
    MaxStorage,     \* AppState.max_storage_bytes
    Grace,          \* AppState.eviction_grace_secs
    Faults,         \* the operations that may fail
    Straddle,       \* may the clock advance while a request is in flight?
    MaxPosts,       \* bound: identifiers in use, with the posts in flight
    MaxClock,       \* bound: the clock
    MaxKills        \* bound: kills of the process

ASSUME BytesAssumption == Bytes \in [Images -> Nat \ {0}]
ASSUME NoneAssumption  == None \notin Images \cup Requests   \* nor a holder of the Mutex
ASSUME LimitAssumption == /\ Raster \subseteq Images
                          /\ MaxAttachment \in Nat
                          /\ MaxStorage \in Nat
                          /\ Grace \in Nat
ASSUME FaultAssumption ==
    /\ Faults \subseteq {"kill", "cut", "append", "write", "remove", "rewrite", "list"}
    /\ Straddle \in BOOLEAN
ASSUME BoundAssumption == MaxPosts \in Nat /\ MaxClock \in Nat /\ MaxKills \in Nat

VARIABLES
    mem,      \* Store.messages: a set of rows, the Vec being in order of id
    nextId,   \* Store.next_id
    log,      \* messages.ndjson
    files,    \* the attachments directory: bytes of each file, or Absent
    mtime,    \* modification time of each file, in whole seconds
    lock,     \* the request that holds AppState.store, or None
    pc, arg,  \* where each request is, and what it was given
    sweep,    \* the locals of the enforce_quota that is running
    proc,     \* "up", "down" (killed) or "refused" (Store::load failed)
    clock, kills

store == <<mem, nextId>>
disk  == <<log, files, mtime>>
slots == <<lock, pc, arg>>
host  == <<proc, clock, kills>>
vars  == <<store, disk, slots, sweep, host>>

-----------------------------------------------------------------------------
(* messages.ndjson.  `rows` are the messages on lines that parse; `last`   *)
(* the one (if any) whose line has no newline yet; `ragged` whether the    *)
(* file ends within a line; `utf8` whether its bytes are valid UTF-8.      *)

LogType == [rows : SUBSET Message, last : SUBSET Message,
            ragged : BOOLEAN, utf8 : BOOLEAN]

EmptyLog == [rows |-> {}, last |-> {}, ragged |-> FALSE, utf8 |-> TRUE]

\* The file after the JSON of m was appended.  On an unfinished line it only
\* completes garbage: that line then holds one JSON text after another.
WithJson(l, m) ==
    IF l.ragged
    THEN [l EXCEPT !.rows = @ \ l.last, !.last = {}]
    ELSE [l EXCEPT !.rows = @ \cup {m}, !.last = {m}, !.ragged = TRUE]

WithNewline(l) == [l EXCEPT !.last = {}, !.ragged = FALSE]

\* The file after only a prefix of a line was appended, possibly one that ends
\* within a character of more than one byte.
WithFragment(l, midChar) ==
    [l EXCEPT !.rows = @ \ l.last, !.last = {}, !.ragged = TRUE, !.utf8 = @ /\ ~midChar]

RewrittenCompact(S) == [EmptyLog EXCEPT !.rows = {m \in S : ~m.deleted}]  \* bug: drops ghosts
Rewritten(S) == [EmptyLog EXCEPT !.rows = S]

LoadedTerminated(l) == l.rows \ l.last      \* bug: ignores an unfinished last line
LoadedLive(l) == {m \in l.rows : ~m.deleted} \* bug: forgets the ghosts
Loaded(l) == l.rows

NextIdAfterCount(rows) == 1 + Cardinality(rows)     \* bug: messages.len() + 1
NextIdAfterMax(rows) ==                             \* bug: the maximum itself
    IF rows = {} THEN 0 ELSE CHOOSE n \in {m.id : m \in rows} : \A m \in rows : m.id <= n
NextIdAfter(rows) ==
    IF rows = {} THEN 1 ELSE 1 + (CHOOSE n \in {m.id : m \in rows} : \A m \in rows : m.id <= n)

-----------------------------------------------------------------------------
Absent   == -1
Present  == {i \in Images : files[i] # Absent}
NoArg    == [text |-> FALSE, img |-> None]
ArgType  == [text : BOOLEAN, img : Images \cup {None}]
NoSweep  == [seen |-> {}, size |-> [i \in Images |-> 0], total |-> 0,
             cutoff |-> 0, todo |-> {}, gone |-> {}]
SweepType == [seen : SUBSET Images, size : [Images -> Nat], total : Nat,
              cutoff : Nat, todo : SUBSET Images, gone : SUBSET Images]

SaturatingSub(a, b) == IF b > a THEN 0 ELSE a - b

\* The program counters at which a request holds the Mutex.
Locked == {"writing", "appending", "newline", "listing", "sweeping", "persisting", "deleting"}
\* Those at which it awaits: the Mutex, the roster, or the read of a file.
AwaitingWrite == {"parsed", "stored", "replying", "reading", "writing"}    \* bug: tokio::fs::write
Awaiting == {"parsed", "stored", "replying", "reading"}
PCs == Locked \cup Awaiting \cup {"idle"}

Goto(r, l) == pc' = [pc EXCEPT ![r] = l]
Answer(r)  == Goto(r, "idle") /\ arg' = [arg EXCEPT ![r] = NoArg]
Acquire(r) == lock = None /\ lock' = r
Release(r) == lock' = None

\* Messages that still show image i.
Live(i) == {m \in mem : m.att = i}

\* Posts admitted and not yet numbered; only the bound on PostArrive uses it.
InFlight == {r \in Requests : pc[r] \in {"parsed", "writing", "stored"}}

-----------------------------------------------------------------------------
TypeOK ==
    /\ mem \subseteq Message
    /\ nextId \in Nat \ {0}
    /\ log \in LogType
    /\ files \in [Images -> Nat \cup {Absent}]
    /\ mtime \in [Images -> Nat]
    /\ lock \in Requests \cup {None}
    /\ pc \in [Requests -> PCs]
    /\ arg \in [Requests -> ArgType]
    /\ sweep \in SweepType
    /\ proc \in {"up", "down", "refused"}
    /\ clock \in Nat
    /\ kills \in Nat

Init ==
    /\ mem = {}
    /\ nextId = 1
    /\ log = EmptyLog
    /\ files = [i \in Images |-> Absent]
    /\ mtime = [i \in Images |-> 0]
    /\ lock = None
    /\ pc = [r \in Requests |-> "idle"]
    /\ arg = [r \in Requests |-> NoArg]
    /\ sweep = NoSweep
    /\ proc = "up"
    /\ clock = Grace       \* no host's clock is within the grace period of the epoch
    /\ kills = 0

-----------------------------------------------------------------------------
(* POST /api/messages: the body is read, then an image is stored.          *)

PostArrive(r) ==
    /\ proc = "up" /\ pc[r] = "idle"
    /\ \E text \in BOOLEAN, img \in Images \cup {None} :
          /\ text \/ img # None => nextId + Cardinality(InFlight) <= MaxPosts
          /\ arg' = [arg EXCEPT ![r] = [text |-> text, img |-> img]]
    /\ Goto(r, "parsed")
    /\ UNCHANGED <<store, disk, lock, sweep, host>>

Acceptable(i) == Bytes[i] <= MaxAttachment /\ i \in Raster

\* 413, 415, and 400 for a post with neither text nor image.
PostReject(r) ==
    /\ pc[r] = "parsed"
    /\ IF arg[r].img = None THEN ~arg[r].text ELSE ~Acceptable(arg[r].img)
    /\ Answer(r)
    /\ UNCHANGED <<store, disk, lock, sweep, host>>

\* The file of those bytes is there already: nothing is written, and its
\* modification time stays what it was.
StoreDedup(r) ==
    LET i == arg[r].img IN
    /\ pc[r] = "parsed" /\ i # None /\ Acceptable(i)
    /\ lock = None
    /\ files[i] # Absent
    /\ Goto(r, "stored")
    /\ UNCHANGED <<store, disk, lock, arg, sweep, host>>

\* fs::write creates the file, then fills it; k bytes are there at first.
StoreBegin(r) ==
    LET i == arg[r].img IN
    /\ pc[r] = "parsed" /\ i # None /\ Acceptable(i)
    /\ Acquire(r)
    /\ files[i] = Absent
    /\ \E k \in 0 .. Bytes[i] - 1 : files' = [files EXCEPT ![i] = k]
    /\ mtime' = [mtime EXCEPT ![i] = clock]
    /\ Goto(r, "writing")
    /\ UNCHANGED <<store, log, arg, sweep, host>>

StoreWrite(r) ==
    LET i == arg[r].img IN
    /\ pc[r] = "writing"
    /\ files' = [files EXCEPT ![i] = Bytes[i]]
    /\ mtime' = [mtime EXCEPT ![i] = clock]
    /\ Release(r)
    /\ Goto(r, "stored")
    /\ UNCHANGED <<store, log, arg, sweep, host>>

\* 500: the file was not created, or it is left as far as it got.
StoreFail(r) ==
    /\ "write" \in Faults
    /\ \/ /\ pc[r] = "parsed" /\ arg[r].img # None /\ Acceptable(arg[r].img)
          /\ lock = None /\ files[arg[r].img] = Absent
       \/ pc[r] = "writing"
    /\ Release(r)
    /\ Answer(r)
    /\ UNCHANGED <<store, disk, sweep, host>>

-----------------------------------------------------------------------------
(* ... then, under the Mutex again, the message is posted.                 *)

Posted(r) == [id |-> nextId, ts |-> clock, text |-> arg[r].text, att |-> arg[r].img,
              deleted |-> FALSE, evicted |-> FALSE]

PostLock(r) ==
    /\ \/ pc[r] = "stored"
       \/ pc[r] = "parsed" /\ arg[r].img = None /\ arg[r].text
    /\ Acquire(r)
    /\ mem' = mem \cup {Posted(r)}
    /\ nextId' = nextId + 1
    /\ Goto(r, "appending")
    /\ UNCHANGED <<disk, arg, sweep, host>>

\* What follows Store::post: the sweep if there is an attachment.
AfterAppend(r) ==
    IF arg[r].img # None
    THEN /\ Goto(r, "listing")
         /\ UNCHANGED lock
    ELSE /\ Goto(r, "replying")
         /\ Release(r)

\* writeln! writes the JSON and the newline in two calls.
AppendJson(r) ==
    /\ pc[r] = "appending"
    /\ \E m \in mem : m.id = nextId - 1 /\ log' = WithJson(log, m)
    /\ Goto(r, "newline")
    /\ UNCHANGED <<store, files, mtime, lock, arg, sweep, host>>

AppendNewline(r) ==
    /\ pc[r] = "newline"
    /\ log' = WithNewline(log)
    /\ AfterAppend(r)
    /\ UNCHANGED <<store, files, mtime, arg, sweep, host>>

\* A failed append is only logged.  It wrote nothing, a fragment, or all but
\* the newline.
AppendFail(r) ==
    /\ \/ "append" \in Faults /\ pc[r] \in {"appending", "newline"} /\ UNCHANGED log
       \/ /\ "cut" \in Faults /\ pc[r] = "appending"
          /\ \E midChar \in BOOLEAN : log' = WithFragment(log, midChar)
    /\ AfterAppend(r)
    /\ UNCHANGED <<store, files, mtime, arg, sweep, host>>

-----------------------------------------------------------------------------
(* Store::enforce_quota, under the same hold of the Mutex.                 *)

\* `gone` counts what the loop removed, `todo` what it has still to try.
Leave(r) ==
    /\ Goto(r, "replying")
    /\ Release(r)
    /\ sweep' = NoSweep

\* One directory entry: its size is added, its modification time read.
SweepStat(r) ==
    /\ pc[r] = "listing"
    /\ \E i \in Present \ sweep.seen :
          sweep' = [sweep EXCEPT !.seen = @ \cup {i}, !.size = [@ EXCEPT ![i] = files[i]],
                                 !.total = @ + files[i]]
    /\ UNCHANGED <<store, disk, slots, host>>

\* read_dir or metadata failed: the sweep is given up with a warning.
SweepListFail(r) ==
    /\ "list" \in Faults
    /\ pc[r] = "listing"
    /\ Leave(r)
    /\ UNCHANGED <<store, disk, arg, host>>

OldEnoughStrict(i, cutoff) == mtime[i] < cutoff     \* bug: a file exactly Grace old stays
OldEnough(i, cutoff) == mtime[i] <= cutoff

SweepJudge(r) ==
    /\ pc[r] = "listing"
    /\ sweep.seen = Present
    /\ \/ sweep.total <= MaxStorage /\ Leave(r)
       \/ /\ sweep.total > MaxStorage
          /\ LET cutoff == SaturatingSub(clock, Grace) IN
             sweep' = [sweep EXCEPT !.cutoff = cutoff,
                                    !.todo = {i \in sweep.seen : OldEnough(i, cutoff)}]
          /\ Goto(r, "sweeping")
          /\ UNCHANGED lock
    /\ UNCHANGED <<store, disk, arg, host>>

\* The files the loop may take next: sorted largest first, in no set order
\* among those of one size.
NextVictimsUnsorted == sweep.todo                    \* bug: not sorted
NextVictims == {i \in sweep.todo : \A j \in sweep.todo : sweep.size[j] <= sweep.size[i]}

OverQuota == sweep.total > MaxStorage

SweepRemove(r) ==
    /\ pc[r] = "sweeping" /\ OverQuota
    /\ \E i \in NextVictims :
          /\ files' = [files EXCEPT ![i] = Absent]
          /\ mtime' = [mtime EXCEPT ![i] = 0]
          /\ sweep' = [sweep EXCEPT !.todo = @ \ {i}, !.gone = @ \cup {i},
                                    !.total = SaturatingSub(@, sweep.size[i])]
    /\ UNCHANGED <<store, log, slots, host>>

\* A file that cannot be removed is passed over.
PassedOverCounted(i) ==                              \* bug: counts it as removed
    [sweep EXCEPT !.todo = @ \ {i}, !.total = SaturatingSub(@, sweep.size[i])]
PassedOver(i) == [sweep EXCEPT !.todo = @ \ {i}]

SweepRemoveFail(r) ==
    /\ "remove" \in Faults
    /\ pc[r] = "sweeping" /\ OverQuota
    /\ \E i \in NextVictims : sweep' = PassedOver(i)
    /\ UNCHANGED <<store, disk, slots, host>>

LoopDoneUnderQuota == ~OverQuota                     \* bug: waits for room that never comes
LoopDone == ~OverQuota \/ sweep.todo = {}

\* Every message that shows a removed file is marked; the log is rewritten
\* only if there was one.
SweepMark(r) ==
    /\ pc[r] = "sweeping" /\ LoopDone
    /\ mem' = EvictedIn(mem, sweep.gone)
    /\ IF \E m \in mem : m.att \in sweep.gone
       THEN Goto(r, "persisting") /\ UNCHANGED <<lock, sweep>>
       ELSE Leave(r)
    /\ UNCHANGED <<nextId, disk, arg, host>>

-----------------------------------------------------------------------------
(* DELETE /api/messages/{id}, and Store::rewrite.                          *)

DeleteLock(r) ==
    /\ proc = "up" /\ pc[r] = "idle"
    /\ Acquire(r)
    /\ \E m \in mem : /\ ~m.deleted
                      /\ mem' = Deleted(mem, m)
    /\ Goto(r, "deleting")
    /\ UNCHANGED <<nextId, disk, arg, sweep, host>>

\* A delete is answered, a post goes on to its reply.
AfterRewrite(r) ==
    /\ Release(r)
    /\ sweep' = NoSweep
    /\ IF pc[r] = "deleting" THEN Answer(r) ELSE Goto(r, "replying") /\ UNCHANGED arg

\* The temporary file is renamed over the log: all of the new one or none.
Persist(r) ==
    /\ pc[r] \in {"persisting", "deleting"}
    /\ log' = Rewritten(mem)
    /\ AfterRewrite(r)
    /\ UNCHANGED <<store, files, mtime, host>>

\* A failed rewrite is only logged; the delete is answered as done.
PersistFail(r) ==
    /\ "rewrite" \in Faults
    /\ pc[r] \in {"persisting", "deleting"}
    /\ AfterRewrite(r)
    /\ UNCHANGED <<store, disk, host>>

-----------------------------------------------------------------------------
(* GET /attachments/{hash}: looked up under the Mutex, read without it.    *)

ServeLookup(r) ==
    /\ proc = "up" /\ pc[r] = "idle"
    /\ lock = None
    /\ \E i \in Images : /\ Live(i) # {}
                         /\ arg' = [arg EXCEPT ![r].img = i]
    /\ Goto(r, "reading")
    /\ UNCHANGED <<store, disk, lock, sweep, host>>

\* 200 with what the file then holds, or 404 if it is gone.
ServeRead(r) ==
    /\ pc[r] = "reading"
    /\ Answer(r)
    /\ UNCHANGED <<store, disk, lock, sweep, host>>

Reply(r) ==
    /\ pc[r] = "replying"
    /\ Answer(r)
    /\ UNCHANGED <<store, disk, lock, sweep, host>>

\* The client went away: axum drops the handler where it awaits.
Cancel(r) ==
    /\ pc[r] \in Awaiting
    /\ Answer(r)
    /\ UNCHANGED <<store, disk, lock, sweep, host>>

-----------------------------------------------------------------------------
(* The process and the host.                                               *)

Tick ==
    /\ clock < MaxClock
    /\ Straddle \/ \A r \in Requests : pc[r] = "idle"
    /\ clock' = clock + 1
    /\ UNCHANGED <<store, disk, slots, sweep, proc, kills>>

\* Nothing shuts the service down in order: a stop, an upgrade, an OOM kill
\* all end it where it is, perhaps within a write to the log.
Kill ==
    /\ "kill" \in Faults
    /\ proc = "up" /\ kills < MaxKills
    /\ kills' = kills + 1
    /\ proc' = "down"
    /\ mem' = {} /\ nextId' = 1
    /\ lock' = None
    /\ pc' = [r \in Requests |-> "idle"]
    /\ arg' = [r \in Requests |-> NoArg]
    /\ sweep' = NoSweep
    /\ \/ UNCHANGED log
       \/ /\ "cut" \in Faults /\ \E r \in Requests : pc[r] = "appending"
          /\ \E midChar \in BOOLEAN : log' = WithFragment(log, midChar)
    /\ UNCHANGED <<files, mtime, clock>>

\* Store::load: lines that do not parse are skipped.
Restart ==
    /\ proc = "down" /\ log.utf8
    /\ mem' = Loaded(log)
    /\ nextId' = NextIdAfter(Loaded(log))
    /\ proc' = "up"
    /\ UNCHANGED <<disk, slots, sweep, clock, kills>>

\* read_to_string rejects the file: the service exits, and is started and
\* refused again every five seconds.
LoadRefused ==
    /\ proc # "up" /\ ~log.utf8
    /\ proc' = "refused"
    /\ UNCHANGED <<store, disk, slots, sweep, clock, kills>>

Upload(r) == StoreDedup(r) \/ StoreBegin(r) \/ StoreWrite(r) \/ StoreFail(r)
Append(r) == AppendJson(r) \/ AppendNewline(r) \/ AppendFail(r)
Sweep(r)  == \/ SweepStat(r) \/ SweepListFail(r) \/ SweepJudge(r)
             \/ SweepRemove(r) \/ SweepRemoveFail(r) \/ SweepMark(r)
Rewrite(r) == Persist(r) \/ PersistFail(r)

\* What a request does once it has arrived.
Proceed(r) == \/ PostReject(r) \/ Upload(r) \/ PostLock(r) \/ Append(r) \/ Sweep(r)
              \/ Rewrite(r) \/ ServeRead(r) \/ Reply(r)

Next ==
    \/ \E r \in Requests : \/ PostArrive(r) \/ DeleteLock(r) \/ ServeLookup(r)
                           \/ Proceed(r) \/ Cancel(r)
    \/ Tick \/ Kill \/ Restart \/ LoadRefused

Spec == Init /\ [][Next]_vars

\* The runtime polls every handler it can, tokio's Mutex is handed over in
\* the order it was asked for, and systemd restarts the service.
Fairness ==
    /\ \A r \in Requests : WF_vars(Proceed(r)) /\ SF_vars(Upload(r)) /\ SF_vars(PostLock(r))
    /\ WF_vars(Restart)

FairSpec == Spec /\ Fairness

-----------------------------------------------------------------------------
(* Properties.  Those that hold whatever fails come first.                 *)

\* Identifiers are unique, in memory and on disk, and the next one is above
\* them all, also after rows were lost: a new post never takes the identifier
\* of a row that is still there (Store::post, Store::load).
Fresh(rows) ==
    /\ \A m, n \in rows : m.id = n.id => m = n
    /\ proc = "up" => \A m \in rows : m.id < nextId
IdsFresh == Fresh(mem) /\ Fresh(log.rows)

\* The log is never ahead of memory: whatever row a running board would load
\* after a crash is one it holds now, or an older form of one.
LogBehindMemory ==
    proc = "up" => \A n \in log.rows : \E m \in mem : Descends(n, m)

\* No append, rewrite, sweep, delete, kill or restart, and no failure of one,
\* costs the log a row that was complete, or takes one back to an older form:
\* durable posts stay, persisted deletes stick.
NoLostRow ==
    [][\A n \in log.rows \ log.last : \E m \in log'.rows : Descends(n, m)]_vars

\* The bytes in the files S of sizes f, each by its file and its place in it.
BytesIn(f, S) == UNION {{i} \X (1 .. f[i]) : i \in S}
OnDisk == Cardinality(BytesIn(files, Present))

\* While the sweep removes files, its running total is what is on disk
\* (enforce_quota's total, also past files that could not be removed).
SweepAccurate ==
    (\E r \in Requests : pc[r] = "sweeping") => sweep.total = OnDisk

\* The sweep evicts only what it must: putting any one of the files it removed
\* back would leave the board over its quota (enforce_quota's order and break).
NoNeedlessEviction ==
    \A i \in sweep.gone : sweep.total + sweep.size[i] > MaxStorage

-----------------------------------------------------------------------------
(* Properties of a board on which certain things do not fail.              *)

\* Between two requests the log holds exactly what memory does
\* (store.rs:7-9, "mirrored to disk on each mutation").
MirroredToDisk == proc = "up" /\ lock = None => log.rows = mem

\* A message that shows an image has its file: what loses its file is marked
\* evicted (store.rs:20-23, README.md:82-83).
RefsBacked ==
    lock = None => \A m \in mem : m.att # None => files[m.att] # Absent

\* A file that no request is writing holds all the bytes its name is the hash
\* of (store.rs:36).
AttachmentsWhole ==
    \A i \in Images :
        \/ files[i] \in {Absent, Bytes[i]}
        \/ \E r \in Requests : pc[r] = "writing" /\ arg[r].img = i

\* When the loop of a sweep ends, and nothing kept it from removing what it
\* chose, the files fit the quota or all that are left are within their grace.
WithinQuotaOrFresh ==
    \A r \in Requests :
        pc[r] = "sweeping" /\ LoopDone =>
            \/ OnDisk <= MaxStorage
            \/ \A i \in Present : mtime[i] > sweep.cutoff

\* What readers see of a board, through failures, kills and restarts, is a
\* behaviour of the abstract one.  A board that is not running stands for what
\* its next start would show, which is nothing if load refuses its log, then and
\* for ever (store.rs:89-90).  A row is safe once its line is complete, unless
\* the log would be refused.
Shown == IF proc = "up" THEN mem ELSE IF log.utf8 THEN Loaded(log) ELSE {}
Safe  == IF log.utf8 THEN log.rows \ log.last ELSE {}
Health == IF log.utf8 THEN "sound" ELSE IF proc = "up" THEN "spoiled" ELSE "refused"

Abstract == INSTANCE AbstractBoard
              WITH board <- Shown, safe <- Safe, health <- Health,
                   Accepted <- {i \in Images : Acceptable(i)}, MaySpoil <- "cut" \in Faults
Implements == Abstract!Spec

\* A request that arrived is answered, though others hold the Mutex before it
\* and though its append, sweep or rewrite fails.
Answered == \A r \in Requests : pc[r] # "idle" ~> pc[r] = "idle"
=============================================================================
