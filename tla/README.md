# tetron-messageboard: TLA+ models and proofs

This directory holds TLA+ models of tetron-messageboard, a message board that
one member of a tetron mesh network hosts for the others, the TLC runs that
check them on small instances, and TLAPS proofs about them. `PROJECT.json` maps
every definition to the lines it was translated from, lists what in the code is
hard to test, and says which property looks after it.

## The system

| part | source | state | operations | modelled in |
| --- | --- | --- | --- | --- |
| store | `src/store.rs` | messages in memory, next id; `messages.ndjson`, `attachments/` | load, append, rewrite, store attachment, post, delete, enforce quota | `Board`, `AbstractBoard` |
| HTTP handlers | `src/api.rs` | none of their own; share the store, limiter and roster | list, post, delete, serve attachment, health | `Board`; `Locks` (list too; health only answers) |
| rate limiter | `src/ratelimit.rs` | a token bucket per mesh address | check | `RateLimit` |
| service process | `src/main.rs` | network, bind address, store, roster | wait for the network, load, bind, serve, refresh the roster | `Boards`; `Locks` (the refresh) |
| data directories | `src/config.rs` | `board.json`, one directory per network, the legacy base directory | migrate, load and save the install state, environment knobs, tokens | `Boards` (not knobs and tokens) |
| commands | `src/service.rs` | env files (the registry), units | install, uninstall, restart-all, list | `Boards`, `AbstractBoards` |
| roster | `src/roster.rs` | a view of the daemon's networks | select a network, snapshot | `Boards`, `Locks` |
| browser client | `static/app.js` | draft, file, the rendered list | refresh, send, delete | `Client` |
| page, packaging, CI | `static/*.html`, `packaging`, `contrib` | none | none | no behaviour to model |

How they interact. A board is one process. Its handlers run concurrently on
tokio and share the store behind one `Mutex`, the limiter behind another and
the roster behind an `RwLock`. A post takes the store's Mutex twice, once to
write the uploaded image and once to create the message and sweep, and awaits
in between. A delete takes it once. Serving an image takes it to look the image
up and reads the file without it. Everything on disk is written by that one
process; it is never shut down in order, so a crash can fall between any two
file operations. A list takes the roster for reading and then, holding it, the
store; a task of its own asks the daemon for the roster every minute and takes
the lock for writing. The page in a browser polls the list every few seconds and
after each post and delete, without waiting for the refresh before. The commands (`install` and the rest) are processes of their
own that move the files of boards and start and stop them.

What is hard here:

- a log whose lines are written in two calls and repaired by nobody;
- memory and disk that part when an append or rewrite fails, which is only logged;
- a sweep that removes files first and says so in the log later;
- the gap between a post's two holds of the Mutex, and the unlocked read;
- times of files standing in for times of posts;
- a lock taken with another in hand, clients that leave the queues, and a daemon
  that may never answer;
- answers that overtake each other, and a composer that is used during a send;
- migration of a directory in three renames beside processes that use it;
- several processes that want one address, and a probe that cannot tell them apart;
- retry loops without an end.

## Modules

- `Messages.tla`: a message and what a delete and a sweep make of it.
- `Board.tla`: the store and the handlers, request by request (the core).
- `MCBoard.tla`: instances of it for TLC.
- `BoardProofs.tla`: its invariants proved.
- `QuotaProofs.tla`: what the sweep counts and leaves, and when images keep their
  files, proved.
- `AbstractBoard.tla`: what those who read a board may rely on.
- `BoardRefinement.tla`: `Board` proved to implement it.
- `Locks.tla`, `MCLocks.tla`, `LocksProofs.tla`: the three locks of a board
  process and everything that takes them.
- `Client.tla`, `MCClient.tla`, `ClientProofs.tla`: the page in one browser.
- `RateLimit.tla`, `MCRateLimit.tla`, `RateLimitProofs.tla`: the limiter.
- `Boards.tla`, `MCBoards.tla`, `BoardsProofs.tla`: the boards of a node, their
  processes, the commands and the migration.
- `AbstractBoards.tla`: what those who read the boards of a node may rely on.
- `BoardsRefinement.tla`: `Boards` proved to implement it.

Operators whose comment starts with `bug:` are no part of the models. Each is
an operator next to it as a plausible mistake would have it, and is used only to
show that a property notices the mistake.

### Board

A request is a slot with a program counter `pc[r]` and an argument `arg[r]`;
`lock` is the holder of the store's Mutex. Actions are the stretches of a
handler between two points at which anything else can be seen: an `await`, a
file operation that can fail or be cut short, the end of the handler.

| code | actions |
| --- | --- |
| `post_message`, first half | `PostArrive`, `PostReject`, then `StoreDedup`, or `StoreBegin` and `StoreWrite`, or `StoreFail` |
| `Store::post` | `PostLock`, then `AppendJson` and `AppendNewline`, or `AppendFail` |
| `enforce_quota` | `SweepStat` per directory entry, `SweepJudge`, `SweepRemove` per file, `SweepMark`, `Persist`; `SweepListFail`, `SweepRemoveFail`, `PersistFail` |
| `delete_message` | `DeleteLock`, `Persist` or `PersistFail` |
| `serve_attachment` | `ServeLookup`, `ServeRead` |
| axum, systemd, the host | `Cancel`, `Kill`, `Restart`, `LoadRefused`, `Tick` |

The log is not a string. `log.rows` are the messages on lines that parse,
`log.last` the one whose line still lacks its newline, `log.ragged` whether the
file ends inside a line, `log.utf8` whether it can be read as a string at all.
That is what the code's treatment of it depends on: an append to a ragged file
completes a line that does not parse, whatever row it would have been.

An image is its content, and so its hash. `files[i]` counts the bytes that are
in its file, which tells an absent file from part of one and from all of it.
The order of equal sizes in the sort and of directory entries is arbitrary.

The constant `Faults` says what may go wrong: `kill` (the process ends at any
step), `cut` (a write to the log ends within a line), `append`, `write`,
`remove`, `rewrite`, `list` (that operation fails). `Straddle` says whether the
clock may advance while a request is in flight; without it a violation cannot
be put down to a slow request.

Left out: addresses, names and content types; loss of power (what was written
is there after a kill) and the temporary file of a rewrite, whose rename is one
step; which of the errors a client is told.

### AbstractBoard

Three variables and no machinery: `board`, the messages a reader is shown,
`safe`, those that no stop of the board takes back, and `health`. A step is a
`Post` of one message above all identifiers there are, a `Delete`, `Evictions` of
some images from all messages that show them, `Settle` (more becomes safe) or
`Fallback`: the board stops, and comes back with forms of its messages that they
had before, and with no less than what is safe.

That is a sound board. `Store::load` refuses a log that is not UTF-8 as a whole,
and a write that is cut within a character makes one. So a board may be
spoiled (`Spoil`): it goes on, with nothing safe, until a rewrite of the log makes
it sound again (`Mend`), or it stops first and shows nothing for ever (`Refuse`).
`MaySpoil` says whether writes are cut at all; without it a board is always sound.
`Board` implements it with

    board  <- Shown    (memory; of a board that is down, what its next start would
                        show: the rows of its log, or nothing if load refuses it)
    safe   <- Safe     (the rows whose line is complete, of a log that load accepts)
    health <- Health   (is the log UTF-8; if not, is the board still up)

so the log, the requests, the Mutex and every failure are hidden, and what is
left is the promise: an identifier is not given twice to what is shown, a delete
never loses its tombstone to anything but a fallback, an image goes from all
messages at once, a restart shows nothing that was not there, and what was safe is
lost in no other way than by a cut within a character.

### Locks

Where `Board` has one lock and looks inside it, `Locks` has all three and looks
only at who waits for whom. A task is at a label; `Waiting` and `Holding` say for
each lock at which labels it is waited for and held. `queue[k]` are the tasks
that wait for lock `k`, in order: tokio's locks are fair, and a reader queues
behind a writer that waits.

| code | actions |
| --- | --- |
| `list_messages` | `List`: roster, then store, both held |
| `post_message` | `PostCheck` (limiter), `PostBody`, `PostStore` (store, twice), `PostAnswer` (roster) |
| `delete_message`, `serve_attachment` | `Delete`; `Serve` (store twice, then the file) |
| the refresh task of `run` | `Wake`, `Snapshot` or `SnapshotFail`, `RefreshLock`, `Refresh` |
| axum, the daemon | `Arrive`, `Cancel` (at any await, leaving the queue), `Change` |

The roster is one value of `Versions`; what the store holds is left out.

### Client

One browser and the server, which is a set of messages here. A send is a number
`p`; `post[p]` is what the page knows of it and `served[p]` what became of it,
so that a connection may break before the post arrives, or after it was stored.
`poll` are the refreshes in flight, answered or not, in any order.

| code | actions |
| --- | --- |
| composer | `Edit` (typing, `setAttach`, `clearAttach`, `refreshSend`) |
| `send` | `Click`, `Press` (the Enter key); `Settle`, `Break` |
| `refresh`, `setInterval` | `Poll`, `Render`, `Miss` |
| `doDelete` | `AskDelete`, `TakeDelete`, `LoseDelete` |
| the server | `Take`, `List`, `Other` (somebody else posts) |

`hasty` is history: the composer was touched while a send was in flight, by
typing or by Enter. Both do harm in the code: the answer empties the composer of
whatever is in it, and the key posts what the disabled button would not. The
properties about the composer are about users who do neither.

Left out: a reload of the page, a server that falls back at a restart (see
`AbstractBoard`), menus, the lightbox, wording and layout.

### RateLimit

One bucket per peer. Time and tokens are counted in units that make the code's
constants whole: with seconds and half tokens, capacity 30, refill 1, cost 2.
`OpenWindow` is history only: it lets any moment be the start of the window in
which grants are counted. The rounding of `f64` is left out.

### Boards

Everything belongs to a key: a network, or `Empty`, which in the code too is
the empty string and means the board of the version before, whose data are in
the base directory. `msgs`, `attach` and `state` are the log, the attachments
directory and `board.json` of each key; `proc[k]` is its process; `cmd[c]` a
command in progress. `proc[k].mem` is the store the process loaded: its paths
stay fixed when files are moved under it.

| code | actions |
| --- | --- |
| `run` | `Boot`, `Resolve`, `Bind`; `Post` and `Delete` once it serves; `Crash` |
| `install` | `Install`, `Migrate`, `MoveMsgs`, `MoveAttach`, `MoveState`, `SaveState`, `WriteEnv`, `RestartUnit`, `Probe` |
| `uninstall_cli`, `restart_all` | `Uninstall`, then `Stop` and `Unregister` per board; `RestartAll`, `RestartOne` |
| daemon, operator | `Join`, `Interrupt` |

A unit that is restarted comes back only if its env file is there
(`Restarted`): the template has an `EnvironmentFile`.

`Careful` is a discipline of the operator's: the legacy unit is uninstalled
before a board is installed. The code does not ask for it. `Faults`: `rename`
(a rename of the migration fails, which is ignored), `kill` (a command is
interrupted), `systemctl` (it fails, which is a warning). `Pins` is what the
legacy `board.json` holds: a network, the empty string, or no file.

Left out: the port (all boards have the default one), networks that are left,
a change of the mesh address, names that differ only in case, name tokens that
collide. A post or a delete is one step, and a log is one that load accepts and
whose lines are whole: appends that fail or are cut are in `Board`.

### AbstractBoards

`posted` is every message there ever was, `shown` what the boards at the address
of each network show: nothing, or all that was posted on that network. A step is
a `Start` or a `Stop` of a board or a `Post` on it. `Boards` implements it with

    shown <- Shown    (per network, the memories of the processes that listen there)

so units, env files, commands, directories, pins and the migration are hidden.
What is left says at once that a reader misses nothing, sees nothing of another
network, and never two boards that differ; it holds of the legacy board too, which
`KeepsMessages` does not speak of.

## Runs

| run | asks | instance |
| --- | --- | --- |
| `torn` | do ids, log and memory stay consistent when anything fails at any point, and do readers see an `AbstractBoard`? | 1 slot, 1 image, 3 posts, 2 kills, all faults |
| `sweep` | is eviction necessary, counted right, and marked on every message? | 1 slot, 3 images of sizes 1, 2, 2, quota 3, grace 1, 3 posts |
| `calm` | when nothing fails: is the log memory, are files whole, is the quota kept, is every request answered? | 2 slots, 2 images, quota 1, grace 1, fairness |
| `locks` | can all wait for one another? is every request answered, with a silent daemon and steady readers? do labels follow? | 2 requests of any kind, the refresh task, 2 rosters, fairness |
| `client` | is anything entered lost or doubled? when does the feed go back, and does it recover? does a delete hit what was seen? | 1 item, 2 sends, 2 refreshes and 1 delete in flight, 2 messages, fairness |
| `limiter` | is a peer bounded, and never starved? | 2 peers, capacity 5, refill 1, cost 2, clock to 6, 1 restart |
| `upgrade` | do pinned legacy data stay out of other networks, whatever happens? | 2 networks, 2 commands at a time, 1 post, 1 crash, all faults, any pin |
| `careful` | with the legacy unit gone first: networks apart, every message shown? do readers see an `AbstractBoards`? | 2 networks, 4 commands, 3 posts, 1 crash, interrupted commands |
| `orderly` | and with nothing interrupted: do images follow, and do boards come to serve? | 2 networks, 3 commands, 2 posts, 1 crash, fairness |

The bounds are named in the modules (`MaxPosts`, `MaxClock`, `MaxKills`,
`MaxCrashes`, `MaxStarts`, `MaxRestarts`, `MaxPolls`, `MaxDels`, `MaxMessages`) and guard only the actions that would
count on for ever. They are enough for the cases that matter: three posts let a
row be lost, its identifier be given again and a third be appended; two kills
let a board be damaged by what an earlier one left behind; three images with
two of one size let a sweep have a choice, stop early and find a file within
its grace; two requests are every pair of handlers. In `limiter` the clock runs
past the time a burst takes to refill, and capacity 5 is not a multiple of cost
2. In the runs of `Boards` two networks are what it takes for data to
go to the wrong one, and four commands are an uninstall, an install that is
interrupted, its repetition and one of the other network. In `locks` the worst
that can happen takes one list, one post and the refresh task: the list holds
the roster and wants the store, the post had the store and wants the roster, and
the writer is between them. `client` has the pairs that matter: two sends, two
refreshes that overtake each other, a delete and a feed that is out of date. Its
safety properties are proved for any numbers.

`torn` and `sweep` have one request at a time. That other requests change
nothing is proved, for any number of them, except for `RefsBacked`: that one
does need it, as `v_gap` shows and `OnlyTheGapLosesRefs` explains.

Three runs show the code doing other than its documentation says. Each checks
the statement of a comment and TLC finds it violated.

| run | statement | what happens |
| --- | --- | --- |
| `v_torn` | `MirroredToDisk`: memory is mirrored to disk on each mutation | a kill between a row and its newline; the next post, written and answered, is appended to that line and neither is ever loaded again |
| `v_gap` | `RefsBacked`: what loses its file is marked | another post's sweep removes an image between its upload and its post |
| `v_leak` | `NoForeignRows`: boards are isolated, data pinned to another network stay untouched | the legacy board outlives its migration and makes a log without a pin, which the install of another network takes |

`v_gap` needs no fault and no clock that moves during a request.

Three more the model shows without a run of their own. A kill or a full disk may
cut an append within a character; `LoadRefused` then refuses the log whole at
every start, and readers get nothing, though `store.rs:81-83` says that one
corrupt line should not take the board down. In `torn` that is the `Refuse` of
`AbstractBoard`: without that action `Implements` fails there. The legacy board,
if it was not uninstalled, answers the probe of an install (`Reachable`), which
then reports "installed and serving" (`service.rs:161`) while the unit it
installed waits to bind: neither "wait for the board to come up"
(`service.rs:110-113`) nor the message is true of that board. And an image that
is posted again keeps the modification time of its first upload (`StoreDedup`
leaves `mtime` alone), so the sweep of that very post may take it, though
`config.rs:41-43` has a fresh post exempt.

Others can be had by changing a constant of a passing run, and say what the run
depends on. With `kill` added to the faults of `calm`, `AttachmentsWhole`
fails: part of an image is left under its full name, and later uploads take it
for the whole. With `Careful = FALSE` in `careful`, `KeepsMessages` fails: what
the legacy board is given after its data moved stays behind.

### Fairness

`Board`: weak fairness of `Proceed(r)`, as the runtime polls every handler that
can go on and the file operations return; strong fairness of the two actions
that take the Mutex, as tokio's Mutex is handed over in the order in which it
was asked for; weak fairness of `Restart`, as the unit has `Restart=on-failure`.
Nothing makes a request arrive or the clock advance.

`Locks`: weak fairness of a request's `Work` and of the refresh task's own steps.
That the locks are fair is no assumption here but the queues of the model, so
weak fairness is enough. The body of a post and the daemon's answer are not fair,
as neither has a timeout; `Answered` therefore ends at the wait for the body, and
`LabelsFollow` has the daemon's answers as its premise.

`Client`: weak fairness of `Poll` (`setInterval`), of the server's answer to a
refresh and of its rendering. `Miss` may take any refresh for as long as the
connection is bad; `FeedFollows` has as its premise that this ends.

`Boards`: weak fairness of every board process (`run` loops until it has its
network and its address) and of every command that was started. `Interrupt`,
`Crash` and the starting of commands are not fair, and the last two are bounded:
a board that is restarted for ever need never serve.

## Proofs

All are for every value of the constants that satisfies the named assumptions:
any number of requests and images, any sizes, limits and faults.

| theorem | says |
| --- | --- |
| `TypeCorrect` | `[]TypeOK` |
| `IdsStayFresh` | `[]IdsFresh`: identifiers are unique, and the next one is above them |
| `LogStaysBehind` | `[]LogBehindMemory`: a row of the log is a message in memory or an older form of one |
| `RowsAreNotLost` | `NoLostRow`: no step drops or reverts a complete row of the log |
| `EvictionIsNeeded` | `[]NoNeedlessEviction` |
| `MirrorHolds` | `[]MirroredToDisk`, provided that none of the faults that hit the log occur |
| `AttachmentsStayWhole` | `[]AttachmentsWhole`, provided that no write fails and nothing is killed |
| `SweepCountsRight` | `[]SweepAccurate` |
| `SweepEndsWithinQuota` | `[]WithinQuotaOrFresh`, provided that no removal fails |
| `OnlyTheGapLosesRefs` | `[]RefsBacked` of any number of requests, if nothing is killed and no sweep falls into a gap (`[][NoGap]`) |
| `OneRequestBacksRefs` | `[]RefsBacked` of one request at a time, if nothing is killed |
| `BoardImplementsAbstract` | `Implements`: `Board` implements `AbstractBoard`, with every fault, the cut within a character that has a board refused included |
| `RateLimitProofs`: `TypeCorrect`, `RateIsBounded`, `NobodyIsStarved` | `[]TypeOK` (a bucket holds no less than nothing and no more than a burst), `[]RateBound`, `[]NotStarved` |
| `LocksProofs`: `TypeCorrect`, `DeadlockFree`, `ViewIsStable` | `[]TypeOK`, `[]NoDeadlock`, `OneView` |
| `ClientProofs`: `TypeCorrect`, `NothingIsLost`, `NothingIsDoubled`, `FeedIsMonotone`, `SeenIsDeleted` | `[]TypeOK`, `[]NothingLost`, `[]NoDouble`, `FeedGoesOn`, `DeletesWhatWasSeen` |
| `BoardsProofs`: `TypeCorrect`, `PinnedStaysOut` | `[]TypeOK`, `PinnedUntouched` |
| `BoardsStayApart`, `MessagesAreKept` | `[]NoForeignRows`, `[]KeepsMessages`, for an `Orderly` operator |
| `ImagesAreKept` | `[]ImagesFollow`, for an `Orderly` one who does not interrupt commands |
| `BoardsImplementAbstract` | `Implements`: `Boards` implements `AbstractBoards`, for an `Orderly` one |

The first seven rows are of `BoardProofs`, the four after them of `QuotaProofs`, and the
last four rows of `BoardsProofs` and `BoardsRefinement`.

`IInv`, the inductive invariant of `BoardProofs`, has four parts. `TypeOK`.
`LockInv`: a slot is at a counter in `Locked` exactly when it holds the Mutex;
without it two requests could be appending at once. `DownIdle`: while the
process is down nothing is in flight. `Data` joins to `IdsFresh` and
`LogBehindMemory` three facts that they need to be inductive:

- `GhostShape`: a deleted message shows no image. The sweep takes references
  to files away, and must not make of a ghost something that is neither the
  message nor its ghost.
- `Unwritten`: while a request is about to append, every row of the log has an
  identifier below the one it was given, `nextId - 1`. So the append cannot put
  an identifier into the log twice.
- `Bounded`: some number is above every identifier in the log, also while no
  process holds a `next_id`. `NextIdAfter` chooses a maximum, and not every set
  of naturals has one; with a bound, the library's theorem on well-founded
  orders gives a least bound, which is the maximum.

`RowsAreNotLost` follows from `IInv` on each step: a rewrite puts into the log
what memory holds, and `LogBehindMemory` says that every row has descended to
something there.

`EvictionIsNeeded` rests on `SweepInv`: `IInv`; `GoneInv`, that a sweep has
removed something only while it is sweeping or rewriting the log after it; and
`LargestFirst`, that what the loop has still to try is no larger than anything
it removed. The loop removes a file only when it is over the quota, so putting
that one back is too much, and then so is putting back any earlier, larger one.

`MirrorHolds` and `AttachmentsStayWhole` hold of a board on which certain things
do not fail: nothing of `LogFaults` (a kill, an append cut short or refused, a
failed rewrite) and neither a kill nor a failed write of a file. `MirrorInv`
says how far the log is behind memory at each counter: by the message that is
being appended, by whatever a rewrite under way is about to put there, and
otherwise not at all.

`QuotaProofs` is about sums of sizes without a sum: the bytes on disk are counted
as a set of pairs, a file and a place in it, so that a file that is removed takes
its pairs away and cardinality does the adding (`FileAdded`, `FileRemoved`). A sum
over a set of files would need induction over the set, which the provers lack.
`CountInv` says that while the directory is listed the total is what was listed
so far, and afterwards what is on disk: the store's Mutex is held from the listing to
the end of the sweep, so nobody writes a file in between. `FreshLeft` says that the
loop has looked at every file there is that is past its grace, unless a removal
failed.

For `RefsBacked`, `Backed` says that a message that shows an image has its file or
the sweep at work has it in hand to mark, and `Held` that an image that was stored
for a post is still there. Only another request's sweep breaks `Held`, which is
what `NoGap` excludes; one request at a time leaves no room for it, and `v_gap`
shows that two do. A kill between a removal and its mark breaks `Backed`: the log
still shows what is gone.

`RateIsBounded` needs `Budget`: what a peer was granted together with what it
has left is at most a burst and the refill of the window. `NobodyIsStarved`
needs `Accrued`: what a peer has left is at least what was refilled since its
last grant, up to the capacity.

`BoardImplementsAbstract` takes two facts more: an image that is being stored was
accepted (`Vetted`), and a row without its newline is the end of the file
(`LastLine`), so that completing a ragged line loses only what was not safe. A
kill is a `Fallback` if the log is still UTF-8: that what a board would load is no
newer than what it showed is `LogBehindMemory`. If it is not, the kill is a
`Refuse`, a cut append that makes it so a `Spoil`, and a rewrite then a `Mend`. A
refused board has no step left but the starts that fail. Everything else is the step
of its name, or shows nothing.

`LocksProofs`: the type invariant says of each queue that it holds the tasks that
wait for its lock, each once, and is inductive by itself; that a cancelled waiter
leaves its queue is what it needs most. `DeadlockFree` follows from the order of
the locks: who holds the store waits for nothing, and who holds the roster waits
for the store at most.

`ClientProofs`: `DataInv` has identifiers unique on the board, every list in
flight and the feed made of messages the board has or had, and a list in flight
that nothing overtook no older than the feed. `ComposerInv` follows an item from
the composer through its send to the board. That the button is disabled while
something is in flight is part of it only for users who are not `hasty`.

`BoardsProofs` has three stages. `IInv`, for any operator and any faults: rows
are numbered in the order of their posts (`Numbered`), a board that the legacy pin
excludes shares no row with the legacy board (`Separate`), and a command about to
move legacy data has the right to (`Claimed`). From it `PinnedUntouched` follows. `Disciplined` is an operator who removes the legacy
unit before installing, runs one command at a time and whose systemctl works;
then `Gone` says that the legacy board does not run once it is unregistered. Without
that discipline it may answer the probe of an install for another. `Orderly` adds legacy
data with a pin and renames that do not fail, while commands may still be
interrupted and boards crash at any point. Then `Sorted` tells for each directory
of which network its rows are, `Fresh` and `Waiting` that the network of legacy
data has no log of its own until they are moved, and `Kept` that each row is in
one of the two. These are the assumptions under which run `careful`
checks the same properties; that they cannot be dropped is what `v_leak` and the
variants above show.

`ImagesAreKept` follows the attachments. `Unbegun` says that the network legacy data
wait for has no attachments directory yet, so that their rename is not passed over;
`Landing` describes the one moment at which the log has moved and the images have
not; `ImageInv` says that at all others every row in a log or a memory has its image
beside it. A command that is interrupted in that moment leaves the images behind for
good, and with `kill` in the faults of `orderly` TLC shows it. The theorem assumes of
the model value `NoDir` that it is no set of rows, which TLC cannot evaluate and
which is therefore no assumption of the module.

`BoardsImplementAbstract`: from the same invariants, a process that has loaded its log
shows its network (`ShowsAll`) and one process listens at an address (`OneListens`),
so `Shown` is known when it is known which networks have a board (`Answers`). A step
is one of a single process; if that begins or ceases to serve it is a `Start` or a
`Stop`, and everything else but a post shows nothing. Commands may be interrupted and
boards crash at any point.

Every safety property that a passing run checks is a theorem, under the assumptions named
above. Model-checked only are those of liveness under fairness, which the provers
do not reach: `Answered` of both modules, `LabelsFollow`, `FeedFollows` and
`EventuallyServes`.

## Not modelled

- A mesh address that changes between the first snapshot and the bind
  (`main.rs:220`): the board would wait for the old one for ever.
- The environment knobs (`config.rs:59`) and the token of a network's name
  (`config.rs:95`): pure functions of strings and numbers. `Boards` takes
  tokens to be distinct, which a 32-bit hash does not guarantee.
- A command interrupted within its write of an env file (`service.rs:123`).
- A file that is read while it is uploaded again after an eviction
  (`api.rs:252`): it takes a reader and two posts in a row, and the code
  promises nothing of it.
- Ports other than the default, macOS's launchd apart from the steps it shares
  with systemd, labels, content types and presentation.

## Plan

1. Done: `Board` with its proofs, `AbstractBoard` and the refinement, `RateLimit`,
   `Locks`, `Client` and `Boards`, each with its proofs.
2. Done: the quota and the references of `Board` proved (`QuotaProofs`), the images of
   `Boards`, and the refinement of `AbstractBoards`.
3. A mesh address that changes, in `Boards`.
4. The page against a server that falls back: `Client` over `AbstractBoard`
   instead of a set of messages.
