------------------------------- MODULE Boards -------------------------------
(***************************************************************************)
(* The boards of one node: the service processes from their start to the   *)
(* listening socket (src/src/main.rs), the commands that install, remove   *)
(* and restart them (src/src/service.rs), and the migration of a board of  *)
(* the version before, one unit for the whole node, into the directory of  *)
(* its network (src/src/config.rs).                                        *)
(*                                                                         *)
(* Everything belongs to a key: the name of a network, or Empty, the empty *)
(* string, for the legacy board, whose data are in the base directory.     *)
(* Every board has the default port, so one listens per mesh address.  How *)
(* a board serves its requests is Board.tla; a message is here a row that  *)
(* knows by which network it came.                                         *)
(***************************************************************************)
EXTENDS Integers, FiniteSets

CONSTANTS
    Networks,   \* names of tetron networks
    Empty,      \* the empty string: no network pinned, the key of the legacy board
    NoState,    \* no board.json
    Torn,       \* a board.json that does not parse
    NoDir,      \* no attachments directory
    Cmds,       \* slots for the commands running at the same time
    Pins,       \* what the legacy board.json may hold at first
    Careful,    \* does the operator remove the legacy unit before an install?
    Faults,     \* what may fail
    MaxPosts,   \* bound: messages
    MaxStarts,  \* bound: commands started
    MaxCrashes  \* bound: crashes of board processes

ASSUME NameAssumption ==
    /\ Empty \notin Networks
    /\ {NoState, Torn} \cap (Networks \cup {Empty}) = {}
    /\ Pins \subseteq Networks \cup {Empty, NoState}
ASSUME FaultAssumption ==
    /\ Faults \subseteq {"rename", "kill", "systemctl"}
    /\ Careful \in BOOLEAN
ASSUME BoundAssumption == MaxPosts \in Nat /\ MaxStarts \in Nat /\ MaxCrashes \in Nat

VARIABLES
    msgs,       \* messages.ndjson of each key's directory; empty means no file
    attach,     \* its attachments directory: the rows whose images are there
    state,      \* its board.json: the network it names
    env,        \* networks with an env file, the registry of boards
    legacyUnit, \* is the legacy unit installed?
    proc,       \* the board process of each key
    cmd,        \* the commands
    joined,     \* networks the daemon belongs to
    posted,     \* history: every row a client got a 201 for
    starts,     \* commands started
    crashes

dirs  == <<msgs, attach, state>>
units == <<env, legacyUnit>>
vars  == <<dirs, units, proc, cmd, joined, posted, starts, crashes>>

-----------------------------------------------------------------------------
Keys == Networks \cup {Empty}
Row  == [net : Networks, no : Nat, img : BOOLEAN]

\* A process that is not running, and one that was just started.
Off      == [pc |-> "off", net |-> Empty, mem |-> {}]
Starting == [Off EXCEPT !.pc = "starting"]
ProcType == [pc : {"off", "starting", "waiting", "binding", "serving"},
             net : Keys, mem : SUBSET Row]

\* `up` is the state of a command that reported a running board.
Ended == {"idle", "up"}
Stages == Ended \cup {"migrate", "msgs", "attach", "state", "save", "env", "restart",
                      "probe", "removing", "unregister", "restarting"}
CmdType == [at : Stages, net : Keys, todo : SUBSET Keys]
At(c, stage) == cmd[c].at = stage
Advance(c, stage) == cmd' = [cmd EXCEPT ![c].at = stage]

\* Without a pinned network there must be exactly one.
SelectedSole(w) ==                 \* bug: wants exactly one network, pinned or not
    IF Cardinality(joined) # 1 THEN {} ELSE IF w = Empty THEN joined ELSE {w} \cap joined
Selected(w) ==
    IF w # Empty THEN {w} \cap joined ELSE IF Cardinality(joined) = 1 THEN joined ELSE {}

\* The network a board.json names; none counts as the default.
NamedRaw(s) == s                   \* bug: no default where there is no file
Named(s) == IF s \in Networks THEN s ELSE Empty

\* The boards that list, restart-all and uninstall see.
Instances == env \cup (IF legacyUnit THEN {Empty} ELSE {})

TypeOK ==
    /\ msgs \in [Keys -> SUBSET Row]
    /\ attach \in [Keys -> (SUBSET Row) \cup {NoDir}]
    /\ state \in [Keys -> Keys \cup {NoState, Torn}]
    /\ env \subseteq Networks /\ legacyUnit \in BOOLEAN
    /\ proc \in [Keys -> ProcType]
    /\ cmd \in [Cmds -> CmdType]
    /\ joined \subseteq Networks
    /\ posted \subseteq Row
    /\ starts \in Nat /\ crashes \in Nat

\* A node with the version before, on its one network.
Init ==
    /\ msgs = [k \in Keys |-> {}]
    /\ attach = [k \in Keys |-> NoDir]
    /\ \E s \in Pins : state = [[k \in Keys |-> NoState] EXCEPT ![Empty] = s]
    /\ env = {} /\ legacyUnit = TRUE
    /\ proc = [[k \in Keys |-> Off] EXCEPT ![Empty] = Starting]
    /\ cmd = [c \in Cmds |-> [at |-> "idle", net |-> Empty, todo |-> {}]]
    /\ \E n \in Networks : joined = {n} /\ Named(state[Empty]) \in {n, Empty}
    /\ posted = {} /\ starts = 0 /\ crashes = 0

Join(n) ==
    /\ joined' = joined \cup {n}
    /\ UNCHANGED <<dirs, units, proc, cmd, posted, starts, crashes>>

-----------------------------------------------------------------------------
(* The process of a board: run() in main.rs.                               *)

\* The install state is read once, and a board.json that does not parse ends
\* the process, over and over; a templated unit has its network from the env
\* file.
Boot(k) ==
    /\ proc[k].pc = "starting" /\ state[k] # Torn
    /\ proc' = [proc EXCEPT ![k].pc = "waiting",
                            ![k].net = IF k # Empty THEN k ELSE Named(state[k])]
    /\ UNCHANGED <<dirs, units, cmd, joined, posted, starts, crashes>>

\* The wait for the daemon and the network ends, and the store is loaded.
Resolve(k) ==
    /\ proc[k].pc = "waiting"
    /\ \E n \in Selected(proc[k].net) :
          proc' = [proc EXCEPT ![k] = [pc |-> "binding", net |-> n, mem |-> msgs[k]]]
    /\ attach' = [attach EXCEPT ![k] = IF @ = NoDir THEN {} ELSE @]
    /\ UNCHANGED <<msgs, state, units, cmd, joined, posted, starts, crashes>>

Listening(n) == {k \in Keys : proc[k].pc = "serving" /\ proc[k].net = n}

\* The bind is tried again for as long as another process has the address.
Bind(k) ==
    /\ proc[k].pc = "binding"
    /\ Listening(proc[k].net) = {}
    /\ proc' = [proc EXCEPT ![k].pc = "serving"]
    /\ UNCHANGED <<dirs, units, cmd, joined, posted, starts, crashes>>

\* Paths are fixed when a store is loaded: an append makes the file anew where
\* it is gone, an upload fails where the directory is.
Post(k) ==
    /\ proc[k].pc = "serving"
    /\ Cardinality(posted) < MaxPosts
    /\ \E img \in BOOLEAN :
          LET m == [net |-> proc[k].net, no |-> Cardinality(posted), img |-> img] IN
          /\ img => attach[k] # NoDir
          /\ proc' = [proc EXCEPT ![k].mem = @ \cup {m}]
          /\ msgs' = [msgs EXCEPT ![k] = @ \cup {m}]
          /\ attach' = [attach EXCEPT ![k] = IF img THEN @ \cup {m} ELSE @]
          /\ posted' = posted \cup {m}
    /\ UNCHANGED <<state, units, cmd, joined, starts, crashes>>

\* A delete writes the whole log out again; the ghost is still a row.
Delete(k) ==
    /\ proc[k].pc = "serving" /\ proc[k].mem # {}
    /\ msgs' = [msgs EXCEPT ![k] = proc[k].mem]
    /\ UNCHANGED <<attach, state, units, proc, cmd, joined, posted, starts, crashes>>

\* A restart stops k's process; it starts it again if the unit and the env file
\* that the unit wants are there.
Restarted(k) == IF k \in Instances THEN Starting ELSE Off

\* The process dies, and systemd starts it again.
Crash(k) ==
    /\ proc[k].pc # "off" /\ crashes < MaxCrashes
    /\ crashes' = crashes + 1
    /\ proc' = [proc EXCEPT ![k] = Restarted(k)]
    /\ UNCHANGED <<dirs, units, cmd, joined, posted, starts>>

-----------------------------------------------------------------------------
(* install: resolve the network, migrate, save, register, restart, probe.  *)

Command(c, stage, n, ks) ==
    /\ cmd[c].at \in Ended /\ starts < MaxStarts
    /\ starts' = starts + 1
    /\ cmd' = [cmd EXCEPT ![c] = [at |-> stage, net |-> n, todo |-> ks]]

Install(c) ==
    /\ Careful => ~legacyUnit
    /\ \E w \in Keys : \E n \in Selected(w) : Command(c, "migrate", n, {})
    /\ UNCHANGED <<dirs, units, proc, joined, posted, crashes>>

LegacyData == msgs[Empty] # {} \/ state[Empty] # NoState

\* Legacy data are n's if they are pinned to it, or to no network.
MayClaimUnpinned(n) == Named(state[Empty]) = Empty     \* bug: not if they are pinned
MayClaimAny(n) == TRUE                                 \* bug: whatever they are pinned to
MayClaim(n) == Named(state[Empty]) \in {Empty, n}

Migrate(c) ==
    /\ At(c, "migrate")
    /\ LET n == cmd[c].net IN
       Advance(c, IF LegacyData /\ MayClaim(n) /\ msgs[n] = {} THEN "msgs" ELSE "save")
    /\ UNCHANGED <<dirs, units, proc, joined, posted, starts, crashes>>

\* Three renames, each if its source is there (still), each failing silently.
\* The one of messages.ndjson replaces a file that has come up since.
MoveMsgs(c) ==
    LET n == cmd[c].net IN
    /\ At(c, "msgs")
    /\ \/ /\ msgs[Empty] # {}
          /\ msgs' = [msgs EXCEPT ![n] = msgs[Empty], ![Empty] = {}]
       \/ (msgs[Empty] = {} \/ "rename" \in Faults) /\ UNCHANGED msgs
    /\ Advance(c, "attach")
    /\ UNCHANGED <<attach, state, units, proc, joined, posted, starts, crashes>>

AttachMovesEarly(n) == attach[Empty] # NoDir /\ msgs[n] = {}  \* bug: asks for the wrong file
AttachMoves(n) == attach[Empty] # NoDir /\ attach[n] = NoDir

MoveAttach(c) ==
    LET n == cmd[c].net IN
    /\ At(c, "attach")
    /\ \/ /\ AttachMoves(n)
          /\ attach' = [attach EXCEPT ![n] = attach[Empty], ![Empty] = NoDir]
       \/ (~AttachMoves(n) \/ "rename" \in Faults) /\ UNCHANGED attach
    /\ Advance(c, "state")
    /\ UNCHANGED <<msgs, state, units, proc, joined, posted, starts, crashes>>

MoveState(c) ==
    LET n == cmd[c].net IN
    /\ At(c, "state")
    /\ \/ /\ state[Empty] # NoState
          /\ state' = [state EXCEPT ![n] = state[Empty], ![Empty] = NoState]
       \/ (state[Empty] = NoState \/ "rename" \in Faults) /\ UNCHANGED state
    /\ Advance(c, "save")
    /\ UNCHANGED <<msgs, attach, units, proc, joined, posted, starts, crashes>>

SaveState(c) ==
    /\ At(c, "save")
    /\ state' = [state EXCEPT ![cmd[c].net] = cmd[c].net]
    /\ Advance(c, "env")
    /\ UNCHANGED <<msgs, attach, units, proc, joined, posted, starts, crashes>>

WriteEnv(c) ==
    /\ At(c, "env")
    /\ env' = env \cup {cmd[c].net}
    /\ Advance(c, "restart")
    /\ UNCHANGED <<dirs, legacyUnit, proc, joined, posted, starts, crashes>>

\* systemctl leaves k's process as p; that it failed is only a warning.
Systemctl(k, p) ==
    \/ proc' = [proc EXCEPT ![k] = p]
    \/ "systemctl" \in Faults /\ UNCHANGED proc

RestartUnit(c) ==
    /\ At(c, "restart")
    /\ Systemctl(cmd[c].net, Restarted(cmd[c].net))
    /\ Advance(c, "probe")
    /\ UNCHANGED <<dirs, units, joined, posted, starts, crashes>>

Reachable(n) == Listening(n) # {}

\* wait_for_port connects, or gives up after ten seconds.
Probe(c) ==
    /\ At(c, "probe")
    /\ \/ Reachable(cmd[c].net) /\ Advance(c, "up")
       \/ Advance(c, "idle")
    /\ UNCHANGED <<dirs, units, proc, joined, posted, starts, crashes>>

-----------------------------------------------------------------------------
(* uninstall and restart-all, over the boards listed when they started.    *)

\* All of them, or the one a network's name finds; the legacy unit has the
\* name its board.json gives it, and a templated board is found before it.
Uninstall(c) ==
    /\ \/ \E ks \in {Instances} \cup {{n} : n \in env} :
             ks # {} /\ Command(c, "removing", Empty, ks)
       \/ /\ legacyUnit /\ Named(state[Empty]) \notin env
          /\ Command(c, "removing", Empty, {Empty})
    /\ UNCHANGED <<dirs, units, proc, joined, posted, crashes>>

\* The command is done with k, and goes on at stage with those left.
DoneWith(c, k, stage) ==
    cmd' = [cmd EXCEPT ![c].todo = @ \ {k},
                       ![c].at = IF cmd[c].todo \subseteq {k} THEN "idle" ELSE stage]

\* Stop one board, then take it off the registry; its data stay where they are.
Stop(c) ==
    /\ At(c, "removing")
    /\ \E k \in cmd[c].todo :
          /\ Systemctl(k, Off)
          /\ cmd' = [cmd EXCEPT ![c].at = "unregister", ![c].net = k]
    /\ UNCHANGED <<dirs, units, joined, posted, starts, crashes>>

Unregister(c) ==
    LET k == cmd[c].net IN
    /\ At(c, "unregister")
    /\ env' = env \ {k}
    /\ legacyUnit' = (legacyUnit /\ k # Empty)
    /\ DoneWith(c, k, "removing")
    /\ UNCHANGED <<dirs, proc, joined, posted, starts, crashes>>

RestartAll(c) ==
    /\ Instances # {} /\ Command(c, "restarting", Empty, Instances)
    /\ UNCHANGED <<dirs, units, proc, joined, posted, crashes>>

RestartOne(c) ==
    /\ At(c, "restarting")
    /\ \E k \in cmd[c].todo : Systemctl(k, Restarted(k)) /\ DoneWith(c, k, "restarting")
    /\ UNCHANGED <<dirs, units, joined, posted, starts, crashes>>

\* A command is interrupted, at worst within its write of board.json.
Interrupt(c) ==
    /\ "kill" \in Faults /\ cmd[c].at \notin Ended
    /\ \/ UNCHANGED state
       \/ At(c, "save") /\ state' = [state EXCEPT ![cmd[c].net] = Torn]
    /\ Advance(c, "idle")
    /\ UNCHANGED <<msgs, attach, units, proc, joined, posted, starts, crashes>>

-----------------------------------------------------------------------------
Serve(k) == Boot(k) \/ Resolve(k) \/ Bind(k)

Proceed(c) == \/ Migrate(c) \/ MoveMsgs(c) \/ MoveAttach(c) \/ MoveState(c) \/ SaveState(c)
              \/ WriteEnv(c) \/ RestartUnit(c) \/ Probe(c) \/ Stop(c) \/ Unregister(c)
              \/ RestartOne(c)

Next ==
    \/ \E k \in Keys : Serve(k) \/ Post(k) \/ Delete(k) \/ Crash(k)
    \/ \E c \in Cmds : \/ Install(c) \/ Uninstall(c) \/ RestartAll(c)
                       \/ Proceed(c) \/ Interrupt(c)
    \/ \E n \in Networks : Join(n)

Spec == Init /\ [][Next]_vars

\* A process runs, its retry loops go round, and a command that was started
\* goes through its steps.
Fairness ==
    /\ \A k \in Keys : WF_vars(Serve(k))
    /\ \A c \in Cmds : WF_vars(Proceed(c))

FairSpec == Spec /\ Fairness

-----------------------------------------------------------------------------
(* Properties.                                                             *)

\* A migration takes no row of legacy data that are pinned to one network into
\* the directory of another (config.rs:155-156), whatever fails or runs beside.
PinnedUntouched ==
    [][\A n \in Networks :
          Named(state[Empty]) \notin {Empty, n} => msgs'[n] \cap msgs[Empty] \subseteq msgs[n]]_vars

\* A network's directory has only what was posted on that network: one board
\* per network, none of them a merge (PLAN_tetron_messageboard_multiboard.md:176).
NoForeignRows == \A n \in Networks : \A m \in msgs[n] : m.net = n

\* The board of a network shows every message that was ever posted on that
\* network, before its migration too (main.rs:132-133).
KeepsMessages ==
    \A n \in Networks :
        proc[n].pc = "serving" => {m \in posted : m.net = n} \subseteq proc[n].mem

\* What the boards at the address of each network show.
Shown == [n \in Networks |-> {proc[k].mem : k \in Listening(n)}]
Abstract == INSTANCE AbstractBoards WITH shown <- Shown

\* Whoever reads the board of a network reads what AbstractBoards promises: all
\* that was posted on it, legacy or not, nothing of another network, and that of
\* one board at a time (main.rs:132-133, config.rs:151-177).
Implements == Abstract!Spec

\* What a migrated board shows, it has the image of.
ImagesFollow ==
    \A n \in Networks :
        proc[n].pc = "serving" => \A m \in proc[n].mem : m.img => m \in attach[n]

\* A board that is registered comes to serve, unless it is removed; networks
\* joined meanwhile do not keep it from it.
EventuallyServes ==
    \A n \in Networks : n \in env ~> proc[n].pc = "serving" \/ n \notin env
=============================================================================
