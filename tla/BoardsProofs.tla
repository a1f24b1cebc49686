---------------------------- MODULE BoardsProofs ----------------------------
(***************************************************************************)
(* Theorems about Boards for any networks, commands, pins and bounds.      *)
(*                                                                         *)
(* The first part holds of every operator and every fault.  The second is  *)
(* about a disciplined one, who removes the legacy unit before an install, *)
(* gives one command at a time, and whom systemctl obeys.                  *)
(***************************************************************************)
EXTENDS Boards, FiniteSetTheorems, TLAPS

\* The stages of an install, and those at which the log was moved.
Installing == {"migrate", "msgs", "attach", "state", "save", "env", "restart", "probe"}
Moved == Installing \ {"migrate", "msgs"}

\* An install is of a network.
NetsKnown == \A c \in Cmds : cmd[c].at \in Installing => cmd[c].net \in Networks

\* A process serves a network, a templated one its own.
OwnNet ==
    \A k \in Keys :
        /\ k # Empty /\ proc[k].pc \notin {"off", "starting"} => proc[k].net = k
        /\ proc[k].pc \in {"binding", "serving"} => proc[k].net \in Networks

\* Rows are numbered in the order of their posts, and nothing holds others.
Numbered ==
    /\ IsFiniteSet(posted)
    /\ \A m \in posted : m.no < Cardinality(posted)
    /\ \A k \in Keys : msgs[k] \subseteq posted /\ proc[k].mem \subseteq posted

\* A command that is about to move the legacy log may.
Claimed == \A c \in Cmds : At(c, "msgs") => MayClaim(cmd[c].net)

\* The board of a network that the legacy pin excludes shares no row with the
\* legacy board, in its file or in its memory.
Separate ==
    \A n \in Networks :
        Named(state[Empty]) \notin {Empty, n} =>
            (msgs[n] \cup proc[n].mem) \cap (msgs[Empty] \cup proc[Empty].mem) = {}

IInv == TypeOK /\ NetsKnown /\ OwnNet /\ Numbered /\ Claimed /\ Separate

-----------------------------------------------------------------------------
LEMMA KeyFacts == Empty \in Keys /\ Networks \subseteq Keys /\ Empty \notin Networks
BY NameAssumption DEF Keys

LEMMA NamedKey == ASSUME NEW s PROVE Named(s) \in Keys
BY KeyFacts DEF Named

LEMMA NamedNone == Named(NoState) = Empty
BY NameAssumption DEF Named

\* A network that is selected is one the daemon has joined, and the pinned one.
LEMMA SelectedJoined ==
    ASSUME TypeOK, NEW w, NEW n \in Selected(w)
    PROVE  n \in Networks /\ (w # Empty => n = w)
BY DEF Selected, TypeOK

LEMMA StageFacts ==
    /\ Installing \subseteq Stages \ (Ended \cup {"removing", "unregister", "restarting"})
    /\ Moved \subseteq Installing
BY DEF Installing, Moved, Stages, Ended

\* A started process, and one that is restarted, has read nothing.
LEMMA RestartedOff ==
    ASSUME NEW k
    PROVE  /\ Restarted(k) \in {Off, Starting}
           /\ {Off, Starting} \subseteq ProcType
           /\ Off.mem = {} /\ Starting.mem = {} /\ Off.pc = "off" /\ Starting.pc = "starting"
           /\ Off.net = Empty /\ Starting.net = Empty
BY KeyFacts DEF Restarted, Off, Starting, ProcType

LEMMA RowType ==
    ASSUME NEW n \in Networks, NEW i \in Nat, NEW b \in BOOLEAN
    PROVE  [net |-> n, no |-> i, img |-> b] \in Row
BY DEF Row

\* The row that is posted next is in no file, no memory and no answer yet.
LEMMA FreshRow ==
    ASSUME OwnNet, Numbered, NEW k \in Keys, proc[k].pc = "serving", NEW img \in BOOLEAN
    PROVE  LET m == [net |-> proc[k].net, no |-> Cardinality(posted), img |-> img]
           IN  /\ m \in Row /\ m \notin posted
               /\ IsFiniteSet(posted \cup {m})
               /\ Cardinality(posted \cup {m}) = Cardinality(posted) + 1
<1> DEFINE m == [net |-> proc[k].net, no |-> Cardinality(posted), img |-> img]
<1>1. Cardinality(posted) \in Nat
  BY FS_CardinalityType DEF Numbered
<1>2. proc[k].net \in Networks
  BY DEF OwnNet
<1>3. m \in Row
  BY <1>1, <1>2, RowType
<1>4. m \notin posted
  BY <1>1 DEF Numbered
<1>5. IsFiniteSet(posted \cup {m}) /\ Cardinality(posted \cup {m}) = Cardinality(posted) + 1
  BY <1>4, FS_AddElement DEF Numbered
<1> QED  BY <1>3, <1>4, <1>5

-----------------------------------------------------------------------------
LEMMA InitIInv == Init => IInv
<1> SUFFICES ASSUME Init PROVE IInv
  OBVIOUS
<1>1. /\ msgs = [k \in Keys |-> {}] /\ attach = [k \in Keys |-> NoDir]
      /\ env = {} /\ legacyUnit = TRUE
      /\ cmd = [c \in Cmds |-> [at |-> "idle", net |-> Empty, todo |-> {}]]
      /\ posted = {} /\ starts = 0 /\ crashes = 0 /\ joined \subseteq Networks
  BY DEF Init
<1>2. state \in [Keys -> Keys \cup {NoState, Torn}]
  BY KeyFacts, NameAssumption DEF Init, Keys
<1>3. proc \in [Keys -> ProcType] /\ \A k \in Keys : proc[k].mem = {}
  BY KeyFacts, RestartedOff DEF Init
<1>4. TypeOK
  <2>1. [at |-> "idle", net |-> Empty, todo |-> {}] \in CmdType
    BY KeyFacts DEF CmdType, Stages, Ended
  <2>2. cmd \in [Cmds -> CmdType]
    BY <1>1, <2>1
  <2> QED  BY <1>1, <1>2, <1>3, <2>2 DEF TypeOK
<1>5. Numbered
  BY <1>1, <1>3, FS_EmptySet DEF Numbered
<1>6. \A c \in Cmds : cmd[c].at \notin Installing /\ ~At(c, "msgs")
  BY <1>1 DEF Installing, At
<1>7. \A k \in Keys : proc[k].pc \in {"off", "starting"}
  BY KeyFacts, RestartedOff DEF Init
<1>8. \A k \in Keys : msgs[k] \cup proc[k].mem = {}
  BY <1>1, <1>3
<1> QED  BY <1>4, <1>5, <1>6, <1>7, <1>8, KeyFacts DEF IInv, NetsKnown, OwnNet, Claimed, Separate

LEMMA TypeStep == TypeOK /\ NetsKnown /\ OwnNet /\ Numbered /\ [Next]_vars => TypeOK'
<1> SUFFICES ASSUME TypeOK, NetsKnown, OwnNet, Numbered, [Next]_vars PROVE TypeOK'
  OBVIOUS
<1> USE DEF dirs, units
<1>1. ASSUME NEW n \in Networks, Join(n) PROVE TypeOK'
  BY <1>1 DEF Join, TypeOK
<1>2. ASSUME NEW k \in Keys, Boot(k) PROVE TypeOK'
  <2> DEFINE n == IF k # Empty THEN k ELSE Named(state[k])
  <2>1. n \in Keys
    BY NamedKey
  <2> HIDE DEF n
  <2>2. proc' \in [Keys -> ProcType]
    <3>1. proc' = [proc EXCEPT ![k].pc = "waiting", ![k].net = n]
      BY <1>2 DEF Boot, n
    <3> DEFINE p == [proc[k] EXCEPT !.pc = "waiting", !.net = n]
    <3>2. p \in ProcType
      <4>1. proc[k] \in ProcType
        BY DEF TypeOK
      <4> QED  BY <2>1, <4>1 DEF ProcType
    <3>3. proc' = [proc EXCEPT ![k] = p]
      BY <3>1 DEF TypeOK
    <3> QED  BY <3>2, <3>3 DEF TypeOK
  <2>3. UNCHANGED <<msgs, attach, state, env, legacyUnit, cmd, joined, posted, starts, crashes>>
    BY <1>2 DEF Boot
  <2> QED  BY <2>2, <2>3 DEF TypeOK
<1>3. ASSUME NEW k \in Keys, Resolve(k) PROVE TypeOK'
  <2>1. PICK n \in Selected(proc[k].net) :
            proc' = [proc EXCEPT ![k] = [pc |-> "binding", net |-> n, mem |-> msgs[k]]]
    BY <1>3 DEF Resolve
  <2>2. n \in Keys
    BY <2>1, SelectedJoined, KeyFacts
  <2>3. [pc |-> "binding", net |-> n, mem |-> msgs[k]] \in ProcType
    BY <2>2 DEF ProcType, TypeOK
  <2>4. proc' \in [Keys -> ProcType]
    BY <2>1, <2>3 DEF TypeOK
  <2>5. attach' \in [Keys -> (SUBSET Row) \cup {NoDir}]
    BY <1>3 DEF Resolve, TypeOK
  <2> QED  BY <1>3, <2>4, <2>5 DEF Resolve, TypeOK
<1>4. ASSUME NEW k \in Keys, Bind(k) PROVE TypeOK'
  <2>1. proc' \in [Keys -> ProcType]
    BY <1>4 DEF Bind, TypeOK, ProcType
  <2> QED  BY <1>4, <2>1 DEF Bind, TypeOK
<1>5. ASSUME NEW k \in Keys, Post(k) PROVE TypeOK'
  <2>1. PICK img \in BOOLEAN :
            LET m == [net |-> proc[k].net, no |-> Cardinality(posted), img |-> img] IN
            /\ img => attach[k] # NoDir
            /\ proc' = [proc EXCEPT ![k].mem = @ \cup {m}]
            /\ msgs' = [msgs EXCEPT ![k] = @ \cup {m}]
            /\ attach' = [attach EXCEPT ![k] = IF img THEN @ \cup {m} ELSE @]
            /\ posted' = posted \cup {m}
    BY <1>5 DEF Post
  <2> DEFINE m == [net |-> proc[k].net, no |-> Cardinality(posted), img |-> img]
  <2>2. m \in Row
    BY <1>5, FreshRow DEF Post
  <2> HIDE DEF m
  <2>3. /\ img => attach[k] # NoDir
        /\ proc' = [proc EXCEPT ![k].mem = @ \cup {m}]
        /\ msgs' = [msgs EXCEPT ![k] = @ \cup {m}]
        /\ attach' = [attach EXCEPT ![k] = IF img THEN @ \cup {m} ELSE @]
        /\ posted' = posted \cup {m}
    BY <2>1 DEF m
  <2>4. proc' \in [Keys -> ProcType]
    BY <2>2, <2>3 DEF TypeOK, ProcType
  <2>5. attach' \in [Keys -> (SUBSET Row) \cup {NoDir}]
    BY <2>2, <2>3 DEF TypeOK
  <2>6. msgs' \in [Keys -> SUBSET Row] /\ posted' \subseteq Row
    BY <2>2, <2>3 DEF TypeOK
  <2> QED  BY <1>5, <2>4, <2>5, <2>6 DEF Post, TypeOK
<1>6. ASSUME NEW k \in Keys, Delete(k) PROVE TypeOK'
  <2>1. proc[k].mem \subseteq Row
    BY DEF TypeOK, ProcType
  <2> QED  BY <1>6, <2>1 DEF Delete, TypeOK
<1>7. ASSUME NEW k \in Keys, Crash(k) PROVE TypeOK'
  <2>1. proc' \in [Keys -> ProcType] /\ crashes' \in Nat
    BY <1>7, RestartedOff DEF Crash, TypeOK
  <2> QED  BY <1>7, <2>1 DEF Crash, TypeOK
<1>8. ASSUME NEW c \in Cmds, NEW stage \in Stages, NEW n \in Keys, NEW ks \in SUBSET Keys,
             Command(c, stage, n, ks), UNCHANGED <<dirs, units, proc, joined, posted, crashes>>
      PROVE  TypeOK'
  <2>1. cmd' \in [Cmds -> CmdType] /\ starts' \in Nat
    BY <1>8 DEF Command, TypeOK, CmdType
  <2> QED  BY <1>8, <2>1 DEF TypeOK
<1>9. Instances \in SUBSET Keys
  BY KeyFacts DEF Instances, TypeOK
<1>10. ASSUME NEW c \in Cmds, Install(c) \/ Uninstall(c) \/ RestartAll(c) PROVE TypeOK'
  <2>1. CASE Install(c)
    <3>1. PICK w \in Keys : \E n \in Selected(w) : Command(c, "migrate", n, {})
      BY <2>1 DEF Install
    <3>2. PICK n \in Selected(w) : Command(c, "migrate", n, {})
      BY <3>1
    <3>3. n \in Keys /\ "migrate" \in Stages /\ {} \in SUBSET Keys
      BY <3>2, SelectedJoined, KeyFacts DEF Stages
    <3> QED  BY <1>8, <2>1, <3>2, <3>3 DEF Install
  <2>2. CASE Uninstall(c)
    <3>1. PICK ks \in SUBSET Keys : Command(c, "removing", Empty, ks)
      BY <1>9, <2>2, KeyFacts DEF Uninstall, TypeOK
    <3> QED  BY <1>8, <2>2, <3>1, KeyFacts DEF Uninstall, Stages
  <2>3. CASE RestartAll(c)
    BY <1>8, <1>9, <2>3, KeyFacts DEF RestartAll, Stages
  <2> QED  BY <1>10, <2>1, <2>2, <2>3
<1>11. ASSUME NEW c \in Cmds, NEW stage \in Stages, Advance(c, stage) PROVE cmd' \in [Cmds -> CmdType]
  BY <1>11 DEF Advance, TypeOK, CmdType
<1>12. ASSUME NEW c \in Cmds, cmd[c].at \in Installing PROVE cmd[c].net \in Networks /\ cmd[c].net \in Keys
  BY <1>12, KeyFacts DEF NetsKnown
<1>13. ASSUME NEW c \in Cmds, Migrate(c) PROVE TypeOK'
  <2>1. cmd' \in [Cmds -> CmdType]
    BY <1>11, <1>13 DEF Migrate, Stages
  <2> QED  BY <1>13, <2>1 DEF Migrate, TypeOK
<1>14. ASSUME NEW c \in Cmds, MoveMsgs(c) PROVE TypeOK'
  <2>1. cmd' \in [Cmds -> CmdType] /\ cmd[c].net \in Keys
    BY <1>11, <1>12, <1>14 DEF MoveMsgs, Stages, Installing, At
  <2>2. msgs' \in [Keys -> SUBSET Row]
    BY <1>14, <2>1, KeyFacts DEF MoveMsgs, TypeOK
  <2> QED  BY <1>14, <2>1, <2>2 DEF MoveMsgs, TypeOK
<1>15. ASSUME NEW c \in Cmds, MoveAttach(c) PROVE TypeOK'
  <2>1. cmd' \in [Cmds -> CmdType] /\ cmd[c].net \in Keys
    BY <1>11, <1>12, <1>15 DEF MoveAttach, Stages, Installing, At
  <2>2. attach' \in [Keys -> (SUBSET Row) \cup {NoDir}]
    <3> DEFINE n == cmd[c].net
    <3>1. CASE attach' = [attach EXCEPT ![n] = attach[Empty], ![Empty] = NoDir]
      BY <2>1, <3>1, KeyFacts DEF TypeOK
    <3>2. CASE UNCHANGED attach
      BY <3>2 DEF TypeOK
    <3> QED  BY <1>15, <3>1, <3>2 DEF MoveAttach
  <2> QED  BY <1>15, <2>1, <2>2 DEF MoveAttach, TypeOK
<1>16. ASSUME NEW c \in Cmds, MoveState(c) PROVE TypeOK'
  <2>1. cmd' \in [Cmds -> CmdType] /\ cmd[c].net \in Keys
    BY <1>11, <1>12, <1>16 DEF MoveState, Stages, Installing, At
  <2>2. state' \in [Keys -> Keys \cup {NoState, Torn}]
    BY <1>16, <2>1, KeyFacts DEF MoveState, TypeOK
  <2> QED  BY <1>16, <2>1, <2>2 DEF MoveState, TypeOK
<1>17. ASSUME NEW c \in Cmds, SaveState(c) PROVE TypeOK'
  <2>1. cmd' \in [Cmds -> CmdType] /\ cmd[c].net \in Keys
    BY <1>11, <1>12, <1>17 DEF SaveState, Stages, Installing, At
  <2>2. state' \in [Keys -> Keys \cup {NoState, Torn}]
    BY <1>17, <2>1 DEF SaveState, TypeOK
  <2> QED  BY <1>17, <2>1, <2>2 DEF SaveState, TypeOK
<1>18. ASSUME NEW c \in Cmds, WriteEnv(c) PROVE TypeOK'
  <2>1. cmd' \in [Cmds -> CmdType] /\ cmd[c].net \in Networks
    BY <1>11, <1>12, <1>18 DEF WriteEnv, Stages, Installing, At
  <2> QED  BY <1>18, <2>1 DEF WriteEnv, TypeOK
<1>19. ASSUME NEW k \in Keys, NEW p \in ProcType, Systemctl(k, p) PROVE proc' \in [Keys -> ProcType]
  BY <1>19 DEF Systemctl, TypeOK
<1>20. ASSUME NEW c \in Cmds, RestartUnit(c) PROVE TypeOK'
  <2>1. cmd' \in [Cmds -> CmdType] /\ cmd[c].net \in Keys
    BY <1>11, <1>12, <1>20 DEF RestartUnit, Stages, Installing, At
  <2>2. proc' \in [Keys -> ProcType]
    BY <1>19, <1>20, <2>1, RestartedOff DEF RestartUnit
  <2> QED  BY <1>20, <2>1, <2>2 DEF RestartUnit, TypeOK
<1>21. ASSUME NEW c \in Cmds, Probe(c) PROVE TypeOK'
  <2>1. cmd' \in [Cmds -> CmdType]
    BY <1>11, <1>21 DEF Probe, Stages, Ended
  <2> QED  BY <1>21, <2>1 DEF Probe, TypeOK
<1>22. ASSUME NEW c \in Cmds, Stop(c) PROVE TypeOK'
  <2>1. PICK k \in cmd[c].todo : /\ Systemctl(k, Off)
                                 /\ cmd' = [cmd EXCEPT ![c].at = "unregister", ![c].net = k]
    BY <1>22 DEF Stop
  <2>2. k \in Keys
    BY <2>1 DEF TypeOK, CmdType
  <2>3. cmd' \in [Cmds -> CmdType]
    <3> DEFINE v == [cmd[c] EXCEPT !.at = "unregister", !.net = k]
    <3>1. v \in CmdType
      BY <2>2 DEF TypeOK, CmdType, Stages
    <3>2. cmd' = [cmd EXCEPT ![c] = v]
      BY <2>1 DEF TypeOK
    <3> QED  BY <3>1, <3>2 DEF TypeOK
  <2>4. proc' \in [Keys -> ProcType]
    BY <1>19, <2>1, <2>2, RestartedOff
  <2> QED  BY <1>22, <2>3, <2>4 DEF Stop, TypeOK
<1>23. ASSUME NEW c \in Cmds, NEW k, NEW stage \in Stages, DoneWith(c, k, stage)
       PROVE  cmd' \in [Cmds -> CmdType]
  <2> DEFINE s == IF cmd[c].todo \subseteq {k} THEN "idle" ELSE stage
  <2>1. s \in Stages
    BY DEF Stages, Ended
  <2> HIDE DEF s
  <2>2. cmd' = [cmd EXCEPT ![c].todo = @ \ {k}, ![c].at = s]
    BY <1>23 DEF DoneWith, s
  <2> DEFINE v == [cmd[c] EXCEPT !.todo = @ \ {k}, !.at = s]
  <2>3. v \in CmdType
    BY <2>1 DEF TypeOK, CmdType
  <2>4. cmd' = [cmd EXCEPT ![c] = v]
    BY <2>2 DEF TypeOK
  <2> QED  BY <2>3, <2>4 DEF TypeOK
<1>24. ASSUME NEW c \in Cmds, Unregister(c) PROVE TypeOK'
  <2>1. cmd' \in [Cmds -> CmdType]
    BY <1>23, <1>24 DEF Unregister, Stages
  <2>2. env' \subseteq Networks /\ legacyUnit' \in BOOLEAN
    BY <1>24 DEF Unregister, TypeOK
  <2> QED  BY <1>24, <2>1, <2>2 DEF Unregister, TypeOK
<1>25. ASSUME NEW c \in Cmds, RestartOne(c) PROVE TypeOK'
  <2>1. PICK k \in cmd[c].todo : Systemctl(k, Restarted(k)) /\ DoneWith(c, k, "restarting")
    BY <1>25 DEF RestartOne
  <2>2. k \in Keys
    BY <2>1 DEF TypeOK, CmdType
  <2>3. cmd' \in [Cmds -> CmdType]
    BY <1>23, <2>1 DEF Stages
  <2>4. proc' \in [Keys -> ProcType]
    BY <1>19, <2>1, <2>2, RestartedOff
  <2> QED  BY <1>25, <2>3, <2>4 DEF RestartOne, TypeOK
<1>26. ASSUME NEW c \in Cmds, Interrupt(c) PROVE TypeOK'
  <2>1. cmd' \in [Cmds -> CmdType]
    BY <1>11, <1>26 DEF Interrupt, Stages, Ended
  <2>2. state' \in [Keys -> Keys \cup {NoState, Torn}]
    BY <1>26 DEF Interrupt, TypeOK
  <2> QED  BY <1>26, <2>1, <2>2 DEF Interrupt, TypeOK
<1>27. CASE UNCHANGED vars
  BY <1>27 DEF vars, TypeOK
<1> QED
  BY <1>1, <1>2, <1>3, <1>4, <1>5, <1>6, <1>7, <1>10, <1>13, <1>14, <1>15, <1>16, <1>17, <1>18,
     <1>20, <1>21, <1>22, <1>24, <1>25, <1>26, <1>27 DEF Next, Serve, Proceed

-----------------------------------------------------------------------------
(* What a step may do to rows and processes, to pins, and to commands.     *)

Swapped(k, p) == proc' = [proc EXCEPT ![k] = p]

\* A step leaves rows and processes alone, or is one of a process, or moves the
\* legacy log, or stops or starts a process.
LEMMA RowSteps ==
    ASSUME TypeOK, NetsKnown, [Next]_vars
    PROVE  \/ UNCHANGED <<msgs, proc, posted>>
           \/ \E k \in Keys : Boot(k) \/ Resolve(k) \/ Bind(k) \/ Post(k) \/ Delete(k)
           \/ \E c \in Cmds : MoveMsgs(c)
           \/ /\ UNCHANGED <<msgs, posted>>
              /\ \E k \in Keys : Swapped(k, Off) \/ Swapped(k, Restarted(k))
<1> USE DEF dirs, units
<1>1. ASSUME NEW c \in Cmds
      PROVE  /\ Install(c) \/ Uninstall(c) \/ RestartAll(c) => UNCHANGED <<msgs, proc, posted>>
             /\ Migrate(c) \/ MoveAttach(c) \/ MoveState(c) => UNCHANGED <<msgs, proc, posted>>
             /\ SaveState(c) \/ WriteEnv(c) \/ Probe(c) => UNCHANGED <<msgs, proc, posted>>
             /\ Unregister(c) \/ Interrupt(c) => UNCHANGED <<msgs, proc, posted>>
  BY DEF Install, Uninstall, RestartAll, Migrate, MoveAttach, MoveState, SaveState, WriteEnv,
         Probe, Unregister, Interrupt
<1>2. ASSUME NEW c \in Cmds, RestartUnit(c) \/ Stop(c) \/ RestartOne(c)
      PROVE  /\ UNCHANGED <<msgs, posted>>
             /\ \/ UNCHANGED proc
                \/ \E k \in Keys : Swapped(k, Off) \/ Swapped(k, Restarted(k))
  <2>1. UNCHANGED <<msgs, posted>>
    BY <1>2 DEF RestartUnit, Stop, RestartOne
  <2>2. CASE RestartUnit(c)
    <3>1. cmd[c].net \in Keys
      BY <2>2, KeyFacts DEF RestartUnit, At, NetsKnown, Installing
    <3> QED  BY <2>1, <2>2, <3>1 DEF RestartUnit, Systemctl, Swapped
  <2>3. CASE Stop(c)
    <3>1. PICK k \in cmd[c].todo : Systemctl(k, Off)
      BY <2>3 DEF Stop
    <3>2. k \in Keys
      BY <3>1 DEF TypeOK, CmdType
    <3> QED  BY <2>1, <3>1, <3>2 DEF Systemctl, Swapped
  <2>4. CASE RestartOne(c)
    <3>1. PICK k \in cmd[c].todo : Systemctl(k, Restarted(k))
      BY <2>4 DEF RestartOne
    <3>2. k \in Keys
      BY <3>1 DEF TypeOK, CmdType
    <3> QED  BY <2>1, <3>1, <3>2 DEF Systemctl, Swapped
  <2> QED  BY <1>2, <2>2, <2>3, <2>4
<1>3. ASSUME NEW k \in Keys, Crash(k) PROVE UNCHANGED <<msgs, posted>> /\ Swapped(k, Restarted(k))
  BY <1>3 DEF Crash, Swapped
<1>4. ASSUME NEW n \in Networks, Join(n) PROVE UNCHANGED <<msgs, proc, posted>>
  BY <1>4 DEF Join
<1>5. UNCHANGED vars => UNCHANGED <<msgs, proc, posted>>
  BY DEF vars
<1> QED  BY <1>1, <1>2, <1>3, <1>4, <1>5 DEF Next, Serve, Proceed

\* The legacy pin is what it was, or gone: no command writes the legacy board.json.
LEMMA PinStays ==
    ASSUME TypeOK, NetsKnown, [Next]_vars
    PROVE  \/ state'[Empty] = state[Empty]
           \/ state'[Empty] = NoState /\ \E c \in Cmds : MoveState(c)
<1> USE DEF dirs, units
<1>1. ASSUME NEW c \in Cmds, SaveState(c) \/ Interrupt(c) PROVE state'[Empty] = state[Empty]
  <2>1. UNCHANGED state \/ \E s : At(c, "save") /\ state' = [state EXCEPT ![cmd[c].net] = s]
    BY <1>1 DEF SaveState, Interrupt
  <2>2. At(c, "save") => cmd[c].net # Empty
    BY KeyFacts DEF NetsKnown, At, Installing
  <2> QED  BY <2>1, <2>2, KeyFacts DEF TypeOK
<1>2. ASSUME NEW c \in Cmds, MoveState(c)
      PROVE  state'[Empty] = state[Empty] \/ state'[Empty] = NoState
  BY <1>2, KeyFacts DEF MoveState, TypeOK
<1>3. ASSUME NEW c \in Cmds
      PROVE  /\ Install(c) \/ Uninstall(c) \/ RestartAll(c) => UNCHANGED state
             /\ Migrate(c) \/ MoveMsgs(c) \/ MoveAttach(c) \/ WriteEnv(c) => UNCHANGED state
             /\ RestartUnit(c) \/ Probe(c) \/ Stop(c) \/ Unregister(c) => UNCHANGED state
             /\ RestartOne(c) => UNCHANGED state
  BY DEF Install, Uninstall, RestartAll, Migrate, MoveMsgs, MoveAttach, WriteEnv, RestartUnit,
         Probe, Stop, Unregister, RestartOne
<1>4. ASSUME NEW k \in Keys
      PROVE  Serve(k) \/ Post(k) \/ Delete(k) \/ Crash(k) => UNCHANGED state
  BY DEF Serve, Boot, Resolve, Bind, Post, Delete, Crash
<1>5. \A n \in Networks : Join(n) => UNCHANGED state
  BY DEF Join
<1> QED  BY <1>1, <1>2, <1>3, <1>4, <1>5 DEF Next, Proceed, vars

\* A command that installs has begun so, or went on with the same network.
LEMMA CmdSteps ==
    ASSUME TypeOK, [Next]_vars, NEW c \in Cmds, cmd'[c].at \in Installing
    PROVE  \/ cmd'[c] = cmd[c]
           \/ cmd'[c].at = "migrate" /\ Install(c) /\ cmd'[c].net \in Networks
           \/ /\ cmd[c].at \in Installing /\ cmd'[c].net = cmd[c].net
              /\ \/ Migrate(c) \/ MoveMsgs(c) \/ MoveAttach(c) \/ MoveState(c) \/ SaveState(c)
                 \/ WriteEnv(c) \/ RestartUnit(c)
<1> USE DEF dirs, units
<1>1. ASSUME NEW d \in Cmds, d # c, NEW v, cmd' = [cmd EXCEPT ![d] = v] PROVE cmd'[c] = cmd[c]
  BY <1>1 DEF TypeOK
<1>2. ASSUME NEW d \in Cmds, Install(d) PROVE cmd'[c] = cmd[c] \/ (d = c /\ cmd'[c].at = "migrate" /\ cmd'[c].net \in Networks)
  <2>1. PICK w \in Keys : \E n \in Selected(w) : Command(d, "migrate", n, {})
    BY <1>2 DEF Install
  <2>2. PICK n \in Selected(w) : Command(d, "migrate", n, {})
    BY <2>1
  <2>3. n \in Networks
    BY <2>2, SelectedJoined
  <2> QED  BY <1>1, <2>2, <2>3 DEF Command, TypeOK
<1>3. ASSUME NEW d \in Cmds, Uninstall(d) \/ RestartAll(d) PROVE cmd'[c] = cmd[c]
  <2>1. PICK stage \in {"removing", "restarting"} : \E ks : Command(d, stage, Empty, ks)
    BY <1>3 DEF Uninstall, RestartAll
  <2>2. d = c => cmd'[c].at = stage
    BY <2>1 DEF Command, TypeOK
  <2> QED  BY <1>1, <2>1, <2>2 DEF Command, Installing
<1>4. ASSUME NEW d \in Cmds, NEW stage, Advance(d, stage)
      PROVE  IF d = c THEN cmd'[c].at = stage /\ cmd'[c].net = cmd[c].net ELSE cmd'[c] = cmd[c]
  BY <1>4 DEF Advance, TypeOK, CmdType
<1>5. ASSUME NEW d \in Cmds, Stop(d) PROVE cmd'[c] = cmd[c]
  <2>1. PICK k : cmd' = [cmd EXCEPT ![d].at = "unregister", ![d].net = k]
    BY <1>5 DEF Stop
  <2>2. d = c => cmd'[c].at = "unregister"
    BY <2>1 DEF TypeOK, CmdType
  <2>3. d # c => cmd'[c] = cmd[c]
    BY <2>1 DEF TypeOK
  <2> QED  BY <2>2, <2>3 DEF Installing
<1>6. ASSUME NEW d \in Cmds, Unregister(d) \/ RestartOne(d) PROVE cmd'[c] = cmd[c]
  <2>1. PICK stage \in {"removing", "restarting"} : \E k : DoneWith(d, k, stage)
    BY <1>6 DEF Unregister, RestartOne
  <2>2. d = c => cmd'[c].at \in {"idle", "removing", "restarting"}
    BY <2>1 DEF DoneWith, TypeOK, CmdType
  <2>3. d # c => cmd'[c] = cmd[c]
    BY <2>1 DEF DoneWith, TypeOK
  <2> QED  BY <2>2, <2>3 DEF Installing
<1>7. ASSUME NEW d \in Cmds, Interrupt(d) \/ Probe(d) PROVE cmd'[c] = cmd[c]
  <2>1. PICK stage \in {"idle", "up"} : Advance(d, stage)
    BY <1>7 DEF Interrupt, Probe
  <2> QED  BY <1>4, <2>1 DEF Installing
<1>8. ASSUME NEW d \in Cmds,
             \/ Migrate(d) \/ MoveMsgs(d) \/ MoveAttach(d) \/ MoveState(d) \/ SaveState(d)
             \/ WriteEnv(d) \/ RestartUnit(d)
      PROVE  cmd'[c] = cmd[c] \/ (d = c /\ cmd[c].at \in Installing /\ cmd'[c].net = cmd[c].net)
  <2>1. cmd[d].at \in Installing /\ \E stage : Advance(d, stage)
    BY <1>8 DEF Migrate, MoveMsgs, MoveAttach, MoveState, SaveState, WriteEnv, RestartUnit, At,
                Installing
  <2> QED  BY <1>4, <2>1
<1>9. ASSUME NEW k \in Keys
      PROVE  Serve(k) \/ Post(k) \/ Delete(k) \/ Crash(k) => UNCHANGED cmd
  BY DEF Serve, Boot, Resolve, Bind, Post, Delete, Crash
<1>10. \A n \in Networks : Join(n) => UNCHANGED cmd
  BY DEF Join
<1> QED  BY <1>2, <1>3, <1>5, <1>6, <1>7, <1>8, <1>9, <1>10 DEF Next, Proceed, vars

-----------------------------------------------------------------------------
LEMMA NetsKnownStep == TypeOK /\ NetsKnown /\ [Next]_vars => NetsKnown'
<1> SUFFICES ASSUME TypeOK, NetsKnown, [Next]_vars, NEW c \in Cmds, cmd'[c].at \in Installing
             PROVE  cmd'[c].net \in Networks
  BY DEF NetsKnown
<1> QED  BY CmdSteps DEF NetsKnown

\* What a step may do to the process of one key.
LEMMA ProcSteps ==
    ASSUME TypeOK, NetsKnown, [Next]_vars, NEW k \in Keys
    PROVE  \/ proc'[k] \in {proc[k], Off, Starting}
           \/ /\ proc[k].pc = "starting" /\ proc'[k].pc = "waiting"
              /\ proc'[k].net = (IF k # Empty THEN k ELSE Named(state[k]))
              /\ proc'[k].mem = proc[k].mem
           \/ /\ proc[k].pc = "waiting" /\ proc'[k].pc = "binding"
              /\ proc'[k].net \in Selected(proc[k].net)
              /\ proc'[k].mem = msgs[k]
           \/ /\ proc[k].pc = "binding" /\ proc'[k].pc = "serving"
              /\ proc'[k].net = proc[k].net
              /\ proc'[k].mem = proc[k].mem
           \/ /\ Post(k) /\ proc[k].pc = "serving" /\ proc'[k].pc = "serving"
              /\ proc'[k].net = proc[k].net
<1>1. ASSUME NEW j \in Keys, j # k, Boot(j) \/ Resolve(j) \/ Bind(j) \/ Post(j) PROVE proc'[k] = proc[k]
  BY <1>1 DEF Boot, Resolve, Bind, Post, TypeOK
<1>2. \A j \in Keys : Delete(j) => proc' = proc
  BY DEF Delete
<1>3. \A c \in Cmds : MoveMsgs(c) => proc' = proc
  BY DEF MoveMsgs
<1>4. ASSUME NEW j \in Keys, Swapped(j, Off) \/ Swapped(j, Restarted(j))
      PROVE  proc'[k] \in {proc[k], Off, Starting}
  BY <1>4, RestartedOff DEF Swapped, TypeOK
<1>5. ASSUME Boot(k)
      PROVE  /\ proc[k].pc = "starting" /\ proc'[k].pc = "waiting"
             /\ proc'[k].net = (IF k # Empty THEN k ELSE Named(state[k]))
             /\ proc'[k].mem = proc[k].mem
  BY <1>5 DEF Boot, TypeOK, ProcType
<1>6. ASSUME Resolve(k)
      PROVE  /\ proc[k].pc = "waiting" /\ proc'[k].pc = "binding"
             /\ proc'[k].net \in Selected(proc[k].net)
             /\ proc'[k].mem = msgs[k]
  <2>1. PICK n \in Selected(proc[k].net) :
            proc' = [proc EXCEPT ![k] = [pc |-> "binding", net |-> n, mem |-> msgs[k]]]
    BY <1>6 DEF Resolve
  <2> QED  BY <1>6, <2>1 DEF Resolve, TypeOK
<1>7. ASSUME Bind(k)
      PROVE  /\ proc[k].pc = "binding" /\ proc'[k].pc = "serving"
             /\ proc'[k].net = proc[k].net /\ proc'[k].mem = proc[k].mem
  BY <1>7 DEF Bind, TypeOK, ProcType
<1>8. ASSUME Post(k)
      PROVE  /\ proc[k].pc = "serving" /\ proc'[k].pc = "serving"
             /\ proc'[k].net = proc[k].net
  BY <1>8 DEF Post, TypeOK, ProcType
<1> QED  BY <1>1, <1>2, <1>3, <1>4, <1>5, <1>6, <1>7, <1>8, RowSteps

LEMMA OwnNetStep == TypeOK /\ NetsKnown /\ OwnNet /\ [Next]_vars => OwnNet'
<1> SUFFICES ASSUME TypeOK, NetsKnown, OwnNet, [Next]_vars, NEW k \in Keys
             PROVE  /\ k # Empty /\ proc'[k].pc \notin {"off", "starting"} => proc'[k].net = k
                    /\ proc'[k].pc \in {"binding", "serving"} => proc'[k].net \in Networks
  BY DEF OwnNet
<1>1. \A n \in Selected(proc[k].net) :
          n \in Networks /\ (k # Empty /\ proc[k].pc = "waiting" => n = k)
  BY SelectedJoined DEF OwnNet
<1> QED  BY <1>1, ProcSteps, RestartedOff DEF OwnNet

\* A post adds one row, the same to the file and to memory.
LEMMA PostAdds ==
    ASSUME TypeOK, OwnNet, Numbered, NEW k \in Keys, Post(k)
    PROVE  \E m \in Row : /\ m \notin posted /\ posted' = posted \cup {m}
                          /\ m.no = Cardinality(posted)
                          /\ m.net = proc[k].net /\ proc[k].pc = "serving"
                          /\ msgs'[k] = msgs[k] \cup {m}
                          /\ proc'[k].mem = proc[k].mem \cup {m}
                          /\ \A j \in Keys : j # k => msgs'[j] = msgs[j] /\ proc'[j] = proc[j]
<1>1. PICK img \in BOOLEAN :
          LET m == [net |-> proc[k].net, no |-> Cardinality(posted), img |-> img] IN
          /\ proc' = [proc EXCEPT ![k].mem = @ \cup {m}]
          /\ msgs' = [msgs EXCEPT ![k] = @ \cup {m}]
          /\ posted' = posted \cup {m}
  BY DEF Post
<1> DEFINE m == [net |-> proc[k].net, no |-> Cardinality(posted), img |-> img]
<1>2. proc[k].pc = "serving"
  BY DEF Post
<1>3. m \in Row /\ m \notin posted /\ m.net = proc[k].net /\ m.no = Cardinality(posted)
  BY <1>2, FreshRow
<1> HIDE DEF m
<1>4. /\ proc' = [proc EXCEPT ![k].mem = @ \cup {m}]
      /\ msgs' = [msgs EXCEPT ![k] = @ \cup {m}]
      /\ posted' = posted \cup {m}
  BY <1>1 DEF m
<1>5. /\ msgs'[k] = msgs[k] \cup {m}
      /\ proc'[k].mem = proc[k].mem \cup {m}
      /\ \A j \in Keys : j # k => msgs'[j] = msgs[j] /\ proc'[j] = proc[j]
  BY <1>4 DEF TypeOK, ProcType
<1> QED  BY <1>2, <1>3, <1>4, <1>5

\* What a step may do to the rows of one key: nothing but a post adds a row
\* that is new, and nothing but the move brings rows of another key.
LEMMA KeySteps ==
    ASSUME TypeOK, NetsKnown, OwnNet, Numbered, [Next]_vars, NEW k \in Keys
    PROVE  \/ /\ msgs'[k] = msgs[k] /\ proc'[k].mem \in {proc[k].mem, msgs[k], {}}
           \/ /\ Post(k)
              /\ \E m \in Row : /\ m \notin posted /\ posted' = posted \cup {m}
                                /\ m.no = Cardinality(posted)
                                /\ m.net = proc[k].net /\ proc[k].pc = "serving"
                                /\ msgs'[k] = msgs[k] \cup {m}
                                /\ proc'[k].mem = proc[k].mem \cup {m}
                                /\ \A j \in Keys : j # k => msgs'[j] = msgs[j] /\ proc'[j] = proc[j]
           \/ /\ Delete(k)
              /\ msgs'[k] = proc[k].mem /\ proc'[k].mem = proc[k].mem
           \/ \E c \in Cmds : /\ MoveMsgs(c) /\ proc' = proc /\ msgs[Empty] # {}
                              /\ k \in {Empty, cmd[c].net} /\ cmd[c].net \in Networks
                              /\ msgs' = [msgs EXCEPT ![cmd[c].net] = msgs[Empty], ![Empty] = {}]
<1> USE DEF dirs, units
<1>1. CASE UNCHANGED <<msgs, proc, posted>>
  BY <1>1
<1>2. ASSUME NEW j \in Keys, Boot(j) \/ Bind(j) PROVE msgs' = msgs /\ proc'[k].mem = proc[k].mem
  BY <1>2 DEF Boot, Bind, TypeOK, ProcType
<1>3. ASSUME NEW j \in Keys, Resolve(j) PROVE msgs' = msgs /\ proc'[k].mem \in {proc[k].mem, msgs[k]}
  BY <1>3 DEF Resolve, TypeOK, ProcType
<1>4. ASSUME NEW j \in Keys, Post(j), j # k PROVE msgs'[k] = msgs[k] /\ proc'[k].mem = proc[k].mem
  BY <1>4 DEF Post, TypeOK, ProcType
<1>6. ASSUME NEW j \in Keys, Delete(j)
      PROVE  /\ proc' = proc
             /\ msgs'[k] = IF j = k THEN proc[k].mem ELSE msgs[k]
  BY <1>6 DEF Delete, TypeOK
<1>7. ASSUME NEW c \in Cmds, MoveMsgs(c)
      PROVE  /\ proc' = proc /\ cmd[c].net \in Networks
             /\ \/ msgs' = msgs
                \/ /\ msgs' = [msgs EXCEPT ![cmd[c].net] = msgs[Empty], ![Empty] = {}]
                   /\ msgs[Empty] # {}
  BY <1>7 DEF MoveMsgs, At, NetsKnown, Installing
<1>8. ASSUME NEW c \in Cmds, MoveMsgs(c), k \notin {Empty, cmd[c].net} PROVE msgs'[k] = msgs[k]
  BY <1>7, <1>8 DEF TypeOK
<1>9. ASSUME NEW j \in Keys, Swapped(j, Off) \/ Swapped(j, Restarted(j))
      PROVE  proc'[k].mem \in {proc[k].mem, {}}
  BY <1>9, RestartedOff DEF Swapped, TypeOK
<1> QED  BY <1>1, <1>2, <1>3, <1>4, <1>6, <1>7, <1>8, <1>9, PostAdds, RowSteps

LEMMA NumberedStep == TypeOK /\ NetsKnown /\ OwnNet /\ Numbered /\ [Next]_vars => Numbered'
<1> SUFFICES ASSUME TypeOK, NetsKnown, OwnNet, Numbered, [Next]_vars PROVE Numbered'
  OBVIOUS
<1>1. posted' = posted \/ \E m \in Row : /\ m \notin posted /\ posted' = posted \cup {m}
                                         /\ m.no = Cardinality(posted)
  <2>2. \A k \in Keys : Boot(k) \/ Resolve(k) \/ Bind(k) \/ Delete(k) => posted' = posted
    BY DEF Boot, Resolve, Bind, Delete
  <2>3. \A c \in Cmds : MoveMsgs(c) => posted' = posted
    BY DEF MoveMsgs
  <2> QED  BY <2>2, <2>3, PostAdds, RowSteps
<1>2. /\ IsFiniteSet(posted') /\ posted \subseteq posted'
      /\ \A m \in posted' : m.no < Cardinality(posted')
  <2>1. CASE posted' = posted
    BY <2>1 DEF Numbered
  <2>2. ASSUME NEW m \in Row, m \notin posted, posted' = posted \cup {m}, m.no = Cardinality(posted)
        PROVE  /\ IsFiniteSet(posted') /\ posted \subseteq posted'
               /\ \A x \in posted' : x.no < Cardinality(posted')
    <3>1. IsFiniteSet(posted') /\ Cardinality(posted') = Cardinality(posted) + 1
      BY <2>2, FS_AddElement DEF Numbered
    <3>2. Cardinality(posted) \in Nat
      BY FS_CardinalityType DEF Numbered
    <3>3. ASSUME NEW x \in posted' PROVE x.no < Cardinality(posted')
      <4>1. CASE x = m
        BY <2>2, <3>1, <3>2, <4>1
      <4>2. CASE x \in posted
        <5>1. x.no < Cardinality(posted) /\ x.no \in Nat
          BY <4>2 DEF Numbered, TypeOK, Row
        <5> QED  BY <3>1, <3>2, <5>1
      <4> QED  BY <2>2, <4>1, <4>2
    <3> QED  BY <2>2, <3>1, <3>3
  <2> QED  BY <1>1, <2>1, <2>2
<1>3. ASSUME NEW k \in Keys PROVE msgs'[k] \subseteq posted' /\ proc'[k].mem \subseteq posted'
  <2>1. \A j \in Keys : msgs[j] \subseteq posted /\ proc[j].mem \subseteq posted
    BY DEF Numbered
  <2>2. ASSUME NEW c \in Cmds, k \in {Empty, cmd[c].net}, cmd[c].net \in Networks,
               msgs' = [msgs EXCEPT ![cmd[c].net] = msgs[Empty], ![Empty] = {}]
        PROVE  msgs'[k] \in {msgs[Empty], {}}
    BY <2>2, KeyFacts DEF TypeOK
  <2> QED  BY <1>2, <2>1, <2>2, KeySteps, KeyFacts
<1> QED  BY <1>2, <1>3 DEF Numbered

LEMMA ClaimedStep == TypeOK /\ NetsKnown /\ Claimed /\ [Next]_vars => Claimed'
<1> SUFFICES ASSUME TypeOK, NetsKnown, Claimed, [Next]_vars, NEW c \in Cmds, cmd'[c].at = "msgs"
             PROVE  Named(state'[Empty]) \in {Empty, cmd'[c].net}
  BY DEF Claimed, At, MayClaim
<1>1. Named(state'[Empty]) \in {Named(state[Empty]), Empty}
  BY PinStays, NamedNone
<1>2. CASE cmd'[c] = cmd[c]
  BY <1>1, <1>2 DEF Claimed, At, MayClaim
<1>3. CASE cmd'[c].net = cmd[c].net /\ Migrate(c)
  <2>1. LegacyData /\ MayClaim(cmd[c].net)
    BY <1>3 DEF Migrate, Advance, TypeOK, CmdType
  <2> QED  BY <1>1, <1>3, <2>1 DEF MayClaim
<1>4. ASSUME \/ MoveMsgs(c) \/ MoveAttach(c) \/ MoveState(c) \/ SaveState(c) \/ WriteEnv(c)
             \/ RestartUnit(c)
      PROVE  FALSE
  BY <1>4 DEF MoveMsgs, MoveAttach, MoveState, SaveState, WriteEnv, RestartUnit, Advance, TypeOK,
              CmdType
<1> QED  BY <1>2, <1>3, <1>4, CmdSteps DEF Installing

\* A command moves the log of a pinned board to no other network.
LEMMA MoverIsPinned ==
    ASSUME Claimed, NEW n \in Networks, Named(state[Empty]) \notin {Empty, n},
           NEW c \in Cmds, MoveMsgs(c)
    PROVE  cmd[c].net # n
BY DEF MoveMsgs, Claimed, MayClaim

LEMMA SeparateStep == IInv /\ [Next]_vars => Separate'
<1> SUFFICES ASSUME IInv, [Next]_vars, NEW n \in Networks, Named(state'[Empty]) \notin {Empty, n}
             PROVE  (msgs'[n] \cup proc'[n].mem) \cap (msgs'[Empty] \cup proc'[Empty].mem) = {}
  BY DEF Separate
<1> DEFINE A == msgs[n] \cup proc[n].mem
           B == msgs[Empty] \cup proc[Empty].mem
<1>0. TypeOK /\ NetsKnown /\ OwnNet /\ Numbered /\ Claimed /\ Separate /\ n \in Keys /\ n # Empty
  BY KeyFacts DEF IInv
<1>1. Named(state[Empty]) \notin {Empty, n}
  BY <1>0, PinStays, NamedNone
<1>2. A \cap B = {} /\ A \subseteq posted /\ B \subseteq posted
  BY <1>0, <1>1, KeyFacts DEF Separate, Numbered
<1>3. \/ A' \subseteq A
      \/ \E m : m \notin posted /\ A' = A \cup {m} /\ B' = B
  BY <1>0, <1>1, KeyFacts, KeySteps, MoverIsPinned
<1>4. \/ B' \subseteq B
      \/ \E m : m \notin posted /\ B' = B \cup {m} /\ A' = A
  <2>1. ASSUME NEW c \in Cmds, cmd[c].net \in Networks,
               msgs' = [msgs EXCEPT ![cmd[c].net] = msgs[Empty], ![Empty] = {}]
        PROVE  msgs'[Empty] = {}
    BY <2>1, KeyFacts DEF IInv, TypeOK
  <2> QED  BY <1>0, <2>1, KeyFacts, KeySteps
<1> QED  BY <1>2, <1>3, <1>4

LEMMA IInvAlways == Spec => []IInv
<1>1. IInv /\ [Next]_vars => IInv'
  BY TypeStep, NetsKnownStep, OwnNetStep, NumberedStep, ClaimedStep, SeparateStep DEF IInv
<1> QED  BY <1>1, InitIInv, PTL DEF Spec

\* Every reachable state is of its type, whatever fails.
THEOREM TypeCorrect == Spec => []TypeOK
BY IInvAlways, PTL DEF IInv

\* No step takes a row of legacy data that are pinned to one network into the
\* log of another: not the migration, and not the boards that run beside it and
\* write their memory back (config.rs:155-156).
THEOREM PinnedStaysOut == Spec => PinnedUntouched
<1> DEFINE Untouched ==
        \A n \in Networks :
            Named(state[Empty]) \notin {Empty, n} => msgs'[n] \cap msgs[Empty] \subseteq msgs[n]
<1>1. IInv /\ [Next]_vars => Untouched
  <2> SUFFICES ASSUME IInv, [Next]_vars, NEW n \in Networks, Named(state[Empty]) \notin {Empty, n}
               PROVE  msgs'[n] \cap msgs[Empty] \subseteq msgs[n]
    OBVIOUS
  <2>0. TypeOK /\ NetsKnown /\ OwnNet /\ Numbered /\ Claimed /\ n \in Keys /\ n # Empty
    BY KeyFacts DEF IInv
  <2>1. msgs[Empty] \subseteq posted /\ proc[n].mem \cap msgs[Empty] = {}
    BY KeyFacts DEF IInv, Separate, Numbered
  <2> QED  BY <2>0, <2>1, KeySteps, MoverIsPinned
<1>2. IInv /\ [Next]_vars => [Untouched]_vars
  BY <1>1
<1> QED  BY <1>2, IInvAlways, PTL DEF Spec, PinnedUntouched

-----------------------------------------------------------------------------
(* A disciplined operator.                                                 *)

Disciplined == Careful /\ "systemctl" \notin Faults /\ \A c, d \in Cmds : c = d

\* Without its unit the legacy board does not run, nor does it while the unit is
\* being removed; and nothing is installed while the unit is there.
Gone ==
    /\ ~legacyUnit => proc[Empty].pc = "off"
    /\ \A c \in Cmds : /\ cmd[c].at \in Installing => ~legacyUnit
                       /\ At(c, "unregister") /\ cmd[c].net = Empty => proc[Empty].pc = "off"

\* What is off starts only if it is registered, and by a command.
LEMMA Starts ==
    ASSUME TypeOK, NetsKnown, [Next]_vars, NEW k \in Keys,
           proc[k].pc = "off", proc'[k].pc # "off"
    PROVE  k \in Instances /\ \E d \in Cmds : RestartUnit(d) \/ RestartOne(d)
<1>1. \A j \in Keys : ~Swapped(j, Off)
  BY RestartedOff DEF Swapped, TypeOK
<1>2. ASSUME NEW j \in Keys, Swapped(j, Restarted(j)) PROVE k \in Instances
  BY <1>2, RestartedOff DEF Swapped, Restarted, TypeOK
<1>3. \A j \in Keys : ~Boot(j) /\ ~Resolve(j) /\ ~Bind(j) /\ ~Post(j) /\ ~Delete(j) /\ ~Crash(j)
  BY DEF Boot, Resolve, Bind, Post, Delete, Crash, TypeOK, ProcType
<1>4. \A c \in Cmds : ~MoveMsgs(c) /\ ~Stop(c)
  BY <1>1 DEF MoveMsgs, Stop, Systemctl, Swapped, TypeOK, CmdType
<1>5. proc' # proc
  OBVIOUS
<1>6. k \in Instances
  BY <1>1, <1>2, <1>3, <1>4, <1>5, RowSteps
<1>7. \A c \in Cmds : /\ ~Install(c) /\ ~Uninstall(c) /\ ~RestartAll(c) /\ ~Migrate(c)
                      /\ ~MoveAttach(c) /\ ~MoveState(c) /\ ~SaveState(c) /\ ~WriteEnv(c)
                      /\ ~Probe(c) /\ ~Unregister(c) /\ ~Interrupt(c)
  BY <1>5 DEF Install, Uninstall, RestartAll, Migrate, MoveAttach, MoveState, SaveState, WriteEnv,
              Probe, Unregister, Interrupt
<1>8. (\A n \in Networks : ~Join(n)) /\ ~UNCHANGED vars
  BY <1>5 DEF Join, vars
<1>9. \E d \in Cmds : RestartUnit(d) \/ RestartOne(d)
  BY <1>3, <1>4, <1>7, <1>8 DEF Next, Serve, Proceed
<1> QED  BY <1>6, <1>9

\* The registry changes where the commands change it.
LEMMA UnitSteps ==
    ASSUME TypeOK, [Next]_vars
    PROVE  /\ \/ legacyUnit' = legacyUnit
              \/ /\ ~legacyUnit'
                 /\ \E c \in Cmds : Unregister(c) /\ cmd[c].net = Empty /\ UNCHANGED proc
           /\ \A n \in env' \ env : \E c \in Cmds : At(c, "env") /\ cmd[c].net = n
<1> USE DEF dirs, units
<1>1. ASSUME NEW c \in Cmds
      PROVE  /\ Install(c) \/ Uninstall(c) \/ RestartAll(c) => UNCHANGED units
             /\ Migrate(c) \/ MoveMsgs(c) \/ MoveAttach(c) \/ MoveState(c) => UNCHANGED units
             /\ SaveState(c) \/ RestartUnit(c) \/ Probe(c) \/ Stop(c) => UNCHANGED units
             /\ RestartOne(c) \/ Interrupt(c) => UNCHANGED units
  BY DEF Install, Uninstall, RestartAll, Migrate, MoveMsgs, MoveAttach, MoveState, SaveState,
         RestartUnit, Probe, Stop, RestartOne, Interrupt
<1>2. \A k \in Keys : Serve(k) \/ Post(k) \/ Delete(k) \/ Crash(k) => UNCHANGED units
  BY DEF Serve, Boot, Resolve, Bind, Post, Delete, Crash
<1>3. \A n \in Networks : Join(n) => UNCHANGED units
  BY DEF Join
<1>4. ASSUME NEW c \in Cmds, WriteEnv(c)
      PROVE  legacyUnit' = legacyUnit /\ env' = env \cup {cmd[c].net} /\ At(c, "env")
  BY <1>4 DEF WriteEnv
<1>5. ASSUME NEW c \in Cmds, Unregister(c)
      PROVE  /\ env' \subseteq env /\ UNCHANGED proc
             /\ legacyUnit' = legacyUnit \/ (~legacyUnit' /\ cmd[c].net = Empty)
  BY <1>5 DEF Unregister, TypeOK
<1> QED  BY <1>1, <1>2, <1>3, <1>4, <1>5 DEF Next, Proceed, vars

\* Only a command's own step changes where it is.
LEMMA CmdActs ==
    ASSUME TypeOK, [Next]_vars, NEW c \in Cmds
    PROVE  cmd'[c] = cmd[c] \/ Install(c) \/ Uninstall(c) \/ RestartAll(c) \/ Proceed(c) \/ Interrupt(c)
<1> USE DEF dirs, units
<1>1. ASSUME NEW d \in Cmds, d # c,
             Install(d) \/ Uninstall(d) \/ RestartAll(d) \/ Proceed(d) \/ Interrupt(d)
      PROVE  cmd'[c] = cmd[c]
  <2>1. CASE Install(d) \/ Uninstall(d) \/ RestartAll(d)
    <3>1. \E stage, n, ks : Command(d, stage, n, ks)
      BY <2>1 DEF Install, Uninstall, RestartAll
    <3> QED  BY <1>1, <3>1 DEF Command, TypeOK
  <2>2. CASE Migrate(d) \/ MoveMsgs(d) \/ MoveAttach(d) \/ MoveState(d) \/ SaveState(d)
             \/ WriteEnv(d) \/ RestartUnit(d) \/ Probe(d) \/ Interrupt(d)
    <3>1. \E stage : Advance(d, stage)
      BY <2>2 DEF Migrate, MoveMsgs, MoveAttach, MoveState, SaveState, WriteEnv, RestartUnit,
                  Probe, Interrupt
    <3> QED  BY <1>1, <3>1 DEF Advance, TypeOK
  <2>3. CASE Stop(d)
    BY <1>1, <2>3 DEF Stop, TypeOK
  <2>4. CASE Unregister(d) \/ RestartOne(d)
    <3>1. \E k, stage : DoneWith(d, k, stage)
      BY <2>4 DEF Unregister, RestartOne
    <3> QED  BY <1>1, <3>1 DEF DoneWith, TypeOK
  <2> QED  BY <1>1, <2>1, <2>2, <2>3, <2>4 DEF Proceed
<1>2. \A k \in Keys : Serve(k) \/ Post(k) \/ Delete(k) \/ Crash(k) => UNCHANGED cmd
  BY DEF Serve, Boot, Resolve, Bind, Post, Delete, Crash
<1>3. \A n \in Networks : Join(n) => UNCHANGED cmd
  BY DEF Join
<1> QED  BY <1>1, <1>2, <1>3 DEF Next, vars

\* A command comes to take a board off the registry by stopping it.
LEMMA StopSteps ==
    ASSUME TypeOK, [Next]_vars, NEW c \in Cmds, cmd'[c].at = "unregister"
    PROVE  cmd'[c] = cmd[c] \/ Systemctl(cmd'[c].net, Off)
<1> SUFFICES ASSUME cmd'[c] # cmd[c] PROVE Systemctl(cmd'[c].net, Off)
  OBVIOUS
<1>1. CASE Install(c) \/ Uninstall(c) \/ RestartAll(c)
  <2>1. \E stage \in {"migrate", "removing", "restarting"} : \E n, ks : Command(c, stage, n, ks)
    BY <1>1 DEF Install, Uninstall, RestartAll
  <2> QED  BY <2>1 DEF Command, TypeOK
<1>2. CASE Migrate(c) \/ MoveMsgs(c) \/ MoveAttach(c) \/ MoveState(c) \/ SaveState(c)
           \/ WriteEnv(c) \/ RestartUnit(c) \/ Probe(c) \/ Interrupt(c)
  <2>1. \E stage : Advance(c, stage) /\ stage # "unregister"
    BY <1>2 DEF Migrate, MoveMsgs, MoveAttach, MoveState, SaveState, WriteEnv, RestartUnit,
                Probe, Interrupt
  <2> QED  BY <2>1 DEF Advance, TypeOK, CmdType
<1>3. CASE Stop(c)
  <2>1. PICK k \in cmd[c].todo : /\ Systemctl(k, Off)
                                 /\ cmd' = [cmd EXCEPT ![c].at = "unregister", ![c].net = k]
    BY <1>3 DEF Stop
  <2>2. cmd'[c].net = k
    BY <2>1 DEF TypeOK, CmdType
  <2> QED  BY <2>1, <2>2
<1>4. CASE Unregister(c) \/ RestartOne(c)
  <2>1. \E stage \in {"removing", "restarting"} : \E k : DoneWith(c, k, stage)
    BY <1>4 DEF Unregister, RestartOne
  <2> QED  BY <2>1 DEF DoneWith, TypeOK, CmdType
<1> QED  BY <1>1, <1>2, <1>3, <1>4, CmdActs DEF Proceed

LEMMA GoneStep ==
    ASSUME Disciplined, TypeOK, NetsKnown, Gone, [Next]_vars
    PROVE  Gone'
<1>1. proc[Empty].pc = "off" /\ ~legacyUnit => proc'[Empty].pc = "off"
  BY KeyFacts, Starts DEF Instances, TypeOK
<1>2. ~legacyUnit' => proc'[Empty].pc = "off"
  BY <1>1, UnitSteps DEF Gone, Unregister
<1>3. ASSUME NEW c \in Cmds, cmd'[c].at \in Installing PROVE ~legacyUnit'
  <2>1. ~legacyUnit => ~legacyUnit'
    BY UnitSteps
  <2>2. Install(c) => ~legacyUnit
    BY DEF Install, Disciplined
  <2> QED  BY <1>3, <2>1, <2>2, CmdSteps DEF Gone
<1>4. ASSUME NEW c \in Cmds, cmd'[c].at = "unregister", cmd'[c].net = Empty
      PROVE  proc'[Empty].pc = "off"
  <2>1. CASE cmd'[c] = cmd[c]
    <3>1. ~RestartUnit(c) /\ ~RestartOne(c)
      BY <1>4, <2>1 DEF RestartUnit, RestartOne, At
    <3>2. \A d \in Cmds : d = c
      BY DEF Disciplined
    <3>3. proc[Empty].pc = "off"
      BY <1>4, <2>1 DEF Gone, At
    <3> QED  BY <3>1, <3>2, <3>3, KeyFacts, Starts
  <2>2. CASE Systemctl(Empty, Off)
    BY <2>2, KeyFacts, RestartedOff DEF Disciplined, Systemctl, TypeOK
  <2> QED  BY <1>4, <2>1, <2>2, StopSteps
<1> QED  BY <1>2, <1>3, <1>4 DEF Gone, At

LEMMA GoneAlways == ASSUME Disciplined PROVE Spec => []Gone
<1>1. Init => Gone
  BY DEF Init, Gone, Installing, At
<1>2. IInv /\ Gone /\ [Next]_vars => Gone'
  BY GoneStep DEF IInv
<1> QED  BY <1>1, <1>2, IInvAlways, PTL DEF Spec

-----------------------------------------------------------------------------
(* The same operator, with legacy data that are pinned and renames that do  *)
(* not fail; commands may still be interrupted and boards crash.            *)

Orderly == Disciplined /\ Pins \subseteq Networks /\ "rename" \notin Faults

\* While the legacy unit is there its board.json names its network, by which all
\* its rows came; it is moved away after the log, and every other log and memory
\* has rows of its own network only.
Sorted ==
    /\ state[Empty] \in Networks \cup {NoState}
    /\ legacyUnit => state[Empty] \in Networks
    /\ proc[Empty].pc \notin {"off", "starting"} => proc[Empty].net = state[Empty]
    /\ proc[Empty].pc = "off" => proc[Empty].mem = {}
    /\ \A m \in msgs[Empty] \cup proc[Empty].mem : m.net = state[Empty]
    /\ \A n \in Networks : \A m \in msgs[n] \cup proc[n].mem : m.net = n
    /\ \A c \in Cmds : At(c, "attach") \/ At(c, "state") => msgs[Empty] = {}

LEMMA RowNet == ASSUME TypeOK, NEW k \in Keys, NEW m \in msgs[k] PROVE m.net \in Networks
BY DEF TypeOK, Row

\* The move is to the network of the rows it moves.
LEMMA MoverIsOwner ==
    ASSUME TypeOK, Claimed, Sorted, NEW c \in Cmds, MoveMsgs(c), msgs[Empty] # {}
    PROVE  cmd[c].net = state[Empty] /\ state[Empty] \in Networks
<1>1. state[Empty] \in Networks
  BY KeyFacts, NameAssumption, RowNet DEF Sorted
<1>2. Named(state[Empty]) \in {Empty, cmd[c].net}
  BY DEF MoveMsgs, Claimed, MayClaim
<1> QED  BY <1>1, <1>2, KeyFacts DEF Named

LEMMA SortedStep ==
    ASSUME Orderly, IInv, Gone, Sorted, [Next]_vars
    PROVE  Sorted'
<1>0. TypeOK /\ NetsKnown /\ OwnNet /\ Numbered /\ Claimed /\ Gone' /\ Empty \in Keys
  BY GoneStep, KeyFacts DEF IInv, Orderly
<1>1. \/ state'[Empty] = state[Empty]
      \/ /\ state'[Empty] = NoState /\ ~legacyUnit /\ UNCHANGED <<msgs, proc>>
         /\ msgs[Empty] = {} /\ proc[Empty].mem = {}
  <2>1. ASSUME NEW c \in Cmds, MoveState(c)
        PROVE  ~legacyUnit /\ UNCHANGED <<msgs, proc>> /\ msgs[Empty] = {}
    BY <2>1 DEF MoveState, Gone, Sorted, At, Installing
  <2>2. ~legacyUnit => proc[Empty].mem = {}
    BY DEF Gone, Sorted
  <2> QED  BY <1>0, <2>1, <2>2, PinStays
<1>2. legacyUnit' => legacyUnit
  BY <1>0, UnitSteps
<1>3. proc[Empty].pc # "off" => state[Empty] \in Networks
  BY DEF Gone, Sorted
<1>4. state'[Empty] \in Networks \cup {NoState} /\ (legacyUnit' => state'[Empty] \in Networks)
  BY <1>1, <1>2 DEF Sorted
<1>5. proc'[Empty].pc \notin {"off", "starting"} => proc'[Empty].net = state'[Empty]
  <2> SUFFICES ASSUME proc'[Empty].pc \notin {"off", "starting"}
               PROVE  proc'[Empty].net = state'[Empty]
    OBVIOUS
  <2>1. CASE proc[Empty].pc = "off"
    <3>1. \A d \in Cmds : RestartUnit(d) \/ RestartOne(d) => state' = state
      BY DEF RestartUnit, RestartOne, dirs
    <3>2. proc'[Empty] \in {Off, Starting}
      BY <1>0, <2>1, ProcSteps, RestartedOff
    <3> QED  BY <3>2, RestartedOff
  <2>2. CASE proc[Empty].pc # "off"
    <3>1. state[Empty] \in Networks /\ Named(state[Empty]) = state[Empty]
      BY <1>3, <2>2 DEF Named
    <3>2. state'[Empty] = state[Empty]
      BY <1>1, <2>2 DEF Gone
    <3>3. proc[Empty].pc # "starting" => proc[Empty].net = state[Empty]
      BY <2>2 DEF Sorted
    <3>4. proc[Empty].pc = "waiting" => \A n \in Selected(proc[Empty].net) : n = state[Empty]
      BY <1>0, <3>1, <3>3, KeyFacts, SelectedJoined
    <3> QED  BY <1>0, <3>1, <3>2, <3>3, <3>4, ProcSteps, RestartedOff
  <2> QED  BY <2>1, <2>2
<1>6. proc'[Empty].pc = "off" => proc'[Empty].mem = {}
  BY <1>0, ProcSteps, RestartedOff DEF Sorted
<1>7. \A m \in msgs'[Empty] \cup proc'[Empty].mem : m.net = state'[Empty]
  <2>1. CASE UNCHANGED <<msgs, proc>> /\ msgs[Empty] = {} /\ proc[Empty].mem = {}
    BY <2>1
  <2>2. CASE state'[Empty] = state[Empty]
    <3>1. proc[Empty].pc = "serving" => proc[Empty].net = state[Empty]
      BY DEF Sorted
    <3>2. \A m \in msgs[Empty] \cup proc[Empty].mem : m.net = state[Empty]
      BY DEF Sorted
    <3>3. ASSUME NEW c \in Cmds, cmd[c].net \in Networks,
                 msgs' = [msgs EXCEPT ![cmd[c].net] = msgs[Empty], ![Empty] = {}]
          PROVE  msgs'[Empty] = {}
      BY <1>0, <3>3, KeyFacts DEF TypeOK
    <3> QED  BY <1>0, <2>2, <3>1, <3>2, <3>3, KeySteps
  <2> QED  BY <1>1, <2>1, <2>2
<1>8. ASSUME NEW n \in Networks PROVE \A m \in msgs'[n] \cup proc'[n].mem : m.net = n
  <2>1. n \in Keys /\ n # Empty /\ (proc[n].pc = "serving" => proc[n].net = n)
    BY KeyFacts, <1>0 DEF OwnNet
  <2>2. \A m \in msgs[n] \cup proc[n].mem : m.net = n
    BY DEF Sorted
  <2>3. ASSUME NEW c \in Cmds, MoveMsgs(c), proc' = proc, msgs[Empty] # {}, n = cmd[c].net,
               msgs' = [msgs EXCEPT ![cmd[c].net] = msgs[Empty], ![Empty] = {}]
        PROVE  \A m \in msgs'[n] \cup proc'[n].mem : m.net = n
    <3>1. n = state[Empty]
      BY <1>0, <2>3, MoverIsOwner
    <3>2. msgs'[n] = msgs[Empty]
      BY <1>0, <2>1, <2>3 DEF TypeOK
    <3> QED  BY <2>2, <2>3, <3>1, <3>2 DEF Sorted
  <2> QED  BY <1>0, <2>1, <2>2, <2>3, KeySteps
<1>9. ASSUME NEW c \in Cmds, cmd'[c].at \in {"attach", "state"} PROVE msgs'[Empty] = {}
  <2>1. CASE cmd'[c] = cmd[c]
    <3>1. msgs[Empty] = {} /\ proc[Empty].pc = "off"
      BY <1>9, <2>1 DEF Sorted, Gone, At, Installing
    <3>2. ASSUME NEW d \in Cmds, cmd[d].net \in Networks,
                 msgs' = [msgs EXCEPT ![cmd[d].net] = msgs[Empty], ![Empty] = {}]
          PROVE  msgs'[Empty] = {}
      BY <1>0, <3>2, KeyFacts DEF TypeOK
    <3>3. ~Delete(Empty)
      BY <3>1 DEF Delete
    <3> QED  BY <1>0, <3>1, <3>2, <3>3, KeySteps
  <2>2. CASE MoveMsgs(c)
    <3>1. cmd[c].net \in Networks
      BY <1>0, <2>2 DEF MoveMsgs, At, NetsKnown, Installing
    <3> QED  BY <1>0, <2>2, <3>1, KeyFacts DEF MoveMsgs, Orderly, TypeOK
  <2>3. CASE MoveAttach(c)
    BY <2>3 DEF MoveAttach, Sorted, At
  <2>4. ASSUME Migrate(c) \/ MoveState(c) \/ SaveState(c) \/ WriteEnv(c) \/ RestartUnit(c)
        PROVE  FALSE
    BY <1>0, <1>9, <2>4 DEF Migrate, MoveState, SaveState, WriteEnv, RestartUnit, Advance, TypeOK,
                            CmdType
  <2> QED  BY <1>0, <1>9, <2>1, <2>2, <2>3, <2>4, CmdSteps DEF Installing
<1> QED  BY <1>4, <1>5, <1>6, <1>7, <1>8, <1>9 DEF Sorted, At

LEMMA SortedAlways == ASSUME Orderly PROVE Spec => []Sorted
<1>1. Init => Sorted
  <2> SUFFICES ASSUME Init PROVE Sorted
    OBVIOUS
  <2>1. \A k \in Keys : msgs[k] = {} /\ proc[k].mem = {}
    BY RestartedOff, KeyFacts DEF Init
  <2>2. state[Empty] \in Networks /\ proc[Empty].pc = "starting" /\ \A c \in Cmds : cmd[c].at = "idle"
    BY RestartedOff, KeyFacts DEF Init, Orderly
  <2> QED  BY <2>1, <2>2, KeyFacts DEF Sorted, At
<1>2. IInv /\ Gone /\ Sorted /\ [Next]_vars => Sorted'
  BY SortedStep
<1> QED  BY <1>1, <1>2, IInvAlways, GoneAlways, PTL DEF Spec, Orderly

\* Boards are isolated (PLAN_tetron_messageboard_multiboard.md:176): for an
\* orderly operator the log of a network has only what was posted on it, through
\* interrupted installs, crashes and reinstalls.
THEOREM BoardsStayApart == ASSUME Orderly PROVE Spec => []NoForeignRows
<1>1. Sorted => NoForeignRows
  BY DEF Sorted, NoForeignRows
<1> QED  BY <1>1, SortedAlways, PTL

-----------------------------------------------------------------------------
(* No message is lost on the way to its network's board.                   *)

\* While the legacy unit is there no other board has begun.
Fresh ==
    legacyUnit => env = {} /\ \A n \in Networks : proc[n].pc = "off" /\ msgs[n] = {}

\* While the legacy log waits to be moved, its network's board has not begun.
Waiting ==
    \A n \in Networks :
        msgs[Empty] # {} /\ state[Empty] = n =>
            /\ msgs[n] = {} /\ proc[n].pc = "off" /\ n \notin env
            /\ \A c \in Cmds : cmd[c].net = n => cmd[c].at \notin Moved

\* A row is in the log of its network or on its way there, and what is in a log
\* the process has read.
Kept ==
    /\ \A n \in Networks : {m \in posted : m.net = n} \subseteq msgs[n] \cup msgs[Empty]
    /\ \A k \in Keys : proc[k].pc \in {"binding", "serving"} => msgs[k] \subseteq proc[k].mem

LEMMA FreshStep ==
    ASSUME IInv, Gone, Fresh, [Next]_vars
    PROVE  Fresh'
<1> SUFFICES ASSUME legacyUnit'
             PROVE  env' = {} /\ \A n \in Networks : proc'[n].pc = "off" /\ msgs'[n] = {}
  BY DEF Fresh
<1>0. TypeOK /\ NetsKnown /\ OwnNet /\ Numbered
  BY DEF IInv
<1>1. legacyUnit
  BY <1>0, UnitSteps
<1>2. \A c \in Cmds : cmd[c].at \notin Installing
  BY <1>1 DEF Gone
<1>3. env' = {}
  BY <1>0, <1>1, <1>2, UnitSteps DEF Fresh, At, Installing
<1>4. ASSUME NEW n \in Networks PROVE proc'[n].pc = "off" /\ msgs'[n] = {}
  <2>1. n \in Keys /\ n \notin Instances /\ proc[n].pc = "off" /\ msgs[n] = {}
    BY <1>1, KeyFacts DEF Instances, Fresh
  <2>2. proc'[n].pc = "off"
    BY <1>0, <2>1, Starts
  <2>3. ~Delete(n) /\ \A c \in Cmds : ~MoveMsgs(c)
    BY <1>2, <2>1 DEF Delete, MoveMsgs, At, Installing
  <2> QED  BY <1>0, <2>1, <2>2, <2>3, KeySteps
<1> QED  BY <1>3, <1>4

\* Without its unit the legacy board gets no rows that it did not have.
LEMMA LegacyRowsStay ==
    ASSUME Orderly, IInv, Gone, [Next]_vars, ~legacyUnit', msgs'[Empty] # {}
    PROVE  msgs[Empty] # {}
<1>0. TypeOK /\ NetsKnown /\ OwnNet /\ Numbered /\ Gone' /\ Empty \in Keys
  BY GoneStep, KeyFacts DEF IInv, Orderly
<1>1. ASSUME NEW c \in Cmds, cmd[c].net \in Networks,
             msgs' = [msgs EXCEPT ![cmd[c].net] = msgs[Empty], ![Empty] = {}]
      PROVE  FALSE
  BY <1>0, <1>1 DEF TypeOK
<1>2. ~Post(Empty) /\ ~Delete(Empty)
  <2>1. Post(Empty) \/ Delete(Empty) => legacyUnit' = legacyUnit /\ proc[Empty].pc = "serving"
    BY DEF Post, Delete, units
  <2> QED  BY <2>1 DEF Gone
<1> QED  BY <1>0, <1>1, <1>2, KeySteps

LEMMA WaitingStep ==
    ASSUME Orderly, IInv, Gone, Sorted, Fresh, Waiting, [Next]_vars
    PROVE  Waiting'
<1> SUFFICES ASSUME NEW n \in Networks, msgs'[Empty] # {}, state'[Empty] = n
             PROVE  /\ msgs'[n] = {} /\ proc'[n].pc = "off" /\ n \notin env'
                    /\ \A c \in Cmds : cmd'[c].net = n => cmd'[c].at \notin Moved
  BY DEF Waiting
<1>0. /\ TypeOK /\ NetsKnown /\ OwnNet /\ Numbered /\ Claimed /\ Gone' /\ Fresh'
      /\ n \in Keys /\ n # Empty /\ Empty \in Keys
  BY GoneStep, FreshStep, KeyFacts DEF IInv, Orderly
<1>1. state[Empty] = n
  BY <1>0, PinStays, NameAssumption
<1>2. CASE legacyUnit'
  BY <1>0, <1>2, StageFacts DEF Fresh, Gone
<1>3. CASE ~legacyUnit'
  <2>1. ASSUME NEW c \in Cmds, cmd[c].net \in Networks,
               msgs' = [msgs EXCEPT ![cmd[c].net] = msgs[Empty], ![Empty] = {}]
        PROVE  msgs'[Empty] = {}
    BY <1>0, <2>1 DEF TypeOK
  <2>3. msgs[Empty] # {}
    BY <1>3, LegacyRowsStay
  <2>4. /\ msgs[n] = {} /\ proc[n].pc = "off" /\ n \notin env
        /\ \A c \in Cmds : cmd[c].net = n => cmd[c].at \notin Moved
    BY <1>1, <2>3 DEF Waiting
  <2>5. proc'[n].pc = "off"
    BY <1>0, <2>4, Starts DEF Instances
  <2>6. msgs'[n] = {}
    <3>1. ~Delete(n)
      BY <2>4 DEF Delete
    <3> QED  BY <1>0, <2>1, <2>4, <3>1, KeySteps
  <2>7. n \notin env'
    BY <1>0, <2>4, UnitSteps DEF At, Moved, Installing
  <2>8. ASSUME NEW c \in Cmds, cmd'[c].net = n, cmd'[c].at \in Moved PROVE FALSE
    <3>1. cmd'[c].at \in Installing /\ cmd'[c].at # "migrate"
      BY <2>8 DEF Moved, Installing
    <3>2. cmd'[c] # cmd[c]
      BY <2>4, <2>8
    <3>3. cmd[c].net = n /\ cmd[c].at \in Installing /\ cmd[c].at \notin Moved
      BY <1>0, <2>4, <2>8, <3>1, <3>2, CmdSteps
    <3>4. ~Migrate(c)
      <4>1. LegacyData /\ MayClaim(n)
        BY <1>1, <2>3 DEF LegacyData, MayClaim, Named
      <4>2. Migrate(c) => cmd'[c].at = "msgs"
        BY <1>0, <2>4, <3>3, <4>1 DEF Migrate, Advance, TypeOK, CmdType
      <4> QED  BY <2>8, <4>2 DEF Moved
    <3>5. ~MoveMsgs(c)
      <4>1. MoveMsgs(c) => msgs' = [msgs EXCEPT ![cmd[c].net] = msgs[Empty], ![Empty] = {}]
        BY <2>3 DEF MoveMsgs, Orderly
      <4> QED  BY <2>1, <3>3, <4>1
    <3>6. ~MoveAttach(c) /\ ~MoveState(c) /\ ~SaveState(c) /\ ~WriteEnv(c) /\ ~RestartUnit(c)
      BY <3>3 DEF MoveAttach, MoveState, SaveState, WriteEnv, RestartUnit, At, Moved, Installing
    <3> QED  BY <1>0, <3>1, <3>2, <3>4, <3>5, <3>6, CmdSteps
  <2> QED  BY <2>5, <2>6, <2>7, <2>8
<1> QED  BY <1>2, <1>3

LEMMA KeptStep ==
    ASSUME Orderly, IInv, Gone, Sorted, Waiting, Kept, [Next]_vars
    PROVE  Kept'
<1>0. TypeOK /\ NetsKnown /\ OwnNet /\ Numbered /\ Claimed /\ Empty \in Keys /\ Networks \subseteq Keys
  BY KeyFacts DEF IInv
<1>1. ASSUME NEW c \in Cmds, MoveMsgs(c), msgs[Empty] # {}, cmd[c].net \in Networks,
             msgs' = [msgs EXCEPT ![cmd[c].net] = msgs[Empty], ![Empty] = {}]
      PROVE  /\ cmd[c].net = state[Empty] /\ msgs[cmd[c].net] = {}
             /\ proc[cmd[c].net].pc = "off"
             /\ msgs'[Empty] = {} /\ msgs'[cmd[c].net] = msgs[Empty]
  <2>1. cmd[c].net = state[Empty]
    BY <1>0, <1>1, MoverIsOwner
  <2>2. msgs[cmd[c].net] = {} /\ proc[cmd[c].net].pc = "off"
    BY <1>1, <2>1 DEF Waiting
  <2> QED  BY <1>0, <1>1, <2>1, <2>2, KeyFacts DEF TypeOK
<1>2. ASSUME NEW k \in Keys, Delete(k) PROVE msgs[k] \subseteq proc[k].mem
  BY <1>2 DEF Delete, Kept
<1>3. ASSUME NEW n \in Networks, NEW m \in posted, m.net = n
      PROVE  m \in msgs'[n] \cup msgs'[Empty]
  <2>1. CASE m \in msgs[n]
    <3>1. n \in Keys /\ n # Empty
      BY KeyFacts
    <3> QED  BY <1>0, <1>1, <1>2, <2>1, <3>1, KeySteps
  <2>2. CASE m \in msgs[Empty]
    <3>1. m.net = state[Empty]
      BY <2>2 DEF Sorted
    <3> QED  BY <1>0, <1>1, <1>2, <1>3, <2>2, <3>1, KeySteps
  <2> QED  BY <1>3, <2>1, <2>2 DEF Kept
<1>4. ASSUME NEW n \in Networks, NEW m \in posted', m \notin posted, m.net = n
      PROVE  m \in msgs'[n] \cup msgs'[Empty]
  <2>1. PICK k \in Keys : Post(k)
    <3>1. \A k \in Keys : Boot(k) \/ Resolve(k) \/ Bind(k) \/ Delete(k) => posted' = posted
      BY DEF Boot, Resolve, Bind, Delete
    <3>2. \A c \in Cmds : MoveMsgs(c) => posted' = posted
      BY DEF MoveMsgs
    <3> QED  BY <1>0, <1>4, <3>1, <3>2, RowSteps
  <2>2. m.net = proc[k].net /\ proc[k].pc = "serving" /\ m \in msgs'[k]
    BY <1>0, <1>4, <2>1, PostAdds
  <2>3. k = Empty \/ k = n
    BY <1>0, <1>4, <2>2 DEF OwnNet
  <2> QED  BY <2>2, <2>3
<1>5. ASSUME NEW k \in Keys, proc'[k].pc \in {"binding", "serving"}
      PROVE  msgs'[k] \subseteq proc'[k].mem
  <2>1. CASE Post(k)
    <3>1. msgs[k] \subseteq proc[k].mem
      BY <2>1 DEF Post, Kept
    <3> QED  BY <1>0, <2>1, <3>1, PostAdds
  <2>2. CASE Delete(k)
    BY <1>0, <2>2 DEF Delete, TypeOK
  <2>3. ASSUME NEW c \in Cmds, MoveMsgs(c), proc' = proc, msgs[Empty] # {},
               k \in {Empty, cmd[c].net}, cmd[c].net \in Networks,
               msgs' = [msgs EXCEPT ![cmd[c].net] = msgs[Empty], ![Empty] = {}]
        PROVE  msgs'[k] \subseteq proc'[k].mem
    BY <1>1, <1>5, <2>3
  <2>4. CASE msgs'[k] = msgs[k] /\ ~Post(k)
    <3>1. proc[k].pc \in {"binding", "serving"} => msgs[k] \subseteq proc[k].mem
      BY DEF Kept
    <3> QED  BY <1>0, <1>5, <2>4, <3>1, ProcSteps, RestartedOff
  <2> QED  BY <1>0, <2>1, <2>2, <2>3, <2>4, KeySteps
<1> QED  BY <1>3, <1>4, <1>5 DEF Kept

LEMMA KeptAlways == ASSUME Orderly PROVE Spec => [](Fresh /\ Waiting /\ Kept)
<1>1. Init => Fresh /\ Waiting /\ Kept
  <2> SUFFICES ASSUME Init PROVE Fresh /\ Waiting /\ Kept
    OBVIOUS
  <2>1. \A k \in Keys : msgs[k] = {}
    BY DEF Init
  <2>2. posted = {} /\ env = {}
    BY DEF Init
  <2>3. \A n \in Networks : proc[n].pc = "off"
    BY RestartedOff, KeyFacts DEF Init
  <2> QED  BY <2>1, <2>2, <2>3, KeyFacts DEF Fresh, Waiting, Kept
<1>2. IInv /\ Gone /\ Sorted /\ Fresh /\ Waiting /\ Kept /\ [Next]_vars => (Fresh /\ Waiting /\ Kept)'
  BY FreshStep, WaitingStep, KeptStep
<1> QED  BY <1>1, <1>2, IInvAlways, GoneAlways, SortedAlways, PTL DEF Spec, Orderly

\* The board of a network shows every message that was ever posted on it, those
\* of the legacy board too (main.rs:132-133), for an orderly operator, however
\* often installs are interrupted and boards crash.
THEOREM MessagesAreKept == ASSUME Orderly PROVE Spec => []KeepsMessages
<1>1. Sorted /\ Waiting /\ Kept => KeepsMessages
  <2> SUFFICES ASSUME Sorted, Waiting, Kept, NEW n \in Networks, proc[n].pc = "serving",
                      NEW m \in posted, m.net = n
               PROVE  m \in proc[n].mem
    BY DEF KeepsMessages
  <2>1. m \notin msgs[Empty]
    BY DEF Sorted, Waiting
  <2> QED  BY <2>1, KeyFacts DEF Kept
<1> QED  BY <1>1, SortedAlways, KeptAlways, PTL

-----------------------------------------------------------------------------
(* Images go where their messages go.                                      *)

Imaged(S) == {m \in S : m.img}
Rows(k) == msgs[k] \cup proc[k].mem

\* The images of the rows of a key are in its directory.
HasImages(k) ==
    Imaged(Rows(k)) = {} \/ (attach[k] # NoDir /\ Imaged(Rows(k)) \subseteq attach[k])

\* Where legacy data may still be moved to there is no directory yet, so that
\* the move of theirs is not passed over.
Unbegun ==
    \A n \in Networks :
        legacyUnit \/ (msgs[Empty] # {} /\ state[Empty] = n) => attach[n] = NoDir

\* The log has been moved, and the images are about to be.
Landing(n) ==
    /\ \E c \in Cmds : At(c, "attach") /\ cmd[c].net = n
    /\ proc[n].pc = "off"
    /\ attach[n] = NoDir /\ attach[Empty] # NoDir
    /\ Imaged(Rows(n)) \subseteq attach[Empty]

ImageInv == HasImages(Empty) /\ \A n \in Networks : HasImages(n) \/ Landing(n)

\* What a step may do to the images of one key.
LEMMA AttachSteps ==
    ASSUME TypeOK, NetsKnown, [Next]_vars, NEW k \in Keys
    PROVE  \/ attach'[k] = attach[k]
           \/ Resolve(k) /\ attach[k] = NoDir /\ attach'[k] = {}
           \/ Post(k)
           \/ \E c \in Cmds : /\ MoveAttach(c) /\ AttachMoves(cmd[c].net)
                              /\ k \in {Empty, cmd[c].net} /\ cmd[c].net \in Networks
                              /\ UNCHANGED <<msgs, proc>>
                              /\ attach'[cmd[c].net] = attach[Empty] /\ attach'[Empty] = NoDir
<1> USE DEF dirs, units
<1>1. ASSUME NEW c \in Cmds
      PROVE  /\ Install(c) \/ Uninstall(c) \/ RestartAll(c) => UNCHANGED attach
             /\ Migrate(c) \/ MoveMsgs(c) \/ MoveState(c) \/ SaveState(c) => UNCHANGED attach
             /\ WriteEnv(c) \/ RestartUnit(c) \/ Probe(c) \/ Stop(c) => UNCHANGED attach
             /\ Unregister(c) \/ RestartOne(c) \/ Interrupt(c) => UNCHANGED attach
  BY DEF Install, Uninstall, RestartAll, Migrate, MoveMsgs, MoveState, SaveState, WriteEnv,
         RestartUnit, Probe, Stop, Unregister, RestartOne, Interrupt
<1>2. ASSUME NEW c \in Cmds, MoveAttach(c), ~UNCHANGED attach
      PROVE  /\ AttachMoves(cmd[c].net) /\ cmd[c].net \in Networks /\ UNCHANGED <<msgs, proc>>
             /\ attach'[cmd[c].net] = attach[Empty] /\ attach'[Empty] = NoDir
             /\ \A j \in Keys : j \notin {Empty, cmd[c].net} => attach'[j] = attach[j]
  <2>1. cmd[c].net \in Networks /\ cmd[c].net \in Keys /\ cmd[c].net # Empty /\ Empty \in Keys
    BY <1>2, KeyFacts DEF MoveAttach, At, NetsKnown, Installing
  <2> QED  BY <1>2, <2>1 DEF MoveAttach, TypeOK
<1>3. ASSUME NEW j \in Keys, Resolve(j) \/ Post(j), j # k PROVE attach'[k] = attach[k]
  BY <1>3 DEF Resolve, Post, TypeOK
<1>4. Resolve(k) => attach'[k] = IF attach[k] = NoDir THEN {} ELSE attach[k]
  BY DEF Resolve, TypeOK
<1>5. ASSUME NEW j \in Keys, Boot(j) \/ Bind(j) \/ Delete(j) \/ Crash(j) PROVE UNCHANGED attach
  BY <1>5 DEF Boot, Bind, Delete, Crash
<1>6. \A n \in Networks : Join(n) => UNCHANGED attach
  BY DEF Join
<1> QED  BY <1>1, <1>2, <1>3, <1>4, <1>5, <1>6 DEF Next, Serve, Proceed, vars

\* A post adds its row and, if it has an image, the image.
LEMMA PostImages ==
    ASSUME TypeOK, OwnNet, Numbered, NEW k \in Keys, Post(k)
    PROVE  \E m \in Row : /\ Rows(k)' = Rows(k) \cup {m}
                          /\ IF m.img THEN /\ attach[k] # NoDir
                                           /\ attach'[k] = attach[k] \cup {m}
                                      ELSE attach'[k] = attach[k]
<1>1. PICK img \in BOOLEAN :
          LET m == [net |-> proc[k].net, no |-> Cardinality(posted), img |-> img] IN
          /\ img => attach[k] # NoDir
          /\ proc' = [proc EXCEPT ![k].mem = @ \cup {m}]
          /\ msgs' = [msgs EXCEPT ![k] = @ \cup {m}]
          /\ attach' = [attach EXCEPT ![k] = IF img THEN @ \cup {m} ELSE @]
  BY DEF Post
<1> DEFINE m == [net |-> proc[k].net, no |-> Cardinality(posted), img |-> img]
<1>2. m \in Row /\ m.img = img
  BY FreshRow DEF Post
<1> HIDE DEF m
<1>3. /\ m.img => attach[k] # NoDir
      /\ proc' = [proc EXCEPT ![k].mem = @ \cup {m}]
      /\ msgs' = [msgs EXCEPT ![k] = @ \cup {m}]
      /\ attach' = [attach EXCEPT ![k] = IF m.img THEN @ \cup {m} ELSE @]
  BY <1>1, <1>2 DEF m
<1>4. msgs'[k] = msgs[k] \cup {m} /\ proc'[k].mem = proc[k].mem \cup {m}
  BY <1>3 DEF TypeOK, ProcType
<1>5. attach'[k] = IF m.img THEN attach[k] \cup {m} ELSE attach[k]
  BY <1>3 DEF TypeOK
<1> QED  BY <1>2, <1>3, <1>4, <1>5 DEF Rows

\* Unless rows are moved to a key, or images away from it, its rows keep theirs.
LEMMA ImagesStay ==
    ASSUME NoDir \notin SUBSET Row, TypeOK, NetsKnown, OwnNet, Numbered, [Next]_vars,
           NEW k \in Keys, HasImages(k),
           \A c \in Cmds : MoveMsgs(c) /\ msgs[Empty] # {} => cmd[c].net # k,
           \A c \in Cmds : MoveAttach(c) => k # Empty
    PROVE  HasImages(k)'
<1>1. attach[k] \in (SUBSET Row) \cup {NoDir}
  BY DEF TypeOK
<1>2. CASE Post(k)
  <2>1. PICK m \in Row : /\ Rows(k)' = Rows(k) \cup {m}
                         /\ IF m.img THEN /\ attach[k] # NoDir
                                          /\ attach'[k] = attach[k] \cup {m}
                                     ELSE attach'[k] = attach[k]
    BY <1>2, PostImages
  <2>2. CASE m.img
    <3>1. attach'[k] = attach[k] \cup {m} /\ attach[k] \in SUBSET Row
      BY <1>1, <2>1, <2>2
    <3>2. attach'[k] # NoDir
      BY <3>1
    <3>3. Imaged(Rows(k)) \subseteq attach[k]
      BY DEF HasImages
    <3> QED  BY <2>1, <3>1, <3>2, <3>3 DEF HasImages, Imaged
  <2>3. CASE ~m.img
    <3>1. Imaged(Rows(k)') = Imaged(Rows(k)) /\ attach'[k] = attach[k]
      BY <2>1, <2>3 DEF Imaged
    <3> QED  BY <3>1 DEF HasImages, Imaged
  <2> QED  BY <2>2, <2>3
<1>3. CASE ~Post(k)
  <2>1. Rows(k)' \subseteq Rows(k)
    <3>1. ASSUME NEW c \in Cmds, k = Empty, cmd[c].net \in Networks,
                 msgs' = [msgs EXCEPT ![cmd[c].net] = msgs[Empty], ![Empty] = {}]
          PROVE  msgs'[k] = {}
      BY <3>1, KeyFacts DEF TypeOK
    <3> QED  BY <1>3, <3>1, KeySteps DEF Rows
  <2>2. Imaged(Rows(k)') \subseteq Imaged(Rows(k))
    BY <2>1 DEF Imaged
  <2>3. attach'[k] = attach[k] \/ Imaged(Rows(k)) = {}
    BY <1>3, AttachSteps DEF AttachMoves, HasImages
  <2>4. CASE Imaged(Rows(k)) = {}
    BY <2>2, <2>4 DEF HasImages, Imaged
  <2>5. CASE Imaged(Rows(k)) # {}
    <3>1. attach'[k] # NoDir /\ Imaged(Rows(k)) \subseteq attach'[k]
      BY <2>3, <2>5 DEF HasImages
    <3> QED  BY <2>2, <3>1 DEF HasImages, Imaged
  <2> QED  BY <2>4, <2>5
<1> QED  BY <1>2, <1>3

LEMMA UnbegunStep ==
    ASSUME Orderly, IInv, Gone, Fresh, Waiting, Unbegun, [Next]_vars
    PROVE  Unbegun'
<1> SUFFICES ASSUME NEW n \in Networks,
                    legacyUnit' \/ (~legacyUnit' /\ msgs'[Empty] # {} /\ state'[Empty] = n)
             PROVE  attach'[n] = NoDir
  BY DEF Unbegun
<1>0. TypeOK /\ NetsKnown /\ n \in Keys /\ n # Empty
  BY KeyFacts DEF IInv
<1>1. /\ attach[n] = NoDir /\ proc[n].pc = "off"
      /\ \A c \in Cmds : cmd[c].net = n => cmd[c].at # "attach"
  <2>1. CASE legacyUnit'
    <3>1. legacyUnit
      BY <1>0, <2>1, UnitSteps
    <3> QED  BY <3>1 DEF Unbegun, Fresh, Gone, Installing
  <2>2. CASE ~legacyUnit' /\ msgs'[Empty] # {} /\ state'[Empty] = n
    <3>1. msgs[Empty] # {}
      BY <2>2, LegacyRowsStay
    <3>2. state[Empty] = n
      BY <1>0, <2>2, PinStays, NameAssumption
    <3> QED  BY <3>1, <3>2 DEF Unbegun, Waiting, Moved, Installing
  <2> QED  BY <2>1, <2>2
<1>2. ~Resolve(n) /\ ~Post(n)
  BY <1>1 DEF Resolve, Post
<1>3. \A c \in Cmds : MoveAttach(c) => cmd[c].net # n
  BY <1>1 DEF MoveAttach, At
<1> QED  BY <1>0, <1>1, <1>2, <1>3, AttachSteps

\* What is landing lands: the rename follows the move of the log, and nobody
\* touches either directory in between.
LEMMA LandingStep ==
    ASSUME Orderly, "kill" \notin Faults, IInv, Gone, [Next]_vars, NEW n \in Networks, Landing(n)
    PROVE  (HasImages(n) \/ Landing(n))'
<1>0. /\ TypeOK /\ NetsKnown /\ OwnNet /\ Numbered
      /\ n \in Keys /\ n # Empty /\ Empty \in Keys
  BY KeyFacts DEF IInv
<1>1. PICK c \in Cmds : At(c, "attach") /\ cmd[c].net = n
  BY DEF Landing
<1>2. proc[Empty].pc = "off" /\ \A d \in Cmds : d = c
  BY <1>1 DEF Gone, At, Installing, Orderly, Disciplined
<1>3. CASE MoveAttach(c)
  <2>1. AttachMoves(n)
    BY DEF Landing, AttachMoves
  <2>2. attach' = [attach EXCEPT ![n] = attach[Empty], ![Empty] = NoDir] /\ UNCHANGED <<msgs, proc>>
    BY <1>1, <1>3, <2>1 DEF MoveAttach, Orderly
  <2>3. attach'[n] = attach[Empty] /\ UNCHANGED Rows(n)
    BY <1>0, <2>2 DEF TypeOK, Rows
  <2>4. attach'[n] # NoDir /\ Imaged(Rows(n)) \subseteq attach'[n]
    BY <2>3 DEF Landing
  <2> QED  BY <2>3, <2>4 DEF HasImages, Imaged
<1>4. CASE ~MoveAttach(c)
  <2>1. /\ ~Install(c) /\ ~Uninstall(c) /\ ~RestartAll(c) /\ ~Migrate(c) /\ ~MoveMsgs(c)
        /\ ~MoveState(c) /\ ~SaveState(c) /\ ~WriteEnv(c) /\ ~RestartUnit(c) /\ ~Probe(c)
        /\ ~Stop(c) /\ ~Unregister(c) /\ ~RestartOne(c) /\ ~Interrupt(c)
    BY <1>1 DEF Install, Uninstall, RestartAll, Command, Ended, Migrate, MoveMsgs, MoveState,
                SaveState, WriteEnv, RestartUnit, Probe, Stop, Unregister, RestartOne, Interrupt, At
  <2>2. cmd'[c] = cmd[c]
    BY <1>0, <1>4, <2>1, CmdActs DEF Proceed
  <2>3. proc'[n].pc = "off"
    BY <1>0, <1>2, <2>1, Starts DEF Landing
  <2>4. ~Post(n) /\ ~Delete(n) /\ ~Resolve(n) /\ ~Post(Empty) /\ ~Resolve(Empty)
    BY <1>2 DEF Landing, Post, Delete, Resolve
  <2>5. \A d \in Cmds : ~MoveMsgs(d) /\ ~MoveAttach(d)
    BY <1>2, <1>4, <2>1
  <2>6. attach'[n] = attach[n] /\ attach'[Empty] = attach[Empty]
    BY <1>0, <2>4, <2>5, AttachSteps
  <2>7. Rows(n)' \subseteq Rows(n)
    BY <1>0, <2>4, <2>5, KeySteps DEF Rows
  <2>8. Imaged(Rows(n)') \subseteq attach'[Empty]
    BY <2>6, <2>7 DEF Landing, Imaged
  <2> QED  BY <1>1, <2>2, <2>3, <2>6, <2>8 DEF Landing, At, Imaged
<1> QED  BY <1>3, <1>4

\* A log that is moved takes along rows whose images are there to follow, to where
\* there is no directory yet.
LEMMA TakeoffStep ==
    ASSUME Orderly, IInv, Gone, Sorted, Waiting, Unbegun, HasImages(Empty), [Next]_vars,
           NEW n \in Networks, HasImages(n),
           NEW c \in Cmds, MoveMsgs(c), msgs[Empty] # {}, cmd[c].net = n
    PROVE  (HasImages(n) \/ Landing(n))'
<1>0. TypeOK /\ Claimed /\ n \in Keys /\ n # Empty /\ Empty \in Keys
  BY KeyFacts DEF IInv
<1>1. n = state[Empty]
  BY <1>0, MoverIsOwner
<1>2. attach[n] = NoDir /\ proc[n].pc = "off"
  BY <1>1 DEF Unbegun, Waiting
<1>3. Imaged(Rows(n)) = {}
  BY <1>2 DEF HasImages
<1>4. /\ msgs' = [msgs EXCEPT ![n] = msgs[Empty], ![Empty] = {}]
      /\ UNCHANGED <<attach, proc>> /\ cmd' = [cmd EXCEPT ![c].at = "attach"]
  BY DEF MoveMsgs, Orderly, Advance
<1>5. Rows(n)' = msgs[Empty] \cup proc[n].mem
  BY <1>0, <1>4 DEF Rows, TypeOK
<1>6. Imaged(Rows(n)') \subseteq Imaged(Rows(Empty))
  BY <1>3, <1>5 DEF Imaged, Rows
<1>7. At(c, "attach")' /\ cmd'[c].net = n
  BY <1>0, <1>4 DEF At, TypeOK, CmdType
<1>8. CASE Imaged(Rows(Empty)) = {}
  BY <1>6, <1>8 DEF HasImages, Imaged
<1>9. CASE Imaged(Rows(Empty)) # {}
  <2>1. attach[Empty] # NoDir /\ Imaged(Rows(n)') \subseteq attach[Empty]
    BY <1>6, <1>9 DEF HasImages
  <2> QED  BY <1>2, <1>4, <1>7, <2>1 DEF Landing, Imaged
<1> QED  BY <1>8, <1>9

LEMMA ImageStep ==
    ASSUME NoDir \notin SUBSET Row, Orderly, "kill" \notin Faults,
           IInv, Gone, Sorted, Waiting, Unbegun, ImageInv, [Next]_vars
    PROVE  ImageInv'
<1>0. TypeOK /\ NetsKnown /\ OwnNet /\ Numbered /\ Empty \in Keys
  BY KeyFacts DEF IInv
<1>1. HasImages(Empty)'
  <2>1. CASE \E c \in Cmds : MoveAttach(c)
    <3>1. PICK c \in Cmds : MoveAttach(c)
      BY <2>1
    <3>2. msgs[Empty] = {} /\ proc[Empty].mem = {}
      BY <3>1 DEF MoveAttach, Sorted, Gone, At, Installing
    <3>3. Rows(Empty)' = {}
      BY <3>1, <3>2 DEF MoveAttach, Rows
    <3> QED  BY <3>3 DEF HasImages, Imaged
  <2>2. CASE \A c \in Cmds : ~MoveAttach(c)
    <3>1. \A c \in Cmds : MoveMsgs(c) => cmd[c].net # Empty
      BY <1>0, KeyFacts DEF MoveMsgs, At, NetsKnown, Installing
    <3> QED  BY <1>0, <2>2, <3>1, ImagesStay DEF ImageInv
  <2> QED  BY <2>1, <2>2
<1>2. ASSUME NEW n \in Networks PROVE (HasImages(n) \/ Landing(n))'
  <2>1. CASE Landing(n)
    BY <2>1, LandingStep
  <2>2. CASE HasImages(n)
    <3>1. CASE \E c \in Cmds : MoveMsgs(c) /\ msgs[Empty] # {} /\ cmd[c].net = n
      BY <2>2, <3>1, TakeoffStep DEF ImageInv
    <3>2. CASE ~\E c \in Cmds : MoveMsgs(c) /\ msgs[Empty] # {} /\ cmd[c].net = n
      <4>1. HasImages(n)'
        BY <1>0, <2>2, <3>2, ImagesStay, KeyFacts
      <4> QED  BY <4>1
    <3> QED  BY <3>1, <3>2
  <2> QED  BY <2>1, <2>2 DEF ImageInv
<1> QED  BY <1>1, <1>2 DEF ImageInv

\* What the board of a network shows, it has the image of, also what was posted
\* on the legacy board: an install that runs to its end takes the attachments
\* after the log (config.rs:151-177), for an orderly operator, with boards that
\* crash at any point.  (NoDir is no set of rows: there is no such directory.)
THEOREM ImagesAreKept ==
    ASSUME NoDir \notin SUBSET Row, Orderly, "kill" \notin Faults
    PROVE  Spec => []ImagesFollow
<1>1. Init => Unbegun /\ ImageInv
  <2> SUFFICES ASSUME Init PROVE Unbegun /\ ImageInv
    OBVIOUS
  <2>1. \A k \in Keys : msgs[k] = {} /\ attach[k] = NoDir
    BY DEF Init
  <2>2. \A k \in Keys : proc[k].mem = {}
    BY RestartedOff, KeyFacts DEF Init
  <2>3. \A k \in Keys : HasImages(k)
    BY <2>1, <2>2 DEF HasImages, Rows, Imaged
  <2> QED  BY <2>1, <2>3, KeyFacts DEF Unbegun, ImageInv
<1>2. IInv /\ Gone /\ Sorted /\ Fresh /\ Waiting /\ Unbegun /\ ImageInv /\ [Next]_vars
        => (Unbegun /\ ImageInv)'
  BY UnbegunStep, ImageStep
<1>3. ImageInv => ImagesFollow
  <2> SUFFICES ASSUME ImageInv, NEW n \in Networks, proc[n].pc = "serving",
                      NEW m \in proc[n].mem, m.img
               PROVE  m \in attach[n]
    BY DEF ImagesFollow
  <2>1. HasImages(n)
    BY DEF ImageInv, Landing
  <2>2. m \in Imaged(Rows(n))
    BY DEF Imaged, Rows
  <2> QED  BY <2>1, <2>2 DEF HasImages
<1> QED  BY <1>1, <1>2, <1>3, IInvAlways, GoneAlways, SortedAlways, KeptAlways, PTL DEF Spec, Orderly
=============================================================================
