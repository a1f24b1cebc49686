-------------------------- MODULE BoardsRefinement --------------------------
(***************************************************************************)
(* Boards implements AbstractBoards for an orderly operator: what units,   *)
(* commands, directories, crashes and the migration do to the boards, those *)
(* who read them see boards come and go that show all of their network and *)
(* nothing else.                                                           *)
(***************************************************************************)
EXTENDS BoardsProofs

On(n) == {m \in posted : m.net = n}

\* A process that has loaded its log shows its network.
ShowsAll == \A k \in Keys : proc[k].pc \in {"binding", "serving"} => proc[k].mem = On(proc[k].net)

\* One process listens at an address.
OneListens == \A n \in Networks : \A j, k \in Listening(n) : j = k

\* So what readers of a network get is known when it is known that it has a board.
Answers == \A n \in Networks : Shown[n] = IF Listening(n) = {} THEN {} ELSE {On(n)}

-----------------------------------------------------------------------------
LEMMA ShowsAllHolds == IInv /\ Gone /\ Sorted /\ Fresh /\ Waiting /\ Kept => ShowsAll
<1> SUFFICES ASSUME IInv, Gone, Sorted, Fresh, Waiting, Kept,
                    NEW k \in Keys, proc[k].pc \in {"binding", "serving"}
             PROVE  proc[k].mem = On(proc[k].net)
  BY DEF ShowsAll
<1> DEFINE n == proc[k].net
<1>1. n \in Networks /\ (k # Empty => n = k)
  BY DEF IInv, OwnNet
<1>2. k = Empty => legacyUnit /\ n = state[Empty] /\ msgs[n] = {}
  BY <1>1 DEF Gone, Sorted, Fresh
<1>3. proc[k].mem \subseteq On(n)
  <2>1. proc[k].mem \subseteq posted
    BY DEF IInv, Numbered
  <2>2. \A m \in proc[k].mem : m.net = n
    BY <1>1, <1>2 DEF Sorted
  <2> QED  BY <2>1, <2>2 DEF On
<1>4. On(n) \subseteq msgs[k]
  <2>1. On(n) \subseteq msgs[n] \cup msgs[Empty]
    BY <1>1 DEF Kept, On
  <2>2. CASE k = Empty
    BY <1>2, <2>1, <2>2
  <2>3. CASE k # Empty
    <3>1. ASSUME NEW m \in On(n), m \in msgs[Empty] PROVE FALSE
      <4>1. state[Empty] = n
        BY <3>1 DEF Sorted, On
      <4> QED  BY <1>1, <2>3, <3>1, <4>1 DEF Waiting
    <3> QED  BY <1>1, <2>1, <2>3, <3>1
  <2> QED  BY <2>2, <2>3
<1> QED  BY <1>3, <1>4 DEF Kept

LEMMA OneListensHolds == IInv /\ Gone /\ Fresh => OneListens
<1> SUFFICES ASSUME IInv, Gone, Fresh, NEW n \in Networks,
                    NEW j \in Listening(n), NEW k \in Listening(n)
             PROVE  j = k
  BY DEF OneListens
<1>1. /\ j \in Keys /\ proc[j].pc = "serving" /\ proc[j].net = n
      /\ k \in Keys /\ proc[k].pc = "serving" /\ proc[k].net = n
  BY DEF Listening
<1>2. (j # Empty => n = j) /\ (k # Empty => n = k)
  BY <1>1 DEF IInv, OwnNet
<1>3. j = Empty \/ k = Empty => \A i \in Networks : proc[i].pc = "off"
  BY <1>1 DEF Gone, Fresh
<1> QED  BY <1>1, <1>2, <1>3

LEMMA AnswersHold == ShowsAll /\ OneListens => Answers
<1> SUFFICES ASSUME ShowsAll, OneListens, NEW n \in Networks
             PROVE  Shown[n] = IF Listening(n) = {} THEN {} ELSE {On(n)}
  BY DEF Answers
<1>1. Shown[n] = {proc[k].mem : k \in Listening(n)}
  BY DEF Shown
<1>2. \A k \in Listening(n) : proc[k].mem = On(n)
  BY DEF ShowsAll, Listening
<1> QED  BY <1>1, <1>2

-----------------------------------------------------------------------------
LEMMA InitRefines == Init => Abstract!Init
<1> SUFFICES ASSUME Init PROVE Abstract!Init
  OBVIOUS
<1>1. \A k \in Keys : proc[k].pc # "serving"
  BY RestartedOff, KeyFacts DEF Init
<1>2. Shown = [n \in Networks |-> {}]
  BY <1>1 DEF Shown, Listening
<1> QED  BY <1>2 DEF Init, Abstract!Init

\* A step is one of a single process.
LEMMA OneProc ==
    ASSUME TypeOK, NetsKnown, [Next]_vars
    PROVE  \E k \in Keys : /\ \A j \in Keys : j # k => proc'[j] = proc[j]
                           /\ Post(k) \/ UNCHANGED posted
<1>1. ASSUME NEW k \in Keys, Boot(k) \/ Resolve(k) \/ Bind(k) \/ Post(k) \/ Delete(k)
      PROVE  /\ \A j \in Keys : j # k => proc'[j] = proc[j]
             /\ Post(k) \/ UNCHANGED posted
  BY <1>1 DEF Boot, Resolve, Bind, Post, Delete, TypeOK
<1>2. \A c \in Cmds : MoveMsgs(c) => UNCHANGED <<proc, posted>>
  BY DEF MoveMsgs
<1>3. ASSUME NEW k \in Keys, Swapped(k, Off) \/ Swapped(k, Restarted(k))
      PROVE  \A j \in Keys : j # k => proc'[j] = proc[j]
  BY <1>3 DEF Swapped, TypeOK
<1> QED  BY <1>1, <1>2, <1>3, RowSteps, KeyFacts

\* A post is one for those who read the boards.
LEMMA PostRefines ==
    ASSUME IInv, Answers, Answers', NEW k \in Keys, Post(k)
    PROVE  Abstract!Next
<1>0. TypeOK /\ OwnNet /\ Numbered
  BY DEF IInv
<1>1. PICK m \in Row : /\ m \notin posted /\ posted' = posted \cup {m}
                       /\ m.net = proc[k].net /\ proc[k].pc = "serving"
                       /\ \A j \in Keys : j # k => proc'[j] = proc[j]
  BY <1>0, PostAdds
<1>2. PICK n \in Networks : n = proc[k].net
  BY <1>0, <1>1 DEF OwnNet
<1>3. proc'[k].pc = "serving" /\ proc'[k].net = n
  BY <1>0, <1>2 DEF Post, TypeOK, ProcType
<1>4. \A i \in Networks : Listening(i)' = Listening(i)
  BY <1>1, <1>2, <1>3 DEF Listening
<1>5. \A i \in Networks : i # n => On(i)' = On(i)
  BY <1>1, <1>2 DEF On
<1>6. k \in Listening(n)
  BY <1>1, <1>2 DEF Listening
<1>7. Shown[n] # {} /\ Shown'[n] = {On(n)'}
  BY <1>2, <1>4, <1>6 DEF Answers
<1>8. \A i \in Networks : i # n => Shown'[i] = Shown[i]
  BY <1>4, <1>5 DEF Answers
<1>9. Shown' = [Shown EXCEPT ![n] = {On(n)'}]
  BY <1>7, <1>8 DEF Shown
<1>10. Abstract!Post(n)
  BY <1>1, <1>2, <1>7, <1>9 DEF Abstract!Post, Abstract!On, On
<1> QED  BY <1>2, <1>10 DEF Abstract!Next

\* Whatever else is done, a board comes or goes, or readers see none of it.
LEMMA OtherRefines ==
    ASSUME IInv, OneListens, OneListens', Answers, Answers', [Next]_vars,
           NEW k \in Keys, \A j \in Keys : j # k => proc'[j] = proc[j], UNCHANGED posted
    PROVE  Abstract!Next \/ UNCHANGED Abstract!vars
<1>0. TypeOK /\ NetsKnown /\ OwnNet /\ Numbered
  BY DEF IInv
<1>1. \A n \in Networks : On(n)' = On(n)
  BY DEF On
<1>2. ~Post(k)
  BY <1>0, PostAdds
<1>3. CASE proc[k].pc = "serving" /\ proc'[k].pc # "serving"
  <2>1. PICK n \in Networks : n = proc[k].net /\ k \in Listening(n)
    BY <1>0, <1>3 DEF OwnNet, Listening
  <2>2. Listening(n)' = {}
    BY <1>3, <2>1 DEF OneListens, Listening
  <2>3. \A i \in Networks : i # n => Listening(i)' = Listening(i)
    BY <1>3, <2>1 DEF Listening
  <2>4. Shown[n] # {} /\ Shown' = [Shown EXCEPT ![n] = {}]
    <3>1. Shown[n] # {} /\ Shown'[n] = {}
      BY <2>1, <2>2 DEF Answers
    <3>2. \A i \in Networks : i # n => Shown'[i] = Shown[i]
      BY <1>1, <2>3 DEF Answers
    <3> QED  BY <3>1, <3>2 DEF Shown
  <2>5. Abstract!Stop(n)
    BY <2>4 DEF Abstract!Stop
  <2> QED  BY <2>1, <2>5 DEF Abstract!Next
<1>4. CASE proc[k].pc # "serving" /\ proc'[k].pc = "serving"
  <2>1. PICK n \in Networks : n = proc'[k].net
    BY <1>0, <1>4, ProcSteps, RestartedOff DEF OwnNet
  <2>2. k \in Listening(n)'
    BY <1>4, <2>1 DEF Listening
  <2>3. Listening(n) = {}
    <3>1. ASSUME NEW j \in Listening(n) PROVE FALSE
      <4>1. j # k /\ j \in Listening(n)'
        BY <1>4, <3>1 DEF Listening
      <4> QED  BY <2>1, <2>2, <4>1 DEF OneListens
    <3> QED  BY <3>1
  <2>4. \A i \in Networks : i # n => Listening(i)' = Listening(i)
    BY <1>4, <2>1 DEF Listening
  <2>5. Shown[n] = {} /\ Shown' = [Shown EXCEPT ![n] = {On(n)}]
    <3>1. Shown[n] = {} /\ Shown'[n] = {On(n)}
      BY <1>1, <2>1, <2>2, <2>3 DEF Answers
    <3>2. \A i \in Networks : i # n => Shown'[i] = Shown[i]
      BY <1>1, <2>4 DEF Answers
    <3> QED  BY <3>1, <3>2 DEF Shown
  <2>6. Abstract!Start(n)
    BY <2>5 DEF Abstract!Start, Abstract!On, On
  <2> QED  BY <2>1, <2>6 DEF Abstract!Next
<1>5. CASE (proc[k].pc = "serving") <=> (proc'[k].pc = "serving")
  <2>1. proc[k].pc = "serving" => proc'[k].net = proc[k].net
    BY <1>0, <1>2, <1>5, ProcSteps, RestartedOff
  <2>2. \A i \in Networks : Listening(i)' = Listening(i)
    BY <1>5, <2>1 DEF Listening
  <2>3. \A i \in Networks : Shown'[i] = Shown[i]
    BY <1>1, <2>2 DEF Answers
  <2>4. Shown' = Shown
    BY <2>3 DEF Shown
  <2> QED  BY <2>4 DEF Abstract!vars
<1> QED  BY <1>3, <1>4, <1>5

LEMMA StepRefines ==
    IInv /\ OneListens /\ OneListens' /\ Answers /\ Answers' /\ [Next]_vars
        => [Abstract!Next]_(Abstract!vars)
<1> SUFFICES ASSUME IInv, OneListens, OneListens', Answers, Answers', [Next]_vars
             PROVE  Abstract!Next \/ UNCHANGED Abstract!vars
  OBVIOUS
<1>1. PICK k \in Keys : /\ \A j \in Keys : j # k => proc'[j] = proc[j]
                        /\ Post(k) \/ UNCHANGED posted
  BY OneProc DEF IInv
<1> QED  BY <1>1, PostRefines, OtherRefines

\* What readers see of the boards of a node, from the legacy board on through the
\* migration, interrupted and repeated installs, removals and crashes, is a
\* behaviour of AbstractBoards, for an orderly operator (main.rs:132-133,
\* config.rs:151-177).
THEOREM BoardsImplementAbstract == ASSUME Orderly PROVE Spec => Implements
<1>1. IInv /\ Gone /\ Sorted /\ Fresh /\ Waiting /\ Kept => OneListens /\ Answers
  BY ShowsAllHolds, OneListensHolds, AnswersHold
<1>2. Spec => [](OneListens /\ Answers)
  <2>1. Spec => []Gone
    BY GoneAlways DEF Orderly
  <2> QED  BY <1>1, <2>1, IInvAlways, SortedAlways, KeptAlways, PTL
<1> QED  BY <1>2, IInvAlways, InitRefines, StepRefines, PTL DEF Spec, Implements, Abstract!Spec
=============================================================================
