---------------------------- MODULE ClientProofs ----------------------------
(***************************************************************************)
(* Theorems about Client for any items and any bounds.                     *)
(***************************************************************************)
EXTENDS Client, SequenceTheorems, WellFoundedInduction, TLAPS

Refreshes == [answered : BOOLEAN, list : SUBSET Message, late : BOOLEAN]

-----------------------------------------------------------------------------
(* Identifiers.                                                            *)

\* The bound by which the identifiers of a board have a largest one.
Bounded == \E b \in Nat : \A m \in board : m.id <= b

LEMMA NewId ==
    ASSUME NEW S \in SUBSET Message, NEW b \in Nat, \A m \in S : m.id <= b
    PROVE  /\ NextId(S) \in Nat \ {0}
           /\ \A m \in S : m.id < NextId(S)
<1> DEFINE Ids == {m.id : m \in S} \cup {0}
           Above == {n \in Nat : \A i \in Ids : i <= n}
<1>1. Ids \subseteq Nat /\ Above \subseteq Nat /\ b \in Above
  BY DEF Message
<1>2. PICK top \in Above : \A n \in Above : <<n, top>> \notin OpToRel(<, Nat)
  BY <1>1, NatLessThanWellFounded, WFMin
<1>3. top \in Nat /\ \A n \in Above : top <= n
  <2> HIDE DEF Above
  <2>1. \A n \in Above : ~(n < top)
    BY <1>1, <1>2 DEF OpToRel
  <2> QED  BY <1>1, <2>1
<1>4. top \in Ids
  <2>1. SUFFICES ASSUME top \notin Ids PROVE FALSE
    OBVIOUS
  <2>2. \A i \in Ids : i < top
    BY <1>1, <2>1
  <2>3. top - 1 \in Above
    BY <1>1, <2>2
  <2> QED  BY <1>1, <1>3, <2>3
<1>5. \E x \in Ids : \A y \in Ids : x >= y
  BY <1>1, <1>4
<1> DEFINE c == CHOOSE x \in Ids : \A y \in Ids : x >= y
<1>6. c \in Ids /\ \A y \in Ids : c >= y
  BY <1>5
<1>7. NextId(S) = c + 1
  BY DEF NextId, Max
<1> HIDE DEF c
<1>8. \A m \in S : m.id \in Ids
  OBVIOUS
<1> HIDE DEF Ids
<1>9. 0 \in Ids
  BY DEF Ids
<1>10. c \in Nat /\ \A m \in S : m.id \in Nat /\ c >= m.id
  BY <1>1, <1>6, <1>8
<1> QED  BY <1>7, <1>10

\* What a stored post adds.
LEMMA NewMessage ==
    ASSUME TypeOK, Bounded, NEW items \in SUBSET Items, NEW p \in Posts \cup {Elsewhere}
    PROVE  /\ New(items, p) \in Message
           /\ \A m \in board : m.id < New(items, p).id
           /\ New(items, p).body = items /\ New(items, p).post = p /\ ~New(items, p).deleted
<1>1. NextId(board) \in Nat \ {0} /\ \A m \in board : m.id < NextId(board)
  BY NewId DEF Bounded, TypeOK
<1> QED  BY <1>1 DEF New, Message

LEMMA WithoutType ==
    ASSUME NEW S \in SUBSET Message, NEW id
    PROVE  /\ Without(S, id) \in SUBSET Message
           /\ \A m \in S : \E n \in Without(S, id) :
                 n = m \/ n = [m EXCEPT !.deleted = TRUE]
           /\ \A n \in Without(S, id) : \E m \in S :
                 /\ n = m \/ (m.id = id /\ n = [m EXCEPT !.deleted = TRUE])
                 /\ n.id = m.id /\ n.body = m.body /\ n.post = m.post
<1> DEFINE G(m) == IF m.id = id THEN [m EXCEPT !.deleted = TRUE] ELSE m
<1>1. \A m \in S :
         /\ G(m) \in Message
         /\ G(m) = m \/ (m.id = id /\ G(m) = [m EXCEPT !.deleted = TRUE])
         /\ G(m).id = m.id /\ G(m).body = m.body /\ G(m).post = m.post
  BY DEF Message
<1>2. Without(S, id) = {G(m) : m \in S}
  BY DEF Without
<1> HIDE DEF G
<1>3. Without(S, id) \in SUBSET Message
  BY <1>1, <1>2
<1>4. \A m \in S : \E n \in Without(S, id) : n = m \/ n = [m EXCEPT !.deleted = TRUE]
  BY <1>1, <1>2
<1>5. \A n \in Without(S, id) : \E m \in S : n = G(m)
  BY <1>2
<1> QED  BY <1>1, <1>3, <1>4, <1>5

LEMMA FunctionIsSeq ==
    ASSUME NEW S, NEW n \in Nat, NEW f \in [1..n -> S]
    PROVE  f \in Seq(S)
BY SeqDef

\* The refreshes that go on when one is over.
LEMMA OthersType ==
    ASSUME TypeOK, NEW q \in DOMAIN poll
    PROVE  /\ Others(q) \in Seq(Refreshes)
           /\ DOMAIN Others(q) = 1 .. Len(poll) - 1
           /\ \A i \in DOMAIN Others(q) : \E j \in DOMAIN poll \ {q} : Others(q)[i] = poll[j]
<1> DEFINE a == SubSeq(poll, 1, q - 1)
           b == SubSeq(poll, q + 1, Len(poll))
<1>1. poll \in Seq(Refreshes) /\ Len(poll) \in Nat /\ DOMAIN poll = 1 .. Len(poll)
  BY LenProperties DEF TypeOK, Refreshes
<1>2. \A i \in 1 .. Len(poll) : poll[i] \in Refreshes
  BY <1>1, ElementOfSeq
<1>3. a \in Seq(Refreshes) /\ Len(a) = q - 1 /\ \A i \in 1 .. q - 1 : a[i] = poll[i]
  <2>1. q - 1 \in Int /\ \A i \in 1 .. q - 1 : poll[i] \in Refreshes
    BY <1>1, <1>2
  <2>2. /\ a \in Seq(Refreshes)
        /\ Len(a) = IF 1 <= q - 1 THEN (q - 1) - 1 + 1 ELSE 0
        /\ \A i \in 1 .. (q - 1) - 1 + 1 : a[i] = poll[1 + i - 1]
    BY <2>1, SubSeqProperties
  <2> HIDE DEF a
  <2> QED  BY <1>1, <2>2
<1>4. /\ b \in Seq(Refreshes) /\ Len(b) = Len(poll) - q
      /\ \A i \in 1 .. Len(poll) - q : b[i] = poll[q + i]
  <2>1. /\ q + 1 \in Int /\ Len(poll) \in Int
        /\ \A i \in q + 1 .. Len(poll) : poll[i] \in Refreshes
    BY <1>1, <1>2
  <2>2. /\ b \in Seq(Refreshes)
        /\ Len(b) = IF q + 1 <= Len(poll) THEN Len(poll) - (q + 1) + 1 ELSE 0
        /\ \A i \in 1 .. Len(poll) - (q + 1) + 1 : b[i] = poll[(q + 1) + i - 1]
    BY <2>1, SubSeqProperties
  <2> HIDE DEF b
  <2>3. \A i \in 1 .. Len(poll) - q : (q + 1) + i - 1 = q + i
    BY <1>1
  <2> QED  BY <1>1, <2>2, <2>3
<1>5. Others(q) = a \o b
  BY DEF Others, RemoveAt
<1> HIDE DEF a, b
<1>6. /\ Others(q) \in Seq(Refreshes) /\ Len(Others(q)) = Len(poll) - 1
      /\ \A i \in 1 .. Len(poll) - 1 : Others(q)[i] = IF i <= q - 1 THEN a[i] ELSE b[i - (q - 1)]
  <2>1. (q - 1) + (Len(poll) - q) = Len(poll) - 1
    BY <1>1
  <2>2. /\ a \o b \in Seq(Refreshes) /\ Len(a \o b) = Len(a) + Len(b)
        /\ \A i \in 1 .. Len(a) + Len(b) :
              (a \o b)[i] = IF i <= Len(a) THEN a[i] ELSE b[i - Len(a)]
    BY <1>3, <1>4, ConcatProperties
  <2> QED  BY <1>3, <1>4, <1>5, <2>1, <2>2
<1>7. DOMAIN Others(q) = 1 .. Len(poll) - 1
  BY <1>6, LenProperties
<1>8. ASSUME NEW i \in 1 .. Len(poll) - 1
      PROVE  \E j \in DOMAIN poll \ {q} : Others(q)[i] = poll[j]
  <2>1. CASE i <= q - 1
    <3>1. i \in 1 .. q - 1 /\ i \in 1 .. Len(poll) /\ i # q
      BY <1>1, <2>1
    <3>2. Others(q)[i] = poll[i]
      BY <1>3, <1>6, <2>1, <3>1
    <3> QED  BY <1>1, <3>1, <3>2
  <2>2. CASE ~(i <= q - 1)
    <3>1. i - (q - 1) \in 1 .. Len(poll) - q /\ q + (i - (q - 1)) = i + 1
      BY <1>1, <2>2
    <3>2. Others(q)[i] = b[i - (q - 1)]
      BY <1>6, <2>2
    <3>3. b[i - (q - 1)] = poll[q + (i - (q - 1))]
      BY <1>4, <3>1
    <3>4. i + 1 \in DOMAIN poll \ {q}
      BY <1>1, <2>2
    <3> QED  BY <3>1, <3>2, <3>3, <3>4
  <2> QED  BY <2>1, <2>2
<1> QED  BY <1>6, <1>7, <1>8

LEMMA EntryType ==
    ASSUME TypeOK, NEW q \in DOMAIN poll
    PROVE  poll[q] \in Refreshes
<1>1. poll \in Seq(Refreshes)
  BY DEF TypeOK, Refreshes
<1> QED  BY <1>1, ElementOfSeq, LenProperties

LEMMA AskType ==
    ASSUME TypeOK, Ask
    PROVE  /\ poll' \in Seq(Refreshes) /\ Len(poll') <= MaxPolls
           /\ \A i \in DOMAIN poll' :
                 \/ i \in DOMAIN poll /\ poll'[i] = poll[i]
                 \/ ~poll'[i].answered /\ poll'[i].list = {}
<1> DEFINE e == [answered |-> FALSE, list |-> {}, late |-> FALSE]
<1>1. poll \in Seq(Refreshes) /\ e \in Refreshes /\ poll' = Append(poll, e)
  BY DEF TypeOK, Refreshes, Ask
<1>2. Len(poll) \in Nat /\ DOMAIN poll = 1 .. Len(poll) /\ MaxPolls \in Nat
  BY <1>1, LenProperties, BoundsAssumption
<1>3. /\ poll' \in Seq(Refreshes) /\ Len(poll') = Len(poll) + 1
      /\ \A i \in 1 .. Len(poll) : poll'[i] = poll[i]
      /\ poll'[Len(poll) + 1] = e
  BY <1>1, AppendProperties
<1>4. DOMAIN poll' = 1 .. Len(poll) + 1
  BY <1>3, LenProperties
<1>5. ~e.answered /\ e.list = {}
  OBVIOUS
<1> HIDE DEF e
<1>6. ASSUME NEW i \in 1 .. Len(poll) + 1
      PROVE  \/ i \in DOMAIN poll /\ poll'[i] = poll[i]
             \/ ~poll'[i].answered /\ poll'[i].list = {}
  <2>1. i \in 1 .. Len(poll) \/ i = Len(poll) + 1
    BY <1>2
  <2> QED  BY <1>2, <1>3, <1>5, <2>1
<1> QED  BY <1>2, <1>3, <1>4, <1>6 DEF Ask

-----------------------------------------------------------------------------
(* Types.                                                                  *)

\* Each step keeps the types; a new message needs a largest identifier.
LEMMA TypeStep == TypeOK /\ Bounded /\ [Next]_vars => TypeOK'
<1> SUFFICES ASSUME TypeOK, Bounded, [Next]_vars PROVE TypeOK'
  OBVIOUS
<1> USE DEF composer, sends, server, Refreshes
<1>1. ASSUME NEW items \in SUBSET Items, Edit(items) PROVE TypeOK'
  BY <1>1 DEF Edit, TypeOK, Busy
<1>2. ASSUME NEW p \in Posts, Click(p) \/ Press(p) PROVE TypeOK'
  BY <1>2 DEF Click, Press, Send, Sendable, ButtonWhileSending, TypeOK, Busy
<1>3. ASSUME NEW p \in Posts, Take(p) PROVE TypeOK'
  <2>1. New(body[p], p) \in Message
    BY NewMessage DEF TypeOK
  <2> QED  BY <1>3, <2>1 DEF Take, TypeOK
<1>4. ASSUME NEW p \in Posts, Settle(p) PROVE TypeOK'
  <2>1. Ask => poll' \in Seq(Refreshes) /\ Len(poll') <= MaxPolls
    BY AskType
  <2> QED  BY <1>4, <2>1 DEF Settle, Left, TypeOK
<1>5. ASSUME NEW p \in Posts, Break(p) PROVE TypeOK'
  BY <1>5 DEF Break, Left, TypeOK
<1>6. CASE Poll
  BY <1>6, AskType DEF Poll, TypeOK
<1>7. ASSUME NEW q \in 1..MaxPolls, List(q) PROVE TypeOK'
  <2>1. /\ poll \in Seq(Refreshes) /\ Len(poll) \in Nat
        /\ DOMAIN poll = 1 .. Len(poll) /\ q \in 1 .. Len(poll)
    BY <1>7, LenProperties DEF List, TypeOK
  <2>2. poll[q] \in Refreshes
    BY <2>1, ElementOfSeq
  <2> DEFINE e == [poll[q] EXCEPT !.answered = TRUE, !.list = board]
  <2>3. e \in Refreshes /\ poll' = [poll EXCEPT ![q] = e]
    BY <1>7, <2>1, <2>2 DEF List, Listed, TypeOK
  <2> HIDE DEF e
  <2>4. poll' \in Seq(Refreshes) /\ Len(poll') = Len(poll)
    BY <2>1, <2>3, ExceptSeq
  <2> QED  BY <1>7, <2>4 DEF List, TypeOK
<1>8. ASSUME NEW q \in 1..MaxPolls, Render(q) \/ Miss(q) PROVE TypeOK'
  <2>1. q \in DOMAIN poll /\ poll \in Seq(Refreshes) /\ Len(poll) \in Nat /\ q \in 1 .. Len(poll)
    BY <1>8, LenProperties DEF Render, Miss, TypeOK
  <2>2. /\ Others(q) \in Seq(Refreshes) /\ DOMAIN Others(q) = 1 .. Len(poll) - 1
        /\ Len(Others(q)) = Len(poll) - 1
    BY <2>1, OthersType, LenProperties
  <2>3. poll[q] \in Refreshes
    BY <2>1, ElementOfSeq
  <2>4. feed' \in SUBSET Message
    BY <1>8, <2>3 DEF Render, Miss, Rendered, Kept, TypeOK
  <2>5. poll' \in Seq(Refreshes) /\ Len(poll') = Len(poll) - 1
    <3>1. CASE Miss(q)
      BY <2>2, <3>1 DEF Miss
    <3>2. CASE Render(q)
      <4> DEFINE E(i) == [Others(q)[i] EXCEPT !.late = TRUE]
                 n == Len(poll) - 1
      <4>1. n \in Nat
        BY <2>1
      <4>2. \A i \in 1..n : Others(q)[i] \in Refreshes
        BY <2>2, ElementOfSeq
      <4>3. \A i \in 1..n : E(i) \in Refreshes
        BY <4>2
      <4>4. poll' = [i \in 1..n |-> E(i)]
        BY <2>2, <3>2 DEF Render
      <4> HIDE DEF E, n
      <4>5. poll' \in [1..n -> Refreshes]
        BY <4>3, <4>4
      <4>6. poll' \in Seq(Refreshes)
        BY <4>1, <4>5, FunctionIsSeq
      <4>7. Len(poll') = n
        BY <4>1, <4>5, <4>6, LenProperties
      <4> QED  BY <4>6, <4>7 DEF n
    <3> QED  BY <1>8, <3>1, <3>2
  <2>6. Len(poll') <= MaxPolls
    BY <2>1, <2>5, BoundsAssumption DEF TypeOK
  <2> QED  BY <1>8, <2>4, <2>5, <2>6 DEF Render, Miss, TypeOK
<1>9. ASSUME NEW m \in feed, AskDelete(m) PROVE TypeOK'
  BY <1>9 DEF AskDelete, TypeOK
<1>10. ASSUME NEW m \in dels, TakeDelete(m) PROVE TypeOK'
  <2>1. Without(board, m.id) \in SUBSET Message
    BY WithoutType DEF TypeOK
  <2> QED  BY <1>10, <2>1, AskType DEF TakeDelete, TypeOK
<1>11. ASSUME NEW m \in dels, LoseDelete(m) PROVE TypeOK'
  BY <1>11 DEF LoseDelete, TypeOK
<1>12. CASE Other
  <2>1. New({}, Elsewhere) \in Message
    BY NewMessage
  <2> QED  BY <1>12, <2>1 DEF Other, TypeOK
<1>13. CASE UNCHANGED vars
  BY <1>13 DEF vars, TypeOK
<1> QED  BY <1>1, <1>2, <1>3, <1>4, <1>5, <1>6, <1>7, <1>8, <1>9, <1>10, <1>11, <1>12, <1>13 DEF Next

-----------------------------------------------------------------------------
(* What the page shows, and what the board made of it since.               *)

Ghost(m) == [m EXCEPT !.deleted = TRUE]

\* Every message of S is on board B, or its ghost is.
SeenIn(S, B) == \A m \in S : \E n \in B : n = m \/ n = Ghost(m)

UniqueIds == \A m, n \in board : m.id = n.id => m = n

Lists == UNION {poll[q].list : q \in DOMAIN poll}

\* A list that none overtook is not behind the feed.
Fresh ==
    \A q \in DOMAIN poll : poll[q].answered /\ ~poll[q].late => ~Behind(poll[q].list, feed)

DataInv ==
    /\ Bounded /\ UniqueIds
    /\ SeenIn(feed, board) /\ SeenIn(dels, board) /\ SeenIn(Lists, board)
    /\ Fresh

\* The three ways of the board.
LEMMA BoardStep ==
    ASSUME TypeOK, Bounded, [Next]_vars
    PROVE  \/ board' = board
           \/ \E items \in SUBSET Items, p \in Posts \cup {Elsewhere} :
                 board' = board \cup {New(items, p)}
           \/ \E d \in dels : TakeDelete(d) /\ board' = Without(board, d.id)
<1> USE DEF composer, sends, server
<1>1. ASSUME NEW p \in Posts, Take(p)
      PROVE  \/ board' = board
             \/ \E items \in SUBSET Items, u \in Posts \cup {Elsewhere} :
                   board' = board \cup {New(items, u)}
  BY <1>1 DEF Take, TypeOK
<1>2. CASE Other
  BY <1>2 DEF Other
<1>3. ASSUME NEW d \in dels, TakeDelete(d)
      PROVE  \E e \in dels : TakeDelete(e) /\ board' = Without(board, e.id)
  BY <1>3 DEF TakeDelete
<1>4. ASSUME NEW p \in Posts, Click(p) \/ Press(p) \/ Settle(p) \/ Break(p)
      PROVE  board' = board
  BY <1>4 DEF Click, Press, Send, Settle, Break
<1>5. ASSUME NEW q \in 1..MaxPolls, List(q) \/ Render(q) \/ Miss(q) PROVE board' = board
  BY <1>5 DEF List, Render, Miss
<1>6. ASSUME NEW items \in SUBSET Items, Edit(items) PROVE board' = board
  BY <1>6 DEF Edit
<1>7. ASSUME NEW m \in feed, AskDelete(m) PROVE board' = board
  BY <1>7 DEF AskDelete
<1>8. ASSUME NEW m \in dels, LoseDelete(m) PROVE board' = board
  BY <1>8 DEF LoseDelete
<1>9. CASE Poll
  BY <1>9 DEF Poll
<1>10. CASE UNCHANGED vars
  BY <1>10 DEF vars
<1> QED  BY <1>1, <1>2, <1>3, <1>4, <1>5, <1>6, <1>7, <1>8, <1>9, <1>10 DEF Next

\* Identifiers stay unique, and what was on the board stays, as a ghost perhaps.
LEMMA BoardKeeps ==
    ASSUME TypeOK, Bounded, UniqueIds, [Next]_vars
    PROVE  Bounded' /\ UniqueIds' /\ SeenIn(board, board')
<1> USE DEF Ghost
<1>0. board \subseteq Message
  BY DEF TypeOK
<1>1. CASE board' = board
  BY <1>1 DEF Bounded, UniqueIds, SeenIn
<1>2. ASSUME NEW items \in SUBSET Items, NEW p \in Posts \cup {Elsewhere},
             board' = board \cup {New(items, p)}
      PROVE  Bounded' /\ UniqueIds' /\ SeenIn(board, board')
  <2> DEFINE new == New(items, p)
  <2>1. new \in Message /\ \A m \in board : m.id < new.id
    BY NewMessage
  <2>2. board' = board \cup {new}
    BY <1>2
  <2> HIDE DEF new
  <2>3. new.id \in Nat /\ \A m \in board : m.id \in Nat
    BY <1>0, <2>1 DEF Message
  <2>4. Bounded'
    BY <2>1, <2>2, <2>3 DEF Bounded
  <2>5. UniqueIds'
    BY <2>1, <2>2, <2>3 DEF UniqueIds
  <2> QED  BY <2>2, <2>4, <2>5 DEF SeenIn
<1>3. ASSUME NEW d \in dels, board' = Without(board, d.id)
      PROVE  Bounded' /\ UniqueIds' /\ SeenIn(board, board')
  <2>1. /\ \A m \in board : \E n \in board' : n = m \/ n = Ghost(m)
        /\ \A n \in board' : \E m \in board : n.id = m.id
    <3> HIDE DEF Ghost
    <3>1. board \in SUBSET Message
      BY <1>0
    <3>2. /\ \A m \in board : \E n \in Without(board, d.id) :
                n = m \/ n = [m EXCEPT !.deleted = TRUE]
          /\ \A n \in Without(board, d.id) : \E m \in board :
                /\ n = m \/ (m.id = d.id /\ n = [m EXCEPT !.deleted = TRUE])
                /\ n.id = m.id /\ n.body = m.body /\ n.post = m.post
      BY <3>1, WithoutType
    <3> QED  BY <1>3, <3>2 DEF Ghost
  <2>2. Bounded'
    BY <2>1 DEF Bounded
  <2> DEFINE G(m) == IF m.id = d.id THEN Ghost(m) ELSE m
  <2>3. board' = {G(m) : m \in board}
    BY <1>3 DEF Without
  <2>4. \A m \in board : G(m).id = m.id
    BY <1>0 DEF Message
  <2> HIDE DEF G
  <2>5. UniqueIds'
    <3>1. SUFFICES ASSUME NEW n \in board', NEW k \in board', n.id = k.id PROVE n = k
      BY DEF UniqueIds
    <3>2. PICK m \in board, l \in board : n = G(m) /\ k = G(l)
      BY <2>3
    <3>3. m = l
      BY <2>4, <3>1, <3>2 DEF UniqueIds
    <3> QED  BY <3>2, <3>3
  <2> QED  BY <2>1, <2>2, <2>5 DEF SeenIn
<1> QED  BY <1>1, <1>2, <1>3, BoardStep

LEMMA SeenLater ==
    ASSUME NEW S \in SUBSET Message, NEW B, NEW C, SeenIn(S, B), SeenIn(B, C)
    PROVE  SeenIn(S, C)
<1>1. \A m \in S : Ghost(Ghost(m)) = Ghost(m)
  BY DEF Ghost, Message
<1> QED  BY <1>1 DEF SeenIn

LEMMA SeenIsNotBehind ==
    ASSUME NEW S \in SUBSET Message, NEW B \in SUBSET Message, SeenIn(S, B)
    PROVE  ~Behind(B, S)
<1>1. SUFFICES ASSUME NEW m \in S, \A n \in B : n.id = m.id => m.deleted /\ ~n.deleted
               PROVE  FALSE
  BY DEF Behind
<1>2. PICK n \in B : n = m \/ n = Ghost(m)
  BY DEF SeenIn
<1>3. Ghost(m).id = m.id /\ Ghost(m).deleted
  BY DEF Ghost, Message
<1> QED  BY <1>1, <1>2, <1>3

\* What is in the feed, in a list or on its way to be deleted is from the board.
LEMMA PageStep ==
    ASSUME TypeOK, DataInv, [Next]_vars
    PROVE  /\ SeenIn(feed', board) /\ SeenIn(dels', board) /\ SeenIn(Lists', board)
           /\ Fresh'
<1> USE DEF composer, sends, server
<1>0. SeenIn({}, board) /\ SeenIn(board, board)
  BY DEF SeenIn
<1>1. CASE Ask /\ UNCHANGED feed /\ dels' \subseteq dels
  <2>1. \A q \in DOMAIN poll' :
           \/ q \in DOMAIN poll /\ poll'[q] = poll[q]
           \/ ~poll'[q].answered /\ poll'[q].list = {}
    BY <1>1, AskType
  <2>2. Lists' \subseteq Lists
    BY <2>1 DEF Lists
  <2> QED  BY <1>1, <2>1, <2>2 DEF DataInv, SeenIn, Fresh
<1>2. CASE UNCHANGED <<feed, poll>> /\ dels' \subseteq dels \cup feed
  BY <1>2 DEF DataInv, SeenIn, Fresh, Lists
<1>3. ASSUME NEW q \in 1..MaxPolls, List(q)
      PROVE  SeenIn(feed', board) /\ SeenIn(dels', board) /\ SeenIn(Lists', board) /\ Fresh'
  <2>1. q \in DOMAIN poll /\ UNCHANGED <<feed, dels>> /\ DOMAIN poll' = DOMAIN poll
    BY <1>3 DEF List
  <2>2. \A i \in DOMAIN poll \ {q} : poll'[i] = poll[i]
    BY <1>3 DEF List
  <2>3. poll'[q].list = board
    <3>1. poll[q] \in Refreshes
      BY <2>1, EntryType
    <3> QED  BY <1>3, <2>1, <3>1 DEF List, Listed, Refreshes
  <2>4. ~Behind(board, feed)
    BY SeenIsNotBehind DEF DataInv, TypeOK
  <2>5. Fresh'
    BY <2>1, <2>2, <2>3, <2>4 DEF Fresh, DataInv
  <2>6. Lists' \subseteq Lists \cup board
    BY <2>1, <2>2, <2>3 DEF Lists
  <2> QED  BY <1>0, <2>1, <2>5, <2>6 DEF DataInv, SeenIn
<1>4. ASSUME NEW q \in 1..MaxPolls, Render(q)
      PROVE  SeenIn(feed', board) /\ SeenIn(dels', board) /\ SeenIn(Lists', board) /\ Fresh'
  <2>1. /\ q \in DOMAIN poll /\ UNCHANGED dels
        /\ feed' = poll[q].list
        /\ poll' = [i \in DOMAIN Others(q) |-> [Others(q)[i] EXCEPT !.late = TRUE]]
    BY <1>4 DEF Render, Rendered
  <2>2. \A i \in DOMAIN Others(q) :
           Others(q)[i] \in Refreshes /\ \E j \in DOMAIN poll \ {q} : Others(q)[i] = poll[j]
    BY <2>1, OthersType, ElementOfSeq, LenProperties
  <2>3. \A i \in DOMAIN poll' :
           /\ poll'[i].late
           /\ \E j \in DOMAIN poll : poll'[i].list = poll[j].list
    BY <2>1, <2>2 DEF Refreshes
  <2>4. feed' \subseteq Lists
    BY <2>1 DEF Lists
  <2>5. Lists' \subseteq Lists
    BY <2>3 DEF Lists
  <2> QED  BY <2>1, <2>3, <2>4, <2>5 DEF DataInv, SeenIn, Fresh
<1>5. ASSUME NEW q \in 1..MaxPolls, Miss(q)
      PROVE  SeenIn(feed', board) /\ SeenIn(dels', board) /\ SeenIn(Lists', board) /\ Fresh'
  <2>1. q \in DOMAIN poll /\ UNCHANGED <<dels, feed>> /\ poll' = Others(q)
    BY <1>5 DEF Miss, Kept
  <2>2. \A i \in DOMAIN poll' : \E j \in DOMAIN poll : poll'[i] = poll[j]
    BY <2>1, OthersType
  <2>3. Lists' \subseteq Lists
    BY <2>2 DEF Lists
  <2> QED  BY <2>1, <2>2, <2>3 DEF DataInv, SeenIn, Fresh
<1>6. ASSUME NEW p \in Posts, Click(p) \/ Press(p) \/ Take(p) \/ Break(p) \/ Settle(p)
      PROVE  \/ UNCHANGED <<feed, poll>> /\ dels' \subseteq dels \cup feed
             \/ Ask /\ UNCHANGED feed /\ dels' \subseteq dels
  BY <1>6 DEF Click, Press, Send, Take, Break, Settle
<1>7. ASSUME NEW items \in SUBSET Items, Edit(items)
      PROVE  UNCHANGED <<feed, poll>> /\ dels' \subseteq dels \cup feed
  BY <1>7 DEF Edit
<1>8. ASSUME NEW m \in feed, AskDelete(m)
      PROVE  UNCHANGED <<feed, poll>> /\ dels' \subseteq dels \cup feed
  BY <1>8 DEF AskDelete
<1>9. ASSUME NEW m \in dels, TakeDelete(m) \/ LoseDelete(m)
      PROVE  \/ UNCHANGED <<feed, poll>> /\ dels' \subseteq dels \cup feed
             \/ Ask /\ UNCHANGED feed /\ dels' \subseteq dels
  BY <1>9 DEF TakeDelete, LoseDelete
<1>10. CASE Poll
  BY <1>1, <1>10 DEF Poll
<1>11. CASE Other \/ UNCHANGED vars
  BY <1>2, <1>11 DEF Other, vars
<1> QED  BY <1>1, <1>2, <1>3, <1>4, <1>5, <1>6, <1>7, <1>8, <1>9, <1>10, <1>11 DEF Next

LEMMA DataStep == TypeOK /\ DataInv /\ [Next]_vars => DataInv'
<1> SUFFICES ASSUME TypeOK, DataInv, [Next]_vars PROVE DataInv'
  OBVIOUS
<1>1. Bounded' /\ UniqueIds' /\ SeenIn(board, board')
  BY BoardKeeps DEF DataInv
<1>2. TypeOK'
  BY TypeStep DEF DataInv
<1>3. feed' \subseteq Message /\ dels' \subseteq Message
  BY <1>2 DEF TypeOK
<1>4. Lists' \subseteq Message
  <2>1. poll' \in Seq(Refreshes)
    BY <1>2 DEF TypeOK, Refreshes
  <2>2. \A q \in DOMAIN poll' : poll'[q] \in Refreshes
    BY <2>1, ElementOfSeq, LenProperties
  <2> QED  BY <2>2 DEF Lists, Refreshes
<1>5. /\ SeenIn(feed', board) /\ SeenIn(dels', board) /\ SeenIn(Lists', board)
      /\ Fresh'
  BY PageStep
<1>6. SeenIn(feed', board') /\ SeenIn(dels', board') /\ SeenIn(Lists', board')
  BY <1>1, <1>3, <1>4, <1>5, SeenLater
<1> QED  BY <1>1, <1>5, <1>6 DEF DataInv, SeenIn

IInv == TypeOK /\ DataInv

LEMMA InitIInv == Init => IInv
<1> SUFFICES ASSUME Init PROVE IInv
  OBVIOUS
<1>1. poll = <<>> /\ poll \in Seq(Refreshes) /\ Len(poll) = 0 /\ DOMAIN poll = {}
  BY EmptySeq DEF Init
<1>2. TypeOK
  <2>1. poll \in Seq(Refreshes) /\ Len(poll) <= MaxPolls
    BY <1>1, BoundsAssumption
  <2>2. \A p \in Posts : post[p] = "idle" /\ served[p] = "idle"
    BY DEF Init
  <2>3. /\ body \in [Posts -> SUBSET Items]
        /\ post \in [Posts -> {"idle", "open", "answered", "failed"}]
        /\ served \in [Posts -> {"idle", "coming", "stored", "refused"}]
    BY DEF Init
  <2> QED  BY <2>1, <2>2, <2>3 DEF Init, TypeOK, Refreshes
<1>3. DataInv
  BY <1>1 DEF Init, DataInv, Bounded, UniqueIds, SeenIn, Lists, Fresh
<1> QED  BY <1>2, <1>3 DEF IInv

LEMMA IInvAlways == Spec => []IInv
<1>1. IInv /\ [Next]_vars => IInv'
  BY TypeStep, DataStep DEF IInv, DataInv
<1> QED  BY InitIInv, <1>1, PTL DEF Spec

\* TypeOK (the page's variables): every reachable state of the page and its
\* server is of its type, for any items and any bounds.
THEOREM TypeCorrect == Spec => []TypeOK
BY IInvAlways, PTL DEF IInv

\* DeletesWhatWasSeen (app.js:355-364, store.rs:174-187): a delete takes the very
\* message the user saw, from however old a feed.
THEOREM SeenIsDeleted == Spec => DeletesWhatWasSeen
<1>1. IInv /\ [Next]_vars =>
         [\A m \in board : ~m.deleted =>
             \A n \in board' : n = [m EXCEPT !.deleted = TRUE] => m \in dels]_vars
  <2> SUFFICES ASSUME IInv, [Next]_vars, NEW m \in board, ~m.deleted,
                      NEW n \in board', n = Ghost(m)
               PROVE  m \in dels
    BY DEF Ghost
  <2>0. board \subseteq Message /\ m \in Message
    BY DEF IInv, TypeOK
  <2>1. n.id = m.id /\ n.deleted
    BY <2>0 DEF Ghost, Message
  <2>2. n \notin board
    BY <2>1 DEF IInv, DataInv, UniqueIds
  <2>3. \A items \in SUBSET Items, p \in Posts \cup {Elsewhere} : n # New(items, p)
    BY <2>1, NewMessage DEF IInv, DataInv
  <2>4. PICK d \in dels : board' = Without(board, d.id)
    BY <2>2, <2>3, BoardStep DEF IInv, DataInv
  <2>5. PICK k \in board : /\ n = k \/ (k.id = d.id /\ n = [k EXCEPT !.deleted = TRUE])
                           /\ n.id = k.id
    BY <2>0, <2>4, WithoutType
  <2>6. k = m /\ m.id = d.id
    BY <2>1, <2>2, <2>5 DEF IInv, DataInv, UniqueIds
  <2>7. PICK e \in board : e = d \/ e = Ghost(d)
    BY DEF IInv, DataInv, SeenIn
  <2>8. d \in Message /\ e.id = d.id /\ Ghost(d).deleted
    BY <2>7 DEF IInv, TypeOK, Message, Ghost
  <2>9. e = m
    BY <2>6, <2>8 DEF IInv, DataInv, UniqueIds
  <2> QED  BY <2>7, <2>8, <2>9
<1> QED  BY IInvAlways, <1>1, PTL DEF Spec, DeletesWhatWasSeen

\* FeedGoesOn (app.js:213-228): only answers that overtook each other take the
\* feed back.
THEOREM FeedIsMonotone == Spec => FeedGoesOn
<1>1. IInv /\ [Next]_vars =>
         [Behind(feed', feed) =>
             \E q \in DOMAIN poll :
                poll[q].answered /\ poll[q].late /\ feed' = poll[q].list]_vars
  <2> SUFFICES ASSUME IInv, [Next]_vars, Behind(feed', feed)
               PROVE  \E q \in DOMAIN poll :
                         poll[q].answered /\ poll[q].late /\ feed' = poll[q].list
    OBVIOUS
  <2>1. feed' # feed
    BY DEF Behind
  <2>2. \E q \in 1..MaxPolls : Render(q)
    BY <2>1 DEF Next, vars, Edit, Click, Press, Send, Take, Settle, Break, Poll, List, Miss, Kept,
                AskDelete, TakeDelete, LoseDelete, Other
  <2>3. PICK q \in 1..MaxPolls : Render(q)
    BY <2>2
  <2>4. q \in DOMAIN poll /\ poll[q].answered /\ feed' = poll[q].list
    BY <2>3 DEF Render, Rendered
  <2>5. poll[q] \in Refreshes
    BY <2>4, EntryType DEF IInv
  <2> QED  BY <2>4, <2>5 DEF IInv, DataInv, Fresh, Refreshes
<1> QED  BY IInvAlways, <1>1, PTL DEF Spec, FeedGoesOn

-----------------------------------------------------------------------------
(* What the composer held, and where it went.                              *)

\* A message is what its send took, and a send makes one message at most.
SentInv ==
    /\ \A m \in board : m.post # Elsewhere =>
          served[m.post] = "stored" /\ m.body = body[m.post]
    /\ \A m \in board : m.post = Elsewhere => m.body = {}
    /\ \A m, n \in board : m.post = n.post /\ m.post # Elsewhere => m = n
    /\ \A p \in Posts : served[p] = "stored" => \E m \in board : m.post = p

\* The sends the page knows to be on the board.
Posted(p) == post[p] = "answered" /\ served[p] = "stored"

\* While the user is patient: one send at a time, of what the composer holds
\* still; and what is known to be posted is out of it for good.
CalmInv ==
    /\ draft \subseteq wanted
    /\ \A p \in Posts : post[p] = "open" => body[p] = draft /\ ~button
    /\ \A p, o \in Posts : post[p] = "open" /\ post[o] = "open" => p = o
    /\ \A p \in Posts : Posted(p) => body[p] \subseteq wanted \ draft
    /\ \A p, o \in Posts : Posted(p) /\ Posted(o) /\ p # o => body[p] \cap body[o] = {}
    /\ wanted \subseteq draft \cup UNION {m.body : m \in board}

ComposerInv == SentInv /\ (~hasty => CalmInv)

\* A delete keeps what is said of the board: its messages keep body and send.
LEMMA DeleteComposer ==
    ASSUME TypeOK, ComposerInv, NEW d \in dels, TakeDelete(d)
    PROVE  ComposerInv'
<1> DEFINE G(m) == IF m.id = d.id THEN [m EXCEPT !.deleted = TRUE] ELSE m
<1>1. \A m \in board : G(m).body = m.body /\ G(m).post = m.post
  BY DEF TypeOK, Message
<1>2. board' = {G(m) : m \in board}
  BY DEF TakeDelete, Without
<1>3. UNCHANGED <<served, body, post, draft, button, wanted, hasty>>
  BY DEF TakeDelete, composer, sends
<1> HIDE DEF G
<1>4. SentInv'
  <2>1. \A m \in board' : \E n \in board : m = G(n) /\ m.body = n.body /\ m.post = n.post
    BY <1>1, <1>2
  <2>2. \A n \in board : \E m \in board' : m.body = n.body /\ m.post = n.post
    BY <1>1, <1>2
  <2>3. \A m \in board' : m.post # Elsewhere =>
           served[m.post] = "stored" /\ m.body = body[m.post]
    BY <2>1 DEF ComposerInv, SentInv
  <2>4. \A m \in board' : m.post = Elsewhere => m.body = {}
    BY <2>1 DEF ComposerInv, SentInv
  <2>5. \A m, n \in board' : m.post = n.post /\ m.post # Elsewhere => m = n
    BY <2>1 DEF ComposerInv, SentInv
  <2>6. \A p \in Posts : served[p] = "stored" => \E m \in board' : m.post = p
    BY <2>2 DEF ComposerInv, SentInv
  <2> QED  BY <1>3, <2>3, <2>4, <2>5, <2>6 DEF SentInv
<1>5. UNION {m.body : m \in board'} = UNION {m.body : m \in board}
  BY <1>1, <1>2
<1>6. ~hasty' => CalmInv'
  BY <1>3, <1>5 DEF ComposerInv, CalmInv, Posted
<1> QED  BY <1>4, <1>6 DEF ComposerInv

\* A new message, of a send that comes or of somebody else.
LEMMA StoreComposer ==
    ASSUME TypeOK, Bounded, ComposerInv,
           UNCHANGED <<body, post, draft, button, wanted, hasty>>,
           NEW p \in Posts \cup {Elsewhere},
           \/ /\ p \in Posts /\ served[p] = "coming"
              /\ served' = [served EXCEPT ![p] = "stored"]
              /\ board' = board \cup {New(body[p], p)}
           \/ /\ p = Elsewhere /\ UNCHANGED served
              /\ board' = board \cup {New({}, Elsewhere)}
    PROVE  ComposerInv'
<1>1. PICK new \in Message :
         /\ board' = board \cup {new} /\ new.post = p
         /\ new.body = IF p = Elsewhere THEN {} ELSE body[p]
  <2>1. CASE p \in Posts /\ board' = board \cup {New(body[p], p)}
    BY <2>1, NewMessage DEF TypeOK, Elsewhere, Posts
  <2>2. CASE p = Elsewhere /\ board' = board \cup {New({}, Elsewhere)}
    BY <2>2, NewMessage
  <2> QED  BY <2>1, <2>2
<1>2. Elsewhere \notin Posts
  BY DEF Elsewhere, Posts
<1>3. /\ \A o \in Posts : served'[o] = IF o = p THEN "stored" ELSE served[o]
      /\ p # Elsewhere => p \in Posts /\ served[p] = "coming"
  BY <1>2 DEF TypeOK
<1>4. \A m \in board : m.post # Elsewhere => m.post \in Posts /\ m.post # p
  BY <1>2, <1>3 DEF ComposerInv, SentInv, TypeOK, Message
<1>5. SentInv'
  <2>1. \A m \in board' : m.post # Elsewhere =>
           served'[m.post] = "stored" /\ m.body = body'[m.post]
    BY <1>1, <1>3, <1>4 DEF ComposerInv, SentInv
  <2>2. \A m \in board' : m.post = Elsewhere => m.body = {}
    BY <1>1 DEF ComposerInv, SentInv
  <2>3. \A m, n \in board' : m.post = n.post /\ m.post # Elsewhere => m = n
    BY <1>1, <1>4 DEF ComposerInv, SentInv
  <2>4. \A o \in Posts : served'[o] = "stored" => \E m \in board' : m.post = o
    BY <1>1, <1>3 DEF ComposerInv, SentInv
  <2> QED  BY <2>1, <2>2, <2>3, <2>4 DEF SentInv
<1>6. \A o \in Posts : Posted(o)' => Posted(o)
  <2>1. \A o \in Posts : served[o] = "coming" => post[o] # "answered"
    BY DEF TypeOK
  <2> QED  BY <1>3, <2>1 DEF Posted
<1>7. ~hasty' => CalmInv'
  <2> SUFFICES ASSUME ~hasty PROVE CalmInv'
    OBVIOUS
  <2>1. UNION {m.body : m \in board} \subseteq UNION {m.body : m \in board'}
    BY <1>1
  <2> QED  BY <1>6, <2>1 DEF ComposerInv, CalmInv
<1> QED  BY <1>5, <1>7 DEF ComposerInv

LEMMA ComposerStep ==
    ASSUME TypeOK, Bounded, ComposerInv, [Next]_vars
    PROVE  ComposerInv'
<1> USE DEF composer, sends, server
<1>1. ASSUME NEW items \in SUBSET Items, Edit(items) PROVE ComposerInv'
  <2>1. SentInv'
    BY <1>1 DEF Edit, ComposerInv, SentInv
  <2>2. ASSUME ~hasty' PROVE CalmInv'
    <3>1. ~hasty /\ \A p \in Posts : post[p] # "open"
      BY <1>1, <2>2 DEF Edit, Busy
    <3>2. /\ UNCHANGED <<body, post, served, board>>
          /\ draft' = items /\ wanted' = (wanted \ draft) \cup items
          /\ (items \ draft) \cap wanted = {}
      BY <1>1 DEF Edit
    <3> QED  BY <3>1, <3>2 DEF ComposerInv, CalmInv, Posted
  <2> QED  BY <2>1, <2>2 DEF ComposerInv
<1>2. ASSUME NEW p \in Posts, Click(p) \/ Press(p) PROVE ComposerInv'
  <2>1. /\ post[p] = "idle" /\ ~button' /\ UNCHANGED <<draft, wanted, board>>
        /\ body' = [body EXCEPT ![p] = draft]
        /\ post' = [post EXCEPT ![p] = "open"]
        /\ served' = [served EXCEPT ![p] = "coming"]
    BY <1>2 DEF Click, Press, Send, ButtonWhileSending
  <2>2. /\ \A o \in Posts \ {p} :
              body'[o] = body[o] /\ post'[o] = post[o] /\ served'[o] = served[o]
        /\ body'[p] = draft /\ post'[p] = "open" /\ served'[p] = "coming"
        /\ served[p] = "idle"
    BY <2>1 DEF TypeOK
  <2>3. \A m \in board : m.post # Elsewhere => m.post \in Posts \ {p}
    BY <2>2 DEF ComposerInv, SentInv, TypeOK, Message
  <2>4. SentInv'
    BY <2>1, <2>2, <2>3 DEF ComposerInv, SentInv
  <2>5. ASSUME ~hasty' PROVE CalmInv'
    <3>1. ~hasty
      BY <1>2, <2>5 DEF Click, Press
    <3>2. \A o \in Posts : post[o] # "open"
      BY <1>2, <2>5, <3>1 DEF Click, Press, Busy, ComposerInv, CalmInv
    <3> QED  BY <2>1, <2>2, <3>1, <3>2 DEF ComposerInv, CalmInv, Posted
  <2> QED  BY <2>4, <2>5 DEF ComposerInv
<1>3. ASSUME NEW p \in Posts, Take(p) PROVE ComposerInv'
  <2>1. CASE board' = board
    <3>1. /\ UNCHANGED <<body, post, draft, button, wanted, hasty>>
          /\ served[p] = "coming"
          /\ \/ served' = [served EXCEPT ![p] = "refused"]
             \/ New(body[p], p) \in board
      BY <1>3, <2>1 DEF Take
    <3>2. New(body[p], p) \notin board
      <4>1. New(body[p], p) \in Message /\ \A m \in board : m.id < New(body[p], p).id
        BY NewMessage DEF TypeOK
      <4> QED  BY <4>1 DEF Message
    <3>3. /\ \A o \in Posts \ {p} : served'[o] = served[o]
          /\ served'[p] = "refused" /\ post[p] # "answered"
      BY <3>1, <3>2 DEF TypeOK
    <3>4. \A m \in board : m.post # Elsewhere => m.post \in Posts \ {p}
      BY <3>1 DEF ComposerInv, SentInv, TypeOK, Message
    <3>5. SentInv'
      BY <2>1, <3>1, <3>3, <3>4 DEF ComposerInv, SentInv
    <3> QED  BY <2>1, <3>1, <3>3, <3>5 DEF ComposerInv, CalmInv, Posted
  <2>2. CASE board' # board
    BY <1>3, <2>2, StoreComposer DEF Take
  <2> QED  BY <2>1, <2>2
<1>4. ASSUME NEW p \in Posts, Settle(p) PROVE ComposerInv'
  <2>1. /\ UNCHANGED <<body, wanted, hasty, served, board>>
        /\ post[p] = "open" /\ post' = [post EXCEPT ![p] = "answered"]
    BY <1>4 DEF Settle
  <2>2. \A o \in Posts : post'[o] = IF o = p THEN "answered" ELSE post[o]
    BY <2>1 DEF TypeOK
  <2>3. SentInv'
    BY <2>1 DEF ComposerInv, SentInv
  <2>4. ASSUME ~hasty PROVE CalmInv'
    <3>1. /\ CalmInv /\ body[p] = draft
          /\ \A o \in Posts : post'[o] # "open"
      BY <2>1, <2>2, <2>4 DEF ComposerInv, CalmInv
    <3>2. CASE served[p] = "stored" /\ draft' = {}
      <4>1. PICK m \in board : m.post = p
        BY <3>2 DEF ComposerInv, SentInv
      <4>2. m.body = draft
        BY <3>1, <4>1 DEF ComposerInv, SentInv, Elsewhere, Posts
      <4>3. wanted' \subseteq draft' \cup UNION {n.body : n \in board'}
        BY <2>1, <3>1, <4>2 DEF CalmInv
      <4>4. \A o \in Posts : Posted(o)' => o = p \/ Posted(o)
        BY <2>1, <2>2 DEF Posted
      <4> QED  BY <2>1, <3>1, <3>2, <4>3, <4>4 DEF CalmInv
    <3>3. CASE served[p] = "refused" /\ draft' = draft
      <4>1. \A o \in Posts : Posted(o)' => Posted(o)
        BY <2>1, <2>2, <3>3 DEF Posted
      <4> QED  BY <2>1, <3>1, <3>3, <4>1 DEF CalmInv
    <3> QED  BY <1>4, <3>2, <3>3 DEF Settle, Left
  <2> QED  BY <2>1, <2>3, <2>4 DEF ComposerInv
<1>5. ASSUME NEW p \in Posts, Break(p) PROVE ComposerInv'
  <2>1. /\ UNCHANGED <<body, draft, wanted, hasty, served, board>>
        /\ post[p] = "open" /\ post' = [post EXCEPT ![p] = "failed"]
    BY <1>5 DEF Break, Left
  <2>2. \A o \in Posts : post'[o] = IF o = p THEN "failed" ELSE post[o]
    BY <2>1 DEF TypeOK
  <2>3. SentInv'
    BY <2>1 DEF ComposerInv, SentInv
  <2>4. ASSUME ~hasty PROVE CalmInv'
    <3>1. CalmInv /\ \A o \in Posts : post'[o] # "open"
      BY <2>1, <2>2, <2>4 DEF ComposerInv, CalmInv
    <3> QED  BY <2>1, <2>2, <3>1 DEF CalmInv, Posted
  <2> QED  BY <2>1, <2>3, <2>4 DEF ComposerInv
<1>6. ASSUME UNCHANGED <<composer, sends, server>> PROVE ComposerInv'
  BY <1>6 DEF ComposerInv, SentInv, CalmInv, Posted
<1>7. ASSUME NEW m \in dels, TakeDelete(m) PROVE ComposerInv'
  BY <1>7, DeleteComposer
<1>8. CASE Other
  BY <1>8, StoreComposer DEF Other
<1>9. CASE \/ \E q \in 1..MaxPolls : List(q) \/ Render(q) \/ Miss(q)
           \/ \E m \in feed : AskDelete(m)
           \/ \E m \in dels : LoseDelete(m)
           \/ Poll \/ UNCHANGED vars
  BY <1>6, <1>9 DEF List, Render, Miss, AskDelete, LoseDelete, Poll, vars
<1> QED  BY <1>1, <1>2, <1>3, <1>4, <1>5, <1>7, <1>8, <1>9 DEF Next

LEMMA ComposerAlways == Spec => []ComposerInv
<1>1. Init => ComposerInv
  BY DEF Init, ComposerInv, SentInv, CalmInv, Posted
<1>2. IInv /\ ComposerInv /\ [Next]_vars => ComposerInv'
  BY ComposerStep DEF IInv, DataInv
<1> QED  BY IInvAlways, <1>1, <1>2, PTL DEF Spec

\* NothingLost (app.js:331-352): whatever is refused or breaks, a user who leaves
\* the composer alone during a send has all they entered in it or on the board.
THEOREM NothingIsLost == Spec => []NothingLost
<1>1. ComposerInv => NothingLost
  BY DEF ComposerInv, CalmInv, NothingLost
<1> QED  BY ComposerAlways, <1>1, PTL

\* NoDouble (app.js:334): such a user posts nothing twice unless a connection
\* broke under one of the two.
THEOREM NothingIsDoubled == Spec => []NoDouble
<1>1. TypeOK /\ ComposerInv => NoDouble
  <2> SUFFICES ASSUME TypeOK, ComposerInv, ~hasty, NEW m \in board, NEW n \in board, m # n,
                      m.body \cap n.body # {},
                      post[m.post] # "failed", post[n.post] # "failed"
               PROVE  FALSE
    BY DEF NoDouble
  <2>1. m.post # Elsewhere /\ n.post # Elsewhere
    BY DEF ComposerInv, SentInv
  <2>2. /\ m.post \in Posts /\ n.post \in Posts /\ m.post # n.post
        /\ served[m.post] = "stored" /\ served[n.post] = "stored"
        /\ body[m.post] \cap body[n.post] # {}
    BY <2>1 DEF ComposerInv, SentInv, TypeOK, Message
  <2>3. post[m.post] \in {"open", "answered"} /\ post[n.post] \in {"open", "answered"}
    BY <2>2 DEF TypeOK
  <2> QED  BY <2>2, <2>3 DEF ComposerInv, CalmInv, Posted
<1> QED  BY IInvAlways, ComposerAlways, <1>1, PTL DEF IInv
=============================================================================
