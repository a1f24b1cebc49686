------------------------------- MODULE Client -------------------------------
(***************************************************************************)
(* The page of a board in one browser (src/static/app.js): the composer,   *)
(* the feed with its poll, and deletion, before a server that may answer   *)
(* late, in another order, or not at all.                                  *)
(*                                                                         *)
(* What the server does with a request is Board.tla; here it is one step.  *)
(* A reload of the page, wording and layout are left out.                  *)
(***************************************************************************)
EXTENDS Integers, FiniteSets, Sequences, FiniteSetsExt, SequencesExt

CONSTANTS
    Items,      \* what the user may put in the composer: texts and images
    MaxPosts,   \* bound: sends of the session
    MaxPolls,   \* bound: refreshes in flight at the same time
    MaxDels,    \* bound: deletes in flight at the same time
    MaxMessages \* bound: messages on the board

ASSUME BoundsAssumption == {MaxPosts, MaxPolls, MaxDels, MaxMessages} \subseteq Nat

Posts == 1..MaxPosts

Elsewhere == 0      \* in the place of a send, for a message of somebody else

VARIABLES
    draft,      \* what the composer holds: the text and pendingFile
    button,     \* the send button is enabled
    body,       \* what each send took from the composer
    post,       \* how far each send is, for the page
    served,     \* ... and for the server
    poll,       \* the refreshes in flight, oldest first: their list, whether one overtook them
    dels,       \* the deletes on their way: the message the user saw
    feed,       \* the messages rendered
    board,      \* the messages of the server
    wanted,     \* history: what the user entered and did not take back
    hasty       \* history: the composer was touched while a send was in flight

composer == <<draft, button, wanted, hasty>>
sends    == <<body, post>>
server   == <<served, board>>
vars     == <<composer, sends, server, poll, dels, feed>>

Message == [id : Nat \ {0}, body : SUBSET Items, post : Posts \cup {Elsewhere}, deleted : BOOLEAN]

Busy == \E p \in Posts : post[p] = "open"

\* Every send that began took something along; a list is there when answered.
TypeOK ==
    /\ draft \subseteq Items /\ wanted \subseteq Items
    /\ {button, hasty} \subseteq BOOLEAN
    /\ body \in [Posts -> SUBSET Items]
    /\ post \in [Posts -> {"idle", "open", "answered", "failed"}]
    /\ served \in [Posts -> {"idle", "coming", "stored", "refused"}]
    /\ \A p \in Posts :
          /\ post[p] = "idle" <=> served[p] = "idle"
          /\ post[p] # "idle" => body[p] # {}
          /\ post[p] = "answered" => served[p] \in {"stored", "refused"}
    /\ board \subseteq Message /\ feed \subseteq Message
    /\ dels \subseteq Message
    /\ poll \in Seq([answered : BOOLEAN, list : SUBSET Message, late : BOOLEAN])
    /\ Len(poll) <= MaxPolls

\* The page asks for the messages once when it is opened.
Init ==
    /\ draft = {} /\ wanted = {} /\ button = FALSE
    /\ body = [p \in Posts |-> {}]
    /\ post = [p \in Posts |-> "idle"] /\ served = post
    /\ poll = <<>> /\ dels = {} /\ feed = {} /\ board = {}
    /\ hasty = FALSE

-----------------------------------------------------------------------------
(* The server.                                                             *)

NextIdLive(S) == Cardinality({m \in S : ~m.deleted}) + 1   \* bug: ghosts do not count
NextId(S) == Max({m.id : m \in S} \cup {0}) + 1

New(items, p) == [id |-> NextId(board), body |-> items, post |-> p, deleted |-> FALSE]

\* A post comes: it is stored, or refused by the limiter or for its image.
Take(p) ==
    /\ served[p] = "coming"
    /\ \/ /\ Cardinality(board) < MaxMessages
          /\ served' = [served EXCEPT ![p] = "stored"]
          /\ board' = board \cup {New(body[p], p)}
       \/ /\ served' = [served EXCEPT ![p] = "refused"]
          /\ UNCHANGED board
    /\ UNCHANGED <<composer, sends, poll, dels, feed>>

\* delete of store.rs: the message under the identifier becomes a ghost.
Without(S, id) == {IF m.id = id THEN [m EXCEPT !.deleted = TRUE] ELSE m : m \in S}

Listed == board

List(q) ==
    /\ q \in DOMAIN poll /\ ~poll[q].answered
    /\ poll' = [poll EXCEPT ![q].answered = TRUE, ![q].list = Listed]
    /\ UNCHANGED <<composer, sends, server, dels, feed>>

\* Somebody else posts.
Other ==
    /\ Cardinality(board) < MaxMessages
    /\ board' = board \cup {New({}, Elsewhere)}
    /\ UNCHANGED <<served, composer, sends, poll, dels, feed>>

-----------------------------------------------------------------------------
(* refresh.                                                                *)

RenderedNew(list) ==        \* bug: draws a list only if it has a new message
    IF NextId(list) > NextId(feed) THEN list ELSE feed
Rendered(list) == list

\* A refresh begins.
Ask ==
    /\ Len(poll) < MaxPolls
    /\ poll' = Append(poll, [answered |-> FALSE, list |-> {}, late |-> FALSE])

\* The interval is over, whether the last refresh was answered or not.
Poll == Ask /\ UNCHANGED <<composer, sends, server, dels, feed>>

\* Those in flight when another one is over.
Others(q) == RemoveAt(poll, q)

Render(q) ==
    /\ q \in DOMAIN poll /\ poll[q].answered
    /\ feed' = Rendered(poll[q].list)
    /\ poll' = [i \in DOMAIN Others(q) |-> [Others(q)[i] EXCEPT !.late = TRUE]]
    /\ UNCHANGED <<composer, sends, server, dels>>

KeptEmpty == {}             \* bug: an error takes the feed away
\* What a refresh that breaks leaves rendered.
Kept == feed

Miss(q) ==
    /\ q \in DOMAIN poll
    /\ poll' = Others(q)
    /\ feed' = Kept
    /\ UNCHANGED <<composer, sends, server, dels>>

-----------------------------------------------------------------------------
(* The composer, and send.                                                 *)

\* The user types, attaches an image or another one in its place, or removes
\* what is there; refreshSend sets the button.
Edit(items) ==
    /\ items # draft /\ (items \ draft) \cap wanted = {}
    /\ draft' = items
    /\ wanted' = (wanted \ draft) \cup items
    /\ button' = (items # {})
    /\ hasty' = (hasty \/ Busy)
    /\ UNCHANGED <<sends, server, poll, dels, feed>>

ButtonWhileSendingOn == TRUE     \* bug: the button stays enabled
ButtonWhileSending == FALSE

SendableAlways == TRUE          \* bug: an empty composer is sent
Sendable == draft # {}

Send(p) ==
    /\ Sendable
    /\ post[p] = "idle" /\ \A o \in 1..(p - 1) : post[o] # "idle"
    /\ button' = ButtonWhileSending
    /\ body' = [body EXCEPT ![p] = draft]
    /\ post' = [post EXCEPT ![p] = "open"]
    /\ served' = [served EXCEPT ![p] = "coming"]
    /\ UNCHANGED <<draft, wanted, board, poll, dels, feed>>

\* Both the button and the key call send; the key does not ask whether the
\* button is enabled.
Click(p) == button /\ Send(p) /\ UNCHANGED hasty
Press(p) == Send(p) /\ hasty' = (hasty \/ Busy)

LeftEmpty == {}          \* bug: a refused post empties the composer
\* What a post that was refused or broke leaves in the composer.
Left == draft

\* The page has its answer: the composer is emptied and the feed refreshed,
\* or an error is shown and the composer kept.
Settle(p) ==
    /\ post[p] = "open"
    /\ post' = [post EXCEPT ![p] = "answered"]
    /\ \/ /\ served[p] = "stored"
          /\ draft' = {} /\ button' = FALSE
          /\ Ask
       \/ /\ served[p] = "refused"
          /\ draft' = Left /\ button' = TRUE
          /\ UNCHANGED poll
    /\ UNCHANGED <<body, wanted, hasty, server, dels, feed>>

\* The connection breaks before the answer; the server may act on it yet.
Break(p) ==
    /\ post[p] = "open"
    /\ post' = [post EXCEPT ![p] = "failed"]
    /\ draft' = Left /\ button' = TRUE
    /\ UNCHANGED <<body, wanted, hasty, server, poll, dels, feed>>

-----------------------------------------------------------------------------
(* doDelete.                                                               *)

AskDelete(m) ==
    /\ m \in feed /\ ~m.deleted
    /\ Cardinality(dels) < MaxDels
    /\ dels' = dels \cup {m}
    /\ UNCHANGED <<composer, sends, server, poll, feed>>

\* The server acts on it; the page refreshes, whether the message was there or
\* not, unless the answer is lost.
TakeDelete(m) ==
    /\ m \in dels
    /\ dels' = dels \ {m}
    /\ board' = Without(board, m.id)
    /\ Ask \/ UNCHANGED poll
    /\ UNCHANGED <<served, composer, sends, feed>>

LoseDelete(m) ==
    /\ m \in dels
    /\ dels' = dels \ {m}
    /\ UNCHANGED <<composer, sends, server, poll, feed>>

-----------------------------------------------------------------------------
Next ==
    \/ \E items \in SUBSET Items : Edit(items)
    \/ \E p \in Posts : Click(p) \/ Press(p) \/ Take(p) \/ Settle(p) \/ Break(p)
    \/ Poll \/ \E q \in 1..MaxPolls : List(q) \/ Render(q) \/ Miss(q)
    \/ \E m \in feed : AskDelete(m)
    \/ \E m \in dels : TakeDelete(m) \/ LoseDelete(m)
    \/ Other

Spec == Init /\ [][Next]_vars

\* The interval goes on, the server answers, and the browser draws.
FairSpec ==
    /\ Spec
    /\ WF_vars(Poll)
    /\ \A q \in 1..MaxPolls : WF_vars(List(q)) /\ WF_vars(Render(q))

-----------------------------------------------------------------------------
(* Properties.                                                             *)

\* A user who leaves the composer alone while a send is in flight loses
\* nothing: what was entered is in the composer or on the board
\* (app.js:345-350; typing meanwhile is lost, as line 346 empties what is there).
NothingLost ==
    ~hasty =>
        wanted \subseteq draft \cup UNION {m.body : m \in board}

\* Nor does such a user post anything twice, clicking as often as they like,
\* unless a connection broke under a post (app.js:334, 348-350).
NoDouble ==
    ~hasty => \A m, n \in board :
        m # n /\ m.body \cap n.body # {} => "failed" \in {post[m.post], post[n.post]}

\* The feed never goes back, to a list without a message it showed or from before
\* a delete it showed, unless answers overtook each other (app.js:213-222).
Behind(S, T) ==
    \E m \in T : \A n \in S : n.id = m.id => m.deleted /\ ~n.deleted

FeedGoesOn ==
    [][Behind(feed', feed) =>
          \E q \in DOMAIN poll : poll[q].answered /\ poll[q].late /\ feed' = poll[q].list]_vars

\* A delete takes the message the user saw, however old the feed was they saw
\* it in.
DeletesWhatWasSeen ==
    [][\A m \in board : ~m.deleted =>
        \A n \in board' : n = [m EXCEPT !.deleted = TRUE] =>
            m \in dels]_vars

\* Once refreshes stop to break, the page comes to show the board, though older
\* answers overtake newer ones.
FeedFollows ==
    <>[][\A q \in 1..MaxPolls : Miss(q) => Render(q)]_vars => <>[](feed = board)
=============================================================================
