--------------------------- MODULE AbstractBoard ---------------------------
(***************************************************************************)
(* What a message board promises those who read it, without requests, a    *)
(* Mutex, files or a log.                                                  *)
(*                                                                         *)
(* A board grows by one message at a time, under an identifier above all   *)
(* of those it shows; a message is deleted for good, and may lose its      *)
(* image.  A sound board that stops may fall back, but to no less than     *)
(* what is safe, and never to a message it did not show before; and what   *)
(* is safe one time stays safe.                                            *)
(*                                                                         *)
(* Where a file may be cut within a character, a board may be spoiled.  It *)
(* goes on as before, with nothing safe, and is sound again once all of it *)
(* was written out anew; if it stops first, it shows nothing for ever.     *)
(***************************************************************************)
EXTENDS Messages

CONSTANTS
    Accepted,   \* the images a post may show
    MaySpoil    \* may a file be cut within a character?

VARIABLES
    board,      \* the messages a reader gets, or would get from a board started now
    safe,       \* those that no stop of the board takes back
    health      \* "sound", "spoiled", or "refused": spoiled when it stopped

vars == <<board, safe, health>>

Unique(S) == \A m, n \in S : m.id = n.id => m = n

\* Whatever S has T has too, in that form or a later one.
Older(S, T) == \A n \in S : \E m \in T : Descends(n, m)

Init == board = {} /\ safe = {} /\ health = "sound"

\* A post: new, not empty, with an image that was accepted.
Post ==
    /\ health # "refused"
    /\ \E m \in board' \ board :
          /\ board' = board \cup {m}
          /\ m \in Message
          /\ \A n \in board : n.id < m.id
          /\ ~m.deleted /\ ~m.evicted
          /\ m.text \/ m.att # None
          /\ m.att \in Accepted \cup {None}
    /\ UNCHANGED <<safe, health>>

Delete ==
    /\ health # "refused"
    /\ \E m \in board : ~m.deleted /\ board' = Deleted(board, m)
    /\ UNCHANGED <<safe, health>>

\* One sweep takes its images from all the messages that show them.
Evictions ==
    /\ health # "refused"
    /\ \E gone \in SUBSET Images : board' = EvictedIn(board, gone)
    /\ UNCHANGED <<safe, health>>

\* More of the board becomes safe, or a later form of it.
Settle ==
    /\ health = "sound"
    /\ Older(safe, safe') /\ Older(safe', board)
    /\ UNCHANGED <<board, health>>

\* The board stops: what was not safe may be lost, or be as it was.
Fallback ==
    /\ health = "sound"
    /\ Older(safe, board') /\ Older(board', board) /\ Unique(board')
    /\ UNCHANGED <<safe, health>>

Spoil ==
    /\ MaySpoil /\ health = "sound"
    /\ health' = "spoiled" /\ safe' = {}
    /\ UNCHANGED board

\* All of a spoiled board is written out anew.
Mend ==
    /\ health = "spoiled"
    /\ health' = "sound" /\ safe' = board
    /\ UNCHANGED board

\* A spoiled board stops, or one that the stop itself spoils.
Refuse ==
    /\ health = "spoiled" \/ (MaySpoil /\ health = "sound")
    /\ health' = "refused" /\ board' = {} /\ safe' = {}

Next == \/ Post \/ Delete \/ Evictions \/ Settle \/ Fallback
        \/ Spoil \/ Mend \/ Refuse

Spec == Init /\ [][Next]_vars
=============================================================================
