------------------------------ MODULE Messages ------------------------------
(***************************************************************************)
(* The messages of a board (struct Message of src/src/store.rs) and what   *)
(* its two mutations make of them.  Board works on them, and AbstractBoard *)
(* says what a reader may see of them.                                     *)
(***************************************************************************)
EXTENDS Integers

CONSTANTS
    Images,     \* attachment contents; the hash that names the file of one is the content
    None        \* no image

\* Addresses, names and content types are left out; `text` says whether there is any.
Message == [id : Nat \ {0}, ts : Nat, text : BOOLEAN, att : Images \cup {None},
            deleted : BOOLEAN, evicted : BOOLEAN]

\* What delete leaves of a message.
Ghosted(m) == [m EXCEPT !.deleted = TRUE, !.text = FALSE, !.att = None, !.evicted = FALSE]
\* What the quota sweep leaves of a message whose file it removed.
Evict(m) == [m EXCEPT !.att = None, !.evicted = TRUE]

\* m is what time may have made of n: nothing, a deletion, an eviction.
Descends(n, m) ==
    \/ m = n
    \/ ~n.deleted /\ m = Ghosted(n)
    \/ n.att # None /\ m = Evict(n)

\* delete and the marks of the quota sweep, on all of the messages.
Deleted(S, m) == (S \ {m}) \cup {Ghosted(m)}

EvictedInNoReshare(S, gone) ==     \* bug: stops at the first message of a shared file
    {IF m.att \in gone /\ \A n \in S : n.att = m.att => m.id <= n.id
     THEN Evict(m) ELSE m : m \in S}
EvictedIn(S, gone) == {IF m.att \in gone THEN Evict(m) ELSE m : m \in S}
=============================================================================
