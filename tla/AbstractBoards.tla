--------------------------- MODULE AbstractBoards ---------------------------
(***************************************************************************)
(* What the boards of a node promise those who read them, without units,   *)
(* directories, commands or a migration.                                   *)
(*                                                                         *)
(* A network has a board or, for a while, none.  A board shows what was    *)
(* posted on its network, all of that and nothing else, whichever process  *)
(* it was posted to and however often boards have come and gone since.     *)
(***************************************************************************)
CONSTANT Networks

VARIABLES
    posted,     \* every message that was ever posted
    shown       \* for each network, what the boards at its address show

vars == <<posted, shown>>

On(n) == {m \in posted : m.net = n}

Init == posted = {} /\ shown = [n \in Networks |-> {}]

\* A board comes up.
Start(n) ==
    /\ shown[n] = {}
    /\ shown' = [shown EXCEPT ![n] = {On(n)}]
    /\ UNCHANGED posted

\* It goes away.
Stop(n) ==
    /\ shown[n] # {}
    /\ shown' = [shown EXCEPT ![n] = {}]
    /\ UNCHANGED posted

\* A message is posted on the network of a board.
Post(n) ==
    /\ shown[n] # {}
    /\ \E m \in posted' \ posted : m.net = n /\ posted' = posted \cup {m}
    /\ shown' = [shown EXCEPT ![n] = {On(n)'}]

Next == \E n \in Networks : Start(n) \/ Stop(n) \/ Post(n)

Spec == Init /\ [][Next]_vars
=============================================================================
