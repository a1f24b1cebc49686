------------------------------ MODULE MCBoard ------------------------------
(***************************************************************************)
(* Small instances of Board for TLC.                                       *)
(***************************************************************************)
EXTENDS Board, TLC

CONSTANTS r1, r2, a, b, c

MCOne == {r1}
MCTwo == {r1, r2}
MCImages1 == {b}
MCImages2 == {a, b}
MCImages3 == {a, b, c}
MCBytes1 == (b :> 2)
MCBytes2 == (a :> 1) @@ (b :> 2)
MCBytes3 == (a :> 1) @@ (b :> 2) @@ (c :> 2)
=============================================================================
