------------------------------ MODULE MCLocks ------------------------------
(***************************************************************************)
(* A small instance of Locks for TLC.                                      *)
(***************************************************************************)
EXTENDS Locks, TLC

CONSTANTS r1, r2

MCTwo == {r1, r2}
=============================================================================
