------------------------------ MODULE MCBoards ------------------------------
(***************************************************************************)
(* Small instances of Boards for TLC.                                      *)
(***************************************************************************)
EXTENDS Boards, TLC

CONSTANTS n1, n2, c1, c2

MCOne == {n1}
MCTwo == {n1, n2}
MCPinned == {n1, n2}
MCUnpinned == {Empty, NoState}
MCAny == MCPinned \cup MCUnpinned
MCCmd == {c1}
MCCmds == {c1, c2}
Symmetry == Permutations(Networks) \cup Permutations(Cmds)
=============================================================================
