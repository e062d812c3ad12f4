--------------------------- MODULE MCPendingLoop ---------------------------
(***************************************************************************)
(* PendingLoop with few messages and commands.                             *)
(***************************************************************************)
EXTENDS PendingLoop, TLC

CONSTANTS m1, m2, m3, c1, c2

MCTwo == {m1, m2}
MCThree == {m1, m2, m3}
MCOneCommand == {c1}
MCTwoCommands == {c1, c2}
MCSymmetry == Permutations({m1, m2, m3}) \cup Permutations({c1, c2})
=============================================================================
