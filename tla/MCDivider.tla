------------------------------- MODULE MCDivider -------------------------------
(***************************************************************************)
(* The divider with short words, for TLC.                                  *)
(***************************************************************************)
EXTENDS Divider

Powers == [n \in 0 .. 2 * W |-> 2 ^ n]
=============================================================================
