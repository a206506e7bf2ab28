---------------------------- MODULE MCBusInterface ----------------------------
(***************************************************************************)
(* Small instances of the bus interface unit for TLC.                      *)
(***************************************************************************)
EXTENDS BusInterface, TLC

CONSTANTS i1, i2

MCIds     == {i1, i2}
MCOneId   == {i1}
Permuted  == Permutations(MCIds)
=============================================================================
