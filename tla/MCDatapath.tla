------------------------------- MODULE MCDatapath -------------------------------
(***************************************************************************)
(* Sets of instructions for TLC.                                           *)
(***************************************************************************)
EXTENDS Programmer

Everything == InstructionSet
Immediates == over({"addi"}, {"aind", "adisp"}, SIZES) \cup over({"bchgi"}, {"apre"}, {"word"})
Products   == over({"mulu", "divu"}, {"dn", "aind"}, {"word"})
=============================================================================
