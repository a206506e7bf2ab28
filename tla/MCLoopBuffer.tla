------------------------------ MODULE MCLoopBuffer ------------------------------
(***************************************************************************)
(* The loop buffer under the microprogram, for TLC.                        *)
(***************************************************************************)
EXTENDS LoopBuffer, Microprogram

\* What RTE may come back to: a fetch, and a prefetch and a write of one MOVE.
Interrupted == {<<"nop", 1>>, <<"move", 2>>, <<"move", 3>>}

\* A program in one space that is not the program in the other.
TwoSpaces == [s \in BOOLEAN |-> [a \in Places |-> IF s THEN 1 ELSE 0]]
=============================================================================
