------------------------------ MODULE MCSequencer ------------------------------
(***************************************************************************)
(* The microengine running the microprogram, for TLC.                      *)
(***************************************************************************)
EXTENDS Microengine, Microprogram

Super == [s |-> TRUE, t |-> FALSE, i |-> 7]
User  == [s |-> FALSE, t |-> FALSE, i |-> 0]
Open  == [s |-> TRUE, t |-> FALSE, i |-> 0]

\* What a program may load into its status register.
PlainSRs  == {User, Super}
TracedSRs == {[User EXCEPT !.t = TRUE]}
IrqSRs    == {Super, Open}

\* The words whose cycles may fault, by what a run asks.
Everywhere == Labels \ {"except_frame", "rte_ok", "movetosr_body",
                        "mul", "div", "dbcc"}
=============================================================================
