------------------------------ MODULE EdgeRegister ------------------------------
(***************************************************************************)
(* A register that either edge of the clock may load: what the signals of  *)
(* the bus that are set on one edge and cleared on the other ask for.  Its *)
(* value is the set of the bits that are 1.                                *)
(***************************************************************************)
CONSTANT Bits

VARIABLES clk, en_p, d_p, en_n, d_n, q
inputs == <<en_p, d_p, en_n, d_n>>

Inputs == en_p \in BOOLEAN /\ en_n \in BOOLEAN /\ d_p \subseteq Bits /\ d_n \subseteq Bits

Init == clk \in BOOLEAN /\ Inputs /\ q = {}

Loads(en, d) == q' = IF en THEN d ELSE q

Rising  == ~clk /\ clk' = TRUE /\ Loads(en_p, d_p)
Falling == clk /\ clk' = FALSE /\ Loads(en_n, d_n)

Reset == q' = {} /\ UNCHANGED clk

Next == (Rising \/ Falling \/ Reset) /\ Inputs'

Spec == Init /\ [][Next]_<<clk, inputs, q>>
=============================================================================
