-------------------------------- MODULE DualEdge --------------------------------
(***************************************************************************)
(* The dual-edge cell, rtl/rd68011_dedge_ff.sv: two ranks of flops, one    *)
(* for each edge, each storing its value combined with what the other      *)
(* holds.  A value is the set of its bits that are 1, so that the          *)
(* exclusive or of two is their symmetric difference.                      *)
(***************************************************************************)
CONSTANT Bits   \* WIDTH of them

VARIABLES clk, en_p, d_p, en_n, d_n, q_p, q_n
inputs == <<en_p, d_p, en_n, d_n>>
vars   == <<clk, inputs, q_p, q_n>>

xor(a, b) == (a \ b) \cup (b \ a)

q == xor(q_p, q_n)

\* The ports may hold anything at each edge.
Inputs == en_p \in BOOLEAN /\ en_n \in BOOLEAN /\ d_p \in SUBSET Bits /\ d_n \in SUBSET Bits
Inputs_nxt == /\ en_p' \in BOOLEAN    /\ en_n' \in BOOLEAN
              /\ d_p' \in SUBSET Bits /\ d_n' \in SUBSET Bits

Init == clk \in BOOLEAN /\ Inputs /\ q_p = {} /\ q_n = {}

Rising == /\ ~clk /\ clk' = TRUE
          /\ q_p' = IF en_p THEN xor(d_p, q_n) ELSE q_p
          /\ UNCHANGED q_n

Falling == /\ clk /\ clk' = FALSE
           /\ q_n' = IF en_n THEN xor(d_n, q_p) ELSE q_n
           /\ UNCHANGED q_p

\* rst_n is asserted, at any time.
Reset == q_p' = {} /\ q_n' = {} /\ UNCHANGED clk

Next == (Rising \/ Falling \/ Reset) /\ Inputs_nxt

Spec == Init /\ [][Next]_vars
-----------------------------------------------------------------------------
Register == INSTANCE EdgeRegister

\* Whatever is loaded on which edge, and in whatever order, the two halves of the
\* cell make one register that holds what was loaded last: a half that stored its
\* value combined with the other half is never read against another one.
RegisterSpec == Register!Spec
=============================================================================
