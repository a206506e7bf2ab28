----------------------------- MODULE DualEdge_proofs -----------------------------
(***************************************************************************)
(* The dual-edge cell is a register, whatever its width.                   *)
(***************************************************************************)
EXTENDS DualEdge, TLAPS

TypeOK == clk \in BOOLEAN /\ Inputs /\ q_p \subseteq Bits /\ q_n \subseteq Bits

\* What was combined with a value gives itself, combined with it again: on
\* either side.
LEMMA XorCancels ==
  ASSUME NEW a \in SUBSET Bits, NEW b \in SUBSET Bits
  PROVE  xor(xor(a, b), b) = a /\ xor(b, xor(a, b)) = a /\ xor(a, b) \subseteq Bits
BY DEF xor

\* Every register of the cell keeps its type.
LEMMA TypeCorrect == Spec => []TypeOK
<1>1. Init => TypeOK
  BY DEF Init, TypeOK
<1>2. TypeOK /\ [Next]_vars => TypeOK'
  <2>. SUFFICES ASSUME TypeOK, [Next]_vars PROVE TypeOK'
    OBVIOUS
  <2>1. CASE Rising /\ Inputs_nxt
    BY <2>1, XorCancels DEF Rising, TypeOK, Inputs, Inputs_nxt
  <2>2. CASE Falling /\ Inputs_nxt
    BY <2>2, XorCancels DEF Falling, TypeOK, Inputs, Inputs_nxt
  <2>3. CASE Reset /\ Inputs_nxt
    BY <2>3 DEF Reset, TypeOK, Inputs, Inputs_nxt
  <2>4. CASE UNCHANGED vars
    BY <2>4 DEF vars, inputs, TypeOK, Inputs
  <2>. QED  BY <2>1, <2>2, <2>3, <2>4 DEF Next
<1>. QED  BY <1>1, <1>2, PTL DEF Spec

\* Whatever its width, whatever is loaded on which edge and whenever it is reset,
\* the cell implements the register that either edge loads.
THEOREM CellIsARegister == Spec => RegisterSpec
<1>1. Init => Register!Init
  BY DEF Init, Inputs, Register!Init, Register!Inputs, q, xor
<1>2. TypeOK /\ [Next]_vars => [Register!Next]_<<clk, Register!inputs, q>>
  <2>. SUFFICES ASSUME TypeOK, [Next]_vars PROVE [Register!Next]_<<clk, Register!inputs, q>>
    OBVIOUS
  <2>0. Inputs_nxt => Register!Inputs'
    BY DEF Inputs_nxt, Register!Inputs
  <2>1. CASE Rising /\ Inputs_nxt
    BY <2>0, <2>1, XorCancels
       DEF Rising, TypeOK, Inputs, Register!Next, Register!Rising, Register!Loads, q
  <2>2. CASE Falling /\ Inputs_nxt
    BY <2>0, <2>2, XorCancels
       DEF Falling, TypeOK, Inputs, Register!Next, Register!Falling, Register!Loads, q
  <2>3. CASE Reset /\ Inputs_nxt
    BY <2>0, <2>3 DEF Reset, Register!Next, Register!Reset, q, xor
  <2>4. CASE UNCHANGED vars
    BY <2>4 DEF vars, inputs, Register!inputs, q
  <2>. QED  BY <2>1, <2>2, <2>3, <2>4 DEF Next
<1>. QED  BY <1>1, <1>2, TypeCorrect, PTL DEF Spec, RegisterSpec, Register!Spec
=============================================================================
