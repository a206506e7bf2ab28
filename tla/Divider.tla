-------------------------------- MODULE Divider --------------------------------
(***************************************************************************)
(* The divider, rtl/rd68011_divider.sv, and the microcode of DIVU and DIVS *)
(* that waits for it, from the operand in t1 on.  One step is one clock,   *)
(* in which both go on.                                                    *)
(*                                                                         *)
(* Words of registers are natural numbers.  The arms of conditional words, *)
(* which only jump on, are folded into them; the clocks that the last      *)
(* word's prefetch takes leave the divider alone and are left out.         *)
(***************************************************************************)
EXTENDS Integers

CONSTANTS W,           \* bits of a divisor and of a quotient, 16 in the code
          power        \* power[n] is 2^n

ASSUME WidthAssumption ==
  /\ W \in Nat \ {0} /\ power \in [0 .. 2 * W -> Nat \ {0}]
  /\ power[0] = 1 /\ power[1] = 2
  /\ \A m, n \in 0 .. 2 * W : m + n \in 0 .. 2 * W => power[m + n] = power[m] * power[n]

Half == power[W]
Full == power[2 * W]

VARIABLES word,        \* the microword
          is_signed,   \* DIVS or DIVU
          dn, t1,      \* the register that is divided, the operand it is divided by
          began,       \* history: dn as the instruction began
          outcome,     \* history: how the last division ended
          busy, q, rem, den, count, neg_q, neg_r, signed_r
divider == <<busy, q, rem, den, count, neg_q, neg_r, signed_r>>
vars    == <<word, is_signed, dn, t1, began, outcome, divider>>

Init ==
  /\ word = "over" /\ is_signed = FALSE /\ t1 = 0 /\ outcome = "none"
  /\ dn \in 0 .. Full - 1 /\ began = dn
  /\ busy = FALSE /\ q = 0 /\ rem = 0 /\ den = 0 /\ count = 0
  /\ neg_q = FALSE /\ neg_r = FALSE /\ signed_r = FALSE
-----------------------------------------------------------------------------
negative(x, half)   == x >= half
negate(x, full)     == (full - x) % full

abs_dividend == IF is_signed /\ negative(dn, power[2 * W - 1]) THEN negate(dn, Full) ELSE dn
abs_divisor  == IF is_signed /\ negative(t1, power[W - 1]) THEN negate(t1, Half) ELSE t1

\* The next bit of the dividend joins the remainder, whose top bit falls out.
rem_shift == ((2 * rem) % Full) + (q \div power[2 * W - 1])

fits == rem_shift >= den

\* Mutant: the division is never over.
NeverOver(start) == start \/ busy

busy_nxt(start) == IF busy THEN count # 0 ELSE start

\* A division that starts, an iteration, or neither.
Divide(start) ==
  LET starts == start /\ ~busy
      works  == busy /\ count # 0
  IN /\ busy'  = busy_nxt(start)
     /\ q'     = CASE starts -> abs_dividend
                   [] works  -> ((2 * q) % Full) + (IF fits THEN 1 ELSE 0)
                   [] OTHER  -> q
     /\ rem'   = CASE starts -> 0
                   [] works  -> IF fits THEN rem_shift - den ELSE rem_shift
                   [] OTHER  -> rem
     /\ count' = CASE starts -> 2 * W [] works -> count - 1 [] OTHER -> count
     /\ IF starts
        THEN /\ den' = abs_divisor
             /\ neg_q' = (is_signed /\ negative(dn, power[2 * W - 1]) # negative(t1, power[W - 1]))
             /\ neg_r' = (is_signed /\ negative(dn, power[2 * W - 1]))
             /\ signed_r' = is_signed
        ELSE UNCHANGED <<den, neg_q, neg_r, signed_r>>

\* The results, with the signs put back.
mag_q     == q % Half
mag_r     == rem % Half
quotient  == IF neg_q THEN negate(mag_q, Half) ELSE mag_q
remainder == IF neg_r THEN negate(mag_r, Half) ELSE mag_r

\* Mutant: the range of signed quotients is taken as symmetric.
Symmetric == q >= Half \/ (signed_r /\ mag_q > power[W - 1] - 1)

ovf == \/ q >= Half
       \/ signed_r /\ mag_q > (IF neg_q THEN power[W - 1] ELSE power[W - 1] - 1)
-----------------------------------------------------------------------------
(***************************************************************************)
(* The microcode.                                                          *)
(***************************************************************************)
\* A program divides the register again: the operand has been read into t1.
Operand ==
  /\ word = "over" /\ word' = "zero"
  /\ is_signed' \in BOOLEAN /\ t1' \in 0 .. Half - 1
  /\ began' = dn /\ outcome' = "none"
  /\ UNCHANGED <<dn, divider>>

\* A divisor of zero traps.
Test ==
  /\ word = "zero"
  /\ IF t1 = 0 THEN word' = "over" /\ outcome' = "trap"
               ELSE word' = "start" /\ UNCHANGED outcome
  /\ Divide(FALSE)
  /\ UNCHANGED <<is_signed, dn, t1, began>>

Start ==
  /\ word = "start" /\ word' = "wait"
  /\ Divide(TRUE)
  /\ UNCHANGED <<is_signed, dn, t1, began, outcome>>

Wait ==
  /\ word = "wait" /\ word' = IF busy THEN "wait" ELSE "done"
  /\ Divide(FALSE)
  /\ UNCHANGED <<is_signed, dn, t1, began, outcome>>

\* Did the quotient fit?
Fit ==
  /\ word = "done" /\ word' = IF ovf THEN "ovf" ELSE "ok"
  /\ Divide(FALSE)
  /\ UNCHANGED <<is_signed, dn, t1, began, outcome>>

\* The remainder and quotient, into the two halves of the register.
Result ==
  /\ word \in {"ok", "ovf"} /\ word' = "over"
  /\ dn' = IF word = "ok" THEN remainder * Half + quotient ELSE dn
  /\ outcome' = IF word = "ok" THEN "answer" ELSE "overflow"
  /\ Divide(FALSE)
  /\ UNCHANGED <<is_signed, t1, began>>

Clock == Test \/ Start \/ Wait \/ Fit \/ Result

Next == Operand \/ Clock

Spec == Init /\ [][Next]_vars

\* The clock runs, and an instruction goes on by itself.
FairSpec == Spec /\ WF_vars(Clock)
-----------------------------------------------------------------------------
(***************************************************************************)
(* Properties.                                                             *)
(***************************************************************************)
\* What a word of n bits stands for, and the quotients there are words for.
Value(x, n) == IF is_signed /\ negative(x, power[n - 1]) THEN x - power[n] ELSE x
Quotients == IF is_signed THEN -power[W - 1] .. power[W - 1] - 1 ELSE 0 .. Half - 1

\* a divided by b is c, and leaves d: towards zero, the remainder with a's sign.
Divided(a, b, c, d) ==
  /\ a = c * b + d
  /\ IF b > 0 THEN -b < d /\ d < b ELSE b < d /\ d < -b
  /\ a >= 0 => d >= 0
  /\ a <= 0 => d <= 0

(***************************************************************************)
(* DIVU and DIVS divide, whatever the signs and however near the quotient  *)
(* is to the limits of its range; they say that it does not fit exactly    *)
(* when it does not, and then leave the register alone.                    *)
(***************************************************************************)
Division ==
  word = "over" =>
    LET a == Value(began, 2 * W)
        b == Value(t1, W)
    IN /\ outcome = "trap" => t1 = 0 /\ dn = began
       /\ outcome = "answer" => Divided(a, b, Value(dn % Half, W), Value(dn \div Half, W))
       /\ outcome = "overflow" =>
            /\ dn = began
            /\ \A c \in Quotients, d \in -Half .. Half : ~Divided(a, b, c, d)

\* The loop that waits for the divider is left.
Ends == word # "over" ~> word = "over"
=============================================================================
