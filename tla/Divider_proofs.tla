---------------------------- MODULE Divider_proofs ----------------------------
(***************************************************************************)
(* DIVU and DIVS divide, at every width.                                   *)
(***************************************************************************)
EXTENDS Divider, TLAPS

Mag(x) == IF x < 0 THEN -x ELSE x

-----------------------------------------------------------------------------
(***************************************************************************)
(* Arithmetic.                                                             *)
(***************************************************************************)
LEMMA Monotone ==
  ASSUME NEW x \in Nat, NEW y \in Nat, NEW z \in Nat, x <= y
  PROVE  x * z <= y * z
<1>1. y * z = x * z + (y - x) * z
  OBVIOUS
<1>2. (y - x) * z >= 0
  OBVIOUS
<1> QED BY <1>1, <1>2

LEMMA Natural == \A x, y \in Nat : x * y \in Nat
OBVIOUS

\* There is one quotient.
LEMMA Unique ==
  ASSUME NEW b \in Nat, NEW c1 \in Nat, NEW c2 \in Nat, NEW d1 \in Nat, NEW d2 \in Nat,
         d1 < b, d2 < b, c1 * b + d1 = c2 * b + d2
  PROVE  c1 = c2
<1>1. ASSUME NEW x \in Nat, NEW y \in Nat, NEW u \in Nat, NEW v \in Nat,
             u < b, x < y, x * b + u = y * b + v
      PROVE  FALSE
  <2>1. (x + 1) * b <= y * b
    BY <1>1, Monotone
  <2>2. (x + 1) * b = x * b + b
    OBVIOUS
  <2>3. x * b \in Nat /\ y * b \in Nat
    BY Natural
  <2> QED BY <1>1, <2>1, <2>2, <2>3
<1>2. ~(c1 < c2)
  BY <1>1
<1>3. ~(c2 < c1)
  BY <1>1
<1> QED BY <1>2, <1>3

\* A signed division is one of magnitudes.
LEMMA Magnitudes ==
  ASSUME NEW a \in Int, NEW b \in Int, NEW c \in Int, NEW d \in Int, b # 0,
         Divided(a, b, c, d)
  PROVE  /\ Mag(a) = Mag(c) * Mag(b) + Mag(d) /\ Mag(d) < Mag(b)
         /\ c < 0 => (a < 0) # (b < 0)
<1>1. /\ a = c * b + d /\ (a >= 0 => d >= 0) /\ (a <= 0 => d <= 0)
      /\ -Mag(b) < d /\ d < Mag(b)
  BY DEF Divided, Mag
<1>2. Mag(d) < Mag(b) /\ Mag(b) > 0 /\ Mag(b) \in Nat /\ Mag(c) \in Nat /\ Mag(d) \in Nat
  BY <1>1 DEF Mag
<1>3. c * b = Mag(c) * Mag(b) \/ c * b = -(Mag(c) * Mag(b))
  BY DEF Mag
<1>4. Mag(c) # 0 => Mag(c) * Mag(b) >= Mag(b)
  <2>1. Mag(c) # 0 => 1 * Mag(b) <= Mag(c) * Mag(b)
    BY <1>2, Monotone
  <2> QED BY <1>2, <2>1
<1>5. Mag(c) = 0 => Mag(c) * Mag(b) = 0
  BY <1>2
<1>6. Mag(c) * Mag(b) \in Nat
  BY <1>2, Natural
<1>7. Mag(a) = Mag(c) * Mag(b) + Mag(d)
  BY <1>1, <1>2, <1>3, <1>4, <1>5, <1>6 DEF Mag
<1>8. ASSUME c < 0, (a < 0) <=> (b < 0)
      PROVE  FALSE
  <2>1. Mag(c) = -c /\ Mag(c) # 0
    BY <1>8 DEF Mag
  <2>2. c * b = IF b < 0 THEN Mag(c) * Mag(b) ELSE -(Mag(c) * Mag(b))
    BY <1>8 DEF Mag
  <2> QED BY <1>1, <1>2, <1>4, <1>6, <1>8, <2>1, <2>2
<1> QED BY <1>2, <1>7, <1>8

\* The other way round: signs put on magnitudes.
LEMMA Signs ==
  ASSUME NEW a \in Int, NEW b \in Int, NEW c \in Int, NEW d \in Int, b # 0,
         Mag(a) = Mag(c) * Mag(b) + Mag(d), Mag(d) < Mag(b),
         c # 0 => (c < 0 <=> (a < 0) # (b < 0)),
         d # 0 => (d < 0 <=> a < 0)
  PROVE  Divided(a, b, c, d)
<1>1. Mag(b) \in Nat /\ Mag(c) \in Nat /\ Mag(d) \in Nat /\ Mag(c) * Mag(b) \in Nat
  BY Natural DEF Mag
<1>2. -Mag(b) < d /\ d < Mag(b)
  BY DEF Mag
<1>3. c * b = IF a < 0 THEN -(Mag(c) * Mag(b)) ELSE Mag(c) * Mag(b)
  <2>1. CASE c = 0
    BY <2>1 DEF Mag
  <2>2. CASE c # 0
    BY <2>2 DEF Mag
  <2> QED BY <2>1, <2>2
<1>4. a >= 0 => d >= 0
  BY DEF Mag
<1>5. a <= 0 => d <= 0
  BY <1>1 DEF Mag
<1>6. a = c * b + d
  BY <1>1, <1>3 DEF Mag
<1> QED BY <1>2, <1>4, <1>5, <1>6 DEF Divided, Mag

-----------------------------------------------------------------------------
(***************************************************************************)
(* Words of registers.                                                     *)
(***************************************************************************)
LEMMA PowersOfTwo ==
  /\ \A n \in 0 .. 2 * W : power[n] \in Nat \ {0} /\ power[n] * power[2 * W - n] = Full
  /\ \A n \in 1 .. 2 * W : power[n] = 2 * power[n - 1]
<1>1. \A n \in 0 .. 2 * W : power[n] \in Nat \ {0}
  BY WidthAssumption
<1>2. ASSUME NEW n \in 0 .. 2 * W
      PROVE  power[n] * power[2 * W - n] = Full
  <2>1. 2 * W - n \in 0 .. 2 * W /\ n + (2 * W - n) = 2 * W /\ 2 * W \in 0 .. 2 * W
    BY WidthAssumption
  <2> QED BY <2>1, WidthAssumption DEF Full
<1>3. ASSUME NEW n \in 1 .. 2 * W
      PROVE  power[n] = 2 * power[n - 1]
  <2>1. n - 1 \in 0 .. 2 * W /\ 1 \in 0 .. 2 * W /\ 1 + (n - 1) = n /\ n \in 0 .. 2 * W
    BY WidthAssumption
  <2> QED BY <2>1, WidthAssumption
<1> QED BY <1>1, <1>2, <1>3

LEMMA Widths ==
  /\ Half \in Nat /\ Full \in Nat /\ power[W - 1] \in Nat \ {0} /\ power[2 * W - 1] \in Nat \ {0}
  /\ Half = 2 * power[W - 1] /\ Full = 2 * power[2 * W - 1]
  /\ Full = Half * Half /\ 2 * Half <= Full
<1>1. W \in 0 .. 2 * W /\ W - 1 \in 0 .. 2 * W /\ 2 * W - 1 \in 0 .. 2 * W /\ 2 * W \in 0 .. 2 * W
      /\ W \in 1 .. 2 * W /\ 2 * W \in 1 .. 2 * W /\ 2 * W - W = W
  BY WidthAssumption
<1>2. /\ Half \in Nat /\ Full \in Nat
      /\ power[W - 1] \in Nat \ {0} /\ power[2 * W - 1] \in Nat \ {0}
  BY <1>1, PowersOfTwo DEF Half, Full
<1>3. Half = 2 * power[W - 1] /\ Full = 2 * power[2 * W - 1] /\ Full = Half * Half
  BY <1>1, PowersOfTwo DEF Half, Full
<1>4. 2 * Half <= Half * Half
  BY <1>2, <1>3, Monotone
<1> QED BY <1>2, <1>3, <1>4

\* Every register holds a word of its width.
TypeOK ==
  /\ word \in {"over", "zero", "start", "wait", "done", "ok", "ovf"}
  /\ is_signed \in BOOLEAN /\ outcome \in {"none", "trap", "answer", "overflow"}
  /\ dn \in 0 .. Full - 1 /\ began \in 0 .. Full - 1 /\ t1 \in 0 .. Half - 1
  /\ busy \in BOOLEAN /\ q \in 0 .. Full - 1 /\ rem \in 0 .. Full - 1
  /\ den \in 0 .. Half - 1 /\ count \in 0 .. 2 * W
  /\ {neg_q, neg_r, signed_r} \subseteq BOOLEAN

LEMMA Negation ==
  ASSUME NEW full \in Nat, full > 0, NEW x \in 0 .. full - 1
  PROVE  negate(x, full) = (IF x = 0 THEN 0 ELSE full - x) /\ negate(x, full) \in 0 .. full - 1
<1>1. CASE x = 0
  BY <1>1 DEF negate
<1>2. CASE x # 0
  BY <1>2 DEF negate
<1> QED BY <1>1, <1>2

\* The magnitudes the divider works on.
LEMMA Operands ==
  ASSUME TypeOK
  PROVE  /\ Value(dn, 2 * W) \in Int /\ Value(t1, W) \in Int
         /\ abs_dividend = Mag(Value(dn, 2 * W)) /\ abs_divisor = Mag(Value(t1, W))
         /\ Value(dn, 2 * W) < 0 <=> is_signed /\ negative(dn, power[2 * W - 1])
         /\ Value(t1, W) < 0 <=> is_signed /\ negative(t1, power[W - 1])
         /\ Value(t1, W) = 0 <=> t1 = 0
         /\ abs_dividend \in 0 .. Full - 1 /\ abs_divisor \in 0 .. Half - 1
<1>1. /\ dn \in 0 .. Full - 1 /\ t1 \in 0 .. Half - 1 /\ is_signed \in BOOLEAN
  BY DEF TypeOK
<1>2. power[2 * W] = Full /\ power[W] = Half
  BY DEF Full, Half
<1>3. /\ negate(dn, Full) = (IF dn = 0 THEN 0 ELSE Full - dn)
      /\ negate(t1, Half) = (IF t1 = 0 THEN 0 ELSE Half - t1)
  <2>1. Half \in Nat /\ Full \in Nat /\ Half > 0 /\ Full > 0
    BY Widths
  <2>2. negate(dn, Full) = (IF dn = 0 THEN 0 ELSE Full - dn)
    BY <1>1, <2>1, Negation
  <2>3. negate(t1, Half) = (IF t1 = 0 THEN 0 ELSE Half - t1)
    BY <1>1, <2>1, Negation
  <2> QED BY <2>2, <2>3
<1> QED BY <1>1, <1>2, <1>3, Widths DEF Value, negative, abs_dividend, abs_divisor, Mag

-----------------------------------------------------------------------------
(***************************************************************************)
(* The iterations.                                                         *)
(***************************************************************************)
\* q holds what is left of the dividend above what has been made of the
\* quotient, and rem what is left of the part that has been divided.
Divides(left, made) ==
  /\ left \in 0 .. power[count] - 1 /\ made \in 0 .. power[2 * W - count] - 1
  /\ q = left * power[2 * W - count] + made
  /\ abs_dividend = (made * den + rem) * power[count] + left
  /\ rem < den

DividesInv == \E left, made \in Nat : Divides(left, made)

\* The bit that joins the remainder is the first of what is left.
LEMMA NextBit ==
  ASSUME TypeOK, count # 0, NEW left \in Nat, NEW made \in Nat, Divides(left, made)
  PROVE  LET p == power[count - 1]
             b == IF left >= p THEN 1 ELSE 0
             r == power[2 * W - count]
         IN /\ power[count] = 2 * p /\ power[2 * W - (count - 1)] = 2 * r
            /\ p \in Nat /\ r \in Nat /\ p > 0 /\ r > 0
            /\ left - b * p \in 0 .. p - 1
            /\ q \div power[2 * W - 1] = b
            /\ (2 * q) % Full = (left - b * p) * (2 * r) + 2 * made
<1> DEFINE p == power[count - 1]
           b == IF left >= p THEN 1 ELSE 0
           r == power[2 * W - count]
           rest == left - b * p
<1>1. /\ count \in 1 .. 2 * W /\ count - 1 \in 0 .. 2 * W /\ 2 * W - count \in 0 .. 2 * W
      /\ 2 * W - (count - 1) \in 1 .. 2 * W /\ (2 * W - (count - 1)) - 1 = 2 * W - count
  BY WidthAssumption DEF TypeOK
<1>2. power[count] = 2 * p /\ power[2 * W - (count - 1)] = 2 * r
  BY <1>1, PowersOfTwo
<1>3. p \in Nat /\ r \in Nat /\ p > 0 /\ r > 0
  BY <1>1, PowersOfTwo
<1>4. power[count] * r = Full
  BY <1>1, PowersOfTwo
<1>5. power[2 * W - 1] = p * r /\ Full = 2 * (p * r) /\ p * r \in Nat /\ p * r > 0
  <2>1. (2 * p) * r = 2 * (p * r)
    BY <1>3
  <2>2. p * r \in Nat /\ p * r > 0
    BY <1>3
  <2> QED BY <1>2, <1>4, <2>1, <2>2, Widths
<1>6. left < 2 * p /\ made < r /\ q = left * r + made
  BY <1>2, <1>3 DEF Divides
<1>7. rest \in 0 .. p - 1 /\ left = b * p + rest
  BY <1>3, <1>6
<1>8. q = b * (p * r) + (rest * r + made)
  BY <1>3, <1>6, <1>7
<1>9. rest * r + made \in 0 .. p * r - 1
  <2>1. (rest + 1) * r <= p * r
    BY <1>3, <1>7, Monotone
  <2>2. (rest + 1) * r = rest * r + r /\ rest * r \in Nat
    BY <1>3, <1>7
  <2> QED BY <1>3, <1>5, <1>6, <2>1, <2>2
<1> HIDE DEF p, r, rest
<1>10. q \div power[2 * W - 1] = b
  <2>1. b \in {0, 1} /\ b * (p * r) = IF b = 1 THEN p * r ELSE 0
    BY <1>5
  <2> QED BY <1>5, <1>8, <1>9, <2>1
<1>11. (2 * q) % Full = rest * (2 * r) + 2 * made
  <2> DEFINE m == rest * r + made
  <2>1. m \in 0 .. p * r - 1 /\ q = b * (p * r) + m
    BY <1>8, <1>9
  <2>2. rest * (2 * r) + 2 * made = 2 * m
    <3>1. rest * (2 * r) = 2 * (rest * r)
      BY <1>3, <1>7
    <3>2. rest * r \in Nat /\ made \in Nat
      BY <1>3, <1>7, Natural
    <3> QED BY <3>1, <3>2
  <2> HIDE DEF m
  <2>3. 2 * m \in 0 .. Full - 1 /\ Full \in Nat /\ Full > 0
    BY <1>5, <2>1
  <2>4. 2 * q = 2 * m \/ 2 * q = Full + 2 * m
    <3>1. b * (p * r) = 0 \/ b * (p * r) = p * r
      BY <1>5
    <3>2. q = m \/ q = p * r + m
      BY <1>5, <2>1, <3>1
    <3>3. ASSUME NEW x \in Nat, NEW y \in Nat, q = x + y
          PROVE  2 * q = 2 * x + 2 * y
      BY <3>3
    <3>4. q = p * r + m => 2 * q = 2 * (p * r) + 2 * m
      BY <1>5, <2>1, <3>3
    <3> QED BY <1>5, <3>2, <3>4
  <2>5. (2 * q) % Full = 2 * m
    BY <2>3, <2>4
  <2> QED BY <2>2, <2>5
<1> QED BY <1>2, <1>3, <1>7, <1>10, <1>11 DEF p, r, rest

\* q is made of what Divides says it is made of, so it fits its register.
LEMMA Fits ==
  ASSUME NEW c \in 0 .. 2 * W, NEW left \in 0 .. power[c] - 1,
         NEW made \in 0 .. power[2 * W - c] - 1
  PROVE  left * power[2 * W - c] + made \in 0 .. Full - 1
<1> DEFINE p == power[c]
           r == power[2 * W - c]
<1>1. p \in Nat /\ r \in Nat /\ p * r = Full
  <2>1. 2 * W - c \in 0 .. 2 * W
    BY WidthAssumption
  <2> QED BY <2>1, PowersOfTwo
<1>2. left \in Nat /\ left + 1 <= p /\ made \in Nat /\ made < r
  BY <1>1
<1> HIDE DEF p, r
<1>3. (left + 1) * r <= p * r
  BY <1>1, <1>2, Monotone
<1>4. (left + 1) * r = left * r + r /\ left * r \in Nat
  BY <1>1, <1>2
<1>5. left * r + made \in 0 .. Full - 1
  BY <1>1, <1>2, <1>3, <1>4
<1> QED BY <1>5 DEF r

LEMMA Iteration ==
  ASSUME TypeOK, DividesInv, busy, count # 0, NEW start \in BOOLEAN, Divide(start),
         UNCHANGED <<dn, is_signed>>
  PROVE  /\ DividesInv' /\ busy' /\ UNCHANGED <<den, neg_q, neg_r, signed_r>>
         /\ q' \in 0 .. Full - 1 /\ rem' \in 0 .. Full - 1 /\ count' \in 0 .. 2 * W
<1>1. PICK left \in Nat, made \in Nat : Divides(left, made)
  BY DEF DividesInv
<1> DEFINE p   == power[count - 1]
           b   == IF left >= p THEN 1 ELSE 0
           r   == power[2 * W - count]
           bit == IF fits THEN 1 ELSE 0
           rest == left - b * p
           longer == 2 * made + bit
<1>2. /\ power[count] = 2 * p /\ power[2 * W - (count - 1)] = 2 * r
      /\ p \in Nat /\ r \in Nat /\ p > 0 /\ r > 0
      /\ rest \in 0 .. p - 1
      /\ q \div power[2 * W - 1] = b
      /\ (2 * q) % Full = rest * (2 * r) + 2 * made
  BY <1>1, NextBit
<1>3. /\ count' = count - 1 /\ den' = den /\ abs_dividend' = abs_dividend
      /\ q' = ((2 * q) % Full) + bit
      /\ rem' = IF fits THEN rem_shift - den ELSE rem_shift
      /\ busy' /\ UNCHANGED <<den, neg_q, neg_r, signed_r>>
  BY DEF Divide, busy_nxt, abs_dividend, TypeOK
<1>4. /\ made < r /\ made \in Nat /\ left \in Nat /\ rem < den /\ rem \in Nat /\ den \in Nat
      /\ den < Half /\ abs_dividend = (made * den + rem) * (2 * p) + left
  BY <1>1, <1>2, Widths DEF Divides, TypeOK
<1>5. rem_shift = 2 * rem + b
  <2>1. 2 * rem \in 0 .. Full - 1
    BY <1>4, Widths
  <2>2. (2 * rem) % Full = 2 * rem
    BY <2>1, Widths
  <2> QED BY <1>2, <2>2 DEF rem_shift
<1>6. /\ rest \in Nat /\ longer \in Nat /\ longer \in 0 .. 2 * r - 1
      /\ bit \in {0, 1} /\ b \in {0, 1} /\ longer = 2 * made + bit /\ left = b * p + rest
  BY <1>2, <1>4
<1> HIDE DEF p, b, r, rest, longer
<1>7. q' = rest * (2 * r) + longer
  <2>1. rest * (2 * r) \in Nat
    BY <1>2, <1>6, Natural
  <2> HIDE DEF bit
  <2> QED BY <1>2, <1>3, <1>4, <1>6, <2>1
<1>8. rem' \in Nat /\ rem' < den
  BY <1>3, <1>4, <1>5, <1>6 DEF fits
<1>9. abs_dividend = (longer * den + rem') * p + rest
  <2>1. longer * den = 2 * (made * den) + bit * den
    BY <1>4, <1>6
  <2>2. longer * den + rem' = 2 * (made * den + rem) + b
    <3>1. bit * den = IF fits THEN den ELSE 0
      BY <1>4
    <3>2. made * den \in Nat
      BY <1>4, Natural
    <3> QED BY <1>3, <1>4, <1>5, <1>6, <2>1, <3>1, <3>2
  <2>3. (2 * (made * den + rem) + b) * p = (made * den + rem) * (2 * p) + b * p
    <3>1. made * den + rem \in Nat
      BY <1>4, Natural
    <3>2. b = 0 \/ b = 1
      BY <1>6
    <3> QED BY <1>2, <3>1, <3>2
  <2>4. (made * den + rem) * (2 * p) \in Nat /\ b * p \in Nat
    <3>1. made * den + rem \in Nat /\ 2 * p \in Nat /\ b \in Nat
      BY <1>2, <1>4, <1>6, Natural
    <3> QED BY <1>2, <3>1, Natural
  <2> QED BY <1>4, <1>6, <2>2, <2>3, <2>4
<1>10. count' \in 0 .. 2 * W /\ count' = count - 1 /\ 2 * W - count' = 2 * W - (count - 1)
  BY <1>3, WidthAssumption DEF TypeOK
<1>11. DividesInv'
  <2>1. PICK x \in Nat, y \in Nat : x = rest /\ y = longer
    BY <1>6
  <2>2. /\ x \in 0 .. power[count'] - 1 /\ y \in 0 .. power[2 * W - count'] - 1
        /\ power[count'] = p /\ power[2 * W - count'] = 2 * r
    BY <1>2, <1>6, <1>10, <2>1 DEF p
  <2>3. Divides(x, y)'
    BY <1>3, <1>7, <1>8, <1>9, <2>1, <2>2 DEF Divides
  <2> QED BY <2>3 DEF DividesInv
<1>12. q' \in 0 .. Full - 1
  BY <1>2, <1>6, <1>7, <1>10, Fits DEF p
<1>13. rem' \in 0 .. Full - 1
  BY <1>4, <1>8, Widths
<1> QED BY <1>3, <1>10, <1>11, <1>12, <1>13

\* Before the first iteration everything is left.
LEMMA Starting ==
  ASSUME TypeOK, ~busy, t1 # 0, Divide(TRUE), UNCHANGED <<dn, t1, is_signed>>
  PROVE  /\ DividesInv' /\ busy' /\ den' = abs_divisor
         /\ q' \in 0 .. Full - 1 /\ rem' = 0 /\ count' = 2 * W
         /\ neg_q' = (is_signed /\ negative(dn, power[2 * W - 1]) # negative(t1, power[W - 1]))
         /\ neg_r' = (is_signed /\ negative(dn, power[2 * W - 1])) /\ signed_r' = is_signed
<1>1. /\ q' = abs_dividend /\ rem' = 0 /\ count' = 2 * W /\ den' = abs_divisor /\ busy'
      /\ neg_q' = (is_signed /\ negative(dn, power[2 * W - 1]) # negative(t1, power[W - 1]))
      /\ neg_r' = (is_signed /\ negative(dn, power[2 * W - 1])) /\ signed_r' = is_signed
  BY DEF Divide, busy_nxt
<1>2. abs_dividend' = abs_dividend
  BY DEF abs_dividend
<1>3. abs_dividend \in 0 .. Full - 1 /\ abs_divisor \in 0 .. Half - 1 /\ abs_divisor # 0
  BY Operands DEF Mag
<1>4. power[2 * W - 2 * W] = 1 /\ power[2 * W] = Full
  <2>1. 2 * W - 2 * W = 0
    BY WidthAssumption
  <2> QED BY <2>1, WidthAssumption DEF Full
<1>5. PICK x \in Nat, y \in Nat : x = abs_dividend /\ y = 0
  BY <1>3
<1>6. (y * abs_divisor + 0) * Full = 0
  BY <1>3, <1>5, Widths
<1>7. Divides(x, y)'
  BY <1>1, <1>2, <1>3, <1>4, <1>5, <1>6 DEF Divides
<1> QED BY <1>1, <1>3, <1>7 DEF DividesInv

\* After the last nothing is.
LEMMA Ending ==
  ASSUME TypeOK, DividesInv, count = 0
  PROVE  abs_dividend = q * den + rem /\ rem < den
<1>1. PICK left \in Nat, made \in Nat : Divides(left, made)
  BY DEF DividesInv
<1>2. power[count] = 1 /\ power[2 * W - count] = Full
  <2>1. 2 * W - 0 = 2 * W
    BY WidthAssumption
  <2> QED BY <2>1, WidthAssumption DEF Full
<1>3. left = 0 /\ q = made
  BY <1>1, <1>2, Widths DEF Divides
<1>4. made * den + rem \in Nat
  BY Natural, Widths DEF TypeOK
<1> QED BY <1>1, <1>2, <1>3, <1>4 DEF Divides

-----------------------------------------------------------------------------
(***************************************************************************)
(* The instructions.                                                       *)
(***************************************************************************)
\* A division under way is that of the operands.
Latched ==
  /\ DividesInv /\ den = abs_divisor /\ t1 # 0 /\ (~busy => count = 0)
  /\ neg_q = (is_signed /\ negative(dn, power[2 * W - 1]) # negative(t1, power[W - 1]))
  /\ neg_r = (is_signed /\ negative(dn, power[2 * W - 1]))
  /\ signed_r = is_signed

DividerInv ==
  /\ Division
  /\ word # "over" => dn = began
  /\ word # "wait" => ~busy
  /\ word = "start" => t1 # 0
  /\ word \in {"wait", "done", "ok", "ovf"} => Latched
  /\ word = "ok" => ~ovf
  /\ word = "ovf" => ovf

\* What the answer is the magnitudes of.
LEMMA Answer ==
  ASSUME TypeOK, DividerInv, word \in {"ok", "ovf"}
  PROVE  LET a == Value(dn, 2 * W)
             b == Value(t1, W)
         IN /\ a \in Int /\ b \in Int /\ b # 0 /\ den = Mag(b) /\ den \in Nat
            /\ q \in Nat /\ rem \in Nat
            /\ Mag(a) = q * Mag(b) + rem /\ rem < Mag(b)
            /\ Mag(b) < Half /\ (is_signed => Mag(b) <= power[W - 1])
            /\ neg_q <=> is_signed /\ ((a < 0) # (b < 0))
            /\ neg_r <=> is_signed /\ a < 0
            /\ signed_r <=> is_signed
            /\ ~is_signed => a >= 0 /\ b >= 0
<1>1. Latched /\ ~busy /\ count = 0
  BY DEF DividerInv, Latched
<1>2. abs_dividend = q * den + rem /\ rem < den
  BY <1>1, Ending DEF Latched
<1>3. is_signed \in BOOLEAN /\ q \in Nat /\ rem \in Nat /\ den \in Nat
  BY Widths DEF TypeOK
<1>4. is_signed => Mag(Value(t1, W)) <= power[W - 1]
  BY Widths DEF TypeOK, Value, negative, Mag, Half
<1>5. ~is_signed => Value(dn, 2 * W) >= 0 /\ Value(t1, W) >= 0
  BY Operands
<1>6. /\ Value(dn, 2 * W) \in Int /\ Value(t1, W) \in Int /\ Value(t1, W) # 0
      /\ den = Mag(Value(t1, W)) /\ abs_dividend = Mag(Value(dn, 2 * W))
      /\ Mag(Value(t1, W)) < Half
  BY <1>1, Operands, Widths DEF Latched
<1>7. /\ Value(dn, 2 * W) < 0 <=> is_signed /\ negative(dn, power[2 * W - 1])
      /\ Value(t1, W) < 0 <=> is_signed /\ negative(t1, power[W - 1])
  BY Operands
<1>8. /\ negative(dn, power[2 * W - 1]) \in BOOLEAN /\ negative(t1, power[W - 1]) \in BOOLEAN
  BY DEF negative
<1>9. /\ neg_q <=> is_signed /\ ((Value(dn, 2 * W) < 0) # (Value(t1, W) < 0))
      /\ neg_r <=> is_signed /\ Value(dn, 2 * W) < 0
      /\ signed_r <=> is_signed
  <2>1. signed_r <=> is_signed
    BY <1>1 DEF Latched
  <2>2. neg_r <=> is_signed /\ Value(dn, 2 * W) < 0
    BY <1>1, <1>7 DEF Latched
  <2>3. CASE ~is_signed
    BY <1>1, <2>1, <2>2, <2>3 DEF Latched
  <2>4. CASE is_signed
    <3>1. neg_q <=> (negative(dn, power[2 * W - 1]) # negative(t1, power[W - 1]))
      BY <1>1, <2>4 DEF Latched
    <3>2. /\ negative(dn, power[2 * W - 1]) = (Value(dn, 2 * W) < 0)
          /\ negative(t1, power[W - 1]) = (Value(t1, W) < 0)
      BY <1>7, <1>8, <2>4
    <3> QED BY <2>1, <2>2, <2>4, <3>1, <3>2
  <2> QED BY <2>3, <2>4
<1> QED BY <1>2, <1>3, <1>4, <1>5, <1>6, <1>9

\* A magnitude and a sign in range make the word of a signed number.
LEMMA SignedWord ==
  ASSUME is_signed \in BOOLEAN, NEW m \in Nat, NEW neg \in BOOLEAN, m < Half, neg => is_signed,
         is_signed => m <= (IF neg THEN power[W - 1] ELSE power[W - 1] - 1)
  PROVE  LET x == IF neg THEN negate(m, Half) ELSE m
         IN /\ x \in 0 .. Half - 1 /\ Value(x, W) \in Int /\ Mag(Value(x, W)) = m
            /\ m # 0 => (Value(x, W) < 0 <=> neg)
<1>1. /\ Half \in Nat /\ Half > 0 /\ power[W] = Half /\ power[W - 1] \in Nat
      /\ Half = 2 * power[W - 1] /\ power[W - 1] > 0
  BY Widths DEF Half
<1>2. CASE ~neg
  BY <1>1, <1>2 DEF Value, negative, Mag
<1>3. CASE neg
  <2>1. negate(m, Half) = (IF m = 0 THEN 0 ELSE Half - m)
    BY <1>1, Negation
  <2> QED BY <1>1, <1>3, <2>1 DEF Value, negative, Mag
<1> QED BY <1>2, <1>3

\* The two halves of a register.
LEMMA Halves ==
  ASSUME NEW x \in 0 .. Half - 1, NEW y \in 0 .. Half - 1
  PROVE  /\ x * Half + y \in 0 .. Full - 1
         /\ (x * Half + y) % Half = y /\ (x * Half + y) \div Half = x
<1>1. Half \in Nat /\ Half > 0 /\ Full = Half * Half
  BY Widths
<1>2. (x + 1) * Half <= Half * Half
  BY <1>1, Monotone
<1>3. (x + 1) * Half = x * Half + Half /\ x * Half \in Nat
  BY <1>1, Natural
<1> QED BY <1>1, <1>2, <1>3

\* The register after a division that fits.
LEMMA Fitting ==
  ASSUME TypeOK, DividerInv, word = "ok"
  PROVE  /\ quotient \in 0 .. Half - 1 /\ remainder \in 0 .. Half - 1
         /\ Divided(Value(dn, 2 * W), Value(t1, W), Value(quotient, W), Value(remainder, W))
<1> DEFINE a == Value(dn, 2 * W)
           b == Value(t1, W)
<1>1. /\ a \in Int /\ b \in Int /\ b # 0
      /\ q \in Nat /\ rem \in Nat
      /\ Mag(a) = q * Mag(b) + rem /\ rem < Mag(b)
      /\ Mag(b) < Half /\ (is_signed => Mag(b) <= power[W - 1])
      /\ neg_q <=> is_signed /\ ((a < 0) # (b < 0))
      /\ neg_r <=> is_signed /\ a < 0
      /\ signed_r <=> is_signed
      /\ ~is_signed => a >= 0 /\ b >= 0
  BY Answer
<1>2. /\ is_signed \in BOOLEAN /\ neg_q \in BOOLEAN /\ neg_r \in BOOLEAN
      /\ Half \in Nat /\ power[W - 1] \in Nat
  BY Widths DEF TypeOK
<1> HIDE DEF a, b
<1>3. q < Half /\ mag_q = q /\ rem < Half /\ mag_r = rem
  <2>1. q < Half
    BY <1>1, <1>2 DEF DividerInv, ovf
  <2>2. rem < Half
    BY <1>1, <1>2 DEF Mag
  <2> QED BY <1>1, <1>2, <2>1, <2>2 DEF mag_q, mag_r
<1>4. is_signed => q <= (IF neg_q THEN power[W - 1] ELSE power[W - 1] - 1)
  BY <1>1, <1>2, <1>3 DEF DividerInv, ovf
<1>5. is_signed => rem <= (IF neg_r THEN power[W - 1] ELSE power[W - 1] - 1)
  BY <1>1, <1>2 DEF Mag
<1>6. /\ quotient \in 0 .. Half - 1 /\ Value(quotient, W) \in Int
      /\ Mag(Value(quotient, W)) = q /\ (q # 0 => (Value(quotient, W) < 0 <=> neg_q))
  BY <1>1, <1>2, <1>3, <1>4, SignedWord DEF quotient
<1>7. /\ remainder \in 0 .. Half - 1 /\ Value(remainder, W) \in Int
      /\ Mag(Value(remainder, W)) = rem /\ (rem # 0 => (Value(remainder, W) < 0 <=> neg_r))
  BY <1>1, <1>2, <1>3, <1>5, SignedWord DEF remainder
<1>8. Value(quotient, W) # 0 => (Value(quotient, W) < 0 <=> (a < 0) # (b < 0))
  BY <1>1, <1>2, <1>6 DEF Mag
<1>9. Value(remainder, W) # 0 => (Value(remainder, W) < 0 <=> a < 0)
  BY <1>1, <1>2, <1>7 DEF Mag
<1>10. Divided(a, b, Value(quotient, W), Value(remainder, W))
  BY <1>1, <1>6, <1>7, <1>8, <1>9, Signs
<1> QED BY <1>6, <1>7, <1>10 DEF a, b

\* No quotient fits where the divider says that none does.
LEMMA Overflowing ==
  ASSUME TypeOK, DividerInv, word = "ovf", NEW c \in Quotients, NEW d \in -Half .. Half
  PROVE  ~Divided(Value(dn, 2 * W), Value(t1, W), c, d)
<1> DEFINE a == Value(dn, 2 * W)
           b == Value(t1, W)
<1>1. /\ a \in Int /\ b \in Int /\ b # 0
      /\ q \in Nat /\ rem \in Nat
      /\ Mag(a) = q * Mag(b) + rem /\ rem < Mag(b)
      /\ neg_q <=> is_signed /\ ((a < 0) # (b < 0))
      /\ signed_r <=> is_signed
  BY Answer
<1>2. /\ Half \in Nat /\ power[W - 1] \in Nat /\ Half = 2 * power[W - 1] /\ power[W - 1] > 0
      /\ is_signed \in BOOLEAN /\ neg_q \in BOOLEAN
  BY Widths DEF TypeOK
<1> HIDE DEF a, b
<1>3. SUFFICES ASSUME Divided(a, b, c, d) PROVE FALSE
  BY DEF a, b
<1>4. c \in Int /\ d \in Int
  BY <1>2 DEF Quotients
<1>5. /\ Mag(a) = Mag(c) * Mag(b) + Mag(d) /\ Mag(d) < Mag(b)
      /\ c < 0 => (a < 0) # (b < 0)
  BY <1>1, <1>3, <1>4, Magnitudes
<1>6. q = Mag(c)
  <2>1. Mag(b) \in Nat /\ Mag(c) \in Nat /\ Mag(d) \in Nat
    BY <1>1, <1>4 DEF Mag
  <2> QED BY <1>1, <1>5, <2>1, Unique
<1>7. q < Half
  BY <1>2, <1>4, <1>6 DEF Quotients, Mag
<1>8. is_signed /\ q > (IF neg_q THEN power[W - 1] ELSE power[W - 1] - 1)
  <2>1. mag_q = q
    BY <1>1, <1>2, <1>7 DEF mag_q
  <2> QED BY <1>1, <1>2, <1>7, <2>1 DEF DividerInv, ovf
<1>9. c < 0 => neg_q
  BY <1>1, <1>5, <1>8
<1>10. -power[W - 1] <= c /\ c <= power[W - 1] - 1
  BY <1>2, <1>8 DEF Quotients
<1> QED BY <1>2, <1>4, <1>6, <1>8, <1>9, <1>10 DEF Mag

LEMMA Idle ==
  ASSUME TypeOK, ~busy, Divide(FALSE)
  PROVE  UNCHANGED divider
<1>1. busy' = FALSE /\ busy = FALSE
  BY DEF Divide, busy_nxt, TypeOK
<1>2. UNCHANGED <<q, rem, den, count, neg_q, neg_r, signed_r>>
  BY DEF Divide
<1> QED BY <1>1, <1>2 DEF divider

\* A word that leaves the operands and the divider alone.
LEMMA Same ==
  ASSUME TypeOK, UNCHANGED <<is_signed, dn, t1, divider>>
  PROVE  (Latched' <=> Latched) /\ (ovf' <=> ovf)
BY DEF Latched, DividesInv, Divides, ovf, mag_q, abs_dividend, abs_divisor, negative, divider

LEMMA InitDivider == Init => TypeOK /\ DividerInv
<1> SUFFICES ASSUME Init PROVE TypeOK /\ DividerInv
  OBVIOUS
<1>1. Full \in Nat /\ Half \in Nat /\ Half > 0 /\ Full > 0
  BY Widths
<1>2. 0 \in 0 .. Full - 1 /\ 0 \in 0 .. Half - 1 /\ 0 \in 0 .. 2 * W
  BY <1>1, WidthAssumption
<1>3. TypeOK
  BY <1>2 DEF Init, TypeOK
<1> QED BY <1>3 DEF Init, DividerInv, Division

LEMMA OperandDivider ==
  ASSUME TypeOK, DividerInv, Operand
  PROVE  TypeOK' /\ DividerInv'
<1>1. TypeOK'
  BY DEF Operand, TypeOK, divider
<1> QED BY <1>1 DEF Operand, DividerInv, Division, divider

LEMMA TestDivider ==
  ASSUME TypeOK, DividerInv, Test
  PROVE  TypeOK' /\ DividerInv'
<1>1. UNCHANGED divider
  BY Idle DEF Test, DividerInv
<1>2. TypeOK'
  BY <1>1 DEF Test, TypeOK, divider
<1> QED BY <1>1, <1>2 DEF Test, DividerInv, Division, divider

LEMMA StartDivider ==
  ASSUME TypeOK, DividerInv, Start
  PROVE  TypeOK' /\ DividerInv'
<1>1. ~busy /\ t1 # 0 /\ Divide(TRUE) /\ UNCHANGED <<dn, t1, is_signed, began, outcome>>
      /\ word' = "wait" /\ dn = began
  BY DEF Start, DividerInv
<1>2. /\ DividesInv' /\ busy' /\ den' = abs_divisor
      /\ q' \in 0 .. Full - 1 /\ rem' = 0 /\ count' = 2 * W
      /\ neg_q' = (is_signed /\ negative(dn, power[2 * W - 1]) # negative(t1, power[W - 1]))
      /\ neg_r' = (is_signed /\ negative(dn, power[2 * W - 1])) /\ signed_r' = is_signed
  BY <1>1, Starting
<1>3. abs_divisor' = abs_divisor
  BY <1>1 DEF abs_divisor
<1>4. TypeOK'
  <2>1. den' \in 0 .. Half - 1 /\ rem' \in 0 .. Full - 1 /\ count' \in 0 .. 2 * W
    <3>1. abs_divisor \in 0 .. Half - 1
      BY Operands
    <3>2. 0 \in 0 .. Full - 1
      <4>1. Full \in Nat /\ Full > 0
        BY Widths
      <4> QED BY <4>1
    <3>3. 2 * W \in 0 .. 2 * W
      BY WidthAssumption
    <3> QED BY <1>2, <3>1, <3>2, <3>3
  <2>2. busy' \in BOOLEAN
    BY <1>1 DEF Divide, busy_nxt, TypeOK
  <2>3. {neg_q', neg_r', signed_r'} \subseteq BOOLEAN
    BY <1>1, <1>2 DEF TypeOK
  <2> QED BY <1>1, <1>2, <2>1, <2>2, <2>3 DEF TypeOK
<1>5. Latched'
  BY <1>1, <1>2, <1>3 DEF Latched, negative
<1> QED BY <1>1, <1>4, <1>5 DEF DividerInv, Division

LEMMA WaitDivider ==
  ASSUME TypeOK, DividerInv, Wait
  PROVE  TypeOK' /\ DividerInv'
<1>1. /\ Latched /\ Divide(FALSE) /\ dn = began
      /\ UNCHANGED <<is_signed, dn, t1, began, outcome>>
      /\ word' = IF busy THEN "wait" ELSE "done"
  BY DEF Wait, DividerInv
<1>2. CASE ~busy
  <2>1. UNCHANGED divider
    BY <1>1, <1>2, Idle
  <2>2. Latched' /\ ~busy'
    BY <1>1, <1>2, <2>1, Same DEF divider
  <2>3. TypeOK'
    BY <1>1, <1>2, <2>1 DEF TypeOK, divider
  <2> QED BY <1>1, <1>2, <2>2, <2>3 DEF DividerInv, Division
<1>3. CASE busy /\ count = 0
  <2>1. busy' = FALSE /\ UNCHANGED <<q, rem, den, count, neg_q, neg_r, signed_r>>
    BY <1>1, <1>3 DEF Divide, busy_nxt
  <2>2. Latched'
    BY <1>1, <1>3, <2>1 DEF Latched, DividesInv, Divides, abs_dividend, abs_divisor, negative
  <2>3. TypeOK'
    BY <1>1, <2>1 DEF TypeOK
  <2> QED BY <1>1, <1>3, <2>1, <2>2, <2>3 DEF DividerInv, Division
<1>4. CASE busy /\ count # 0
  <2>1. /\ DividesInv' /\ busy' /\ UNCHANGED <<den, neg_q, neg_r, signed_r>>
        /\ q' \in 0 .. Full - 1 /\ rem' \in 0 .. Full - 1 /\ count' \in 0 .. 2 * W
    BY <1>1, <1>4, Iteration DEF Latched
  <2>2. abs_divisor' = abs_divisor
    BY <1>1 DEF abs_divisor
  <2>3. Latched'
    BY <1>1, <2>1, <2>2 DEF Latched, negative
  <2>4. TypeOK'
    <3>1. busy' \in BOOLEAN
      BY <1>1 DEF Divide, busy_nxt, TypeOK
    <3> QED BY <1>1, <2>1, <3>1 DEF TypeOK
  <2> QED BY <1>1, <1>4, <2>3, <2>4 DEF DividerInv, Division
<1> QED BY <1>2, <1>3, <1>4

LEMMA FitDivider ==
  ASSUME TypeOK, DividerInv, Fit
  PROVE  TypeOK' /\ DividerInv'
<1>1. UNCHANGED divider
  BY Idle DEF Fit, DividerInv
<1>2. (Latched' <=> Latched) /\ (ovf' <=> ovf)
  BY <1>1, Same DEF Fit
<1>3. TypeOK'
  BY <1>1 DEF Fit, TypeOK, divider
<1> QED BY <1>1, <1>2, <1>3 DEF Fit, DividerInv, Division, divider

LEMMA ResultDivider ==
  ASSUME TypeOK, DividerInv, Result
  PROVE  TypeOK' /\ DividerInv'
<1>1. UNCHANGED divider /\ UNCHANGED <<is_signed, t1, began>> /\ word' = "over" /\ dn = began
      /\ ~busy
  BY Idle DEF Result, DividerInv
<1>2. \A x, n : Value(x, n)' = Value(x, n)
  BY <1>1 DEF Value
<1>3. CASE word = "ok"
  <2>1. dn' = remainder * Half + quotient /\ outcome' = "answer"
    BY <1>3 DEF Result
  <2>2. /\ quotient \in 0 .. Half - 1 /\ remainder \in 0 .. Half - 1
        /\ Divided(Value(dn, 2 * W), Value(t1, W), Value(quotient, W), Value(remainder, W))
    BY <1>3, Fitting
  <2>3. dn' \in 0 .. Full - 1 /\ dn' % Half = quotient /\ dn' \div Half = remainder
    BY <2>1, <2>2, Halves
  <2>4. Division'
    BY <1>1, <2>1, <2>2, <2>3 DEF Division, Value, Divided
  <2>5. TypeOK'
    BY <1>1, <2>1, <2>3 DEF TypeOK, divider
  <2> QED BY <1>1, <2>4, <2>5 DEF DividerInv, divider
<1>4. CASE word = "ovf"
  <2>1. dn' = dn /\ outcome' = "overflow"
    BY <1>4 DEF Result
  <2>2. \A c \in Quotients, d \in -Half .. Half :
          ~Divided(Value(dn, 2 * W), Value(t1, W), c, d)
    BY <1>4, Overflowing
  <2>3. Quotients' = Quotients
    BY <1>1 DEF Quotients
  <2>4. Division'
    BY <1>1, <2>1, <2>2, <2>3 DEF Division, Value, Divided
  <2>5. TypeOK'
    BY <1>1, <2>1 DEF TypeOK, divider
  <2> QED BY <1>1, <2>4, <2>5 DEF DividerInv, divider
<1> QED BY <1>3, <1>4 DEF Result

(***************************************************************************)
(* Whatever the width, DIVU and DIVS leave the quotient and the remainder  *)
(* of the signed or unsigned division in the register, or trap for a zero  *)
(* divisor, or say that the quotient does not fit exactly when it does     *)
(* not, and then leave the register alone.                                 *)
(***************************************************************************)
THEOREM DivisionAlways == Spec => []Division
<1>1. TypeOK /\ DividerInv /\ [Next]_vars => TypeOK' /\ DividerInv'
  <2> SUFFICES ASSUME TypeOK, DividerInv, [Next]_vars PROVE TypeOK' /\ DividerInv'
    OBVIOUS
  <2>1. CASE UNCHANGED vars
    <3>1. UNCHANGED <<is_signed, dn, t1, divider>> /\ UNCHANGED <<word, began, outcome>>
      BY <2>1 DEF vars
    <3>2. TypeOK'
      BY <3>1 DEF TypeOK, divider
    <3>3. Division'
      BY <3>1 DEF DividerInv, Division, Value, Divided, Quotients, negative
    <3> QED BY <3>1, <3>2, <3>3, Same DEF DividerInv, divider
  <2>2. CASE Next
    BY <2>2, OperandDivider, TestDivider, StartDivider, WaitDivider, FitDivider, ResultDivider
       DEF Next, Clock
  <2> QED BY <2>1, <2>2
<1>2. DividerInv => Division
  BY DEF DividerInv
<1> QED BY InitDivider, <1>1, <1>2, PTL DEF Spec
=============================================================================
