--------------------------- MODULE LoopBuffer_proofs ---------------------------
(***************************************************************************)
(* Proofs about module LoopBuffer, for every microprogram, window and      *)
(* memory.  Only ServedIsMemory needs the bound AheadKept.                 *)
(***************************************************************************)
EXTENDS LoopBuffer, TLAPS

-----------------------------------------------------------------------------
(***************************************************************************)
(* The inductive invariant.                                                *)
(***************************************************************************)
\* The registers' types; the window starts where a program runs.
TypeOK ==
  /\ upc \in Addr /\ cycle \in {"none", "run", "last"}
  /\ pc \in Places /\ super \in BOOLEAN
  /\ mem \in [BOOLEAN -> [Places -> Values]]
  /\ pin \in Pins /\ settled \in BOOLEAN
  /\ lb_base \in Places /\ lb_armed \in BOOLEAN
  /\ lb_val \in [Offsets -> BOOLEAN] /\ lb_word \in [Offsets -> Values]
  /\ lb_idx \in Offsets
  /\ lb_in \in BOOLEAN /\ lb_hit \in BOOLEAN /\ lb_hit2 \in BOOLEAN /\ lb_served \in BOOLEAN

Empty == \A i \in Offsets : ~lb_val[i]

\* A window that is not armed has nothing, and pc is not in it.
ArmedInv == ~lb_armed => Empty /\ ~lb_in

\* What was looked up a clock ago is true of pc now.
LookupInv ==
  /\ lb_in  => pc - lb_base \in Offsets /\ lb_idx = pc - lb_base
  /\ lb_hit <=> (lb_in /\ lb_val[lb_idx])
  /\ lb_hit2 => pc + 1 - lb_base \in Offsets /\ lb_val[pc + 1 - lb_base]
  /\ lb_in /\ pc + 1 - lb_base \in Offsets /\ lb_val[pc + 1 - lb_base] => lb_hit2

\* When others may write, they have held the bus for a clock and nothing is left.
SettledInv == settled => pin # "none" /\ Empty

\* The window has what memory has.
CoherentInv ==
  \A i \in Offsets : lb_val[i] => lb_base + i \in Places /\ lb_word[i] = mem[super][lb_base + i]

\* An answer that was promised is at lb_idx, though the window may be empty by now.
ServedInv ==
  lb_served /\ AtPC(uw) => /\ cycle = "none"
                           /\ AheadKept => lb_word[lb_idx] = mem[super][pc]

IInv == TypeOK /\ ArmedInv /\ LookupInv /\ SettledInv /\ CoherentInv /\ ServedInv

-----------------------------------------------------------------------------
(***************************************************************************)
(* What one clock does, whichever the action.  com: the word commits; y, s *)
(* and a as in module LoopBuffer.                                          *)
(***************************************************************************)
Clocked(com, y, s, a) ==
  /\ Window(com, y, s, a)
  /\ pc' = pc_nxt(com, y) /\ pc' \in Places /\ super' = s
  /\ com => retire
  /\ ~com => s = super
  /\ com /\ Writes(uw) => Write(a)
  /\ ~(com /\ Writes(uw)) => Others
  /\ PinMoves

\* Every step is such a clock: the inputs of the actions are of these types.
LEMMA StepClocks ==
  ASSUME TypeOK, Next
  PROVE  \E com \in BOOLEAN, y \in Places, s \in BOOLEAN, a \in Places : Clocked(com, y, s, a)
<1>1. pc \in Places /\ super \in BOOLEAN /\ Written \subseteq Places
  BY BufferAssumption DEF TypeOK
<1>2. pc_nxt(FALSE, pc) = pc
  BY DEF pc_nxt, lb_arm_pc
<1>3. CASE Stall
  <2>1. Clocked(FALSE, pc, super, pc)
    BY <1>1, <1>2, <1>3 DEF Stall, Clocked
  <2>. QED  BY <2>1, <1>1
<1>4. CASE Commit
  <2>1. PICK n \in Successors(upc),
             y \in IF Jumps(uw) THEN Places ELSE {pc},
             s \in CASE uw.dst \in {"sr_exc", "sr_irq"} -> {TRUE}
                    [] Changes(uw)                     -> BOOLEAN
                    [] OTHER                           -> {super},
             a \in IF Writes(uw) THEN Written ELSE {pc} :
               /\ pc_nxt(TRUE, y) \in Places
               /\ Window(TRUE, y, s, a)
               /\ pc' = pc_nxt(TRUE, y) /\ super' = s
               /\ IF Writes(uw) THEN Write(a) ELSE Others
    BY <1>4 DEF Commit
  <2>2. y \in Places /\ a \in Places
    BY <2>1, <1>1
  <2>3. s \in BOOLEAN
    BY <2>1, <1>1
  <2>4. Clocked(TRUE, y, s, a)
    BY <2>1, <1>4 DEF Commit, Clocked
  <2>. QED  BY <2>2, <2>3, <2>4
<1>5. CASE Fault
  <2>1. Clocked(FALSE, pc, super, pc)
    BY <1>1, <1>2, <1>5 DEF Fault, Clocked
  <2>. QED  BY <2>1, <1>1
<1>. QED  BY <1>3, <1>4, <1>5 DEF Next

\* Memory: a write changes one word, and nobody else writes before they have
\* held the bus for a clock.
LEMMA WriteMoves ==
  ASSUME TypeOK, NEW a \in Places, Write(a)
  PROVE  /\ mem' \in [BOOLEAN -> [Places -> Values]]
         /\ \A t \in BOOLEAN, b \in Places : b # a => mem'[t][b] = mem[t][b]
<1>1. PICK t \in BOOLEAN, v \in Values : mem' = [mem EXCEPT ![t][a] = v]
  BY DEF Write
<1>2. mem \in [BOOLEAN -> [Places -> Values]]
  BY DEF TypeOK
<1>. QED  BY <1>1, <1>2

LEMMA OthersMove ==
  ASSUME TypeOK, Others
  PROVE  /\ mem' \in [BOOLEAN -> [Places -> Values]]
         /\ ~settled => mem' = mem
<1>1. CASE UNCHANGED mem
  BY <1>1 DEF TypeOK
<1>2. CASE settled /\ \E a \in Written : Write(a)
  BY <1>2, WriteMoves, BufferAssumption
<1>. QED  BY <1>1, <1>2 DEF Others

\* The window's registers, in terms of what the clock does.
LEMMA WindowMoves ==
  ASSUME TypeOK, LookupInv,
         NEW com \in BOOLEAN, NEW y \in Places, NEW s \in BOOLEAN, NEW a \in Places,
         Clocked(com, y, s, a)
  PROVE  /\ lb_base' \in Places /\ lb_armed' \in BOOLEAN
         /\ lb_val' \in [Offsets -> BOOLEAN] /\ lb_word' \in [Offsets -> Values]
         /\ lb_idx' \in Offsets
         /\ lb_in' \in BOOLEAN /\ lb_hit' \in BOOLEAN /\ lb_hit2' \in BOOLEAN
         /\ mem' \in [BOOLEAN -> [Places -> Values]]
<1>1. 0 \in Offsets /\ pc \in Int /\ lb_base \in Int
  BY BufferAssumption DEF TypeOK, Offsets, Places
<1>2. lb_base' \in Places
  BY DEF Clocked, Window, lb_base_nxt, TypeOK
<1>3. lb_armed' \in BOOLEAN
  BY DEF Clocked, Window, lb_armed_nxt, lb_flush, lb_wr_in, lb_tgt_in, lb_back_ok, lb_arm_pc, TypeOK
<1>4. lb_fill(com) \in BOOLEAN
  BY DEF lb_fill, AtPC, TypeOK
<1>5. lb_val' \in [Offsets -> BOOLEAN]
  BY <1>4 DEF Clocked, Window, lb_val_nxt, TypeOK
<1>6. lb_word' \in [Offsets -> Values]
  <2>1. rdata \in Values
    BY DEF rdata, TypeOK
  <2>. QED  BY <2>1 DEF Clocked, Window, TypeOK
<1>7. lb_idx' \in Offsets
  BY <1>1 DEF Clocked, Window
<1>8. lb_in' \in BOOLEAN /\ lb_hit' \in BOOLEAN /\ lb_hit2' \in BOOLEAN
  BY DEF Clocked, Window
<1>9. mem' \in [BOOLEAN -> [Places -> Values]]
  BY WriteMoves, OthersMove DEF Clocked
<1>. QED  BY <1>2, <1>3, <1>5, <1>6, <1>7, <1>8, <1>9

LEMMA ArmedKept ==
  ASSUME TypeOK, ArmedInv,
         NEW com \in BOOLEAN, NEW y \in Places, NEW s \in BOOLEAN, NEW a \in Places,
         Clocked(com, y, s, a)
  PROVE  ArmedInv'
<1>1. SUFFICES ASSUME ~lb_armed' PROVE (\A i \in Offsets : ~lb_val'[i]) /\ ~lb_in'
  BY DEF ArmedInv, Empty
<1>2. ~lb_in'
  BY <1>1 DEF Clocked, Window
<1>3. ASSUME NEW i \in Offsets PROVE ~lb_val'[i]
  <2>1. CASE lb_flush(com, s, a) \/ (lb_arm_pc(com) /\ ~lb_tgt_in(y))
    BY <2>1, <1>3 DEF Clocked, Window, lb_val_nxt
  <2>2. CASE ~(lb_flush(com, s, a) \/ (lb_arm_pc(com) /\ ~lb_tgt_in(y)))
    <3>1. ~lb_armed
      BY <2>2, <1>1 DEF Clocked, Window, lb_armed_nxt, lb_tgt_in
    <3>2. ~lb_fill(com) /\ ~lb_val[i]
      BY <3>1, <1>3 DEF ArmedInv, Empty, lb_fill
    <3>. QED  BY <2>2, <3>2, <1>3 DEF Clocked, Window, lb_val_nxt
  <2>. QED  BY <2>1, <2>2
<1>. QED  BY <1>2, <1>3

\* pc keeps its place in the window, but for a jump.
LEMMA OffsetKept ==
  ASSUME TypeOK,
         NEW com \in BOOLEAN, NEW y \in Places, NEW s \in BOOLEAN, NEW a \in Places,
         Clocked(com, y, s, a), ~lb_arm_pc(com)
  PROVE  lb_base' = lb_base /\ lb_off_nxt(com) = pc' - lb_base'
<1>1. lb_base' = lb_base
  BY DEF Clocked, Window, lb_base_nxt
<1>2. pc' = IF com /\ AtPC(uw) THEN pc + 1 ELSE pc
  BY DEF Clocked, pc_nxt
<1>3. pc \in Int /\ lb_base \in Int
  BY BufferAssumption DEF TypeOK, Places
<1>. QED  BY <1>1, <1>2, <1>3 DEF lb_off_nxt

LEMMA LookupKept ==
  ASSUME TypeOK,
         NEW com \in BOOLEAN, NEW y \in Places, NEW s \in BOOLEAN, NEW a \in Places,
         Clocked(com, y, s, a)
  PROVE  LookupInv'
<1>. DEFINE off == lb_off_nxt(com)
<1>1. CASE lb_arm_pc(com)
  <2>1. ~lb_in' /\ ~lb_hit' /\ ~lb_hit2'
    BY <1>1 DEF Clocked, Window
  <2>. QED  BY <2>1 DEF LookupInv
<1>2. CASE ~lb_arm_pc(com)
  <2>1. off = pc' - lb_base' /\ off + 1 = pc' + 1 - lb_base' /\ off \in Int
    <3>1. off = pc' - lb_base'
      BY <1>2, OffsetKept
    <3>2. pc' \in Int /\ lb_base' \in Int
      BY <1>2, OffsetKept, BufferAssumption DEF Clocked, TypeOK, Places
    <3>. QED  BY <3>1, <3>2
  <2>2. /\ lb_in'  <=> (lb_armed' /\ off \in Offsets)
        /\ lb_hit' <=> (lb_armed' /\ off \in Offsets /\ lb_val'[off])
        /\ lb_hit2' <=> (lb_armed' /\ off + 1 \in Offsets /\ lb_val'[off + 1])
        /\ off \in Offsets => lb_idx' = off
    BY <1>2 DEF Clocked, Window
  <2>. HIDE DEF off
  <2>. QED  BY <2>1, <2>2 DEF LookupInv
<1>. QED  BY <1>1, <1>2

LEMMA SettledKept ==
  ASSUME TypeOK, SettledInv,
         NEW com \in BOOLEAN, NEW y \in Places, NEW s \in BOOLEAN, NEW a \in Places,
         Clocked(com, y, s, a)
  PROVE  SettledInv'
<1>1. SUFFICES ASSUME settled' PROVE pin' # "none" /\ \A i \in Offsets : ~lb_val'[i]
  BY DEF SettledInv, Empty
<1>2. pin # "none" /\ pin' = pin
  BY <1>1 DEF Clocked, PinMoves
<1>3. lb_flush(com, s, a)
  BY <1>2 DEF lb_flush
<1>. QED  BY <1>2, <1>3 DEF Clocked, Window, lb_val_nxt

LEMMA FetchIsOnlyThat == ASSUME TypeOK, AtPC(uw) PROVE ~Jumps(uw) /\ ~Writes(uw)
  BY SpaceAssumption DEF TypeOK, uw

LEMMA CoherentKept ==
  ASSUME TypeOK, ArmedInv, LookupInv, SettledInv, CoherentInv,
         NEW com \in BOOLEAN, NEW y \in Places, NEW s \in BOOLEAN, NEW a \in Places,
         Clocked(com, y, s, a)
  PROVE  CoherentInv'
<1>1. SUFFICES ASSUME NEW i \in Offsets, lb_val'[i]
               PROVE  lb_base' + i \in Places /\ lb_word'[i] = mem'[super'][lb_base' + i]
  BY DEF CoherentInv
<1>2. ~lb_flush(com, s, a) /\ ~(lb_arm_pc(com) /\ ~lb_tgt_in(y))
  BY <1>1 DEF Clocked, Window, lb_val_nxt
<1>3. lb_val[i] \/ (lb_fill(com) /\ i = lb_idx)
  BY <1>1, <1>2 DEF Clocked, Window, lb_val_nxt
<1>4. lb_base' = lb_base
  BY <1>2 DEF Clocked, Window, lb_base_nxt
<1>5. super' = super
  BY <1>2 DEF Clocked, lb_flush
<1>6. ~settled
  BY <1>2 DEF lb_flush, SettledInv
<1>7. pc \in Int /\ lb_base \in Int /\ i \in Int /\ a \in Int
  BY <1>1, BufferAssumption DEF TypeOK, Places, Offsets
<1>8. lb_word' = IF lb_fill(com) THEN [lb_word EXCEPT ![lb_idx] = rdata] ELSE lb_word
  BY DEF Clocked, Window
<1>9. CASE lb_fill(com) /\ i = lb_idx
  <2>1. lb_base + i = pc /\ pc \in Places
    BY <1>7, <1>9 DEF lb_fill, LookupInv, TypeOK
  <2>2. mem' = mem
    BY <1>6, <1>9, FetchIsOnlyThat, OthersMove DEF Clocked, lb_fill
  <2>3. lb_word'[i] = mem[super][pc]
    BY <1>8, <1>9 DEF lb_fill, rdata, loop_fetch_hit, TypeOK
  <2>. QED  BY <2>1, <2>2, <2>3, <1>4, <1>5
<1>10. CASE ~(lb_fill(com) /\ i = lb_idx)
  <2>1. lb_val[i] /\ lb_base + i \in Places /\ lb_word[i] = mem[super][lb_base + i]
    BY <1>1, <1>3, <1>10 DEF CoherentInv
  <2>2. lb_word'[i] = lb_word[i]
    BY <1>8, <1>10, <1>1 DEF TypeOK
  <2>3. mem'[super][lb_base + i] = mem[super][lb_base + i]
    <3>1. CASE com /\ Writes(uw)
      <4>1. lb_armed
        BY <2>1, <1>1 DEF ArmedInv, Empty
      <4>2. a - lb_base \notin Offsets
        BY <3>1, <4>1, <1>2 DEF lb_flush, lb_wr_in
      <4>3. lb_base + i # a
        BY <4>2, <1>1, <1>7
      <4>. QED  BY <3>1, <4>3, <2>1, WriteMoves DEF Clocked, TypeOK
    <3>2. CASE ~(com /\ Writes(uw))
      BY <3>2, <1>6, OthersMove DEF Clocked
    <3>. QED  BY <3>1, <3>2
  <2>. QED  BY <2>1, <2>2, <2>3, <1>4, <1>5
<1>. QED  BY <1>9, <1>10

-----------------------------------------------------------------------------
(***************************************************************************)
(* The answer.  A promise made in the clock in which the fetch's request   *)
(* is declined is kept in the next: the word read is looked up one place   *)
(* on, if the word that commits fetches too, and nothing has moved it.     *)
(***************************************************************************)
LEMMA PromiseKept ==
  ASSUME TypeOK, ArmedInv, LookupInv, SettledInv, CoherentInv,
         NEW com \in BOOLEAN, NEW y \in Places, NEW s \in BOOLEAN, NEW a \in Places,
         Clocked(com, y, s, a), NEW n, n_loop_hit(com, n),
         s = super,
         com /\ Writes(uw) => a # pc
  PROVE  lb_word'[lb_idx'] = mem'[super'][pc']
<1>. DEFINE o == lb_off_nxt(com)
<1>1. ~lb_arm_pc(com)
  BY DEF n_loop_hit
<1>2. o = pc' - lb_base /\ pc' = IF com /\ AtPC(uw) THEN pc + 1 ELSE pc
  BY <1>1, OffsetKept DEF Clocked, pc_nxt
<1>3. pc \in Int /\ lb_base \in Int /\ pc' \in Int
  BY BufferAssumption DEF Clocked, TypeOK, Places
<1>4. o \in Offsets /\ lb_val[o]
  <2>1. CASE com /\ AtPC(uw)
    <3>1. pc' = pc + 1
      BY <2>1, <1>2
    <3>2. o = pc + 1 - lb_base
      BY <3>1, <1>2, <1>3
    <3>3. lb_hit2
      BY <2>1 DEF n_loop_hit
    <3>. QED  BY <3>2, <3>3 DEF LookupInv
  <2>2. CASE ~(com /\ AtPC(uw))
    BY <2>2, <1>2, <1>3 DEF n_loop_hit, LookupInv
  <2>. QED  BY <2>1, <2>2
<1>5. lb_word[o] = mem[super][pc']
  <2>1. lb_base + o = pc'
    BY <1>2, <1>3
  <2>. QED  BY <2>1, <1>4 DEF CoherentInv
<1>6. lb_idx' = o
  BY <1>4 DEF Clocked, Window
<1>7. lb_word'[o] = lb_word[o]
  <2>1. CASE lb_fill(com)
    <3>1. lb_idx = pc - lb_base
      BY <2>1 DEF lb_fill, LookupInv
    <3>2. pc' = pc + 1
      BY <2>1, <1>2 DEF lb_fill
    <3>3. o = pc + 1 - lb_base
      BY <3>2, <1>2, <1>3
    <3>4. o = lb_idx + 1
      BY <3>1, <3>3, <1>3
    <3>. QED  BY <3>1, <3>4, <2>1, <1>3, <1>4 DEF Clocked, Window, TypeOK
  <2>2. CASE ~lb_fill(com)
    BY <2>2 DEF Clocked, Window
  <2>. QED  BY <2>1, <2>2
<1>8. mem'[super][pc'] = mem[super][pc']
  <2>1. CASE com /\ Writes(uw)
    <3>1. ~AtPC(uw)
      BY <2>1, FetchIsOnlyThat
    <3>2. pc' = pc /\ a # pc
      BY <3>1, <2>1, <1>2
    <3>. QED  BY <3>2, <2>1, WriteMoves DEF Clocked, TypeOK
  <2>2. CASE ~(com /\ Writes(uw))
    <3>1. ~settled
      BY <1>4 DEF SettledInv, Empty
    <3>. QED  BY <3>1, <2>2, OthersMove DEF Clocked
  <2>. QED  BY <2>1, <2>2
<1>9. super' = super
  BY DEF Clocked
<1>. QED  BY <1>5, <1>6, <1>7, <1>8, <1>9

LEMMA ServedKept ==
  ASSUME IInv, Next
  PROVE  ServedInv'
<1>. USE DEF IInv
<1>1. pc \in Places /\ super \in BOOLEAN /\ Written \subseteq Places /\ upc \in Addr
  BY BufferAssumption DEF TypeOK
<1>2. pc_nxt(FALSE, pc) = pc
  BY DEF pc_nxt, lb_arm_pc
<1>3. SUFFICES ASSUME lb_served', AtPC(Micro[upc'])
               PROVE  /\ cycle' = "none"
                      /\ AheadKept => lb_word'[lb_idx'] = mem'[super'][pc']
  BY DEF ServedInv, uw
<1>4. ~Stall
  <2>1. SUFFICES ASSUME Stall PROVE FALSE
    OBVIOUS
  <2>2. loop_fetch_hit
    BY <1>3, <2>1 DEF Stall, loop_fetch_hit, uw
  <2>. QED  BY <2>1, <2>2 DEF Stall, retire
<1>5. CASE Commit
  <2>1. PICK n \in Successors(upc),
             y \in IF Jumps(uw) THEN Places ELSE {pc},
             s \in CASE uw.dst \in {"sr_exc", "sr_irq"} -> {TRUE}
                    [] Changes(uw)                     -> BOOLEAN
                    [] OTHER                           -> {super},
             a \in IF Writes(uw) THEN Written ELSE {pc} :
               /\ AheadKept /\ Writes(uw) => ~(AtPC(Micro[n]) /\ a = pc)
               /\ pc_nxt(TRUE, y) \in Places
               /\ Window(TRUE, y, s, a)
               /\ Request(TRUE, n)
               /\ pc' = pc_nxt(TRUE, y) /\ super' = s
               /\ IF Writes(uw) THEN Write(a) ELSE Others
    BY <1>5 DEF Commit
  <2>2. y \in Places /\ a \in Places
    BY <2>1, <1>1
  <2>3. s \in BOOLEAN
    BY <2>1, <1>1
  <2>4. Clocked(TRUE, y, s, a)
    BY <2>1, <1>5 DEF Commit, Clocked
  <2>5. n_loop_hit(TRUE, n) /\ cycle' = "none" /\ AtPC(Micro[n])
    BY <2>1, <1>3 DEF Request
  <2>6. ~Changes(uw)
    BY <2>5, <1>1, SpaceAssumption DEF n_loop_hit, uw
  <2>7. s = super
    BY <2>1, <2>6 DEF Changes
  <2>8. AheadKept => (Writes(uw) => a # pc)
    BY <2>1, <2>5
  <2>. QED  BY <2>2, <2>3, <2>4, <2>5, <2>7, <2>8, PromiseKept
<1>6. CASE Fault
  <2>1. Clocked(FALSE, pc, super, pc)
    BY <1>1, <1>2, <1>6 DEF Fault, Clocked
  <2>2. n_loop_hit(FALSE, Entry("buserr")) /\ cycle' = "none"
    BY <1>6, <1>3 DEF Fault, Request
  <2>. QED  BY <2>1, <2>2, <1>1, PromiseKept
<1>. QED  BY <1>4, <1>5, <1>6 DEF Next

-----------------------------------------------------------------------------
(***************************************************************************)
(* The invariant is inductive.                                             *)
(***************************************************************************)
LEMMA TypeKept == ASSUME IInv, Next PROVE TypeOK'
<1>. USE DEF IInv
<1>1. PICK com \in BOOLEAN, y \in Places, s \in BOOLEAN, a \in Places : Clocked(com, y, s, a)
  BY StepClocks
<1>2. /\ lb_base' \in Places /\ lb_armed' \in BOOLEAN
      /\ lb_val' \in [Offsets -> BOOLEAN] /\ lb_word' \in [Offsets -> Values]
      /\ lb_idx' \in Offsets
      /\ lb_in' \in BOOLEAN /\ lb_hit' \in BOOLEAN /\ lb_hit2' \in BOOLEAN
      /\ mem' \in [BOOLEAN -> [Places -> Values]]
  BY <1>1, WindowMoves
<1>3. pc' \in Places /\ super' \in BOOLEAN /\ pin' \in Pins /\ settled' \in BOOLEAN
  BY <1>1 DEF Clocked, PinMoves
<1>4. upc' \in Addr /\ cycle' \in {"none", "run", "last"} /\ lb_served' \in BOOLEAN
  <2>1. CASE Stall
    BY <2>1 DEF Stall, TypeOK
  <2>2. CASE Commit
    BY <2>2, MicroAssumption DEF Commit, Request, n_loop_hit, TypeOK
  <2>3. CASE Fault
    BY <2>3, MicroAssumption DEF Fault, Request, n_loop_hit, TypeOK
  <2>. QED  BY <2>1, <2>2, <2>3 DEF Next
<1>. QED  BY <1>2, <1>3, <1>4 DEF TypeOK

LEMMA InvInit == Init => IInv
<1>. SUFFICES ASSUME Init PROVE IInv
  OBVIOUS
<1>1. TypeOK
  <2>1. 0 \in Places /\ 0 \in Offsets
    BY BufferAssumption DEF Places, Offsets
  <2>2. Loaded[FALSE][0] \in Values
    BY <2>1, BufferAssumption
  <2>3. lb_word \in [Offsets -> Values] /\ lb_val \in [Offsets -> BOOLEAN]
    BY <2>1, <2>2 DEF Init
  <2>. QED  BY <2>1, <2>3, BufferAssumption, MicroAssumption DEF Init, TypeOK
<1>2. ArmedInv /\ SettledInv /\ CoherentInv /\ ServedInv
  BY DEF Init, ArmedInv, SettledInv, CoherentInv, ServedInv, Empty
<1>3. LookupInv
  BY DEF Init, LookupInv
<1>. QED  BY <1>1, <1>2, <1>3 DEF IInv

LEMMA InvNext == IInv /\ [Next]_vars => IInv'
<1>. SUFFICES ASSUME IInv, [Next]_vars PROVE IInv'
  OBVIOUS
<1>1. CASE Next
  <2>1. PICK com \in BOOLEAN, y \in Places, s \in BOOLEAN, a \in Places : Clocked(com, y, s, a)
    BY <1>1, StepClocks DEF IInv
  <2>2. TypeOK'
    BY <1>1, TypeKept
  <2>3. ArmedInv'
    BY <2>1, ArmedKept DEF IInv
  <2>4. LookupInv'
    BY <2>1, LookupKept DEF IInv
  <2>5. SettledInv'
    BY <2>1, SettledKept DEF IInv
  <2>6. CoherentInv'
    BY <2>1, CoherentKept DEF IInv
  <2>7. ServedInv'
    BY <1>1, ServedKept
  <2>. QED  BY <2>2, <2>3, <2>4, <2>5, <2>6, <2>7 DEF IInv
<1>2. CASE UNCHANGED vars
  BY <1>2 DEF vars, window, IInv, TypeOK, ArmedInv, LookupInv, SettledInv, CoherentInv, ServedInv, Empty, uw
<1>. QED  BY <1>1, <1>2

LEMMA InvAlways == Spec => []IInv
  BY InvInit, InvNext, PTL DEF Spec

-----------------------------------------------------------------------------
(***************************************************************************)
(* Theorems.                                                               *)
(***************************************************************************)
\* The registers keep their types and the micro-address stays in the microprogram.
THEOREM TypeCorrect == Spec => []TypeOK
<1>1. IInv => TypeOK
  BY DEF IInv
<1>. QED  BY InvAlways, <1>1, PTL

\* What the window holds is what memory holds, whoever wrote it: lb_flush
\* (rtl/rd68011_seq.sv:1864-1874) names every way it could become stale.
THEOREM WindowCoherentAlways == Spec => []WindowCoherent
<1>1. IInv => WindowCoherent
  BY DEF IInv, CoherentInv, WindowCoherent
<1>. QED  BY InvAlways, <1>1, PTL

\* A word of which the fetch is answered from the buffer has no cycle on the bus.
THEOREM AnsweredOnceAlways == Spec => []AnsweredOnce
<1>1. IInv => AnsweredOnce
  BY DEF IInv, ServedInv, AnsweredOnce, loop_fetch_hit
<1>. QED  BY InvAlways, <1>1, PTL

\* Where no program writes the very word that is fetched next, every fetch the
\* buffer answers is answered with what memory holds.
THEOREM ServedIsMemoryAlways == ASSUME AheadKept PROVE Spec => []ServedIsMemory
<1>1. IInv => ServedIsMemory
  BY DEF IInv, ServedInv, ServedIsMemory, loop_fetch_hit, rdata
<1>. QED  BY InvAlways, <1>1, PTL

\* A word the window has is not fetched a second time, but by the word that jumped.
THEOREM FetchedOnceAlways == Spec => FetchedOnce
<1>. DEFINE Again == retire /\ ~Jumps(uw) /\ uw.seq # "resume" /\ lb_in /\ Held(pc') /\ AtPC(Micro[upc'])
<1>1. IInv /\ [Next]_vars => [Again => lb_served']_vars
  <2>. SUFFICES ASSUME IInv, Next, Again PROVE lb_served'
    OBVIOUS
  <2>1. pc \in Int /\ lb_base \in Int
    BY BufferAssumption DEF IInv, TypeOK, Places
  <2>2. CASE Stall
    BY <2>2 DEF Stall
  <2>3. CASE Commit
    <3>1. PICK n, y : Request(TRUE, n) /\ pc' = pc_nxt(TRUE, y)
      BY <2>3 DEF Commit
    <3>2. ~lb_arm_pc(TRUE) /\ AtPC(Micro[n])
      BY <3>1 DEF Request, lb_arm_pc
    <3>3. IF AtPC(uw) THEN lb_hit2 ELSE lb_hit
      <4>1. CASE AtPC(uw)
        <5>1. pc' = pc + 1
          BY <3>1, <3>2, <4>1 DEF pc_nxt
        <5>2. pc' - lb_base = pc + 1 - lb_base
          BY <5>1, <2>1
        <5>. QED  BY <5>2, <4>1 DEF IInv, LookupInv, Held
      <4>2. CASE ~AtPC(uw)
        <5>1. pc' = pc
          BY <3>1, <3>2, <4>2 DEF pc_nxt
        <5>. QED  BY <5>1, <4>2 DEF IInv, LookupInv, Held
      <4>. QED  BY <4>1, <4>2
    <3>. QED  BY <3>1, <3>2, <3>3 DEF Request, n_loop_hit
  <2>4. CASE Fault
    <3>1. pc' = pc /\ Request(FALSE, Entry("buserr"))
      BY <2>4 DEF Fault
    <3>2. lb_hit
      BY <3>1 DEF IInv, LookupInv, Held
    <3>. QED  BY <3>1, <3>2 DEF Request, n_loop_hit, lb_arm_pc
  <2>. QED  BY <2>2, <2>3, <2>4 DEF Next
<1>. QED  BY InvAlways, <1>1, PTL DEF Spec, FetchedOnce
=============================================================================
