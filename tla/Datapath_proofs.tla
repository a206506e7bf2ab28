----------------------------- MODULE Datapath_proofs -----------------------------
(***************************************************************************)
(* The request preview, for every microprogram: the address presented for  *)
(* a word a clock before it runs, from registers that the word before it   *)
(* is still changing, is the address the word would have used itself.      *)
(***************************************************************************)
EXTENDS Rerun, TLAPS

Fields == {"regs", "t0", "t1", "dbuf", "eal", "ctl", "pc", "unit", "ir", "ir_pc", "irc",
           "irc_pc", "xw", "moved"}
Fielded == {"dx", "src", "dy", "dst"}

\* Every field of an opcode or a list names a register there is.
FileInv ==
  /\ DOMAIN dp = Fields /\ DOMAIN dp.regs = Registers /\ dp.moved \in Nat
  /\ alias \in [Fielded -> Registers] /\ mask \in Seq(Registers)

LEMMA NamedIsRegister ==
  ASSUME NEW r, NEW d, alias \in [Fielded -> Registers], mask \in Seq(Registers), d.moved \in Nat
  PROVE  Named(r, d) \in Registers
<1>1. {"sp", "rx", "stray"} \subseteq Registers
  BY DEF Registers
<1>2. r \in Fielded => alias[r] \in Registers
  OBVIOUS
<1>3. d.moved < Len(mask) => mask[d.moved + 1] \in Registers
  OBVIOUS
<1> HIDE DEF Registers
<1>4. CASE r = "sp"
  BY <1>1, <1>4 DEF Named
<1>5. CASE r \in Fielded
  BY <1>1, <1>2, <1>5 DEF Named, Fielded
<1>6. CASE r \in {"irc_x", "xw_x"}
  BY <1>1, <1>6 DEF Named
<1>7. CASE r \notin {"sp", "irc_x", "xw_x"} \cup Fielded
  <2>1. Named(r, d) = IF d.xw = Mem(Stream(2)) /\ d.moved < Len(mask)
                      THEN mask[d.moved + 1] ELSE "stray"
    BY <1>7 DEF Named, Fielded
  <2> QED BY <1>1, <1>3, <2>1
<1> QED BY <1>4, <1>5, <1>6, <1>7

\* What the bypass foresees of a register is what the register file will hold.
LEMMA BypassIsNext ==
  ASSUME FileInv, NEW r \in Registers
  PROVE  n_ea_base(r) = regs_nxt[r]
<1> DEFINE moved == IF aupd_we THEN [dp.regs EXCEPT ![Named(uw.areg, dp)] = ea_updated] ELSE dp.regs
<1>1. DOMAIN dp.regs = Registers
  BY DEF FileInv
<1>2. DOMAIN moved = Registers
  BY <1>1
<1>3. moved[r] = IF aupd_we /\ Named(uw.areg, dp) = r THEN ea_updated ELSE dp.regs[r]
  BY <1>1
<1>4. regs_nxt = IF reg_we THEN [moved EXCEPT ![wreg] = reg_wdata] ELSE moved
  BY DEF regs_nxt
<1> HIDE DEF moved
<1>5. regs_nxt[r] = IF reg_we /\ wreg = r THEN reg_wdata ELSE moved[r]
  BY <1>2, <1>4
<1>6. n_ea_base(r) = IF reg_we /\ wreg = r THEN reg_wdata
                     ELSE IF aupd_we /\ Named(uw.areg, dp) = r THEN ea_updated ELSE dp.regs[r]
  BY DEF n_ea_base
<1> QED BY <1>3, <1>5, <1>6

LEMMA NextFile ==
  ASSUME FileInv
  PROVE  DOMAIN dp_nxt = Fields /\ DOMAIN dp_nxt.regs = Registers /\ dp_nxt.moved \in Nat
<1>1. DOMAIN regs_nxt = Registers
  BY DEF FileInv, regs_nxt
<1>2. DOMAIN dp_nxt = Fields /\ dp_nxt.regs = regs_nxt
      /\ dp_nxt.moved = dp.moved + (IF uw.mop = "step" THEN 1 ELSE 0)
  BY DEF dp_nxt, Fields
<1> QED BY <1>1, <1>2 DEF FileInv

Foreseen == FileInv /\ RequestForeseen

LEMMA ForeseenInit == Init => Foreseen
<1>1. Init => ~Running
  BY DEF Init, Running
<1>2. DOMAIN Idle = Fields /\ Idle.regs = RegsAtStart /\ Idle.moved = 0
  BY DEF Idle, Fields
<1>3. DOMAIN RegsAtStart = Registers
  BY DEF RegsAtStart
<1>4. Apart \in [Fielded -> Registers]
  BY DEF Apart, Fielded, Registers
<1> QED BY <1>1, <1>2, <1>3, <1>4 DEF Init, Foreseen, FileInv, RequestForeseen

LEMMA ForeseenStep ==
  ASSUME Foreseen, Step
  PROVE  Foreseen'
<1>1. FileInv /\ dp' = dp_nxt /\ UNCHANGED <<inst, alias, mask>>
  BY DEF Foreseen, Step
<1>2. FileInv'
  BY <1>1, NextFile DEF FileInv
<1>3. CASE label' = "over"
  BY <1>2, <1>3 DEF Foreseen, RequestForeseen, Running
<1>4. CASE label' # "over"
  <2>1. asked' = n_addr(uw')
    BY <1>4 DEF Step
  <2>2. Named(uw'.areg, dp_nxt) \in Registers
    BY <1>1, NextFile, NamedIsRegister DEF FileInv
  <2>3. n_ea_base(Named(uw'.areg, dp_nxt)) = dp_nxt.regs[Named(uw'.areg, dp_nxt)]
    <3>1. dp_nxt.regs = regs_nxt
      BY DEF dp_nxt
    <3> QED BY <1>1, <2>2, <3>1, BypassIsNext
  <2>4. asked' = address_of(uw', dp_nxt, dp_nxt.regs[Named(uw'.areg, dp_nxt)])
    BY <2>1, <2>3 DEF n_addr
  <2>5. own_address' = address_of(uw', dp_nxt, dp_nxt.regs[Named(uw'.areg, dp_nxt)])
    BY <1>1 DEF own_address, ea_base, Named
  <2> QED BY <1>2, <2>4, <2>5 DEF Foreseen, RequestForeseen
<1> QED BY <1>3, <1>4

\* A faulted word runs again with the address it had, from registers that come
\* back, for the frame leaves out none of those an address is made of.
LEMMA ForeseenFault ==
  ASSUME Foreseen, Fault
  PROVE  Foreseen'
<1>1. FileInv /\ UNCHANGED <<inst, label, upc, alias, mask>> /\ asked' = own_address
  BY DEF Foreseen, Fault
<1>2. /\ DOMAIN dp' = DOMAIN dp
      /\ \A f \in Fields \ {"unit", "dbuf"} : dp'[f] = dp[f]
  BY <1>1 DEF Fault, FileInv, Fields
<1>3. /\ dp'.regs = dp.regs /\ dp'.moved = dp.moved /\ dp'.pc = dp.pc /\ dp'.eal = dp.eal
      /\ dp'.t0 = dp.t0 /\ dp'.ir = dp.ir /\ dp'.irc = dp.irc /\ dp'.xw = dp.xw
  BY <1>2 DEF Fields
<1>4. FileInv'
  BY <1>1, <1>2, <1>3 DEF FileInv
<1>5. uw' = uw
  BY <1>1 DEF uw
<1>6. ea_base' = ea_base
  BY <1>1, <1>3, <1>5 DEF ea_base, Named
<1>7. own_address' = own_address
  BY <1>3, <1>5, <1>6 DEF own_address, address_of
<1> QED BY <1>1, <1>4, <1>7 DEF Foreseen, RequestForeseen

LEMMA ForeseenBegin ==
  ASSUME Foreseen, NEW i, Begin(i)
  PROVE  Foreseen'
<1>1. \A a \in Aliases(i) : a \in [Fielded -> Registers]
  BY DEF Aliases, Apart, Fielded, Registers
<1>2. \A m \in Masks(i) : m \in Seq(Registers)
  <2>1. {"m1", "src", "dx"} \subseteq Registers
    BY DEF Registers
  <2> HIDE DEF Registers
  <2>2. \A a, b, c \in Registers : /\ <<>> \in Seq(Registers) /\ <<a>> \in Seq(Registers)
                                 /\ <<a, b>> \in Seq(Registers) /\ <<a, b, c>> \in Seq(Registers)
    OBVIOUS
  <2> QED BY <2>1, <2>2 DEF Masks
<1> QED BY <1>1, <1>2 DEF Begin, Foreseen, FileInv, RequestForeseen

LEMMA ForeseenEnd ==
  ASSUME Foreseen, End
  PROVE  Foreseen'
<1>1. DOMAIN Idle = Fields /\ Idle.regs = RegsAtStart /\ Idle.moved = 0
  BY DEF Idle, Fields
<1>2. DOMAIN RegsAtStart = Registers
  BY DEF RegsAtStart
<1>3. Apart \in [Fielded -> Registers]
  BY DEF Apart, Fielded, Registers
<1> QED BY <1>1, <1>2, <1>3 DEF End, Running, Foreseen, FileInv, RequestForeseen

LEMMA ForeseenAlways == Spec => []Foreseen
<1>1. Foreseen /\ [Next]_vars => Foreseen'
  <2>1. SUFFICES ASSUME Foreseen, UNCHANGED vars PROVE Foreseen'
    BY ForeseenStep, ForeseenFault, ForeseenBegin, ForeseenEnd DEF Next, Decode
  <2>2. uw' = uw
    BY <2>1 DEF vars, uw
  <2> QED BY <2>1, <2>2 DEF vars, Foreseen, FileInv, RequestForeseen, Running, own_address, ea_base,
             Named, address_of
<1> QED BY <1>1, ForeseenInit, PTL DEF Spec

\* Whatever the microcode, the registers that coincide and the faults: a bus
\* cycle's address, presented before the word that makes it is current, is the
\* one that word computes from the registers it finds.
THEOREM RequestForeseenAlways == Spec => []RequestForeseen
BY ForeseenAlways, PTL DEF Foreseen

-----------------------------------------------------------------------------
(***************************************************************************)
(* The pipe at a boundary, for every microprogram that follows RefillRule. *)
(***************************************************************************)
\* A running word is a word of its instruction's.
PlaceInv == Running => IsPlace(here)

LEMMA RulesHold ==
  ASSUME NEW p, IsPlace(p)
  PROVE  order(p) \in 0..2 /\ RefillRule(p)
<1> DEFINE t == <<p[1], p[2], p[3]>>
<1>1. order(t) = order(p) /\ at(t) = at(p) /\ Follow(t) = Follow(p)
  BY DEF order, at, Follow, First
<1>2. order(t) \in 0..2 /\ RefillRule(t)
  BY RefillAssumption DEF IsPlace
<1> HIDE DEF t
<1> QED BY <1>1, <1>2 DEF RefillRule

\* A step goes to a word that may follow, or the instruction is over.
LEMMA StepFollows ==
  ASSUME PlaceInv, Step
  PROVE  /\ IsPlace(here) /\ at(here) = uw /\ inst' = inst /\ inst # NoInst
         /\ \/ uw.seq = "decode" /\ ~Running'
            \/ here' \in Follow(here) /\ IsPlace(here') /\ Running'
<1>1. IsPlace(here) /\ at(here) = uw /\ inst' = inst /\ inst # NoInst
  BY DEF Step, Running, PlaceInv, at, here, uw
<1>2. RefillRule(here)
  BY <1>1, RulesHold
<1>3. CASE uw.seq = "decode"
  BY <1>1, <1>3 DEF Step, Goto, Running
<1>4. CASE uw.seq # "decode"
  <2>1. here' \in Follow(here)
    <3>1. CASE uw.seq = "next"
      BY <1>1, <3>1 DEF Step, Follow, here
    <3>2. CASE uw.seq = "goto"
      BY <1>1, <3>2 DEF Step, Goto, Follow, here, First
    <3>3. CASE uw.seq = "cond"
      <4>1. PICK l \in Arms : Goto(l)
        BY <3>3 DEF Step
      <4>2. l \in {uw.to[1], uw.to[2]}
        BY <4>1 DEF Arms
      <4> QED BY <1>1, <3>3, <4>1, <4>2 DEF Goto, Follow, here, First
    <3> QED BY <1>4, <3>1, <3>2, <3>3 DEF Step
  <2>2. IsPlace(here')
    BY <1>2, <2>1 DEF RefillRule
  <2>3. label' # "over"
    BY <2>2, RefillAssumption DEF IsPlace, here
  <2> QED BY <1>1, <2>1, <2>2, <2>3 DEF Running, NoInst
<1> QED BY <1>1, <1>3, <1>4

Whole == Foreseen /\ PlaceInv /\ OrderInv

LEMMA IdleInOrder ==
  /\ Idle.ir = Mem(Idle.ir_pc) /\ Idle.irc = Mem(Idle.irc_pc)
  /\ Idle.pc = Plus(Idle.irc_pc, 2) /\ Idle.irc_pc = Plus(Idle.ir_pc, 2)
<1>1. Plus(Stream(0), 2) = Stream(2) /\ Plus(Stream(2), 2) = Stream(4)
  BY DEF Plus, Stream, Sym
<1>2. Idle.ir = Mem(Stream(0)) /\ Idle.irc = Mem(Plus(Stream(0), 2))
  BY DEF Idle, Pipe
<1>3. Idle.ir_pc = Stream(0) /\ Idle.irc_pc = Stream(2) /\ Idle.pc = Stream(4)
  BY DEF Idle
<1> QED BY <1>1, <1>2, <1>3

\* What a word leaves in order is what Ordered says.
LEMMA StepKeepsOrder ==
  ASSUME Whole, Step
  PROVE  /\ dp'.ir = Mem(dp'.ir_pc) /\ dp'.irc = Mem(dp'.irc_pc)
         /\ Ordered(uw, order(here)) >= 1 => dp'.pc = Plus(dp'.irc_pc, 2)
         /\ Ordered(uw, order(here)) = 2  => dp'.irc_pc = Plus(dp'.ir_pc, 2)
<1>1. IsPlace(here) /\ at(here) = uw /\ Running
  BY StepFollows DEF Whole, Step
<1>2. order(here) \in 0..2 /\ RefillRule(here)
  BY <1>1, RulesHold
<1>3. /\ dp.ir = Mem(dp.ir_pc) /\ dp.irc = Mem(dp.irc_pc)
      /\ order(here) >= 1 => dp.pc = Plus(dp.irc_pc, 2)
      /\ order(here) = 2  => dp.irc_pc = Plus(dp.ir_pc, 2)
  BY <1>1 DEF Whole, OrderInv, depth
<1>4. /\ dp'.ir = (IF uw.pf = "advfetch" THEN dp.irc ELSE dp.ir)
      /\ dp'.ir_pc = (IF uw.pf = "advfetch" THEN dp.irc_pc ELSE dp.ir_pc)
      /\ dp'.irc = (IF uw.pf # "none" THEN rdata ELSE dp.irc)
      /\ dp'.irc_pc = (IF uw.pf # "none" THEN dp.pc ELSE dp.irc_pc)
      /\ dp'.pc = pc_nxt
  BY DEF Step, dp_nxt
<1>5. uw.pf # "none" => rdata = Mem(dp.pc) /\ uw.dst # "pc"
  BY <1>1, <1>2 DEF Whole, Foreseen, RequestForeseen, RefillRule, own_address, address_of, rdata
<1>6. /\ uw.dst # "pc" /\ uw.pf # "none" => dp'.pc = Plus(dp.pc, 2)
      /\ uw.dst # "pc" /\ uw.pf = "none" => dp'.pc = dp.pc
  BY <1>4 DEF pc_nxt
<1>7. CASE uw.pf = "advfetch"
  BY <1>2, <1>3, <1>4, <1>5, <1>6, <1>7 DEF Ordered
<1>8. CASE uw.pf = "none"
  BY <1>2, <1>3, <1>4, <1>6, <1>8 DEF Ordered
<1>9. CASE uw.pf \notin {"none", "advfetch"}
  BY <1>2, <1>3, <1>4, <1>5, <1>6, <1>9 DEF Ordered
<1> QED BY <1>7, <1>8, <1>9

LEMMA WholeStep ==
  ASSUME Whole, Step
  PROVE  PlaceInv' /\ OrderInv'
<1>1. /\ IsPlace(here) /\ at(here) = uw
      /\ \/ uw.seq = "decode" /\ ~Running'
         \/ here' \in Follow(here) /\ IsPlace(here') /\ Running'
  BY StepFollows DEF Whole
<1>2. RefillRule(here) /\ order(here) \in 0..2
  BY <1>1, RulesHold
<1>3. depth' <= Ordered(uw, order(here)) /\ depth' \in 0..2
  <2>1. CASE ~Running'
    BY <1>1, <1>2, <2>1 DEF RefillRule, depth
  <2>2. CASE Running'
    <3>1. depth' = order(here')
      BY <2>2 DEF depth, order
    <3>2. order(here') \in 0..2
      BY <1>1, <2>2, RulesHold
    <3> QED BY <1>1, <1>2, <2>2, <3>1, <3>2 DEF RefillRule
  <2> QED BY <2>1, <2>2
<1>4. Ordered(uw, order(here)) \in 0..2
  BY <1>2 DEF Ordered
<1>5. PlaceInv'
  BY <1>1 DEF PlaceInv, IsPlace
<1>6. OrderInv'
  BY <1>3, <1>4, StepKeepsOrder DEF OrderInv
<1> QED BY <1>5, <1>6

LEMMA WholeFault ==
  ASSUME Whole, Fault
  PROVE  PlaceInv' /\ OrderInv'
<1>1. UNCHANGED <<inst, label, upc>>
  BY DEF Fault
<1>2. /\ dp'.ir = dp.ir /\ dp'.ir_pc = dp.ir_pc /\ dp'.irc = dp.irc /\ dp'.irc_pc = dp.irc_pc
      /\ dp'.pc = dp.pc
  BY DEF Fault, Whole, Foreseen, FileInv, Fields
<1>3. depth' = depth
  BY <1>1 DEF depth, Running, here, order
<1> QED BY <1>1, <1>2, <1>3 DEF Whole, OrderInv, PlaceInv, Running, IsPlace, here

LEMMA WholeBegin ==
  ASSUME Whole, NEW i \in Instrs, Begin(i)
  PROVE  PlaceInv' /\ OrderInv'
<1>1. i \in DOMAIN Micro /\ inst' = i /\ label' = "start" /\ upc' = 1 /\ dp' = dp /\ inst = NoInst
  BY InstrsAssumption DEF Begin
<1>2. IsPlace(First(i, "start"))
  BY <1>1, RefillAssumption
<1>3. PlaceInv'
  BY <1>1, <1>2 DEF PlaceInv, here, First, IsPlace
<1>4. depth = 2
  BY <1>1 DEF depth, Running
<1>5. OrderInv'
  BY <1>1, <1>4 DEF Whole, OrderInv
<1> QED BY <1>3, <1>5

LEMMA WholeEnd ==
  ASSUME End
  PROVE  PlaceInv' /\ OrderInv'
BY IdleInOrder DEF End, PlaceInv, OrderInv, Running

LEMMA WholeAlways == Spec => []Whole
<1>1. Init => PlaceInv /\ OrderInv
  BY IdleInOrder DEF Init, PlaceInv, OrderInv, Running
<1>2. Whole /\ [Next]_vars => PlaceInv' /\ OrderInv'
  <2>1. SUFFICES ASSUME Whole, UNCHANGED vars PROVE PlaceInv' /\ OrderInv'
    BY WholeStep, WholeFault, WholeBegin, WholeEnd DEF Next, Decode
  <2> QED BY <2>1 DEF vars, Whole, PlaceInv, OrderInv, Running, here, depth, order, IsPlace
<1> QED BY <1>1, <1>2, ForeseenAlways, PTL DEF Spec, Whole

\* Whatever the microcode, as long as it follows RefillRule, and whatever faults:
\* the next instruction finds a pipe in order.
THEOREM PipeWholeAlways == Spec => []PipeWhole
<1>1. Whole => PipeWhole
  <2>1. SUFFICES ASSUME Whole, Over PROVE depth = 2
    BY DEF PipeWhole, Whole, OrderInv
  <2> QED BY <2>1 DEF Over, depth, Running
<1> QED BY <1>1, WholeAlways, PTL

-----------------------------------------------------------------------------
(***************************************************************************)
(* The machine with faults and the one without.                            *)
(***************************************************************************)
LEMMA RerunRulesHold ==
  ASSUME NEW p, IsPlace(p)
  PROVE  AnswerRule(p) /\ BufferRule(p)
<1> DEFINE t == <<p[1], p[2], p[3]>>
<1>1. at(t) = at(p) /\ Follow(t) = Follow(p) /\ wanted(t) = wanted(p)
  BY DEF at, Follow, First, wanted
<1>2. AnswerRule(t) /\ BufferRule(t)
  BY RerunAssumption DEF IsPlace
<1> HIDE DEF t
<1> QED BY <1>1, <1>2 DEF AnswerRule, BufferRule

LEMMA IdleFields == DOMAIN Idle = Fields /\ NoFaults!Idle = Idle
<1>1. DOMAIN Idle = Fields
  BY DEF Idle, Fields
<1>2. NoFaults!Stream(0) = Stream(0) /\ NoFaults!Stream(2) = Stream(2) /\ NoFaults!Stream(4) = Stream(4)
  BY DEF Stream, NoFaults!Stream, Plus, NoFaults!Plus, Sym, NoFaults!Sym
<1>3. \A v : NoFaults!Pipe(v) = Pipe(v)
  BY DEF Pipe, NoFaults!Pipe, Plus, NoFaults!Plus, Mem, NoFaults!Mem
<1>4. NoFaults!RegsAtStart = RegsAtStart
  BY DEF RegsAtStart, NoFaults!RegsAtStart, Registers, NoFaults!Registers, Sym, NoFaults!Sym
<1>5. \A t : NoFaults!Sym(t) = Sym(t)
  BY DEF Sym, NoFaults!Sym
<1>6. NoFaults!Idle = Idle
  BY <1>2, <1>3, <1>4, <1>5 DEF Idle, NoFaults!Idle
<1> QED BY <1>1, <1>6

Unharmed == Foreseen /\ PlaceInv /\ UnharmedInv /\ DOMAIN pure = Fields

\* Field by field, where no fault has just been.
LEMMA SameFields ==
  ASSUME Unharmed
  PROVE  /\ pure.regs = dp.regs /\ pure.t0 = dp.t0 /\ pure.t1 = dp.t1 /\ pure.eal = dp.eal
         /\ pure.ctl = dp.ctl /\ pure.pc = dp.pc /\ pure.ir = dp.ir /\ pure.ir_pc = dp.ir_pc
         /\ pure.irc = dp.irc /\ pure.irc_pc = dp.irc_pc /\ pure.xw = dp.xw
         /\ pure.moved = dp.moved
         /\ \A f \in Fields \ {"unit", "dbuf"} : pure[f] = dp[f]
<1>1. \A f \in Fields \ {"unit", "dbuf"} : pure[f] = dp[f]
  BY IdleFields DEF Unharmed, UnharmedInv
<1> QED BY <1>1 DEF Fields

\* A word of the two machines: what it names, reads and computes.
LEMMA SameNames ==
  ASSUME Unharmed, NEW r
  PROVE  NoFaults!Named(r, pure) = Named(r, dp)
<1>1. \A n : NoFaults!Stream(n) = Stream(n)
  BY DEF Stream, NoFaults!Stream, Plus, NoFaults!Plus, Sym, NoFaults!Sym
<1>2. \A v : NoFaults!Mem(v) = Mem(v)
  BY DEF Mem, NoFaults!Mem
<1>3. pure.ir = dp.ir /\ pure.irc = dp.irc /\ pure.xw = dp.xw /\ pure.moved = dp.moved
  BY SameFields
<1> QED BY <1>1, <1>2, <1>3 DEF Named, NoFaults!Named

LEMMA SameWord == NoFaults!uw = uw
BY DEF uw, NoFaults!uw

LEMMA SameSource ==
  ASSUME Unharmed, Running, NEW s \in Reads(uw)
  PROVE  Source(s) = NoFaults!Source(s)
<1>1. IsPlace(here) /\ at(here) = uw
  BY DEF Unharmed, PlaceInv, at, here, uw
<1>2. AnswerRule(here) /\ BufferRule(here)
  BY <1>1, RerunRulesHold
<1>3. s = "unit" => pure.unit = dp.unit
  BY <1>1, <1>2 DEF AnswerRule, Unharmed, UnharmedInv
<1>4. s = "dbuf" => pure.dbuf = dp.dbuf
  BY <1>1, <1>2 DEF BufferRule, Unharmed, UnharmedInv, LosesBuffer, Reads
<1>5. s \in Fields => pure[s] = dp[s]
  BY <1>3, <1>4, SameFields
<1>6. DOMAIN dp = Fields /\ DOMAIN pure = Fields
  BY DEF Unharmed, Foreseen, FileInv
<1>7. NoFaults!Named(s, pure) = Named(s, dp)
  BY SameNames
<1>8. pure.regs = dp.regs /\ pure.irc = dp.irc /\ pure.ir = dp.ir /\ pure.pc = dp.pc
      /\ pure.irc_pc = dp.irc_pc
  BY SameFields
<1>9. /\ \A h : NoFaults!Word(h) = Word(h) /\ NoFaults!Extend(h) = Extend(h) /\ NoFaults!Sym(h) = Sym(h)
      /\ \A v : NoFaults!Plus(v, 2) = Plus(v, 2)
      /\ NoFaults!rdata = rdata /\ NoFaults!ByRegister = ByRegister
  BY DEF Word, NoFaults!Word, Extend, NoFaults!Extend, Lo, NoFaults!Lo, Sym, NoFaults!Sym, Plus,
         NoFaults!Plus, rdata, NoFaults!rdata, Mem, NoFaults!Mem, ByRegister, NoFaults!ByRegister
<1> QED BY <1>5, <1>6, <1>7, <1>8, <1>9 DEF Source, NoFaults!Source

LEMMA SameValue ==
  ASSUME Unharmed, Running
  PROVE  NoFaults!y = y
<1>1. Source(uw.src) = NoFaults!Source(uw.src)
  BY SameSource DEF Reads
<1>2. {Source(s) : s \in {uw.src} \cup uw.with} = {NoFaults!Source(s) : s \in {uw.src} \cup uw.with}
  BY SameSource DEF Reads
<1>3. \A v : NoFaults!Of(v) = Of(v) /\ NoFaults!Extend(v) = Extend(v)
  BY DEF Of, NoFaults!Of, Sym, NoFaults!Sym, Extend, NoFaults!Extend, Lo, NoFaults!Lo
<1>4. NoFaults!Of({NoFaults!Source(s) : s \in {uw.src} \cup uw.with})
        = Of({Source(s) : s \in {uw.src} \cup uw.with})
  BY <1>2, <1>3
<1> DEFINE v == IF uw.with = {} THEN Source(uw.src) ELSE Of({Source(s) : s \in {uw.src} \cup uw.with})
           w == IF uw.with = {} THEN NoFaults!Source(uw.src)
                ELSE NoFaults!Of({NoFaults!Source(s) : s \in {uw.src} \cup uw.with})
<1>5. v = w
  BY <1>1, <1>4
<1>6. y = IF uw.sx THEN Extend(v) ELSE v
  BY DEF y
<1>7. NoFaults!y = IF uw.sx THEN NoFaults!Extend(w) ELSE w
  BY SameWord DEF NoFaults!y
<1> HIDE DEF v, w
<1> QED BY <1>3, <1>5, <1>6, <1>7

\* Its address register, and the addresses it uses.
LEMMA SameAddress ==
  ASSUME Unharmed
  PROVE  /\ NoFaults!ea_base = ea_base /\ NoFaults!ea_used = ea_used
         /\ NoFaults!ea_updated = ea_updated /\ NoFaults!aupd_we = aupd_we
         /\ NoFaults!Named(uw.areg, pure) = Named(uw.areg, dp)
<1>1. NoFaults!Named(uw.areg, pure) = Named(uw.areg, dp) /\ pure.regs = dp.regs
  BY SameNames, SameFields
<1>2. \A v, n : NoFaults!Plus(v, n) = Plus(v, n)
  BY DEF Plus, NoFaults!Plus
<1>3. NoFaults!ea_inc(uw) = ea_inc(uw)
  BY DEF ea_inc, NoFaults!ea_inc
<1>4. NoFaults!ea_base = ea_base
  BY <1>1, SameWord DEF ea_base, NoFaults!ea_base
<1>5. NoFaults!ea_used = ea_used
  BY <1>2, <1>3, <1>4, SameWord DEF ea_used, NoFaults!ea_used
<1>6. NoFaults!ea_updated = ea_updated
  BY <1>2, <1>3, <1>4, <1>5, SameWord DEF ea_updated, NoFaults!ea_updated
<1> QED BY <1>1, <1>4, <1>5, <1>6, SameWord DEF aupd_we, NoFaults!aupd_we

\* A write drives the same data: a word that loads the buffer computes it again,
\* and any other finds the buffer as it was.
LEMMA SameBuffer ==
  ASSUME Unharmed, Running
  PROVE  NoFaults!dbuf_nxt = dbuf_nxt /\ NoFaults!req_wdata = req_wdata
<1>1. uw.dst # "dbuf" => pure.dbuf = dp.dbuf
  BY DEF Unharmed, UnharmedInv
<1>2. \A v : NoFaults!Lo(v) = Lo(v) /\ NoFaults!Hi(v) = Hi(v)
  BY DEF Lo, NoFaults!Lo, Hi, NoFaults!Hi
<1>3. NoFaults!dbuf_nxt = dbuf_nxt
  BY <1>1, <1>2, SameValue, SameWord DEF dbuf_nxt, NoFaults!dbuf_nxt
<1> QED BY <1>2, <1>3, SameWord DEF req_wdata, NoFaults!req_wdata

LEMMA SameRegisters ==
  ASSUME Unharmed, Running
  PROVE  /\ NoFaults!regs_nxt = regs_nxt /\ NoFaults!reg_we = reg_we /\ NoFaults!wreg = wreg
         /\ NoFaults!reg_wdata = reg_wdata
<1>1. NoFaults!y = y /\ pure.regs = dp.regs /\ NoFaults!uw = uw
  BY SameValue, SameFields, SameWord
<1>2. NoFaults!reg_we = reg_we
  BY <1>1 DEF reg_we, NoFaults!reg_we, ByRegister, NoFaults!ByRegister
<1>3. NoFaults!wreg = wreg
  BY <1>1, SameNames DEF wreg, NoFaults!wreg
<1>4. NoFaults!wreg_val = wreg_val
  BY <1>1, <1>3 DEF wreg_val, NoFaults!wreg_val
<1>5. \A v : NoFaults!Lo(v) = Lo(v) /\ NoFaults!Hi(v) = Hi(v)
  BY DEF Lo, NoFaults!Lo, Hi, NoFaults!Hi
<1>6. NoFaults!reg_wdata = reg_wdata
  BY <1>1, <1>4, <1>5 DEF reg_wdata, NoFaults!reg_wdata
<1>7. NoFaults!regs_nxt = regs_nxt
  BY <1>1, <1>2, <1>3, <1>6, SameAddress DEF regs_nxt, NoFaults!regs_nxt
<1> QED BY <1>2, <1>3, <1>6, <1>7

LEMMA SameNext ==
  ASSUME Unharmed, Running
  PROVE  /\ DOMAIN NoFaults!dp_nxt = Fields
         /\ \A f \in Fields \ {"unit"} : NoFaults!dp_nxt[f] = dp_nxt[f]
         /\ pure.unit = dp.unit \/ uw.dst = "unit" => NoFaults!dp_nxt.unit = dp_nxt.unit
<1>1. NoFaults!y = y /\ NoFaults!uw = uw
  BY SameValue, SameWord
<1>2. \A v, n : NoFaults!Lo(v) = Lo(v) /\ NoFaults!Plus(v, n) = Plus(v, n)
  BY DEF Lo, NoFaults!Lo, Plus, NoFaults!Plus
<1>3. NoFaults!t0_nxt = t0_nxt /\ NoFaults!t1_nxt = t1_nxt
  BY <1>1, <1>2, SameFields DEF t0_nxt, NoFaults!t0_nxt, t1_nxt, NoFaults!t1_nxt
<1>4. NoFaults!ctl_nxt = ctl_nxt /\ NoFaults!pc_nxt = pc_nxt
  BY <1>1, <1>2, SameFields DEF ctl_nxt, NoFaults!ctl_nxt, pc_nxt, NoFaults!pc_nxt
<1>5. NoFaults!ea_latch_nxt = ea_latch_nxt
  BY <1>1, SameFields, SameAddress DEF ea_latch_nxt, NoFaults!ea_latch_nxt
<1>6. NoFaults!rdata = rdata
  BY DEF rdata, NoFaults!rdata, Mem, NoFaults!Mem
<1>7. /\ DOMAIN NoFaults!dp_nxt = Fields
      /\ NoFaults!dp_nxt.regs = dp_nxt.regs /\ NoFaults!dp_nxt.dbuf = dp_nxt.dbuf
      /\ NoFaults!dp_nxt.t0 = dp_nxt.t0 /\ NoFaults!dp_nxt.t1 = dp_nxt.t1
      /\ NoFaults!dp_nxt.eal = dp_nxt.eal /\ NoFaults!dp_nxt.ctl = dp_nxt.ctl
      /\ NoFaults!dp_nxt.pc = dp_nxt.pc
  BY <1>3, <1>4, <1>5, SameRegisters, SameBuffer DEF dp_nxt, NoFaults!dp_nxt, Fields
<1>8. /\ NoFaults!dp_nxt.ir = dp_nxt.ir /\ NoFaults!dp_nxt.ir_pc = dp_nxt.ir_pc
      /\ NoFaults!dp_nxt.irc = dp_nxt.irc /\ NoFaults!dp_nxt.irc_pc = dp_nxt.irc_pc
      /\ NoFaults!dp_nxt.xw = dp_nxt.xw /\ NoFaults!dp_nxt.moved = dp_nxt.moved
  BY <1>1, <1>6, SameFields DEF dp_nxt, NoFaults!dp_nxt
<1>9. pure.unit = dp.unit \/ uw.dst = "unit" => NoFaults!dp_nxt.unit = dp_nxt.unit
  BY <1>1 DEF dp_nxt, NoFaults!dp_nxt
<1> QED BY <1>7, <1>8, <1>9 DEF Fields

\* The request for the word that comes next is the same.
LEMMA SameRequest ==
  ASSUME Unharmed, Running, NEW w
  PROVE  NoFaults!n_addr(w) = n_addr(w)
<1>1. \A f \in Fields \ {"unit"} : NoFaults!dp_nxt[f] = dp_nxt[f]
  BY SameNext
<1>2. /\ NoFaults!dp_nxt.pc = dp_nxt.pc /\ NoFaults!dp_nxt.eal = dp_nxt.eal
      /\ NoFaults!dp_nxt.t0 = dp_nxt.t0 /\ NoFaults!dp_nxt.ir = dp_nxt.ir
      /\ NoFaults!dp_nxt.irc = dp_nxt.irc /\ NoFaults!dp_nxt.xw = dp_nxt.xw
      /\ NoFaults!dp_nxt.moved = dp_nxt.moved
  BY <1>1 DEF Fields
<1>3. /\ \A v, n : NoFaults!Plus(v, n) = Plus(v, n)
      /\ NoFaults!ea_inc(w) = ea_inc(w) /\ NoFaults!Stream(0) = Stream(0)
      /\ NoFaults!Stream(2) = Stream(2) /\ \A v : NoFaults!Mem(v) = Mem(v)
  BY DEF Plus, NoFaults!Plus, ea_inc, NoFaults!ea_inc, Stream, NoFaults!Stream, Sym, NoFaults!Sym,
         Mem, NoFaults!Mem
<1>4. NoFaults!Named(w.areg, NoFaults!dp_nxt) = Named(w.areg, dp_nxt)
  BY <1>2, <1>3 DEF Named, NoFaults!Named
<1>5. \A r : NoFaults!n_ea_base(r) = n_ea_base(r)
  BY SameRegisters, SameAddress, SameFields, SameWord DEF n_ea_base, NoFaults!n_ea_base
<1>6. \A base : NoFaults!address_of(w, NoFaults!dp_nxt, base) = address_of(w, dp_nxt, base)
  BY <1>2, <1>3 DEF address_of, NoFaults!address_of
<1> QED BY <1>4, <1>5, <1>6 DEF n_addr, NoFaults!n_addr

LEMMA UnharmedStep ==
  ASSUME Unharmed, StepR
  PROVE  UnharmedInv' /\ (DOMAIN pure = Fields)' /\ NoFaults!Step
<1>1. Running /\ Step /\ pure' = NoFaults!dp_nxt /\ dp' = dp_nxt
  BY DEF StepR, Step
<1>2. /\ DOMAIN pure' = Fields /\ \A f \in Fields \ {"unit"} : pure'[f] = dp'[f]
      /\ pure.unit = dp.unit \/ uw.dst = "unit" => pure'.unit = dp'.unit
  BY <1>1, SameNext
<1>3. /\ IsPlace(here) /\ at(here) = uw /\ inst' = inst /\ inst # NoInst
      /\ ~Running' \/ here' \in Follow(here)
  BY <1>1, StepFollows DEF Unharmed
<1>4. AnswerRule(here)
  BY <1>3, RerunRulesHold
<1>5. UnharmedInv'
  <2>1. \A f \in Fields \ {"unit", "dbuf"} : dp'[f] = pure'[f]
    BY <1>2
  <2>2. dp'.dbuf = pure'.dbuf
    BY <1>2 DEF Fields
  <2>3. ASSUME (inst = NoInst \/ (Running /\ wanted(here)))' PROVE dp'.unit = pure'.unit
    <3>1. Running' /\ wanted(here')
      BY <1>3, <2>3 DEF wanted
    <3>2. wanted(here) \/ uw.dst = "unit"
      BY <1>3, <1>4, <3>1 DEF AnswerRule
    <3> QED BY <1>1, <1>2, <3>2 DEF Unharmed, UnharmedInv
  <2> QED BY <2>1, <2>2, <2>3, IdleFields DEF UnharmedInv
<1>6. NoFaults!Step
  <2>1. NoFaults!Running /\ NoFaults!uw = uw
    BY <1>1, SameWord DEF Running, NoFaults!Running, NoInst, NoFaults!NoInst
  <2>2. NoFaults!req_wdata = req_wdata
    BY <1>1, SameBuffer
  <2>3. NoFaults!Arms = Arms
    <3>1. NoFaults!dp_nxt.moved = dp_nxt.moved
      BY <1>1, SameNext DEF Fields
    <3> QED BY <2>1, <3>1 DEF Arms, NoFaults!Arms
  <2>4. /\ \/ uw.seq = "next"   /\ upc' = upc + 1 /\ UNCHANGED <<label, path>>
           \/ uw.seq = "goto"   /\ NoFaults!Goto(uw.to[1])
           \/ uw.seq = "decode" /\ NoFaults!Goto("over")
           \/ uw.seq = "cond"   /\ \E l \in Arms : NoFaults!Goto(l)
    <3>1. \A l : NoFaults!Goto(l) <=> Goto(l)
      BY DEF Goto, NoFaults!Goto
    <3> QED BY <1>1, <3>1 DEF Step
  <2>5. asked' = IF label' = "over" THEN asked ELSE NoFaults!n_addr((NoFaults!uw)')
    <3>1. (NoFaults!uw)' = uw'
      BY DEF uw, NoFaults!uw
    <3>2. NoFaults!n_addr(uw') = n_addr(uw')
      BY <1>1, SameRequest
    <3> QED BY <1>1, <3>1, <3>2 DEF Step
  <2>6. /\ reads' = IF uw.bus \in {"read", "rmw"} THEN Append(reads, asked) ELSE reads
        /\ writes' = IF uw.bus \in {"write", "rmw"} THEN Append(writes, <<asked, req_wdata>>)
                     ELSE writes
        /\ UNCHANGED <<inst, alias, mask>>
    BY <1>1 DEF Step
  <2> QED BY <1>1, <2>1, <2>2, <2>3, <2>4, <2>5, <2>6 DEF NoFaults!Step
<1> QED BY <1>2, <1>5, <1>6

\* A fault is nothing to the machine without: the word's request is made again.
LEMMA UnharmedFault ==
  ASSUME Unharmed, FaultR
  PROVE  UnharmedInv' /\ (DOMAIN pure = Fields)' /\ UNCHANGED NoFaults!vars
<1>1. /\ Running /\ uw.bus # "none" /\ pure' = pure /\ asked' = own_address
      /\ UNCHANGED <<inst, label, upc, path, alias, mask, reads, writes>>
  BY DEF FaultR, Fault
<1>2. ~LosesUnit /\ ~LosesBuffer
  BY RerunAssumption DEF FaultR, Fault
<1>3. /\ \A f \in Fields \ {"unit", "dbuf"} : dp'[f] = dp[f]
      /\ uw.dst # "dbuf" => dp'.dbuf = dp.dbuf
  BY DEF FaultR, Fault, Unharmed, Foreseen, FileInv, Fields
<1>4. asked = own_address
  BY <1>1 DEF Unharmed, Foreseen, RequestForeseen
<1>5. IsPlace(here) /\ at(here) = uw /\ here' = here /\ uw' = uw
  BY <1>1 DEF Unharmed, PlaceInv, at, here, uw
<1>6. ~wanted(here) /\ inst # NoInst
  BY <1>1, <1>2, <1>5, RerunRulesHold DEF AnswerRule, LosesUnit, Reads, Running
<1>7. UnharmedInv'
  <2>1. \A f \in Fields \ {"unit", "dbuf"} : dp'[f] = pure'[f]
    BY <1>1, <1>3, SameFields
  <2>2. ~(inst = NoInst \/ (Running /\ wanted(here)))'
    BY <1>1, <1>5, <1>6 DEF wanted
  <2>3. Running' /\ uw'.bus # "none" /\ LosesBuffer' = LosesBuffer
    BY <1>1, <1>5 DEF Running, LosesBuffer
  <2>4. CASE uw.dst = "dbuf"
    BY <1>2, <1>5, <2>1, <2>2, <2>3, <2>4, IdleFields DEF UnharmedInv
  <2>5. CASE uw.dst # "dbuf"
    <3>1. dp'.dbuf = pure'.dbuf
      BY <1>1, <1>3, <2>5 DEF Unharmed, UnharmedInv
    <3> QED BY <2>1, <2>2, <3>1, IdleFields DEF UnharmedInv
  <2> QED BY <2>4, <2>5
<1>8. UNCHANGED NoFaults!vars
  BY <1>1, <1>4 DEF NoFaults!vars
<1> QED BY <1>1, <1>7, <1>8 DEF Unharmed

LEMMA UnharmedBegin ==
  ASSUME Unharmed, NEW i \in Instrs, BeginR(i)
  PROVE  UnharmedInv' /\ (DOMAIN pure = Fields)' /\ NoFaults!Begin(i)
<1>1. /\ Begin(i) /\ i \in DOMAIN Micro /\ inst = NoInst /\ dp' = dp /\ pure' = pure
      /\ inst' = i /\ label' = "start" /\ upc' = 1 /\ asked' = own_address'
  BY InstrsAssumption DEF BeginR, Begin
<1>2. /\ \A f \in Fields \ {"unit", "dbuf"} : dp[f] = pure[f]
      /\ dp.unit = pure.unit /\ dp.dbuf = pure.dbuf
  BY <1>1, IdleFields DEF Unharmed, UnharmedInv, Running
<1>3. UnharmedInv'
  BY <1>1, <1>2, IdleFields DEF UnharmedInv
<1>4. /\ pure'.regs = dp'.regs /\ pure'.pc = dp'.pc /\ pure'.eal = dp'.eal /\ pure'.t0 = dp'.t0
      /\ pure'.ir = dp'.ir /\ pure'.irc = dp'.irc /\ pure'.xw = dp'.xw /\ pure'.moved = dp'.moved
  BY <1>1, SameFields
<1>5. (NoFaults!own_address)' = own_address'
  <2>1. /\ \A v, n : NoFaults!Plus(v, n) = Plus(v, n)
        /\ \A w : NoFaults!ea_inc(w) = ea_inc(w)
        /\ NoFaults!Stream(0) = Stream(0) /\ NoFaults!Stream(2) = Stream(2)
        /\ \A v : NoFaults!Mem(v) = Mem(v)
    BY DEF Plus, NoFaults!Plus, ea_inc, NoFaults!ea_inc, Stream, NoFaults!Stream, Sym,
           NoFaults!Sym, Mem, NoFaults!Mem
  <2>2. (NoFaults!uw)' = uw'
    BY DEF uw, NoFaults!uw
  <2>3. (NoFaults!ea_base)' = ea_base'
    BY <1>4, <2>1, <2>2 DEF ea_base, NoFaults!ea_base, Named, NoFaults!Named
  <2> QED BY <1>4, <2>1, <2>2, <2>3 DEF own_address, NoFaults!own_address, address_of,
             NoFaults!address_of
<1>6. NoFaults!Aliases(i) = Aliases(i) /\ NoFaults!Masks(i) = Masks(i) /\ NoFaults!NoInst = NoInst
  BY DEF Aliases, NoFaults!Aliases, Masks, NoFaults!Masks, Apart, NoFaults!Apart, NoInst,
         NoFaults!NoInst
<1>7. NoFaults!Begin(i)
  BY <1>1, <1>5, <1>6 DEF Begin, NoFaults!Begin
<1> QED BY <1>1, <1>3, <1>7 DEF Unharmed

LEMMA UnharmedEnd ==
  ASSUME EndR
  PROVE  UnharmedInv' /\ (DOMAIN pure = Fields)' /\ NoFaults!End
<1>1. dp' = Idle /\ pure' = Idle
  BY DEF EndR, End
<1>2. UnharmedInv' /\ DOMAIN pure' = Fields
  BY <1>1, IdleFields DEF UnharmedInv
<1>3. NoFaults!NoInst = NoInst /\ NoFaults!Apart = Apart /\ NoFaults!Stream(4) = Stream(4)
  BY DEF NoInst, NoFaults!NoInst, Apart, NoFaults!Apart, Stream, NoFaults!Stream, Plus,
         NoFaults!Plus, Sym, NoFaults!Sym
<1>4. NoFaults!End
  BY <1>1, <1>3, IdleFields DEF EndR, End, NoFaults!End
<1> QED BY <1>2, <1>4

LEMMA RerunIsDatapath == SpecR => Spec
<1>1. InitR => Init
  BY DEF InitR
<1>2. [NextR]_<<vars, pure>> => [Next]_vars
  BY DEF NextR, DecodeR, Next, Decode, BeginR, StepR, FaultR, EndR, vars
<1> QED BY <1>1, <1>2, PTL DEF SpecR, Spec

LEMMA UnharmedAlways == SpecR => []Unharmed /\ NoFaults!Spec
<1>1. InitR => UnharmedInv /\ DOMAIN pure = Fields /\ NoFaults!Init
  <2>1. NoFaults!NoInst = NoInst /\ NoFaults!Apart = Apart /\ NoFaults!Stream(4) = Stream(4)
    BY DEF NoInst, NoFaults!NoInst, Apart, NoFaults!Apart, Stream, NoFaults!Stream, Plus,
           NoFaults!Plus, Sym, NoFaults!Sym
  <2> QED BY <2>1, IdleFields DEF InitR, Init, NoFaults!Init, UnharmedInv
<1>2. /\ Unharmed /\ [NextR]_<<vars, pure>> => UnharmedInv' /\ (DOMAIN pure = Fields)'
      /\ Unharmed /\ [NextR]_<<vars, pure>> => [NoFaults!Next]_(NoFaults!vars)
  <2>1. ASSUME Unharmed, NextR
        PROVE  UnharmedInv' /\ (DOMAIN pure = Fields)' /\ [NoFaults!Next]_(NoFaults!vars)
    <3>1. ASSUME NEW i \in Instrs, inst = NoInst, BeginR(i)
          PROVE  NoFaults!Decode
      BY <2>1, <3>1, UnharmedBegin DEF NoFaults!Decode, NoInst, NoFaults!NoInst
    <3> QED
      BY <2>1, <3>1, UnharmedStep, UnharmedFault, UnharmedBegin, UnharmedEnd
         DEF NextR, DecodeR, NoFaults!Next
  <2>2. ASSUME Unharmed, UNCHANGED <<vars, pure>>
        PROVE  UnharmedInv' /\ (DOMAIN pure = Fields)' /\ [NoFaults!Next]_(NoFaults!vars)
    BY <2>2 DEF vars, NoFaults!vars, Unharmed, UnharmedInv, Running, wanted, here, uw, LosesBuffer
  <2> QED BY <2>1, <2>2
<1> QED BY <1>1, <1>2, RerunIsDatapath, WholeAlways, PTL DEF SpecR, NoFaults!Spec, Unharmed, Whole

\* Whatever the microcode, as long as it follows RefillRule, AnswerRule and
\* BufferRule, and however many faults: a word that is run again finds in every
\* register it reads what it would have found at first.
THEOREM FindsTheSameAlways == SpecR => []FindsTheSame
<1>1. Unharmed => FindsTheSame
  BY SameSource DEF FindsTheSame
<1> QED BY <1>1, UnharmedAlways, PTL

\* And the whole machine is one in which nothing ever faults: same cycles, same
\* addresses, same data, in the same order.
THEOREM FaultsLeaveNoTrace == SpecR => FaultFree
BY UnharmedAlways, PTL DEF FaultFree

\* So what the programmer was promised is kept under any number of faults, if it
\* is kept without.
LEMMA PromiseKept ==
  (NoFaults!Spec => []Promised)
    => (SpecR => [](PipeInStep /\ ReadsOnce /\ WritesOnce /\ RegistersRight))
<1>1. Unharmed /\ Promised => PipeInStep /\ ReadsOnce /\ WritesOnce /\ RegistersRight
  <2>1. SUFFICES ASSUME Unharmed, Promised, Over
                 PROVE  InStep(dp) /\ Right(dp) /\ ReadsOnce /\ WritesOnce
    BY DEF PipeInStep, ReadsOnce, WritesOnce, RegistersRight
  <2>2. ReadsOnce /\ WritesOnce
    BY <2>1 DEF Promised, ReadsOnce, WritesOnce
  <2>3. Right(dp)
    BY <2>1, SameFields DEF Promised, Right
  <2>4. InStep(dp)
    <3> DEFINE next == Promise(inst).next
    <3>1. DOMAIN Pipe(next) = {"ir", "ir_pc", "irc", "irc_pc", "pc"}
      BY DEF Pipe
    <3>2. \A r \in DOMAIN Pipe(next) : pure[r] = dp[r]
      BY <2>1, <3>1, SameFields
    <3>3. [r \in DOMAIN Pipe(next) |-> pure[r]] = Pipe(next)
      BY <2>1 DEF Promised, InStep
    <3>4. [r \in DOMAIN Pipe(next) |-> dp[r]] = Pipe(next)
      BY <3>2, <3>3
    <3> QED BY <3>4 DEF InStep
  <2> QED BY <2>2, <2>3, <2>4
<1> QED BY <1>1, UnharmedAlways, PTL

\* Whatever the microcode, as long as it follows RefillRule, AnswerRule and
\* BufferRule: if the next instruction of every one that suffers no bus error is
\* where the programmer expects it, it is under any number of bus errors.
THEOREM PipeInStepKept == (NoFaults!Spec => []Promised) => (SpecR => []PipeInStep)
BY PromiseKept, PTL

\* For all such microcode: if every instruction that suffers no bus error reads its
\* operand words once each, so does every one that does.
THEOREM ReadsOnceKept == (NoFaults!Spec => []Promised) => (SpecR => []ReadsOnce)
BY PromiseKept, PTL

\* For all such microcode: if every instruction that suffers no bus error writes
\* its words once each, with what the programmer was promised, so does every one
\* that does.
THEOREM WritesOnceKept == (NoFaults!Spec => []Promised) => (SpecR => []WritesOnce)
BY PromiseKept, PTL

\* For all such microcode: if every instruction that suffers no bus error leaves in
\* the registers what the programmer was promised, so does every one that does.
THEOREM RegistersRightKept == (NoFaults!Spec => []Promised) => (SpecR => []RegistersRight)
BY PromiseKept, PTL
================================================================================
