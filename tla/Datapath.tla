------------------------------- MODULE Datapath -------------------------------
(***************************************************************************)
(* The datapath of rtl/rd68011_seq.sv running the microcode of module      *)
(* Instructions: one instruction after another, each from the pipe the one *)
(* before it left, with bus errors that suspend a word and a return that   *)
(* runs the word again.                                                    *)
(*                                                                         *)
(* Data is symbolic.  A register begins an instruction holding its own     *)
(* name, a word of memory its own address, and what the ALU makes of some  *)
(* values is the set of them.  A value is <<high half, low half, n>>: n is *)
(* what has been added to it, so that addresses can be told apart.         *)
(***************************************************************************)
EXTENDS Integers, FiniteSets, SequencesExt

CONSTANTS Micro,         \* the words of every instruction: instruction |-> label |-> words
          Instrs,        \* the instructions that are run
          MaxFaults,     \* bus errors suffered by one of them
          UnitKept,      \* a multiplier's or divider's answer survives a fault
          BufferKept     \* so does a data buffer that is combined into itself

ASSUME InstrsAssumption == Instrs \subseteq DOMAIN Micro /\ MaxFaults \in Nat
ASSUME KeptAssumption   == UnitKept \in BOOLEAN /\ BufferKept \in BOOLEAN

VARIABLES inst,      \* the instruction, NoInst at a boundary
          label, upc, \* the word it has reached, "over" after the last
          path,      \* the labels it went through
          alias,     \* which registers its fields name
          mask,      \* the registers its list names, in order
          dp,        \* the registers of the datapath
          asked,     \* the address presented for the word, a clock before it ran
          reads,     \* addresses of operand words read, in order
          writes,    \* addresses and halves written, in order
          faults
vars == <<inst, label, upc, path, alias, mask, dp, asked, reads, writes, faults>>

Sym(t)     == << <<"hi", t>>, <<"lo", t>>, 0 >>
Word(h)    == << <<"none">>, h, 0 >>
Plus(v, n) == <<v[1], v[2], v[3] + n>>
Hi(v)      == IF v[3] = 0 THEN v[1] ELSE <<"hi", v>>
Lo(v)      == IF v[3] = 0 THEN v[2] ELSE <<"lo", v>>
Of(vals)   == Sym(<<"of", vals>>)
Mem(v)     == <<"mem", v>>
Extend(v)  == << <<"sx", Lo(v)>>, Lo(v), 0 >>
Stream(n)  == Plus(Sym(<<"here">>), n)

Registers == {"dx", "src", "dy", "dst", "sp", "rx", "m1", "stray"}
RegsAtStart == [r \in Registers |-> Sym(<<r>>)]

\* The pipe an instruction at v expects: its first word, and the one after.
Pipe(v) == [ir |-> Mem(v), ir_pc |-> v, irc |-> Mem(Plus(v, 2)), irc_pc |-> Plus(v, 2),
            pc |-> Plus(v, 4)]

-----------------------------------------------------------------------------
(***************************************************************************)
(* One microword.                                                          *)
(***************************************************************************)
uw == Micro[inst][label][upc]

\* A register is named by a field of whatever the latch holds now: read after
\* the latch has moved on, it is some other register.
Named(r, d) ==
  CASE r = "sp"                         -> "sp"
    [] r \in {"dx", "src", "dy", "dst"} -> IF d.ir = Mem(Stream(0)) THEN alias[r] ELSE "stray"
    [] r = "irc_x" -> IF d.irc = Mem(Stream(2)) THEN "rx" ELSE "stray"
    [] r = "xw_x"  -> IF d.xw = Mem(Stream(2)) THEN "rx" ELSE "stray"
    [] OTHER       -> IF d.xw = Mem(Stream(2)) /\ d.moved < Len(mask) THEN mask[d.moved + 1] ELSE "stray"

ByRegister == {"sp", "dx", "src", "dy", "dst", "irc_x", "xw_x", "next"}

ea_inc(w) == CASE w.aupd = "post6"            -> 6
               [] w.aupd \in {"post8", "pre8"} -> 8
               [] OTHER                       -> IF w.size = "long" THEN 4 ELSE 2
ea_base    == dp.regs[Named(uw.areg, dp)]
ea_used    == IF uw.aupd \in {"pre", "pre8"} THEN Plus(ea_base, -ea_inc(uw)) ELSE ea_base
ea_updated == CASE uw.aupd \in {"none", "latch"} -> ea_base
                [] uw.aupd \in {"pre", "pre8"}   -> ea_used
                [] OTHER                         -> Plus(ea_base, ea_inc(uw))

\* The address of w's bus cycle: d holds the registers, base the one w names.
address_of(w, d, base) ==
  LET ea == IF w.aupd = "pre" THEN Plus(base, -ea_inc(w)) ELSE base
  IN CASE w.asel = "pc"        -> d.pc
       [] w.asel = "pc_minus2" -> Plus(d.pc, -2)
       [] w.asel = "ea"        -> ea
       [] w.asel = "ea_plus2"  -> Plus(ea, 2)
       [] w.asel = "ea_plus4"  -> Plus(ea, 4)
       [] w.asel = "ea_plus6"  -> Plus(ea, 6)
       [] w.asel = "eal"       -> d.eal
       [] w.asel = "eal_plus2" -> Plus(d.eal, 2)
       [] w.asel = "eal_plus4" -> Plus(d.eal, 4)
       [] w.asel = "eal_plus6" -> Plus(d.eal, 6)
       [] w.asel = "t0_plus2"  -> Plus(d.t0, 2)
       [] w.asel = "t0_plus4"  -> Plus(d.t0, 4)
       [] w.asel = "t0_plus6"  -> Plus(d.t0, 6)
       [] w.asel = "t0_dec2"   -> Plus(d.t0, -2)
       [] OTHER                -> d.t0
own_address == address_of(uw, dp, ea_base)

rdata == Mem(asked)

Source(s) ==
  CASE s \in ByRegister                -> dp.regs[Named(s, dp)]
    [] s = "rdata"                     -> Word(rdata)
    [] s = "irc"                       -> Word(dp.irc)
    [] s = "irc_sx"                    -> Extend(Word(dp.irc))
    [] s = "cat"                       -> <<dp.irc, rdata, 0>>
    [] s = "pc_plus2"                  -> Plus(dp.pc, 2)
    [] s = "irc_pc_plus2"              -> Plus(dp.irc_pc, 2)
    [] s = "index"                     -> Sym(<<s, dp.irc>>)
    [] s \in {"ir_sxb", "quick", "cc"} -> Sym(<<s, dp.ir>>)
    [] s \in DOMAIN dp                  -> dp[s]
    [] OTHER                           -> Sym(<<s>>)

\* The ALU, and the sign extension of a word on its way to a long register.
y == LET v == IF uw.with = {} THEN Source(uw.src)
              ELSE Of({Source(s) : s \in {uw.src} \cup uw.with})
     IN IF uw.sx THEN Extend(v) ELSE v

dbuf_nxt == CASE uw.dst = "dbuf"     -> y
              [] uw.dst = "dbuf_shw" -> <<Lo(dp.dbuf), Lo(y), 0>>
              [] OTHER              -> dp.dbuf

\* What the write drives: the buffer as this very word leaves it.
req_wdata == IF uw.hi THEN Hi(dbuf_nxt) ELSE Lo(dbuf_nxt)

\* The ALU writes one register, sized; the address register has its own port.
wreg      == Named(IF uw.dst = "next_hiw" THEN "next" ELSE uw.dst, dp)
reg_we    == uw.dst \in ByRegister \cup {"next_hiw"}
wreg_val  == dp.regs[wreg]

\* Mutant: a word written to a register replaces all of it.
Unsized == IF uw.dst = "next_hiw" THEN <<Lo(y), Lo(wreg_val), 0>> ELSE y

reg_wdata == CASE uw.dst = "next_hiw" -> <<Lo(y), Lo(wreg_val), 0>>
               [] uw.dst # "next_hiw" /\ uw.size = "word" -> <<Hi(wreg_val), Lo(y), 0>>
               [] OTHER -> y
aupd_we   == uw.aupd \notin {"none", "latch"}

regs_nxt ==
  LET moved == IF aupd_we THEN [dp.regs EXCEPT ![Named(uw.areg, dp)] = ea_updated] ELSE dp.regs
  IN IF reg_we THEN [moved EXCEPT ![wreg] = reg_wdata] ELSE moved

t0_nxt == CASE uw.dst = "t0"       -> y
            [] uw.dst = "t0_shw"   -> <<Lo(dp.t0), Lo(y), 0>>
            [] uw.dst = "t0_hiw"   -> <<Lo(y), Lo(dp.t0), 0>>
            [] uw.asel = "t0_inc2" -> Plus(dp.t0, 2)
            [] uw.asel = "t0_dec2" -> Plus(dp.t0, -2)
            [] OTHER              -> dp.t0

t1_nxt == CASE uw.dst = "t1"     -> y
            [] uw.dst = "t1_shw" -> <<Lo(dp.t1), Lo(y), 0>>
            [] uw.dst = "t1_hiw" -> <<Lo(y), Lo(dp.t1), 0>>
            [] OTHER            -> dp.t1

ctl_nxt == IF uw.dst \in {"ctl", "sr"} THEN y ELSE dp.ctl

ea_latch_nxt == IF uw.aupd # "none" \/ (uw.bus # "none" /\ uw.asel = "ea") THEN ea_used ELSE dp.eal

pc_nxt == CASE uw.dst = "pc"   -> y
            [] uw.pf # "none"  -> Plus(dp.pc, 2)
            [] OTHER          -> dp.pc

dp_nxt ==
  [regs |-> regs_nxt, t0 |-> t0_nxt, t1 |-> t1_nxt, dbuf |-> dbuf_nxt, eal |-> ea_latch_nxt,
   ctl |-> ctl_nxt, pc |-> pc_nxt,
   unit   |-> IF uw.dst = "unit" THEN y ELSE dp.unit,
   ir     |-> IF uw.pf = "advfetch" THEN dp.irc ELSE dp.ir,
   ir_pc  |-> IF uw.pf = "advfetch" THEN dp.irc_pc ELSE dp.ir_pc,
   irc    |-> IF uw.pf # "none" THEN rdata ELSE dp.irc,
   irc_pc |-> IF uw.pf # "none" THEN dp.pc ELSE dp.irc_pc,
   xw     |-> IF uw.mop = "load" THEN dp.irc ELSE dp.xw,
   moved  |-> dp.moved + (IF uw.mop = "step" THEN 1 ELSE 0)]

\* Mutant: only what the ALU writes is bypassed.
AluBypass(r) == IF reg_we /\ wreg = r THEN reg_wdata ELSE dp.regs[r]

\* Register r as it will be after this edge, which the register file cannot say.
n_ea_base(r) == CASE reg_we /\ wreg = r -> reg_wdata
                  [] ~(reg_we /\ wreg = r) /\ aupd_we /\ Named(uw.areg, dp) = r -> ea_updated
                  [] OTHER -> dp.regs[r]

\* The address presented for w, the word that comes next, as this one commits.
n_addr(w) == address_of(w, dp_nxt, n_ea_base(Named(w.areg, dp_nxt)))

\* Where a word may go next: the list's end is known, other conditions are not.
Arms == IF uw.cond = "mask" THEN {uw.to[IF dp_nxt.moved = Len(mask) THEN 1 ELSE 2]}
        ELSE {uw.to[1], uw.to[2]}

Goto(l) == label' = l /\ upc' = 1 /\ path' = path \cup {l}

NoInst  == [op |-> "none", src |-> "none", dst |-> "none", size |-> "word"]
Running == inst # NoInst /\ label # "over"

\* A microword commits.
Step ==
  /\ Running
  /\ dp' = dp_nxt
  /\ reads'  = IF uw.bus \in {"read", "rmw"} THEN Append(reads, asked) ELSE reads
  /\ writes' = IF uw.bus \in {"write", "rmw"} THEN Append(writes, <<asked, req_wdata>>)
               ELSE writes
  /\ \/ uw.seq = "next"   /\ upc' = upc + 1 /\ UNCHANGED <<label, path>>
     \/ uw.seq = "goto"   /\ Goto(uw.to[1])
     \/ uw.seq = "decode" /\ Goto("over")
     \/ uw.seq = "cond"   /\ \E l \in Arms : Goto(l)
  /\ UNCHANGED <<inst, alias, mask, faults>>
  /\ asked' = IF label' = "over" THEN asked ELSE n_addr(uw')

\* A bus error: the word commits nothing, except that a word which loads the
\* data buffer has loaded it.  The frame keeps every register here but the
\* answer of the multiplier and the divider, which are not in it; RTE brings
\* the rest back and the word runs again.
LosesUnit   == "unit" \in {uw.src} \cup uw.with
LosesBuffer == uw.dst = "dbuf" /\ "dbuf" \in uw.with

\* Mutant: the frame has room for one temporary only.
OneTemporary ==
  /\ Running /\ uw.bus # "none" /\ faults < MaxFaults
  /\ UnitKept => ~LosesUnit
  /\ BufferKept => ~LosesBuffer
  /\ faults' = faults + 1
  /\ dp' = [dp EXCEPT !.unit = Sym(<<"lost">>), !.t1 = Sym(<<"lost">>),
                      !.dbuf = IF uw.dst = "dbuf" THEN y ELSE @]
  /\ asked' = own_address
  /\ UNCHANGED <<inst, label, upc, path, alias, mask, reads, writes>>

\* Mutant: the cycle of a write that faulted counts, and is run again.
WriteStands ==
  /\ Running /\ uw.bus # "none" /\ faults < MaxFaults
  /\ UnitKept => ~LosesUnit
  /\ BufferKept => ~LosesBuffer
  /\ faults' = faults + 1
  /\ dp' = [dp EXCEPT !.unit = Sym(<<"lost">>), !.dbuf = IF uw.dst = "dbuf" THEN y ELSE @]
  /\ asked' = own_address
  /\ writes' = IF uw.bus = "write" THEN Append(writes, <<asked, req_wdata>>) ELSE writes
  /\ UNCHANGED <<inst, label, upc, path, alias, mask, reads>>

Fault ==
  /\ Running
  /\ uw.bus # "none"
  /\ faults < MaxFaults
  /\ UnitKept   => ~LosesUnit
  /\ BufferKept => ~LosesBuffer
  /\ faults' = faults + 1
  /\ dp' = [dp EXCEPT !.unit = Sym(<<"lost">>), !.dbuf = IF uw.dst = "dbuf" THEN y ELSE @]
  /\ asked' = own_address
  /\ UNCHANGED <<inst, label, upc, path, alias, mask, reads, writes>>

-----------------------------------------------------------------------------
(***************************************************************************)
(* From one instruction to the next.                                       *)
(***************************************************************************)
Idle == [regs |-> RegsAtStart, t0 |-> Sym(<<"t0">>), t1 |-> Sym(<<"t1">>),
         dbuf |-> Sym(<<"dbuf">>), eal |-> Sym(<<"eal">>), ctl |-> Sym(<<"ctl">>),
         unit |-> Sym(<<"unit">>), xw |-> <<"xw">>, moved |-> 0,
         ir |-> Pipe(Stream(0)).ir, ir_pc |-> Stream(0), irc |-> Pipe(Stream(0)).irc,
         irc_pc |-> Stream(2), pc |-> Stream(4)]

\* The same register in both fields, and the stack pointer in either.
Apart    == [r \in {"dx", "src", "dy", "dst"} |-> r]
Aliases(i) ==
  {Apart, [Apart EXCEPT !["dy"] = "dx", !["dst"] = "src"]}
    \cup (IF i.op \in {"link", "unlk", "movem_in", "movem_out"} THEN {}
          ELSE {[Apart EXCEPT !["src"] = "sp"], [Apart EXCEPT !["dst"] = "sp"]})

\* The registers of a MOVEM's mask, among them the one that addresses it.
Masks(i) == IF i.op \in {"movem_in", "movem_out"}
            THEN {<<>>, <<"m1">>, <<"m1", "src">>, <<"dx", "m1", "src">>} ELSE {<<>>}

Init ==
  /\ inst = NoInst /\ label = "over" /\ upc = 1 /\ path = {} /\ alias = Apart /\ mask = <<>>
  /\ dp = Idle /\ asked = Stream(4) /\ reads = <<>> /\ writes = <<>> /\ faults = 0

\* What every register holds at a boundary is given its own name again.
Begin(i) ==
  /\ inst = NoInst
  /\ inst' = i /\ label' = "start" /\ upc' = 1 /\ path' = {"start"} /\ faults' = 0
  /\ \E a \in Aliases(i) : alias' = a
  /\ \E l \in Masks(i) : mask' = l
  /\ UNCHANGED <<dp, reads, writes>>
  /\ asked' = own_address'

End ==
  /\ inst # NoInst /\ label = "over"
  /\ inst' = NoInst /\ path' = {} /\ alias' = Apart /\ mask' = <<>>
  /\ reads' = <<>> /\ writes' = <<>>
  /\ dp' = Idle /\ asked' = Stream(4) /\ upc' = 1 /\ faults' = 0
  /\ UNCHANGED label

\* Decode: the guard of Begin, asked once and not for each instruction.
Decode == inst = NoInst /\ \E i \in Instrs : Begin(i)

Next == Decode \/ Step \/ Fault \/ End

Spec == Init /\ [][Next]_vars

=============================================================================
