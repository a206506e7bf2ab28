------------------------------ MODULE Instructions ------------------------------
(***************************************************************************)
(* The microcode of the instruction set, tools/ucode/program.py: for every *)
(* instruction family, addressing mode and operand size the words it runs. *)
(*                                                                         *)
(* A word names its source, the other sources it combines with it, its     *)
(* destination, its bus cycle with the address that uses and the address   *)
(* register that moves, what it does to the prefetch pipe, and where it    *)
(* goes.  What the ALU computes, condition codes and vector numbers are    *)
(* left out, and byte operands that behave like word ones.  The two arms   *)
(* of a conditional word, which only jump on, are folded into it.          *)
(*                                                                         *)
(* An operator returns the words of one routine, or a record of routines   *)
(* where an instruction has several: it begins at "start".                 *)
(***************************************************************************)
EXTENDS Sequences, Integers

blank == [src |-> "none", with |-> {}, dst |-> "none", sx |-> FALSE,
          bus |-> "none", asel |-> "none", areg |-> "src", aupd |-> "none",
          size |-> "word", hi |-> FALSE, pf |-> "none", mop |-> "none",
          lp |-> "none", seq |-> "next", cond |-> "any", to |-> <<>>]

alu(src, dst)         == [blank EXCEPT !.src = src, !.dst = dst]
long(x)               == [x EXCEPT !.size = "long"]
sized(x, sz)          == [x EXCEPT !.size = sz]
signed(x)             == [x EXCEPT !.sx = TRUE]
using(x, srcs)        == [x EXCEPT !.with = srcs]
through(x, r)         == [x EXCEPT !.areg = r]
access(x, bus, asel, aupd) == [x EXCEPT !.bus = bus, !.asel = asel, !.aupd = aupd]
highhalf(x)           == [x EXCEPT !.hi = TRUE]
FETCH(x)              == [x EXCEPT !.bus = "prog", !.asel = "pc", !.pf = "fetch"]
ADVFETCH(x)           == [x EXCEPT !.bus = "prog", !.asel = "pc", !.pf = "advfetch"]
DECODE(x)             == [x EXCEPT !.seq = "decode"]
jump(x, l)            == [x EXCEPT !.seq = "goto", !.to = <<l>>]
test(x, c, no, yes)   == [x EXCEPT !.seq = "cond", !.cond = c, !.to = <<no, yes>>]
latched(x)            == [x EXCEPT !.mop = "load"]
looping(x, l)         == [x EXCEPT !.lp = l]

\* The microword most instructions end with, the whole of the shortest ones.
finish(x)   == DECODE(ADVFETCH(x))
branch_refill == << FETCH(blank), finish(blank) >>

\* Mutant: the second word of an absolute long destination is not replaced.
RefillOnce(double) == <<finish(blank)>>

final_prefetch(double) ==
  (IF double THEN <<FETCH(blank)>> ELSE <<>>) \o <<finish(blank)>>

refill_from(src) == <<alu(src, "pc")>> \o branch_refill

only(code) == [start |-> code]

\* The supervisor check in front of a privileged instruction.
privileged(code) == [start |-> <<test(blank, "super", "priv_violation", "body")>>,
                     body  |-> code]

-----------------------------------------------------------------------------
(***************************************************************************)
(* Addressing modes.                                                       *)
(***************************************************************************)
IND       == {"aind", "apost", "apre"}
INDEXED   == {"aidx", "pcidx"}
MEM_ALT   == IND \cup {"adisp", "aidx", "absw", "absl"}
DATA_ALT  == {"dn"} \cup MEM_ALT
DATA_ALL  == DATA_ALT \cup {"pcdisp", "pcidx", "imm"}
ALL_MODES == {"an"} \cup DATA_ALL
CONTROL   == {"aind", "adisp", "aidx", "absw", "absl", "pcdisp", "pcidx"}
REGISTER  == {"dn", "an"}
SIZES     == {"word", "long"}

\* Registers named by the opcode: bits 2:0 give dx or src, 11:9 dy or dst.
reg(m) == IF m = "an" THEN "src" ELSE "dx"

\* The sum an address starts from; an index takes a second step.
address(m, r) ==
  CASE m \in {"adisp", "aidx"}   -> using(alu(r, "t0"), {"irc"})
    [] m \in {"pcdisp", "pcidx"} -> using(alu("irc_pc", "t0"), {"irc"})
    [] m = "absw"                -> alu("irc_sx", "t0")
    [] OTHER                     -> alu("cat", "t0")

index == using(alu("t0", "t0"), {"index"})

ea_setup(m, r, is_source) ==
  CASE m \in IND     -> <<>>
    [] m \in INDEXED -> << address(m, r), index, FETCH(blank) >>
    [] m = "absl"    -> <<FETCH(address(m, r))>>
                          \o (IF is_source THEN <<FETCH(blank)>> ELSE <<>>)
    [] OTHER         -> <<FETCH(address(m, r))>>

\* JMP and JSR leave the stream: the extension word stays in irc, and only the
\* low half of an absolute long has to be read.
ea_setup_nopf(m) ==
  CASE m = "aind"    -> <<>>
    [] m \in INDEXED -> << address(m, "src"), index >>
    [] m = "absl"    -> <<access(address(m, "src"), "prog", "pc", "none")>>
    [] OTHER         -> <<address(m, "src")>>

jump_return_src(m) ==
  CASE m = "aind" -> alu("irc_pc", "dbuf")
    [] m = "absl" -> alu("pc_plus2", "dbuf")
    [] OTHER      -> alu("pc", "dbuf")

ea_asel(m, second) == CASE m \in IND /\ second     -> "ea_plus2"
                        [] m \in IND /\ ~second    -> "ea"
                        [] m \notin IND /\ second  -> "t0_plus2"
                        [] OTHER                   -> "t0"

\* A pre-decrement rides the first access, a post-increment the last; (An)
\* only keeps its address for a write after the prefetch.
\* Mutant: the register moves on each access of a long operand.
MovedTwice(m, sz, second) ==
  CASE m = "aind"  -> IF second THEN "none" ELSE "latch"
    [] m = "apost" -> IF sz = "long" /\ ~second THEN "none" ELSE "post"
    [] m = "apre"  -> "pre"
    [] OTHER       -> "none"

ea_aupd(m, sz, second) ==
  CASE m = "aind"  -> IF second THEN "none" ELSE "latch"
    [] m = "apost" -> IF sz = "long" /\ ~second THEN "none" ELSE "post"
    [] m = "apre"  -> IF second THEN "none" ELSE "pre"
    [] OTHER       -> "none"

\* One access of an operand at mode m, the second of a long one if second.
reach(x, bus, m, sz, second) ==
  sized(access(x, bus, ea_asel(m, second), ea_aupd(m, sz, second)), sz)

\* Read an operand into t1 once its address is there.
fetched(m, sz) ==
  <<reach(alu("rdata", "t1"), "read", m, sz, FALSE)>>
    \o (IF sz = "long" THEN <<reach(alu("rdata", "t1_shw"), "read", m, sz, TRUE)>>
        ELSE <<>>)

\* Leave the immediate in t1 or dbuf.
imm_fetch(sz, dest) ==
  IF sz = "long"
  THEN <<FETCH(alu("irc", dest)), FETCH(alu("irc", IF dest = "t1" THEN "t1_shw" ELSE "dbuf_shw"))>>
  ELSE <<FETCH(alu("irc", dest))>>

move_src_fetch(m, sz) ==
  IF m = "imm" THEN imm_fetch(sz, "t1")
  ELSE ea_setup(m, "src", TRUE) \o fetched(m, sz)

ea_read_operand(m, sz) ==
  IF m \in REGISTER THEN <<alu(reg(m), "t1")>> ELSE move_src_fetch(m, sz)

\* The buffered result, back to where the operand came from: the low word of a
\* long first.
rmw_store(m, sz) ==
  LET at   == IF m \in IND THEN "eal" ELSE "t0"
      plus == IF m \in IND THEN "eal_plus2" ELSE "t0_plus2"
  IN IF sz = "long"
     THEN << access(blank, "write", plus, "none"),
             DECODE(highhalf(access(blank, "write", at, "none"))) >>
     ELSE <<DECODE(access(blank, "write", at, "none"))>>

\* A store that comes before the prefetch: the high word of a long first.
store(x, m, sz) ==
  IF sz = "long"
  THEN << highhalf(reach(x, "write", m, sz, FALSE)),
          through(reach(blank, "write", m, sz, TRUE), x.areg) >>
  ELSE <<reach(x, "write", m, sz, FALSE)>>

\* Two words onto the stack, the low one above the high one.
push(x) == << highhalf(long(through(access(x, "write", "ea", "pre"), "sp"))),
              access(blank, "write", "eal_plus2", "none") >>

-----------------------------------------------------------------------------
(***************************************************************************)
(* MOVE and its relatives.                                                 *)
(***************************************************************************)
nop   == <<finish(blank)>>
moveq == <<finish(long(alu("ir_sxb", "dy")))>>

move_reg_to_reg(m, sz) == <<finish(sized(alu(reg(m), "dy"), sz))>>

\* MOVE to -(An) prefetches first: the address has to wait in the latch.
move_pre_dec_store(src, sz) ==
  <<sized(through([ADVFETCH(alu(src, "dbuf")) EXCEPT !.aupd = "pre"], "dst"), sz)>>
    \o rmw_store("apre", sz)

move_dst_store(m, sz) ==
  ea_setup(m, "dst", FALSE) \o store(through(alu("t1", "dbuf"), "dst"), m, sz)

move_full(m, d, sz) ==
  IF m \in REGISTER
  THEN IF d = "apre" THEN move_pre_dec_store(reg(m), sz)
       ELSE ea_setup(d, "dst", FALSE) \o (IF d = "absl" THEN <<FETCH(blank)>> ELSE <<>>)
              \o store(through(alu(reg(m), "dbuf"), "dst"), d, sz) \o final_prefetch(FALSE)
  ELSE move_src_fetch(m, sz) \o
       CASE d = "apre" -> move_pre_dec_store("t1", sz)
         [] d = "dn"   -> <<finish(sized(alu("t1", "dy"), sz))>>
         [] OTHER      -> move_dst_store(d, sz) \o final_prefetch(d = "absl")

movea(m, sz) ==
  LET x == [long(alu(IF m \in REGISTER THEN reg(m) ELSE "t1", "dst"))
              EXCEPT !.sx = (sz = "word")]
  IN IF m \in REGISTER THEN <<finish(x)>> ELSE move_src_fetch(m, sz) \o <<finish(x)>>

tst(m, sz) ==
  IF m = "dn" THEN <<finish(alu("dx", "none"))>>
  ELSE move_src_fetch(m, sz) \o <<finish(alu("t1", "none"))>>

(***************************************************************************)
(* Operations on an operand: read, prefetch, write back.                   *)
(***************************************************************************)
\* The operation x on a register, or on t1 with the result to its address.
combine(x, m, sz) ==
  IF m = "dn" THEN <<finish(sized(using(alu("dx", "dx"), x.with), sz))>>
  ELSE move_src_fetch(m, sz)
         \o <<ADVFETCH(using(alu("t1", "dbuf"), x.with))>> \o rmw_store(m, sz)

rmw_group(m, sz) == combine(using(blank, {"zero"}), m, sz)

\* Mutant: CLR keeps no address for the write after its prefetch.
ClearUnlatched(m, sz) ==
  IF m = "dn" THEN <<finish(sized(alu("zero", "dx"), sz))>>
  ELSE ea_setup(m, "src", TRUE)
         \o <<sized([ADVFETCH(alu("zero", "dbuf")) EXCEPT !.aupd =
                CASE m = "apost" -> "post" [] m = "apre" -> "pre" [] OTHER -> "none"], sz)>>
         \o rmw_store(m, sz)

clr(m, sz) ==
  IF m = "dn" THEN <<finish(sized(alu("zero", "dx"), sz))>>
  ELSE ea_setup(m, "src", TRUE)
         \o <<sized([ADVFETCH(alu("zero", "dbuf")) EXCEPT !.aupd =
                CASE m = "aind" -> "latch" [] m = "apost" -> "post"
                  [] m = "apre" -> "pre"   [] OTHER -> "none"], sz)>>
         \o rmw_store(m, sz)

alu_ea_to_dn(m, sz) ==
  IF m \in REGISTER THEN <<finish(sized(using(alu(reg(m), "dy"), {"dy"}), sz))>>
  ELSE move_src_fetch(m, sz) \o <<finish(sized(using(alu("t1", "dy"), {"dy"}), sz))>>

alu_dn_to_ea(m, sz) == combine(using(blank, {"dy"}), m, sz)

cmp_and_eor(op, m, sz) ==
  CASE op = "eor"                    -> combine(using(blank, {"dy"}), m, sz)
    [] op = "cmp" /\ m \in REGISTER  -> <<finish(using(alu(reg(m), "none"), {"dy"}))>>
    [] OTHER -> move_src_fetch(m, sz) \o <<finish(using(alu("t1", "none"), {"dy"}))>>

\* An address register operand is always thirty-two bits.
addr_forms(op, m, sz) ==
  LET wide == [long(alu(IF m \in REGISTER THEN reg(m) ELSE "t1", "t1"))
                 EXCEPT !.sx = (sz = "word")]
  IN (CASE m \in REGISTER                    -> <<wide>>
        [] m \notin REGISTER /\ sz = "word"  -> move_src_fetch(m, sz) \o <<wide>>
        [] OTHER                             -> move_src_fetch(m, sz))
       \o <<finish(long(using(alu("t1", IF op = "cmpa" THEN "none" ELSE "dst"), {"dst"})))>>

\* The immediate waits in the data buffer while the operand is read.
imm_group(op, m, sz) ==
  imm_fetch(sz, "dbuf") \o
  IF op = "addi" THEN combine(using(blank, {"dbuf"}), m, sz)
  ELSE (IF m = "dn" THEN <<>> ELSE move_src_fetch(m, sz))
         \o <<finish(using(alu(IF m = "dn" THEN "dx" ELSE "t1", "none"), {"dbuf"}))>>

addq_subq(m, sz) ==
  IF m = "an" THEN <<finish(long(using(alu("src", "src"), {"quick"})))>>
  ELSE combine(using(blank, {"quick"}), m, sz)

ext_swap(sz) == <<finish(sized(using(alu("dx", "dx"), {"zero"}), sz))>>

lea_pea(op, m) ==
  LET addr == IF m = "aind" THEN "src" ELSE "t0"
  IN ea_setup(m, "src", TRUE) \o
     CASE op = "lea" -> <<finish(long(alu(addr, "dst")))>>
       [] op = "pea" /\ m \in {"absw", "absl"} ->
            push(alu(addr, "dbuf")) \o final_prefetch(FALSE)
       [] OTHER -> << ADVFETCH(alu(addr, "dbuf")), push(blank)[1], DECODE(push(blank)[2]) >>

shifts(m, sz) == combine(using(blank, {"zero"}), m, IF m = "dn" THEN sz ELSE "word")

\* The bit number, from a register or from an extension word it has to outlive.
bit_ops(op, form, m) ==
  LET sz   == IF m = "dn" THEN "long" ELSE "word"
      bit  == IF form = "imm" THEN "dbuf" ELSE "dy"
  IN (IF form = "imm" THEN <<FETCH(alu("irc", "dbuf"))>> ELSE <<>>) \o
     IF op = "bchg" THEN combine(using(blank, {bit}), m, sz)
     ELSE (IF m = "dn" THEN <<>> ELSE move_src_fetch(m, sz))
            \o <<finish(using(alu(IF m = "dn" THEN "dx" ELSE "t1", "none"), {bit}))>>

\* The operand is read and not used; the result comes from somewhere else.
replace(src, m) ==
  IF m = "dn" THEN <<finish(alu(src, "dx"))>>
  ELSE move_src_fetch(m, "word") \o <<ADVFETCH(alu(src, "dbuf"))>> \o rmw_store(m, "word")

scc(m)      == replace("scc", m)
negx(m, sz) == combine(using(blank, {"zero"}), m, sz)

\* The indivisible cycle reads, sets the bit and writes in one word.
tas(m) ==
  IF m = "dn" THEN <<finish(using(alu("dx", "dx"), {"zero"}))>>
  ELSE ea_setup(m, "src", TRUE)
         \o <<access(using(alu("rdata", "dbuf"), {"zero"}), "rmw", ea_asel(m, FALSE),
                     ea_aupd(m, "word", FALSE))>> \o final_prefetch(FALSE)

-----------------------------------------------------------------------------
(***************************************************************************)
(* Branches and returns.                                                   *)
(***************************************************************************)
\* The displacement is in the opcode or in irc, its base always irc_pc.
branch_target(sz) == using(alu("irc_pc", "t0"), {IF sz = "long" THEN "irc" ELSE "ir_sxb"})

bra(sz) == only(<<branch_target(sz), jump(alu("t0", "pc"), "branch_refill")>>)

bcc(sz) ==
  [start |-> <<test(branch_target(sz), "cc", "fall", "take")>>,
   fall  |-> final_prefetch(sz = "long"),
   take  |-> refill_from("t0")]

count == sized(using(alu("dx", "dx"), {"one"}), "word")

dbcc ==
  [start |-> <<test(blank, "cc", "count", "fall")>>,
   count |-> <<test(count, "cnt", "take", "fall")>>,
   fall  |-> final_prefetch(TRUE),
   take  |-> << looping(using(alu("irc_pc", "t0"), {"irc"}), "chk"), alu("t0", "pc"),
                FETCH(blank), looping(finish(blank), "enter") >>]

\* The DBcc of a loop that is running.
dbcc_loop ==
  [start |-> <<test(blank, "cc", "count", "exit")>>,
   count |-> <<test(count, "cnt", "again", "exit")>>,
   again |-> <<DECODE(alu("none", "loopback"))>>,
   exit  |-> <<jump(looping(alu("pc_plus2", "pc"), "exit"), "fall")>>,
   fall  |-> dbcc.fall]

bsr(sz) ==
  << branch_target(sz),
     long(through([alu(IF sz = "long" THEN "irc_pc_plus2" ELSE "irc_pc", "dbuf")
                     EXCEPT !.aupd = "pre"], "sp")),
     highhalf(access(blank, "write", "eal", "none")),
     access(blank, "write", "eal_plus2", "none") >> \o refill_from("t0")

jmp_jsr(op, m) ==
  LET target == alu(IF m = "aind" THEN "src" ELSE "t0", "pc")
  IN ea_setup_nopf(m) \o
     IF op = "jmp" THEN <<target>> \o branch_refill
     ELSE << jump_return_src(m), target, FETCH(blank) >> \o push(blank) \o <<finish(blank)>>

\* Pop a long word into t1, from n above the stack pointer.
pop(plus, plus2, upd) ==
  << through(access(alu("rdata", "t1"), "read", plus, "none"), "sp"),
     long(through(access(alu("rdata", "t1_shw"), "read", plus2, upd), "sp")) >>

rts_rtr(op) ==
  (IF op = "rts" THEN pop("ea", "ea_plus2", "post")
   ELSE <<through(access(alu("rdata", "ctl"), "read", "ea", "none"), "sp")>>
          \o pop("ea_plus2", "ea_plus4", "post6")) \o refill_from("t1")

rtd == pop("ea", "ea_plus2", "post")
         \o <<long(using(alu("sp", "sp"), {"irc_sx"}))>> \o refill_from("t1")

link_unlk(op) ==
  IF op = "link"
  THEN <<FETCH(alu("irc_sx", "t1"))>>
         \o << push(alu("src", "dbuf"))[1],
               access(long(alu("eal", "src")), "write", "eal_plus2", "none"),
               finish(long(using(alu("eal", "sp"), {"t1"}))) >>
  ELSE << access(alu("rdata", "t1"), "read", "ea", "none"),
          long(access(alu("rdata", "t1_shw"), "read", "ea_plus2", "post")),
          long(alu("src", "sp")), finish(long(alu("t1", "src"))) >>

-----------------------------------------------------------------------------
(***************************************************************************)
(* Exceptions, and the instructions that raise them.                       *)
(***************************************************************************)
raise_exception(pc_src) ==
  << using(alu("vbr", "t0"), {"vec"}), alu(pc_src, "t1"),
     jump(alu("fmtvec", "dbuf"), "except") >>

exception_tail ==
  << alu("none", "sr_exc"),
     long(through([blank EXCEPT !.aupd = "pre8"], "sp")),
     access(blank, "write", "eal_plus6", "none"),
     access(alu("t1", "dbuf"), "write", "eal_plus4", "none"),
     highhalf(access(blank, "write", "eal_plus2", "none")),
     access(alu("srsave", "dbuf"), "write", "eal", "none"),
     access(alu("rdata", "t1"), "read", "t0", "none"),
     access(alu("rdata", "t1_shw"), "read", "t0_plus2", "none") >> \o refill_from("t1")

traps(op) ==
  CASE op = "illegal" -> only(<<jump(blank, "illegal_exc")>>)
    [] op = "trap"    -> only(raise_exception("irc_pc"))
    [] OTHER          -> [start |-> <<test(blank, "v", "fall", "take")>>,
                          fall  |-> final_prefetch(FALSE),
                          take  |-> raise_exception("irc_pc")]

\* The exceptions of an instruction that was refused, and of one that ran.
Raised == [branch_refill  |-> branch_refill,
           priv_violation |-> raise_exception("ir_pc"),
           illegal_exc    |-> raise_exception("ir_pc"),
           format_error   |-> raise_exception("ir_pc"),
           chk_trap       |-> raise_exception("irc_pc"),
           div_by_zero    |-> raise_exception("irc_pc"),
           except         |-> exception_tail]

\* RTE of the four-word frame: nothing moves before the format has been read.
rte ==
  [start |-> <<test(blank, "super", "priv_violation", "body")>>,
   body  |-> <<through(access(alu("rdata", "t0"), "read", "ea", "none"), "sp")>>
               \o pop("ea_plus2", "ea_plus4", "none")
               \o <<test(through(access(blank, "read", "ea_plus6", "none"), "sp"),
                         "fmt0", "format_error", "ok")>>,
   ok    |-> << long(through([blank EXCEPT !.aupd = "post8"], "sp")),
                alu("t0", "sr") >> \o refill_from("t1")]

chk(m) ==
  [start |-> ea_read_operand(m, "word")
               \o <<test(using(alu("zero", "none"), {"dy"}), "n", "upper", "chk_trap")>>,
   upper |-> <<test(using(alu("dy", "none"), {"t1"}), "above", "ok", "chk_trap")>>,
   ok    |-> final_prefetch(FALSE)]

\* The acknowledge ends as it will, and an exception follows.
bkpt == only(<< alu("zero", "t0"), access(blank, "bkpt", "t0", "none"),
                jump(blank, "illegal_exc") >>)

-----------------------------------------------------------------------------
(***************************************************************************)
(* The status register, control registers and other address spaces.        *)
(***************************************************************************)
\* A new status register may be a new mode: irc's word is read again in it.
sr_refetch == <<access(blank, "prog", "pc_minus2", "none")>>

sr_instructions(op, m) ==
  LET set == ea_read_operand(m, "word") \o <<alu("t1", "ctl")>>
               \o sr_refetch \o final_prefetch(FALSE)
  IN CASE op = "movefromsr"  -> privileged(replace("ctl", m))
       [] op = "movefromccr" -> only(replace("ctl", m))
       [] op = "movetosr"    -> privileged(set)
       [] OTHER              -> only(set)

sr_immediates(op) ==
  LET set == <<FETCH(using(alu("irc", "ctl"), {"ctl"}))>>
               \o sr_refetch \o final_prefetch(FALSE)
  IN IF op = "ori_to_sr" THEN privileged(set) ELSE only(set)

move_usp(op) ==
  privileged(<<finish(long(IF op = "move_to_usp" THEN alu("src", "ctl")
                           ELSE alu("ctl", "src")))>>)

\* RESET; a STOP waits in the microengine's own module.
reset_stop == [start |-> <<test(blank, "super", "priv_violation", "body")>>,
               body  |-> <<jump(blank, "wait")>>,
               wait  |-> <<test(blank, "busy", "finished", "wait")>>,
               finished |-> final_prefetch(FALSE)]

\* The register number is in irc, which is why the transfer comes first.
movec(op) ==
  [start |-> <<test(blank, "super", "priv_violation", "body")>>,
   body  |-> <<test(blank, "crvalid", "illegal_exc", "go")>>,
   go    |-> << FETCH(long(IF op = "movec_in" THEN alu("irc_x", "ctl")
                           ELSE alu("ctl", "irc_x"))), finish(blank) >>]

moves(m, sz) ==
  [start |-> <<test(blank, "super", "priv_violation", "body")>>,
   body  |-> <<test(latched(FETCH(blank)), "xwdr", "in", "out")>>,
   in    |-> ea_setup(m, "src", TRUE) \o fetched(m, sz)
               \o <<finish(sized(alu("t1", "xw_x"), sz))>>,
   out   |-> ea_setup(m, "src", TRUE) \o store(alu("xw_x", "dbuf"), m, sz)
               \o final_prefetch(FALSE)]

-----------------------------------------------------------------------------
(***************************************************************************)
(* Two registers, two memory operands, multiply and divide.                *)
(***************************************************************************)
exg(form) ==
  LET x == IF form = "aa" THEN "dst" ELSE "dy"
      y == IF form = "dd" THEN "dx"  ELSE "src"
  IN << long(alu(x, "t1")), long(alu(y, x)), finish(long(alu("t1", y))) >>

\* A pre-decremented operand, the low word of a long first.
xmem_read(sz, r, lo, hi) ==
  IF sz = "long"
  THEN << long(through(access(alu("rdata", lo), "read", "ea_plus2", "pre"), r)),
          access(alu("rdata", hi), "read", "eal", "none") >>
  ELSE <<through(access(alu("rdata", lo), "read", "ea", "pre"), r)>>

addx_subx(form, sz) ==
  IF form = "reg" THEN <<finish(sized(using(alu("dx", "dy"), {"dy"}), sz))>>
  ELSE LET sum == using(alu("t1", "dbuf"), {"t0"})
       IN xmem_read(sz, "src", "t1", "t1_hiw") \o xmem_read(sz, "dst", "t0", "t0_hiw") \o
          IF sz = "long"
          THEN << access(sum, "write", "eal_plus2", "none"), ADVFETCH(blank),
                  DECODE(highhalf(access(blank, "write", "eal", "none"))) >>
          ELSE << ADVFETCH(sum), DECODE(access(blank, "write", "eal", "none")) >>

bcd(op, m) == IF op = "nbcd" THEN combine(using(blank, {"zero"}), m, "word")
              ELSE addx_subx(m, "word")

cmpm(sz) ==
  LET operand(r, t, tshw) ==
        IF sz = "long"
        THEN << through(access(alu("rdata", t), "read", "ea", "none"), r),
                long(through(access(alu("rdata", tshw), "read", "ea_plus2", "post"), r)) >>
        ELSE <<through(access(alu("rdata", t), "read", "ea", "post"), r)>>
  IN operand("src", "t1", "t1_shw") \o operand("dst", "t0", "t0_shw")
       \o <<finish(using(alu("t1", "none"), {"t0"}))>>

multiply(m) ==
  (IF m = "dn" THEN <<using(alu("dx", "unit"), {"dy"})>>
   ELSE move_src_fetch(m, "word") \o <<using(alu("t1", "unit"), {"dy"})>>)
    \o <<finish(long(alu("unit", "dy")))>>

divide(m) ==
  [start |-> ea_read_operand(m, "word")
               \o <<test(alu("t1", "none"), "zero", "go", "div_by_zero")>>,
   go    |-> <<jump(using(alu("t1", "unit"), {"dy"}), "wait")>>,
   wait  |-> <<test(blank, "busy", "finished", "wait")>>,
   finished |-> <<test(blank, "divv", "ok", "ovf")>>,
   ok    |-> <<finish(long(alu("unit", "dy")))>>,
   ovf   |-> <<finish(blank)>>]

-----------------------------------------------------------------------------
(***************************************************************************)
(* Many transfers: MOVEP's bytes and MOVEM's list.                         *)
(***************************************************************************)
movep(op, sz) ==
  LET n     == IF sz = "word" THEN 2 ELSE 4
      steps == <<"t0", "t0_plus2", "t0_plus4", "t0_plus6">>
      bytes == <<"byte1", "byte2", "byte3", "byte4">>
  IN <<FETCH(using(alu("src", "t0"), {"irc"}))>> \o
     IF op = "movep_out"
     THEN [k \in 1..n |-> access(using(alu("dy", "dbuf"), {bytes[k]}),
                                 "write", steps[k], "none")] \o final_prefetch(FALSE)
     ELSE [k \in 1..n |-> access(using(alu("rdata", "t1"), IF k = 1 THEN {} ELSE {"t1"}),
                                 "read", steps[k], "none")]
            \o <<finish(sized(alu("t1", "dy"), sz))>>

MOVEM_TO_MEM == {"aind", "apre", "adisp", "aidx", "absw", "absl"}
MOVEM_TO_REG == {"aind", "apost", "adisp", "aidx", "absw", "absl", "pcdisp", "pcidx"}

\* The test that ends the list rides the last transfer of each register.
movem(op, m, sz) ==
  LET out     == op = "movem_out"
      down    == m = "apre"
      one(x)  == access(x, IF out THEN "write" ELSE "read",
                        IF down THEN "t0_dec2" ELSE "t0_inc2", "none")
      step(x) == test([x EXCEPT !.mop = "step"], "mask", "end", "loop")
      setup   == IF m \in IND THEN <<latched(FETCH(alu("src", "t0")))>>
                 ELSE <<latched(FETCH(blank))>> \o ea_setup(m, "src", TRUE)
      last    == Len(setup)
      write   == one(alu("next", "dbuf"))
      done    == finish(IF m \in {"apost", "apre"} THEN long(alu("t0", "src")) ELSE blank)
  IN [start |-> [setup EXCEPT ![last] = test(setup[last], "mask", "end", "loop")],
      end   |-> IF out THEN <<done>>
                ELSE <<jump(access(blank, "read", "t0", "none"), "tail")>>,
      loop  |->
        CASE out /\ sz = "word"          -> <<step(write)>>
          [] out /\ sz = "long" /\ down  -> << write, step(highhalf(write)) >>
          [] out /\ sz = "long" /\ ~down -> << highhalf(write), step(write) >>
          [] ~out /\ sz = "word" -> <<step(one(signed(long(alu("rdata", "next")))))>>
          [] ~out /\ sz = "long" -> << one(alu("rdata", "next_hiw")),
                                       step(one(alu("rdata", "next"))) >>,
      tail  |-> <<done>>]

-----------------------------------------------------------------------------
(***************************************************************************)
(* The instruction set: what build() puts into the control store.          *)
(***************************************************************************)
encoded(ops, srcs, dsts, sizes) ==
  [op : ops, src : srcs, dst : dsts, size : sizes]

plain(ops)            == encoded(ops, {"none"}, {"none"}, {"word"})
over(ops, ms, sizes)  == encoded(ops, ms, {"none"}, sizes)

Moves      == encoded({"move"}, ALL_MODES, {"dn"} \cup MEM_ALT, SIZES)
                \cup over({"movea"}, ALL_MODES, SIZES)
OneOperand == over({"tst", "neg", "negx", "clr"}, DATA_ALT, SIZES)
                \cup over({"scc", "tas", "nbcd", "bchg", "bchgi", "btst", "movefromsr",
                           "movefromccr"}, DATA_ALT, {"word"})
                \cup over({"shift"}, {"dn"}, SIZES) \cup over({"shift"}, MEM_ALT, {"word"})
                \cup over({"ext"}, {"dn"}, SIZES)
TwoOperand == over({"add_dn", "cmp", "adda", "cmpa"}, ALL_MODES, SIZES)
                \cup over({"add_ea"}, MEM_ALT, SIZES)
                \cup over({"eor", "addi", "cmpi"}, DATA_ALT, SIZES)
                \cup over({"addq"}, {"an"} \cup DATA_ALT, SIZES)
                \cup over({"chk", "mulu", "divu", "movetosr", "movetoccr"}, DATA_ALL, {"word"})
                \cup over({"addx"}, {"reg", "mem"}, SIZES) \cup over({"cmpm"}, {"mem"}, SIZES)
                \cup over({"abcd"}, {"reg", "mem"}, {"word"})
                \cup over({"exg"}, {"dd", "aa", "da"}, {"long"})
Flow       == over({"bra", "bcc", "bsr"}, {"none"}, SIZES)
                \cup over({"jmp", "jsr"}, CONTROL, {"word"})
                \cup plain({"dbcc", "rts", "rtr", "rtd", "rte", "link", "unlk", "trap", "trapv",
                            "illegal", "bkpt", "reset_i"})
Transfers  == over({"lea", "pea"}, CONTROL, {"long"})
                \cup over({"movep_in", "movep_out"}, {"none"}, SIZES)
                \cup over({"movem_out"}, MOVEM_TO_MEM, SIZES)
                \cup over({"movem_in"}, MOVEM_TO_REG, SIZES)
                \cup over({"moves"}, MEM_ALT, SIZES)
                \cup plain({"nop", "moveq", "move_to_usp", "move_from_usp", "movec_in",
                            "movec_out", "ori_to_sr", "ori_to_ccr"})
InstructionSet == Moves \cup OneOperand \cup TwoOperand \cup Flow \cup Transfers

\* Routines with parts of their own, and routines that are one sequence.
routine(i) ==
  CASE i.op = "bra"  -> bra(i.size)   [] i.op = "bcc"  -> bcc(i.size)
    [] i.op = "dbcc" -> dbcc          [] i.op = "chk"  -> chk(i.src)
    [] i.op = "divu" -> divide(i.src) [] i.op = "rte"  -> rte
    [] i.op = "bkpt" -> bkpt          [] i.op = "reset_i" -> reset_stop
    [] i.op = "moves" -> moves(i.src, i.size)
    [] i.op \in {"trap", "trapv", "illegal"}       -> traps(i.op)
    [] i.op \in {"movem_in", "movem_out"}          -> movem(i.op, i.src, i.size)
    [] i.op \in {"move_to_usp", "move_from_usp"}   -> move_usp(i.op)
    [] i.op \in {"movec_in", "movec_out"}          -> movec(i.op)
    [] i.op \in {"ori_to_sr", "ori_to_ccr"}        -> sr_immediates(i.op)
    [] OTHER -> sr_instructions(i.op, i.src)

sequence(i) ==
  CASE i.op = "nop" -> nop            [] i.op = "moveq" -> moveq
    [] i.op = "move" /\ i.src \in REGISTER /\ i.dst = "dn" -> move_reg_to_reg(i.src, i.size)
    [] i.op = "move" /\ ~(i.src \in REGISTER /\ i.dst = "dn") ->
         move_full(i.src, i.dst, i.size)
    [] i.op = "movea"  -> movea(i.src, i.size)     [] i.op = "tst"    -> tst(i.src, i.size)
    [] i.op = "neg"    -> rmw_group(i.src, i.size) [] i.op = "negx"   -> negx(i.src, i.size)
    [] i.op = "clr"    -> clr(i.src, i.size)       [] i.op = "scc"    -> scc(i.src)
    [] i.op = "tas"    -> tas(i.src)               [] i.op = "shift"  -> shifts(i.src, i.size)
    [] i.op = "bchg"   -> bit_ops("bchg", "reg", i.src)
    [] i.op = "bchgi"  -> bit_ops("bchg", "imm", i.src)
    [] i.op = "btst"   -> bit_ops("btst", "imm", i.src)
    [] i.op = "ext"    -> ext_swap(i.size)
    [] i.op = "add_dn" -> alu_ea_to_dn(i.src, i.size)
    [] i.op = "add_ea" -> alu_dn_to_ea(i.src, i.size)
    [] i.op \in {"cmp", "eor"}   -> cmp_and_eor(i.op, i.src, i.size)
    [] i.op \in {"adda", "cmpa"} -> addr_forms(i.op, i.src, i.size)
    [] i.op \in {"addi", "cmpi"} -> imm_group(i.op, i.src, i.size)
    [] i.op = "addq"   -> addq_subq(i.src, i.size)
    [] i.op = "addx"   -> addx_subx(i.src, i.size) [] i.op = "cmpm"   -> cmpm(i.size)
    [] i.op \in {"abcd", "nbcd"} -> bcd(i.op, i.src)
    [] i.op = "exg"    -> exg(i.src)               [] i.op = "mulu"   -> multiply(i.src)
    [] i.op = "bsr"    -> bsr(i.size)
    [] i.op \in {"jmp", "jsr"}   -> jmp_jsr(i.op, i.src)
    [] i.op \in {"rts", "rtr"}   -> rts_rtr(i.op)  [] i.op = "rtd"    -> rtd
    [] i.op \in {"link", "unlk"} -> link_unlk(i.op)
    [] i.op \in {"lea", "pea"}   -> lea_pea(i.op, i.src)
    [] OTHER -> movep(i.op, i.size)

InParts == {"bra", "bcc", "dbcc", "chk", "divu", "rte", "bkpt", "reset_i", "moves", "trap",
            "trapv", "illegal", "movem_in", "movem_out", "move_to_usp", "move_from_usp",
            "movec_in", "movec_out", "ori_to_sr", "ori_to_ccr", "movefromsr", "movefromccr",
            "movetosr", "movetoccr"}

code(i) == IF i.op \in InParts THEN routine(i) ELSE only(sequence(i))

\* The words at each label: the instruction's own, and of the parts they share.
ControlStore ==
  LET with(parts) == [l \in DOMAIN parts \cup DOMAIN Raised |->
                        IF l \in DOMAIN parts THEN parts[l] ELSE Raised[l]]
  IN [i \in InstructionSet |-> with(code(i))]

(***************************************************************************)
(* Table A-1: what loop mode may repeat.  One word each, and no operand    *)
(* but (An), (An)+ and -(An); a register may not be moved to -(An).        *)
(***************************************************************************)
loop_mode_table ==
  {i \in Moves : /\ i.op = "move" /\ i.dst \in IND /\ i.src \in REGISTER \cup IND
                 /\ ~(i.src \in REGISTER /\ i.dst = "apre")}
    \cup over({"add_dn", "cmp", "adda", "cmpa", "add_ea", "eor", "tst", "neg", "negx", "clr"},
              IND, SIZES)
    \cup over({"nbcd", "shift"}, IND, {"word"})
    \cup over({"addx", "cmpm"}, {"mem"}, SIZES) \cup over({"abcd"}, {"mem"}, {"word"})

=============================================================================
