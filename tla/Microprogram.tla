----------------------------- MODULE Microprogram -----------------------------
(***************************************************************************)
(* The part of the microprogram that matters to faults and exceptions,     *)
(* from tools/ucode/program.py: reset, the exception, interrupt, trace and *)
(* fault sequences, RTE with both frames, STOP, MOVE to SR, and one        *)
(* instruction of every shape that carries values across a bus cycle.      *)
(*                                                                         *)
(* A routine is a sequence of words.  The twenty-six writes of a format $8 *)
(* frame are one word, and so are the reads that reload it: each may fault *)
(* as a whole.  Architectural registers are left out, and so is the data   *)
(* input buffer, which only a rerun flag makes visible.                    *)
(***************************************************************************)
EXTENDS Sequences, Integers

pipe    == {"pc", "ir", "irc"}
working == {"t0", "t1", "dbuf", "eal", "xw", "ea_save"}
private == {"sr_save", "div", "mul", "m4", "irq", "irq_data"}

AllRegs    == pipe \cup working \cup private
FrameRegs  == pipe \cup (working \ {"eal"})

u(bus, reads, writes) ==
  [bus |-> bus, reads |-> reads, writes |-> writes, dst |-> "regs",
   marks |-> {}, seq |-> "next", cond |-> "any", to |-> <<>>]

dst(x, d)         == [x EXCEPT !.dst = d]
mark(x, m)        == [x EXCEPT !.marks = {m}]
goto(x, l, i)     == [x EXCEPT !.seq = "goto", !.to = <<<<l, i>>>>]
cond(x, c, f, t)  == [x EXCEPT !.seq = "cond", !.cond = c,
                               !.to = <<<<f, 1>>, <<t, 1>>>>]
decode(x)         == [x EXCEPT !.seq = "decode"]

\* One prefetch into irc; one into irc with irc moving on to ir, with which
\* an instruction ends.  A word may do either beside its own work.
fetch(reads, writes)    == u("prog", reads \cup {"pc"}, writes \cup {"pc", "irc"})
advfetch(reads, writes) == u("prog", reads \cup {"pc", "irc"}, writes \cup pipe)

final_prefetch == <<decode(advfetch({}, {}))>>

refill_from(reg) == <<u("none", {reg}, {"pc"}), fetch({}, {}), decode(advfetch({}, {}))>>

\* The supervisor check in front of a privileged instruction.
privileged(body) == <<cond(u("none", {}, {}), "super", "priv_violation", body)>>

(***************************************************************************)
(* Exceptions.                                                             *)
(***************************************************************************)
raise_exception(m) ==
  << IF m = "" THEN u("none", {}, {"t0"}) ELSE mark(u("none", {}, {"t0"}), m),
     u("none", {"ir", "irc"}, {"t1"}),
     goto(u("none", {}, {"dbuf"}), "except", 1) >>

\* The trace and interrupt sequences stack the boundary's program counter.
trace == << u("none", {}, {"t0"}), u("none", {"irq", "pc", "ir"}, {"t1"}),
            goto(u("none", {}, {"dbuf"}), "except", 1) >>

except_frame ==
  << u("none", {}, {"eal"}),
     u("write", {"eal", "dbuf"}, {}),
     u("write", {"eal", "t1"}, {"dbuf"}),
     u("write", {"eal", "dbuf"}, {}),
     dst(u("write", {"eal", "sr_save"}, {"dbuf"}), "push"),
     u("read", {"t0"}, {"t1"}),
     u("read", {"t0", "t1"}, {"t1"}) >> \o refill_from("t1")

except == << dst(u("none", {}, {"sr_save"}), "sr_exc"),
             goto(u("none", {}, {}), "except_frame", 1) >>

interrupt ==
  << dst(u("none", {"irq"}, {"sr_save"}), "sr_irq"),
     u("none", {"irq"}, {"t0"}),
     u("iack", {"t0"}, {"irq_data"}),
     u("none", {"irq", "irq_data"}, {"t0"}),
     u("none", {"irq", "pc", "ir"}, {"t1"}),
     goto(u("none", {"irq", "irq_data"}, {"dbuf"}), "except_frame", 1) >>

spurious == << u("none", {}, {"t0"}), u("none", {"irq", "pc", "ir"}, {"t1"}),
               goto(u("none", {}, {"dbuf"}), "except_frame", 1) >>

frame_push   == dst(u("write", {}, {"eal"}), "frame8")
vector_fetch == <<u("none", {}, {"t0"}), u("read", {"t0"}, {"t1"}),
                  u("read", {"t0", "t1"}, {"t1"})>>

\* Bus and address errors: the same sequence through two vectors.
fault_exception == <<dst(u("none", {}, {"sr_save"}), "sr_exc"), frame_push>>
                     \o vector_fetch \o refill_from("t1")

halted_loop == <<goto(u("none", {}, {}), "halted", 1)>>

reset ==
  << u("none", {}, {"t0"}),
     u("prog", {"t0"}, {"t0", "t1"}), u("prog", {"t0", "t1"}, {"t0", "t1"}),
     u("none", {"t1"}, {}),
     u("prog", {"t0", "t1"}, {"t0", "t1"}), u("prog", {"t0", "t1"}, {"t0", "t1"}) >>
  \o refill_from("t1")

(***************************************************************************)
(* RTE.  The long frame is probed, its version checked, and from the first *)
(* word of the walk on there is no way back.                               *)
(***************************************************************************)
rte_body == << u("read", {}, {"t0", "eal"}), u("read", {}, {"t1"}),
               u("read", {"t1"}, {"t1"}),
               cond(u("read", {}, {}), "fmt0", "rte_try_long", "rte_ok") >>

rte_ok == <<u("none", {}, {"eal"}), dst(u("none", {"t0"}, {}), "sr_frame")>>
            \o refill_from("t1")

rte_try_long == <<cond(u("read", {}, {}), "fmt8", "rte_format_error", "rte_long")>>

rte_long == << u("none", {}, {"t0"}), u("read", {"t0"}, {}), u("none", {}, {"t0"}),
               cond(u("read", {"t0"}, {}), "version", "rte_format_error", "rte_reload") >>

srsave_word == dst(u("read", {}, {"sr_save", "eal"}), "srsave")
reload_word == dst(u("read", {}, {"eal"}), "reload")
resume_word == [dst(u("none", {"sr_save"}, {}), "sr_save") EXCEPT !.seq = "resume"]

rte_reload == <<mark(srsave_word, "g0"), reload_word, resume_word>>

(***************************************************************************)
(* Instructions.                                                           *)
(***************************************************************************)
nop == final_prefetch

\* MOVE.L to -(An), and every read-modify-write to memory: prefetch first,
\* then two writes through the latched address, out of the data buffer.
move_pre_dec_store ==
  << u("read", {"ir"}, {"t1", "eal"}),
     advfetch({"t1", "ir"}, {"dbuf", "eal"}),
     u("write", {"eal", "dbuf"}, {}),
     decode(u("write", {"eal", "dbuf"}, {})) >>

tas == <<u("none", {"ir"}, {"t0"}), u("rmw", {"t0", "ir"}, {"dbuf"})>> \o final_prefetch

\* MOVEM to registers: a loop over the mask in xw, the overrun read, the end.
movem    == <<cond(fetch({"irc", "ir"}, {"t0", "xw"}), "mask", "movem_end", "movem_loop")>>
movem_end == <<goto(u("read", {"t0"}, {}), "movem_tail", 1)>>
movem_loop == << u("read", {"t0", "xw"}, {"t0"}),
                 cond(u("read", {"t0", "xw"}, {"t0", "xw"}), "mask",
                      "movem_end", "movem_loop") >>
movem_tail == <<decode(advfetch({"t0", "ir"}, {}))>>

\* Multiply and divide leave their answer outside the frame's registers.  The
\* test for zero and the wait for the divider touch no register: one word here,
\* each of its own in module Divider.
multiply == <<u("none", {"ir"}, {"mul"}), decode(advfetch({"mul", "ir"}, {}))>>
divide   == <<u("none", {"ir"}, {"div"}), decode(advfetch({"div", "ir"}, {}))>>

\* DBcc taken: whether the displacement was minus four, then the refill.
dbcc_take == << u("none", {"irc"}, {"t0", "m4"}), u("none", {"t0"}, {"pc"}),
                fetch({}, {}), decode(advfetch({"m4"}, {})) >>

stop_body == <<dst(u("none", {"irc"}, {}), "sr_new"), mark(u("none", {}, {}), "stop")>>

movetosr_body == <<u("read", {"ir"}, {"t1"}), dst(u("none", {"t1"}, {}), "sr_new"),
                   u("prog", {"pc"}, {})>> \o final_prefetch

-----------------------------------------------------------------------------
Routines ==
  [reset |-> reset, halted |-> halted_loop, buserr |-> fault_exception,
   spurious |-> spurious, interrupt |-> interrupt, trace |-> trace,
   except |-> except, except_frame |-> except_frame,
   illegal_exc |-> raise_exception("notrace"), trap |-> raise_exception(""),
   priv_violation |-> raise_exception("notrace"),
   rte_format_error |-> raise_exception(""),
   rte |-> privileged("rte_body"), rte_body |-> rte_body, rte_ok |-> rte_ok,
   rte_try_long |-> rte_try_long, rte_long |-> rte_long, rte_reload |-> rte_reload,
   nop |-> nop, move |-> move_pre_dec_store, tas |-> tas,
   movem |-> movem, movem_end |-> movem_end, movem_loop |-> movem_loop,
   movem_tail |-> movem_tail,
   mul |-> multiply, div |-> divide, dbcc |-> dbcc_take,
   stop |-> privileged("stop_body"), stop_body |-> stop_body,
   movetosr |-> privileged("movetosr_body"), movetosr_body |-> movetosr_body]

Labels    == DOMAIN Routines
Addresses == UNION {{<<l, i>> : i \in 1 .. Len(Routines[l])} : l \in Labels}
Assembled == [a \in Addresses |-> Routines[a[1]][a[2]]]
=============================================================================
