------------------------------ MODULE Microengine ------------------------------
(***************************************************************************)
(* The microengine of src/rtl/rd68011_seq.sv: how a microword retires,     *)
(* commits or faults, which one comes next, and what the fault, exception, *)
(* interrupt, trace and instruction continuation machinery keeps.          *)
(*                                                                         *)
(* One step is one clock.  The microprogram is a parameter: a word says    *)
(* what bus cycle it does, which working registers it reads and writes,    *)
(* how it sequences and which special destination it has.  A working       *)
(* register's value is abstracted to its provenance: the fault context in  *)
(* which the instruction that wrote it ran, 0 for the program, n for the   *)
(* handler of the n-th fault still open.                                   *)
(***************************************************************************)
EXTENDS Integers, Sequences, FiniteSets

CONSTANTS
  Addr,        \* micro-addresses, pairs <<label, offset>>
  Micro,       \* the microprogram: the word at every address
  Regs,        \* the working registers of an instruction
  Pipe,        \* pc, ir, irc: they live across instructions
  Framed,      \* the registers a format $8 frame holds
  Opcodes,     \* labels the decoder may send an instruction to
  MayFault,    \* labels whose bus cycles may end in a bus or address error
  SRs,         \* values software may load into the status register
  Levels,      \* interrupt levels the devices request, 0 for none
  ResetPin,    \* TRUE if the board may pulse RESET
  MaxLong,     \* bound: format $8 frames open at once
  MaxShort     \* bound: with more four-word frames than this in a fault
               \* context, its program only returns and no device asks

Entry(label) == <<label, 1>>
Unwritten    == -1             \* nothing this instruction wrote
Contexts     == 0 .. MaxLong
Owners       == Contexts \cup {Unwritten}
Status       == [s : BOOLEAN, t : BOOLEAN, i : 0 .. 7]

Word == [bus : {"none", "prog", "read", "write", "rmw", "iack"},
         reads : SUBSET Regs, writes : SUBSET Regs,
         dst : {"regs", "sr_exc", "sr_irq", "sr_new", "sr_frame", "sr_save",
                "push", "frame8", "srsave", "reload"},
         marks : SUBSET {"notrace", "g0", "stop"},
         seq : {"next", "goto", "cond", "decode", "resume"},
         cond : STRING, to : Seq(Addr)]

Vectors == {Entry(l) : l \in {"reset", "halted", "buserr", "spurious",
                              "trace", "interrupt"}}

\* What the assembler checks of a word's successors.
Linked(a) ==
  CASE Micro[a].seq = "goto" -> Micro[a].to # <<>>
    [] Micro[a].seq = "cond" -> Len(Micro[a].to) = 2
    [] Micro[a].seq = "next" -> <<a[1], a[2] + 1>> \in Addr \/ "stop" \in Micro[a].marks
    [] OTHER                 -> TRUE

ASSUME MicroengineAssumption ==
  /\ MaxLong \in Nat /\ MaxShort \in Nat
  /\ Micro \in [Addr -> Word]
  /\ \A a \in Addr : Linked(a)
  /\ Vectors \cup {Entry(op) : op \in Opcodes} \subseteq Addr
  /\ Pipe \subseteq Regs /\ Framed \subseteq Regs /\ {"eal", "ea_save"} \subseteq Regs
  /\ SRs \subseteq Status /\ Levels \subseteq 0 .. 7
  /\ ResetPin \in BOOLEAN

VARIABLES
  upc,          \* the micro-address
  own,          \* provenance of every working register
  sr,           \* status register: S, T and the interrupt mask
  sr_save,      \* the status register exception processing stacks
  group0,       \* inside reset, bus error or address error processing
  halted,       \* double bus fault
  upc_save,     \* the micro-address a fault interrupted
  rr_flag,      \* the rerun flag RTE read out of a frame
  rerun_skip,   \* the word now running has had its access done in software
  trace_armed,  \* the trace bit as the current instruction began
  ipl,          \* the synchronised interrupt level
  irq_prev,     \* ... one clock ago
  irq7_edge,    \* level seven arrived and has not been taken
  irq_taken,    \* the level being serviced
  reset_pin,    \* RESET, synchronised
  ctx,          \* how many fault contexts are open
  short,        \* short[n]: the four-word frames stacked in context n
  long,         \* long[n]: the format $8 frame of context n's instruction
  owed,         \* history: owed[n], context n's instruction is to be traced
  faulted,      \* history: faulted[n], the word of context n that faulted
  asked7,       \* history: level seven arrived, holds and was not serviced
  served7       \* history: level seven was serviced since it arrived

frames == <<short, long>>
irqs   == <<ipl, irq_prev, irq7_edge, irq_taken>>
flags  == <<group0, halted, rr_flag, rerun_skip, trace_armed>>
saved  == <<sr_save, upc_save>>
hist   == <<owed, faulted, asked7, served7>>
vars   == <<upc, own, sr, flags, saved, irqs, reset_pin, ctx, frames, hist>>

w == Micro[upc]

NoLong == [upc |-> Entry("halted"), sr |-> [s |-> TRUE, t |-> FALSE, i |-> 7],
           regs |-> [r \in Framed |-> Unwritten], rr |-> FALSE]

-----------------------------------------------------------------------------
(***************************************************************************)
(* How the microword ends.                                                 *)
(***************************************************************************)
bus_busy == w.bus # "none"

\* A word with a cycle lasts until the bus unit says so, one whose access was
\* done in software ends at once, like one with no cycle.
MayStall == bus_busy /\ ~rerun_skip
CanFault == MayStall /\ upc[1] \in MayFault

\* A bus error on an interrupt acknowledge is a spurious interrupt.
spurious_int == w.bus = "iack"

\* A fault inside group 0 processing is a double bus fault.
dbl_fault == group0 /\ ~spurious_int

fault_entry == CASE dbl_fault                  -> Entry("halted")
                 [] ~dbl_fault /\ spurious_int -> Entry("spurious")
                 [] OTHER                      -> Entry("buserr")

(***************************************************************************)
(* Interrupts and trace.                                                   *)
(***************************************************************************)
Boundary == w.seq = "decode" \/ "stop" \in w.marks

\* Mutants: the edge alone, a memory of a request that may be gone; level
\* seven compared with the mask like any other.
PendingEvenIfGone == irq7_edge \/ ipl > sr.i
PendingByLevel    == ipl > sr.i

irq_pending == (irq7_edge /\ ipl = 7) \/ ipl > sr.i
take_irq    == irq_pending /\ Boundary
take_trace  == trace_armed /\ Boundary

\* Mutant: the arrival is recorded even in the clock that answers it.
SetBeforeTaken(taking) ==
  IF ipl = 7 /\ irq_prev # 7 THEN TRUE
  ELSE IF (taking /\ ipl = 7) \/ ipl # 7 THEN FALSE ELSE irq7_edge

irq7_edge_nxt(taking) ==
  IF taking /\ ipl = 7 THEN FALSE
  ELSE IF ipl # 7 THEN FALSE
  ELSE irq7_edge \/ irq_prev # 7

(***************************************************************************)
(* The status register as this word leaves it; new is what software loads. *)
(***************************************************************************)
TopShort == short[ctx]
HasShort == TopShort # <<>>

sr_nxt(new) ==
  CASE w.dst = "sr_exc"   -> [sr EXCEPT !.s = TRUE, !.t = FALSE]
    [] w.dst = "sr_irq"   -> [s |-> TRUE, t |-> FALSE, i |-> irq_taken]
    [] w.dst = "sr_new"   -> new
    [] w.dst = "sr_frame" -> IF HasShort THEN Head(TopShort) ELSE sr
    [] w.dst = "sr_save"  -> sr_save
    [] OTHER              -> sr

\* Mutant: a refused or displaced instruction keeps its arming.
ArmedAtBoundary(new) ==
  CASE w.seq \in {"decode", "resume"} -> sr_nxt(new).t
    [] OTHER                          -> trace_armed

\* The trace bit as the instruction began, cancelled by whatever keeps the
\* instruction from being executed (UM 6.3.8).
trace_armed_nxt(new) ==
  CASE "notrace" \in w.marks                           -> FALSE
    [] "notrace" \notin w.marks /\ w.seq = "decode"    ->
         ~take_trace /\ ~take_irq /\ sr_nxt(new).t
    [] "notrace" \notin w.marks /\ w.seq = "resume"    -> sr_nxt(new).t
    [] OTHER                                           -> trace_armed

(***************************************************************************)
(* Where the microprogram goes.  RTE finds out what frame it has; the      *)
(* other conditions are on data, and go either way.                        *)
(***************************************************************************)
cond_true(c) ==
  CASE c = "super" -> {sr.s}
    [] c = "fmt0"  -> {HasShort}
    [] c = "fmt8"  -> {~HasShort /\ ctx > 0}
    [] OTHER       -> BOOLEAN

\* Frames are stacked without end only by a program that never returns.
Decodable == IF Len(TopShort) < MaxShort THEN Opcodes
             ELSE Opcodes \cap {"nop", "rte"}

upc_target ==
  CASE w.seq = "decode" -> {Entry(op) : op \in Decodable}
    [] w.seq = "cond"   -> {w.to[IF b THEN 2 ELSE 1] : b \in cond_true(w.cond)}
    [] w.seq = "goto"   -> {w.to[1]}
    [] OTHER            -> {<<upc[1], upc[2] + 1>>}

\* Mutant: the interrupt is taken ahead of the trace.
InterruptFirst(t) ==
  CASE halted                                     -> Entry("halted")
    [] ~halted /\ w.seq = "resume"                -> upc_save
    [] ~halted /\ w.seq # "resume" /\ take_irq    -> Entry("interrupt")
    [] ~halted /\ take_trace /\ ~take_irq         -> Entry("trace")
    [] OTHER -> IF "stop" \in w.marks THEN upc ELSE t

\* The micro-address after a word that retires without a fault.
upc_nxt(t) ==
  CASE halted                                     -> Entry("halted")
    [] ~halted /\ w.seq = "resume"                -> upc_save
    [] ~halted /\ w.seq # "resume" /\ take_trace  -> Entry("trace")
    [] ~halted /\ take_irq /\ ~take_trace         -> Entry("interrupt")
    [] OTHER -> IF "stop" \in w.marks THEN upc ELSE t

(***************************************************************************)
(* The working registers as this word leaves them.                         *)
(***************************************************************************)
\* A word's own results, and what taking an interrupt or a trace latches.
Written == w.writes \cup (IF Boundary /\ (take_irq \/ take_trace)
                          THEN {"irq"} ELSE {})

\* Mutant: the frame gives back the registers but not the pipe.
PipeNotReloaded(r) ==
  IF r \in Framed \ Pipe /\ ctx > 0 THEN long[ctx - 1].regs[r]
  ELSE IF r \in w.writes THEN ctx ELSE own[r]

Reloaded(r) ==
  IF r \in Framed /\ ctx > 0 THEN long[ctx - 1].regs[r]
  ELSE IF r \in w.writes THEN ctx ELSE own[r]

\* RESUME restores the address latch from ea_save; nothing else the handler
\* wrote belongs to the resumed instruction.
Resumed(r) ==
  IF r = "eal" THEN own["ea_save"]
  ELSE IF own[r] = ctx THEN Unwritten ELSE own[r]

own_nxt ==
  CASE w.dst = "reload" -> [r \in Regs |-> Reloaded(r)]
    [] w.seq = "resume" -> [r \in Regs |-> Resumed(r)]
    [] w.seq = "decode" -> [r \in Regs |->
         IF r \in Written /\ r \in Pipe \cup {"irq"} THEN ctx
         ELSE IF r \notin Pipe /\ (own[r] = ctx \/ r \in w.writes)
              THEN Unwritten ELSE own[r]]
    [] OTHER -> [r \in Regs |-> IF r \in Written THEN ctx ELSE own[r]]

\* The fault keeps the address latch before the frame build loads it, and
\* takes the data a faulted write was carrying.
own_fault ==
  [r \in Regs |-> CASE r = "ea_save"                     -> own["eal"]
                    [] r = "dbuf" /\ "dbuf" \in w.writes -> ctx
                    [] OTHER                             -> own[r]]
-----------------------------------------------------------------------------
NoFrames == [n \in Contexts |-> <<>>]

Init ==
  /\ upc = Entry("reset")
  /\ own = [r \in Regs |-> Unwritten]
  /\ sr = [s |-> TRUE, t |-> FALSE, i |-> 7]
  /\ sr_save = [s |-> FALSE, t |-> FALSE, i |-> 0]
  /\ group0 = FALSE /\ halted = FALSE
  /\ upc_save = Entry("reset")
  /\ rr_flag = FALSE /\ rerun_skip = FALSE /\ trace_armed = FALSE
  /\ ipl = 0 /\ irq_prev = 0 /\ irq7_edge = FALSE /\ irq_taken = 0
  /\ reset_pin = TRUE
  /\ ctx = 0 /\ short = NoFrames /\ long = [n \in Contexts |-> NoLong]
  /\ owed = [n \in Contexts |-> FALSE]
  /\ faulted = [n \in Contexts |-> Entry("halted")]
  /\ asked7 = FALSE /\ served7 = FALSE

(***************************************************************************)
(* Every clock moves the level seven detector along.  The code's taking of *)
(* an interrupt is true at a boundary that goes to the trace handler too:  *)
(* only when it serves does the interrupt sequence follow.                 *)
(***************************************************************************)
IrqClock(taking, serves) ==
  /\ irq_prev' = ipl
  /\ irq7_edge' = irq7_edge_nxt(taking)
  /\ irq_taken' = IF taking THEN ipl ELSE irq_taken
  /\ asked7' = (ipl = 7 /\ ~serves /\ (asked7 \/ irq_prev # 7))
  /\ served7' = (ipl = 7 /\ (serves \/ (served7 /\ irq_prev = 7)))
  /\ UNCHANGED <<ipl, reset_pin>>

(***************************************************************************)
(* RESET overrides the micro-address, and group 0 and halted unless the    *)
(* same clock faults.  What was stacked and owed is the past program's.    *)
(***************************************************************************)
Restart == /\ upc' = Entry("reset")
           /\ own' = [r \in Regs |-> Unwritten]
           /\ ctx' = 0 /\ short' = NoFrames /\ long' = [n \in Contexts |-> NoLong]
           /\ owed' = [n \in Contexts |-> FALSE]
           /\ faulted' = [n \in Contexts |-> Entry("halted")]

\* The bus cycle is not over.
Stall ==
  /\ MayStall
  /\ IrqClock(FALSE, FALSE)
  /\ IF reset_pin THEN Restart /\ group0' = TRUE /\ halted' = FALSE
     ELSE UNCHANGED <<upc, own, ctx, frames, owed, faulted, group0, halted>>
  /\ UNCHANGED <<sr, saved, rr_flag, rerun_skip, trace_armed>>

\* Mutants: group 0 ends only where an instruction is resumed; the rerun flag
\* serves the rest of the resumed instruction; it adds to the last frame's.
GroupToResume == "g0" \in w.marks \/ (group0 /\ w.seq # "resume")
SkipToDecode  == \/ w.seq = "resume" /\ rr_flag
                 \/ rerun_skip /\ w.seq # "decode"
StickyRR(rr)  == rr_flag \/ (w.dst = "reload" /\ rr)

\* Group 0 processing ends at the handler's first boundary, or where an
\* instruction is resumed; RTE enters it once it cannot turn back.
group0_nxt == CASE "g0" \in w.marks -> TRUE
                [] "g0" \notin w.marks /\ w.seq \in {"decode", "resume"} -> FALSE
                [] OTHER -> group0

\* The rerun flag serves the one word RESUME goes to.
rr_flag_nxt(rr)  == CASE w.dst = "reload" -> rr
                      [] w.seq = "resume" -> FALSE
                      [] OTHER            -> rr_flag
rerun_skip_nxt   == w.seq = "resume" /\ rr_flag

\* The frames: the last word of a four-word one makes it complete, the
\* format $8 one is written by one word; RTE takes them off again.
short_nxt == CASE w.dst = "push"     -> [short EXCEPT ![ctx] = <<sr_save>> \o @]
               [] w.dst = "sr_frame" -> [short EXCEPT ![ctx] =
                                           IF HasShort THEN Tail(@) ELSE @]
               [] OTHER              -> short

Frame8 == [upc |-> upc_save, sr |-> sr_save,
           regs |-> [r \in Framed |-> own[r]], rr |-> FALSE]

long_nxt(rr) == CASE w.dst = "frame8" /\ ctx > 0 -> [long EXCEPT ![ctx - 1] = Frame8]
                  [] w.dst = "reload" /\ ctx > 0 -> [long EXCEPT ![ctx - 1].rr = rr]
                  [] w.seq = "resume" /\ ctx > 0 -> [long EXCEPT ![ctx - 1] = NoLong]
                  [] OTHER                       -> long

sr_save_nxt == CASE w.dst \in {"sr_exc", "sr_irq"} -> sr
                 [] w.dst = "srsave" /\ ctx > 0    -> long[ctx - 1].sr
                 [] OTHER                          -> sr_save

\* What the instruction of this context owes the tracer.
owed_nxt(new) ==
  CASE "notrace" \in w.marks  -> [owed EXCEPT ![ctx] = FALSE]
    [] "notrace" \notin w.marks /\ Boundary ->
         [owed EXCEPT ![ctx] = ~take_trace /\ ~take_irq /\ w.seq = "decode"
                                 /\ sr_nxt(new).t]
    [] OTHER -> owed

(***************************************************************************)
(* The microword commits.  t is the address its sequencing picks, new what *)
(* it loads into the status register if that comes from software, and rr   *)
(* the rerun flag software left in the frame RTE is reading.               *)
(***************************************************************************)
Commit(t, new, rr) ==
  /\ IrqClock(take_irq, take_irq /\ ~take_trace)
  /\ sr' = sr_nxt(new)
  /\ sr_save' = sr_save_nxt
  /\ upc_save' = IF w.dst = "reload" /\ ctx > 0 THEN long[ctx - 1].upc
                 ELSE upc_save
  /\ trace_armed' = trace_armed_nxt(new)
  /\ rr_flag' = rr_flag_nxt(rr)
  /\ rerun_skip' = rerun_skip_nxt
  /\ IF reset_pin
     THEN Restart /\ group0' = TRUE /\ halted' = FALSE
     ELSE /\ upc' = upc_nxt(t)
          /\ own' = own_nxt
          /\ group0' = group0_nxt
          /\ halted' = halted
          /\ ctx' = IF w.seq = "resume" /\ ctx > 0 THEN ctx - 1 ELSE ctx
          /\ short' = short_nxt
          /\ long' = long_nxt(rr)
          /\ owed' = owed_nxt(new)
          /\ UNCHANGED faulted

(***************************************************************************)
(* The microword ends in a bus or address error and writes nothing.  A     *)
(* fault that does not halt opens a new context for its handler, except a  *)
(* spurious interrupt, which is an ordinary exception of the same context. *)
(***************************************************************************)
Fault ==
  /\ CanFault
  /\ dbl_fault \/ spurious_int \/ ctx < MaxLong
  /\ IrqClock(FALSE, FALSE)
  /\ upc_save' = upc
  /\ trace_armed' = FALSE
  /\ halted' = (halted \/ dbl_fault)
  /\ group0' = (group0 \/ ~spurious_int)
  /\ IF reset_pin THEN Restart
     ELSE /\ upc' = fault_entry
          /\ own' = own_fault
          /\ ctx' = IF dbl_fault \/ spurious_int THEN ctx ELSE ctx + 1
          /\ owed' = [owed EXCEPT ![ctx'] = FALSE]
          /\ faulted' = [faulted EXCEPT ![ctx] = IF ctx' = ctx THEN @ ELSE upc]
          /\ UNCHANGED frames
  /\ UNCHANGED <<sr, sr_save, rr_flag, rerun_skip>>

(***************************************************************************)
(* Devices move the interrupt lines at any time, and the board pulses      *)
(* RESET for at least as long as the microengine needs to see it           *)
(* (external).                                                             *)
(***************************************************************************)
Request(l) ==
  /\ l # ipl
  /\ l = 0 \/ Len(TopShort) <= MaxShort
  /\ ipl' = l
  /\ UNCHANGED <<upc, own, sr, flags, saved, irq_prev, irq7_edge, irq_taken,
                 reset_pin, ctx, frames, hist>>

PulseReset ==
  /\ IF reset_pin THEN upc = Entry("reset") /\ group0 /\ ~halted ELSE ResetPin
  /\ reset_pin' = ~reset_pin
  /\ UNCHANGED <<upc, own, sr, flags, saved, irqs, ctx, frames, hist>>

SoftwareSR == IF w.dst = "sr_new" THEN SRs ELSE {sr}
SoftwareRR == IF w.dst = "reload" THEN BOOLEAN ELSE {FALSE}

Clock == \E t \in upc_target, new \in SoftwareSR, rr \in SoftwareRR : Commit(t, new, rr)

Next ==
  \/ Stall
  \/ Clock
  \/ Fault
  \/ \E l \in Levels : Request(l)
  \/ PulseReset

Spec == Init /\ [][Next]_vars

\* The bus unit ends every cycle, so a word that waits commits in the end.
FairSpec == Spec /\ WF_vars(Clock)
-----------------------------------------------------------------------------
(***************************************************************************)
(* Properties.                                                             *)
(***************************************************************************)
\* Every register keeps its type.
TypeOK ==
  /\ upc \in Addr /\ upc_save \in Addr
  /\ own \in [Regs -> Owners]
  /\ sr \in Status /\ sr_save \in Status
  /\ {group0, halted, rr_flag, rerun_skip, trace_armed} \subseteq BOOLEAN
  /\ ipl \in 0 .. 7 /\ irq_prev \in 0 .. 7 /\ irq_taken \in 0 .. 7
  /\ {irq7_edge, reset_pin, asked7, served7} \subseteq BOOLEAN
  /\ ctx \in Contexts
  /\ short \in [Contexts -> Seq(Status)]
  /\ long \in [Contexts -> [upc : Addr, sr : Status, regs : [Framed -> Owners],
                            rr : BOOLEAN]]
  /\ owed \in [Contexts -> BOOLEAN] /\ faulted \in [Contexts -> Addr]

(***************************************************************************)
(* No word reads a working register that holds anything but what the same  *)
(* instruction wrote: not what an earlier instruction left, and not what a *)
(* fault handler left between the instruction's fault and its resumption.  *)
(***************************************************************************)
OwnValues == \A r \in w.reads : own[r] = ctx

(***************************************************************************)
(* RTE of a format $8 frame goes back to the word that faulted, and that   *)
(* word skips its bus cycle exactly if software asked for that in the      *)
(* frame.                                                                  *)
(***************************************************************************)
ResumesFaulted ==
  [][~reset_pin /\ ctx' < ctx =>
       upc' = faulted[ctx'] /\ rerun_skip' = long[ctx'].rr]_vars

(***************************************************************************)
(* The rerun flag excuses one word, the faulted one, from its cycle: any   *)
(* other word that has a cycle runs it.                                    *)
(***************************************************************************)
SkipsOnlyFaulted ==
  rerun_skip /\ bus_busy => upc = faulted[ctx]

(***************************************************************************)
(* At an instruction boundary a trace is pending exactly if the            *)
(* instruction that ends there began with T set and was executed, across   *)
(* the faults and resumptions it went through; the handlers of exceptions, *)
(* interrupts and faults are not traced for it.                            *)
(***************************************************************************)
TraceExactly == Boundary /\ ~halted => (trace_armed <=> owed[ctx])

\* A trace owed is taken before an interrupt that waits at the same boundary.
TraceFirst == [][upc' = Entry("interrupt") /\ upc' # upc => ~owed[ctx]]_vars

(***************************************************************************)
(* Group 0 covers the exception processing of reset and of a fault, up to  *)
(* the handler's first boundary, and RTE from its first reload on: nothing *)
(* else, so an ordinary fault never halts the processor and a fault while  *)
(* faulting always does.                                                   *)
(***************************************************************************)
GroupIsProcessing ==
  ~halted /\ ~reset_pin =>
    (group0 <=> \/ upc[1] \in {"reset", "buserr"}
                \/ upc[1] = "rte_reload" /\ upc # Entry("rte_reload"))

(***************************************************************************)
(* The level being serviced is one the status register let through, never  *)
(* a level nobody asked for.                                               *)
(***************************************************************************)
IrqHonest ==
  upc = Entry("interrupt") /\ ~reset_pin => irq_taken = 7 \/ irq_taken > sr.i

\* One level seven request is serviced at mask seven at most once.
Irq7Once ==
  [][upc' = Entry("interrupt") /\ upc' # upc /\ ipl = 7 /\ sr.i = 7 => ~served7]_vars

(***************************************************************************)
(* A level seven request that holds is serviced, whatever the mask, unless *)
(* the processor halts or is reset.                                        *)
(***************************************************************************)
NmiServed == asked7 ~> ~asked7 \/ halted \/ reset_pin
=============================================================================
