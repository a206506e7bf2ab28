-------------------------------- MODULE LoopMode --------------------------------
(***************************************************************************)
(* Loop mode, rtl/rd68011_seq.sv: a one-word instruction and the DBcc that *)
(* repeats it run without being fetched again.  The words are those of     *)
(* module Instructions; of the datapath there is the prefetch pipe.        *)
(*                                                                         *)
(* A word of the program is known by its address, so that what the pipe    *)
(* holds can be compared with what the program has there.  A fault, with   *)
(* the frame it writes and the refill from its handler, is one step; so is *)
(* the way back.  Programs here are not traced: tracing keeps loop mode    *)
(* out.                                                                    *)
(***************************************************************************)
EXTENDS Instructions, FiniteSets

CONSTANTS Micro,         \* the words of every instruction, as in module Datapath
          Program,       \* address |-> [op, disp]
          Handler,       \* "error" and "interrupt" |-> address of the handler
          Bodies,        \* the instructions that are looped
          Builds,        \* values of RTE_RESTORES_LOOP
          MaxFaults,     \* bus errors open at once
          PhaseKept,     \* no fault once the DBcc is next, in a build that forgets
          TestKept       \* no fault between the displacement's test and its use

ASSUME LoopAssumption ==
  /\ Bodies \subseteq DOMAIN Micro /\ Builds \subseteq BOOLEAN /\ MaxFaults \in Nat
  /\ PhaseKept \in BOOLEAN /\ TestKept \in BOOLEAN

VARIABLES looped,        \* the instruction in every slot for one, chosen at first
          restores,      \* RTE_RESTORES_LOOP
          doing,         \* the word being executed: its address
          label, upc,    \* the microword
          pipe,          \* ir, irc, their addresses, and pc
          t0,            \* a branch's target
          loop,          \* loop_active, loop_ph, loop_ir, loop_m4
          cycle,         \* the bus cycle in progress for the sequencer
          frames,        \* on the stack, the last one first
          irq            \* an interrupt is requested
vars == <<looped, restores, doing, label, upc, pipe, t0, loop, cycle, frames, irq>>

\* The word fetched from a, and what it is.
nowhere   == -1
word_at(a) == IF a \in DOMAIN Program THEN a ELSE nowhere
kind(w)    == IF w = nowhere THEN "none" ELSE Program[w].op

\* The word at w read as a displacement: an opcode leads out of the program.
displacement(w) == IF kind(w) = "disp" THEN Program[w].disp ELSE 1000

\* The pipe as an ordinary instruction stream leaves it for the word at a.
Ordinary(a) == [ir |-> word_at(a), ir_pc |-> a, irc |-> word_at(a + 2), irc_pc |-> a + 2,
                pc |-> a + 4]

-----------------------------------------------------------------------------
(***************************************************************************)
(* One microword.                                                          *)
(***************************************************************************)
\* The opcode of a word, and the part of the control store that is used here.
Others    == over({"bra"}, {"none"}, {"long"}) \cup plain({"dbcc", "rte", "nop"})
opcode_of == [k \in {"bra", "dbcc", "rte", "disp", "none"} |->
                CHOOSE i \in Others : i.op = IF k \in {"disp", "none"} THEN "nop" ELSE k]
Routines  == [i \in Bodies |-> [k \in DOMAIN opcode_of \cup {"body"} |->
                Micro[IF k = "body" THEN i ELSE opcode_of[k]]]]
RunningLoop == [l \in DOMAIN dbcc_loop |-> dbcc_loop[l]]
Repeatable  == Bodies \cap loop_mode_table

uw == IF label[1] = "loop" THEN RunningLoop[label[2]][upc]
      ELSE Routines[looped][kind(doing)][label[2]][upc]

\* A program read in loop mode is not made, and not waited for.
loop_suppress == loop.active /\ uw.bus = "prog"

retire == uw.bus = "none" \/ loop_suppress \/ cycle # "none"

pf_adv   == uw.pf = "advfetch"
pf_fetch == uw.pf # "none" /\ ~loop_suppress
loopback == uw.dst = "loopback"

y == CASE uw.src = "irc_pc"   -> pipe.irc_pc + displacement(pipe.irc)
       [] uw.src = "pc_plus2" -> pipe.pc + 2
       [] OTHER               -> t0

\* Mutant: going round again leaves the address of the DBcc behind.
AddressLeft == IF pf_adv THEN pipe.irc_pc ELSE pipe.ir_pc

ir_pc_nxt == CASE loopback -> pipe.irc_pc - 2 [] pf_adv -> pipe.irc_pc [] OTHER -> pipe.ir_pc

pipe_nxt ==
  [ir     |-> CASE loopback -> loop.ir [] pf_adv -> pipe.irc [] OTHER -> pipe.ir,
   ir_pc  |-> ir_pc_nxt,
   irc    |-> IF pf_fetch THEN word_at(pipe.pc) ELSE pipe.irc,
   irc_pc |-> IF pf_fetch THEN pipe.pc ELSE pipe.irc_pc,
   pc     |-> CASE uw.dst = "pc" -> y [] pf_fetch -> pipe.pc + 2 [] OTHER -> pipe.pc]

t0_nxt == IF uw.dst = "t0" /\ uw.src = "irc_pc" THEN y ELSE t0

loop_op_ok == kind(pipe_nxt.ir) = "body" /\ looped \in Repeatable

\* Mutant: a loop is entered whatever its length.
AnyLength == uw.lp = "enter" /\ loop_op_ok

\* Entering takes a displacement of minus four, remembered since the target was
\* computed, and an instruction at the target that can be looped.
starts == uw.lp = "enter" /\ loop.m4 /\ loop_op_ok

loop_nxt ==
  [active |-> CASE starts -> TRUE [] uw.lp = "exit" -> FALSE [] OTHER -> loop.active,
   ph     |-> CASE starts \/ loopback    -> FALSE
                [] loop.active /\ pf_adv -> TRUE
                [] OTHER                 -> loop.ph,
   ir     |-> IF starts THEN pipe_nxt.ir ELSE loop.ir,
   m4     |-> IF uw.lp = "chk" THEN displacement(pipe.irc) = -4 ELSE loop.m4]

\* Mutant: the preview of the next word knows nothing of loop mode.
NeverSuppressed(w) == FALSE

\* The request presented, as this word retires, for the word that comes next;
\* the bus unit takes it at once unless it is still busy with another.
n_loop_suppress(w) == loop.active /\ uw.lp # "exit" /\ w.bus = "prog"
Requested(w) == IF n_loop_suppress(w) THEN "none" ELSE w.bus
cycle_nxt(w) == IF loop_suppress /\ cycle # "none" THEN cycle ELSE Requested(w)

\* Mutant: no interrupt while a loop runs, whosever turn it is.
NeverInALoop == /\ irq /\ \A k \in 1..Len(frames) : frames[k].mid
                /\ ~loop.active /\ uw.seq = "decode"

\* No other interrupt while one is being handled.
irq_pending == irq /\ \A k \in 1..Len(frames) : frames[k].mid
\* The phase asked is that of the word that decodes, before the word changes it.
take_irq    == irq_pending /\ ~(loop.active /\ loop.ph) /\ uw.seq = "decode"

\* The decoder tells a DBcc that is being looped from any other.
dec_dbcc(w) == loop.active /\ kind(w) = "dbcc"
Decode(w) == /\ doing' = w
             /\ label' = <<IF dec_dbcc(w) THEN "loop" ELSE "plain", "start">>
             /\ upc' = 1

Goto(l) == label' = [label EXCEPT ![2] = l] /\ upc' = 1 /\ UNCHANGED doing

\* The instruction at a, once exception processing or RTE has refilled the pipe:
\* all that is kept of their words is where the pipe and the microcode end up.
Refill(a) == /\ doing' = word_at(a) /\ label' = <<"plain", "start">> /\ upc' = 1
             /\ pipe' = Ordinary(a) /\ UNCHANGED t0
             /\ cycle' = uw'.bus

Init ==
  /\ looped \in Bodies /\ restores \in Builds
  /\ doing = 0 /\ label = <<"plain", "start">> /\ upc = 1
  /\ pipe = Ordinary(0) /\ t0 = 0
  /\ loop = [active |-> FALSE, ph |-> FALSE, ir |-> nowhere, m4 |-> FALSE]
  /\ cycle = uw.bus /\ frames = <<>> /\ irq = FALSE

\* A microword commits, and the next one is current; a request goes with it.
Advance ==
  /\ ~take_irq
  /\ loop' = loop_nxt /\ pipe' = pipe_nxt /\ t0' = t0_nxt
  /\ \/ uw.seq = "next"   /\ upc' = upc + 1 /\ UNCHANGED <<doing, label>>
     \/ uw.seq = "goto"   /\ Goto(uw.to[1])
     \/ uw.seq = "cond"   /\ \E k \in {1, 2} : Goto(uw.to[k])
     \/ uw.seq = "decode" /\ Decode(pipe_nxt.ir)
  /\ UNCHANGED <<frames, irq>>
  /\ cycle' = cycle_nxt(uw')

\* An interrupt ends loop mode and stacks the instruction that is due.
Interrupt ==
  /\ take_irq
  /\ frames' = <<[mid |-> FALSE, at |-> pipe_nxt.ir_pc]>> \o frames
  /\ loop' = [loop_nxt EXCEPT !.active = FALSE]
  /\ irq' = FALSE
  /\ Refill(Handler.interrupt)

Commit == /\ retire /\ kind(doing) \notin {"rte", "none"}
          /\ UNCHANGED <<looped, restores>>
          /\ Advance \/ Interrupt

\* A word that is current and has no cycle asks for it, until it has one.
Ask == /\ ~retire
       /\ cycle' = uw.bus
       /\ UNCHANGED <<looped, restores, doing, label, upc, pipe, t0, loop, frames, irq>>

\* A fault suspends the loop rather than ending it.
ForgetsPhase == loop.active /\ loop.ph /\ ~restores
ForgetsTest  == label[2] = "take" /\ uw.pf # "none"

Fault ==
  /\ uw.bus # "none" /\ cycle # "none"
  /\ kind(doing) # "rte"
  /\ Cardinality({k \in 1..Len(frames) : frames[k].mid}) < MaxFaults
  /\ PhaseKept => ~ForgetsPhase
  /\ TestKept  => ~ForgetsTest
  /\ frames' = <<[mid |-> TRUE, doing |-> doing, label |-> label, upc |-> upc, pipe |-> pipe,
                  t0 |-> t0, loop_ir |-> loop.ir,
                  loop_saved |-> [active |-> loop.active, ph |-> loop.ph]]>>
                 \o frames
  /\ loop' = [loop EXCEPT !.active = FALSE]
  /\ UNCHANGED <<looped, restores, irq>>
  /\ Refill(Handler.error)

\* Mutant: the looped instruction is not part of what comes back.
InstructionLeft(top) == [loop EXCEPT !.active = restores /\ top.loop_saved.active,
                                     !.ph     = restores /\ top.loop_saved.ph]

\* What a frame brings back of loop mode.
Restored(top) == [loop EXCEPT !.active = restores /\ top.loop_saved.active,
                              !.ph     = restores /\ top.loop_saved.ph,
                              !.ir     = top.loop_ir]

\* RTE of either frame.  The word that faulted is current again with no cycle
\* of its own yet: there is no preview of it.
RTE ==
  /\ kind(doing) = "rte" /\ frames # <<>>
  /\ frames' = Tail(frames)
  /\ UNCHANGED <<looped, restores, irq>>
  /\ LET top == Head(frames) IN
     \/ /\ top.mid
        /\ doing' = top.doing /\ label' = top.label /\ upc' = top.upc
        /\ pipe' = top.pipe /\ t0' = top.t0
        /\ loop' = Restored(top)
        /\ cycle' = "none"
     \/ /\ ~top.mid
        /\ Refill(top.at) /\ UNCHANGED loop

\* A device asks, and keeps asking until it is answered.
Request == ~irq /\ irq' = TRUE
           /\ UNCHANGED <<looped, restores, doing, label, upc, pipe, t0, loop, cycle, frames>>

\* What the clock makes the processor do, one or another in every state.
Clock == Commit \/ Ask \/ RTE

Next == Clock \/ Fault \/ Request

Spec     == Init /\ [][Next]_vars
FairSpec == Spec /\ WF_vars(Clock)

-----------------------------------------------------------------------------
(***************************************************************************)
(* Properties.                                                             *)
(***************************************************************************)
Begins == label[2] = "start" /\ upc = 1

\* Every instruction begins in the pipe of an ordinary instruction stream, but
\* for a DBcc that is looped: whoever takes over at a boundary, or comes back to
\* an instruction in the middle, finds the displacement where it looks for it.
BoundaryOrdinary == Begins /\ ~(loop.active /\ loop.ph) => pipe = Ordinary(doing)

\* What is repeated is a loop of the program: the word kept is the one before
\* the DBcc, and the displacement nobody reads again leads back to it.
LoopIsALoop ==
  loop.active => /\ kind(pipe.irc) = "dbcc" /\ loop.ir = pipe.irc - 2
                 /\ displacement(word_at(pipe.irc + 2)) = -4

\* The bus unit runs the cycle of the word that waits for it, and runs none
\* while a word does not wait: nothing is fetched while a loop runs.
CycleIsItsOwn == cycle # "none" => cycle = uw.bus /\ ~loop_suppress

\* A pending interrupt is taken; while a loop runs only if the looped instruction
\* prefetches in its last word, and otherwise once the loop has ended: the phase
\* take_irq asks has by then gone over to the DBcc, and DBcc's own last word, which
\* sets it back, still sees it there.  A bus error handler keeps no one waiting.
LoopsEnd    == []<>~loop.active
FetchesLast == LET c == Routines[looped]["body"].start IN c[Len(c)].pf # "none"
IrqTaken    == FetchesLast \/ LoopsEnd => (irq_pending ~> ~irq)

\* What seq.sv 1544-1545 says instead: an interrupt that is pending is taken after
\* each execution of the DBcc, and not after the looped instruction's.  The code
\* does not do that.
AfterDBccOnly ==
  [][ Commit /\ loop.active /\ uw.seq = "decode" /\ irq_pending
        => (Interrupt <=> kind(doing) = "dbcc") ]_vars

\* The instructions executed are those an ordinary processor would execute, in
\* the same order, whatever suspends the loop or ends it.
Programs == INSTANCE Execution WITH
  at    <- doing,
  stack <- [k \in 1..Len(frames) |->
              [mid |-> frames[k].mid,
               at  |-> IF frames[k].mid THEN frames[k].doing ELSE frames[k].at]]
ExecutionSpec == Programs!Spec

-----------------------------------------------------------------------------
(***************************************************************************)
(* What the proofs ask of programs and of microcode.                       *)
(***************************************************************************)
\* A program's instructions are followed by instructions, and a branch by its
\* displacement.
Code == {a \in DOMAIN Program : Program[a].op \in {"body", "dbcc", "bra", "rte"}}

ASSUME ProgramRule ==
  /\ DOMAIN Program \subseteq Nat
  /\ \A a \in DOMAIN Program : Program[a].disp \in Int
  /\ {0, Handler.error, Handler.interrupt} \subseteq Code
  /\ \A a \in Code :
       /\ Programs!Successors(a) \subseteq Code
       /\ kind(a) \in {"dbcc", "bra"} => kind(word_at(a + 2)) = "disp"

\* An instruction of one word prefetches once, somewhere, on its way to the next.
OneFetch(c) ==
  /\ Len(c) \in Nat
  /\ \E p \in 1..Len(c) : \A u \in 1..Len(c) :
       /\ c[u].pf = IF u = p THEN "advfetch" ELSE "none"
       /\ c[u].bus = "prog" <=> u = p
       /\ c[u].lp = "none" /\ c[u].dst \notin {"pc", "loopback"}
       /\ c[u].seq = IF u = Len(c) THEN "decode" ELSE "next"

Body(i) == Routines[i]["body"].start

ASSUME BodyRule == \A i \in Bodies : OneFetch(Body(i))

\* The words of DBcc and of the branch are those of module Instructions.
ASSUME BranchRule ==
  \A i \in Bodies :
    /\ \A l \in DOMAIN dbcc : Routines[i]["dbcc"][l] = dbcc[l]
    /\ Routines[i]["bra"].start = bra("long").start
    /\ Routines[i]["bra"].branch_refill = branch_refill

\* No instruction that can be looped begins with its prefetch, which CLR does:
\* the request for it is made before the loop is known to run.
NoneFetchesFirst == \A i \in Repeatable : Body(i)[1].bus # "prog"
=============================================================================
