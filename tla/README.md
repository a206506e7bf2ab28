# RD68011: specification and proofs

TLA+ modules for the RD68011, a synthesizable MC68010: its bus interface unit,
its microengine, its datapath running the microcode of the instruction set, its
loop mode and loop buffer, and its divider. TLC checks the modules on small
instances; TLAPS proves the results that hold for every value of the constants.
Paths below are relative to the repository root; `seq.sv` is
`rtl/rd68011_seq.sv`, `biu.sv` is `rtl/rd68011_biu.sv`, `program.py` is
`tools/ucode/program.py`.

## 1. The system

| component | source | state | operations | interacts with |
|---|---|---|---|---|
| Bus interface unit | `biu.sv` | cycle state on each clock edge, arbitration state, E counter, strobe and enable flops, termination code | a step per clock edge: start, advance, sample, end, retry, release, grant | the sequencer's request ports; the board's DTACK, BERR, HALT, VPA, BR, BGACK, RESET pins |
| Sequencer: microengine | `seq.sv` | micro-address, working registers, SR and its saved copy, `group0`, `halted`, `upc_save`, `rr_flag`, `rerun_skip`, `trace_armed`, interrupt detector | a microword waits, commits or faults each clock | microprogram store, bus unit, interrupt lines |
| Sequencer: loop mode | `seq.sv` 2205-2273 | `loop_active`, `loop_ph`, `loop_ir`, `loop_m4`, `loop_saved`, `loop_pending` | enter, hand over, suspend, restore, end | prefetch pipe, faults, RTE, interrupts |
| Sequencer: loop buffer | `seq.sv` 1820-1945 | a window of words with valid bits | arm, fill, answer, flush | bus unit, other masters, invalidate pin |
| Sequencer: request preview | `seq.sv` 1608-1760 | the current word's preview of its successors | select the next request a clock early | bus unit, assembler |
| Datapath, flags, address unit | `seq.sv` 500-1446 | architectural and working registers | operand selection, address update, flags | ALU, shifter, multiplier, divider, request preview |
| Divider | `rd68011_divider.sv` | quotient, remainder, count, signs | start, 32 steps, done | microprogram's wait loop |
| ALU, shifter, multiplier | `rd68011_alu.sv`, `_shifter.sv`, `_mul.sv` | none or a pipeline register | combinational arithmetic | datapath |
| Dual-edge flop, synchroniser | `rd68011_dedge_ff.sv`, `_sync.sv` | two half-registers; a shift chain | load on either edge; sample | every bus pin |
| Microprogram | `program.py` | none: a table | 6674 words in routines | microengine, assembler |
| Assembler, field definitions | `tools/ucode/assemble.py`, `isa.py` | none | resolve, preview, check, emit the ROMs | microprogram |
| Timing analysis, cosimulation, vector checks, test benches | `tools/`, `sim/` | offline | | pins, listings |

What is hard in it, and what makes each part correct:

* **Bus interface unit.** Everything happens on both clock edges; pins from the
  board arrive at any of them. A cycle can be retried, stretched by HALT, ended
  by a bus error one sample after DTACK, or lose its turn to another master.
  Correct means: no cycle runs without owning the bus, two masters never drive
  it, the sequencer is told the truth about how its request ended, a
  read-modify-write is indivisible, VPA cycles end in step with E, and requests
  of both sides are served.
* **Microengine.** A fault can suspend an instruction at any bus cycle. The
  format $8 frame must hold everything the rest of the instruction needs, the
  handler may run anything (and fault), and RTE must resume the word that
  faulted, with or without its access. Trace, interrupts, STOP, refused
  instructions and RESET meet that at the same boundaries. Correct means: a
  resumed instruction never sees a value it did not compute; it resumes at its
  own word; an executed instruction is traced once; a level seven request is
  serviced once; the processor halts exactly for a fault in group 0 processing.
* **Loop mode and loop buffer.** Fetches are suppressed or answered from inside.
  Correct means: the words executed are those memory holds, whatever faults,
  interrupts, writes and other masters do in between.
* **Microprogram and datapath.** Every routine moves an address
  register once, refills the pipe exactly, and may be suspended at any cycle and
  run the interrupted word again. Correct means: whatever faulted, each operand is read and
  written once, where the programmer's model says, and registers that coincide
  (`MOVE.L -(A0),(A0)+`, MOVEM with its base in the list) do what it says.
* **Request preview.** The request for the next word is presented before the
  word is known to be next, with an address register this word may be changing.
  Correct means: it is that word's request.
* **Divider.** It works on magnitudes while the microcode that started it has
  moved on. Correct means: the right quotient and remainder, and an overflow
  exactly when the quotient does not fit.

## 2. Modules

`BusInterface` models `biu.sv`. `Rising` and `Falling` are the two clock edges
and evaluate every register's next value together as the code's clocked blocks
do; the pins (`BoardPin`, and the four steps of another master,
`MasterRequest`, `MasterAcknowledge`, `MasterDropRequest`, `MasterRelease`) move
between edges. State names, registers and enables keep the code's names
(`st_p_nxt`, `arb_st`, `as_set`...). Addresses, function codes and data are
abstracted to the identity of the request. Constants choose which kinds of cycle, which
answers and which pins a run has.

`BusAccess` is what the bus unit promises the sequencer: a request is accepted,
its access runs, possibly several times, and is reported once with the outcome
of its last attempt; a read-modify-write has one attempt only.
`BusInterface!AccessSpec` states the refinement.

`Microengine` models the control of `seq.sv`: one step is one clock, in which
the current microword waits for the bus (`Stall`), commits (`Commit`) or faults
(`Fault`). The microprogram is the constant `Micro`: a word has a bus cycle,
the working registers it reads and writes, a special destination, marks
(`notrace`, `g0`, `stop`) and a successor rule. A working register's value is
its *provenance*: the fault context of the instruction that wrote it. Context 0
is the program, context n the handler of the n-th fault that is still open, and
a new instruction in a context forgets what the old one wrote, except the
prefetch pipe. That is the abstraction instruction continuation needs: a wrong
value is one somebody else wrote. `short` and `long` are the frames on the
stack, `owed`, `faulted`, `asked7` and `served7` history of what the traced
instruction, the faulted word and the level seven request are.

`Microprogram` holds the routines of `program.py` the exceptions are made of,
and an instruction of each shape that carries values over a bus cycle: MOVE to
-(An) (prefetch first, then two writes through the address latch), TAS, the
MOVEM loop, multiply and divide, DBcc, STOP, MOVE to SR, traps, privileged and
illegal ones. The 26 writes of a format $8 frame are one word, and so are the
reads of RTE's walk after its first: each may fault as a whole.

`Checkpoint` states the rule of `doc/checkpoint.md` ("Anything an instruction
needs to carry across a bus cycle goes here or it does not exist") as something
a microprogram has or lacks, over an annotation of it: `Live[a]`, the registers
the word at `a` still needs; `Building`, the words of a fault's sequence up to
the write of its frame; `Returning`, the words of RTE that run only with a
format $8 frame on top; `Processing`, the words that run in group 0 only. Then
`LiveRule` says that a word needs what it reads and what its successors need
that it does not write; `FrameRule` that what is live at a cycle that may fault
is in the frame, or the fault halts; `BuildRule` that nothing the frame holds is
overwritten before it is written; `ReturnRule` that RTE reloads and resumes only
a frame it has; `GroupRule` that group 0 is entered on purpose.

`Tracing` does the same for the trace bit, which the frame holds only inside the
saved status register: `Reached`, the words a program's instructions come to;
`Steady`, the words where T is still what the instruction began with; `Saving`,
the words of a fault's sequence and of RTE where `sr_save` is the suspended
instruction's. `ReachRule` says a cycle that may suspend an instruction is at a
steady word, `SteadyRule` and `SavingRule` that nothing changes T or `sr_save`
on the way there.

### Instruction set and datapath

`Instructions` holds the routines of `program.py` for every instruction family,
addressing mode and operand size, built from the same helpers the source uses
(`ea_setup`, `ea_read_operand`, `final_prefetch`, `rmw_group`...). A word names
its sources and destination, its bus cycle and the address that uses, the
address register that moves, and its successor. Byte operands take the path of
word ones and share it; what the ALU computes, condition codes and vector
numbers are left out; the arms of a conditional word, which only jump on, are
folded into it. Instructions that only differ in the ALU's operation share one
record. `routine` and `ControlStore` turn an instruction into its words; the
configurations give it to `Datapath` and `LoopMode` as `Micro`.

`Datapath` runs them on the registers of `seq.sv`, one microword a step. Data is
symbolic: a register begins an instruction holding its own name, a word of
memory its own address, and what the ALU makes of values is the set of them, so
two values are equal when they were computed from the same things. A value is
`<<high, low, n>>`, a long of two words and what has been added to it. A field of
the opcode names a register only while the latch it is read from holds that
opcode: a word that reads it later gets `"stray"`. A7's two registers are one
name. `asked` is the address presented for a word a clock before it is current
(`n_addr`, with its bypass of registers on their way, `n_ea_base`). `Fault` is a
bus error, its handler and RTE in one step: the frame brings everything back
except what is not in it.

`Programmer` says what each instruction promises, without microcode: the cells
it reads and writes, the registers afterwards, the next instruction. The
properties of run `instr` compare the two.

`Refill` and `Rerun` state what the routines have to follow for the next
instruction to be in place and for a faulted word to be run again, as `Checkpoint`
does for the microengine: rules over one word and its successors, with an
annotation. `InOrder` counts the words of the pipe that are in order at each word
(two at the start, none once `pc` has been loaded, both again before the decode),
and `RefillRule` says that no path of a routine finds fewer than its annotation
says. `Wanted` marks the words at which the multiplier's or divider's answer has
to be there: `AnswerRule` says that no bus cycle lies between an answer and its
reader, `BufferRule` that a word which loads the data buffer does not compute it
from the buffer. `Rerun` runs `Datapath` next to `pure`, the registers of the same
machine in which no word ever faults; a fault leaves `pure` alone. `FaultFree`
states that with `pure` for its registers the machine is `Datapath` with no faults
at all (`NoFaults`), cycle for cycle. As a history variable, `pure` excludes no
behaviour of `Datapath`.

### Loop mode and loop buffer

`Execution` is the machine a program expects: instructions one after another,
and handlers that come back. `LoopMode` has the prefetch pipe, the loop
registers, a branch's target (`t0`) and the words of looped bodies, of DBcc's
running loop and of the branches around them; a word of the program is known by
its address, so what the pipe holds can be compared with what the program has
there. A program may be any that `ProgramRule` allows (an instruction is followed
by instructions, a branch by its displacement); of a looped body's words
`BodyRule` says that one of them prefetches, which TLC evaluates for everything
in `loop_mode_table` (`EveryBody`).
`LoopMode!ExecutionSpec` states that it implements `Execution`.

`LoopBuffer` is the window of `LOOP_BUF_WORDS` words with its one-clock-old
lookup, over the microprogram of `Microprogram`. Memory is a value per address
and address space; another master writes only after its grant, or a remap
after `loop_inv_n`, has been visible for a clock (`settled`), which is what the
pins promise.

### Divider and dual-edge cell

`Divider` is `rd68011_divider.sv` together with the microcode of DIVU and DIVS
from the operand in `t1` on: a clock moves both. Its width `W` is a constant (16
in the code) and `power` the table of powers of two up to `2 * W`.
`DualEdge` has the two ranks of flops of `rd68011_dedge_ff.sv`, of any width and
with its four inputs, and `EdgeRegister` the single register they stand for, which
is how `BusInterface` takes AS, the data strobes and the output enables. The
inputs are variables of both, so that the refinement says what is loaded.

### Instances

`MCBusInterface`, `MCSequencer` (Microengine running Microprogram),
`MCCheckpoint` (the same with the annotations of `Checkpoint` and `Tracing`,
computed backwards through each routine; runs `seq_fault` and `seq_trace`),
`MCDatapath`, `MCRerun` (the annotations of `Refill` and `Rerun`; run `instr`),
`MCLoopMode`, `MCLoopBuffer` and `MCDivider` give TLC its instances. The `*_proofs`
modules hold the proofs.

### What the models leave out

Bus unit: the 124-clock RESET output pulse, the HALT and DBF outputs, the
synchronisers of IPL and the invalidate pin, CPU-space breakpoint cycles (timed
as reads), and power-on reset during operation. Microengine: condition codes,
the special status word and data input buffer, A7's two registers. Loop mode:
trace, which keeps it out. Loop buffer: loop mode, which suspends it, and
addresses that wrap. Datapath: function codes, byte lanes and address errors.

Assumptions on the surroundings, all external: another master keeps BR until it
is granted, asks again only after BG is negated, and holds BGACK until BR is
gone; the sequencer holds a request until `req_last` and presents the next on
that edge (`seq.sv` 1945-1965); in runs with `ERuns = FALSE` the E clock stands
still; programs return with RTE from frames in the order they were stacked, and
change only a frame's rerun flag; the board holds RESET until the microengine
has seen it.

### Named bounds

Six constants exclude a disagreement of section 5 from a run, so that the run
says everything else holds. With any of them `FALSE` the property named is
violated:

| constant | excludes | violated without it |
|---|---|---|
| `BusInterface!RmwKept` | a bus error in the read half of a read-modify-write | `StrobePerCycle`, `MasterServed` |
| `Datapath!UnitKept` | a fault in a word that reads the multiplier's or divider's answer | `RegistersRight`, with `Products` and `MCDatapath` |
| `Datapath!BufferKept` | a fault in a word that combines the data buffer into itself | `WritesOnce` (run `v_buffer_twice`) |
| `LoopMode!PhaseKept` | a fault once the DBcc is next, in a build with `RTE_RESTORES_LOOP = 0` | `BoundaryOrdinary` |
| `LoopMode!TestKept` | a fault between the displacement's test and its use | `LoopIsALoop` |
| `LoopBuffer!AheadKept` | a write to the very word fetched next | `ServedIsMemory` |

## 3. Runs

| run | instance | shows |
|---|---|---|
| `bus_arb` | reads, writes, read-modify-writes; DTACK, BERR, HALT, retry; one other master | ownership, no double driving, true reports, indivisible read-modify-writes, HALT respected, refinement of `BusAccess` |
| `bus_m6800` | write and acknowledge cycles with VPA and RESET pulses, E running | VMA and E relations, such a cycle always ends |
| `bus_served` | reads and read-modify-writes under arbitration, BERR, retry and HALT, with `RmwKept` | one strobe per cycle; both sides' requests are served |
| `seq_fault` | bus errors in every routine named, two contexts deep | the microprogram follows the checkpoint, boundary and processing rules (assumptions TLC evaluates); own values only, resumption at the faulted word, rerun flag, group 0 |
| `seq_trace` | a traced user program with faults, level 3 interrupts, traps, refused instructions | trace exactly once, and before an interrupt; the microprogram follows the tracing rule as well |
| `seq_irq` | levels 0, 3, 7 moving at every clock, spurious interrupts, STOP, RESET | only levels asked for, level seven once and always |
| `instr` | every instruction, mode and size; up to two faults at any of its cycles; coinciding registers; MOVEM masks of none to three registers | operands read and written once and where promised, registers, pipe in step, request foreseen; a word run again finds what it found at first, and the machine implements the one without faults; all the microcode follows the rules of `Refill` and `Rerun` (assumptions TLC evaluates) |
| `loop` | loops of one and of two instructions in the program, one in the handler; bodies of every shape of microcode; both builds; one fault, an interrupt at any clock | loop mode repeats loops only, fetches nothing, hands over an ordinary pipe; a pending interrupt is taken, in the loop or after it; refinement of `Execution` |
| `loop_buffer` | four words of memory, a window of two, two spaces, writes, faults, other masters, invalidation | answers are what memory holds, given once, one fetch per trip |
| `divide` | every dividend of eight and divisor of four bits, signed and not | the division is right, overflow is exact, the wait ends |
| `v_buffer_twice`, `v_loop_clear` | | two of the disagreements of section 5 |

Bounds. The bus unit has no counter but E's (ten clocks, modelled in full where
E runs); its runs need only one request in flight, since the unit holds one, and
a single other master, since BR and BGACK are wired together on the board.
`MaxLong` = 2 lets a handler fault and its handler return into it; a third level
repeats the second, because a context touches only its own frame and the one
below. `MaxShort` = 1 leaves up to three four-word frames in a context (a trap,
an interrupt in its handler, a level seven in that): beyond it the program only
returns. `Levels` {0, 3, 7} has a level below, at and above every mask used, and
the only level that is an edge. `MayFault` leaves out, in the passing runs, the
routines of the disagreements below. In `instr`, two
faults are one on a word that has faulted before, or on a word that finds what the
first left; a third is one of these again. Every boundary gives registers their
names again, so one instruction stands for any sequence. In `loop`, `Bodies` has the shortest instruction of each shape its
words can have around the prefetch. In `loop_buffer`, a window of two has an
inside and both edges. In `divide`, four bits have every combination of signs,
both ends of the quotient's range and every number of iterations that differ.

Fairness. `BusInterface` assumes that the clock runs and, for liveness, that the
board answers (DTACK, BERR or VPA), removes HALT and RESET, and that the other
master gives the bus back. `Microengine!FairSpec` assumes weak fairness of the
microword committing: each word ends, which is what `bus_served` and `bus_m6800`
show of the bus unit. `LoopMode!FairSpec` and `Divider!FairSpec` assume that the
clock runs. That a loop's counter runs out (`LoopsEnd`) is not an assumption of
the specification; it is a premise of `IrqTaken` for the bodies that need it, those
that prefetch before their last word. For the others (`FetchesLast`) an interrupt is
taken however long the loop.

## 4. Proofs

`BusInterface_proofs`, for every choice of the constants:

* `TypeCorrect`: `Spec => []TypeOK`.
* `CycleOwnsBusAlways`: from the first state of a cycle to its last transfer
  state the processor's outputs stay enabled.
* `OneMasterAlways`: with BGACK asserted, they are off from the next rising edge on.

Neither is inductive: what the falling edge may do depends on what the rising
edge before it decided, and the arbiter's state on what it was when the cycle's
start was decided. `OwnershipInv` adds what ties them: the two halves of the
state machine are in step (`InStep`), strobes and enables belong to a state of
the cycle (`StrobeInv`, `CycleInv`), a grant excludes a cycle that is starting
(`GrantInv`), BGACK follows a grant the bus unit gave (`HandedInv`, `AckInv`),
and BR holds until then (`RequestInv`). The proof has a step per action, and
one per conjunct that the action can disturb.

On that ownership stands what a transfer does. For every choice of the constants:

* `TransferDrivenAlways`: while a slave is asked to answer, strobes, address,
  direction and data on the pins are this request's.
* `RMWIndivisibleAlways`: AS and the address stay between its two halves.
* `EndsWithEAlways`: an M6800 cycle ends as E falls.
* `BusImplementsAccess`: every step of the bus unit is a step of `BusAccess` or
  none, with the cycle's state and termination code mapped to the access's phase.

And where one condition of the code breaks the property otherwise (section 5):

* `ReportIsTrueAlways`, with no RESET pulses: RESET withdraws the address of the
  cycle it abandons, whose report is still on its way;
* `HaltHonouredAlways`, where no slave answers VPA;
* `VmaBeforeEAlways`, with no read-modify-writes;
* `StrobePerCycleAlways`, under `RmwKept` or with no read-modify-writes.

The inductive invariant is `BusInv`: `TypeOK`, `OwnershipInv`, and `TransferInv`,
which says of every state of the cycle which of the strobe, address, direction
and data flops are set and which termination flags can be (`FlagInv`, `EndInv`,
`AddrInv`, `DsInv`, `DataInv`, `RwInv`), and what is held while the sequencer waits
(`HeldInv`, `SilentInv`, `HoldInv`). The properties with a hypothesis add
a conjunct each (`ReadInv`, `HaltInv`, `VmaInv`, `KeptInv` and `NegatedInv`), as does the relation
to E (`EInv`).

`Checkpoint_proofs`:

* `TypeCorrect`: `Spec => []TypeOK` of the microengine, whatever the
  microprogram, as long as its words have successors (`MicroengineAssumption`).
* For every microprogram that follows the checkpoint rule, with any number of
  faults open at once, any interrupt levels and RESET at any time:
  * `OwnValuesAlways`: no word reads a register that another instruction or a
    fault handler wrote;
  * `ResumesFaultedAlways`: RTE of a format $8 frame goes back to the word that
    faulted and obeys the rerun flag;
  * `SkipsOnlyFaultedAlways`: the rerun flag excuses no other word.

None of the three is inductive: a resumed word reads what a frame held, perhaps
many handlers ago. `CheckpointInv` says where an instruction's values are at
every moment: the running word's live registers are its own (`RunInv`); a
suspended instruction's are in its frame (`SuspendedInv`), or still in the
registers while that frame is being built (`BuildingInv`), or there again
between RTE's reload and its resumption (`ResumeInv`). It needs to know that a
word that was suspended was not in group 0 (`FaultedInv`, `GroupInv`: a fault in
the middle of writing or reloading a frame halts, which is why those words need
no checkpoint), and that RTE has a frame below it when it runs (`ReturnInv`).
The induction goes by retirement: a plain commit, the write of a frame, the
reload, the resumption, and the three kinds of fault. `MaxLong`, which bounds
TLC's runs, is any natural number in the proofs.

The premises of `Checkpoint_proofs` are `MicroengineAssumption`, `CheckpointRule`, `EntryRule` and
`AnnotationType`. TLC evaluates all four for the microprogram of `Microprogram`
in `seq_fault`. With `"div"`, `"mul"`, `"dbcc"` or `"except_frame"` added to
`MayFault`, `CheckpointRule` is false: those are the exceptions section 5 records.

`Boundary_proofs`, on the same microengine:

* `IrqHonestAlways`: an interrupt is serviced at a level above the mask or at
  seven. `InterruptInv` adds that no frame resumes the interrupt sequence's
  first word, which has no cycle to fault in.
* `Irq7OnceAlways`: a level seven request is serviced once. At mask seven only
  the remembered edge lets it through, and being serviced forgets the edge.
* `GroupIsProcessingAlways`: `group0` is set exactly while a reset, a fault or
  the reload of a frame is being processed, so a fault halts the processor then
  and at no other time. `ProcessingInv` adds where the words that resume may be.
* `TraceExactlyAlways`, `TraceFirstAlways`: at a boundary a trace is pending
  exactly if the instruction began with T set and was executed, at any depth of
  suspension, and it goes before an interrupt. What the instruction began with
  is history, and the only copy a suspension leaves is a bit of the status
  register in its frame; `TraceInv` follows that copy: `ArmedInv` (where a word
  may be suspended, T is what is armed), `SavingInv` (a fault's sequence and RTE
  have it in `sr_save`) and `OwedInv` (every other suspended instruction has it in
  its frame). Hypothesis: no RESET pulses (`ResetPin = FALSE`), which restart the
  microprogram with `trace_armed` as it was.

These are for every microprogram that follows the rules of `Checkpoint`
(`BoundaryRule` and `ProcessingRule` among them) and, for trace, `TraceRule` of
`Tracing`; TLC evaluates them all for `Microprogram` in `seq_fault` and
`seq_trace`. `TraceRule` is false with a STOP that a traced program reaches, and
with `"except_frame"`, `"movetosr_body"` or `"rte_ok"` added to `MayFault`: section 5.

`LoopMode_proofs`, for every program, every set of one-word bodies that follow
`BodyRule`, and any number of faults:

* `BoundaryOrdinaryAlways`: an instruction begins in the pipe of an ordinary
  instruction stream, but for the DBcc of a running loop.
* `LoopIsALoopAlways`: what is repeated is the word before a DBcc that leads back
  to it.
* `LoopImplementsExecution`: `Spec => ExecutionSpec`. A commit that decodes is the
  program's next instruction, any other commit no step of the program; faults and
  interrupts push what RTE pops.
* `CycleIsItsOwnAlways`: the bus unit runs the cycle of the word that waits for
  it, and fetches nothing while a loop runs.

None is inductive: the pipe a word finds was left by the words before it, and by
a frame if it was suspended. `LoopInv` says what each word finds (`At`): a body
before and after its prefetch, inside a loop and outside, DBcc falling through or
taken, at every word of its refill, the branch, RTE. The same formula with a
frame's fields says what RTE will bring back. The hypotheses are the named
bounds: `TestKept`, and `PhaseKept` or a build that restores loop mode
(`Builds = {TRUE}`); `CycleIsItsOwnAlways` also `NoneFetchesFirst`, that no looped
instruction begins with its prefetch, which is false of CLR (`v_loop_clear`).

`LoopBuffer_proofs`, for every microprogram that follows `SpaceAssumption`, and
any window and memory: `WindowCoherentAlways`, `AnsweredOnceAlways`,
`FetchedOnceAlways`, and, under `AheadKept`, `ServedIsMemoryAlways`. The lookup is
a clock old when it is used, so the induction needs what it was a lookup of:
`LookupInv` (where it found the word, the word is there still), `ArmedInv` and
`SettledInv` (others write only while the window is empty), `CoherentInv`, and
`ServedInv` (an answer promised is an answer the window still has).

`Divider_proofs`, for every width: `DivisionAlways`, that DIVU and DIVS leave the
quotient and remainder of the division, rounded towards zero, trap on zero, and
say overflow exactly when no word stands for the quotient. The invariant of the
iteration, `Divides`, is that the dividend is
`(made * den + rem) * 2^count + left`: the quotient bits made so far, and what is
left of the dividend in the same register. From there it is arithmetic: the
signs, and that a quotient and remainder in range are the only ones.
The proof uses of `power` what `WidthAssumption` says of it.

`Datapath_proofs`, for any registers that coincide and any number of faults:

* `RequestForeseenAlways`, whatever the microcode. The bypass of registers on
  their way (`BypassIsNext`) is what the register file will hold, whichever field
  of the opcode, the extension word or the list names the register
  (`NamedIsRegister`, with `FileInv`), and a fault changes no register an address is
  made of.
* `PipeWholeAlways`, for all microcode that follows `RefillRule`: an instruction
  begins with two consecutive words in the pipe and `pc` behind them. What a
  boundary finds was fetched words ago, so the invariant is about every word
  (`OrderInv`): the words in order are as many as the annotation says.
* `FindsTheSameAlways`, `FaultsLeaveNoTrace`, for all microcode that follows the
  rules of `Refill` and `Rerun`: a word that is run again finds in every register
  it reads what it would have found at first, and `SpecR => FaultFree`, every step
  mapping to a step of the machine without faults and every fault to a stutter. The
  invariant, `UnharmedInv`, says where the two machines may differ: in the
  multiplier's or divider's answer while no word wants it, and in a data buffer
  the next word to commit loads again. That the request is foreseen is needed
  here: a rerun is asked for by the word itself, the first time by its predecessor.
* `PipeInStepKept`, `ReadsOnceKept`, `WritesOnceKept`, `RegistersRightKept`, for all
  such microcode: if the machine without faults keeps its promises (`Promised`),
  so does the machine that suffers any number of them.

The hypotheses are the named bounds `UnitKept` and `BufferKept`, and the rules;
`instr` evaluates these for every word of `Instructions` (`RefillAssumption`,
`RerunAssumption`). `PipeWhole`, `OrderInv` and `UnharmedInv` hold as invariants of
`Instr.cfg` too; it checks what they are for, and `PipeInStep`, which is stronger
than `PipeWhole`.

`DualEdge_proofs`: `CellIsARegister`, for every width, the refinement of
`EdgeRegister` by the two ranks of flops. What one half stored combined with the
other comes out again (`XorCancels`), since the other is stable at its edge.

Only model-checked: that the microcode, when nothing faults, keeps what
`Programmer` promises (`Promised`; run `instr` checks `PipeInStep`, `ReadsOnce`,
`WritesOnce` and `RegistersRight` for every instruction, from which the four
theorems above go on to any number of faults), and liveness. Liveness under
fairness is out of the provers' reach. The microcode is one finite object of
several thousand words that TLC runs in full; a theorem about what it computes
would be a case for each of them. The type invariants of `BusInterface` and
`Microengine` are proved only.

## 5. Where code and documents disagree

With a violation run:

* `v_buffer_twice`: a fault on the prefetch of ADDI, SUBI, ANDI, ORI, EORI to
  memory, or of BCHG, BSET, BCLR #n to memory, replaces `dbuf` by the word's
  result, and the rerun combines the immediate with it again (`seq.sv` 2296, where
  the comment at 2290-2293 calls it safe).
* `v_loop_clear`: entering the loop of a CLR asks for a fetch nothing waits for
  (`seq.sv` 1816: the preview reads `loop_active` before it is set); the CLR's
  write ends with the fetch's report and is lost.

Found by a run whose bound now excludes it, or by a configuration named here:

* `RTE_RESTORES_LOOP = 0`: an instruction resumed while the DBcc was due (phase
  one) finds the pipe of a running loop, not the ordinary one (`seq.sv` 2256-2258;
  the comment at 59-60 says a fault is only taken at phase zero). `Loop.cfg` with
  `PhaseKept = FALSE` and `Builds = {FALSE}` violates `BoundaryOrdinary`.
* `loop_m4` is remembered across DBcc's refill and is in no frame (`seq.sv` 2227):
  a handler with a DBcc of its own changes it (`TestKept`).
* The loop buffer answers with the old word when a write changes the very word
  fetched next: `n_loop_hit` (`seq.sv` 1951) uses the lookup made before the write
  empties the window. `AheadKept = FALSE` with `Opcodes = {"nop", "move", "dbcc"}`,
  `Pins = {"none"}`, `Top = 5`, `LB_N = 4`, `Written = {3, 5}` violates
  `ServedIsMemory`; the comment at 1855-1859 calls the write snoop sound.
* DIVU, DIVS and MUL* read their answer in the word that makes the last prefetch
  (`program.py` 2826-2830, 2878-2884). If that word faults, a handler that divides
  or multiplies replaces the answer before the word is rerun, against
  `doc/checkpoint.md` 100-101 ("Anything an instruction needs to carry across a
  bus cycle goes here or it does not exist"). `UnitKept`; and with `"div"` in the
  `MayFault` of `SeqFault.cfg`, `CheckpointRule` is false.
* A fault while an exception frame is being written loses the saved status
  register (`seq.sv` 2119): TRAP from user mode whose stack write is faulted and
  resumed stacks a status register with S set, and `trace_armed`, restored from
  the same word, is lost with it. With `"except_frame"` in `MayFault`,
  `SeqFault.cfg` violates `OwnValues`.
* A traced STOP is traced twice, the second time before the handler's first
  instruction (`seq.sv` 2179, against 2166-2168). `"stop"` in the `Opcodes` of
  `SeqTrace.cfg`, with a traced supervisor state in `TracedSRs`, violates
  `TraceExactly`.
* Level seven arriving with the mask at seven is forgotten if the boundary that
  would take it takes a trace (`seq.sv` 2151, against 966 and 973). A traced
  supervisor state in `IrqSRs` violates `NmiServed`.
* AS is not negated at the end of a read-modify-write whose read half ends in
  BERR: only S19 would (`biu.sv` 717), and the cycle goes S7, BE8, BE9. The next
  cycle begins with AS asserted; `RmwKept = FALSE` in `BusServed.cfg` violates
  `StrobePerCycle`. And if BR is sampled before that cycle begins, processor and
  master wait for each other for ever: the arbiter goes to GRANT, the buses are not
  released because AS is asserted (639), and `arb_hold` (643) keeps the processor from
  the cycle whose end would negate it. The same configuration without the invariant
  violates `MasterServed`; `sim/tb/bus_arb_tb.sv` 215 says of a read-modify-write
  "Once it is over the grant takes effect as usual", and tests one that succeeds.
* Where a loop is interrupted. The comment at `seq.sv` 1544-1545 and
  `sim/tb/core_loop_tb.sv` 286-287 quote "Any pending interrupt is taken after each
  execution of the DBcc instruction, but not after each execution of the looped
  instruction". `take_irq` (1548) asks the phase before the word at the boundary
  changes it. At the last word of a DBcc that goes round again the phase is still
  DBcc's, so that boundary never takes an interrupt. At the last word of a looped
  instruction that prefetches there (MOVE, TST) the phase is still the looped
  instruction's, so an interrupt is taken after it. One that prefetches
  earlier (NEG, the shifts) has handed the phase over by then, and an interrupt waits
  until the counter has run out, up to 65536 times round. `AfterDBccOnly` says what
  the comment says: as a property of `Loop.cfg` it is violated. So is `IrqTaken`
  without its premise, by every body that does not prefetch last. A loop that is suspended
  and not restored takes interrupts at both boundaries. The instructions executed
  are the same either way (`ExecutionSpec`).
* With a grant pending, write data is released half a clock early (`biu.sv` 803,
  against 754-756); `TransferDriven` asks for the data while a slave is asked to answer, up to S6.

Noted while modelling, without a run:

* BKPT's acknowledge cycle ending in BERR takes a bus error like any cycle
  (`seq.sv` 438-439), where `program.py` 3157-3160 and `doc/divergences.md` 139 say
  it takes an illegal instruction exception however the cycle ends.
* `doc/bugs-found.md` 1053-1110 records a defect of downstream systems that needs
  `RTE_RESTORES_LOOP = 1` and was not isolated. Run `loop`, in that build, finds
  none in what it models; `v_loop_clear` and `TestKept` are candidates.
* RESUME restores `trace_armed` from the restored SR (`seq.sv` 2187-2192), which for a
  MOVE to SR that faulted after its write is not the T the instruction began with;
  so too a fault in the refill after RTE has restored SR. `TraceRule` is false with
  `"movetosr_body"` or `"rte_ok"` in `MayFault`.
* A RESET pulse restarts the microprogram (`seq.sv` 2306-2314) but
  changes neither SR, VBR, `trace_armed` nor `loop_active`, which only `rst_n` does;
  the reset routine loads none of them (`program.py` 98-132). After RESET in user
  mode the program starts in user mode with its old mask, and the stack pointer read
  from the vector table is the user's. `doc/bus-timing-compliance.md` 284 has the
  reset exception "setting the interrupt mask to 7 and clearing VBR", `seq.sv`
  2091-2093 says reset always leaves the processor in supervisor mode, and
  `doc/coding-standard.md` 84-87 that `rst_n` is not that reset.
* A bus error on the first word of RTE's walk is an ordinary fault:
  the mark that makes it a double one commits with that word (`program.py` 2276).
* The flag that VMA was asserted is cleared in S0 only (`biu.sv` 505), and VMA itself
  is negated at S7 (816): the write half of a read-modify-write that VPA answers
  ends at the falling edge of E without VMA (359).
* HALT is not honoured between cycles that end by VPA (`biu.sv` 515); a bus error
  one sample late in a read-modify-write's read half does not stop its write half
  (277), and in its write half is not reported (527).

## 6. Plan

Done: the bus interface unit; microengine and microprogram; the instruction set
on the datapath; loop mode; the loop buffer; the divider; the dual-edge cell.

Proved: the safety properties of the bus unit, the microengine, loop mode, the
loop buffer, the divider and the dual-edge cell; of the datapath, the request
preview, the whole pipe, and that faults change nothing; and the refinements of
`BusAccess`, `Execution`, `EdgeRegister` and the machine without faults.

Left, in order:

1. Loop mode and the loop buffer together: the buffer is suspended while loop
   mode runs, which is a conjunct of `n_loop_hit` today left out.
2. The opcode tables: every opcode decodes to one routine (`dec_entry`).

Not modelled, and why: the ALU, shifter, flags and multiplier are combinational
or a pipeline register, and covered by the repository's vectors; the
synchroniser is two flops whose purpose, metastability, has no model here; the
top level only wires; the ROMs are generated; the assembler's resolution and
packing, timing analysis and test benches run offline and have no state that
outlives a call.
