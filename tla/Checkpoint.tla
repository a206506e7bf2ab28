------------------------------- MODULE Checkpoint -------------------------------
(***************************************************************************)
(* The rule a microprogram has to follow for instruction continuation to   *)
(* be transparent, from doc/checkpoint.md: anything an instruction needs   *)
(* to carry across a bus cycle is in the format $8 frame.  It is stated    *)
(* over an annotation of the microprogram: the registers live at every     *)
(* word, the words that build a format $8 frame, and the words of RTE from *)
(* where it knows it has one.                                              *)
(*                                                                         *)
(* CheckpointInv is the invariant that shows, for every microprogram that  *)
(* follows the rule, that a word only reads what its own instruction       *)
(* wrote (OwnValues) and that RTE resumes the word that faulted            *)
(* (ResumesFaulted, SkipsOnlyFaulted).                                     *)
(***************************************************************************)
EXTENDS Microengine

CONSTANTS
  Live,       \* Live[a]: the registers whose values the word at a still needs
  Building,   \* the words from a fault's entry to the write of its frame
  Returning,  \* the words of RTE that run only with a format $8 frame on top
  Processing  \* words that run in group 0 only: a fault in them halts

\* Where a word goes when nothing intervenes and it does not end an instruction.
Flow(a) ==
  CASE Micro[a].seq = "goto" -> {Micro[a].to[1]}
    [] Micro[a].seq = "cond" -> {Micro[a].to[1], Micro[a].to[2]}
    [] Micro[a].seq = "next" ->
         {IF "stop" \in Micro[a].marks THEN a ELSE <<a[1], a[2] + 1>>}
    [] OTHER                 -> {}

\* Where an instruction, an exception or a reset may start.
Entries == Vectors \cup {Entry(op) : op \in Opcodes}

Ends(a) == Micro[a].seq = "decode" \/ "stop" \in Micro[a].marks

\* What is live at a word is what it reads and what its successors need that
\* it does not write; an instruction leaves the next one nothing but the pipe.
LiveRule(a) ==
  /\ Micro[a].reads \subseteq Live[a]
  /\ \A b \in Flow(a) : Live[b] \subseteq Live[a] \cup Micro[a].writes
  /\ Ends(a) => Pipe \subseteq Live[a] \cup Micro[a].writes
  /\ "stop" \in Micro[a].marks => Micro[a].seq = "next"
  /\ Micro[a].bus = "iack" => Live[Entry("spurious")] \subseteq Live[a]

\* The checkpoint: a cycle that may fault finds everything live in the frame,
\* where the address latch travels as ea_save, unless the fault would halt.
FrameRule(a) ==
  Micro[a].bus \notin {"none", "iack"} /\ a[1] \in MayFault =>
    a \in Processing \/ Live[a] \subseteq Framed \cup {"eal"}

\* Group 0 is entered by a fault or on purpose, and never left in passing.
GroupRule(a) ==
  Flow(a) \cap Processing # {} => a \in Processing \/ "g0" \in Micro[a].marks

\* A fault's frame is written before anything it holds is overwritten.
BuildRule(a) ==
  IF a \in Building
  THEN /\ Micro[a].writes \cap Framed = {}
       /\ Micro[a].seq = "next" /\ "stop" \notin Micro[a].marks
       /\ Micro[a].bus # "iack" /\ Micro[a].dst # "reload"
       /\ Micro[a].dst = "frame8" <=> <<a[1], a[2] + 1>> \notin Building
  ELSE Micro[a].dst # "frame8" /\ Flow(a) \cap Building = {}

\* RTE reloads a frame only when it has one, and resumes, in group 0, only what
\* it reloaded.
ReturnRule(a) ==
  /\ Micro[a].dst = "reload" =>
       /\ a \in Returning /\ Micro[a].seq = "next" /\ "stop" \notin Micro[a].marks
       /\ Live[<<a[1], a[2] + 1>>] \cap Framed = {}
  /\ Micro[a].seq = "resume" =>
       /\ a \in Returning \cap Processing /\ Micro[a].bus = "none"
       /\ Micro[a].dst # "reload"
  /\ \A b \in Flow(a) :
       /\ Micro[b].seq = "resume" => Micro[a].dst = "reload"
       /\ b \in Returning /\ a \notin Returning =>
            Micro[a].seq = "cond" /\ Micro[a].cond = "fmt8"
              /\ Micro[a].to[1] \notin Returning

ASSUME CheckpointRule ==
  \A a \in Addr :
    LiveRule(a) /\ FrameRule(a) /\ GroupRule(a) /\ BuildRule(a) /\ ReturnRule(a)

\* Where instructions, exceptions and resets start.
ASSUME EntryRule ==
  /\ \A op \in Opcodes : Live[Entry(op)] \subseteq Pipe
  /\ \A l \in {"trace", "interrupt"} : Live[Entry(l)] \subseteq Pipe \cup {"irq"}
  /\ \A l \in {"reset", "halted", "buserr"} : Live[Entry(l)] = {}
  /\ \A l \in {"reset", "halted"} : Micro[Entry(l)].bus = "none"
  /\ Entry("buserr") \in Building /\ "buserr" \notin Opcodes
  /\ (Building \cup Returning \cup Processing) \cap Entries \subseteq {Entry("buserr")}

\* Exceptions start at boundaries.  Taking an interrupt needs no cycle, and the
\* word it is taken at leaves the mask it was compared with alone.
ASSUME BoundaryRule ==
  /\ {"reset", "buserr", "interrupt"} \cap Opcodes = {}
  /\ Micro[Entry("interrupt")].bus = "none"
  /\ \A a \in Addr :
       /\ Entry("interrupt") \notin Flow(a)
       /\ Ends(a) => Micro[a].dst \notin {"sr_irq", "sr_new", "sr_frame", "sr_save"}

\* Group 0 processing goes on until a boundary, and no word comes into it but
\* by a fault, a reset or its mark.
InGroup(a) ==
  a[1] \in {"reset", "buserr"} \/ (a[1] = "rte_reload" /\ a # Entry("rte_reload"))

ASSUME ProcessingRule ==
  \A a \in Addr :
    /\ \A b \in Flow(a) : InGroup(b) <=> InGroup(a) \/ "g0" \in Micro[a].marks
    /\ Ends(a) \/ Micro[a].seq = "resume" => "g0" \notin Micro[a].marks
    /\ "stop" \in Micro[a].marks \/ Micro[a].bus = "iack" => ~InGroup(a)

ASSUME AnnotationType ==
  /\ Live \in [Addr -> SUBSET (Regs \ {"ea_save"})]
  /\ Building \subseteq Processing /\ Processing \subseteq Addr
  /\ Returning \subseteq Addr \ Building
  /\ "ea_save" \in Framed /\ "eal" \notin Framed
-----------------------------------------------------------------------------
\* The register file f has everything the word at a of context n still needs.
Holds(a, n, f) ==
  \A r \in Live[a] : IF r = "eal" THEN f["ea_save"] = n
                     ELSE r \in Framed /\ f[r] = n

RunInv == \A r \in Live[upc] : own[r] = ctx

GroupInv == upc \in Processing => group0

\* A suspended instruction was not in group 0, and if it was an RTE there is a
\* frame below it.
FaultedInv ==
  \A n \in Contexts : n < ctx =>
    faulted[n] \notin Processing /\ (faulted[n] \in Returning => n > 0)

\* It may go on from its frame,
SuspendedInv ==
  \A n \in Contexts : n < ctx /\ ~(n = ctx - 1 /\ upc \in Building) =>
    long[n].upc = faulted[n] /\ Holds(faulted[n], n, long[n].regs)

\* ... or, while its frame is being built, from the registers.
BuildingInv ==
  upc \in Building =>
    ctx > 0 /\ upc_save = faulted[ctx - 1] /\ Holds(faulted[ctx - 1], ctx - 1, own)

ReturnInv == upc \in Returning => ctx > 0

ResumeInv ==
  w.seq = "resume" =>
    /\ upc_save = faulted[ctx - 1] /\ Holds(faulted[ctx - 1], ctx - 1, own)
    /\ rr_flag = long[ctx - 1].rr

(***************************************************************************)
(* The invariant behind instruction continuation: what the running word    *)
(* needs is its own, what a suspended word needs is in its frame, RTE      *)
(* knows whose frame it has, and a halted processor stays halted.          *)
(***************************************************************************)
CheckpointInv ==
  /\ halted => upc \in {Entry("halted"), Entry("reset")}
  /\ ~halted => FaultedInv /\ SuspendedInv
  /\ RunInv /\ GroupInv /\ BuildingInv /\ ReturnInv /\ ResumeInv
  /\ SkipsOnlyFaulted
=============================================================================
