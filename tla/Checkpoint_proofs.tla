---------------------------- MODULE Checkpoint_proofs ----------------------------
(***************************************************************************)
(* Proofs about the microengine, for every microprogram: its types, and,   *)
(* for every microprogram that follows the checkpoint rule, that           *)
(* instruction continuation is transparent.                                *)
(***************************************************************************)
EXTENDS Checkpoint, TLAPS

(***************************************************************************)
(* Types.                                                                  *)
(***************************************************************************)
\* The current word has the form the assembler gives every word.
LEMMA WordType ==
  ASSUME TypeOK
  PROVE  w \in Word /\ Linked(upc)
BY MicroengineAssumption DEF TypeOK, w

\* Every entry is in the microprogram.
LEMMA VectorType ==
  /\ \A l \in {"reset", "halted", "buserr", "spurious", "trace", "interrupt"} :
       Entry(l) \in Addr
  /\ \A op \in Opcodes : Entry(op) \in Addr
BY MicroengineAssumption DEF Vectors

\* Where a word's sequencing goes is in the microprogram, unless it is not used.
LEMMA TargetType ==
  ASSUME TypeOK, NEW t \in upc_target, w.seq # "resume", "stop" \notin w.marks
  PROVE  t \in Addr
<1>1. w \in Word /\ Linked(upc)
  BY WordType
<1>2. CASE w.seq = "decode"
  BY <1>2, VectorType DEF upc_target, Decodable
<1>3. CASE w.seq = "cond"
  <2>1. Len(w.to) = 2 /\ w.to \in Seq(Addr)
    BY <1>1, <1>3 DEF Linked, Word, w
  <2>2. w.to[1] \in Addr /\ w.to[2] \in Addr
    BY <2>1
  <2> QED BY <1>3, <2>2 DEF upc_target
<1>4. CASE w.seq = "goto"
  <2>1. w.to # <<>> /\ w.to \in Seq(Addr)
    BY <1>1, <1>4 DEF Linked, Word, w
  <2>2. w.to[1] \in Addr
    BY <2>1
  <2> QED BY <1>4, <2>2 DEF upc_target
<1>5. CASE w.seq = "next"
  BY <1>1, <1>5 DEF upc_target, Linked, w
<1> QED BY <1>1, <1>2, <1>3, <1>4, <1>5 DEF Word

\* A word that commits goes to one that exists.
LEMMA NextType ==
  ASSUME TypeOK, NEW t \in upc_target
  PROVE  upc_nxt(t) \in Addr
<1>1. CASE halted \/ w.seq = "resume" \/ take_trace \/ take_irq
  BY <1>1, VectorType DEF upc_nxt, TypeOK
<1>2. CASE ~halted /\ w.seq # "resume" /\ ~take_trace /\ ~take_irq
  <2>1. upc_nxt(t) = IF "stop" \in w.marks THEN upc ELSE t
    BY <1>2 DEF upc_nxt
  <2> QED BY <1>2, <2>1, TargetType DEF TypeOK
<1> QED BY <1>1, <1>2

\* The status register, whatever software loads into it, keeps its type.
LEMMA SrType ==
  ASSUME TypeOK, NEW new \in Status
  PROVE  sr_nxt(new) \in Status
<1>1. HasShort => Head(TopShort) \in Status
  BY DEF TypeOK, HasShort, TopShort
<1>2. [sr EXCEPT !.s = TRUE, !.t = FALSE] \in Status
  BY DEF TypeOK, Status
<1>3. [s |-> TRUE, t |-> FALSE, i |-> irq_taken] \in Status
  BY DEF TypeOK, Status
<1> QED BY <1>1, <1>2, <1>3 DEF sr_nxt, TypeOK

\* Provenance stays within the contexts, after a commit and after a fault.
LEMMA OwnType ==
  ASSUME TypeOK
  PROVE  own_nxt \in [Regs -> Owners] /\ own_fault \in [Regs -> Owners]
<1>1. ctx \in Owners /\ Unwritten \in Owners /\ \A r \in Regs : own[r] \in Owners
  BY MicroengineAssumption DEF TypeOK, Owners
<1>2. "eal" \in Regs /\ "ea_save" \in Regs
  BY MicroengineAssumption
<1>3. ASSUME NEW r \in Regs
      PROVE  Reloaded(r) \in Owners
  <2>1. CASE r \in Framed /\ ctx > 0
    <3>1. ctx - 1 \in Contexts
      BY <2>1, MicroengineAssumption DEF TypeOK, Contexts
    <3>2. long[ctx - 1].regs[r] \in Owners
      BY <2>1, <3>1 DEF TypeOK
    <3> QED BY <2>1, <3>2 DEF Reloaded
  <2>2. CASE ~(r \in Framed /\ ctx > 0)
    BY <1>1, <2>2 DEF Reloaded
  <2> QED BY <2>1, <2>2
<1>4. \A r \in Regs : Resumed(r) \in Owners
  BY <1>1, <1>2 DEF Resumed
<1>5. own_nxt \in [Regs -> Owners]
  BY <1>1, <1>3, <1>4 DEF own_nxt
<1>6. own_fault \in [Regs -> Owners]
  BY <1>1, <1>2 DEF own_fault
<1> QED BY <1>5, <1>6

\* Frames that are stacked, written, read and taken off keep their type.
LEMMA FrameType ==
  ASSUME TypeOK, NEW rr \in BOOLEAN
  PROVE  /\ short_nxt \in [Contexts -> Seq(Status)]
         /\ long_nxt(rr) \in [Contexts -> [upc : Addr, sr : Status,
                                regs : [Framed -> Owners], rr : BOOLEAN]]
         /\ sr_save_nxt \in Status
<1> DEFINE LongFrame == [upc : Addr, sr : Status, regs : [Framed -> Owners], rr : BOOLEAN]
<1>0. long \in [Contexts -> LongFrame] /\ ctx \in Contexts /\ short[ctx] \in Seq(Status)
  BY DEF TypeOK
<1>1. short_nxt \in [Contexts -> Seq(Status)]
  <2>1. <<sr_save>> \o short[ctx] \in Seq(Status)
    BY <1>0 DEF TypeOK
  <2>2. HasShort => Tail(short[ctx]) \in Seq(Status)
    BY <1>0 DEF HasShort, TopShort
  <2> QED BY <1>0, <2>1, <2>2 DEF short_nxt, TypeOK
<1>2. ASSUME ctx > 0
      PROVE  ctx - 1 \in Contexts
  BY <1>2, MicroengineAssumption DEF TypeOK, Contexts
<1>3. Frame8 \in LongFrame
  <2>1. [r \in Framed |-> own[r]] \in [Framed -> Owners]
    BY MicroengineAssumption DEF TypeOK
  <2> QED BY <2>1 DEF Frame8, TypeOK
<1>4. NoLong \in LongFrame
  <2>1. [s |-> TRUE, t |-> FALSE, i |-> 7] \in Status
    BY DEF Status
  <2>2. [r \in Framed |-> Unwritten] \in [Framed -> Owners]
    BY DEF Owners
  <2> QED BY <2>1, <2>2, VectorType DEF NoLong
<1>5. ASSUME ctx > 0
      PROVE  [long EXCEPT ![ctx - 1].rr = rr] \in [Contexts -> LongFrame]
  <2>1. [long[ctx - 1] EXCEPT !.rr = rr] \in LongFrame
    BY <1>0, <1>2, <1>5
  <2>2. [long EXCEPT ![ctx - 1].rr = rr]
          = [long EXCEPT ![ctx - 1] = [long[ctx - 1] EXCEPT !.rr = rr]]
    OBVIOUS
  <2> QED BY <1>0, <2>1, <2>2
<1>6. long_nxt(rr) \in [Contexts -> LongFrame]
  BY <1>0, <1>3, <1>4, <1>5 DEF long_nxt
<1>7. sr_save_nxt \in Status
  BY <1>0, <1>2 DEF sr_save_nxt, TypeOK
<1> QED BY <1>1, <1>6, <1>7

\* The registers start with values of their types.
LEMMA InitType == Init => TypeOK
<1> SUFFICES ASSUME Init PROVE TypeOK
  OBVIOUS
<1>0. 0 \in Contexts /\ Unwritten \in Owners
  BY MicroengineAssumption DEF Contexts, Owners
<1>1. upc \in Addr /\ upc_save \in Addr /\ faulted \in [Contexts -> Addr]
  BY VectorType DEF Init
<1>2. own \in [Regs -> Owners]
  BY <1>0 DEF Init
<1>3. sr \in Status /\ sr_save \in Status
  BY DEF Init, Status
<1>4. /\ {group0, halted, rr_flag, rerun_skip, trace_armed} \subseteq BOOLEAN
      /\ {irq7_edge, reset_pin, asked7, served7} \subseteq BOOLEAN
      /\ owed \in [Contexts -> BOOLEAN]
  BY DEF Init
<1>5. /\ ipl \in 0 .. 7 /\ irq_prev \in 0 .. 7 /\ irq_taken \in 0 .. 7
      /\ ctx \in Contexts
  BY <1>0 DEF Init
<1>6. short \in [Contexts -> Seq(Status)]
  BY DEF Init, NoFrames
<1>7. long \in [Contexts -> [upc : Addr, sr : Status, regs : [Framed -> Owners],
                            rr : BOOLEAN]]
  <2>1. [s |-> TRUE, t |-> FALSE, i |-> 7] \in Status
    BY DEF Status
  <2>2. [r \in Framed |-> Unwritten] \in [Framed -> Owners]
    BY <1>0
  <2> QED BY <2>1, <2>2, VectorType DEF Init, NoLong
<1> QED BY <1>1, <1>2, <1>3, <1>4, <1>5, <1>6, <1>7 DEF TypeOK

\* The interrupt detector keeps its types.
LEMMA IrqType ==
  ASSUME TypeOK, NEW taking \in BOOLEAN, NEW serves \in BOOLEAN,
         IrqClock(taking, serves)
  PROVE  /\ ipl' \in 0 .. 7 /\ irq_prev' \in 0 .. 7 /\ irq_taken' \in 0 .. 7
         /\ {irq7_edge', reset_pin', asked7', served7'} \subseteq BOOLEAN
<1>1. ipl' \in 0 .. 7 /\ irq_prev' \in 0 .. 7 /\ irq_taken' \in 0 .. 7
  BY DEF TypeOK, IrqClock
<1>2. irq7_edge' \in BOOLEAN
  BY DEF TypeOK, IrqClock, irq7_edge_nxt
<1>3. reset_pin' \in BOOLEAN /\ asked7' \in BOOLEAN /\ served7' \in BOOLEAN
  BY DEF TypeOK, IrqClock
<1> QED BY <1>1, <1>2, <1>3

\* What RESET leaves behind.
LEMMA RestartType ==
  ASSUME TypeOK, Restart
  PROVE  /\ upc' \in Addr /\ own' \in [Regs -> Owners] /\ ctx' \in Contexts
         /\ short' \in [Contexts -> Seq(Status)]
         /\ long' \in [Contexts -> [upc : Addr, sr : Status,
                         regs : [Framed -> Owners], rr : BOOLEAN]]
         /\ owed' \in [Contexts -> BOOLEAN] /\ faulted' \in [Contexts -> Addr]
<1>0. 0 \in Contexts /\ Unwritten \in Owners
  BY MicroengineAssumption DEF Contexts, Owners
<1>1. short' \in [Contexts -> Seq(Status)]
  BY DEF Restart, NoFrames
<1>2. NoLong \in [upc : Addr, sr : Status, regs : [Framed -> Owners], rr : BOOLEAN]
  <2>1. [s |-> TRUE, t |-> FALSE, i |-> 7] \in Status
    BY DEF Status
  <2>2. [r \in Framed |-> Unwritten] \in [Framed -> Owners]
    BY <1>0
  <2> QED BY <2>1, <2>2, VectorType DEF NoLong
<1> QED BY <1>0, <1>1, <1>2, VectorType DEF Restart

\* Waiting for the bus keeps the types,
LEMMA StallType ==
  ASSUME TypeOK, Stall
  PROVE  TypeOK'
<1>1. IrqClock(FALSE, FALSE)
  BY DEF Stall
<1>2. /\ sr' \in Status /\ sr_save' \in Status /\ upc_save' \in Addr
      /\ {rr_flag', rerun_skip', trace_armed'} \subseteq BOOLEAN
  BY DEF Stall, saved, TypeOK
<1>3. {group0', halted'} \subseteq BOOLEAN
  BY DEF Stall, TypeOK
<1>4. CASE reset_pin
  <2>1. Restart
    BY <1>4 DEF Stall
  <2> QED BY <1>1, <1>2, <1>3, <2>1, IrqType, RestartType DEF TypeOK
<1>5. CASE ~reset_pin
  <2>1. UNCHANGED <<upc, own, ctx, short, long, owed, faulted>>
    BY <1>5 DEF Stall, frames
  <2> QED BY <1>1, <1>2, <1>3, <2>1, IrqType DEF TypeOK
<1> QED BY <1>4, <1>5

\* A microword that commits keeps the types,
LEMMA ClockType ==
  ASSUME TypeOK, Clock
  PROVE  TypeOK'
<1>1. PICK t \in upc_target, new \in SoftwareSR, rr \in SoftwareRR : Commit(t, new, rr)
  BY DEF Clock
<1>2. new \in Status /\ rr \in BOOLEAN
  BY MicroengineAssumption DEF SoftwareSR, SoftwareRR, TypeOK
<1>3. IrqClock(take_irq, take_irq /\ ~take_trace)
  BY <1>1 DEF Commit
<1>4. take_irq \in BOOLEAN /\ (take_irq /\ ~take_trace) \in BOOLEAN
  BY DEF take_irq
<1>5. /\ ipl' \in 0 .. 7 /\ irq_prev' \in 0 .. 7 /\ irq_taken' \in 0 .. 7
      /\ {irq7_edge', reset_pin', asked7', served7'} \subseteq BOOLEAN
  BY <1>3, <1>4, IrqType
<1>6. sr' \in Status
  BY <1>1, <1>2, SrType DEF Commit
<1>7. sr_save' \in Status
  BY <1>1, <1>2, FrameType DEF Commit
<1>8. upc_save' \in Addr
  <2>1. ctx > 0 => ctx - 1 \in Contexts
    BY MicroengineAssumption DEF TypeOK, Contexts
  <2>2. ctx > 0 => long[ctx - 1].upc \in Addr
    BY <2>1 DEF TypeOK
  <2> QED BY <1>1, <2>2 DEF Commit, TypeOK
<1>9. trace_armed' \in BOOLEAN
  <2>1. sr_nxt(new).t \in BOOLEAN
    BY <1>2, SrType DEF Status
  <2> QED BY <1>1, <2>1 DEF Commit, trace_armed_nxt, TypeOK
<1>10. rr_flag' \in BOOLEAN /\ rerun_skip' \in BOOLEAN
  BY <1>1, <1>2 DEF Commit, rr_flag_nxt, rerun_skip_nxt, TypeOK
<1>11. group0' \in BOOLEAN /\ halted' \in BOOLEAN
  BY <1>1 DEF Commit, group0_nxt, TypeOK
<1>12. CASE reset_pin
  <2>1. Restart
    BY <1>1, <1>12 DEF Commit
  <2> QED BY <1>5, <1>6, <1>7, <1>8, <1>9, <1>10, <1>11, <2>1, RestartType DEF TypeOK
<1>13. CASE ~reset_pin
  <2>1. upc' \in Addr
    BY <1>1, <1>13, NextType DEF Commit
  <2>2. own' \in [Regs -> Owners]
    BY <1>1, <1>13, OwnType DEF Commit
  <2>3. ctx' \in Contexts
    BY <1>1, <1>13, MicroengineAssumption DEF Commit, TypeOK, Contexts
  <2>4. /\ short' \in [Contexts -> Seq(Status)]
        /\ long' \in [Contexts -> [upc : Addr, sr : Status,
                         regs : [Framed -> Owners], rr : BOOLEAN]]
    BY <1>1, <1>2, <1>13, FrameType DEF Commit
  <2>5. owed' \in [Contexts -> BOOLEAN]
    <3>1. sr_nxt(new).t \in BOOLEAN
      BY <1>2, SrType DEF Status
    <3>2. (~take_trace /\ ~take_irq /\ w.seq = "decode" /\ sr_nxt(new).t) \in BOOLEAN
      BY <3>1
    <3> QED BY <1>1, <1>13, <3>2 DEF Commit, owed_nxt, TypeOK
  <2>6. faulted' \in [Contexts -> Addr]
    BY <1>1, <1>13 DEF Commit, TypeOK
  <2> QED BY <1>5, <1>6, <1>7, <1>8, <1>9, <1>10, <1>11,
             <2>1, <2>2, <2>3, <2>4, <2>5, <2>6 DEF TypeOK
<1> QED BY <1>12, <1>13

\* ... so does one that faults,
LEMMA FaultType ==
  ASSUME TypeOK, Fault
  PROVE  TypeOK'
<1>1. IrqClock(FALSE, FALSE)
  BY DEF Fault
<1>2. /\ sr' \in Status /\ sr_save' \in Status /\ upc_save' \in Addr
      /\ {rr_flag', rerun_skip', trace_armed'} \subseteq BOOLEAN
  BY DEF Fault, TypeOK
<1>3. {group0', halted'} \subseteq BOOLEAN
  BY DEF Fault, dbl_fault, spurious_int, TypeOK
<1>4. CASE reset_pin
  <2>1. Restart
    BY <1>4 DEF Fault
  <2> QED BY <1>1, <1>2, <1>3, <2>1, IrqType, RestartType DEF TypeOK
<1>5. CASE ~reset_pin
  <2>1. upc' \in Addr
    BY <1>5, VectorType DEF Fault, fault_entry
  <2>2. own' \in [Regs -> Owners]
    BY <1>5, OwnType DEF Fault
  <2>3. ctx' \in Contexts
    BY <1>5, MicroengineAssumption DEF Fault, TypeOK, Contexts
  <2>4. owed' \in [Contexts -> BOOLEAN] /\ faulted' \in [Contexts -> Addr]
    BY <1>5 DEF Fault, TypeOK
  <2>5. UNCHANGED <<short, long>>
    BY <1>5 DEF Fault, frames
  <2> QED BY <1>1, <1>2, <1>3, <2>1, <2>2, <2>3, <2>4, <2>5, IrqType DEF TypeOK
<1> QED BY <1>4, <1>5

\* ... and so do the pins,
LEMMA PinsType ==
  ASSUME TypeOK, (\E l \in Levels : Request(l)) \/ PulseReset
  PROVE  TypeOK'
<1>1. UNCHANGED <<upc, own, sr, flags, saved, irq_prev, irq7_edge, irq_taken, ctx,
                  frames, hist>>
  BY DEF Request, PulseReset, irqs
<1>2. ipl' \in 0 .. 7
  BY MicroengineAssumption DEF Request, PulseReset, irqs, TypeOK
<1>3. reset_pin' \in BOOLEAN
  BY DEF Request, PulseReset, TypeOK
<1> QED BY <1>1, <1>2, <1>3 DEF TypeOK, flags, saved, frames, hist

\* ... and a step of something else.
LEMMA StutterType ==
  ASSUME TypeOK, UNCHANGED vars
  PROVE  TypeOK'
BY DEF TypeOK, vars, flags, saved, irqs, frames, hist

\* Whatever the microprogram, the levels and the bounds, no register of the
\* microengine ever holds a value of another type, and the micro-address never
\* leaves the microprogram.
THEOREM TypeCorrect == Spec => []TypeOK
<1>1. TypeOK /\ [Next]_vars => TypeOK'
  BY StallType, ClockType, FaultType, PinsType, StutterType DEF Next
<1> QED BY InitType, <1>1, PTL DEF Spec

-----------------------------------------------------------------------------
(***************************************************************************)
(* The checkpoint.                                                         *)
(***************************************************************************)
\* The checkpoint rule, for one word.
LEMMA Rules ==
  ASSUME NEW a \in Addr
  PROVE  LiveRule(a) /\ FrameRule(a) /\ GroupRule(a) /\ BuildRule(a) /\ ReturnRule(a)
BY CheckpointRule

\* An entry other than a fault's is in none of the marked parts.
LEMMA EntryMarks ==
  /\ \A l \in {"reset", "halted", "spurious", "trace", "interrupt"} :
       Entry(l) \notin Building \cup Returning \cup Processing
  /\ \A op \in Opcodes : Entry(op) \notin Building \cup Returning \cup Processing
  /\ Entry("buserr") \in Building /\ Entry("buserr") \notin Returning
<1>1. \A l : Entry(l) = Entry("buserr") => l = "buserr"
  BY DEF Entry
<1>2. \A l \in {"reset", "halted", "spurious", "trace", "interrupt"} : Entry(l) \in Entries
  BY DEF Entries, Vectors
<1>3. \A op \in Opcodes : Entry(op) \in Entries /\ op # "buserr"
  BY EntryRule DEF Entries
<1> QED BY <1>1, <1>2, <1>3, EntryRule, AnnotationType

\* A resuming word is in RTE, in group 0, and in no fault's sequence.
LEMMA ResumeMarks ==
  ASSUME NEW a \in Addr, Micro[a].seq = "resume"
  PROVE  a \in Returning /\ a \in Processing /\ a \notin Building
BY Rules, AnnotationType DEF ReturnRule

\* Nothing is live and nothing suspended at reset.
LEMMA InitCheckpoint == Init => CheckpointInv
<1> SUFFICES ASSUME Init PROVE CheckpointInv
  OBVIOUS
<1>1. upc = Entry("reset") /\ ctx = 0 /\ ~halted /\ ~rerun_skip
  BY DEF Init
<1>2. Live[upc] = {} /\ upc \notin Building \cup Returning \cup Processing
  BY <1>1, EntryRule, EntryMarks
<1>3. w.seq # "resume"
  BY <1>1, <1>2, ResumeMarks, VectorType DEF w
<1>4. FaultedInv /\ SuspendedInv
  BY <1>1, MicroengineAssumption DEF FaultedInv, SuspendedInv, Contexts
<1> QED BY <1>1, <1>2, <1>3, <1>4
        DEF CheckpointInv, RunInv, GroupInv, BuildingInv, ReturnInv, ResumeInv,
            SkipsOnlyFaulted

\* A processor that is reset has nothing to keep.
LEMMA RestartCheckpoint == Restart => CheckpointInv'
<1> SUFFICES ASSUME Restart PROVE CheckpointInv'
  OBVIOUS
<1>1. upc' = Entry("reset") /\ ctx' = 0
  BY DEF Restart
<1>2. Live[upc'] = {} /\ upc' \notin Building \cup Returning \cup Processing
  BY <1>1, EntryRule, EntryMarks
<1>3. w'.seq # "resume" /\ w'.bus = "none"
  BY <1>1, <1>2, EntryRule, ResumeMarks, VectorType DEF w
<1>4. FaultedInv' /\ SuspendedInv'
  BY <1>1, MicroengineAssumption DEF FaultedInv, SuspendedInv, Contexts
<1> QED BY <1>1, <1>2, <1>3, <1>4
        DEF CheckpointInv, RunInv, GroupInv, BuildingInv, ReturnInv, ResumeInv,
            SkipsOnlyFaulted, bus_busy

\* A processor that halts has nothing to keep either.
LEMMA HaltCheckpoint ==
  ASSUME upc' = Entry("halted"), halted'
  PROVE  CheckpointInv'
<1>1. Live[upc'] = {} /\ upc' \notin Building \cup Returning \cup Processing
  BY EntryRule, EntryMarks
<1>2. w'.seq # "resume" /\ w'.bus = "none"
  BY <1>1, EntryRule, ResumeMarks, VectorType DEF w
<1> QED BY <1>1, <1>2
        DEF CheckpointInv, RunInv, GroupInv, BuildingInv, ReturnInv, ResumeInv,
            SkipsOnlyFaulted, bus_busy

\* The invariant depends on these variables only.
LEMMA SameCheckpoint ==
  ASSUME CheckpointInv,
         UNCHANGED <<upc, own, ctx, long, faulted, group0, halted, upc_save, rr_flag,
                     rerun_skip>>
  PROVE  CheckpointInv'
BY DEF CheckpointInv, RunInv, GroupInv, FaultedInv, SuspendedInv, BuildingInv,
       ReturnInv, ResumeInv, SkipsOnlyFaulted, Holds, bus_busy, w

\* A halted processor has no bus cycle to fault and nothing to resume.
LEMMA HaltedWord ==
  ASSUME TypeOK, CheckpointInv, halted
  PROVE  w.bus = "none" /\ w.seq # "resume"
<1>1. upc = Entry("halted") \/ upc = Entry("reset")
  BY DEF CheckpointInv
<1> QED BY <1>1, EntryRule, EntryMarks, ResumeMarks DEF w, TypeOK

\* The three ways on from a word that does not resume.
LEMMA Goes ==
  ASSUME TypeOK, ~halted, w.seq # "resume", NEW t \in upc_target
  PROVE  \/ /\ w.seq # "decode" /\ upc_nxt(t) \in Flow(upc)
            /\ w.seq = "cond" => upc_nxt(t) = t
         \/ w.seq = "decode" /\ \E op \in Opcodes : upc_nxt(t) = Entry(op)
         \/ /\ Boundary /\ (take_irq \/ take_trace)
            /\ upc_nxt(t) \in {Entry("trace"), Entry("interrupt")}
<1>1. w \in Word /\ Linked(upc) /\ LiveRule(upc)
  BY WordType, Rules DEF TypeOK
<1>2. CASE take_irq \/ take_trace
  BY <1>2 DEF upc_nxt, take_irq, take_trace
<1>3. CASE ~take_irq /\ ~take_trace
  <2>1. upc_nxt(t) = IF "stop" \in w.marks THEN upc ELSE t
    BY <1>3 DEF upc_nxt
  <2>2. "stop" \in w.marks => w.seq = "next"
    BY <1>1 DEF LiveRule, w
  <2>3. CASE w.seq = "decode"
    BY <2>1, <2>2, <2>3 DEF upc_target, Decodable
  <2>4. CASE w.seq = "next"
    BY <2>1, <2>4 DEF upc_target, Flow, w
  <2>5. CASE w.seq = "cond"
    BY <2>1, <2>2, <2>5 DEF upc_target, Flow, w
  <2>6. CASE w.seq = "goto"
    BY <2>1, <2>2, <2>6 DEF upc_target, Flow, w
  <2> QED BY <1>1, <2>3, <2>4, <2>5, <2>6 DEF Word
<1> QED BY <1>2, <1>3

\* What the marks say of the word it goes to.
LEMMA GoesMarks ==
  ASSUME TypeOK, CheckpointInv, ~halted, w.seq # "resume", NEW t \in upc_target
  PROVE  /\ upc_nxt(t) \in Building => upc \in Building /\ w.dst # "frame8"
         /\ upc \in Building /\ w.dst # "frame8" => upc_nxt(t) \in Building
         /\ upc_nxt(t) \in Processing => group0_nxt
         /\ upc_nxt(t) \in Returning => ctx > 0
         /\ Micro[upc_nxt(t)].seq = "resume" => w.dst = "reload"
<1> DEFINE u == upc_nxt(t)
<1>1. /\ LiveRule(upc) /\ GroupRule(upc) /\ BuildRule(upc) /\ ReturnRule(upc)
      /\ u \in Addr /\ upc \in Addr
  BY Rules, NextType DEF TypeOK
<1>2. CASE w.seq # "decode" /\ u \in Flow(upc) /\ (w.seq = "cond" => u = t)
  <2>1. u \in Building => upc \in Building
    BY <1>1, <1>2 DEF BuildRule
  <2>2. upc \in Building => (u \in Building <=> w.dst # "frame8")
    <3>1. ASSUME upc \in Building
          PROVE  u = <<upc[1], upc[2] + 1>>
      BY <1>1, <1>2, <3>1 DEF BuildRule, Flow, w
    <3> QED BY <1>1, <3>1 DEF BuildRule, w
  <2>3. u \in Processing => group0_nxt
    <3>1. u \in Processing => upc \in Processing \/ "g0" \in w.marks
      BY <1>1, <1>2 DEF GroupRule, w
    <3>2. upc \in Processing => group0
      BY DEF CheckpointInv, GroupInv
    <3> QED BY <1>2, <3>1, <3>2 DEF group0_nxt
  <2>4. u \in Returning => ctx > 0
    <3>1. CASE upc \in Returning
      BY <3>1 DEF CheckpointInv, ReturnInv
    <3>2. ASSUME u \in Returning, upc \notin Returning
          PROVE  ctx > 0
      <4>1. w.seq = "cond" /\ w.cond = "fmt8" /\ w.to[1] \notin Returning /\ u = t
        BY <1>1, <1>2, <3>2 DEF ReturnRule, w
      <4>2. PICK b \in cond_true("fmt8") : t = w.to[IF b THEN 2 ELSE 1]
        BY <4>1 DEF upc_target
      <4>3. b
        BY <3>2, <4>1, <4>2
      <4> QED BY <4>2, <4>3 DEF cond_true
    <3> QED BY <3>1, <3>2
  <2>5. Micro[u].seq = "resume" => w.dst = "reload"
    BY <1>1, <1>2 DEF ReturnRule, w
  <2> QED BY <2>1, <2>2, <2>3, <2>4, <2>5
<1>3. CASE u \in {Entry("trace"), Entry("interrupt")} \/ \E op \in Opcodes : u = Entry(op)
  <2>1. u \notin Building /\ u \notin Returning /\ u \notin Processing
    BY <1>3, EntryMarks
  <2>2. Micro[u].seq # "resume"
    BY <1>1, <2>1, ResumeMarks
  <2>3. upc \in Building => w.seq = "next" /\ ~Boundary
    BY <1>1 DEF BuildRule, Boundary, w
  <2>4. upc \in Building => w.dst = "frame8"
    <3>1. ASSUME upc \in Building
          PROVE  u \in Flow(upc)
      BY <2>3, <3>1, Goes
    <3>2. ASSUME upc \in Building
          PROVE  u = <<upc[1], upc[2] + 1>>
      BY <1>1, <3>1, <3>2 DEF BuildRule, Flow, w
    <3> QED BY <1>1, <2>1, <3>2 DEF BuildRule, w
  <2> QED BY <2>1, <2>2, <2>4
<1> QED BY <1>2, <1>3, Goes

\* A word that goes on leaves the next one everything it needs.
LEMMA OwnRuns ==
  ASSUME TypeOK, CheckpointInv, ~halted, NEW t \in upc_target,
         w.seq # "resume", w.dst # "reload"
  PROVE  \A r \in Live[upc_nxt(t)] : own_nxt[r] = ctx
<1> DEFINE u == upc_nxt(t)
<1>1. /\ LiveRule(upc) /\ u \in Addr /\ upc \in Addr
      /\ Live[u] \subseteq Regs /\ Live[upc] \subseteq Regs
  BY Rules, NextType, AnnotationType DEF TypeOK
<1>2. \A r \in Live[upc] : own[r] = ctx
  BY DEF CheckpointInv, RunInv
<1>3. CASE w.seq # "decode" /\ u \in Flow(upc)
  <2>1. own_nxt = [r \in Regs |-> IF r \in Written THEN ctx ELSE own[r]]
    BY <1>3 DEF own_nxt
  <2>2. \A r \in Live[u] : r \in Live[upc] \/ r \in w.writes
    BY <1>1, <1>3 DEF LiveRule, w
  <2> QED BY <1>1, <1>2, <2>1, <2>2 DEF Written
<1>4. CASE w.seq = "decode" /\ \E op \in Opcodes : u = Entry(op)
  <2>1. own_nxt = [r \in Regs |->
          IF r \in Written /\ r \in Pipe \cup {"irq"} THEN ctx
          ELSE IF r \notin Pipe /\ (own[r] = ctx \/ r \in w.writes)
               THEN Unwritten ELSE own[r]]
    BY <1>4 DEF own_nxt
  <2>2. Live[u] \subseteq Pipe
    BY <1>4, EntryRule
  <2>3. Pipe \subseteq Live[upc] \cup w.writes
    BY <1>1, <1>4 DEF LiveRule, Ends, w
  <2> QED BY <1>1, <1>2, <2>1, <2>2, <2>3 DEF Written
<1>5. CASE Boundary /\ (take_irq \/ take_trace) /\ u \in {Entry("trace"), Entry("interrupt")}
  <2>1. Live[u] \subseteq Pipe \cup {"irq"}
    BY <1>5, EntryRule
  <2>2. Pipe \subseteq Live[upc] \cup w.writes
    BY <1>1, <1>5 DEF LiveRule, Ends, Boundary, w
  <2>3. "irq" \in Written
    BY <1>5 DEF Written
  <2>4. CASE w.seq = "decode"
    <3>1. own_nxt = [r \in Regs |->
            IF r \in Written /\ r \in Pipe \cup {"irq"} THEN ctx
            ELSE IF r \notin Pipe /\ (own[r] = ctx \/ r \in w.writes)
                 THEN Unwritten ELSE own[r]]
      BY <2>4 DEF own_nxt
    <3>2. ASSUME NEW r \in Live[u]
          PROVE  own_nxt[r] = ctx
      <4>1. CASE r = "irq"
        BY <1>1, <2>3, <3>1, <4>1
      <4>2. CASE r # "irq"
        <5>1. r \in Pipe /\ r \in Regs /\ (r \in w.writes \/ own[r] = ctx)
          BY <1>1, <1>2, <2>1, <2>2, <4>2
        <5> QED BY <3>1, <5>1 DEF Written
      <4> QED BY <4>1, <4>2
    <3> QED BY <3>2
  <2>5. CASE w.seq # "decode"
    <3>1. own_nxt = [r \in Regs |-> IF r \in Written THEN ctx ELSE own[r]]
      BY <2>5 DEF own_nxt
    <3>2. \A r \in Live[u] : r \in Regs /\ (r \in Written \/ own[r] = ctx)
      BY <1>1, <1>2, <2>1, <2>2, <2>3 DEF Written
    <3> QED BY <3>1, <3>2
  <2> QED BY <2>4, <2>5
<1> QED BY <1>3, <1>4, <1>5, Goes

\* A word that is neither RTE's reload or resumption nor the write of a frame.
LEMMA PlainCheckpoint ==
  ASSUME TypeOK, CheckpointInv, ~halted, ~reset_pin,
         NEW t \in upc_target, NEW new, NEW rr, Commit(t, new, rr),
         w.seq # "resume", w.dst \notin {"reload", "frame8"}
  PROVE  CheckpointInv'
<1> DEFINE u == upc_nxt(t)
<1>1. /\ upc' = u /\ own' = own_nxt /\ ctx' = ctx /\ long' = long /\ faulted' = faulted
      /\ upc_save' = upc_save /\ rr_flag' = rr_flag /\ ~rerun_skip' /\ group0' = group0_nxt
      /\ halted' = halted
  BY DEF Commit, long_nxt, rr_flag_nxt, rerun_skip_nxt
<1>2. /\ u \in Building => upc \in Building
      /\ upc \in Building => u \in Building
      /\ u \in Processing => group0_nxt
      /\ u \in Returning => ctx > 0
      /\ Micro[u].seq # "resume"
  BY GoesMarks
<1>3. RunInv'
  BY <1>1, OwnRuns DEF RunInv
<1>4. FaultedInv'
  BY <1>1 DEF CheckpointInv, FaultedInv
<1>5. SuspendedInv'
  <2>1. SuspendedInv
    BY DEF CheckpointInv
  <2> QED BY <1>1, <1>2, <2>1 DEF SuspendedInv, Holds
<1>6. BuildingInv'
  <2>1. SUFFICES ASSUME u \in Building
                 PROVE  ctx > 0 /\ upc_save = faulted[ctx - 1]
                          /\ Holds(faulted[ctx - 1], ctx - 1, own')
    BY <1>1 DEF BuildingInv, Holds
  <2>2. upc \in Building /\ BuildRule(upc) /\ BuildingInv
    BY <1>2, <2>1, Rules DEF CheckpointInv, TypeOK
  <2>3. w.writes \cap Framed = {} /\ w.seq = "next" /\ ~Boundary
    BY <2>2 DEF BuildRule, Boundary, w
  <2>4. \A r \in Framed : own'[r] = own[r]
    BY <1>1, <2>3, MicroengineAssumption DEF own_nxt, Written
  <2>5. "ea_save" \in Framed
    BY AnnotationType
  <2>6. Holds(faulted[ctx - 1], ctx - 1, own)
    BY <2>2 DEF BuildingInv
  <2>7. Holds(faulted[ctx - 1], ctx - 1, own')
    BY <2>4, <2>5, <2>6 DEF Holds
  <2> QED BY <2>2, <2>7 DEF BuildingInv
<1>7. GroupInv' /\ ReturnInv' /\ ResumeInv' /\ SkipsOnlyFaulted'
  BY <1>1, <1>2 DEF GroupInv, ReturnInv, ResumeInv, SkipsOnlyFaulted, w
<1> QED BY <1>1, <1>3, <1>4, <1>5, <1>6, <1>7 DEF CheckpointInv

\* The write of a frame: the suspended instruction moves from the registers
\* into it.
LEMMA Frame8Checkpoint ==
  ASSUME TypeOK, CheckpointInv, ~halted, ~reset_pin,
         NEW t \in upc_target, NEW new, NEW rr, Commit(t, new, rr), w.dst = "frame8"
  PROVE  CheckpointInv'
<1> DEFINE u == upc_nxt(t)
<1>1. upc \in Building /\ w.seq = "next"
  BY Rules DEF BuildRule, TypeOK, w
<1>2. ctx > 0 /\ ctx - 1 \in Contexts /\ upc_save = faulted[ctx - 1]
      /\ Holds(faulted[ctx - 1], ctx - 1, own)
  BY <1>1, MicroengineAssumption DEF CheckpointInv, BuildingInv, TypeOK, Contexts
<1>3. /\ upc' = u /\ own' = own_nxt /\ ctx' = ctx /\ faulted' = faulted
      /\ long' = [long EXCEPT ![ctx - 1] = Frame8]
      /\ ~rerun_skip' /\ group0' = group0_nxt /\ halted' = halted
  BY <1>1, <1>2 DEF Commit, long_nxt, rerun_skip_nxt
<1>4. /\ u \notin Building /\ (u \in Processing => group0_nxt)
      /\ (u \in Returning => ctx > 0) /\ Micro[u].seq # "resume"
  BY <1>1, GoesMarks
<1>5. RunInv'
  BY <1>1, <1>3, OwnRuns DEF RunInv
<1>6. FaultedInv'
  BY <1>3 DEF CheckpointInv, FaultedInv
<1>7. SuspendedInv'
  <2>1. SuspendedInv
    BY DEF CheckpointInv
  <2>2. ASSUME NEW n \in Contexts, n < ctx, n # ctx - 1
        PROVE  long'[n] = long[n] /\ long[n].upc = faulted[n]
                 /\ Holds(faulted[n], n, long[n].regs)
    BY <1>3, <2>1, <2>2 DEF SuspendedInv, TypeOK
  <2>3. long'[ctx - 1] = Frame8
    BY <1>2, <1>3 DEF TypeOK
  <2>4. Holds(faulted[ctx - 1], ctx - 1, Frame8.regs)
    <3>1. \A r \in Framed : Frame8.regs[r] = own[r]
      BY DEF Frame8
    <3> QED BY <1>2, <3>1, AnnotationType DEF Holds
  <2>5. Frame8.upc = faulted[ctx - 1]
    BY <1>2 DEF Frame8
  <2>6. ASSUME NEW n \in Contexts, n < ctx
        PROVE  long'[n].upc = faulted[n] /\ Holds(faulted[n], n, long'[n].regs)
    BY <2>2, <2>3, <2>4, <2>5, <2>6
  <2> QED BY <1>3, <2>6 DEF SuspendedInv, Holds
<1>8. BuildingInv' /\ GroupInv' /\ ReturnInv' /\ ResumeInv' /\ SkipsOnlyFaulted'
  BY <1>3, <1>4 DEF BuildingInv, GroupInv, ReturnInv, ResumeInv, SkipsOnlyFaulted, w
<1> QED BY <1>3, <1>5, <1>6, <1>7, <1>8 DEF CheckpointInv

\* The reload of a frame: the registers are the suspended instruction's again.
LEMMA ReloadCheckpoint ==
  ASSUME TypeOK, CheckpointInv, ~halted, ~reset_pin,
         NEW t \in upc_target, NEW new, NEW rr, Commit(t, new, rr), w.dst = "reload"
  PROVE  CheckpointInv'
<1> DEFINE u == upc_nxt(t)
<1>1. /\ upc \in Returning /\ w.seq = "next" /\ "stop" \notin w.marks
      /\ Live[<<upc[1], upc[2] + 1>>] \cap Framed = {}
  BY Rules DEF ReturnRule, TypeOK, w
<1>2. ctx > 0 /\ ctx - 1 \in Contexts
  BY <1>1, MicroengineAssumption DEF CheckpointInv, ReturnInv, TypeOK, Contexts
<1>3. /\ upc' = u /\ own' = own_nxt /\ ctx' = ctx /\ faulted' = faulted
      /\ long' = [long EXCEPT ![ctx - 1].rr = rr] /\ rr_flag' = rr
      /\ upc_save' = long[ctx - 1].upc
      /\ ~rerun_skip' /\ group0' = group0_nxt /\ halted' = halted
  BY <1>1, <1>2 DEF Commit, long_nxt, rr_flag_nxt, rerun_skip_nxt
<1>4. upc \notin Building
  BY <1>1, AnnotationType
<1>5. /\ u \notin Building /\ (u \in Processing => group0_nxt)
      /\ (u \in Returning => ctx > 0)
  BY <1>1, <1>4, GoesMarks
<1>6. u = <<upc[1], upc[2] + 1>> /\ u \in Flow(upc) /\ u \in Addr /\ upc \in Addr
  <2>1. ~Boundary
    BY <1>1 DEF Boundary
  <2>2. u \in Flow(upc)
    BY <1>1, <2>1, Goes
  <2> QED BY <1>1, <2>2, NextType DEF Flow, TypeOK, w
<1>7. own' = [r \in Regs |-> Reloaded(r)]
  BY <1>1, <1>3 DEF own_nxt
<1>8. Framed \subseteq Regs /\ "ea_save" \in Framed
  BY MicroengineAssumption, AnnotationType
<1>9. RunInv'
  <2>1. ASSUME NEW r \in Live[u]
        PROVE  own'[r] = ctx
    <3>1. r \in Regs /\ r \notin Framed
      BY <1>1, <1>6, AnnotationType
    <3>2. r \in w.writes \/ own[r] = ctx
      BY <1>6, Rules DEF LiveRule, CheckpointInv, RunInv, w
    <3> QED BY <1>7, <3>1, <3>2 DEF Reloaded
  <2> QED BY <1>3, <2>1 DEF RunInv
<1>10. FaultedInv'
  BY <1>3 DEF CheckpointInv, FaultedInv
<1>11. SuspendedInv /\ long[ctx - 1].upc = faulted[ctx - 1]
       /\ Holds(faulted[ctx - 1], ctx - 1, long[ctx - 1].regs)
  BY <1>2, <1>4 DEF CheckpointInv, SuspendedInv, TypeOK, Contexts
<1>12. \A n \in Contexts : long'[n].upc = long[n].upc /\ long'[n].regs = long[n].regs
  BY <1>2, <1>3 DEF TypeOK
<1>13. SuspendedInv'
  BY <1>3, <1>4, <1>11, <1>12 DEF SuspendedInv, Holds
<1>14. ResumeInv'
  <2>1. \A r \in Framed : own'[r] = long[ctx - 1].regs[r]
    BY <1>2, <1>7, <1>8 DEF Reloaded
  <2>2. Holds(faulted[ctx - 1], ctx - 1, own')
    BY <1>8, <1>11, <2>1 DEF Holds
  <2>3. long'[ctx - 1].rr = rr
    BY <1>2, <1>3 DEF TypeOK
  <2> QED BY <1>3, <1>11, <2>2, <2>3 DEF ResumeInv, Holds
<1>15. BuildingInv' /\ GroupInv' /\ ReturnInv' /\ SkipsOnlyFaulted'
  BY <1>3, <1>5 DEF BuildingInv, GroupInv, ReturnInv, SkipsOnlyFaulted, w
<1> QED BY <1>3, <1>9, <1>10, <1>13, <1>14, <1>15 DEF CheckpointInv

\* The resumption of the instruction that faulted.
LEMMA ResumeCheckpoint ==
  ASSUME TypeOK, CheckpointInv, ~halted, ~reset_pin,
         NEW t \in upc_target, NEW new, NEW rr, Commit(t, new, rr), w.seq = "resume"
  PROVE  /\ CheckpointInv'
         /\ ctx' = ctx - 1 /\ upc' = faulted[ctx - 1] /\ rerun_skip' = long[ctx - 1].rr
<1>1. upc \in Returning /\ upc \notin Building /\ w.dst # "reload" /\ w.dst # "frame8"
  BY ResumeMarks, Rules DEF TypeOK, ReturnRule, BuildRule, w
<1>2. ctx > 0 /\ ctx - 1 \in Contexts /\ ctx \in Nat
  BY <1>1, MicroengineAssumption DEF CheckpointInv, ReturnInv, TypeOK, Contexts
<1>3. upc_save = faulted[ctx - 1] /\ Holds(faulted[ctx - 1], ctx - 1, own)
      /\ rr_flag = long[ctx - 1].rr
  BY DEF CheckpointInv, ResumeInv
<1>4. /\ upc' = upc_save /\ own' = own_nxt /\ ctx' = ctx - 1 /\ faulted' = faulted
      /\ long' = [long EXCEPT ![ctx - 1] = NoLong]
      /\ rerun_skip' = rr_flag /\ halted' = halted
  <2>1. ~take_irq /\ ~take_trace
    <3>1. LiveRule(upc)
      BY Rules DEF TypeOK
    <3> QED BY <3>1 DEF LiveRule, take_irq, take_trace, Boundary, w
  <2>2. upc_nxt(t) = upc_save
    BY <2>1 DEF upc_nxt
  <2>3. long_nxt(rr) = [long EXCEPT ![ctx - 1] = NoLong]
    BY <1>1, <1>2 DEF long_nxt
  <2>4. rerun_skip_nxt = rr_flag
    BY DEF rerun_skip_nxt, TypeOK
  <2> QED BY <1>2, <2>2, <2>3, <2>4 DEF Commit
<1>5. own' = [r \in Regs |-> Resumed(r)]
  BY <1>1, <1>4 DEF own_nxt
<1>6. /\ faulted[ctx - 1] \notin Processing
      /\ faulted[ctx - 1] \in Returning => ctx - 1 > 0
      /\ faulted[ctx - 1] \in Addr
  BY <1>2 DEF CheckpointInv, FaultedInv, TypeOK
<1>7. upc' \notin Building /\ Micro[upc'].seq # "resume"
  BY <1>3, <1>4, <1>6, ResumeMarks, AnnotationType
<1>8. RunInv'
  <2>1. ASSUME NEW r \in Live[upc']
        PROVE  own'[r] = ctx - 1
    <3>1. r \in Regs
      BY <1>3, <1>4, <1>6, AnnotationType
    <3>2. own[IF r = "eal" THEN "ea_save" ELSE r] = ctx - 1
      BY <1>3, <1>4 DEF Holds
    <3> QED BY <1>2, <1>5, <3>1, <3>2 DEF Resumed
  <2> QED BY <1>4, <2>1 DEF RunInv
<1>9. FaultedInv'
  BY <1>2, <1>4 DEF CheckpointInv, FaultedInv, Contexts
<1>10. SuspendedInv'
  <2>1. SuspendedInv
    BY DEF CheckpointInv
  <2>2. ASSUME NEW n \in Contexts, n < ctx - 1
        PROVE  long'[n] = long[n] /\ long[n].upc = faulted[n]
                 /\ Holds(faulted[n], n, long[n].regs)
    <3>1. n < ctx /\ n # ctx - 1
      BY <1>2, <2>2 DEF Contexts
    <3> QED BY <1>4, <2>1, <3>1 DEF SuspendedInv, TypeOK
  <2> QED BY <1>4, <2>2 DEF SuspendedInv, Holds
<1>11. ReturnInv'
  BY <1>3, <1>4, <1>6 DEF ReturnInv
<1>12. BuildingInv' /\ GroupInv' /\ ResumeInv' /\ SkipsOnlyFaulted'
  <2>1. upc' \notin Processing /\ upc' = faulted'[ctx']
    BY <1>3, <1>4, <1>6
  <2> QED BY <1>7, <2>1 DEF BuildingInv, GroupInv, ResumeInv, SkipsOnlyFaulted, w
<1> QED BY <1>3, <1>4, <1>8, <1>9, <1>10, <1>11, <1>12 DEF CheckpointInv

\* A fault: a double one halts, a spurious interrupt goes on in the same
\* context, and any other suspends the instruction with all it needs in the
\* registers the frame will hold.
LEMMA FaultCheckpoint ==
  ASSUME TypeOK, CheckpointInv, Fault
  PROVE  CheckpointInv'
<1>1. ~halted /\ ~rerun_skip /\ w.bus # "none" /\ upc[1] \in MayFault
  BY HaltedWord DEF Fault, CanFault, MayStall, bus_busy
<1>2. CASE reset_pin
  BY <1>2, RestartCheckpoint DEF Fault
<1>3. CASE ~reset_pin /\ dbl_fault
  <2>1. upc' = Entry("halted") /\ halted'
    BY <1>3 DEF Fault, fault_entry
  <2> QED BY <2>1, HaltCheckpoint
<1>4. CASE ~reset_pin /\ spurious_int
  <2>1. /\ upc' = Entry("spurious") /\ own' = own_fault /\ ctx' = ctx
        /\ long' = long /\ rerun_skip' = rerun_skip
        /\ halted' = halted
    BY <1>1, <1>4 DEF Fault, fault_entry, dbl_fault, frames, TypeOK
  <2>2. faulted' = faulted
    BY <1>4, <2>1 DEF Fault, TypeOK
  <2>3. upc \notin Building /\ Live[Entry("spurious")] \subseteq Live[upc]
    BY <1>4, Rules DEF BuildRule, LiveRule, TypeOK, spurious_int, w
  <2>4. /\ upc' \notin Building \cup Returning \cup Processing
        /\ Micro[upc'].seq # "resume"
    BY <2>1, EntryMarks, ResumeMarks, VectorType
  <2>5. RunInv'
    <3>1. ASSUME NEW r \in Live[upc]
          PROVE  own_fault[r] = ctx
      <4>1. r \in Regs /\ r # "ea_save" /\ own[r] = ctx
        BY AnnotationType DEF TypeOK, CheckpointInv, RunInv
      <4> QED BY <4>1 DEF own_fault
    <3> QED BY <2>1, <2>3, <3>1 DEF RunInv
  <2>6. FaultedInv'
    BY <1>1, <2>1, <2>2 DEF CheckpointInv, FaultedInv
  <2>7. SuspendedInv'
    <3>1. SuspendedInv
      BY <1>1 DEF CheckpointInv
    <3> QED BY <2>1, <2>2, <2>3, <3>1 DEF SuspendedInv, Holds
  <2> QED BY <1>1, <2>1, <2>4, <2>5, <2>6, <2>7
          DEF CheckpointInv, GroupInv, BuildingInv, ReturnInv, ResumeInv,
              SkipsOnlyFaulted, w
<1>5. CASE ~reset_pin /\ ~dbl_fault /\ ~spurious_int
  <2>1. /\ upc' = Entry("buserr") /\ own' = own_fault /\ ctx' = ctx + 1
        /\ upc_save' = upc /\ long' = long /\ rerun_skip' = rerun_skip
        /\ halted' = halted /\ group0'
    BY <1>5 DEF Fault, fault_entry, frames, TypeOK
  <2>2. ctx < MaxLong /\ ctx \in Contexts /\ ctx + 1 \in Contexts /\ ctx \in Nat
    BY <1>5, MicroengineAssumption DEF Fault, TypeOK, Contexts
  <2>3. faulted' = [faulted EXCEPT ![ctx] = upc]
    BY <1>5, <2>1, <2>2 DEF Fault, TypeOK
  <2>4. upc \notin Processing /\ upc \notin Building
    BY <1>5, AnnotationType DEF dbl_fault, CheckpointInv, GroupInv
  <2>5. Live[upc] \subseteq Framed \cup {"eal"}
    BY <1>1, <1>5, <2>4, Rules DEF FrameRule, TypeOK, spurious_int, w
  <2>6. Holds(upc, ctx, own_fault)
    <3>1. ASSUME NEW r \in Live[upc]
          PROVE  IF r = "eal" THEN own_fault["ea_save"] = ctx
                 ELSE r \in Framed /\ own_fault[r] = ctx
      <4>1. r \in Regs /\ r # "ea_save" /\ own[r] = ctx
        BY AnnotationType DEF TypeOK, CheckpointInv, RunInv
      <4>2. CASE r = "eal"
        BY <4>1, <4>2, MicroengineAssumption DEF own_fault
      <4>3. CASE r # "eal"
        BY <2>5, <4>1, <4>3 DEF own_fault
      <4> QED BY <4>2, <4>3
    <3> QED BY <3>1 DEF Holds
  <2>7. /\ Live[upc'] = {} /\ upc' \in Building /\ upc' \notin Returning
        /\ Micro[upc'].seq # "resume"
    BY <2>1, EntryRule, EntryMarks, ResumeMarks, VectorType
  <2>8. faulted'[ctx] = upc /\ \A n \in Contexts : n # ctx => faulted'[n] = faulted[n]
    BY <2>2, <2>3 DEF TypeOK
  <2>9. FaultedInv'
    <3>1. FaultedInv /\ ReturnInv
      BY <1>1 DEF CheckpointInv
    <3>2. ASSUME NEW n \in Contexts, n < ctx + 1
          PROVE  faulted'[n] \notin Processing /\ (faulted'[n] \in Returning => n > 0)
      <4>1. CASE n = ctx
        BY <2>4, <2>8, <3>1, <4>1 DEF ReturnInv
      <4>2. CASE n # ctx
        <5>1. n < ctx
          BY <2>2, <3>2, <4>2 DEF Contexts
        <5> QED BY <2>8, <3>1, <4>2, <5>1 DEF FaultedInv
      <4> QED BY <4>1, <4>2
    <3> QED BY <2>1, <3>2 DEF FaultedInv
  <2>10. SuspendedInv'
    <3>1. SuspendedInv
      BY <1>1 DEF CheckpointInv
    <3>2. ASSUME NEW n \in Contexts, n < ctx + 1, n # ctx
          PROVE  /\ faulted'[n] = faulted[n] /\ long[n].upc = faulted[n]
                 /\ Holds(faulted[n], n, long[n].regs)
      <4>1. n < ctx
        BY <2>2, <3>2 DEF Contexts
      <4> QED BY <2>4, <2>8, <3>1, <3>2, <4>1 DEF SuspendedInv
    <3>3. (ctx + 1) - 1 = ctx
      BY <2>2
    <3> QED BY <2>1, <2>7, <3>2, <3>3 DEF SuspendedInv, Holds
  <2>11. BuildingInv'
    <3>1. ctx' > 0 /\ ctx' - 1 = ctx
      BY <2>1, <2>2
    <3> QED BY <2>1, <2>6, <2>8, <3>1 DEF BuildingInv, Holds
  <2>12. RunInv' /\ GroupInv' /\ ReturnInv' /\ ResumeInv' /\ SkipsOnlyFaulted'
    BY <1>1, <2>1, <2>7 DEF RunInv, GroupInv, ReturnInv, ResumeInv, SkipsOnlyFaulted, w
  <2> QED BY <1>1, <2>1, <2>9, <2>10, <2>11, <2>12 DEF CheckpointInv
<1> QED BY <1>2, <1>3, <1>4, <1>5

\* A microword that commits keeps the invariant, case by case.
LEMMA ClockCheckpoint ==
  ASSUME TypeOK, CheckpointInv, Clock
  PROVE  CheckpointInv'
<1>1. PICK t \in upc_target, new \in SoftwareSR, rr \in SoftwareRR : Commit(t, new, rr)
  BY DEF Clock
<1>2. CASE reset_pin
  BY <1>1, <1>2, RestartCheckpoint DEF Commit
<1>3. CASE ~reset_pin /\ halted
  <2>1. upc' = Entry("halted") /\ halted'
    BY <1>1, <1>3, HaltedWord DEF Commit, upc_nxt
  <2> QED BY <2>1, HaltCheckpoint
<1>4. CASE ~reset_pin /\ ~halted
  <2>1. CASE w.seq = "resume"
    BY <1>1, <1>4, <2>1, ResumeCheckpoint
  <2>2. CASE w.dst = "reload"
    BY <1>1, <1>4, <2>2, ReloadCheckpoint
  <2>3. CASE w.dst = "frame8"
    BY <1>1, <1>4, <2>3, Frame8Checkpoint
  <2>4. CASE w.seq # "resume" /\ w.dst \notin {"reload", "frame8"}
    BY <1>1, <1>4, <2>4, PlainCheckpoint
  <2> QED BY <2>1, <2>2, <2>3, <2>4
<1> QED BY <1>2, <1>3, <1>4

\* Waiting for the bus changes nothing, unless RESET arrives.
LEMMA StallCheckpoint ==
  ASSUME TypeOK, CheckpointInv, Stall
  PROVE  CheckpointInv'
<1>1. CASE reset_pin
  BY <1>1, RestartCheckpoint DEF Stall
<1>2. CASE ~reset_pin
  BY <1>2, SameCheckpoint DEF Stall, saved, frames
<1> QED BY <1>1, <1>2

\* The pins do not reach the checkpoint.
LEMMA PinsCheckpoint ==
  ASSUME CheckpointInv, (\E l \in Levels : Request(l)) \/ PulseReset \/ UNCHANGED vars
  PROVE  CheckpointInv'
BY SameCheckpoint DEF Request, PulseReset, vars, flags, saved, frames, hist

(***************************************************************************)
(* Whatever the microprogram, if it follows the checkpoint rule the        *)
(* running word's registers are its instruction's, a suspended one's are   *)
(* in its frame, and RTE knows whose frame it has.                         *)
(***************************************************************************)
THEOREM CheckpointAlways == Spec => []CheckpointInv
<1>1. TypeOK /\ CheckpointInv /\ [Next]_vars => CheckpointInv'
  BY StallCheckpoint, ClockCheckpoint, FaultCheckpoint, PinsCheckpoint DEF Next
<1> QED BY InitCheckpoint, TypeCorrect, <1>1, PTL DEF Spec

(***************************************************************************)
(* Instruction continuation is transparent: no word of an instruction, in  *)
(* whatever number of faults it is interrupted and resumed, reads a        *)
(* register another instruction or a fault handler wrote.                  *)
(***************************************************************************)
THEOREM OwnValuesAlways == Spec => []OwnValues
<1>1. TypeOK /\ CheckpointInv => OwnValues
  BY Rules DEF TypeOK, CheckpointInv, RunInv, LiveRule, OwnValues, w
<1> QED BY <1>1, TypeCorrect, CheckpointAlways, PTL

\* The rerun flag excuses only the word that faulted from its cycle.
THEOREM SkipsOnlyFaultedAlways == Spec => []SkipsOnlyFaulted
<1>1. CheckpointInv => SkipsOnlyFaulted
  BY DEF CheckpointInv
<1> QED BY <1>1, CheckpointAlways, PTL

\* RTE of a format $8 frame goes back to the very word that faulted, however
\* many faults were taken and resumed in between, and obeys the rerun flag.
THEOREM ResumesFaultedAlways == Spec => ResumesFaulted
<1>1. ASSUME TypeOK, CheckpointInv, [Next]_vars, ~reset_pin, ctx' < ctx
      PROVE  upc' = faulted[ctx'] /\ rerun_skip' = long[ctx'].rr
  <2>1. ctx \in Nat
    BY <1>1, MicroengineAssumption DEF TypeOK, Contexts
  <2>2. ctx' # ctx /\ ctx' # ctx + 1
    BY <1>1, <2>1
  <2>3. ~Stall /\ ~PulseReset /\ ~(UNCHANGED vars) /\ ~(\E l \in Levels : Request(l))
    <3>1. Stall => ctx' = ctx
      BY <1>1 DEF Stall
    <3>2. PulseReset \/ UNCHANGED vars \/ (\E l \in Levels : Request(l)) => ctx' = ctx
      BY DEF PulseReset, Request, vars
    <3> QED BY <2>2, <3>1, <3>2
  <2>4. ~Fault
    <3>1. Fault => ctx' = ctx \/ ctx' = ctx + 1
      BY <1>1 DEF Fault
    <3> QED BY <2>1, <2>2, <3>1
  <2>5. PICK t \in upc_target, new \in SoftwareSR, rr \in SoftwareRR : Commit(t, new, rr)
    BY <1>1, <2>3, <2>4 DEF Next, Clock
  <2>6. w.seq = "resume"
    BY <1>1, <2>2, <2>5 DEF Commit
  <2>7. ~halted
    BY <1>1, <2>6, HaltedWord
  <2> QED BY <1>1, <2>5, <2>6, <2>7, ResumeCheckpoint
<1>2. TypeOK /\ CheckpointInv /\ [Next]_vars
        => [~reset_pin /\ ctx' < ctx =>
              upc' = faulted[ctx'] /\ rerun_skip' = long[ctx'].rr]_vars
  BY <1>1
<1> QED BY <1>2, TypeCorrect, CheckpointAlways, PTL DEF Spec, ResumesFaulted
=============================================================================
