---------------------------- MODULE Boundary_proofs ----------------------------
(***************************************************************************)
(* Proofs about the microengine at the boundaries of instructions and of   *)
(* exception processing, for every microprogram that follows the rules of  *)
(* module Checkpoint: interrupts are honest, and group 0 is exactly the    *)
(* processing it stands for; and, for one that follows the rule of module  *)
(* Tracing too, every instruction is traced exactly once.                  *)
(***************************************************************************)
EXTENDS Checkpoint_proofs, Tracing

\* Entries have different labels, and only two of them are in group 0.
LEMMA EntryGroups ==
  /\ \A k, l : Entry(k) = Entry(l) => k = l
  /\ \A l \in {"halted", "spurious", "trace", "interrupt"} : ~InGroup(Entry(l))
  /\ \A op \in Opcodes : ~InGroup(Entry(op)) /\ Entry(op) # Entry("interrupt")
  /\ InGroup(Entry("reset")) /\ InGroup(Entry("buserr"))
<1>1. \A l : Entry(l)[1] = l
  BY DEF Entry
<1>2. \A k, l : Entry(k) = Entry(l) => k = l
  BY <1>1
<1>3. \A l : InGroup(Entry(l)) <=> l \in {"reset", "buserr"}
  BY <1>1, <1>2 DEF InGroup
<1>4. \A op \in Opcodes : op \notin {"reset", "buserr", "interrupt"}
  BY BoundaryRule
<1> QED BY <1>2, <1>3, <1>4

-----------------------------------------------------------------------------
(***************************************************************************)
(* Interrupts.                                                             *)
(***************************************************************************)
\* No frame resumes the interrupt sequence's first word, which cannot fault.
InterruptInv ==
  /\ IrqHonest
  /\ upc_save # Entry("interrupt")
  /\ \A n \in Contexts : long[n].upc # Entry("interrupt")

LEMMA InterruptWord == ASSUME bus_busy PROVE upc # Entry("interrupt")
BY BoundaryRule DEF bus_busy, w

LEMMA RestartInterrupt == Restart => upc' # Entry("interrupt")
                                     /\ \A n \in Contexts : long'[n].upc # Entry("interrupt")
BY EntryGroups DEF Restart, NoLong

LEMMA InitInterrupt == Init => InterruptInv
<1> SUFFICES ASSUME Init PROVE InterruptInv
  OBVIOUS
<1>1. upc = Entry("reset") /\ upc_save = Entry("reset")
  BY DEF Init
<1>2. \A n \in Contexts : long[n].upc = Entry("halted")
  BY DEF Init, NoLong
<1> QED BY <1>1, <1>2, EntryGroups DEF InterruptInv, IrqHonest

\* The frames keep the address of the word that faulted, never the sequence's.
LEMMA FramesInterrupt ==
  ASSUME TypeOK, InterruptInv, NEW rr
  PROVE  \A n \in Contexts : long_nxt(rr)[n].upc # Entry("interrupt")
<1>1. \A n \in Contexts : long[n].upc # Entry("interrupt")
  BY DEF InterruptInv
<1>2. Frame8.upc # Entry("interrupt") /\ NoLong.upc # Entry("interrupt")
  BY EntryGroups DEF InterruptInv, Frame8, NoLong
<1>3. SUFFICES ASSUME NEW n \in Contexts PROVE long_nxt(rr)[n].upc # Entry("interrupt")
  OBVIOUS
<1> DEFINE Built == [long EXCEPT ![ctx - 1] = Frame8]
           Loaded == [long EXCEPT ![ctx - 1].rr = rr]
           Dropped == [long EXCEPT ![ctx - 1] = NoLong]
           L == long_nxt(rr)
<1>4. L = Built \/ (ctx > 0 /\ L = Loaded) \/ L = Dropped \/ L = long
  BY DEF long_nxt
<1>5. long \in [Contexts -> [upc : Addr, sr : Status, regs : [Framed -> Owners], rr : BOOLEAN]]
  BY DEF TypeOK
<1>6. ctx > 0 => Loaded[n].upc = long[n].upc
  <2>1. ctx > 0 => ctx - 1 \in Contexts
    BY MicroengineAssumption DEF TypeOK, Contexts
  <2> QED BY <1>5, <2>1
<1>7. Built[n].upc # Entry("interrupt")
  BY <1>1, <1>2, <1>5
<1>8. Dropped[n].upc # Entry("interrupt")
  BY <1>1, <1>2, <1>5
<1> HIDE DEF Built, Loaded, Dropped, L
<1>9. L[n].upc # Entry("interrupt")
  BY <1>1, <1>4, <1>6, <1>7, <1>8
<1> QED BY <1>9 DEF L

\* An interrupt is taken where the level is compared with the mask.
LEMMA TakenInterrupt ==
  ASSUME TypeOK, InterruptInv, ~halted, NEW t \in upc_target, NEW new,
         upc_nxt(t) = Entry("interrupt")
  PROVE  take_irq /\ ~take_trace /\ (ipl = 7 \/ ipl > sr_nxt(new).i)
<1>1. upc \in Addr /\ w \in Word /\ LiveRule(upc)
  BY WordType, Rules DEF TypeOK
<1>2. w.seq # "resume"
  <2>1. SUFFICES ASSUME w.seq = "resume" PROVE FALSE
    OBVIOUS
  <2>2. ~Boundary
    BY <1>1, <2>1 DEF LiveRule, Boundary, w
  <2>3. upc_nxt(t) = upc_save
    BY <2>1, <2>2 DEF upc_nxt, take_irq, take_trace
  <2> QED BY <2>3 DEF InterruptInv
<1>3. take_irq /\ ~take_trace
  <2>1. ~take_trace
    BY <1>2, EntryGroups DEF upc_nxt
  <2>2. SUFFICES ASSUME ~take_irq PROVE FALSE
    BY <2>1
  <2>3. \/ upc_nxt(t) \in Flow(upc)
        \/ \E op \in Opcodes : upc_nxt(t) = Entry(op)
    BY <1>2, <2>1, <2>2, Goes
  <2> QED BY <1>1, <2>3, EntryGroups, BoundaryRule
<1>4. Ends(upc)
  BY <1>3 DEF take_irq, Boundary, Ends, w
<1>5. w.dst \notin {"sr_irq", "sr_new", "sr_frame", "sr_save"}
  BY <1>1, <1>4, BoundaryRule DEF w
<1>6. sr_nxt(new).i = sr.i
  BY <1>5 DEF sr_nxt, TypeOK, Status
<1> QED BY <1>3, <1>6 DEF take_irq, irq_pending

LEMMA ClockInterrupt ==
  ASSUME TypeOK, InterruptInv, Clock
  PROVE  InterruptInv'
<1>1. PICK t \in upc_target, new \in SoftwareSR, rr \in SoftwareRR : Commit(t, new, rr)
  BY DEF Clock
<1>2. upc_save' # Entry("interrupt")
  <2>1. ctx > 0 => ctx - 1 \in Contexts
    BY MicroengineAssumption DEF TypeOK, Contexts
  <2> QED BY <1>1, <2>1 DEF Commit, InterruptInv
<1>3. CASE reset_pin
  BY <1>1, <1>2, <1>3, RestartInterrupt DEF Commit, InterruptInv, IrqHonest
<1>4. CASE ~reset_pin
  <2>1. \A n \in Contexts : long'[n].upc # Entry("interrupt")
    BY <1>1, <1>4, FramesInterrupt DEF Commit
  <2>2. ASSUME upc' = Entry("interrupt")
        PROVE  irq_taken' = 7 \/ irq_taken' > sr'.i
    <3>1. upc_nxt(t) = Entry("interrupt") /\ sr' = sr_nxt(new)
      BY <1>1, <1>4, <2>2 DEF Commit
    <3>2. ~halted
      BY <3>1, EntryGroups DEF upc_nxt
    <3>3. take_irq /\ (ipl = 7 \/ ipl > sr_nxt(new).i)
      BY <3>1, <3>2, TakenInterrupt
    <3>4. irq_taken' = ipl
      BY <1>1, <3>3 DEF Commit, IrqClock
    <3> QED BY <3>1, <3>3, <3>4
  <2> QED BY <1>2, <2>1, <2>2 DEF InterruptInv, IrqHonest
<1> QED BY <1>3, <1>4

LEMMA FaultInterrupt ==
  ASSUME TypeOK, InterruptInv, Fault
  PROVE  InterruptInv'
<1>1. upc_save' # Entry("interrupt")
  BY InterruptWord DEF Fault, CanFault, MayStall
<1>2. upc' # Entry("interrupt") /\ \A n \in Contexts : long'[n].upc # Entry("interrupt")
  <2>1. CASE reset_pin
    BY <2>1, RestartInterrupt DEF Fault
  <2>2. CASE ~reset_pin
    BY <2>2, EntryGroups DEF Fault, fault_entry, frames, InterruptInv
  <2> QED BY <2>1, <2>2
<1> QED BY <1>1, <1>2 DEF InterruptInv, IrqHonest

LEMMA StallInterrupt ==
  ASSUME TypeOK, InterruptInv, Stall
  PROVE  InterruptInv'
<1>1. upc_save' = upc_save
  BY DEF Stall, saved
<1>2. upc' # Entry("interrupt") /\ \A n \in Contexts : long'[n].upc # Entry("interrupt")
  <2>1. CASE reset_pin
    BY <2>1, RestartInterrupt DEF Stall
  <2>2. CASE ~reset_pin
    BY <2>2, InterruptWord DEF Stall, MayStall, frames, InterruptInv
  <2> QED BY <2>1, <2>2
<1> QED BY <1>1, <1>2 DEF InterruptInv, IrqHonest

LEMMA PinsInterrupt ==
  ASSUME InterruptInv, (\E l \in Levels : Request(l)) \/ PulseReset \/ UNCHANGED vars
  PROVE  InterruptInv'
<1>1. /\ UNCHANGED <<upc, upc_save, long, sr, irq_taken>>
      /\ reset_pin' = reset_pin \/ upc = Entry("reset") \/ reset_pin'
  BY DEF Request, PulseReset, vars, saved, frames, irqs
<1> QED BY <1>1, EntryGroups DEF InterruptInv, IrqHonest

LEMMA InterruptKept == TypeOK /\ InterruptInv /\ [Next]_vars => InterruptInv'
BY StallInterrupt, ClockInterrupt, FaultInterrupt, PinsInterrupt DEF Next

(***************************************************************************)
(* An interrupt is serviced at a level that was above the mask, or seven.  *)
(***************************************************************************)
THEOREM IrqHonestAlways == Spec => []IrqHonest
<1>1. InterruptInv => IrqHonest
  BY DEF InterruptInv
<1> QED BY InitInterrupt, TypeCorrect, InterruptKept, <1>1, PTL DEF Spec

\* A clock that comes to the interrupt sequence takes one that is pending, at a
\* boundary where no trace is taken.
LEMMA InterruptStep ==
  ASSUME TypeOK, InterruptInv, [Next]_vars, upc' = Entry("interrupt"), upc' # upc
  PROVE  ~halted /\ Boundary /\ irq_pending /\ ~take_trace
<1>1. ~Stall
  <2>1. SUFFICES ASSUME Stall PROVE FALSE
    OBVIOUS
  <2>2. reset_pin /\ Restart
    BY <2>1 DEF Stall
  <2> QED BY <2>2, RestartInterrupt
<1>2. ~Fault
  <2>1. SUFFICES ASSUME Fault PROVE FALSE
    OBVIOUS
  <2>2. CASE reset_pin
    BY <2>1, <2>2, RestartInterrupt DEF Fault
  <2>3. CASE ~reset_pin
    BY <2>1, <2>3, EntryGroups DEF Fault, fault_entry
  <2> QED BY <2>2, <2>3
<1>3. ~((\E l \in Levels : Request(l)) \/ PulseReset \/ UNCHANGED vars)
  BY DEF Request, PulseReset, vars
<1>4. Clock
  BY <1>1, <1>2, <1>3 DEF Next
<1>5. PICK t \in upc_target, new \in SoftwareSR, rr \in SoftwareRR : Commit(t, new, rr)
  BY <1>4 DEF Clock
<1>6. upc_nxt(t) = Entry("interrupt")
  <2>1. ~reset_pin
    BY <1>5, RestartInterrupt DEF Commit
  <2> QED BY <1>5, <2>1 DEF Commit
<1>7. ~halted
  BY <1>6, EntryGroups DEF upc_nxt
<1> QED BY <1>6, <1>7, TakenInterrupt DEF take_irq

\* What has been serviced is no longer remembered as an edge.
LEMMA ServedStep ==
  ASSUME TypeOK, served7 => ~irq7_edge, [Next]_vars
  PROVE  served7' => ~irq7_edge'
<1>1. ASSUME NEW taking \in BOOLEAN, NEW serves \in BOOLEAN, serves => taking,
             IrqClock(taking, serves)
      PROVE  served7' => ~irq7_edge'
  BY <1>1 DEF IrqClock, irq7_edge_nxt
<1>2. CASE Stall \/ Fault
  BY <1>1, <1>2 DEF Stall, Fault
<1>3. CASE Clock
  <2>1. IrqClock(take_irq, take_irq /\ ~take_trace)
    BY <1>3 DEF Clock, Commit
  <2>2. take_irq \in BOOLEAN /\ (take_irq /\ ~take_trace) \in BOOLEAN
    BY DEF take_irq
  <2> QED BY <1>1, <2>1, <2>2
<1>4. CASE (\E l \in Levels : Request(l)) \/ PulseReset \/ UNCHANGED vars
  BY <1>4 DEF Request, PulseReset, vars, irqs, hist
<1> QED BY <1>2, <1>3, <1>4 DEF Next

(***************************************************************************)
(* At mask seven only the remembered edge lets level seven through, and    *)
(* servicing it forgets the edge: one request is serviced once.            *)
(***************************************************************************)
THEOREM Irq7OnceAlways == Spec => Irq7Once
<1> DEFINE Served == served7 => ~irq7_edge
<1>1. Init => Served
  BY DEF Init
<1>2. TypeOK /\ Served /\ [Next]_vars => Served'
  BY ServedStep
<1>3. TypeOK /\ InterruptInv /\ Served /\ [Next]_vars
        => [upc' = Entry("interrupt") /\ upc' # upc /\ ipl = 7 /\ sr.i = 7 => ~served7]_vars
  <2>1. SUFFICES ASSUME TypeOK, InterruptInv, Served, [Next]_vars,
                        upc' = Entry("interrupt"), upc' # upc, ipl = 7, sr.i = 7
                 PROVE  ~served7
    BY DEF vars
  <2>2. irq_pending
    BY <2>1, InterruptStep
  <2> QED BY <2>1, <2>2 DEF irq_pending
<1>4. Spec => []InterruptInv
  BY InitInterrupt, InterruptKept, TypeCorrect, PTL DEF Spec
<1> QED BY TypeCorrect, <1>1, <1>2, <1>3, <1>4, PTL DEF Spec, Irq7Once
-----------------------------------------------------------------------------
(***************************************************************************)
(* Group 0.                                                                *)
(***************************************************************************)
\* Group 0 is its processing, and no suspended instruction was in it.
ProcessingInv ==
  /\ ~halted /\ ~reset_pin => (group0 <=> InGroup(upc))
  /\ ~halted => \A n \in Contexts : n < ctx => ~InGroup(faulted[n])

LEMMA InitProcessing == Init => ProcessingInv
<1> SUFFICES ASSUME Init PROVE ProcessingInv
  OBVIOUS
<1>1. reset_pin /\ ctx = 0
  BY DEF Init
<1>2. \A n \in Contexts : ~(n < ctx)
  BY <1>1 DEF Contexts
<1> QED BY <1>1, <1>2 DEF ProcessingInv

LEMMA RestartProcessing == Restart /\ group0' => ProcessingInv'
<1> SUFFICES ASSUME Restart, group0' PROVE ProcessingInv'
  OBVIOUS
<1>1. upc' = Entry("reset") /\ ctx' = 0
  BY DEF Restart
<1>2. InGroup(upc')
  BY <1>1, EntryGroups
<1>3. \A n \in Contexts : ~(n < ctx')
  BY <1>1 DEF Contexts
<1> QED BY <1>2, <1>3 DEF ProcessingInv

\* A word that does not resume takes group 0 with it, or ends it at a boundary.
LEMMA GoesProcessing ==
  ASSUME TypeOK, ProcessingInv, ~halted, ~reset_pin, w.seq # "resume",
         NEW t \in upc_target
  PROVE  group0_nxt <=> InGroup(upc_nxt(t))
<1>1. upc \in Addr /\ w \in Word /\ LiveRule(upc) /\ group0 \in BOOLEAN
  BY WordType, Rules DEF TypeOK
<1>2. group0 <=> InGroup(upc)
  BY DEF ProcessingInv
<1>3. CASE w.seq # "decode" /\ upc_nxt(t) \in Flow(upc)
  <2>1. InGroup(upc_nxt(t)) <=> InGroup(upc) \/ "g0" \in w.marks
    BY <1>1, <1>3, ProcessingRule DEF w
  <2>2. group0_nxt <=> group0 \/ "g0" \in w.marks
    BY <1>1, <1>3 DEF group0_nxt
  <2> QED BY <1>2, <2>1, <2>2
<1>4. CASE w.seq = "decode"
  <2>1. "g0" \notin w.marks
    BY <1>1, <1>4, ProcessingRule DEF Ends, w
  <2>2. ~group0_nxt
    BY <1>4, <2>1 DEF group0_nxt
  <2>3. \/ \E op \in Opcodes : upc_nxt(t) = Entry(op)
        \/ upc_nxt(t) \in {Entry("trace"), Entry("interrupt")}
    BY <1>4, Goes
  <2> QED BY <2>2, <2>3, EntryGroups
<1>5. CASE w.seq # "decode" /\ Boundary /\ upc_nxt(t) \in {Entry("trace"), Entry("interrupt")}
  <2>1. "stop" \in w.marks
    BY <1>5 DEF Boundary
  <2>2. "g0" \notin w.marks /\ ~InGroup(upc)
    BY <1>1, <2>1, ProcessingRule DEF Ends, w
  <2>3. ~group0_nxt
    BY <1>1, <1>2, <1>5, <2>2 DEF group0_nxt
  <2> QED BY <1>5, <2>3, EntryGroups
<1> QED BY <1>3, <1>4, <1>5, Goes

LEMMA ClockProcessing ==
  ASSUME TypeOK, CheckpointInv, ProcessingInv, Clock
  PROVE  ProcessingInv'
<1>1. PICK t \in upc_target, new \in SoftwareSR, rr \in SoftwareRR : Commit(t, new, rr)
  BY DEF Clock
<1>2. CASE reset_pin
  BY <1>1, <1>2, RestartProcessing DEF Commit
<1>3. CASE ~reset_pin
  <2>1. /\ upc' = upc_nxt(t) /\ group0' = group0_nxt /\ halted' = halted
        /\ reset_pin' = reset_pin /\ faulted' = faulted
        /\ ctx' = IF w.seq = "resume" /\ ctx > 0 THEN ctx - 1 ELSE ctx
    BY <1>1, <1>3 DEF Commit, IrqClock
  <2>2. CASE halted
    BY <2>1, <2>2 DEF ProcessingInv
  <2>3. CASE ~halted /\ w.seq = "resume"
    <3>1. upc' = faulted[ctx - 1] /\ ctx' = ctx - 1
      BY <1>1, <1>3, <2>3, ResumeCheckpoint
    <3>2. ctx \in Nat /\ ctx - 1 \in Contexts /\ upc \in Addr
      BY <2>3, ResumeMarks, MicroengineAssumption
         DEF CheckpointInv, ReturnInv, TypeOK, Contexts, w
    <3>3. ~InGroup(upc')
      BY <2>3, <3>1, <3>2 DEF ProcessingInv, Contexts
    <3>4. ~group0'
      <4>1. "g0" \notin w.marks
        BY <2>3, <3>2, ProcessingRule DEF w
      <4> QED BY <2>1, <2>3, <4>1 DEF group0_nxt
    <3>5. \A n \in Contexts : n < ctx' => n < ctx
      BY <3>1, <3>2 DEF Contexts
    <3> QED BY <2>1, <2>3, <3>3, <3>4, <3>5 DEF ProcessingInv
  <2>4. CASE ~halted /\ w.seq # "resume"
    <3>1. group0' <=> InGroup(upc')
      BY <1>3, <2>1, <2>4, GoesProcessing
    <3> QED BY <2>1, <2>4, <3>1 DEF ProcessingInv
  <2> QED BY <2>2, <2>3, <2>4
<1> QED BY <1>2, <1>3

LEMMA FaultProcessing ==
  ASSUME TypeOK, CheckpointInv, ProcessingInv, Fault
  PROVE  ProcessingInv'
<1>1. ~halted /\ upc \in Addr /\ group0 \in BOOLEAN
  BY HaltedWord DEF Fault, CanFault, MayStall, bus_busy, TypeOK
<1>2. CASE reset_pin
  <2>1. Restart /\ (group0' <=> group0 \/ ~spurious_int) /\ (halted' <=> dbl_fault)
        /\ reset_pin' = reset_pin
    BY <1>1, <1>2 DEF Fault, IrqClock
  <2>2. \A n \in Contexts : ~(n < ctx')
    BY <2>1 DEF Restart, Contexts
  <2> QED BY <1>2, <2>1, <2>2 DEF ProcessingInv
<1>3. CASE ~reset_pin
  <2>1. group0 <=> InGroup(upc)
    BY <1>1, <1>3 DEF ProcessingInv
  <2>2. /\ upc' = fault_entry /\ halted' = (halted \/ dbl_fault)
        /\ group0' = (group0 \/ ~spurious_int)
        /\ ctx' = IF dbl_fault \/ spurious_int THEN ctx ELSE ctx + 1
        /\ faulted' = [faulted EXCEPT ![ctx] = IF ctx' = ctx THEN @ ELSE upc]
    BY <1>3 DEF Fault
  <2>3. CASE dbl_fault
    BY <2>2, <2>3 DEF ProcessingInv
  <2>4. CASE ~dbl_fault /\ spurious_int
    <3>1. ~InGroup(upc)
      BY <1>1, <2>4, ProcessingRule DEF spurious_int, w
    <3>2. upc' = Entry("spurious") /\ ~group0' /\ ctx' = ctx
      BY <2>1, <2>2, <2>4, <3>1 DEF fault_entry
    <3>3. faulted' = faulted
      BY <2>2, <3>2 DEF TypeOK
    <3> QED BY <1>1, <3>2, <3>3, EntryGroups DEF ProcessingInv
  <2>5. CASE ~dbl_fault /\ ~spurious_int
    <3>1. ~InGroup(upc)
      BY <2>1, <2>5 DEF dbl_fault
    <3>2. upc' = Entry("buserr") /\ group0' /\ ctx' = ctx + 1
      BY <2>2, <2>5 DEF fault_entry
    <3>3. faulted' = [faulted EXCEPT ![ctx] = upc]
      <4>1. ctx' # ctx
        BY <3>2 DEF TypeOK, Contexts
      <4> QED BY <2>2, <4>1
    <3>4. ASSUME NEW n \in Contexts, n < ctx'
          PROVE  ~InGroup(faulted'[n])
      <4>1. CASE n = ctx
        BY <3>1, <3>3, <4>1 DEF TypeOK
      <4>2. CASE n # ctx
        <5>1. n < ctx
          BY <3>2, <3>4, <4>2 DEF TypeOK, Contexts
        <5> QED BY <1>1, <3>3, <4>2, <5>1 DEF ProcessingInv, TypeOK
      <4> QED BY <4>1, <4>2
    <3> QED BY <3>2, <3>4, EntryGroups DEF ProcessingInv
  <2> QED BY <2>3, <2>4, <2>5
<1> QED BY <1>2, <1>3

LEMMA StallProcessing ==
  ASSUME ProcessingInv, Stall
  PROVE  ProcessingInv'
<1>1. CASE reset_pin
  BY <1>1, RestartProcessing DEF Stall
<1>2. CASE ~reset_pin
  BY <1>2 DEF Stall, IrqClock, ProcessingInv
<1> QED BY <1>1, <1>2

LEMMA PinsProcessing ==
  ASSUME TypeOK, ProcessingInv,
         (\E l \in Levels : Request(l)) \/ PulseReset \/ UNCHANGED vars
  PROVE  ProcessingInv'
<1>1. CASE (\E l \in Levels : Request(l)) \/ UNCHANGED vars
  BY <1>1 DEF Request, vars, flags, hist, irqs, ProcessingInv
<1>2. CASE PulseReset
  <2>1. UNCHANGED <<upc, group0, halted, ctx, faulted>> /\ reset_pin' = ~reset_pin
    BY <1>2 DEF PulseReset, flags, hist
  <2>2. reset_pin => upc = Entry("reset") /\ group0
    BY <1>2 DEF PulseReset
  <2> QED BY <2>1, <2>2, EntryGroups DEF ProcessingInv
<1> QED BY <1>1, <1>2

LEMMA ProcessingKept ==
  TypeOK /\ CheckpointInv /\ ProcessingInv /\ [Next]_vars => ProcessingInv'
BY StallProcessing, ClockProcessing, FaultProcessing, PinsProcessing DEF Next

(***************************************************************************)
(* Group 0 lasts exactly as long as the processing it is for, so a fault   *)
(* outside it never halts the processor and a fault inside it always does. *)
(***************************************************************************)
THEOREM GroupIsProcessingAlways == Spec => []GroupIsProcessing
<1>1. ProcessingInv => GroupIsProcessing
  BY DEF ProcessingInv, GroupIsProcessing, InGroup
<1> QED BY InitProcessing, ProcessingKept, TypeCorrect, CheckpointAlways, <1>1, PTL DEF Spec
-----------------------------------------------------------------------------
(***************************************************************************)
(* Trace.                                                                  *)
(***************************************************************************)
\* The trace rule, for one word.
LEMMA TraceRules ==
  ASSUME NEW a \in Addr
  PROVE  ReachRule(a) /\ SteadyRule(a) /\ SavingRule(a)
BY TraceRule

\* The words a program comes to include every entry; no sequence of the
\* microengine's own begins steady, and a saving word is never an entry.
LEMMA TraceEntries ==
  /\ \A l \in {"reset", "halted", "buserr", "spurious", "trace", "interrupt"} :
       Entry(l) \in Reached /\ Entry(l) \notin Steady /\ Entry(l) \notin Saving
  /\ \A op \in Opcodes : /\ Entry(op) \in Reached /\ Entry(op) \notin Saving
                         /\ Entry(op) # Entry("buserr")
BY TraceRule, EntryGroups DEF Entries, Vectors

LEMMA InitTrace == Init => TraceInv
<1> SUFFICES ASSUME Init PROVE TraceInv
  OBVIOUS
<1>1. upc = Entry("reset") /\ ctx = 0 /\ trace_armed = FALSE /\ owed[0] = FALSE
  BY MicroengineAssumption DEF Init, Contexts
<1>2. \A n \in Contexts : ~(n < ctx)
  BY <1>1 DEF Contexts
<1>3. Entry("reset") # Entry("buserr")
  BY EntryGroups
<1> QED BY <1>1, <1>2, <1>3, TraceEntries DEF TraceInv, ArmedInv, SavingInv, OwedInv

LEMMA RestartTrace ==
  ASSUME Restart, trace_armed' = FALSE
  PROVE  TraceInv'
<1>1. upc' = Entry("reset") /\ ctx' = 0 /\ owed'[0] = FALSE
  BY MicroengineAssumption DEF Restart, Contexts
<1>2. \A n \in Contexts : ~(n < ctx')
  BY <1>1 DEF Contexts
<1>3. Entry("reset") # Entry("buserr")
  BY EntryGroups
<1> QED BY <1>1, <1>2, <1>3, TraceEntries DEF TraceInv, ArmedInv, SavingInv, OwedInv

\* Where RESET is seen there is no cycle and no boundary.
LEMMA ResetWord ==
  ASSUME TypeOK, TraceInv, reset_pin
  PROVE  ~bus_busy /\ w.seq \notin {"decode", "resume"} /\ ~trace_armed
<1>1. upc = Entry("reset") /\ ~trace_armed
  BY DEF TraceInv
<1>2. w.seq # "resume"
  BY <1>1, ResumeMarks, EntryMarks DEF TypeOK, w
<1> QED BY <1>1, <1>2, EntryRule, TraceRule DEF bus_busy, w

\* A word that does not resume changes what is owed in its own context only,
\* and with it what is armed.
LEMMA ArmedStep ==
  ASSUME TypeOK, upc \in Reached, trace_armed = owed[ctx], w.seq # "resume", NEW new
  PROVE  /\ trace_armed_nxt(new) = owed_nxt(new)[ctx]
         /\ \A n \in Contexts : n # ctx => owed_nxt(new)[n] = owed[n]
<1>1. "stop" \notin w.marks /\ ctx \in Contexts /\ owed \in [Contexts -> BOOLEAN]
  BY TraceRules DEF TypeOK, ReachRule, w
<1>2. Boundary <=> w.seq = "decode"
  BY <1>1 DEF Boundary
<1>3. CASE "notrace" \in w.marks
  BY <1>1, <1>3 DEF trace_armed_nxt, owed_nxt
<1>4. CASE "notrace" \notin w.marks /\ w.seq = "decode"
  <2>1. owed_nxt(new) = [owed EXCEPT ![ctx] = ~take_trace /\ ~take_irq /\ w.seq = "decode"
                                                /\ sr_nxt(new).t]
    BY <1>2, <1>4 DEF owed_nxt
  <2>2. trace_armed_nxt(new) = (~take_trace /\ ~take_irq /\ sr_nxt(new).t)
    BY <1>4 DEF trace_armed_nxt
  <2> QED BY <1>1, <1>4, <2>1, <2>2
<1>5. CASE "notrace" \notin w.marks /\ w.seq # "decode"
  <2>1. owed_nxt(new) = owed
    BY <1>2, <1>5 DEF owed_nxt
  <2>2. trace_armed_nxt(new) = trace_armed
    BY <1>5 DEF trace_armed_nxt
  <2> QED BY <2>1, <2>2
<1> QED BY <1>3, <1>4, <1>5

\* The frame takes the saved status register, and nothing else changes it.
LEMMA FramesTrace ==
  ASSUME TypeOK, w.seq # "resume", NEW rr, NEW n \in Contexts
  PROVE  \/ long_nxt(rr)[n].sr = long[n].sr /\ ~(w.dst = "frame8" /\ n = ctx - 1)
         \/ long_nxt(rr)[n].sr = sr_save /\ w.dst = "frame8" /\ n = ctx - 1
<1>1. long \in [Contexts -> [upc : Addr, sr : Status, regs : [Framed -> Owners], rr : BOOLEAN]]
      /\ ctx \in Nat /\ n \in Nat
  BY MicroengineAssumption DEF TypeOK, Contexts
<1>2. ctx > 0 => ctx - 1 \in Contexts
  BY MicroengineAssumption DEF TypeOK, Contexts
<1>3. CASE w.dst = "frame8" /\ ctx > 0
  <2>1. long_nxt(rr) = [long EXCEPT ![ctx - 1] = Frame8] /\ Frame8.sr = sr_save
    BY <1>3 DEF long_nxt, Frame8
  <2> HIDE DEF Frame8
  <2> QED BY <1>1, <1>2, <1>3, <2>1
<1>4. CASE w.dst = "reload" /\ ctx > 0
  <2>1. long_nxt(rr) = [long EXCEPT ![ctx - 1].rr = rr]
    BY <1>4 DEF long_nxt
  <2> QED BY <1>1, <1>2, <1>4, <2>1
<1>5. CASE ~(w.dst \in {"frame8", "reload"} /\ ctx > 0)
  <2>1. long_nxt(rr) = long
    BY <1>5 DEF long_nxt
  <2>2. w.dst = "frame8" => n # ctx - 1
    BY <1>1, <1>5
  <2> QED BY <2>1, <2>2
<1> QED BY <1>3, <1>4, <1>5

\* A word that does not resume, and not while RESET is seen.
LEMMA PlainTrace ==
  ASSUME TypeOK, CheckpointInv, TraceInv, ~halted, ~reset_pin, w.seq # "resume",
         NEW t \in upc_target, NEW new \in Status, NEW rr, Commit(t, new, rr)
  PROVE  TraceInv'
<1> DEFINE u == upc_nxt(t)
<1>1. /\ upc' = u /\ ctx' = ctx /\ owed' = owed_nxt(new) /\ faulted' = faulted
      /\ trace_armed' = trace_armed_nxt(new) /\ sr' = sr_nxt(new)
      /\ sr_save' = sr_save_nxt /\ long' = long_nxt(rr)
      /\ halted' = halted /\ reset_pin' = reset_pin
  BY DEF Commit, IrqClock
<1>2. /\ upc \in Addr /\ upc \in Reached /\ ArmedInv /\ SavingInv /\ OwedInv
      /\ ReachRule(upc) /\ SteadyRule(upc) /\ SavingRule(upc)
      /\ ctx \in Contexts /\ ctx \in Nat
  BY TraceRules, MicroengineAssumption DEF TraceInv, TypeOK, Contexts
<1>3. \/ w.seq # "decode" /\ u \in Flow(upc)
      \/ w.seq = "decode" /\ \E op \in Opcodes : u = Entry(op)
      \/ u \in {Entry("trace"), Entry("interrupt")}
  BY Goes
<1>4. u \in Reached
  BY <1>2, <1>3, TraceEntries DEF ReachRule
<1>5. trace_armed' = owed'[ctx] /\ \A n \in Contexts : n # ctx => owed'[n] = owed[n]
  BY <1>1, <1>2, ArmedStep DEF ArmedInv
<1>6. ASSUME u \in Steady PROVE sr'.t = trace_armed'
  <2>1. CASE w.seq # "decode" /\ u \in Flow(upc)
    <3>1. /\ upc \in Steady /\ "notrace" \notin w.marks
          /\ w.dst \notin {"sr_exc", "sr_irq", "sr_new", "sr_frame", "sr_save"}
      BY <1>2, <1>6, <2>1 DEF SteadyRule, w
    <3>2. sr' = sr
      BY <1>1, <3>1 DEF sr_nxt
    <3>3. trace_armed' = trace_armed
      BY <1>1, <2>1, <3>1 DEF trace_armed_nxt
    <3> QED BY <1>2, <3>1, <3>2, <3>3 DEF ArmedInv
  <2>2. CASE w.seq = "decode"
    <3>1. u # Entry("trace") /\ u # Entry("interrupt")
      BY <1>6, TraceEntries
    <3>2. ~take_trace /\ ~take_irq
      BY <3>1 DEF upc_nxt
    <3>3. "notrace" \notin w.marks
      BY <1>2, <2>2 DEF SteadyRule, w
    <3>4. trace_armed' = (~take_trace /\ ~take_irq /\ sr_nxt(new).t)
      BY <1>1, <2>2, <3>3 DEF trace_armed_nxt
    <3>5. sr'.t \in BOOLEAN
      BY SrType, <1>1 DEF Status
    <3> QED BY <1>1, <3>2, <3>4, <3>5
  <2>3. u \notin {Entry("trace"), Entry("interrupt")}
    BY <1>6, TraceEntries
  <2> QED BY <1>3, <2>1, <2>2, <2>3
<1>7. ArmedInv'
  BY <1>1, <1>5, <1>6 DEF ArmedInv
<1>8. u # Entry("buserr")
  <2>1. Entry("trace") # Entry("buserr") /\ Entry("interrupt") # Entry("buserr")
    BY EntryGroups
  <2> QED BY <1>2, <1>3, <2>1, TraceEntries DEF SavingRule
<1>9. ASSUME u \in Saving PROVE ctx > 0 /\ sr_save'.t = owed'[ctx - 1]
  <2>1. u \in Flow(upc)
    BY <1>3, <1>9, TraceEntries
  <2>2. ASSUME ctx > 0 PROVE ctx - 1 \in Contexts /\ owed'[ctx - 1] = owed[ctx - 1]
    <3>1. ctx - 1 \in Contexts /\ ctx - 1 # ctx
      BY <1>2, <2>2, MicroengineAssumption DEF Contexts
    <3> QED BY <1>5, <3>1
  <2>3. CASE upc = Entry("buserr") /\ w.dst = "sr_exc"
    <3>1. ctx > 0 /\ sr.t = owed[ctx - 1]
      BY <1>2, <2>3 DEF SavingInv
    <3>2. sr_save' = sr
      BY <1>1, <2>3 DEF sr_save_nxt
    <3> QED BY <2>2, <3>1, <3>2
  <2>4. CASE upc \in Returning /\ w.dst = "srsave"
    <3>1. ctx > 0 /\ upc \notin Building
      BY <2>4, AnnotationType DEF CheckpointInv, ReturnInv
    <3>2. sr_save' = long[ctx - 1].sr
      BY <1>1, <2>4, <3>1 DEF sr_save_nxt
    <3>3. ctx - 1 < ctx
      BY <1>2
    <3>4. long[ctx - 1].sr.t = owed[ctx - 1]
      BY <1>2, <2>2, <3>1, <3>3 DEF OwedInv
    <3> QED BY <2>2, <3>1, <3>2, <3>4
  <2>5. CASE upc \in Saving /\ w.dst \notin {"sr_exc", "sr_irq", "srsave"}
    <3>1. ctx > 0 /\ sr_save.t = owed[ctx - 1]
      BY <1>2, <2>5 DEF SavingInv
    <3>2. sr_save' = sr_save
      BY <1>1, <2>5 DEF sr_save_nxt
    <3> QED BY <2>2, <3>1, <3>2
  <2> QED BY <1>2, <1>9, <2>1, <2>3, <2>4, <2>5 DEF SavingRule, w
<1>10. SavingInv'
  BY <1>1, <1>8, <1>9 DEF SavingInv
<1>11. ASSUME NEW n \in Contexts, n < ctx, ~(n = ctx - 1 /\ u \in Building)
       PROVE  long'[n].sr.t = owed'[n]
  <2>1. owed'[n] = owed[n]
    <3>1. n # ctx
      BY <1>2, <1>11 DEF Contexts
    <3> QED BY <1>5, <3>1
  <2>2. CASE long_nxt(rr)[n].sr = sr_save /\ w.dst = "frame8" /\ n = ctx - 1
    <3>1. upc \in Saving
      BY <1>2, <2>2 DEF SavingRule, w
    <3> QED BY <1>1, <1>2, <2>1, <2>2, <3>1 DEF SavingInv
  <2>3. CASE long_nxt(rr)[n].sr = long[n].sr /\ ~(w.dst = "frame8" /\ n = ctx - 1)
    <3>1. ~(n = ctx - 1 /\ upc \in Building)
      BY <1>11, <2>3, GoesMarks
    <3> QED BY <1>1, <1>2, <1>11, <2>1, <2>3, <3>1 DEF OwedInv
  <2> QED BY <2>2, <2>3, FramesTrace
<1>12. OwedInv'
  BY <1>1, <1>2, <1>11 DEF OwedInv
<1> QED BY <1>1, <1>4, <1>7, <1>10, <1>12 DEF TraceInv

\* RESUME arms what the suspended instruction is owed.
LEMMA ResumeTrace ==
  ASSUME TypeOK, CheckpointInv, ProcessingInv, TraceInv, ~halted, ~reset_pin,
         NEW t \in upc_target, NEW new, NEW rr, Commit(t, new, rr), w.seq = "resume"
  PROVE  TraceInv'
<1>1. upc \in Addr /\ upc \in Saving /\ w.dst = "sr_save" /\ "notrace" \notin w.marks
      /\ "stop" \notin w.marks
  BY TraceRules DEF TraceInv, TypeOK, ReachRule, SteadyRule, SavingRule, w
<1>2. ctx > 0 /\ sr_save.t = owed[ctx - 1] /\ OwedInv
  BY <1>1 DEF TraceInv, SavingInv
<1>3. ctx \in Nat /\ ctx - 1 \in Contexts /\ ctx - 1 < ctx
  BY <1>2, MicroengineAssumption DEF TypeOK, Contexts
<1>4. upc' = faulted[ctx - 1] /\ ctx' = ctx - 1
  BY ResumeCheckpoint
<1>5. /\ sr' = sr_nxt(new) /\ trace_armed' = trace_armed_nxt(new) /\ owed' = owed_nxt(new)
      /\ long' = long_nxt(rr) /\ faulted' = faulted /\ reset_pin' = reset_pin
  BY DEF Commit, IrqClock
<1>6. sr' = sr_save
  BY <1>1, <1>5 DEF sr_nxt
<1>7. trace_armed' = sr_save.t
  BY <1>1, <1>5, <1>6 DEF trace_armed_nxt
<1>8. owed' = owed
  BY <1>1, <1>5 DEF owed_nxt, Boundary
<1>9. long' = [long EXCEPT ![ctx - 1] = NoLong]
  BY <1>1, <1>2, <1>5 DEF long_nxt
<1>10. upc' \in Reached
  BY <1>2, <1>3, <1>4 DEF OwedInv
<1>11. ~InGroup(upc')
  BY <1>3, <1>4 DEF ProcessingInv
<1>12. upc' \notin Saving /\ upc' # Entry("buserr")
  BY <1>11, TraceRule, EntryGroups
<1>13. ArmedInv' /\ SavingInv'
  BY <1>2, <1>4, <1>6, <1>7, <1>8, <1>12 DEF ArmedInv, SavingInv
<1>14. ASSUME NEW n \in Contexts, n < ctx'
       PROVE  faulted'[n] \in Reached /\ long'[n].sr.t = owed'[n]
  <2>1. n < ctx /\ n # ctx - 1
    BY <1>3, <1>4, <1>14 DEF Contexts
  <2> QED BY <1>2, <1>5, <1>8, <1>9, <2>1 DEF OwedInv, TypeOK
<1>15. OwedInv'
  BY <1>14 DEF OwedInv
<1> QED BY <1>5, <1>10, <1>13, <1>15 DEF TraceInv

LEMMA ClockTrace ==
  ASSUME TypeOK, CheckpointInv, ProcessingInv, TraceInv, Clock
  PROVE  TraceInv'
<1>1. PICK t \in upc_target, new \in SoftwareSR, rr \in SoftwareRR : Commit(t, new, rr)
  BY DEF Clock
<1>2. CASE reset_pin
  <2>1. trace_armed' = FALSE
    BY <1>1, <1>2, ResetWord DEF Commit, trace_armed_nxt, TypeOK
  <2> QED BY <1>1, <1>2, <2>1, RestartTrace DEF Commit
<1>3. CASE ~reset_pin /\ halted
  <2>1. upc' = Entry("halted") /\ halted' /\ ~reset_pin'
    BY <1>1, <1>3 DEF Commit, IrqClock, upc_nxt
  <2> QED BY <2>1, TraceEntries DEF TraceInv
<1>4. CASE ~reset_pin /\ ~halted /\ w.seq = "resume"
  BY <1>1, <1>4, ResumeTrace
<1>5. CASE ~reset_pin /\ ~halted /\ w.seq # "resume"
  <2>1. new \in Status
    BY MicroengineAssumption DEF SoftwareSR, TypeOK
  <2> QED BY <1>1, <1>5, <2>1, PlainTrace
<1> QED BY <1>2, <1>3, <1>4, <1>5

\* A fault finds the T the instruction began with, or halts.
LEMMA FaultTrace ==
  ASSUME TypeOK, CheckpointInv, ProcessingInv, TraceInv, Fault
  PROVE  TraceInv'
<1>1. ~halted /\ ~reset_pin /\ bus_busy /\ upc[1] \in MayFault
  BY HaltedWord, ResetWord DEF Fault, CanFault, MayStall, bus_busy
<1>2. upc \in Addr /\ upc \in Reached /\ ReachRule(upc) /\ ctx \in Contexts /\ ctx \in Nat
      /\ ArmedInv /\ SavingInv /\ OwedInv /\ owed \in [Contexts -> BOOLEAN]
      /\ faulted \in [Contexts -> Addr]
  BY <1>1, TraceRules, MicroengineAssumption DEF TraceInv, TypeOK, Contexts
<1>3. group0 <=> InGroup(upc)
  BY <1>1 DEF ProcessingInv
<1>4. /\ upc' = fault_entry /\ halted' = (halted \/ dbl_fault) /\ trace_armed' = FALSE
      /\ ctx' = IF dbl_fault \/ spurious_int THEN ctx ELSE ctx + 1
      /\ owed' = [owed EXCEPT ![ctx'] = FALSE]
      /\ faulted' = [faulted EXCEPT ![ctx] = IF ctx' = ctx THEN @ ELSE upc]
      /\ UNCHANGED <<long, sr, sr_save, reset_pin>>
      /\ dbl_fault \/ spurious_int \/ ctx < MaxLong
  BY <1>1 DEF Fault, IrqClock, frames
<1>5. CASE dbl_fault
  <2>1. upc' = Entry("halted") /\ halted' /\ ~reset_pin'
    BY <1>1, <1>4, <1>5 DEF fault_entry
  <2> QED BY <2>1, TraceEntries DEF TraceInv
<1>6. CASE ~dbl_fault /\ spurious_int
  <2>1. upc' = Entry("spurious") /\ ctx' = ctx
    BY <1>4, <1>6 DEF fault_entry
  <2>2. owed' = [owed EXCEPT ![ctx] = FALSE] /\ faulted' = faulted
    BY <1>2, <1>4, <2>1
  <2>3. ArmedInv' /\ SavingInv'
    <3>1. Entry("spurious") # Entry("buserr")
      BY EntryGroups
    <3> QED BY <1>2, <1>4, <2>1, <2>2, <3>1, TraceEntries DEF ArmedInv, SavingInv
  <2>4. upc \notin Building
    <3>1. ~InGroup(upc)
      BY <1>2, <1>6, ProcessingRule DEF spurious_int, w
    <3>2. BuildRule(upc)
      BY <1>2, Rules
    <3> QED BY <1>6, <3>2 DEF BuildRule, spurious_int, w
  <2>5. ASSUME NEW n \in Contexts, n < ctx
        PROVE  faulted'[n] \in Reached /\ long'[n].sr.t = owed'[n]
    <3>1. n # ctx
      BY <1>2, <2>5 DEF Contexts
    <3> QED BY <1>2, <1>4, <2>2, <2>4, <2>5, <3>1 DEF OwedInv
  <2>6. OwedInv'
    BY <2>1, <2>5 DEF OwedInv
  <2> QED BY <1>1, <1>4, <2>1, <2>3, <2>6, TraceEntries DEF TraceInv
<1>7. CASE ~dbl_fault /\ ~spurious_int
  <2>1. upc' = Entry("buserr") /\ ctx' = ctx + 1
    BY <1>4, <1>7 DEF fault_entry
  <2>2. ctx' \in Contexts /\ ctx' # ctx
    BY <1>2, <1>4, <1>7, <2>1, MicroengineAssumption DEF Contexts
  <2>3. owed' = [owed EXCEPT ![ctx'] = FALSE] /\ faulted' = [faulted EXCEPT ![ctx] = upc]
    BY <1>4, <2>2
  <2>4. ~InGroup(upc)
    BY <1>3, <1>7 DEF dbl_fault
  <2>5. upc \in Steady
    BY <1>1, <1>2, <1>7, <2>4 DEF ReachRule, bus_busy, spurious_int, w
  <2>6. sr'.t = owed'[ctx]
    BY <1>2, <1>4, <2>2, <2>3, <2>5 DEF ArmedInv
  <2>7. ArmedInv' /\ SavingInv'
    <3>1. owed'[ctx'] = FALSE /\ ctx' - 1 = ctx /\ ctx' > 0
      BY <1>2, <2>1, <2>2, <2>3
    <3> QED BY <1>4, <2>1, <2>6, <3>1, TraceEntries DEF ArmedInv, SavingInv
  <2>8. ASSUME NEW n \in Contexts, n < ctx'
        PROVE  /\ faulted'[n] \in Reached
               /\ ~(n = ctx' - 1 /\ upc' \in Building) => long'[n].sr.t = owed'[n]
    <3>1. CASE n = ctx
      <4>1. n = ctx' - 1 /\ upc' \in Building
        BY <1>2, <2>1, <3>1, EntryRule
      <4> QED BY <1>2, <2>3, <3>1, <4>1
    <3>2. CASE n # ctx
      <4>1. n < ctx /\ n # ctx'
        BY <1>2, <2>1, <2>8, <3>2 DEF Contexts
      <4>2. upc \notin Building
        <5>1. upc \notin Processing
          BY <1>7 DEF CheckpointInv, GroupInv, dbl_fault
        <5> QED BY <5>1, AnnotationType
      <4> QED BY <1>2, <1>4, <2>3, <3>2, <4>1, <4>2 DEF OwedInv
    <3> QED BY <3>1, <3>2
  <2>9. OwedInv'
    BY <2>8 DEF OwedInv
  <2> QED BY <1>1, <1>4, <2>1, <2>7, <2>9, TraceEntries DEF TraceInv
<1> QED BY <1>5, <1>6, <1>7

LEMMA StallTrace ==
  ASSUME TypeOK, TraceInv, Stall
  PROVE  TraceInv'
<1>1. ~reset_pin
  BY ResetWord DEF Stall, MayStall
<1>2. UNCHANGED <<upc, sr, sr_save, trace_armed, reset_pin, ctx, long, owed, faulted, halted>>
  BY <1>1 DEF Stall, IrqClock, frames, saved
<1> QED BY <1>2 DEF TraceInv, ArmedInv, SavingInv, OwedInv

LEMMA PinsTrace ==
  ASSUME ResetPin = FALSE, TraceInv,
         (\E l \in Levels : Request(l)) \/ PulseReset \/ UNCHANGED vars
  PROVE  TraceInv'
<1>1. UNCHANGED <<upc, sr, sr_save, trace_armed, ctx, long, owed, faulted, halted>>
  BY DEF Request, PulseReset, vars, saved, frames, hist, flags
<1>2. reset_pin' => reset_pin
  BY DEF Request, PulseReset, vars
<1> QED BY <1>1, <1>2 DEF TraceInv, ArmedInv, SavingInv, OwedInv

\* What holds on a board that does not pulse RESET.
LEMMA TraceInvAlways == ASSUME ResetPin = FALSE PROVE Spec => []TraceInv
<1>1. TypeOK /\ CheckpointInv /\ ProcessingInv /\ TraceInv /\ [Next]_vars => TraceInv'
  BY StallTrace, ClockTrace, FaultTrace, PinsTrace DEF Next
<1>2. Spec => []ProcessingInv
  BY InitProcessing, ProcessingKept, TypeCorrect, CheckpointAlways, PTL DEF Spec
<1> QED BY InitTrace, TypeCorrect, CheckpointAlways, <1>1, <1>2, PTL DEF Spec

(***************************************************************************)
(* Without RESET pulses, which leave trace_armed as it was, and without    *)
(* STOP, which Reached excludes: at a boundary a trace is pending exactly  *)
(* if the instruction began with T set and was executed, whatever faults   *)
(* suspended it and whatever their handlers did.                           *)
(***************************************************************************)
THEOREM TraceExactlyAlways == ASSUME ResetPin = FALSE PROVE Spec => []TraceExactly
<1>1. TypeOK /\ TraceInv => TraceExactly
  BY DEF TraceInv, ArmedInv, TraceExactly
<1> QED BY TraceInvAlways, TypeCorrect, <1>1, PTL

(***************************************************************************)
(* Under the same hypotheses, a trace that is owed goes before an          *)
(* interrupt that waits at the same boundary.                              *)
(***************************************************************************)
THEOREM TraceFirstAlways == ASSUME ResetPin = FALSE PROVE Spec => TraceFirst
<1>1. TypeOK /\ InterruptInv /\ TraceInv /\ [Next]_vars
        => [upc' = Entry("interrupt") /\ upc' # upc => ~owed[ctx]]_vars
  <2>1. SUFFICES ASSUME TypeOK, InterruptInv, TraceInv, [Next]_vars,
                        upc' = Entry("interrupt"), upc' # upc
                 PROVE  ~owed[ctx]
    BY DEF vars
  <2>2. ~halted /\ Boundary /\ ~take_trace
    BY <2>1, InterruptStep
  <2> QED BY <2>1, <2>2 DEF take_trace, TraceInv, ArmedInv
<1>2. Spec => []InterruptInv
  BY InitInterrupt, InterruptKept, TypeCorrect, PTL DEF Spec
<1> QED BY TypeCorrect, TraceInvAlways, <1>1, <1>2, PTL DEF Spec, TraceFirst
=============================================================================
