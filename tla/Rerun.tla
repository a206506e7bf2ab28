---------------------------------- MODULE Rerun ----------------------------------
(***************************************************************************)
(* Module Datapath next to the same machine in which no word ever faults:  *)
(* pure is what its registers hold.  A word that faulted has committed     *)
(* nothing, the comment of rtl/rd68011_seq.sv at the fault says, except    *)
(* the data buffer, which it computes again when it is rerun; what the     *)
(* frame does not hold is the answer of the multiplier and the divider.    *)
(* This is what has to be true of the microcode for that to be enough.     *)
(***************************************************************************)
EXTENDS Refill

CONSTANT Wanted   \* the words of each routine at which the unit's answer has to be there
VARIABLE pure     \* history: the datapath of the machine without faults

NoFaults == INSTANCE Datapath WITH dp <- pure, faults <- 0, MaxFaults <- 0

wanted(p) == p[3] \in Wanted[p[1]][p[2]]
Reads(w)  == {w.src} \cup w.with

\* No cycle comes between the unit's answer and its reader, and a reader that
\* faults is the one thing UnitKept leaves out.
AnswerRule(p) ==
  /\ "unit" \in Reads(at(p)) => wanted(p)
  /\ wanted(p) /\ at(p).bus # "none" => "unit" \in Reads(at(p))
  /\ (\E q \in Follow(p) : wanted(q)) => wanted(p) \/ at(p).dst = "unit"

\* "A microword that loads the buffer computes it again": not from itself.
BufferRule(p) == at(p).bus # "none" /\ at(p).dst = "dbuf" => at(p).src # "dbuf"

ASSUME RerunAssumption ==
  /\ UnitKept /\ BufferKept
  /\ \A i \in DOMAIN Micro :
       /\ ~wanted(First(i, "start"))
       /\ \A l \in DOMAIN Micro[i] : \A k \in DOMAIN Micro[i][l] :
            AnswerRule(<<i, l, k>>) /\ BufferRule(<<i, l, k>>)
-----------------------------------------------------------------------------
InitR == Init /\ pure = Idle

StepR  == Step /\ pure' = NoFaults!dp_nxt
FaultR == Fault /\ UNCHANGED pure
BeginR(i) == Begin(i) /\ UNCHANGED pure
DecodeR == inst = NoInst /\ \E i \in Instrs : BeginR(i)
EndR   == End /\ pure' = Idle

NextR == DecodeR \/ StepR \/ FaultR \/ EndR
SpecR == InitR /\ [][NextR]_<<vars, pure>>
-----------------------------------------------------------------------------
\* The two machines differ in what no word reads any more, and in the buffer a
\* faulted word has loaded and loads again.
UnharmedInv ==
  /\ \A f \in DOMAIN Idle \ {"unit", "dbuf"} : dp[f] = pure[f]
  /\ inst = NoInst \/ (Running /\ wanted(here)) => dp.unit = pure.unit
  /\ dp.dbuf = pure.dbuf \/ (Running /\ uw.bus # "none" /\ uw.dst = "dbuf" /\ ~LosesBuffer)

\* A word that is run again, however often, finds in every register it reads what
\* it found the first time.
FindsTheSame == Running => \A s \in Reads(uw) : Source(s) = NoFaults!Source(s)

\* Faults leave no trace: the machine that suffers them takes the steps of one
\* that does not, with the same cycles at the same addresses.
FaultFree == NoFaults!Spec

\* What the machine without faults has to keep of what the programmer was promised.
Promised == Over => InStep(pure) /\ Right(pure) /\ Once(reads, Promise(inst).reads)
                      /\ Once(writes, Promise(inst).writes)
=============================================================================
