-------------------------------- MODULE Tracing --------------------------------
(***************************************************************************)
(* The rule a microprogram has to follow for every instruction that begins *)
(* with T set to be traced exactly once: doc/checkpoint.md gives the trace *)
(* bit no place of its own in the format $8 frame, because the frame's     *)
(* status register has it.  That is so if no word whose cycle may fault    *)
(* runs with another T than the instruction began with, and if what goes   *)
(* into the frame and comes out of it is that status register.             *)
(*                                                                         *)
(* TraceInv is the invariant that shows it for every microprogram that     *)
(* follows the rule.                                                       *)
(***************************************************************************)
EXTENDS Checkpoint

CONSTANTS
  Reached,  \* the words the program's instructions come to; none is a STOP
  Steady,   \* words at which T is what the instruction began with
  Saving    \* words at which sr_save is the suspended instruction's status

\* A cycle that may suspend an instruction finds the T it began with.
ReachRule(a) ==
  a \in Reached =>
    /\ Flow(a) \subseteq Reached /\ "stop" \notin Micro[a].marks
    /\ Micro[a].bus \notin {"none", "iack"} /\ a[1] \in MayFault =>
         InGroup(a) \/ a \in Steady

\* Up to there nothing changes T, and nothing calls the trace off.
SteadyRule(a) ==
  /\ Flow(a) \cap Steady # {} =>
       /\ a \in Steady /\ "notrace" \notin Micro[a].marks
       /\ Micro[a].dst \notin {"sr_exc", "sr_irq", "sr_new", "sr_frame", "sr_save"}
  /\ Micro[a].seq \in {"decode", "resume"} => "notrace" \notin Micro[a].marks

\* The status register goes into the frame as the fault found it, and RESUME
\* restores the one read from the frame.
SavingRule(a) ==
  /\ Flow(a) \cap Saving # {} =>
       \/ a = Entry("buserr") /\ Micro[a].dst = "sr_exc"
       \/ a \in Returning /\ Micro[a].dst = "srsave"
       \/ a \in Saving /\ Micro[a].dst \notin {"sr_exc", "sr_irq", "srsave"}
  /\ Micro[a].dst = "frame8" => a \in Saving
  /\ Micro[a].seq = "resume" => a \in Saving /\ Micro[a].dst = "sr_save"
  /\ Entry("buserr") \notin Flow(a)

ASSUME TraceRule ==
  /\ \A a \in Addr : ReachRule(a) /\ SteadyRule(a) /\ SavingRule(a)
  /\ Reached \subseteq Addr /\ Entries \subseteq Reached
  /\ (Steady \cup Saving) \cap Vectors = {} /\ \A a \in Saving : InGroup(a)
  /\ Micro[Entry("reset")].seq # "decode"
-----------------------------------------------------------------------------
\* What is armed is what is owed, and where it may have to be saved, T says so.
ArmedInv == /\ trace_armed = owed[ctx]
            /\ upc \in Steady => sr.t = trace_armed

\* A fault's sequence and RTE have the suspended instruction's T in hand,
SavingInv ==
  /\ upc = Entry("buserr") => ctx > 0 /\ sr.t = owed[ctx - 1]
  /\ upc \in Saving        => ctx > 0 /\ sr_save.t = owed[ctx - 1]

\* ... and every other suspended instruction has it in its frame.
OwedInv ==
  \A n \in Contexts : n < ctx =>
    /\ faulted[n] \in Reached
    /\ ~(n = ctx - 1 /\ upc \in Building) => long[n].sr.t = owed[n]

(***************************************************************************)
(* The invariant behind TraceExactly, on a board that does not pulse       *)
(* RESET: a pulse leaves trace_armed as it was.                            *)
(***************************************************************************)
TraceInv ==
  /\ upc \in Reached
  /\ reset_pin => upc = Entry("reset") /\ ~trace_armed
  /\ ~halted => ArmedInv /\ SavingInv /\ OwedInv
=============================================================================
