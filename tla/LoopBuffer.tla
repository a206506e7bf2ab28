------------------------------- MODULE LoopBuffer -------------------------------
(***************************************************************************)
(* The loop buffer, rtl/rd68011_seq.sv with LOOP_BUF_WORDS set: a window   *)
(* of words behind the last backward branch, out of which program fetches  *)
(* are answered without a bus cycle.                                       *)
(*                                                                         *)
(* One step is one clock.  The microprogram is a parameter, as in module   *)
(* Microengine, whose words these are; of their registers only pc is kept. *)
(* Addresses count words and do not wrap, the program leaves pc inside     *)
(* Places, and loop mode proper, which suspends the buffer, is left out.   *)
(***************************************************************************)
EXTENDS Integers, Sequences

CONSTANTS
  Addr,         \* micro-addresses, pairs <<label, offset>>
  Micro,        \* the microprogram: the word at every address
  Opcodes,      \* labels the decoder may send an instruction to
  Suspended,    \* words a bus error may have interrupted
  Top,          \* programs run at the addresses 0 .. Top
  Loaded,       \* memory at first: space |-> address |-> value
  Written,      \* those of them somebody writes to
  Values,       \* what a word of memory may hold
  LB_N,         \* LOOP_BUF_WORDS
  KeepsBuffer,  \* RTE_KEEPS_LOOP_BUF
  Pins,         \* what empties the buffer from outside: "grant", "inv", or "none"
  AheadKept     \* bound: no program writes the very word that is fetched next

Entry(label) == <<label, 1>>

\* A fetch at pc, which moves it on; MOVE to SR's second look at the word
\* before pc is none, and neither are the reads of RESET's vector.
AtPC(w)    == w.bus = "prog" /\ "irc" \in w.writes
Jumps(w)   == w.dst = "reload" \/ ("pc" \in w.writes /\ ~AtPC(w))
Writes(w)  == w.bus \in {"write", "rmw"}
Changes(w) == w.dst \in {"sr_exc", "sr_irq", "sr_new", "sr_frame", "sr_save"}

\* Every word that may follow the one at a when it commits.
Successors(a) ==
  CASE "stop" \in Micro[a].marks -> {a, Entry("interrupt")}
    [] Micro[a].seq = "next"   -> {<<a[1], a[2] + 1>>}
    [] Micro[a].seq = "goto"   -> {Micro[a].to[1]}
    [] Micro[a].seq = "cond"   -> {Micro[a].to[1], Micro[a].to[2]}
    [] Micro[a].seq = "decode" -> {Entry(l) : l \in Opcodes \cup {"interrupt"}}
    [] OTHER                   -> Suspended

Places  == 0 .. Top
Offsets == 0 .. LB_N - 1

ASSUME BufferAssumption ==
  /\ Top \in Nat /\ Loaded \in [BOOLEAN -> [Places -> Values]]
  /\ Written \subseteq Places /\ LB_N \in Nat \ {0}
  /\ KeepsBuffer \in BOOLEAN /\ AheadKept \in BOOLEAN /\ Pins \subseteq {"none", "grant", "inv"}
ASSUME MicroAssumption  ==
  /\ Entry("reset") \in Addr /\ Entry("buserr") \in Addr
  /\ \A a \in Addr : Successors(a) \subseteq Addr

\* Of the microprogram: nothing is fetched in the clock in which the program's
\* address space may change, and no word does two of these things.
ASSUME SpaceAssumption ==
  \A a \in Addr : /\ Changes(Micro[a]) /\ Micro[a].seq # "resume" => \A n \in Successors(a) : ~AtPC(Micro[n])
                  /\ AtPC(Micro[a]) => ~Jumps(Micro[a]) /\ ~Writes(Micro[a])

VARIABLES
  upc,          \* the micro-address
  cycle,        \* its bus cycle: not asked for, running, ending with this clock
  pc, super,    \* the program counter, and the space it is fetched from
  mem,          \* space |-> address |-> value
  pin,          \* bus_granted or loop_inv_n, now
  settled,      \* ... and in the last clock: others may write by now
  lb_base, lb_armed, lb_val, lb_word, lb_idx, lb_in, lb_hit, lb_hit2, lb_served
window == <<lb_base, lb_armed, lb_val, lb_word, lb_idx, lb_in, lb_hit, lb_hit2, lb_served>>
vars   == <<upc, cycle, pc, super, mem, pin, settled, window>>

-----------------------------------------------------------------------------
(***************************************************************************)
(* The word that is running.                                               *)
(***************************************************************************)
uw == Micro[upc]

\* Mutant: whether the fetch is answered is asked again in every clock.
SecondOpinion == lb_hit /\ AtPC(uw)

loop_fetch_hit == lb_served /\ AtPC(uw)
retire         == uw.bus = "none" \/ cycle = "last" \/ loop_fetch_hit
rdata          == IF loop_fetch_hit THEN lb_word[lb_idx] ELSE mem[super][pc]

(***************************************************************************)
(* The window.  com: the word commits; y: what it writes to pc; s: the     *)
(* space after it; a: the address it writes to.                            *)
(***************************************************************************)
lb_arm_pc(com)   == com /\ Jumps(uw)
lb_tgt_in(y)     == lb_armed /\ y - lb_base \in Offsets
lb_back_ok(y)    == pc - y \in 1 .. LB_N
lb_fill(com)     == com /\ lb_in /\ ~lb_served /\ AtPC(uw)
\* The code counts acknowledge cycles as writes too, none of which is at an
\* address of the program; here fewer cycles empty the window.
lb_wr_in(com, a) == com /\ Writes(uw) /\ lb_armed /\ a - lb_base \in Offsets

\* Mutant: a write into the window goes unseen.
UnseenWrite(com, s, a) ==
  pin # "none" \/ (com /\ s # super) \/ (~KeepsBuffer /\ retire /\ uw.seq = "resume")

lb_flush(com, s, a) ==
  lb_wr_in(com, a) \/ pin # "none" \/ (com /\ s # super)
    \/ (~KeepsBuffer /\ retire /\ uw.seq = "resume")

pc_nxt(com, y) ==
  CASE lb_arm_pc(com) -> y [] com /\ AtPC(uw) -> pc + 1 [] OTHER -> pc

lb_base_nxt(com, y) ==
  IF lb_arm_pc(com) /\ ~lb_tgt_in(y) /\ lb_back_ok(y) THEN y ELSE lb_base

lb_armed_nxt(com, y, s, a) ==
  /\ ~lb_flush(com, s, a)
  /\ IF lb_arm_pc(com) THEN lb_tgt_in(y) \/ lb_back_ok(y) ELSE lb_armed

lb_val_nxt(com, y, s, a) ==
  IF lb_flush(com, s, a) \/ (lb_arm_pc(com) /\ ~lb_tgt_in(y))
  THEN [i \in Offsets |-> FALSE]
  ELSE [i \in Offsets |-> lb_val[i] \/ (lb_fill(com) /\ i = lb_idx)]

\* Where pc will be in the window, leaving a jump to the next clock.
\* Mutant: the offset of the clock before, although this word moves pc on.
OffsetOfNow(com) == pc - lb_base

lb_off_nxt(com) == pc - lb_base + (IF com /\ AtPC(uw) THEN 1 ELSE 0)

Window(com, y, s, a) ==
  LET off      == lb_off_nxt(com)
      armed    == lb_armed_nxt(com, y, s, a)
      val      == lb_val_nxt(com, y, s, a)
      in(o)    == armed /\ ~lb_arm_pc(com) /\ o \in Offsets
  IN /\ lb_base'  = lb_base_nxt(com, y)
     /\ lb_armed' = armed
     /\ lb_val'   = val
     /\ lb_word'  = IF lb_fill(com) THEN [lb_word EXCEPT ![lb_idx] = rdata] ELSE lb_word
     /\ lb_idx'   = IF off \in Offsets THEN off ELSE 0
     /\ lb_in'    = in(off)
     /\ lb_hit'   = (in(off) /\ val[off])
     /\ lb_hit2'  = (in(off + 1) /\ val[off + 1])

\* Mutant: after a fetch the word behind it is not looked up.
HitOfNow(com, n) == ~lb_arm_pc(com) /\ uw.seq # "resume" /\ lb_hit /\ ~AtPC(uw) /\ AtPC(Micro[n])

\* The next word's fetch is answered: decided where its request is presented.
n_loop_hit(com, n) ==
  /\ ~lb_arm_pc(com) /\ uw.seq # "resume"
  /\ IF com /\ AtPC(uw) THEN lb_hit2 ELSE lb_hit
  /\ AtPC(Micro[n])

(***************************************************************************)
(* The world outside.  Another master has been granted the bus, or remaps  *)
(* memory and says so, for a clock before it changes anything.             *)
(***************************************************************************)
Write(a) == \E s \in BOOLEAN, v \in Values : mem' = [mem EXCEPT ![s][a] = v]

Others == \/ UNCHANGED mem
          \/ settled /\ \E a \in Written : Write(a)

PinMoves == /\ pin' \in Pins /\ (cycle' = "last" => pin' # "grant")
            /\ settled' = (pin # "none" /\ pin' = pin)

Init ==
  /\ upc = Entry("reset") /\ cycle = "none" /\ pc = 0 /\ super = TRUE
  /\ mem = Loaded
  /\ pin \in Pins /\ settled = FALSE
  /\ lb_base = 0 /\ lb_armed = FALSE /\ lb_val = [i \in Offsets |-> FALSE]
  /\ lb_word = [i \in Offsets |-> Loaded[FALSE][0]]
  /\ lb_idx = 0 /\ lb_in = FALSE /\ lb_hit = FALSE /\ lb_hit2 = FALSE /\ lb_served = FALSE

\* The word waits for its cycle, which no other master's delays.
Stall ==
  /\ ~retire
  /\ cycle' \in CASE cycle = "none" -> {"run"}
                  [] pin = "grant"  -> {"run"}
                  [] OTHER          -> {"run", "last"}
  /\ Window(FALSE, pc, super, pc)
  /\ Others /\ PinMoves
  /\ UNCHANGED <<upc, pc, super, lb_served>>

\* The word retires and n is next; its request is presented in this clock,
\* but for a resumed word's.
Request(com, n) ==
  /\ upc' = n
  /\ lb_served' = n_loop_hit(com, n)
  /\ cycle' = IF n_loop_hit(com, n) \/ Micro[n].bus = "none" \/ uw.seq = "resume"
              THEN "none" ELSE "run"

Commit ==
  /\ retire
  /\ \E n \in Successors(upc),
        y \in IF Jumps(uw) THEN Places ELSE {pc},
        s \in CASE uw.dst \in {"sr_exc", "sr_irq"} -> {TRUE}
               [] Changes(uw)                     -> BOOLEAN
               [] OTHER                           -> {super},
        a \in IF Writes(uw) THEN Written ELSE {pc} :
       /\ AheadKept /\ Writes(uw) => ~(AtPC(Micro[n]) /\ a = pc)
       /\ pc_nxt(TRUE, y) \in Places
       /\ Window(TRUE, y, s, a)
       /\ Request(TRUE, n)
       /\ pc' = pc_nxt(TRUE, y) /\ super' = s
       /\ IF Writes(uw) THEN Write(a) ELSE Others
  /\ PinMoves

\* The cycle ends in a bus error, and the word writes nothing.
Fault ==
  /\ cycle = "last"
  /\ Window(FALSE, pc, super, pc)
  /\ Request(FALSE, Entry("buserr"))
  /\ Others /\ PinMoves
  /\ UNCHANGED <<pc, super>>

Next == Stall \/ Commit \/ Fault

Spec == Init /\ [][Next]_vars

-----------------------------------------------------------------------------
(***************************************************************************)
(* Properties.                                                             *)
(***************************************************************************)
\* A fetch is answered with what the bus would have answered.
ServedIsMemory == loop_fetch_hit => rdata = mem[super][pc]

\* What the window has of memory, memory has there still, in the space the
\* program is fetched from: whoever wrote it, remapped it or changed space has
\* emptied the window.
WindowCoherent == \A i \in Offsets : lb_val[i] => lb_word[i] = mem[super][lb_base + i]

\* No word retires on an answer while its cycle is on the bus.
AnsweredOnce == loop_fetch_hit => cycle = "none"

\* A word the window has is not fetched again, but by the word that jumped: one
\* fetch for every trip round the loop.
Held(a) == a - lb_base \in Offsets /\ lb_val[a - lb_base]
FetchedOnce ==
  [][ retire /\ ~Jumps(uw) /\ uw.seq # "resume" /\ lb_in /\ Held(pc') /\ AtPC(Micro[upc'])
        => lb_served' ]_vars
=============================================================================
