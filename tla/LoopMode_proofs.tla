---------------------------- MODULE LoopMode_proofs ----------------------------
(***************************************************************************)
(* The proofs of module LoopMode: in every program and for every one-word  *)
(* instruction, what loop mode repeats is a loop of the program, each      *)
(* instruction begins where an ordinary one would, and the instructions    *)
(* executed are those of module Execution.                                 *)
(*                                                                         *)
(* LoopInv says of the word that is current, and of each word that a fault *)
(* has suspended, what it finds in the pipe, the branch target and the     *)
(* loop registers (At).  A word's place and all it works with are the      *)
(* arguments of At, because a frame holds the same and RTE brings it back. *)
(***************************************************************************)
EXTENDS LoopMode, TLAPS

(***************************************************************************)
(* Where every word of an instruction at d finds the prefetch pipe.  The   *)
(* arguments are a word's place, and the pipe, target and loop registers   *)
(* it runs with, so that they say the same of a word that is suspended.    *)
(***************************************************************************)
Target(d) == d + 2 + displacement(word_at(d + 2))

\* The DBcc at d repeats the word before it.
Repeats(d) == kind(word_at(d)) = "dbcc" /\ displacement(word_at(d + 2)) = -4

\* The pipe of a running loop, and one that has been refilled half way.
Held(d)         == [ir |-> d, ir_pc |-> d, irc |-> d, irc_pc |-> d, pc |-> d + 2]
Refetched(p, d) == p.irc = word_at(d) /\ p.irc_pc = d /\ p.pc = d + 2

Fetched(i, u) == \E k \in 1..Len(Body(i)) : k < u /\ Body(i)[k].pf = "advfetch"

BodyAt(i, d, l, u, p, active, ph, ir) ==
  /\ kind(d) = "body" /\ l = <<"plain", "start">> /\ u \in 1..Len(Body(i))
  /\ active => Repeats(d + 2) /\ ir = d /\ (ph <=> Fetched(i, u))
  /\ p = CASE ~Fetched(i, u)           -> Ordinary(d)
           [] Fetched(i, u) /\ ~active -> Ordinary(d + 2)
           [] Fetched(i, u) /\ active  -> Held(d + 2)

\* A DBcc that falls through, in a loop that has ended or none.
FallAt(d, l, u, p) ==
  l[2] = "fall" /\ \/ u = 1 /\ p.pc = d + 4
                   \/ u = 2 /\ Refetched(p, d + 4)

\* One that is taken: the branch to be refilled from, and the refill.
TakeAt(d, l, u, p, t) ==
  l[2] = "take" /\ \/ u = 1 /\ p = Ordinary(d)
                   \/ u = 2 /\ p = Ordinary(d) /\ t = Target(d)
                   \/ u = 3 /\ p.pc = Target(d)
                   \/ u = 4 /\ Refetched(p, Target(d))

DbccAt(d, l, u, p, t, active) ==
  /\ kind(d) = "dbcc" /\ l[1] = "plain" /\ ~active
  /\ \/ l[2] \in {"start", "count"} /\ u = 1 /\ p = Ordinary(d)
     \/ FallAt(d, l, u, p) \/ TakeAt(d, l, u, p, t)

LoopAt(d, l, u, p, active, ph, ir) ==
  /\ kind(d) = "dbcc" /\ l[1] = "loop"
  /\ \/ /\ l[2] \in {"start", "count", "again", "exit"} /\ u = 1
        /\ active /\ ph /\ ir = d - 2 /\ kind(word_at(d - 2)) = "body" /\ Repeats(d) /\ p = Held(d)
     \/ FallAt(d, l, u, p) /\ ~active

BranchAt(d, l, u, p, t, active) ==
  /\ kind(d) = "bra" /\ l[1] = "plain" /\ ~active
  /\ \/ l[2] = "start" /\ \/ u = 1 /\ p = Ordinary(d)
                          \/ u = 2 /\ t = Target(d)
     \/ l[2] = "branch_refill" /\ \/ u = 1 /\ p.pc = Target(d)
                                  \/ u = 2 /\ Refetched(p, Target(d))

ReturnAt(d, l, u, p, active) ==
  kind(d) = "rte" /\ l = <<"plain", "start">> /\ u = 1 /\ p = Ordinary(d) /\ ~active

Names == {"plain", "loop", "start", "count", "take", "fall", "again", "exit", "branch_refill"}

At(i, d, l, u, p, t, active, ph, ir) ==
  /\ d \in Code /\ l \in [1..2 -> Names]
  /\ \/ BodyAt(i, d, l, u, p, active, ph, ir)
     \/ DbccAt(d, l, u, p, t, active)
     \/ LoopAt(d, l, u, p, active, ph, ir)
     \/ BranchAt(d, l, u, p, t, active)
     \/ ReturnAt(d, l, u, p, active)

\* The displacement's test is remembered until the loop begins.
Remembers(d, l, u, m4) ==
  kind(d) = "dbcc" /\ l[2] = "take" /\ u # 1
    => m4 = (displacement(word_at(d + 2)) = -4)

\* A frame holds a word that may go on from it, with what its build brings back.
FrameOK(f) ==
  IF f.mid
  THEN /\ At(looped, f.doing, f.label, f.upc, f.pipe, f.t0,
             f.loop_saved.active, f.loop_saved.ph, f.loop_ir)
       /\ f.loop_saved.active /\ f.loop_saved.ph => restores
       /\ f.label[2] # "take"
  ELSE f.at \in Code

Word == {nowhere} \cup DOMAIN Program
Pipe == [ir : Word, ir_pc : Int, irc : Word, irc_pc : Int, pc : Int]

Frame == [mid : {FALSE}, at : Int]
           \cup [mid : {TRUE}, doing : Int, label : [1..2 -> Names], upc : Nat, pipe : Pipe,
                 t0 : Int, loop_ir : Word, loop_saved : [active : BOOLEAN, ph : BOOLEAN]]

Registers ==
  /\ looped \in Bodies /\ restores \in Builds /\ pipe \in Pipe /\ t0 \in Int
  /\ loop \in [active : BOOLEAN, ph : BOOLEAN, ir : Word, m4 : BOOLEAN]

LoopInv ==
  /\ Registers
  /\ At(looped, doing, label, upc, pipe, t0, loop.active, loop.ph, loop.ir)
  /\ Remembers(doing, label, upc, loop.m4)
  /\ frames \in Seq(Frame) /\ \A k \in 1..Len(frames) : FrameOK(frames[k])

-----------------------------------------------------------------------------
(***************************************************************************)
(* The words.                                                              *)
(***************************************************************************)
\* What a word does.
Does(x, pf, bus, dst, src, lp, seq) ==
  x.pf = pf /\ x.bus = bus /\ x.dst = dst /\ x.src = src /\ x.lp = lp /\ x.seq = seq

LEMMA DbccWords ==
  /\ Does(dbcc.start[1], "none", "none", "none", "none", "none", "cond")
  /\ dbcc.start[1].to = <<"count", "fall">>
  /\ Does(dbcc.count[1], "none", "none", "dx", "dx", "none", "cond")
  /\ dbcc.count[1].to = <<"take", "fall">>
BY DEF dbcc, test, blank, count, using, alu, sized, Does

LEMMA Pair ==
  ASSUME NEW x, NEW z
  PROVE  (<<x>> \o <<z>>)[1] = x /\ (<<x>> \o <<z>>)[2] = z
<1>1. <<x>> \in Seq({x, z}) /\ <<z>> \in Seq({x, z}) /\ Len(<<x>>) = 1 /\ Len(<<z>>) = 1
  OBVIOUS
<1> QED BY <1>1

LEMMA RefillWords ==
  /\ Does(FETCH(blank), "fetch", "prog", "none", "none", "none", "next")
  /\ Does(finish(blank), "advfetch", "prog", "none", "none", "none", "decode")
BY DEF finish, FETCH, DECODE, ADVFETCH, blank, Does

LEMMA FallWords ==
  /\ Does(dbcc.fall[1], "fetch", "prog", "none", "none", "none", "next")
  /\ Does(dbcc.fall[2], "advfetch", "prog", "none", "none", "none", "decode")
<1>1. dbcc.fall = <<FETCH(blank)>> \o <<finish(blank)>>
  BY DEF dbcc, final_prefetch
<1> QED BY <1>1, Pair, RefillWords

LEMMA TakeWords ==
  /\ Does(dbcc.take[1], "none", "none", "t0", "irc_pc", "chk", "next")
  /\ Does(dbcc.take[2], "none", "none", "pc", "t0", "none", "next")
  /\ Does(dbcc.take[3], "fetch", "prog", "none", "none", "none", "next")
  /\ Does(dbcc.take[4], "advfetch", "prog", "none", "none", "enter", "decode")
BY DEF dbcc, looping, using, alu, blank, FETCH, finish, DECODE, ADVFETCH, Does

LEMMA LoopWords ==
  /\ Does(RunningLoop.start[1], "none", "none", "none", "none", "none", "cond")
  /\ RunningLoop.start[1].to = <<"count", "exit">>
  /\ Does(RunningLoop.count[1], "none", "none", "dx", "dx", "none", "cond")
  /\ RunningLoop.count[1].to = <<"again", "exit">>
  /\ Does(RunningLoop.again[1], "none", "none", "loopback", "none", "none", "decode")
  /\ Does(RunningLoop.exit[1], "none", "none", "pc", "pc_plus2", "exit", "goto")
  /\ RunningLoop.exit[1].to = <<"fall">>
  /\ RunningLoop.fall = dbcc.fall
BY DEF RunningLoop, dbcc_loop, test, blank, count, using, alu, sized, DECODE, jump, looping, Does

LEMMA BranchWords ==
  /\ Does(bra("long").start[1], "none", "none", "t0", "irc_pc", "none", "next")
  /\ Does(bra("long").start[2], "none", "none", "pc", "t0", "none", "goto")
  /\ bra("long").start[2].to = <<"branch_refill">>
  /\ branch_refill[1] = FETCH(blank) /\ branch_refill[2] = finish(blank)
BY DEF bra, only, branch_target, jump, using, alu, blank, branch_refill, Does

\* The word that is current, by the instruction it is of.
LEMMA CurrentWord ==
  ASSUME LoopInv
  PROVE  /\ kind(doing) = "body" => uw = Body(looped)[upc]
         /\ kind(doing) = "dbcc" /\ label[1] = "plain" => uw = dbcc[label[2]][upc]
         /\ label[1] = "loop" => uw = RunningLoop[label[2]][upc]
         /\ kind(doing) = "bra" /\ label[2] = "start" => uw = bra("long").start[upc]
         /\ kind(doing) = "bra" /\ label[2] = "branch_refill" => uw = branch_refill[upc]
<1>1. looped \in Bodies /\ At(looped, doing, label, upc, pipe, t0, loop.active, loop.ph, loop.ir)
  BY DEF LoopInv, Registers
<1>2. kind(doing) = "body" => label = <<"plain", "start">>
  BY <1>1 DEF At, BodyAt, DbccAt, LoopAt, BranchAt, ReturnAt
<1>3. kind(doing) = "bra" => label[1] = "plain"
  BY <1>1 DEF At, BodyAt, DbccAt, LoopAt, BranchAt, ReturnAt
<1>4. kind(doing) = "dbcc" /\ label[1] = "plain" =>
        label[2] \in {"start", "count", "fall", "take"}
  BY <1>1 DEF At, BodyAt, DbccAt, LoopAt, BranchAt, ReturnAt, FallAt, TakeAt
<1>5. \A l \in {"start", "count", "fall", "take"} : Routines[looped]["dbcc"][l] = dbcc[l]
  <2>1. DOMAIN dbcc = {"start", "count", "fall", "take"}
    BY DEF dbcc
  <2> QED BY <1>1, <2>1, BranchRule
<1>6. kind(doing) = "dbcc" /\ label[1] = "plain" => uw = dbcc[label[2]][upc]
  BY <1>4, <1>5 DEF uw
<1>7. kind(doing) = "bra" => uw = Routines[looped]["bra"][label[2]][upc]
  BY <1>3 DEF uw
<1>8. kind(doing) = "body" => uw = Routines[looped]["body"]["start"][upc]
  BY <1>2 DEF uw
<1> QED BY <1>1, <1>6, <1>7, <1>8, BranchRule DEF uw, Body

-----------------------------------------------------------------------------
(***************************************************************************)
(* Programs.                                                               *)
(***************************************************************************)
LEMMA Places ==
  ASSUME NEW a \in Code
  PROVE  /\ a \in Nat /\ a \in DOMAIN Program /\ word_at(a) = a
         /\ kind(a) = Program[a].op /\ kind(a) \in {"body", "dbcc", "bra", "rte"}
BY ProgramRule DEF Code, word_at, kind, nowhere

LEMMA Displaced ==
  ASSUME NEW a \in Int
  PROVE  word_at(a) \in Int /\ displacement(word_at(a)) \in Int
<1>1. word_at(a) = nowhere \/ (word_at(a) = a /\ a \in DOMAIN Program)
  BY DEF word_at
<1>2. CASE word_at(a) = nowhere
  BY <1>2 DEF displacement, kind, nowhere
<1>3. CASE word_at(a) = a /\ a \in DOMAIN Program
  BY <1>3, ProgramRule DEF displacement
<1> QED BY <1>1, <1>2, <1>3

\* Where an instruction leads is an instruction.
LEMMA Ways ==
  ASSUME NEW d \in Code
  PROVE  /\ kind(d) = "body" => d + 2 \in Programs!Successors(d)
         /\ kind(d) = "dbcc" => {d + 4, Target(d)} \subseteq Programs!Successors(d)
         /\ kind(d) = "bra"  => Target(d) \in Programs!Successors(d)
         /\ Programs!Successors(d) \subseteq Code
<1>1. kind(d) = Program[d].op
  BY Places
<1>2. kind(d) \in {"dbcc", "bra"} => Programs!Target(d) = Target(d)
  <2>1. SUFFICES ASSUME kind(word_at(d + 2)) = "disp" PROVE Programs!Target(d) = Target(d)
    BY ProgramRule
  <2>2. word_at(d + 2) = d + 2
    BY <2>1 DEF word_at, kind
  <2> QED BY <2>1, <2>2 DEF Programs!Target, Target, displacement
<1>3. kind(d) = "body" => Programs!Successors(d) = {d + 2}
  BY <1>1 DEF Programs!Successors
<1>4. kind(d) = "dbcc" => Programs!Successors(d) = {d + 4, Programs!Target(d)}
  BY <1>1 DEF Programs!Successors
<1>5. kind(d) = "bra" => Programs!Successors(d) = {Programs!Target(d)}
  BY <1>1 DEF Programs!Successors
<1> QED BY <1>2, <1>3, <1>4, <1>5, ProgramRule

LEMMA Worded ==
  ASSUME NEW a \in Int, NEW w \in Word
  PROVE  word_at(a) \in Word /\ displacement(w) \in Int
<1>1. CASE w = nowhere
  BY <1>1 DEF displacement, kind, word_at, Word, nowhere
<1>2. CASE w \in DOMAIN Program
  BY <1>2, ProgramRule DEF displacement, word_at, Word
<1> QED BY <1>1, <1>2 DEF Word

\* A label and its neighbour in the same control store.
LEMMA Relabelled ==
  ASSUME NEW l \in [1..2 -> Names], NEW x \in Names
  PROVE  /\ [l EXCEPT ![2] = x] \in [1..2 -> Names]
         /\ [l EXCEPT ![2] = x][1] = l[1] /\ [l EXCEPT ![2] = x][2] = x
OBVIOUS

LEMMA Begun ==
  ASSUME NEW x \in {"plain", "loop"}
  PROVE  <<x, "start">> \in [1..2 -> Names] /\ <<x, "start">>[1] = x /\ <<x, "start">>[2] = "start"
<1>1. x \in Names /\ "start" \in Names
  BY DEF Names
<1>2. \A a, b \in Names : <<a, b>> \in [1..2 -> Names]
  OBVIOUS
<1> QED BY <1>1, <1>2

-----------------------------------------------------------------------------
(***************************************************************************)
(* What one word does to the registers.                                    *)
(***************************************************************************)
LEMMA NextRegisters ==
  ASSUME Registers
  PROVE  /\ pipe_nxt \in Pipe /\ t0_nxt \in Int /\ y \in Int
         /\ loop_nxt \in [active : BOOLEAN, ph : BOOLEAN, ir : Word, m4 : BOOLEAN]
<1>1. y \in Int
  <2>1. pipe.irc_pc + displacement(pipe.irc) \in Int
    BY Worded DEF Registers, Pipe
  <2> QED BY <2>1 DEF y, Registers, Pipe
<1>2. t0_nxt \in Int
  BY <1>1 DEF t0_nxt, Registers
<1>3. word_at(pipe.pc) \in Word
  BY Worded DEF Registers, Pipe
<1>4. pipe_nxt \in Pipe
  BY <1>1, <1>3 DEF pipe_nxt, ir_pc_nxt, Registers, Pipe
<1>5. pipe_nxt.ir \in Word
  BY <1>4 DEF Pipe
<1>6. starts \in BOOLEAN
  BY DEF starts, loop_op_ok, Registers
<1> HIDE DEF pipe_nxt, starts
<1> QED BY <1>1, <1>2, <1>4, <1>5, <1>6 DEF loop_nxt, Registers

LEMMA Still ==
  ASSUME Registers, uw.pf = "none", uw.dst \notin {"pc", "loopback"}
  PROVE  pipe_nxt = pipe
BY DEF pipe_nxt, ir_pc_nxt, pf_adv, pf_fetch, loopback, Registers, Pipe

LEMMA Jumping ==
  ASSUME Registers, uw.pf = "none", uw.dst = "pc"
  PROVE  pipe_nxt.pc = y
BY DEF pipe_nxt, pf_adv, pf_fetch, loopback

LEMMA Fetching ==
  ASSUME Registers, ~loop.active, uw.pf = "fetch", uw.dst = "none", NEW a \in Int, pipe.pc = a
  PROVE  Refetched(pipe_nxt, a)
BY DEF Refetched, pipe_nxt, pf_adv, pf_fetch, loopback, loop_suppress

LEMMA Refilling ==
  ASSUME Registers, ~loop.active, uw.pf = "advfetch", uw.dst \notin {"pc", "loopback"},
         NEW a \in Int, Refetched(pipe, a)
  PROVE  pipe_nxt = Ordinary(a)
<1>1. (a + 2) + 2 = a + 4
  OBVIOUS
<1> QED BY <1>1 DEF Refetched, Ordinary, pipe_nxt, ir_pc_nxt, pf_adv, pf_fetch, loopback, loop_suppress

\* An ordinary pipe at a holds the word after it.
LEMMA OrdinaryPipe ==
  ASSUME NEW a \in Int, pipe = Ordinary(a)
  PROVE  Refetched(pipe, a + 2)
BY DEF Ordinary, Refetched

LEMMA LoopKept ==
  ASSUME Registers, uw.lp \in {"none", "chk"}, uw.dst # "loopback", uw.pf # "advfetch" \/ ~loop.active
  PROVE  /\ loop_nxt.active = loop.active /\ loop_nxt.ph = loop.ph /\ loop_nxt.ir = loop.ir
         /\ uw.lp = "none" => loop_nxt.m4 = loop.m4
<1>1. ~starts
  BY DEF starts
<1> QED BY <1>1 DEF loop_nxt, loopback, pf_adv
-----------------------------------------------------------------------------
(***************************************************************************)
(* Where each word leaves the registers for the next.                      *)
(***************************************************************************)
NextAt(l, u) ==
  /\ At(looped, doing, l, u, pipe_nxt, t0_nxt, loop_nxt.active, loop_nxt.ph, loop_nxt.ir)
  /\ Remembers(doing, l, u, loop_nxt.m4)

\* The next instruction is the program's: in an ordinary pipe, or the DBcc of a
\* loop that keeps running.
AtOrdinary(a) ==
  /\ pipe_nxt = Ordinary(a) /\ ~dec_dbcc(a)
  /\ loop_nxt.active => /\ kind(a) = "body" /\ loop_nxt.ph = FALSE
                        /\ loop_nxt.ir = a /\ Repeats(a + 2)

AtHeld(a) ==
  /\ pipe_nxt = Held(a) /\ dec_dbcc(a) /\ loop_nxt.active /\ loop_nxt.ph
  /\ Repeats(a) /\ loop_nxt.ir = a - 2 /\ kind(word_at(a - 2)) = "body"

Arrives == \E a \in Programs!Successors(doing) : AtOrdinary(a) \/ AtHeld(a)

Onward ==
  CASE uw.seq = "next"   -> NextAt(label, upc + 1)
    [] uw.seq = "goto"   -> NextAt([label EXCEPT ![2] = uw.to[1]], 1)
    [] uw.seq = "cond"   -> \A k \in {1, 2} : NextAt([label EXCEPT ![2] = uw.to[k]], 1)
    [] uw.seq = "decode" -> Arrives

\* The one prefetch of a body advances the pipe, or in a loop holds it.
LEMMA BodyStep ==
  ASSUME LoopInv, kind(doing) = "body"
  PROVE  Onward /\ uw.seq \in {"next", "decode"}
<1> DEFINE c == Body(looped)
<1>1. /\ Registers /\ doing \in Code /\ label = <<"plain", "start">> /\ label \in [1..2 -> Names]
      /\ BodyAt(looped, doing, label, upc, pipe, loop.active, loop.ph, loop.ir)
  BY DEF LoopInv, At, BodyAt, DbccAt, LoopAt, BranchAt, ReturnAt
<1>2. PICK p \in 1..Len(c) : \A u \in 1..Len(c) :
        /\ c[u].pf = IF u = p THEN "advfetch" ELSE "none"
        /\ c[u].bus = "prog" <=> u = p
        /\ c[u].lp = "none" /\ c[u].dst \notin {"pc", "loopback"}
        /\ c[u].seq = IF u = Len(c) THEN "decode" ELSE "next"
  BY <1>1, BodyRule DEF OneFetch, Registers
<1>3. Len(c) \in Nat
  BY <1>1, BodyRule DEF OneFetch, Registers
<1>4. uw = c[upc] /\ upc \in 1..Len(c) /\ upc \in Nat
  BY <1>1, <1>3, CurrentWord DEF BodyAt
<1>5. \A u \in 1..Len(c) + 1 : Fetched(looped, u) <=> p < u
  BY <1>2, <1>3 DEF Fetched
<1>6. doing \in Nat /\ word_at(doing) = doing /\ doing + 2 \in Programs!Successors(doing)
      /\ doing + 2 \in Code /\ word_at(doing + 2) = doing + 2
  BY <1>1, Places, Ways
<1>7. /\ uw.pf = IF upc = p THEN "advfetch" ELSE "none"
      /\ uw.bus = "prog" <=> upc = p
      /\ uw.lp = "none" /\ uw.dst \notin {"pc", "loopback"}
      /\ uw.seq = IF upc = Len(c) THEN "decode" ELSE "next"
  BY <1>2, <1>4
<1>8. /\ Fetched(looped, upc) <=> p < upc
      /\ Fetched(looped, upc + 1) <=> p < upc + 1
      /\ Fetched(looped, Len(c) + 1)
  BY <1>2, <1>3, <1>4, <1>5
<1> HIDE DEF c
<1>9. /\ loop.active => Repeats(doing + 2) /\ loop.ir = doing /\ (loop.ph <=> Fetched(looped, upc))
      /\ ~Fetched(looped, upc) => pipe = Ordinary(doing)
      /\ Fetched(looped, upc) /\ ~loop.active => pipe = Ordinary(doing + 2)
      /\ Fetched(looped, upc) /\ loop.active => pipe = Held(doing + 2)
  BY <1>1 DEF BodyAt
<1> DEFINE N(f) ==
      /\ loop_nxt.active = loop.active /\ loop_nxt.ir = loop.ir
      /\ loop.active => (loop_nxt.ph <=> f)
      /\ ~f => pipe_nxt = Ordinary(doing)
      /\ f /\ ~loop.active => pipe_nxt = Ordinary(doing + 2)
      /\ f /\ loop.active => pipe_nxt = Held(doing + 2)
<1>10. N(Fetched(looped, upc + 1))
  <2>1. CASE upc # p
    <3>1. pipe_nxt = pipe
      BY <1>1, <1>7, <2>1, Still
    <3>2. loop_nxt.active = loop.active /\ loop_nxt.ph = loop.ph /\ loop_nxt.ir = loop.ir
      BY <1>1, <1>7, <2>1, LoopKept
    <3>3. Fetched(looped, upc + 1) <=> Fetched(looped, upc)
      BY <1>4, <1>2, <1>3, <1>8, <2>1
    <3> QED BY <1>9, <3>1, <3>2, <3>3
  <2>2. CASE upc = p /\ ~loop.active
    <3>1. Fetched(looped, upc + 1) /\ ~Fetched(looped, upc)
      BY <1>2, <1>3, <1>8, <2>2
    <3>2. pipe_nxt = Ordinary(doing + 2)
      BY <1>1, <1>6, <1>7, <1>9, <2>2, <3>1, OrdinaryPipe, Refilling
    <3>3. loop_nxt.active = loop.active /\ loop_nxt.ir = loop.ir
      BY <1>1, <1>7, <2>2, LoopKept
    <3> QED BY <2>2, <3>1, <3>2, <3>3
  <2>3. CASE upc = p /\ loop.active
    <3>1. Fetched(looped, upc + 1) /\ ~Fetched(looped, upc)
      BY <1>2, <1>3, <1>8, <2>3
    <3>2. pipe = Ordinary(doing)
      BY <1>9, <3>1
    <3>3. pf_adv /\ ~pf_fetch /\ ~loopback /\ uw.dst # "pc"
      BY <1>7, <2>3 DEF pf_adv, pf_fetch, loopback, loop_suppress
    <3>4. pipe_nxt = [ir |-> pipe.irc, ir_pc |-> pipe.irc_pc, irc |-> pipe.irc,
                      irc_pc |-> pipe.irc_pc, pc |-> pipe.pc]
      BY <3>3 DEF pipe_nxt, ir_pc_nxt
    <3>5. pipe_nxt = Held(doing + 2)
      <4>1. doing + 4 = (doing + 2) + 2
        BY <1>6
      <4> QED BY <1>6, <3>2, <3>4, <4>1 DEF Ordinary, Held
    <3>6. loop_nxt.active = loop.active /\ loop_nxt.ir = loop.ir /\ loop_nxt.ph
      <4>1. ~starts
        BY <1>7 DEF starts
      <4> QED BY <1>7, <2>3, <3>3, <4>1 DEF loop_nxt
    <3> QED BY <2>3, <3>1, <3>5, <3>6
  <2> QED BY <2>1, <2>2, <2>3
<1>11. CASE upc # Len(c)
  <2>1. upc + 1 \in 1..Len(c)
    BY <1>3, <1>4, <1>11
  <2>2. BodyAt(looped, doing, label, upc + 1, pipe_nxt, loop_nxt.active, loop_nxt.ph, loop_nxt.ir)
    BY <1>1, <1>9, <1>10, <2>1 DEF BodyAt, c
  <2>3. NextAt(label, upc + 1)
    <3>1. Remembers(doing, label, upc + 1, loop_nxt.m4)
      BY <1>1 DEF Remembers
    <3> QED BY <1>1, <2>2, <3>1 DEF NextAt, At
  <2> QED BY <1>7, <1>11, <2>3 DEF Onward
<1>12. CASE upc = Len(c)
  <2>1. Fetched(looped, upc + 1)
    BY <1>8, <1>12
  <2>2. CASE ~loop.active
    <3>1. AtOrdinary(doing + 2)
      BY <1>10, <2>1, <2>2 DEF AtOrdinary, dec_dbcc
    <3> QED BY <1>6, <1>7, <1>12, <3>1 DEF Onward, Arrives
  <2>3. CASE loop.active
    <3>1. (doing + 2) - 2 = doing
      BY <1>6
    <3>2. dec_dbcc(doing + 2)
      BY <1>6, <1>9, <2>3 DEF dec_dbcc, Repeats
    <3>3. loop_nxt.ir = (doing + 2) - 2 /\ kind(word_at((doing + 2) - 2)) = "body"
      BY <1>6, <1>9, <1>10, <2>3, <3>1
    <3>4. AtHeld(doing + 2)
      BY <1>9, <1>10, <2>1, <2>3, <3>2, <3>3 DEF AtHeld
    <3> QED BY <1>6, <1>7, <1>12, <3>4 DEF Onward, Arrives
  <2> QED BY <2>2, <2>3
<1> QED BY <1>7, <1>11, <1>12

LEMMA FallStep ==
  ASSUME LoopInv, kind(doing) = "dbcc", FallAt(doing, label, upc, pipe), ~loop.active
  PROVE  Onward /\ uw.seq \in {"next", "decode"}
<1>1. /\ Registers /\ doing \in Code /\ label \in [1..2 -> Names]
      /\ label[1] \in {"plain", "loop"} /\ label[2] = "fall" /\ upc \in {1, 2}
      /\ upc = 1 => pipe.pc = doing + 4
      /\ upc = 2 => Refetched(pipe, doing + 4)
  BY DEF LoopInv, At, BodyAt, DbccAt, LoopAt, BranchAt, ReturnAt, FallAt
<1>2. doing \in Nat /\ doing + 4 \in Programs!Successors(doing)
  BY <1>1, Places, Ways
<1>3. uw = dbcc.fall[upc]
  BY <1>1, CurrentWord, LoopWords
<1>4. CASE upc = 1
  <2>1. Does(uw, "fetch", "prog", "none", "none", "none", "next")
    BY <1>3, <1>4, FallWords
  <2>2. Refetched(pipe_nxt, doing + 4)
    BY <1>1, <1>2, <1>4, <2>1, Fetching DEF Does
  <2>3. ~loop_nxt.active
    BY <1>1, <2>1, LoopKept DEF Does
  <2>4. FallAt(doing, label, upc + 1, pipe_nxt)
    BY <1>1, <1>4, <2>2 DEF FallAt
  <2>5. NextAt(label, upc + 1)
    BY <1>1, <2>3, <2>4 DEF NextAt, At, DbccAt, LoopAt, Remembers
  <2> QED BY <2>1, <2>5 DEF Onward, Does
<1>5. CASE upc = 2
  <2>1. Does(uw, "advfetch", "prog", "none", "none", "none", "decode")
    BY <1>3, <1>5, FallWords
  <2>2. pipe_nxt = Ordinary(doing + 4)
    BY <1>1, <1>2, <1>5, <2>1, Refilling DEF Does
  <2>3. ~loop_nxt.active
    BY <1>1, <2>1, LoopKept DEF Does
  <2>4. AtOrdinary(doing + 4)
    BY <2>2, <2>3 DEF AtOrdinary, dec_dbcc
  <2> QED BY <1>2, <2>1, <2>4 DEF Onward, Arrives, Does
<1> QED BY <1>1, <1>4, <1>5

\* A DBcc that is not being looped falls through, or is taken and may start a loop.
LEMMA DbccStep ==
  ASSUME LoopInv, DbccAt(doing, label, upc, pipe, t0, loop.active), label[2] # "fall"
  PROVE  Onward /\ uw.seq \in {"next", "cond", "decode"}
<1>1. /\ Registers /\ doing \in Code /\ label \in [1..2 -> Names] /\ kind(doing) = "dbcc"
      /\ label[1] = "plain" /\ ~loop.active
      /\ \/ label[2] \in {"start", "count"} /\ upc = 1 /\ pipe = Ordinary(doing)
         \/ TakeAt(doing, label, upc, pipe, t0)
  BY DEF LoopInv, At, DbccAt, FallAt
<1>2. /\ doing \in Nat /\ Target(doing) \in Programs!Successors(doing) /\ Target(doing) \in Code
      /\ word_at(doing) = doing
  BY <1>1, Places, Ways
<1>3. Target(doing) \in Int
  BY <1>2, Places
<1>4. uw = dbcc[label[2]][upc]
  BY <1>1, CurrentWord
<1>5. CASE label[2] \in {"start", "count"} /\ upc = 1 /\ pipe = Ordinary(doing)
  <2>1. /\ uw.pf = "none" /\ uw.dst \in {"none", "dx"} /\ uw.lp = "none" /\ uw.seq = "cond"
        /\ uw.to \in {<<"count", "fall">>, <<"take", "fall">>}
    BY <1>4, <1>5, DbccWords DEF Does
  <2>2. pipe_nxt = Ordinary(doing) /\ ~loop_nxt.active
    BY <1>1, <1>5, <2>1, Still, LoopKept
  <2>3. ASSUME NEW l \in {"count", "take", "fall"}
        PROVE  NextAt([label EXCEPT ![2] = l], 1)
    <3> DEFINE m == [label EXCEPT ![2] = l]
    <3>1. m[1] = "plain" /\ m[2] = l /\ m \in [1..2 -> Names]
      <4>1. l \in Names
        BY DEF Names
      <4> QED BY <1>1, <4>1, Relabelled
    <3> HIDE DEF m
    <3>2. l = "count" => DbccAt(doing, m, 1, pipe_nxt, t0_nxt, loop_nxt.active)
      BY <1>1, <2>2, <3>1 DEF DbccAt
    <3>3. l = "take" => DbccAt(doing, m, 1, pipe_nxt, t0_nxt, loop_nxt.active)
      BY <1>1, <2>2, <3>1 DEF DbccAt, TakeAt
    <3>4. l = "fall" => DbccAt(doing, m, 1, pipe_nxt, t0_nxt, loop_nxt.active)
      BY <1>1, <2>2, <3>1 DEF DbccAt, FallAt, Ordinary
    <3>5. NextAt(m, 1)
      BY <1>1, <3>1, <3>2, <3>3, <3>4 DEF NextAt, At, Remembers
    <3> QED BY <3>5 DEF m
  <2>4. \A k \in {1, 2} : uw.to[k] \in {"count", "take", "fall"}
    BY <2>1
  <2>5. \A k \in {1, 2} : NextAt([label EXCEPT ![2] = uw.to[k]], 1)
    BY <2>3, <2>4
  <2> QED BY <2>1, <2>5 DEF Onward
<1>6. CASE label[2] = "take" /\ upc = 1 /\ pipe = Ordinary(doing)
  <2>1. Does(uw, "none", "none", "t0", "irc_pc", "chk", "next")
    BY <1>4, <1>6, TakeWords
  <2>2. pipe_nxt = Ordinary(doing) /\ ~loop_nxt.active
    BY <1>1, <1>6, <2>1, Still, LoopKept DEF Does
  <2>3. t0_nxt = Target(doing)
    BY <1>6, <2>1 DEF t0_nxt, y, Does, Target, Ordinary
  <2>4. loop_nxt.m4 = (displacement(word_at(doing + 2)) = -4)
    BY <1>6, <2>1 DEF loop_nxt, Does, Ordinary
  <2>5. TakeAt(doing, label, upc + 1, pipe_nxt, t0_nxt)
    BY <1>6, <2>2, <2>3 DEF TakeAt
  <2>6. NextAt(label, upc + 1)
    BY <1>1, <2>2, <2>4, <2>5 DEF NextAt, At, DbccAt, Remembers
  <2> QED BY <2>1, <2>6 DEF Onward, Does
<1>7. CASE label[2] = "take" /\ upc = 2 /\ pipe = Ordinary(doing) /\ t0 = Target(doing)
  <2>1. Does(uw, "none", "none", "pc", "t0", "none", "next")
    BY <1>4, <1>7, TakeWords
  <2>2. ~loop_nxt.active /\ loop_nxt.m4 = loop.m4
    BY <1>1, <2>1, LoopKept DEF Does
  <2>3. pipe_nxt.pc = Target(doing)
    BY <1>1, <1>7, <2>1, Jumping DEF Does, y
  <2>4. TakeAt(doing, label, upc + 1, pipe_nxt, t0_nxt)
    BY <1>7, <2>3 DEF TakeAt
  <2>5. NextAt(label, upc + 1)
    BY <1>1, <1>7, <2>2, <2>4 DEF NextAt, At, DbccAt, Remembers, LoopInv
  <2> QED BY <2>1, <2>5 DEF Onward, Does
<1>8. CASE label[2] = "take" /\ upc = 3 /\ pipe.pc = Target(doing)
  <2>1. Does(uw, "fetch", "prog", "none", "none", "none", "next")
    BY <1>4, <1>8, TakeWords
  <2>2. ~loop_nxt.active /\ loop_nxt.m4 = loop.m4
    BY <1>1, <2>1, LoopKept DEF Does
  <2>3. Refetched(pipe_nxt, Target(doing))
    BY <1>1, <1>3, <1>8, <2>1, Fetching DEF Does
  <2>4. TakeAt(doing, label, upc + 1, pipe_nxt, t0_nxt)
    BY <1>8, <2>3 DEF TakeAt
  <2>5. NextAt(label, upc + 1)
    BY <1>1, <1>8, <2>2, <2>4 DEF NextAt, At, DbccAt, Remembers, LoopInv
  <2> QED BY <2>1, <2>5 DEF Onward, Does
<1>9. CASE label[2] = "take" /\ upc = 4 /\ Refetched(pipe, Target(doing))
  <2>1. Does(uw, "advfetch", "prog", "none", "none", "enter", "decode")
    BY <1>4, <1>9, TakeWords
  <2>2. pipe_nxt = Ordinary(Target(doing))
    BY <1>1, <1>3, <1>9, <2>1, Refilling DEF Does
  <2>3. loop.m4 = (displacement(word_at(doing + 2)) = -4)
    BY <1>1, <1>9 DEF LoopInv, Remembers
  <2>4. CASE ~starts
    <3>1. ~loop_nxt.active
      BY <1>1, <2>1, <2>4 DEF loop_nxt, Does
    <3>2. AtOrdinary(Target(doing))
      BY <1>1, <2>2, <3>1 DEF AtOrdinary, dec_dbcc
    <3> QED BY <1>2, <2>1, <3>2 DEF Onward, Arrives, Does
  <2>5. CASE starts
    <3>1. displacement(word_at(doing + 2)) = -4
      BY <2>3, <2>5 DEF starts
    <3>2. Target(doing) + 2 = doing
      BY <1>2, <3>1 DEF Target
    <3>3. pipe_nxt.ir = Target(doing)
      BY <1>2, <2>2, Places DEF Ordinary
    <3>4. Repeats(Target(doing) + 2)
      BY <1>1, <1>2, <3>1, <3>2 DEF Repeats
    <3>5. loop_nxt.ph = FALSE /\ loop_nxt.ir = pipe_nxt.ir
      BY <1>1, <2>1, <2>5 DEF loop_nxt, Does
    <3>6. kind(Target(doing)) = "body"
      BY <2>5, <3>3 DEF starts, loop_op_ok
    <3>7. AtOrdinary(Target(doing))
      BY <1>1, <2>2, <3>3, <3>4, <3>5, <3>6 DEF AtOrdinary, dec_dbcc
    <3> QED BY <1>2, <2>1, <3>7 DEF Onward, Arrives, Does
  <2> QED BY <2>4, <2>5
<1> QED BY <1>1, <1>5, <1>6, <1>7, <1>8, <1>9, DbccWords, TakeWords, <1>4 DEF TakeAt, Does

\* One that is goes round again without a fetch, or ends the loop.
LEMMA LoopStep ==
  ASSUME LoopInv, LoopAt(doing, label, upc, pipe, loop.active, loop.ph, loop.ir),
         label[2] # "fall"
  PROVE  Onward /\ uw.seq \in {"cond", "goto", "decode"}
<1>1. /\ Registers /\ doing \in Code /\ label \in [1..2 -> Names] /\ kind(doing) = "dbcc"
      /\ label[1] = "loop" /\ label[2] \in {"start", "count", "again", "exit"} /\ upc = 1
      /\ loop.active /\ loop.ph /\ loop.ir = doing - 2 /\ kind(word_at(doing - 2)) = "body"
      /\ Repeats(doing) /\ pipe = Held(doing)
  BY DEF LoopInv, At, LoopAt, FallAt
<1>2. doing \in Nat /\ word_at(doing) = doing
  BY <1>1, Places
<1>3. uw = RunningLoop[label[2]][upc]
  BY <1>1, CurrentWord
<1>4. CASE label[2] \in {"start", "count"}
  <2>1. /\ uw.pf = "none" /\ uw.dst \in {"none", "dx"} /\ uw.lp = "none" /\ uw.seq = "cond"
        /\ uw.to \in {<<"count", "exit">>, <<"again", "exit">>}
    BY <1>1, <1>3, <1>4, LoopWords DEF Does
  <2>2. pipe_nxt = Held(doing) /\ loop_nxt.active /\ loop_nxt.ph /\ loop_nxt.ir = doing - 2
    BY <1>1, <2>1, Still, LoopKept
  <2>3. ASSUME NEW l \in {"count", "again", "exit"}
        PROVE  NextAt([label EXCEPT ![2] = l], 1)
    <3> DEFINE m == [label EXCEPT ![2] = l]
    <3>1. m[1] = "loop" /\ m[2] = l /\ m \in [1..2 -> Names]
      <4>1. l \in Names
        BY DEF Names
      <4> QED BY <1>1, <4>1, Relabelled
    <3> HIDE DEF m
    <3>2. LoopAt(doing, m, 1, pipe_nxt, loop_nxt.active, loop_nxt.ph, loop_nxt.ir)
      BY <1>1, <2>2, <3>1 DEF LoopAt
    <3>3. NextAt(m, 1)
      BY <1>1, <3>1, <3>2 DEF NextAt, At, Remembers
    <3> QED BY <3>3 DEF m
  <2>4. \A k \in {1, 2} : uw.to[k] \in {"count", "again", "exit"}
    BY <2>1
  <2>5. \A k \in {1, 2} : NextAt([label EXCEPT ![2] = uw.to[k]], 1)
    BY <2>3, <2>4
  <2> QED BY <2>1, <2>5 DEF Onward
<1>5. CASE label[2] = "again"
  <2>1. Does(uw, "none", "none", "loopback", "none", "none", "decode")
    BY <1>1, <1>3, <1>5, LoopWords
  <2>2. doing - 2 \in Programs!Successors(doing) /\ doing - 2 \in Code
        /\ Target(doing) = doing - 2
    <3>1. Target(doing) = doing - 2
      BY <1>1, <1>2 DEF Target, Repeats
    <3> QED BY <1>1, <3>1, Ways
  <2>3. doing - 2 \in Nat /\ word_at(doing - 2) = doing - 2
    BY <2>2, Places
  <2>4. pipe_nxt = [ir |-> loop.ir, ir_pc |-> pipe.irc_pc - 2, irc |-> pipe.irc,
                    irc_pc |-> pipe.irc_pc, pc |-> pipe.pc]
    BY <2>1 DEF pipe_nxt, ir_pc_nxt, loopback, pf_adv, pf_fetch, Does
  <2>5. pipe_nxt = Ordinary(doing - 2)
    <3>1. (doing - 2) + 2 = doing /\ (doing - 2) + 4 = doing + 2
      BY <1>2
    <3> QED BY <1>1, <1>2, <2>3, <2>4, <3>1 DEF Held, Ordinary
  <2>6. loop_nxt.active /\ loop_nxt.ph = FALSE /\ loop_nxt.ir = doing - 2
    <3>1. ~starts
      BY <2>1 DEF starts, Does
    <3> QED BY <1>1, <2>1, <3>1 DEF loop_nxt, loopback, pf_adv, Does
  <2>7. Repeats((doing - 2) + 2)
    <3>1. (doing - 2) + 2 = doing
      BY <1>2
    <3> QED BY <1>1, <3>1
  <2>8. AtOrdinary(doing - 2)
    BY <1>1, <2>3, <2>5, <2>6, <2>7 DEF AtOrdinary, dec_dbcc
  <2> QED BY <2>1, <2>2, <2>8 DEF Onward, Arrives, Does
<1>6. CASE label[2] = "exit"
  <2>1. /\ Does(uw, "none", "none", "pc", "pc_plus2", "exit", "goto")
        /\ uw.to[1] = "fall"
    BY <1>1, <1>3, <1>6, LoopWords
  <2>2. pipe_nxt.pc = doing + 4
    <3>1. y = pipe.pc + 2
      BY <2>1 DEF y, Does
    <3>2. pipe.pc = doing + 2
      BY <1>1 DEF Held
    <3> QED BY <1>1, <1>2, <2>1, <3>1, <3>2, Jumping DEF Does
  <2>3. ~loop_nxt.active
    BY <2>1 DEF loop_nxt, starts, Does
  <2> DEFINE m == [label EXCEPT ![2] = uw.to[1]]
  <2>4. m[1] = "loop" /\ m[2] = "fall" /\ m \in [1..2 -> Names]
    <3>1. "fall" \in Names
      BY DEF Names
    <3> QED BY <1>1, <2>1, <3>1, Relabelled
  <2> HIDE DEF m
  <2>5. NextAt(m, 1)
    BY <1>1, <2>2, <2>3, <2>4 DEF NextAt, At, LoopAt, FallAt, Remembers
  <2> QED BY <2>1, <2>5 DEF Onward, Does, m
<1> QED BY <1>1, <1>4, <1>5, <1>6, <1>3, LoopWords DEF Does

LEMMA BranchStep ==
  ASSUME LoopInv, kind(doing) = "bra"
  PROVE  Onward /\ uw.seq \in {"next", "goto", "decode"}
<1>1. /\ Registers /\ doing \in Code /\ label \in [1..2 -> Names]
      /\ BranchAt(doing, label, upc, pipe, t0, loop.active)
  BY DEF LoopInv, At, BodyAt, DbccAt, LoopAt, BranchAt, ReturnAt
<1>2. label[1] = "plain" /\ ~loop.active
  BY <1>1 DEF BranchAt
<1>3. /\ Target(doing) \in Programs!Successors(doing) /\ Target(doing) \in Code
      /\ Target(doing) \in Int /\ doing \in Nat
  BY <1>1, Ways, Places
<1>4. CASE label[2] = "start" /\ upc = 1 /\ pipe = Ordinary(doing)
  <2>1. Does(uw, "none", "none", "t0", "irc_pc", "none", "next")
    BY <1>4, CurrentWord, BranchWords
  <2>2. ~loop_nxt.active
    BY <1>1, <1>2, <2>1, LoopKept DEF Does
  <2>3. t0_nxt = Target(doing)
    BY <1>4, <2>1 DEF t0_nxt, y, Does, Target, Ordinary
  <2>4. NextAt(label, upc + 1)
    BY <1>1, <1>2, <1>4, <2>2, <2>3 DEF NextAt, At, BranchAt, Remembers
  <2> QED BY <2>1, <2>4 DEF Onward, Does
<1>5. CASE label[2] = "start" /\ upc = 2 /\ t0 = Target(doing)
  <2>1. Does(uw, "none", "none", "pc", "t0", "none", "goto") /\ uw.to[1] = "branch_refill"
    BY <1>5, CurrentWord, BranchWords
  <2>2. ~loop_nxt.active
    BY <1>1, <1>2, <2>1, LoopKept DEF Does
  <2>3. pipe_nxt.pc = Target(doing)
    BY <1>1, <1>5, <2>1, Jumping DEF Does, y
  <2> DEFINE m == [label EXCEPT ![2] = uw.to[1]]
  <2>4. m[1] = "plain" /\ m[2] = "branch_refill" /\ m \in [1..2 -> Names]
    <3>1. "branch_refill" \in Names
      BY DEF Names
    <3> QED BY <1>1, <1>2, <2>1, <3>1, Relabelled
  <2> HIDE DEF m
  <2>5. NextAt(m, 1)
    BY <1>1, <1>5, <2>2, <2>3, <2>4 DEF NextAt, At, BranchAt, Remembers
  <2> QED BY <2>1, <2>5 DEF Onward, Does, m
<1>6. CASE label[2] = "branch_refill" /\ upc = 1 /\ pipe.pc = Target(doing)
  <2>1. Does(uw, "fetch", "prog", "none", "none", "none", "next")
    BY <1>6, CurrentWord, BranchWords, RefillWords
  <2>2. ~loop_nxt.active
    BY <1>1, <1>2, <2>1, LoopKept DEF Does
  <2>3. Refetched(pipe_nxt, Target(doing))
    BY <1>1, <1>2, <1>3, <1>6, <2>1, Fetching DEF Does
  <2>4. NextAt(label, upc + 1)
    BY <1>1, <1>2, <1>6, <2>2, <2>3 DEF NextAt, At, BranchAt, Remembers
  <2> QED BY <2>1, <2>4 DEF Onward, Does
<1>7. CASE label[2] = "branch_refill" /\ upc = 2 /\ Refetched(pipe, Target(doing))
  <2>1. Does(uw, "advfetch", "prog", "none", "none", "none", "decode")
    BY <1>7, CurrentWord, BranchWords, RefillWords
  <2>2. pipe_nxt = Ordinary(Target(doing)) /\ ~loop_nxt.active
    BY <1>1, <1>2, <1>3, <1>7, <2>1, Refilling, LoopKept DEF Does
  <2>3. AtOrdinary(Target(doing))
    BY <1>2, <2>2 DEF AtOrdinary, dec_dbcc
  <2> QED BY <1>3, <2>1, <2>3 DEF Onward, Arrives, Does
<1> QED BY <1>1, <1>4, <1>5, <1>6, <1>7, CurrentWord, BranchWords, RefillWords DEF BranchAt, Does

LEMMA Advances ==
  ASSUME LoopInv, kind(doing) # "rte"
  PROVE  Onward /\ uw.seq \in {"next", "goto", "cond", "decode"}
<1>1. At(looped, doing, label, upc, pipe, t0, loop.active, loop.ph, loop.ir)
  BY DEF LoopInv
<1>2. CASE kind(doing) = "body"
  BY <1>2, BodyStep
<1>3. CASE kind(doing) = "bra"
  BY <1>3, BranchStep
<1>4. CASE kind(doing) = "dbcc"
  <2>1. \/ DbccAt(doing, label, upc, pipe, t0, loop.active)
        \/ LoopAt(doing, label, upc, pipe, loop.active, loop.ph, loop.ir)
    BY <1>1, <1>4 DEF At, BodyAt, BranchAt, ReturnAt
  <2>2. CASE label[2] = "fall"
    <3>1. FallAt(doing, label, upc, pipe) /\ ~loop.active
      BY <2>1, <2>2 DEF DbccAt, LoopAt, TakeAt
    <3> QED BY <1>4, <3>1, FallStep
  <2>3. CASE label[2] # "fall"
    BY <2>1, <2>3, DbccStep, LoopStep
  <2> QED BY <2>2, <2>3
<1> QED BY <1>1, <1>2, <1>3, <1>4, Places DEF At

-----------------------------------------------------------------------------
(***************************************************************************)
(* Where an instruction begins.                                            *)
(***************************************************************************)
LEMMA Fresh ==
  ASSUME NEW a \in Code, NEW i \in Bodies, NEW t, NEW active \in BOOLEAN, NEW ph \in BOOLEAN, NEW ir,
         active => kind(a) = "body" /\ ~ph /\ Repeats(a + 2) /\ ir = a
  PROVE  At(i, a, <<"plain", "start">>, 1, Ordinary(a), t, active, ph, ir)
<1> DEFINE l == <<"plain", "start">>
<1>1. l \in [1..2 -> Names] /\ l[1] = "plain" /\ l[2] = "start"
  BY Begun
<1>2. CASE kind(a) = "body"
  <2>1. 1 \in 1..Len(Body(i)) /\ ~Fetched(i, 1)
    BY BodyRule DEF OneFetch, Fetched
  <2> QED BY <1>1, <1>2, <2>1 DEF At, BodyAt
<1>3. CASE kind(a) # "body"
  <2> HIDE DEF l
  <2>1. DbccAt(a, l, 1, Ordinary(a), t, active) \/ BranchAt(a, l, 1, Ordinary(a), t, active)
          \/ kind(a) = "rte"
    BY <1>1, <1>3, Places DEF DbccAt, BranchAt
  <2>2. kind(a) = "rte" => ReturnAt(a, l, 1, Ordinary(a), active)
    BY <1>3 DEF ReturnAt, l
  <2>3. At(i, a, l, 1, Ordinary(a), t, active, ph, ir)
    BY <1>1, <2>1, <2>2 DEF At
  <2> QED BY <2>3 DEF l
<1> QED BY <1>2, <1>3

\* What decodes is the instruction in the pipe, at the start of its routine.
LEMMA Decoded ==
  ASSUME LoopInv, NEW a \in Code, AtOrdinary(a) \/ AtHeld(a),
         NEW l, l = <<IF dec_dbcc(pipe_nxt.ir) THEN "loop" ELSE "plain", "start">>
  PROVE  /\ At(looped, pipe_nxt.ir, l, 1, pipe_nxt, t0_nxt, loop_nxt.active, loop_nxt.ph, loop_nxt.ir)
         /\ l[2] = "start" /\ pipe_nxt.ir = a /\ pipe_nxt.ir_pc = a
<1>1. a \in Nat /\ word_at(a) = a /\ looped \in Bodies
  BY Places DEF LoopInv, Registers
<1>2. loop_nxt.active \in BOOLEAN /\ loop_nxt.ph \in BOOLEAN
  BY NextRegisters DEF LoopInv
<1>3. CASE AtOrdinary(a)
  <2>1. pipe_nxt = Ordinary(a) /\ pipe_nxt.ir = a /\ pipe_nxt.ir_pc = a
    BY <1>1, <1>3 DEF AtOrdinary, Ordinary
  <2>2. l = <<"plain", "start">>
    BY <1>3, <2>1 DEF AtOrdinary
  <2>3. At(looped, a, <<"plain", "start">>, 1, Ordinary(a), t0_nxt, loop_nxt.active, loop_nxt.ph, loop_nxt.ir)
    BY <1>1, <1>2, <1>3, Fresh DEF AtOrdinary
  <2> QED BY <2>1, <2>2, <2>3, Begun
<1>4. CASE AtHeld(a)
  <2>1. pipe_nxt = Held(a) /\ pipe_nxt.ir = a /\ pipe_nxt.ir_pc = a
    BY <1>4 DEF AtHeld, Held
  <2>2. l = <<"loop", "start">>
    BY <1>4, <2>1 DEF AtHeld
  <2>3. l \in [1..2 -> Names] /\ l[1] = "loop" /\ l[2] = "start"
    BY <2>2, Begun
  <2> HIDE DEF AtHeld
  <2>4. LoopAt(a, l, 1, pipe_nxt, loop_nxt.active, loop_nxt.ph, loop_nxt.ir)
    BY <1>1, <1>4, <2>1, <2>3 DEF AtHeld, LoopAt, Repeats
  <2> QED BY <2>1, <2>3, <2>4 DEF At
<1> QED BY <1>3, <1>4

\* A build that forgets loop mode goes on all the same, unless the DBcc was next.
LEMMA Forgotten ==
  ASSUME NEW i, NEW d, NEW l, NEW u, NEW p, NEW t, NEW active \in BOOLEAN, NEW ph \in BOOLEAN, NEW ir,
         At(i, d, l, u, p, t, active, ph, ir), ~(active /\ ph)
  PROVE  At(i, d, l, u, p, t, FALSE, FALSE, ir)
<1>1. BodyAt(i, d, l, u, p, active, ph, ir) => BodyAt(i, d, l, u, p, FALSE, FALSE, ir)
  BY DEF BodyAt
<1>2. DbccAt(d, l, u, p, t, active) => DbccAt(d, l, u, p, t, FALSE)
  BY DEF DbccAt
<1>3. LoopAt(d, l, u, p, active, ph, ir) => LoopAt(d, l, u, p, FALSE, FALSE, ir)
  BY DEF LoopAt
<1>4. BranchAt(d, l, u, p, t, active) => BranchAt(d, l, u, p, t, FALSE)
  BY DEF BranchAt
<1>5. ReturnAt(d, l, u, p, active) => ReturnAt(d, l, u, p, FALSE)
  BY DEF ReturnAt
<1> QED BY <1>1, <1>2, <1>3, <1>4, <1>5 DEF At

-----------------------------------------------------------------------------
(***************************************************************************)
(* The stack.                                                              *)
(***************************************************************************)
LEMMA Pushed ==
  ASSUME NEW S, NEW s \in Seq(S), NEW x \in S
  PROVE  /\ <<x>> \o s \in Seq(S) /\ Len(<<x>> \o s) = Len(s) + 1
         /\ \A k \in 1..Len(s) + 1 : (<<x>> \o s)[k] = IF k = 1 THEN x ELSE s[k - 1]
<1>1. <<x>> \in Seq(S) /\ Len(<<x>>) = 1 /\ <<x>>[1] = x
  OBVIOUS
<1> QED BY <1>1

LEMMA Popped ==
  ASSUME NEW S, NEW s \in Seq(S), s # <<>>
  PROVE  /\ Tail(s) \in Seq(S) /\ Len(Tail(s)) = Len(s) - 1 /\ Len(s) \in Nat /\ Len(s) > 0
         /\ Head(s) = s[1] /\ s[1] \in S
         /\ \A k \in 1..Len(s) - 1 : Tail(s)[k] = s[k + 1]
OBVIOUS

StackOK == frames \in Seq(Frame) /\ \A k \in 1..Len(frames) : FrameOK(frames[k])

LEMMA PushKeeps ==
  ASSUME StackOK, NEW x \in Frame, FrameOK(x), frames' = <<x>> \o frames, UNCHANGED <<looped, restores>>
  PROVE  StackOK'
<1>1. /\ frames' \in Seq(Frame) /\ Len(frames') = Len(frames) + 1
      /\ \A k \in 1..Len(frames') : frames'[k] = IF k = 1 THEN x ELSE frames[k - 1]
  BY Pushed DEF StackOK
<1>2. \A k \in 1..Len(frames') : k = 1 \/ k - 1 \in 1..Len(frames)
  BY <1>1 DEF StackOK
<1>3. \A k \in 1..Len(frames') : FrameOK(frames'[k])
  BY <1>1, <1>2 DEF StackOK
<1>4. \A f : FrameOK(f) =>
        /\ f.mid => /\ At(looped', f.doing, f.label, f.upc, f.pipe, f.t0,
                          f.loop_saved.active, f.loop_saved.ph, f.loop_ir)
                    /\ f.loop_saved.active /\ f.loop_saved.ph => restores'
                    /\ f.label[2] # "take"
        /\ ~f.mid => f.at \in Code
  BY DEF FrameOK
<1> QED BY <1>1, <1>3, <1>4 DEF StackOK, FrameOK

LEMMA StackKept ==
  ASSUME StackOK, UNCHANGED <<frames, looped, restores>>
  PROVE  StackOK'
BY DEF StackOK, FrameOK

LEMMA PopKeeps ==
  ASSUME StackOK, frames # <<>>, frames' = Tail(frames), UNCHANGED <<looped, restores>>
  PROVE  StackOK' /\ Head(frames) \in Frame /\ FrameOK(Head(frames))
<1>1. /\ frames' \in Seq(Frame) /\ Len(frames') = Len(frames) - 1
      /\ Len(frames) \in Nat /\ Len(frames) > 0
      /\ Head(frames) = frames[1] /\ frames[1] \in Frame
      /\ \A k \in 1..Len(frames) - 1 : frames'[k] = frames[k + 1]
  BY Popped DEF StackOK
<1>2. FrameOK(frames[1])
  BY <1>1 DEF StackOK
<1>3. \A k \in 1..Len(frames') : FrameOK(frames'[k])
  BY <1>1 DEF StackOK
<1>4. \A f : FrameOK(f) =>
        /\ f.mid => /\ At(looped', f.doing, f.label, f.upc, f.pipe, f.t0,
                          f.loop_saved.active, f.loop_saved.ph, f.loop_ir)
                    /\ f.loop_saved.active /\ f.loop_saved.ph => restores'
                    /\ f.label[2] # "take"
        /\ ~f.mid => f.at \in Code
  BY DEF FrameOK
<1> QED BY <1>1, <1>2, <1>3, <1>4 DEF StackOK, FrameOK

-----------------------------------------------------------------------------
(***************************************************************************)
(* What every step leaves true.                                            *)
(***************************************************************************)
LEMMA AdvanceKeeps ==
  ASSUME LoopInv, kind(doing) # "rte", UNCHANGED <<looped, restores>>, Advance
  PROVE  LoopInv'
<1>1. /\ loop' = loop_nxt /\ pipe' = pipe_nxt /\ t0' = t0_nxt /\ UNCHANGED frames
      /\ Registers /\ StackOK
  BY DEF Advance, LoopInv, StackOK
<1>2. Registers'
  BY <1>1, NextRegisters DEF Registers
<1>3. StackOK'
  BY <1>1, StackKept
<1>4. Onward
  BY Advances
<1> DEFINE Here == /\ At(looped, doing', label', upc', pipe_nxt, t0_nxt,
                         loop_nxt.active, loop_nxt.ph, loop_nxt.ir)
                   /\ Remembers(doing', label', upc', loop_nxt.m4)
<1>5. Here
  <2>1. CASE uw.seq = "next" /\ upc' = upc + 1 /\ UNCHANGED <<doing, label>>
    BY <1>4, <2>1 DEF Onward, NextAt
  <2>2. CASE uw.seq = "goto" /\ Goto(uw.to[1])
    BY <1>4, <2>2 DEF Onward, NextAt, Goto
  <2>3. CASE uw.seq = "cond" /\ \E k \in {1, 2} : Goto(uw.to[k])
    BY <1>4, <2>3 DEF Onward, NextAt, Goto
  <2>4. CASE uw.seq = "decode" /\ Decode(pipe_nxt.ir)
    <3>1. PICK a \in Code : AtOrdinary(a) \/ AtHeld(a)
      BY <1>4, <2>4, Ways DEF Onward, Arrives, LoopInv, At
    <3>2. At(looped, doing', label', 1, pipe_nxt, t0_nxt, loop_nxt.active, loop_nxt.ph, loop_nxt.ir)
          /\ label'[2] = "start" /\ upc' = 1
      BY <2>4, <3>1, Decoded DEF Decode
    <3> QED BY <3>2 DEF Remembers
  <2> QED BY <2>1, <2>2, <2>3, <2>4 DEF Advance
<1>6. /\ At(looped', doing', label', upc', pipe', t0', loop'.active, loop'.ph, loop'.ir)
      /\ Remembers(doing', label', upc', loop'.m4)
  BY <1>1, <1>5
<1> QED BY <1>2, <1>3, <1>6 DEF LoopInv, StackOK

\* Exception processing and RTE leave an ordinary pipe, and no loop running.
LEMMA RefillKeeps ==
  ASSUME Registers, NEW a \in Code, Refill(a), StackOK', UNCHANGED <<looped, restores>>,
         loop' \in [active : BOOLEAN, ph : BOOLEAN, ir : Word, m4 : BOOLEAN], ~loop'.active
  PROVE  LoopInv' /\ doing' = a
<1>1. a \in Nat /\ word_at(a) = a
  BY Places
<1>2. doing' = a /\ label' = <<"plain", "start">> /\ upc' = 1 /\ pipe' = Ordinary(a) /\ t0' = t0
  BY <1>1 DEF Refill
<1>3. At(looped, a, <<"plain", "start">>, 1, Ordinary(a), t0', loop'.active, loop'.ph, loop'.ir)
  BY Fresh DEF Registers
<1>4. At(looped', doing', label', upc', pipe', t0', loop'.active, loop'.ph, loop'.ir)
  BY <1>2, <1>3
<1>5. Remembers(doing', label', upc', loop'.m4)
  BY <1>2 DEF Remembers
<1>6. Ordinary(a) \in Pipe
  BY <1>1, Worded DEF Ordinary, Pipe, Word
<1>7. Registers'
  BY <1>2, <1>6 DEF Registers
<1> QED BY <1>2, <1>4, <1>5, <1>7 DEF LoopInv, StackOK

LEMMA InterruptKeeps ==
  ASSUME LoopInv, kind(doing) # "rte", UNCHANGED <<looped, restores>>, Interrupt
  PROVE  LoopInv' /\ doing' = Handler.interrupt /\ pipe_nxt.ir_pc \in Programs!Successors(doing)
<1>1. Registers /\ StackOK /\ Onward /\ uw.seq = "decode" /\ doing \in Code
  BY Advances DEF LoopInv, StackOK, Interrupt, take_irq, At
<1>2. PICK a \in Programs!Successors(doing) : AtOrdinary(a) \/ AtHeld(a)
  BY <1>1 DEF Onward, Arrives
<1>3. a \in Code
  BY <1>1, <1>2, Ways
<1>4. pipe_nxt.ir_pc = a
  BY <1>2, <1>3, Decoded
<1> DEFINE f == [mid |-> FALSE, at |-> pipe_nxt.ir_pc]
<1>5. f \in Frame /\ FrameOK(f)
  <2>1. a \in Int
    BY <1>3, Places
  <2> QED BY <1>3, <1>4, <2>1 DEF Frame, FrameOK
<1>6. frames' = <<f>> \o frames
  BY DEF Interrupt
<1>7. StackOK'
  <2> HIDE DEF f
  <2> QED BY <1>1, <1>5, <1>6, PushKeeps
<1>8. /\ loop' \in [active : BOOLEAN, ph : BOOLEAN, ir : Word, m4 : BOOLEAN]
      /\ ~loop'.active
  BY <1>1, NextRegisters DEF Interrupt
<1>9. Handler.interrupt \in Code /\ Refill(Handler.interrupt)
  BY ProgramRule DEF Interrupt
<1> QED BY <1>1, <1>2, <1>4, <1>7, <1>8, <1>9, RefillKeeps

\* The frame keeps all a word needs to go on, but for the displacement's test
\* and, in a build that forgets loop mode, the phase.
LEMMA FaultKeeps ==
  ASSUME LoopInv, Fault, PhaseKept \/ Builds = {TRUE}, TestKept
  PROVE  LoopInv' /\ doing' = Handler.error
<1>1. Registers /\ StackOK /\ UNCHANGED <<looped, restores>>
  BY DEF LoopInv, StackOK, Fault
<1> DEFINE f == [mid |-> TRUE, doing |-> doing, label |-> label, upc |-> upc, pipe |-> pipe,
                 t0 |-> t0, loop_ir |-> loop.ir,
                 loop_saved |-> [active |-> loop.active, ph |-> loop.ph]]
<1>2. label[2] # "take"
  <2>1. SUFFICES ASSUME label[2] = "take" PROVE FALSE
    OBVIOUS
  <2>2. uw.pf = "none" /\ uw.bus # "none"
    BY <2>1 DEF Fault, ForgetsTest
  <2>3. kind(doing) = "dbcc" /\ label[1] = "plain" /\ upc \in {1, 2, 3, 4}
    BY <2>1, Begun DEF LoopInv, At, BodyAt, DbccAt, LoopAt, BranchAt, ReturnAt, FallAt, TakeAt
  <2>4. uw = dbcc.take[upc]
    BY <2>1, <2>3, CurrentWord
  <2> QED BY <2>2, <2>3, <2>4, TakeWords DEF Does
<1>3. loop.active /\ loop.ph => restores
  <2>1. restores \in BOOLEAN /\ (Builds = {TRUE} => restores)
    BY <1>1, LoopAssumption DEF Registers
  <2>2. PhaseKept => ~ForgetsPhase
    BY DEF Fault
  <2> QED BY <2>1, <2>2 DEF ForgetsPhase
<1>4. f \in Frame
  <2>1. label \in [1..2 -> Names] /\ doing \in Int
    BY Places DEF LoopInv, At
  <2>2. upc \in Nat
    <3>1. looped \in Bodies => Len(Body(looped)) \in Nat
      BY BodyRule DEF OneFetch
    <3> QED BY <1>1, <3>1 DEF LoopInv, At, BodyAt, DbccAt, LoopAt, BranchAt, ReturnAt, FallAt, TakeAt, Registers
  <2> QED BY <1>1, <2>1, <2>2 DEF Frame, Registers
<1>5. FrameOK(f)
  BY <1>2, <1>3 DEF FrameOK, LoopInv
<1>6. frames' = <<f>> \o frames
  BY DEF Fault
<1>7. StackOK'
  <2> HIDE DEF f
  <2> QED BY <1>1, <1>4, <1>5, <1>6, PushKeeps
<1>8. /\ loop' \in [active : BOOLEAN, ph : BOOLEAN, ir : Word, m4 : BOOLEAN]
      /\ ~loop'.active
  BY <1>1 DEF Fault, Registers
<1>9. Handler.error \in Code /\ Refill(Handler.error)
  BY ProgramRule DEF Fault
<1> QED BY <1>1, <1>7, <1>8, <1>9, RefillKeeps

LEMMA ReturnKeeps ==
  ASSUME LoopInv, RTE
  PROVE  /\ LoopInv' /\ Head(frames) \in Frame
         /\ doing' = IF Head(frames).mid THEN Head(frames).doing ELSE Head(frames).at
<1> DEFINE top == Head(frames)
<1>1. Registers /\ StackOK /\ UNCHANGED <<looped, restores>> /\ frames # <<>> /\ frames' = Tail(frames)
  BY DEF LoopInv, StackOK, RTE
<1>2. StackOK' /\ top \in Frame /\ FrameOK(top)
  BY <1>1, PopKeeps
<1>3. ~loop.active
  BY DEF LoopInv, RTE, At, BodyAt, DbccAt, LoopAt, BranchAt, ReturnAt
<1>4. CASE top.mid
  <2>1. /\ doing' = top.doing /\ label' = top.label /\ upc' = top.upc
        /\ pipe' = top.pipe /\ t0' = top.t0 /\ loop' = Restored(top)
    BY <1>4 DEF RTE
  <2> HIDE DEF top
  <2>2. /\ top.doing \in Int /\ top.pipe \in Pipe /\ top.t0 \in Int /\ top.loop_ir \in Word
        /\ top.loop_saved \in [active : BOOLEAN, ph : BOOLEAN]
    BY <1>2, <1>4 DEF Frame
  <2>3. /\ At(looped, top.doing, top.label, top.upc, top.pipe, top.t0, top.loop_saved.active,
              top.loop_saved.ph, top.loop_ir)
        /\ top.loop_saved.active /\ top.loop_saved.ph => restores
        /\ top.label[2] # "take"
    BY <1>2, <1>4 DEF FrameOK
  <2>4. restores \in BOOLEAN
    BY <1>1, LoopAssumption DEF Registers
  <2>5. /\ loop' \in [active : BOOLEAN, ph : BOOLEAN, ir : Word, m4 : BOOLEAN]
        /\ loop'.active = (restores /\ top.loop_saved.active)
        /\ loop'.ph = (restores /\ top.loop_saved.ph) /\ loop'.ir = top.loop_ir
    BY <1>1, <2>1, <2>2, <2>4 DEF Restored, Registers
  <2>6. At(looped, top.doing, top.label, top.upc, top.pipe, top.t0, loop'.active, loop'.ph, loop'.ir)
    <3>1. CASE restores
      <4>1. loop'.active = top.loop_saved.active /\ loop'.ph = top.loop_saved.ph
        BY <2>2, <2>5, <3>1
      <4> QED BY <2>3, <2>5, <4>1
    <3>2. CASE ~restores
      <4>1. loop'.active = FALSE /\ loop'.ph = FALSE
        BY <2>5, <3>2
      <4>2. top.loop_saved.active \in BOOLEAN /\ top.loop_saved.ph \in BOOLEAN
        BY <2>2
      <4>3. At(looped, top.doing, top.label, top.upc, top.pipe, top.t0, FALSE, FALSE, top.loop_ir)
        BY <2>3, <3>2, <4>2, Forgotten
      <4> QED BY <2>5, <4>1, <4>3
    <3> QED BY <3>1, <3>2
  <2>7. Registers'
    BY <1>1, <2>1, <2>2, <2>5 DEF Registers
  <2>8. Remembers(doing', label', upc', loop'.m4)
    BY <2>1, <2>3 DEF Remembers
  <2>9. LoopInv'
    BY <1>1, <1>2, <2>1, <2>6, <2>7, <2>8 DEF LoopInv, StackOK
  <2> QED BY <1>2, <1>4, <2>1, <2>9 DEF top
<1>5. CASE ~top.mid
  <2>1. top.at \in Code /\ Refill(top.at) /\ UNCHANGED loop
    BY <1>2, <1>5 DEF FrameOK, RTE
  <2>2. LoopInv' /\ doing' = top.at
    BY <1>1, <1>2, <1>3, <2>1, RefillKeeps DEF Registers
  <2> QED BY <1>2, <1>5, <2>2
<1> QED BY <1>4, <1>5

LEMMA LoopInit == Init => LoopInv
<1> SUFFICES ASSUME Init PROVE LoopInv
  OBVIOUS
<1>1. /\ looped \in Bodies /\ restores \in Builds /\ pipe = Ordinary(0) /\ t0 = 0
      /\ loop = [active |-> FALSE, ph |-> FALSE, ir |-> nowhere, m4 |-> FALSE]
      /\ doing = 0 /\ label = <<"plain", "start">> /\ upc = 1 /\ frames = <<>>
  BY DEF Init
<1>2. 0 \in Code
  BY ProgramRule
<1>3. Registers
  <2>1. \A a \in Int : word_at(a) \in Word
    BY Worded DEF Word
  <2>2. Ordinary(0) \in Pipe
    BY <2>1 DEF Ordinary, Pipe
  <2> QED BY <1>1, <2>2 DEF Registers, Word
<1>4. At(looped, 0, <<"plain", "start">>, 1, Ordinary(0), t0, FALSE, FALSE, loop.ir)
  BY <1>1, <1>2, Fresh
<1>5. Remembers(doing, label, upc, loop.m4)
  BY <1>1 DEF Remembers
<1>6. At(looped, doing, label, upc, pipe, t0, loop.active, loop.ph, loop.ir)
  <2>1. loop.active = FALSE /\ loop.ph = FALSE
    BY <1>1
  <2> QED BY <1>1, <1>4, <2>1
<1>7. frames \in Seq(Frame) /\ Len(frames) = 0
  BY <1>1
<1> QED BY <1>3, <1>5, <1>6, <1>7 DEF LoopInv

LEMMA LoopStepKeeps ==
  ASSUME LoopInv, [Next]_vars, PhaseKept \/ Builds = {TRUE}, TestKept
  PROVE  LoopInv'
<1>1. CASE Commit
  BY <1>1, AdvanceKeeps, InterruptKeeps DEF Commit
<1>2. CASE Ask \/ Request \/ UNCHANGED vars
  BY <1>2 DEF Ask, Request, vars, LoopInv, Registers, FrameOK
<1>3. CASE RTE
  BY <1>3, ReturnKeeps
<1>4. CASE Fault
  BY <1>4, FaultKeeps
<1> QED BY <1>1, <1>2, <1>3, <1>4 DEF Next, Clock

LEMMA LoopInvAlways ==
  ASSUME PhaseKept \/ Builds = {TRUE}, TestKept
  PROVE  Spec => []LoopInv
<1>1. Init => LoopInv
  BY LoopInit
<1>2. LoopInv /\ [Next]_vars => LoopInv'
  BY LoopStepKeeps
<1> QED BY <1>1, <1>2, PTL DEF Spec

\* Wherever an instruction begins, the pipe is that of an ordinary instruction
\* stream, unless it is the DBcc of a running loop: interrupts, faults and
\* returns find the words of the program where they look for them.
THEOREM BoundaryOrdinaryAlways ==
  ASSUME PhaseKept \/ Builds = {TRUE}, TestKept
  PROVE  Spec => []BoundaryOrdinary
<1>1. LoopInv => BoundaryOrdinary
  <2>1. SUFFICES ASSUME LoopInv, Begins, ~(loop.active /\ loop.ph) PROVE pipe = Ordinary(doing)
    BY DEF BoundaryOrdinary
  <2>2. At(looped, doing, label, upc, pipe, t0, loop.active, loop.ph, loop.ir)
    BY <2>1 DEF LoopInv
  <2>3. BodyAt(looped, doing, label, upc, pipe, loop.active, loop.ph, loop.ir) => pipe = Ordinary(doing)
    <3>1. looped \in Bodies => Len(Body(looped)) \in Nat
      BY BodyRule DEF OneFetch
    <3>2. ~Fetched(looped, 1)
      BY <2>1, <3>1 DEF Fetched, LoopInv, Registers
    <3> QED BY <2>1, <3>2 DEF BodyAt, Begins
  <2> QED BY <2>1, <2>2, <2>3 DEF At, DbccAt, LoopAt, BranchAt, ReturnAt, FallAt, TakeAt, Begins
<1> QED BY <1>1, LoopInvAlways, PTL

\* What loop mode repeats is a loop of the program: the word kept is the one
\* before the DBcc, whose displacement, not read again, leads back to it.
THEOREM LoopIsALoopAlways ==
  ASSUME PhaseKept \/ Builds = {TRUE}, TestKept
  PROVE  Spec => []LoopIsALoop
<1>1. LoopInv => LoopIsALoop
  <2>1. SUFFICES ASSUME LoopInv, loop.active
                 PROVE  /\ kind(pipe.irc) = "dbcc" /\ loop.ir = pipe.irc - 2
                        /\ displacement(word_at(pipe.irc + 2)) = -4
    BY DEF LoopIsALoop
  <2>2. At(looped, doing, label, upc, pipe, t0, loop.active, loop.ph, loop.ir) /\ doing \in Code
    BY <2>1 DEF LoopInv, At
  <2>3. doing \in Nat /\ word_at(doing) = doing
    BY <2>2, Places
  <2>4. CASE BodyAt(looped, doing, label, upc, pipe, loop.active, loop.ph, loop.ir)
    <3>1. Repeats(doing + 2) /\ loop.ir = doing
      BY <2>1, <2>4 DEF BodyAt
    <3>2. word_at(doing + 2) = doing + 2
      BY <2>2, <2>4, Ways, Places DEF BodyAt
    <3>3. pipe.irc = doing + 2
      BY <2>1, <2>4, <3>2 DEF BodyAt, Ordinary, Held
    <3> QED BY <2>3, <3>1, <3>2, <3>3 DEF Repeats
  <2>5. CASE LoopAt(doing, label, upc, pipe, loop.active, loop.ph, loop.ir)
    <3>1. Repeats(doing) /\ loop.ir = doing - 2 /\ pipe.irc = doing
      BY <2>1, <2>5 DEF LoopAt, Held
    <3> QED BY <2>3, <3>1 DEF Repeats
  <2> QED BY <2>1, <2>2, <2>4, <2>5 DEF At, DbccAt, BranchAt, ReturnAt
<1> QED BY <1>1, LoopInvAlways, PTL

-----------------------------------------------------------------------------
(***************************************************************************)
(* The bus unit.                                                           *)
(***************************************************************************)
\* The only word that starts a loop is followed by the word of its body.
LEMMA LoopStarted ==
  ASSUME LoopInv, kind(doing) # "rte", UNCHANGED looped, Advance, starts, NoneFetchesFirst
  PROVE  uw'.bus # "prog"
<1>1. uw.lp = "enter" /\ looped \in Repeatable /\ kind(pipe_nxt.ir) = "body"
  BY DEF starts, loop_op_ok
<1>2. At(looped, doing, label, upc, pipe, t0, loop.active, loop.ph, loop.ir)
  BY DEF LoopInv
<1>3. kind(doing) # "body"
  <2>1. SUFFICES ASSUME kind(doing) = "body" PROVE FALSE
    OBVIOUS
  <2>2. upc \in 1..Len(Body(looped)) /\ looped \in Bodies
    BY <1>2, <2>1 DEF At, BodyAt, DbccAt, LoopAt, BranchAt, ReturnAt, LoopInv, Registers
  <2>3. uw.lp = "none"
    BY <2>1, <2>2, BodyRule, CurrentWord DEF OneFetch
  <2> QED BY <1>1, <2>3
<1>4. kind(doing) # "bra"
  <2>1. SUFFICES ASSUME kind(doing) = "bra" PROVE FALSE
    OBVIOUS
  <2>2. label[2] \in {"start", "branch_refill"} /\ upc \in {1, 2}
    BY <1>2, <2>1 DEF At, BodyAt, DbccAt, LoopAt, BranchAt, ReturnAt
  <2>3. uw.lp = "none"
    BY <2>1, <2>2, CurrentWord, BranchWords, RefillWords DEF Does
  <2> QED BY <1>1, <2>3
<1>5. uw.seq = "decode"
  <2>1. kind(doing) = "dbcc"
    BY <1>2, <1>3, <1>4, Places DEF At
  <2>2. \/ DbccAt(doing, label, upc, pipe, t0, loop.active)
        \/ LoopAt(doing, label, upc, pipe, loop.active, loop.ph, loop.ir)
    BY <1>2, <2>1 DEF At, BodyAt, BranchAt, ReturnAt
  <2>3. CASE DbccAt(doing, label, upc, pipe, t0, loop.active)
    <3>1. uw = dbcc[label[2]][upc]
      BY <2>3, CurrentWord DEF DbccAt
    <3>2. \/ label[2] \in {"start", "count"} /\ upc = 1
          \/ label[2] = "fall" /\ upc \in {1, 2}
          \/ label[2] = "take" /\ upc \in {1, 2, 3, 4}
      BY <2>3 DEF DbccAt, FallAt, TakeAt
    <3> QED BY <1>1, <3>1, <3>2, DbccWords, FallWords, TakeWords DEF Does
  <2>4. CASE LoopAt(doing, label, upc, pipe, loop.active, loop.ph, loop.ir)
    <3>1. uw = RunningLoop[label[2]][upc]
      BY <2>4, CurrentWord DEF LoopAt
    <3>2. \/ label[2] \in {"start", "count", "again", "exit"} /\ upc = 1
          \/ label[2] = "fall" /\ upc \in {1, 2}
      BY <2>4 DEF LoopAt, FallAt
    <3> QED BY <1>1, <3>1, <3>2, LoopWords, FallWords DEF Does
  <2> QED BY <2>2, <2>3, <2>4
<1>6. Decode(pipe_nxt.ir)
  BY <1>5 DEF Advance
<1>7. doing' = pipe_nxt.ir /\ label' = <<"plain", "start">> /\ upc' = 1
  BY <1>1, <1>6 DEF Decode, dec_dbcc
<1>8. uw' = Routines[looped']["body"]["start"][1]
  <2>1. label'[1] = "plain" /\ label'[2] = "start"
    BY <1>7, Begun
  <2>2. kind(doing') = "body"
    BY <1>1, <1>7
  <2>3. uw' = Routines[looped'][kind(doing')][label'[2]][upc']
    BY <2>1 DEF uw
  <2> QED BY <1>7, <2>1, <2>2, <2>3
<1> QED BY <1>1, <1>8 DEF NoneFetchesFirst, Body

LEMMA CycleKept ==
  ASSUME LoopInv, CycleIsItsOwn, [Next]_vars, PhaseKept \/ Builds = {TRUE}, TestKept, NoneFetchesFirst
  PROVE  CycleIsItsOwn'
<1>1. Registers /\ loop.active \in BOOLEAN
  BY DEF LoopInv, Registers
<1>2. CASE kind(doing) # "rte" /\ UNCHANGED <<looped, restores>> /\ Advance
  <2>1. loop' = loop_nxt /\ cycle' = cycle_nxt(uw')
    BY <1>2 DEF Advance
  <2>2. cycle' = IF loop.active /\ uw.lp # "exit" /\ uw'.bus = "prog" THEN "none" ELSE uw'.bus
    BY <2>1 DEF cycle_nxt, Requested, n_loop_suppress, CycleIsItsOwn
  <2>3. SUFFICES ASSUME cycle' # "none", loop_nxt.active, uw'.bus = "prog" PROVE FALSE
    BY <2>1, <2>2 DEF CycleIsItsOwn, loop_suppress
  <2>4. CASE starts
    BY <1>2, <2>3, <2>4, LoopStarted
  <2>5. CASE ~starts
    BY <2>2, <2>3, <2>5 DEF loop_nxt
  <2> QED BY <2>4, <2>5
<1>3. ASSUME NEW a, Refill(a), ~loop'.active PROVE CycleIsItsOwn'
  BY <1>3 DEF Refill, CycleIsItsOwn, loop_suppress
<1>4. CASE Interrupt
  <2>1. ~loop'.active
    BY <1>1, <1>4, NextRegisters DEF Interrupt
  <2> QED BY <1>3, <1>4, <2>1 DEF Interrupt
<1>5. CASE Fault
  <2>1. ~loop'.active
    BY <1>1, <1>5 DEF Fault, Registers
  <2> QED BY <1>3, <1>5, <2>1 DEF Fault
<1>6. CASE RTE
  <2>1. ~loop.active
    BY <1>6 DEF LoopInv, RTE, At, BodyAt, DbccAt, LoopAt, BranchAt, ReturnAt
  <2>2. CASE cycle' = "none"
    BY <2>2 DEF CycleIsItsOwn
  <2>3. CASE Refill(Head(frames).at) /\ UNCHANGED loop
    BY <1>3, <2>1, <2>3
  <2> QED BY <1>6, <2>2, <2>3 DEF RTE
<1>7. CASE Ask
  BY <1>7 DEF Ask, CycleIsItsOwn, loop_suppress, retire, uw
<1>8. CASE Request \/ UNCHANGED vars
  BY <1>8 DEF Request, vars, CycleIsItsOwn, loop_suppress, uw
<1> QED BY <1>2, <1>4, <1>5, <1>6, <1>7, <1>8 DEF Next, Clock, Commit

\* The bus unit runs the cycle of the word that waits for it and of no other,
\* and nothing is fetched while a loop runs, unless a looped instruction begins
\* with its fetch: that is the request run v_loop_clear finds with CLR.
THEOREM CycleIsItsOwnAlways ==
  ASSUME PhaseKept \/ Builds = {TRUE}, TestKept, NoneFetchesFirst
  PROVE  Spec => []CycleIsItsOwn
<1>1. Init => CycleIsItsOwn
  BY DEF Init, CycleIsItsOwn, loop_suppress
<1>2. LoopInv /\ CycleIsItsOwn /\ [Next]_vars => CycleIsItsOwn'
  BY CycleKept
<1> QED BY <1>1, <1>2, LoopInvAlways, PTL DEF Spec

-----------------------------------------------------------------------------
(***************************************************************************)
(* The program's execution.                                                *)
(***************************************************************************)
\* A frame as the program sees it, and the stack of them.
Seen(f) == [mid |-> f.mid, at |-> IF f.mid THEN f.doing ELSE f.at]
Stack   == [k \in 1..Len(frames) |-> [mid |-> frames[k].mid,
                                      at |-> IF frames[k].mid THEN frames[k].doing ELSE frames[k].at]]
SeenFrame == [mid : BOOLEAN, at : Int]

LEMMA SameSequence ==
  ASSUME NEW S, NEW s \in Seq(S), NEW t \in Seq(S), Len(s) = Len(t),
         \A k \in 1..Len(s) : s[k] = t[k]
  PROVE  s = t
OBVIOUS

LEMMA Stacked ==
  ASSUME StackOK
  PROVE  /\ Stack \in Seq(SeenFrame) /\ Len(Stack) = Len(frames) /\ Len(frames) \in Nat
         /\ \A k \in 1..Len(frames) : Stack[k] = Seen(frames[k])
<1>1. Len(frames) \in Nat /\ \A k \in 1..Len(frames) : frames[k] \in Frame
  BY DEF StackOK
<1>2. \A f \in Frame : Seen(f) \in SeenFrame
  BY DEF Frame, Seen, SeenFrame
<1>3. Stack = [k \in 1..Len(frames) |-> Seen(frames[k])]
  BY DEF Stack, Seen
<1>4. \A k \in 1..Len(frames) : Seen(frames[k]) \in SeenFrame
  BY <1>1, <1>2
<1> HIDE DEF Seen, SeenFrame
<1> QED BY <1>1, <1>3, <1>4

LEMMA StackedNext ==
  ASSUME StackOK'
  PROVE  /\ Stack' \in Seq(SeenFrame) /\ Len(Stack') = Len(frames') /\ Len(frames') \in Nat
         /\ \A k \in 1..Len(frames') : Stack'[k] = Seen(frames'[k])
<1>1. Len(frames') \in Nat /\ \A k \in 1..Len(frames') : frames'[k] \in Frame
  BY DEF StackOK
<1>2. \A f \in Frame : Seen(f) \in SeenFrame
  BY DEF Frame, Seen, SeenFrame
<1>3. Stack' = [k \in 1..Len(frames') |-> Seen(frames'[k])]
  BY DEF Stack, Seen
<1>4. \A k \in 1..Len(frames') : Seen(frames'[k]) \in SeenFrame
  BY <1>1, <1>2
<1> HIDE DEF Seen, SeenFrame
<1> QED BY <1>1, <1>3, <1>4

LEMMA StackPushed ==
  ASSUME StackOK, StackOK', NEW x \in Frame, frames' = <<x>> \o frames
  PROVE  Stack' = <<Seen(x)>> \o Stack
<1> DEFINE p == <<Seen(x)>> \o Stack
<1>1. Seen(x) \in SeenFrame
  BY DEF Frame, Seen, SeenFrame
<1>2. /\ p \in Seq(SeenFrame) /\ Len(p) = Len(frames) + 1
      /\ \A k \in 1..Len(frames) + 1 : p[k] = IF k = 1 THEN Seen(x) ELSE Stack[k - 1]
  <2> HIDE DEF Seen, Stack
  <2> QED BY <1>1, Stacked, Pushed
<1>3. /\ Len(frames') = Len(frames) + 1
      /\ \A k \in 1..Len(frames) + 1 : frames'[k] = IF k = 1 THEN x ELSE frames[k - 1]
  BY Pushed DEF StackOK
<1>4. ASSUME NEW k \in 1..Len(frames) + 1 PROVE Stack'[k] = p[k]
  <2>1. Stack'[k] = Seen(frames'[k])
    BY <1>3, StackedNext
  <2>2. CASE k = 1
    BY <1>2, <1>3, <2>1, <2>2
  <2>3. CASE k # 1
    <3>1. k - 1 \in 1..Len(frames)
      BY <2>3, Stacked
    <3>2. p[k] = Stack[k - 1] /\ frames'[k] = frames[k - 1]
      BY <1>2, <1>3, <2>3
    <3>3. Stack[k - 1] = Seen(frames[k - 1])
      BY <3>1, Stacked
    <3> QED BY <2>1, <3>2, <3>3
  <2> QED BY <2>2, <2>3
<1> HIDE DEF p
<1>5. Stack' = p
  BY <1>2, <1>3, <1>4, StackedNext, SameSequence
<1> QED BY <1>5 DEF p

LEMMA StackPopped ==
  ASSUME StackOK, StackOK', frames # <<>>, frames' = Tail(frames)
  PROVE  Stack # <<>> /\ Stack' = Tail(Stack) /\ Head(Stack) = Seen(Head(frames))
<1>1. /\ Len(frames') = Len(frames) - 1 /\ Len(frames) > 0 /\ Head(frames) = frames[1]
      /\ \A k \in 1..Len(frames) - 1 : frames'[k] = frames[k + 1]
  BY Popped DEF StackOK
<1>2. Stack # <<>>
  BY <1>1, Stacked
<1>3. /\ Tail(Stack) \in Seq(SeenFrame) /\ Len(Tail(Stack)) = Len(frames) - 1 /\ Head(Stack) = Stack[1]
      /\ \A k \in 1..Len(frames) - 1 : Tail(Stack)[k] = Stack[k + 1]
  <2> HIDE DEF Stack
  <2> QED BY <1>2, Stacked, Popped
<1>4. ASSUME NEW k \in 1..Len(frames) - 1 PROVE Stack'[k] = Tail(Stack)[k]
  <2>1. Stack'[k] = Seen(frames'[k])
    BY <1>1, StackedNext
  <2>2. k + 1 \in 1..Len(frames)
    BY Stacked
  <2>3. Stack[k + 1] = Seen(frames[k + 1])
    BY <2>2, Stacked
  <2> QED BY <1>1, <1>3, <2>1, <2>3
<1>5. Stack' = Tail(Stack)
  <2> HIDE DEF Stack
  <2> QED BY <1>1, <1>3, <1>4, StackedNext, SameSequence
<1>6. Head(Stack) = Seen(Head(frames))
  <2>1. 1 \in 1..Len(frames)
    BY <1>1, Stacked
  <2> QED BY <1>1, <1>3, <2>1, Stacked
<1> QED BY <1>2, <1>5, <1>6

LEMMA ExecutionInit == Init => Programs!Init
<1> SUFFICES ASSUME Init PROVE Programs!Init
  OBVIOUS
<1>1. doing = 0 /\ frames = <<>> /\ Len(frames) = 0
  BY DEF Init
<1>2. Stack = <<>>
  BY <1>1 DEF Stack
<1> QED BY <1>1, <1>2 DEF Programs!Init, Stack

\* A commit that decodes is the program's next instruction, and any other is
\* none of its business; a fault and an interrupt push what RTE pops.
LEMMA ExecutionStep ==
  ASSUME LoopInv, LoopInv', [Next]_vars, PhaseKept \/ Builds = {TRUE}, TestKept
  PROVE  [Programs!Next]_(Programs!vars)
<1>1. StackOK /\ StackOK' /\ doing \in Code
  BY DEF LoopInv, StackOK, At
<1>2. CASE UNCHANGED <<doing, frames>>
  BY <1>2 DEF Programs!vars
<1>3. CASE kind(doing) # "rte" /\ UNCHANGED <<looped, restores>> /\ Advance
  <2>1. UNCHANGED frames
    BY <1>3 DEF Advance
  <2>2. CASE uw.seq # "decode"
    <3>1. UNCHANGED doing
      BY <1>3, <2>2 DEF Advance, Goto
    <3> QED BY <1>2, <2>1, <3>1
  <2>3. CASE uw.seq = "decode"
    <3>1. PICK a \in Programs!Successors(doing) : AtOrdinary(a) \/ AtHeld(a)
      BY <1>3, <2>3, Advances DEF Onward, Arrives
    <3>2. pipe_nxt.ir = a
      BY <1>1, <3>1, Decoded, Ways
    <3>3. doing' = a
      BY <1>3, <2>3, <3>2 DEF Advance, Decode
    <3>4. Programs!Continue
      BY <2>1, <3>1, <3>3 DEF Programs!Continue
    <3> QED BY <3>4 DEF Programs!Next
  <2> QED BY <2>2, <2>3
<1>4. CASE kind(doing) # "rte" /\ UNCHANGED <<looped, restores>> /\ Interrupt
  <2> DEFINE f == [mid |-> FALSE, at |-> pipe_nxt.ir_pc]
  <2>1. pipe_nxt.ir_pc \in Programs!Successors(doing) /\ doing' = Handler.interrupt
    BY <1>4, InterruptKeeps
  <2>2. f \in Frame
    <3>1. pipe_nxt.ir_pc \in Int
      BY <1>1, <2>1, Ways, Places
    <3> QED BY <3>1 DEF Frame
  <2>3. frames' = <<f>> \o frames
    BY <1>4 DEF Interrupt
  <2>4. Stack' = <<Seen(f)>> \o Stack
    <3> HIDE DEF f
    <3> QED BY <1>1, <2>2, <2>3, StackPushed
  <2>5. Seen(f) = [at |-> pipe_nxt.ir_pc, mid |-> FALSE]
    BY DEF Seen
  <2>6. Stack' = <<[at |-> pipe_nxt.ir_pc, mid |-> FALSE]>> \o Stack
    BY <2>4, <2>5
  <2>7. Programs!Interrupt
    BY <2>1, <2>6 DEF Programs!Interrupt, Stack
  <2> QED BY <2>7 DEF Programs!Next
<1>5. CASE Fault
  <2> DEFINE f == [mid |-> TRUE, doing |-> doing, label |-> label, upc |-> upc, pipe |-> pipe,
                   t0 |-> t0, loop_ir |-> loop.ir,
                   loop_saved |-> [active |-> loop.active, ph |-> loop.ph]]
  <2>1. frames' = <<f>> \o frames
    BY <1>5 DEF Fault
  <2>2. f \in Frame
    BY <1>1, <2>1, Pushed DEF StackOK
  <2>3. Stack' = <<Seen(f)>> \o Stack
    <3> HIDE DEF f
    <3> QED BY <1>1, <2>1, <2>2, StackPushed
  <2>4. Seen(f) = [at |-> doing, mid |-> TRUE]
    BY DEF Seen
  <2>5. doing' = Handler.error
    BY <1>5, FaultKeeps
  <2>6. Stack' = <<[at |-> doing, mid |-> TRUE]>> \o Stack
    BY <2>3, <2>4
  <2>7. Programs!Suspend
    BY <2>5, <2>6 DEF Programs!Suspend, Stack
  <2> QED BY <2>7 DEF Programs!Next
<1>6. CASE RTE
  <2>1. frames # <<>> /\ frames' = Tail(frames) /\ kind(doing) = "rte"
    BY <1>6 DEF RTE
  <2>2. Stack # <<>> /\ Stack' = Tail(Stack) /\ Head(Stack) = Seen(Head(frames))
    BY <1>1, <2>1, StackPopped
  <2>3. doing' = Head(Stack).at
    BY <1>6, <2>2, ReturnKeeps DEF Seen
  <2>4. Program[doing].op = "rte"
    BY <1>1, <2>1, Places
  <2>5. Programs!Return
    BY <2>2, <2>3, <2>4 DEF Programs!Return, Stack
  <2> QED BY <2>5 DEF Programs!Next
<1> QED BY <1>2, <1>3, <1>4, <1>5, <1>6 DEF Next, Clock, Commit, Ask, Request, vars

\* The processor executes the program as an ordinary one would: the same
\* instructions in the same order, whatever interrupts, faults or returns
\* suspend a loop or end it.
THEOREM LoopImplementsExecution ==
  ASSUME PhaseKept \/ Builds = {TRUE}, TestKept
  PROVE  Spec => ExecutionSpec
<1>1. LoopInv /\ LoopInv' /\ [Next]_vars => [Programs!Next]_(Programs!vars)
  BY ExecutionStep
<1> QED BY <1>1, ExecutionInit, LoopInvAlways, PTL DEF Spec, ExecutionSpec, Programs!Spec
=============================================================================
