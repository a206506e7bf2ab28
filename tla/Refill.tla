--------------------------------- MODULE Refill ---------------------------------
(***************************************************************************)
(* The rule microcode has to follow for the prefetch pipe to be whole at   *)
(* every boundary: the comments of ADVFETCH and branch_refill in           *)
(* tools/ucode/program.py leave it to each routine to fetch as many words  *)
(* as it used, and two after it has loaded pc.                             *)
(***************************************************************************)
EXTENDS Programmer

CONSTANT InOrder   \* words in order in the pipe at each word: none, irc, or ir as well

First(i, l) == <<i, l, 1>>
at(p)       == Micro[p[1]][p[2]][p[3]]
order(p)    == InOrder[p[1]][p[2]][p[3]]

IsPlace(p) == /\ p[1] \in DOMAIN Micro /\ p[2] \in DOMAIN Micro[p[1]]
              /\ p[3] \in DOMAIN Micro[p[1]][p[2]]

\* Where the word at p may be followed.
Follow(p) == CASE at(p).seq = "next" -> {<<p[1], p[2], p[3] + 1>>}
             [] at(p).seq = "goto" -> {First(p[1], at(p).to[1])}
             [] at(p).seq = "cond" -> {First(p[1], at(p).to[1]), First(p[1], at(p).to[2])}
             [] OTHER              -> {}

\* The words in order after word w, which found n of them so.
Ordered(w, n) == IF w.dst = "pc" THEN 0
                 ELSE CASE w.pf = "none"     -> n
                        [] w.pf = "advfetch" -> IF n = 0 THEN 1 ELSE 2
                        [] OTHER             -> 1

\* A prefetch takes the word at pc, and the last word leaves both in order.
RefillRule(p) ==
  /\ at(p).pf # "none" => at(p).bus # "none" /\ at(p).asel = "pc" /\ at(p).dst # "pc"
  /\ \A q \in Follow(p) : IsPlace(q) /\ order(q) <= Ordered(at(p), order(p))
  /\ at(p).seq = "decode" => Ordered(at(p), order(p)) = 2

ASSUME RefillAssumption ==
  \A i \in DOMAIN Micro :
    /\ "over" \notin DOMAIN Micro[i] /\ IsPlace(First(i, "start"))
    /\ \A l \in DOMAIN Micro[i] : \A k \in DOMAIN Micro[i][l] :
         order(<<i, l, k>>) \in 0..2 /\ RefillRule(<<i, l, k>>)
-----------------------------------------------------------------------------
here  == <<inst, label, upc>>
depth == IF Running THEN order(here) ELSE 2

\* The pipe holds what its addresses say, as far as it is in order.
OrderInv ==
  /\ dp.ir = Mem(dp.ir_pc) /\ dp.irc = Mem(dp.irc_pc)
  /\ depth >= 1 => dp.pc = Plus(dp.irc_pc, 2)
  /\ depth = 2  => dp.irc_pc = Plus(dp.ir_pc, 2)

\* Whatever an instruction fetched, jumped to or suffered, the next one begins with
\* two consecutive words in the pipe, each with its own address, and pc behind them.
PipeWhole == Over => /\ dp.ir = Mem(dp.ir_pc)   /\ dp.irc_pc = Plus(dp.ir_pc, 2)
                     /\ dp.irc = Mem(dp.irc_pc) /\ dp.pc = Plus(dp.irc_pc, 2)
=============================================================================
