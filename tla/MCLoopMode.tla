------------------------------- MODULE MCLoopMode -------------------------------
(***************************************************************************)
(* A program for TLC: a loop of two instructions, which is no loop mode's, *)
(* one that is, a branch back to the start, and a handler of bus errors    *)
(* with a loop of its own.                                                 *)
(***************************************************************************)
EXTENDS LoopMode, TLC

Handlers   == [error |-> 100, interrupt |-> 200]
word(o)    == [op |-> o, disp |-> 0]
by(n)      == [op |-> "disp", disp |-> n]

TwoLoops ==
  (0 :> word("body")) @@ (2 :> word("body")) @@ (4 :> word("dbcc")) @@ (6 :> by(-6))
    @@ (8 :> word("body")) @@ (10 :> word("dbcc")) @@ (12 :> by(-4))
    @@ (14 :> word("bra")) @@ (16 :> by(-16))
    @@ (100 :> word("body")) @@ (102 :> word("dbcc")) @@ (104 :> by(-4)) @@ (106 :> word("rte"))
    @@ (200 :> word("rte"))

\* The shortest instruction for each number of words after the prefetch, and
\* for each kind of word before it: none, one with a cycle, one without.
Words(i)  == Micro[i].start
Shape(i)  == LET n == CHOOSE k \in DOMAIN Words(i) : Words(i)[k].pf = "advfetch"
             IN <<Len(Words(i)) - n, n > 1 /\ Words(i)[n - 1].bus = "none", n > 1>>
Cleared   == {i \in loop_mode_table : i.op = "clr"}
Shortest(S) == CHOOSE i \in S : \A j \in S : Len(Words(i)) <= Len(Words(j))
OfEachShape == {Shortest({i \in loop_mode_table \ Cleared : Shape(i) = s})
                  : s \in {Shape(i) : i \in loop_mode_table \ Cleared}}
Repeated  == OfEachShape \cup plain({"nop"})

\* All that may be looped obeys the rule of the bodies, and but for CLR fetches late.
ASSUME EveryBody ==
  \A i \in loop_mode_table : /\ OneFetch(ControlStore[i].start)
                             /\ i \notin Cleared => Words(i)[1].bus # "prog"
=============================================================================
