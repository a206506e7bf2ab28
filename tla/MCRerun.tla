--------------------------------- MODULE MCRerun ---------------------------------
(***************************************************************************)
(* The instruction set's annotations for TLC: how far the pipe is in order *)
(* at each word, and where an answer of the unit is on its way.            *)
(***************************************************************************)
EXTENDS Rerun, MCDatapath

\* What a routine finds when it is entered.
Found(l) == CASE l = "start" -> 2
              [] l \in DOMAIN Raised -> 0
              [] OTHER -> 1

Order == [i \in DOMAIN Micro |-> [l \in DOMAIN Micro[i] |->
            LET words == Micro[i][l]
                n[k \in DOMAIN words] == IF k = 1 THEN Found(l) ELSE Ordered(words[k - 1], n[k - 1])
            IN [k \in DOMAIN words |-> n[k]]]]

Answers == [i \in DOMAIN Micro |-> [l \in DOMAIN Micro[i] |->
              {k \in DOMAIN Micro[i][l] : "unit" \in Reads(Micro[i][l][k])
                                          \/ (i.op = "divu" /\ l \in {"wait", "finished"})}]]
=============================================================================
