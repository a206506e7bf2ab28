------------------------------- MODULE Execution -------------------------------
(***************************************************************************)
(* What a program expects of the processor: its instructions are executed  *)
(* one after another, each a successor of the last, and a handler that     *)
(* interrupts them comes back to where they were.  How the instructions    *)
(* reach the processor is left open.                                       *)
(***************************************************************************)
EXTENDS Integers, Sequences

CONSTANTS Program,    \* address |-> instruction or displacement found there
          Handler     \* "error" and "interrupt" |-> where they go

VARIABLES at,         \* the address of the instruction being executed
          stack       \* handlers' frames: where, and in the middle of it or not
vars == <<at, stack>>

\* The displacement of a branch counts from the word that holds it.
Target(a) == a + 2 + Program[a + 2].disp

Successors(a) ==
  CASE Program[a].op = "body" -> {a + 2}
    [] Program[a].op = "dbcc" -> {a + 4, Target(a)}
    [] Program[a].op = "bra"  -> {Target(a)}
    [] OTHER                  -> {}

Init == at = 0 /\ stack = <<>>

Continue == at' \in Successors(at) /\ UNCHANGED stack

\* In the middle of an instruction a bus error, after it an interrupt.
Suspend   == stack' = <<[at |-> at, mid |-> TRUE]>> \o stack /\ at' = Handler.error
Interrupt == /\ \E a \in Successors(at) : stack' = <<[at |-> a, mid |-> FALSE]>> \o stack
             /\ at' = Handler.interrupt

Return == /\ Program[at].op = "rte"
          /\ stack # <<>>
          /\ at' = Head(stack).at /\ stack' = Tail(stack)

Next == Continue \/ Suspend \/ Interrupt \/ Return

Spec == Init /\ [][Next]_vars
=============================================================================
