------------------------------ MODULE MCCheckpoint ------------------------------
(***************************************************************************)
(* The microprogram with its annotation, for TLC: the registers live at    *)
(* every word, the words of the fault sequence and of RTE, and the words   *)
(* that have the trace bit their instruction began with.                   *)
(***************************************************************************)
EXTENDS Tracing, MCSequencer

\* The registers a routine leaves for where it goes; for most, the pipe.
Leaves(l) ==
  CASE l \in {"trap", "trace", "illegal_exc", "priv_violation", "rte_format_error"}
                                   -> {"t0", "t1", "dbuf"}
    [] l \in {"except", "interrupt", "spurious"} -> {"t0", "t1", "dbuf", "sr_save"}
    [] l = "rte_body"              -> {"t0", "t1", "ir", "irc"}
    [] l \in {"rte_try_long", "rte_long"} -> {"ir", "irc"}
    [] l \in {"movem", "movem_loop"}      -> {"t0", "xw"} \cup pipe
    [] l = "movem_end"             -> {"t0"} \cup pipe
    [] l \in {"halted", "rte_reload"}     -> {}
    [] OTHER                       -> pipe

\* A register is live at a word if, from there on, the routine reads it or leaves
\* it to the next one, without writing it first.
LivePairs ==
  {p \in Addresses \X AllRegs :
     LET code == Routines[p[1][1]]
         i    == p[1][2]
         Untouched(j) == \A k \in i .. j - 1 : p[2] \notin code[k].writes
     IN \/ \E j \in i .. Len(code) : p[2] \in code[j].reads /\ Untouched(j)
        \/ p[2] \in Leaves(p[1][1]) /\ Untouched(Len(code) + 1)}

LiveRegs    == [a \in Addresses |-> {r \in AllRegs : <<a, r>> \in LivePairs}]
FaultWords  == {<<"buserr", 1>>, <<"buserr", 2>>}
ReturnWords == {a \in Addresses : a[1] \in {"rte_long", "rte_reload"}}
GroupWords  == {a \in Addresses : \/ a[1] = "buserr"
                                  \/ a[1] = "rte_reload" /\ a # Entry("rte_reload")}

\* Trace: STOP is left out, and T is steady up to what a routine does to it.
NoStop      == {a \in Addresses : a[1] \notin {"stop", "stop_body"}}
SteadyWords == {a \in Addresses :
                  \/ a[1] \in {"nop", "move", "tas", "movem", "movem_end", "movem_loop",
                              "movem_tail", "mul", "div", "dbcc", "rte", "rte_body",
                              "rte_try_long", "rte_long"}
                  \/ a = Entry("rte_reload")}
SavingWords == {<<"buserr", 2>>, <<"rte_reload", 2>>, <<"rte_reload", 3>>}
=============================================================================
