----------------------------- MODULE BusInterface -----------------------------
(***************************************************************************)
(* The bus interface unit, src/rtl/rd68011_biu.sv: the bus cycle state     *)
(* machine, its termination (DTACK, BERR, HALT, VPA), retry and halt, the  *)
(* arbitration unit, the M6800 synchronisation and the pin registers.      *)
(*                                                                         *)
(* Time is the clock: Rising and Falling alternate, and the environment    *)
(* (the alternate master, whoever drives HALT and RESET) moves its pins    *)
(* between any two edges.  A cycle is described by its kind and by an id   *)
(* that stands for everything else the request carries: function code,     *)
(* address, strobes and write data.  Pins are written asserted-high.       *)
(***************************************************************************)
EXTENDS Integers, FiniteSets

CONSTANTS
  Kinds,         \* request kinds the sequencer issues, of the five in BusKinds
  Ids,           \* request payloads: function code, address, strobes, data
  Answers,       \* what a slave may show at a falling edge, of SlaveAnswers
  FreePins,      \* the asynchronous pins the environment moves, of Pins
  ERuns,         \* FALSE freezes E, for runs in which no slave answers VPA
  RmwKept,       \* no bus error in the read half of a read-modify-write
  AddrHiZ        \* ADDR_HIZ_BETWEEN_CYCLES

BusKinds     == {"READ", "WRITE", "RMW", "IACK", "BKPT"}
SlaveAnswers == {"none", "dtack", "berr", "dtack_berr", "vpa"}
Pins         == {"br", "bgack", "halt", "reset"}

ASSUME ConstantsAssumption ==
  /\ Kinds \subseteq BusKinds
  /\ Answers \subseteq SlaveAnswers
  /\ FreePins \subseteq Pins
  /\ ERuns \in BOOLEAN /\ RmwKept \in BOOLEAN
  /\ AddrHiZ \in BOOLEAN

E_PERIOD_CLKS == 10
E_LOW_CLKS    == 6

NoId    == "no id"
Request == [kind : Kinds, id : Ids]
NoReq   == [kind |-> "none", id |-> NoId]

VARIABLES
  clk,      \* "low" or "high": the level of the clock pin
  st_p,     \* bus state entered on the last rising edge
  st_n,     \* bus state entered on the last falling edge
  cyc,      \* the latched request (cyc_kind, cyc_fc, cyc_addr, ...)
  req,      \* the sequencer's side: the request it presents, or NoReq
  req_ack,  \* one-clock acknowledge to the sequencer
  term,     \* the per-cycle flags that are set: berr late halt retry vpa vma
  end_code, \* how the attempt in progress ended
  q,        \* dual-edge and falling-edge pin flops that are set
  ctl_oe,   \* as_oe = rw_oe = ds_oe = fc_oe = vma_oe
  a_hold,   \* a_oe_hold
  rw_o,     \* R/W pin: "r" or "w"
  a_o,      \* id whose address is on the address register
  d_o,      \* id whose data is in the output data register
  rdata,    \* req_rdata: id whose location the latched word came from
  arb_st,   \* arbitration state
  pin,      \* asynchronous input pins asserted now
  meta,     \* first synchroniser rank
  sync,     \* second synchroniser rank, what the logic reads
  e_cnt,    \* E clock divider
  ans       \* what the slave showed at the last falling edge

fsm    == <<clk, st_p, st_n>>
seqif  == <<cyc, req, req_ack>>
bookk  == <<term, end_code, rdata>>
pads   == <<q, ctl_oe, a_hold, rw_o, a_o, d_o>>
inputs == <<pin, meta, sync, e_cnt, ans>>
vars   == <<fsm, seqif, bookk, pads, arb_st, inputs>>

(***************************************************************************)
(* The bus states.  Even states are entered on rising edges, odd ones on   *)
(* falling edges; the resting states are in both registers.                *)
(***************************************************************************)
RestStates == {"IDLE", "HALT", "ARB", "RETRY"}
EvenStates == {"S0", "S2", "S4", "WH", "S6", "BE8", "M8", "M10", "S12", "S14",
               "S16", "WH2", "S18", "BE20"}
OddStates  == {"S1", "S3", "WL", "S5", "S7", "BE9", "M9", "M11", "S13", "S15",
               "WL2", "S17", "S19", "BE21"}
EndCodes   == {"NONE", "DTACK", "BERR", "RERUN", "VPA", "AVEC"}
Flags      == {"berr", "late", "halt", "retry", "vpa", "vma"}
Flops      == {"as", "ds", "doe", "aoe", "vma"}
ArbStates  == {"IDLE", "GRANT", "ACK", "RESUME"}

cyc_is_write == cyc.kind = "WRITE"
cyc_is_rmw   == cyc.kind = "RMW"
cyc_is_iack  == cyc.kind = "IACK"

DtackIn(a) == a \in {"dtack", "dtack_berr"}
BerrIn(a)  == a \in {"berr", "dtack_berr"}
VpaIn(a)   == a = "vpa"

-----------------------------------------------------------------------------
(***************************************************************************)
(* Arbitration.                                                            *)
(***************************************************************************)
\* Mutant: a freeze that also covers a waiting retry.
RetryFreeze == st_p \in {"S0", "RETRY"} \/ st_n = "S1"

\* No change of arbitration state while the bus is in S0 or S1.
arb_freeze == st_p = "S0" \/ st_n = "S1"

arb_st_nxt ==
  CASE arb_freeze                                       -> arb_st
    [] ~arb_freeze /\ arb_st = "IDLE"
         -> IF "br" \in sync THEN "GRANT" ELSE "IDLE"
    [] ~arb_freeze /\ arb_st = "GRANT"
         -> IF "bgack" \in sync THEN "ACK"
            ELSE IF "br" \in sync THEN "GRANT" ELSE "RESUME"
    [] ~arb_freeze /\ arb_st = "ACK"
         -> IF "bgack" \in sync THEN "ACK" ELSE "RESUME"
    [] ~arb_freeze /\ arb_st = "RESUME"                 -> "IDLE"

\* Mutant: forgets that BG goes away once BGACK is in.
ReleasedByGrantOnly == arb_st_nxt = "GRANT" /\ "as" \notin q

\* After the coming rising edge the buses are the alternate master's.
arb_bus_released_nxt ==
  \/ arb_st_nxt = "GRANT" /\ "as" \notin q
  \/ arb_st_nxt = "ACK"

arb_hold == arb_st # "IDLE"

bg == arb_st = "GRANT"

(***************************************************************************)
(* The end of a cycle as the sequencer sees it: req_last, req_fault,       *)
(* req_fault_wr.                                                           *)
(***************************************************************************)
req_last ==
  /\ "retry" \notin term
  /\ \/ st_n = "S7" /\ "berr" \notin term /\ ~cyc_is_rmw
     \/ st_n = "S19" /\ "berr" \notin term
     \/ st_n \in {"BE9", "BE21"}

req_fault    == "berr" \in term \/ "late" \in term
req_fault_wr == cyc_is_write \/ (cyc_is_rmw /\ st_n = "BE21")

(***************************************************************************)
(* The request on the wires at the coming rising edge.  The sequencer      *)
(* holds a request until req_last and, on that edge, already presents the  *)
(* next one (or none), so cycles may follow each other back to back.  It   *)
(* presents nothing while it sees RESET asserted.                          *)
(***************************************************************************)
Presented ==
  IF req # NoReq /\ ~req_last THEN {req} ELSE Request \cup {NoReq}

Visible(r) == r # NoReq /\ "reset" \notin sync

\* Mutant: asks whether the bus is released already, not whether it will be.
AfterCycleOfNow(r) ==
  CASE "retry" \in term                              -> "RETRY"
    [] "retry" \notin term /\ "halt" \in term        -> "HALT"
    [] /\ term \cap {"retry", "halt"} = {}
       /\ arb_st = "ACK" \/ (arb_st = "GRANT" /\ "as" \notin q) -> "ARB"
    [] OTHER -> IF Visible(r) /\ ~arb_hold THEN "S0" ELSE "IDLE"

after_cycle(r) ==
  CASE "retry" \in term                              -> "RETRY"
    [] "retry" \notin term /\ "halt" \in term        -> "HALT"
    [] term \cap {"retry", "halt"} = {} /\ arb_bus_released_nxt
                                                     -> "ARB"
    [] OTHER -> IF Visible(r) /\ ~arb_hold THEN "S0" ELSE "IDLE"

\* Mutant: wait for a flag only S0 clears.
RerunNever   == IF "halt" \in sync \/ "retry" \in term THEN "RETRY" ELSE "S0"

\* Out of RETRY: wait for HALT, then for the bus, then rerun.
rerun_nxt == IF "halt" \in sync THEN "RETRY"
             ELSE IF arb_bus_released_nxt THEN "ARB" ELSE "S0"

\* The state the coming rising edge enters.
st_p_nxt(r) ==
  CASE st_n = "IDLE"  -> IF arb_bus_released_nxt THEN "ARB"
                         ELSE IF "halt" \in sync THEN "HALT"
                         ELSE IF Visible(r) /\ ~arb_hold THEN "S0" ELSE "IDLE"
    [] st_n = "S1"    -> "S2"
    [] st_n = "S3"    -> "S4"
    [] st_n = "WL"    -> "WH"
    [] st_n = "S5"    -> "S6"
    [] st_n = "S7"    -> IF "berr" \in term THEN "BE8"
                         ELSE IF cyc_is_rmw /\ "retry" \notin term THEN "M8"
                         ELSE after_cycle(r)
    [] st_n = "M9"    -> "M10"
    [] st_n = "M11"   -> "S12"
    [] st_n = "S13"   -> "S14"
    [] st_n = "S15"   -> "S16"
    [] st_n = "WL2"   -> "WH2"
    [] st_n = "S17"   -> "S18"
    [] st_n = "S19"   -> IF "berr" \in term THEN "BE20" ELSE after_cycle(r)
    [] st_n \in {"BE9", "BE21"} -> after_cycle(r)
    [] st_n \in {"HALT", "ARB"} ->
                         IF arb_bus_released_nxt THEN "ARB"
                         ELSE IF "halt" \in sync THEN "HALT" ELSE "IDLE"
    [] st_n = "RETRY" -> rerun_nxt

\* A cycle begins from a fresh request, as opposed to a retry rerunning.
start_new(r) == st_p_nxt(r) = "S0" /\ st_n # "RETRY"

(***************************************************************************)
(* Termination, sampled on falling edges (UM table 5-1).                   *)
(***************************************************************************)
\* Mutant: a read-modify-write may be retried too.
RetryOfAnything(a) == BerrIn(a) /\ "halt" \in pin

samp_edge     == st_p \in {"S4", "WH", "S16", "WH2"}
samp_retry(a) == BerrIn(a) /\ "halt" \in pin /\ ~cyc_is_rmw
samp_berr(a)  == BerrIn(a) /\ ~samp_retry(a)
samp_vpa(a)   == VpaIn(a)

\* Mutant: E falls one count late.
LastHighLate == e_cnt = 9

e_cnt_nxt    == (e_cnt + 1) % E_PERIOD_CLKS
e_o          == e_cnt >= E_LOW_CLKS
e_vma_window == e_cnt <= 2
e_last_high  == e_cnt = 8

\* Mutant: VMA only while the peripheral still shows VPA at the right moment.
VmaNeedsVpaNow(a) ==
  samp_edge /\ samp_vpa(a) /\ "vpa" \notin term /\ ~e_o /\ e_vma_window /\ ~cyc_is_iack

vma_set(a) ==
  /\ samp_edge
  /\ "vpa" \in term \/ samp_vpa(a)
  /\ "vma" \notin term
  /\ ~e_o
  /\ e_vma_window
  /\ ~cyc_is_iack

\* Mutant: the E edge ends the cycle before VMA was asserted.
DoneWithoutVma(a) ==
  DtackIn(a) \/ BerrIn(a) \/ (samp_vpa(a) /\ cyc_is_iack) \/ ("vpa" \in term /\ e_last_high)

samp_done(a) ==
  \/ DtackIn(a)
  \/ samp_berr(a)
  \/ samp_retry(a)
  \/ samp_vpa(a) /\ cyc_is_iack
  \/ {"vpa", "vma"} \subseteq term /\ e_last_high

\* The state the coming falling edge enters.
st_n_nxt(a) ==
  CASE st_p \in RestStates      -> st_p
    [] st_p = "S0"              -> "S1"
    [] st_p = "S2"              -> "S3"
    [] st_p \in {"S4", "WH"}    -> IF samp_done(a) THEN "S5" ELSE "WL"
    [] st_p = "S6"              -> "S7"
    [] st_p = "BE8"             -> "BE9"
    [] st_p = "M8"              -> "M9"
    [] st_p = "M10"             -> "M11"
    [] st_p = "S12"             -> "S13"
    [] st_p = "S14"             -> "S15"
    [] st_p \in {"S16", "WH2"}  -> IF samp_done(a) THEN "S17" ELSE "WL2"
    [] st_p = "S18"             -> "S19"
    [] st_p = "BE20"            -> "BE21"

\* BERR one clock after DTACK was recognised: the MC68010's late bus error.
LateWindow(a) == st_p = "S6" /\ BerrIn(a) /\ end_code = "DTACK"
LateRetry     == "halt" \in pin /\ ~cyc_is_rmw

\* Mutant: HALT taken from the synchroniser, two clocks old, not from the pin.
HaltOfSync == sync \cap {"halt"}

\* DTACK with HALT: terminate normally, then halt.
term_halt  == pin \cap {"halt"}

\* Mutant: a late bus error is recorded in the end code alone.
LateOnlyInEndCode == IF LateRetry THEN {"retry"} ELSE {}

late_flag  == IF LateRetry THEN {"retry"} ELSE {"late"}

term_nxt(a) ==
  CASE st_p = "S0" -> {}
    [] samp_edge   ->
         (IF samp_retry(a)     THEN term \cup {"retry"}
          ELSE IF samp_berr(a) THEN term \cup {"berr"}
          ELSE IF DtackIn(a)   THEN (term \ {"halt"}) \cup term_halt
          ELSE IF samp_vpa(a)  THEN term \cup {"vpa"}
          ELSE term) \cup (IF vma_set(a) THEN {"vma"} ELSE {})
    [] LateWindow(a) -> term \cup late_flag
    [] OTHER         -> term

end_code_nxt(a) ==
  CASE st_p = "S0" -> "NONE"
    [] samp_edge   -> IF samp_retry(a)     THEN "RERUN"
                      ELSE IF samp_berr(a) THEN "BERR"
                      ELSE IF DtackIn(a)   THEN "DTACK"
                      ELSE IF samp_vpa(a)
                           THEN (IF cyc_is_iack THEN "AVEC" ELSE "VPA")
                      ELSE end_code
    [] LateWindow(a) -> IF LateRetry THEN "RERUN" ELSE "BERR"
    [] OTHER         -> end_code

-----------------------------------------------------------------------------
(***************************************************************************)
(* The pins.  A register output reaches its pin only while enabled.        *)
(***************************************************************************)
\* Mutants: AS forgotten after a retry; AS negated between the two halves of a
\* read-modify-write; no data for the write half.
AsKeptByRetry(a)  == /\ st_n_nxt(a) \in {"S7", "S19"}
                     /\ ~(cyc_is_rmw /\ st_n_nxt(a) = "S7") /\ "retry" \notin term
AsPerHalf(a)      == st_n_nxt(a) \in {"S7", "S19"}
DataOfWriteOnly(a) == st_n_nxt(a) = "S3" /\ cyc_is_write

as_set(r) == st_p_nxt(r) = "S2"
as_clr(a) == (st_n_nxt(a) = "S7" /\ ~cyc_is_rmw) \/ st_n_nxt(a) = "S19"

ds_set(r) == \/ st_p_nxt(r) = "S2" /\ ~cyc_is_write
             \/ st_p_nxt(r) = "S4" /\ cyc_is_write
             \/ st_p_nxt(r) = "S16"
ds_clr(a) == st_n_nxt(a) \in {"S7", "S19"}

doe_set(a) == (st_n_nxt(a) = "S3" /\ cyc_is_write) \/ st_n_nxt(a) = "S15"
doe_clr    == st_n \in {"S7", "S19", "BE9", "BE21"}

aoe_set(a) == st_n_nxt(a) = "S1"
aoe_clr(r) == \/ st_n = "S7" /\ st_p_nxt(r) # "M8"
              \/ st_n \in {"S19", "BE9", "BE21"}

When(b, flop) == IF b THEN {flop} ELSE {}

AsDriven == "as" \in q /\ ctl_oe
DsDriven == "ds" \in q /\ ctl_oe
a_oe     == a_hold /\ ("aoe" \in q \/ ~AddrHiZ)
d_oe     == "doe" \in q /\ "reset" \notin sync /\ ~arb_bus_released_nxt

\* What a slave puts on the data bus: its word, if it is being addressed.
Addressed == IF AsDriven /\ DsDriven /\ a_oe THEN a_o ELSE NoId

-----------------------------------------------------------------------------
Init ==
  /\ clk = "low" /\ st_p = "IDLE" /\ st_n = "IDLE"
  /\ cyc = NoReq /\ req = NoReq /\ req_ack = FALSE
  /\ term = {} /\ end_code = "NONE" /\ rdata = NoId
  /\ q = {} /\ ctl_oe = FALSE /\ a_hold = FALSE
  /\ rw_o = "r" /\ a_o = NoId /\ d_o = NoId
  /\ arb_st = "IDLE"
  /\ pin = {} /\ meta = {} /\ sync = {}
  /\ e_cnt = 0
  /\ ans = "none"

(***************************************************************************)
(* A rising edge, with the sequencer presenting r.                         *)
(***************************************************************************)
Rising(r) ==
  /\ clk = "low"
  /\ r \in Presented
  /\ clk' = "high"
  /\ st_p' = st_p_nxt(r)
  /\ req' = r
  /\ cyc' = IF start_new(r) THEN r ELSE cyc
  /\ req_ack' = req_last
  /\ arb_st' = arb_st_nxt
  /\ rw_o' = CASE st_p_nxt(r) \in RestStates \cup {"S0"} -> "r"
               [] st_p_nxt(r) = "S2" /\ cyc_is_write     -> "w"
               [] st_p_nxt(r) = "S14"                    -> "w"
               [] OTHER                                  -> rw_o
  /\ q' = (q \cup When(as_set(r), "as") \cup When(ds_set(r), "ds"))
            \ (When(doe_clr, "doe") \cup When(aoe_clr(r), "aoe"))
  /\ ctl_oe' = ~arb_bus_released_nxt
  /\ a_hold' = /\ ~arb_bus_released_nxt
               /\ "reset" \notin sync
               /\ st_p \notin {"HALT", "RETRY"}
  /\ UNCHANGED <<st_n, bookk, a_o, d_o, inputs>>

(***************************************************************************)
(* A falling edge, with the slave showing a: termination is sampled, read  *)
(* data latched, the synchronisers and the E divider advance.              *)
(***************************************************************************)
ReadHalfFails(a) == cyc_is_rmw /\ st_p \in {"S4", "WH"} /\ BerrIn(a)

Falling(a) ==
  /\ clk = "high"
  /\ RmwKept => ~ReadHalfFails(a)
  /\ clk' = "low"
  /\ ans' = a
  /\ st_n' = st_n_nxt(a)
  /\ term' = term_nxt(a)
  /\ end_code' = end_code_nxt(a)
  /\ rdata' = IF st_p = "S6" THEN Addressed ELSE rdata
  /\ a_o' = IF aoe_set(a) THEN cyc.id ELSE a_o
  /\ d_o' = IF doe_set(a) THEN req.id ELSE d_o
  /\ q' = (q \cup When(aoe_set(a), "aoe") \cup When(doe_set(a), "doe")
             \cup When(vma_set(a), "vma"))
            \ (When(as_clr(a), "as") \cup When(ds_clr(a), "ds")
                 \cup When(st_n_nxt(a) = "S7", "vma"))
  /\ meta' = pin
  /\ sync' = meta
  /\ e_cnt' = IF ERuns THEN e_cnt_nxt ELSE e_cnt
  /\ UNCHANGED <<st_p, seqif, ctl_oe, a_hold, rw_o, arb_st, pin>>

(***************************************************************************)
(* The alternate master (external), three-wire or two-wire: it asks with   *)
(* BR, and once it has the grant and sees AS negated it either answers     *)
(* with BGACK or, two-wire, uses the bus until it negates BR.  It asks     *)
(* again only after BG has gone, keeps BR until granted and BGACK until BG *)
(* is negated, as figures 5-20 to 5-23 of the manual draw it.              *)
(***************************************************************************)
OnlyPins    == UNCHANGED <<fsm, seqif, bookk, pads, arb_st, meta, sync, e_cnt, ans>>
RaisePin(p) == pin' = pin \cup {p} /\ OnlyPins
LowerPin(p) == pin' = pin \ {p} /\ OnlyPins

MasterRequest ==
  "br" \in FreePins /\ "br" \notin pin /\ ~bg /\ RaisePin("br")

MasterAcknowledge ==
  /\ "bgack" \in FreePins /\ "bgack" \notin pin
  /\ "br" \in pin /\ bg /\ ~AsDriven
  /\ RaisePin("bgack")

MasterDropRequest ==
  "br" \in pin /\ ("bgack" \in pin \/ (bg /\ ~AsDriven)) /\ LowerPin("br")

MasterRelease ==
  "bgack" \in pin /\ arb_st = "ACK" /\ LowerPin("bgack")

\* HALT and RESET are driven by the board, at any time.
BoardPin(p) ==
  /\ p \in FreePins
  /\ IF p \in pin THEN LowerPin(p) ELSE RaisePin(p)

Next ==
  \/ \E r \in Request \cup {NoReq} : Rising(r)
  \/ \E a \in Answers : Falling(a)
  \/ MasterRequest
  \/ MasterAcknowledge
  \/ MasterDropRequest
  \/ MasterRelease
  \/ \E p \in {"halt", "reset"} : BoardPin(p)

Spec == Init /\ [][Next]_vars
(***************************************************************************)
(* Fairness.  The clock runs; a slave that is being asked answers sooner   *)
(* or later (the manual has the board assert BERR when nobody does); a     *)
(* master that was granted the bus gives it back.  HALT is nobody's duty.  *)
(***************************************************************************)
ClockRuns   == /\ WF_vars(\E r \in Request \cup {NoReq} : Rising(r))
               /\ WF_vars(\E a \in Answers : Falling(a))
SlaveTurn   == samp_edge /\ \E a \in Answers \ {"none"} : Falling(a)
SlaveFair   == SF_vars(SlaveTurn)
MasterFair  == WF_vars(MasterDropRequest) /\ WF_vars(MasterRelease)

FairSpec == Spec /\ ClockRuns /\ SlaveFair /\ MasterFair

-----------------------------------------------------------------------------
TypeOK ==
  /\ clk \in {"low", "high"}
  /\ st_p \in RestStates \cup EvenStates
  /\ st_n \in RestStates \cup OddStates
  /\ cyc \in Request \cup {NoReq} /\ req \in Request \cup {NoReq}
  /\ req_ack \in BOOLEAN
  /\ term \subseteq Flags /\ end_code \in EndCodes
  /\ rdata \in Ids \cup {NoId} /\ a_o \in Ids \cup {NoId}
  /\ d_o \in Ids \cup {NoId}
  /\ q \subseteq Flops /\ ctl_oe \in BOOLEAN /\ a_hold \in BOOLEAN
  /\ rw_o \in {"r", "w"}
  /\ arb_st \in ArbStates
  /\ pin \subseteq Pins /\ meta \subseteq Pins /\ sync \subseteq Pins
  /\ e_cnt \in 0 .. E_PERIOD_CLKS - 1
  /\ ans \in Answers \cup {"none"}

ReadTransfer  == {"S4", "WH", "S6"}
WriteTransfer == {"S16", "WH2", "S18"}
Modify        == {"M8", "M10", "S12", "S14"}

(* The buses are never handed away under a cycle: from S0 to the end of    *)
(* its last transfer the control outputs stay enabled (bugs-found.md, the  *)
(* fifth bug: a longword read across a bus grant lost a word).             *)
CycleOwnsBus ==
  st_p \in EvenStates \ {"BE8", "BE20"} => ctl_oe

(* While a slave is asked to answer it really is being addressed: AS and   *)
(* DS, the address of this request, its direction and, for a write, its    *)
(* data are on the pins, whatever the arbiter, HALT or a retry did before. *)
TransferDriven ==
  clk = "high" /\ "reset" \notin sync /\ st_p \in ReadTransfer \cup WriteTransfer =>
    /\ AsDriven /\ DsDriven /\ a_oe /\ a_o = cyc.id
    /\ IF cyc_is_write \/ st_p \in WriteTransfer
       THEN rw_o = "w" /\ d_oe /\ d_o = cyc.id
       ELSE rw_o = "r" /\ "doe" \notin q

(* A read-modify-write is indivisible (UM 5.1.3): AS and the address are   *)
(* held from the read half across the modify states into the write half.   *)
RMWIndivisible ==
  st_p \in Modify /\ "reset" \notin sync \cup meta =>
    AsDriven /\ a_o = cyc.id /\ "aoe" \in q /\ "ds" \notin q

(* Two masters never drive the control lines at once: once the alternate   *)
(* master has asserted BGACK the processor's outputs are off, at the       *)
(* latest from the first rising edge after AS was negated.                 *)
OneMaster == clk = "high" /\ "bgack" \in pin => ~ctl_oe

(* The cycle that is reported finished is the one the sequencer is asking  *)
(* for, and a good report is a transfer that a slave acknowledged: for a   *)
(* read, the word latched in S6 is the one at the requested address.       *)
ReportIsTrue ==
  clk = "low" /\ req_last =>
    /\ cyc = req
    /\ ~req_fault => end_code \in {"DTACK", "VPA", "AVEC"}
    /\ ~req_fault /\ ~cyc_is_write => rdata = cyc.id

(* A slave sees every cycle begin: AS has been negated since the last one. *)
(* RmwKept: a read-modify-write that fails in its read half keeps AS.      *)
StrobePerCycle == st_p = "S0" => "as" \notin q

(* HALT asserted at the edge that samples the termination stops the next   *)
(* cycle from starting (UM table 5-1 case 2, UM 5.4.3).                    *)
HaltHonoured ==
  [][ clk = "low" /\ st_n \in {"S7", "S19"} /\ "halt" \in sync
        => st_p' # "S0" ]_vars

(* An M6800 cycle ends in S7 on the falling edge at which E goes low.      *)
EndsWithE ==
  [][ end_code = "VPA" /\ st_n' # st_n /\ st_n' \in {"S7", "S19"}
        => e_o /\ ~e_o' ]_vars

(* The E edge ends a cycle only after VMA has been on the pins: an M6800   *)
(* peripheral transfers nothing without it.                                *)
EndedByE(a) == samp_edge /\ a \in {"none", "vpa"} /\ st_n' \in {"S5", "S17"}
VmaBeforeE  == [][ clk = "high" /\ EndedByE(ans') /\ ~cyc_is_iack => "vma" \in q ]_vars

(* Every request is eventually acknowledged, if in the end nobody else     *)
(* wants the bus and HALT is left alone.                                   *)
Quiet == <>[](pin = {})
RequestServed == Quiet => (req # NoReq ~> req_ack)

(* The alternate master that asks (and asks until it is granted) gets the  *)
(* bus, whatever retries, HALT, bus errors and read-modify-writes delay it *)
(* by.  RmwKept: once a read half has failed AS is never negated, and the  *)
(* grant that waits for that keeps the processor from the cycle that would *)
(* do it.  Both then wait for ever.                                        *)
MasterServed == ("br" \in pin) ~> ("br" \notin pin \/ (bg /\ ~AsDriven))

(* A cycle recognised as an M6800 one ends, although nobody asserts DTACK. *)
M6800Ends ==
  (st_p = "WH" /\ "vpa" \in term) ~> st_n \in {"S7", "S19"}

(***************************************************************************)
(* The bus interface unit implements the contract of BusAccess.            *)
(***************************************************************************)
Phase ==
  CASE st_p = "S0"                                -> "begun"
    [] st_p \in {"BE8", "BE20"}                   -> "failed"
    [] st_p \in EvenStates \ {"S0", "BE8", "BE20"} -> "transfer"
    [] OTHER -> IF "retry" \in term THEN "rerun" ELSE "idle"

Access == INSTANCE BusAccess WITH
  Accesses <- Request, Indivisible <- {r \in Request : r.kind = "RMW"},
  NoAccess <- NoReq,
  phase <- Phase, cur <- cyc, ack <- req_ack,
  owner <- IF ctl_oe THEN "cpu" ELSE "master"

(* Every behaviour of the bus unit is one the sequencer may rely on.       *)
AccessSpec == Access!Spec

-----------------------------------------------------------------------------
(***************************************************************************)
(* The inductive invariant behind CycleOwnsBus and OneMaster.              *)
(***************************************************************************)
OddOf(s) ==
  CASE s = "S0"  -> {"S1"}        [] s = "S2"  -> {"S3"}
    [] s = "S4"  -> {"S5", "WL"}  [] s = "WH"  -> {"S5", "WL"}
    [] s = "S6"  -> {"S7"}        [] s = "BE8" -> {"BE9"}
    [] s = "M8"  -> {"M9"}        [] s = "M10" -> {"M11"}
    [] s = "S12" -> {"S13"}       [] s = "S14" -> {"S15"}
    [] s = "S16" -> {"S17", "WL2"} [] s = "WH2" -> {"S17", "WL2"}
    [] s = "S18" -> {"S19"}       [] s = "BE20" -> {"BE21"}
    [] OTHER     -> {s}

\* With CLK low the two state registers are in step.
InStep == clk = "low" => st_n \in OddOf(st_p)

\* The states in which AS is asserted: S2 to S6, and on to S18 when the cycle
\* is a read-modify-write.
StrobeSpan ==
  \/ st_p \in {"S2", "S4", "WH"} \cup Modify \cup {"S16", "WH2"}
  \/ st_p \in {"S6", "S18"} /\ clk = "high"
  \/ st_p = "S6" /\ cyc_is_rmw

Busy == st_p \in EvenStates \ {"BE8", "BE20"}

StrobeInv  == StrobeSpan => "as" \in q
CycleInv   == Busy \/ "as" \in q => ctl_oe /\ arb_st # "ACK"
GrantInv   == arb_st = "GRANT" /\ st_p = "S0" => "as" \in q
HandedInv  == clk = "high" =>
                /\ arb_st = "ACK" => ~ctl_oe
                /\ arb_st = "GRANT" /\ "as" \notin q => ~ctl_oe

\* BGACK on its way through the synchroniser: rising while the grant is out,
\* falling once it has been seen, gone otherwise.
AckInv ==
  /\ arb_st \in {"IDLE", "RESUME"} => "bgack" \notin pin \cup meta \cup sync
  /\ arb_st = "GRANT" => /\ "bgack" \in sync => "bgack" \in meta
                         /\ "bgack" \in meta => "bgack" \in pin
                         /\ "bgack" \in pin  => "as" \notin q
  /\ arb_st = "ACK"   => /\ "bgack" \in pin  => "bgack" \in meta
                         /\ "bgack" \in meta => "bgack" \in sync

\* BR likewise: it only rises without a grant and only falls with one, and it
\* is still seen by the arbiter when BGACK arrives behind it.
RequestInv ==
  /\ arb_st \in {"IDLE", "RESUME"} => /\ "br" \in sync => "br" \in meta
                                      /\ "br" \in meta => "br" \in pin
  /\ arb_st = "GRANT" =>
       /\ "bgack" \notin pin  => /\ "br" \in pin  => "br" \in meta
                                 /\ "br" \in meta => "br" \in sync
       /\ "bgack" \in pin \ meta  => "br" \in meta /\ "br" \in sync
       /\ "bgack" \in meta \ sync => "br" \in sync
  /\ arb_st = "ACK" =>
       /\ "bgack" \notin meta => ("br" \in meta => "br" \in pin)
       /\ "bgack" \notin sync => ("br" \in sync => "br" \in meta)

OwnershipInv ==
  /\ InStep /\ StrobeInv /\ CycleInv /\ GrantInv /\ HandedInv
  /\ AckInv /\ RequestInv
=============================================================================
