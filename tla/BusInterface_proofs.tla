-------------------------- MODULE BusInterface_proofs -------------------------
(***************************************************************************)
(* Proofs about the bus interface unit, for every set of kinds, ids, slave *)
(* answers and environment pins.  First that it runs cycles only while it  *)
(* owns the bus; then, on that, what it does to a slave and reports to the *)
(* sequencer: that a transfer is driven by its own request, that its       *)
(* report is true, the ways a cycle may end, and that the unit implements  *)
(* the contract of BusAccess.                                              *)
(***************************************************************************)
EXTENDS BusInterface, TLAPS

EvenAll == RestStates \cup EvenStates
OddAll  == RestStates \cup OddStates

\* The rising edge, state by state, and what a cycle's first state needs.
LEMMA EvenStep ==
  ASSUME NEW r, st_n \in OddAll
  PROVE  /\ st_p_nxt(r) \in EvenAll
         /\ st_p_nxt(r) = "S0" => ~arb_bus_released_nxt
         /\ st_p_nxt(r) = "S2" => st_n = "S1"
         /\ st_p_nxt(r) = "S4" => st_n = "S3"
         /\ st_p_nxt(r) = "WH" => st_n = "WL"
         /\ st_p_nxt(r) = "S6" => st_n = "S5"
         /\ st_p_nxt(r) = "M8" => st_n = "S7" /\ cyc_is_rmw
         /\ st_p_nxt(r) = "M10" => st_n = "M9"
         /\ st_p_nxt(r) = "S12" => st_n = "M11"
         /\ st_p_nxt(r) = "S14" => st_n = "S13"
         /\ st_p_nxt(r) = "S16" => st_n = "S15"
         /\ st_p_nxt(r) = "WH2" => st_n = "WL2"
         /\ st_p_nxt(r) = "S18" => st_n = "S17"
<1> DEFINE ac == after_cycle(r)
<1>1. ac \in {"RETRY", "HALT", "ARB", "S0", "IDLE"}
      /\ (ac = "S0" => ~arb_bus_released_nxt)
  BY DEF after_cycle
<1>2. rerun_nxt \in {"RETRY", "ARB", "S0"}
      /\ (rerun_nxt = "S0" => ~arb_bus_released_nxt)
  BY DEF rerun_nxt
<1>3. QED
  BY <1>1, <1>2 DEF st_p_nxt, EvenAll, OddAll, RestStates, EvenStates, OddStates

LEMMA OddStep ==
  ASSUME NEW a, st_p \in EvenAll
  PROVE  /\ st_n_nxt(a) \in OddOf(st_p)
         /\ st_n_nxt(a) \in OddAll
         /\ st_n_nxt(a) = "S7" => st_p = "S6"
         /\ st_n_nxt(a) = "S19" => st_p = "S18"
  BY DEF st_n_nxt, OddOf, EvenAll, OddAll, RestStates, EvenStates, OddStates

-----------------------------------------------------------------------------
\* The registers hold values of their types: the type invariant is inductive.
LEMMA InitType == Init => TypeOK
<1> SUFFICES ASSUME Init PROVE TypeOK
  OBVIOUS
<1>1. /\ clk \in {"low", "high"} /\ st_p \in RestStates /\ st_n \in RestStates
      /\ end_code \in EndCodes /\ arb_st \in ArbStates /\ rw_o \in {"r", "w"}
  BY DEF Init, RestStates, EndCodes, ArbStates
<1>2. /\ term \subseteq Flags /\ q \subseteq Flops
      /\ pin \subseteq Pins /\ meta \subseteq Pins /\ sync \subseteq Pins
  BY DEF Init
<1>3. req_ack \in BOOLEAN /\ ctl_oe \in BOOLEAN /\ a_hold \in BOOLEAN
  BY DEF Init
<1>4. e_cnt \in 0 .. E_PERIOD_CLKS - 1
  BY DEF Init, E_PERIOD_CLKS
<1>5. /\ cyc \in Request \cup {NoReq} /\ req \in Request \cup {NoReq}
      /\ rdata \in Ids \cup {NoId} /\ a_o \in Ids \cup {NoId}
      /\ d_o \in Ids \cup {NoId} /\ ans \in Answers \cup {"none"}
  BY DEF Init
<1>6. QED BY <1>1, <1>2, <1>3, <1>4, <1>5 DEF TypeOK

LEMMA RisingType ==
  ASSUME TypeOK, NEW r, Rising(r)
  PROVE  TypeOK'
<1>1. r \in Request \cup {NoReq}
  BY DEF TypeOK, Rising, Presented
<1>2. st_p' \in RestStates \cup EvenStates
  <2>1. st_n \in OddAll
    BY DEF TypeOK, OddAll
  <2>2. QED BY <2>1, EvenStep DEF Rising, EvenAll
<1>3. arb_st' \in ArbStates
  BY DEF TypeOK, Rising, arb_st_nxt, ArbStates
<1>4. q' \subseteq Flops
  BY DEF TypeOK, Rising, When, Flops
<1>5. rw_o' \in {"r", "w"}
  BY DEF TypeOK, Rising
<1>6. cyc' \in Request \cup {NoReq} /\ req' \in Request \cup {NoReq}
  BY <1>1 DEF TypeOK, Rising
<1>7. req_ack' \in BOOLEAN
  BY DEF Rising, req_last
<1>8. ctl_oe' \in BOOLEAN /\ a_hold' \in BOOLEAN
  BY DEF Rising, arb_bus_released_nxt
<1>9. clk' \in {"low", "high"}
  BY DEF Rising
<1>10. UNCHANGED <<st_n, term, end_code, rdata, a_o, d_o, pin, meta, sync,
                   e_cnt, ans>>
  BY DEF Rising, bookk, inputs
<1>11. QED
  BY <1>2, <1>3, <1>4, <1>5, <1>6, <1>7, <1>8, <1>9, <1>10 DEF TypeOK

LEMMA FallingType ==
  ASSUME TypeOK, NEW a \in Answers, Falling(a)
  PROVE  TypeOK'
<1>1. st_n' \in RestStates \cup OddStates
  <2>1. st_p \in EvenAll
    BY DEF TypeOK, EvenAll
  <2>2. QED BY <2>1, OddStep DEF Falling, OddAll
<1>2. term' \subseteq Flags
  BY DEF TypeOK, Falling, term_nxt, term_halt, late_flag, Flags, Pins
<1>3. end_code' \in EndCodes
  BY DEF TypeOK, Falling, end_code_nxt, EndCodes
<1>4. /\ rdata' \in Ids \cup {NoId}
      /\ a_o' \in Ids \cup {NoId}
      /\ d_o' \in Ids \cup {NoId}
  <2>1. cyc.id \in Ids \cup {NoId} /\ req.id \in Ids \cup {NoId}
    BY DEF TypeOK, Request, NoReq
  <2>2. Addressed \in Ids \cup {NoId}
    BY DEF TypeOK, Addressed
  <2>3. QED BY <2>1, <2>2 DEF TypeOK, Falling
<1>5. q' \subseteq Flops
  BY DEF TypeOK, Falling, When, Flops
<1>6. meta' \subseteq Pins /\ sync' \subseteq Pins
  BY DEF TypeOK, Falling
<1>7. e_cnt' \in 0 .. E_PERIOD_CLKS - 1
  BY DEF TypeOK, Falling, e_cnt_nxt, E_PERIOD_CLKS
<1>8. ans' \in Answers \cup {"none"} /\ clk' \in {"low", "high"}
  BY DEF Falling
<1>9. UNCHANGED <<st_p, cyc, req, req_ack, ctl_oe, a_hold, rw_o, arb_st, pin>>
  BY DEF Falling, seqif
<1>10. QED
  BY <1>1, <1>2, <1>3, <1>4, <1>5, <1>6, <1>7, <1>8, <1>9 DEF TypeOK

\* The environment's steps move one pin and nothing else.
LEMMA PinSteps ==
  ASSUME NEW act,
         act <=> \/ MasterRequest \/ MasterAcknowledge \/ MasterDropRequest
                 \/ MasterRelease \/ \E p \in {"halt", "reset"} : BoardPin(p),
         act
  PROVE  /\ \E p \in Pins : pin' = pin \cup {p} \/ pin' = pin \ {p}
         /\ OnlyPins
  BY DEF MasterRequest, MasterAcknowledge, MasterDropRequest, MasterRelease,
         BoardPin, RaisePin, LowerPin, Pins

(* TypeOK holds in every reachable state, for all constants.               *)
THEOREM TypeCorrect == Spec => []TypeOK
<1>1. TypeOK /\ [Next]_vars => TypeOK'
  <2> SUFFICES ASSUME TypeOK, [Next]_vars PROVE TypeOK'
    OBVIOUS
  <2>1. CASE \E r \in Request \cup {NoReq} : Rising(r)
    BY <2>1, RisingType
  <2>2. CASE \E a \in Answers : Falling(a)
    BY <2>2, FallingType
  <2>3. CASE \/ MasterRequest \/ MasterAcknowledge \/ MasterDropRequest
             \/ MasterRelease \/ \E p \in {"halt", "reset"} : BoardPin(p)
    <3>1. pin' \subseteq Pins /\ OnlyPins
      BY <2>3, PinSteps DEF TypeOK
    <3>2. QED
      BY <3>1 DEF TypeOK, OnlyPins, fsm, seqif, bookk, pads
  <2>4. CASE UNCHANGED vars
    BY <2>4 DEF TypeOK, vars, fsm, seqif, bookk, pads, inputs
  <2>5. QED BY <2>1, <2>2, <2>3, <2>4 DEF Next
<1>2. QED BY InitType, <1>1, PTL DEF Spec

-----------------------------------------------------------------------------
\* With CLK low, the odd state tells which even state it came from.
LEMMA CameFrom ==
  ASSUME st_p \in EvenAll, st_n \in OddOf(st_p)
  PROVE  /\ st_n = "S1"  => st_p = "S0"
         /\ st_n = "S3"  => st_p = "S2"
         /\ st_n \in {"S5", "WL"} => st_p \in {"S4", "WH"}
         /\ st_n = "S7"  => st_p = "S6"
         /\ st_n = "M9"  => st_p = "M8"
         /\ st_n = "M11" => st_p = "M10"
         /\ st_n = "S13" => st_p = "S12"
         /\ st_n = "S15" => st_p = "S14"
         /\ st_n \in {"S17", "WL2"} => st_p \in {"S16", "WH2"}
  BY DEF OddOf, EvenAll, RestStates, EvenStates

\* How the arbiter gets where it goes.
LEMMA ArbStep ==
  ASSUME arb_st \in ArbStates
  PROVE  /\ arb_freeze => arb_st_nxt = arb_st
         /\ arb_st_nxt \in ArbStates
         /\ arb_st_nxt = "IDLE" => arb_st \in {"IDLE", "RESUME"}
         /\ arb_st_nxt = "GRANT" =>
               \/ arb_st = "GRANT" /\ (arb_freeze \/ ("bgack" \notin sync /\ "br" \in sync))
               \/ arb_st = "IDLE" /\ "br" \in sync
         /\ arb_st_nxt = "ACK" =>
               \/ arb_st = "ACK" /\ (arb_freeze \/ "bgack" \in sync)
               \/ arb_st = "GRANT" /\ "bgack" \in sync
         /\ arb_st_nxt = "RESUME" =>
               \/ arb_st = "RESUME"
               \/ arb_st = "GRANT" /\ "bgack" \notin sync /\ "br" \notin sync
               \/ arb_st = "ACK" /\ "bgack" \notin sync
  BY DEF arb_st_nxt, ArbStates

LEMMA InitOwnership == Init => OwnershipInv
<1> SUFFICES ASSUME Init PROVE OwnershipInv
  OBVIOUS
<1>1. InStep
  BY DEF Init, InStep, OddOf
<1>2. StrobeInv /\ CycleInv /\ GrantInv /\ HandedInv
  BY DEF Init, StrobeInv, StrobeSpan, Modify, CycleInv, Busy, EvenStates,
         GrantInv, HandedInv
<1>3. AckInv /\ RequestInv
  BY DEF Init, AckInv, RequestInv
<1>4. QED BY <1>1, <1>2, <1>3 DEF OwnershipInv

LEMMA RisingOwnership ==
  ASSUME TypeOK, OwnershipInv, NEW r, Rising(r)
  PROVE  OwnershipInv'
<1>1. /\ clk = "low" /\ clk' = "high"
      /\ st_p' = st_p_nxt(r) /\ arb_st' = arb_st_nxt
      /\ ctl_oe' = ~arb_bus_released_nxt
      /\ UNCHANGED <<st_n, pin, meta, sync>>
  BY DEF Rising, inputs
<1>2. "as" \in q' <=> ("as" \in q \/ st_p_nxt(r) = "S2")
  BY DEF Rising, When, as_set
<1>3. st_p_nxt(r) # "S0" => cyc' = cyc
  BY DEF Rising, start_new
<1>4. /\ st_p \in EvenAll /\ st_n \in OddAll /\ arb_st \in ArbStates
      /\ st_n \in OddOf(st_p)
  BY <1>1 DEF TypeOK, EvenAll, OddAll, OwnershipInv, InStep
<1>5. "as" \in q => arb_st_nxt # "ACK" /\ ~arb_bus_released_nxt
  BY <1>4, ArbStep DEF OwnershipInv, AckInv, CycleInv, arb_bus_released_nxt
<1>6. StrobeSpan' => st_p_nxt(r) = "S2" \/ (StrobeSpan /\ "as" \in q)
  <2>1. SUFFICES ASSUME StrobeSpan', st_p_nxt(r) # "S2" PROVE StrobeSpan
    BY DEF OwnershipInv, StrobeInv
  <2>2. st_p_nxt(r) \in {"S4", "WH", "S6", "S16", "WH2", "S18"} \cup Modify
    BY <1>1, <2>1 DEF StrobeSpan
  <2>3. st_p \in {"S2", "S4", "WH", "S16", "WH2"} \cup Modify
        \/ (st_p = "S6" /\ cyc_is_rmw)
    BY <1>4, <2>2, EvenStep, CameFrom DEF Modify
  <2>4. QED BY <2>3 DEF StrobeSpan
<1>7. Busy' => ~arb_bus_released_nxt
  <2>1. CASE st_p_nxt(r) = "S0"
    BY <2>1, <1>4, EvenStep
  <2>2. CASE st_p_nxt(r) = "S2"
    <3>1. st_p = "S0"
      BY <1>4, <2>2, EvenStep, CameFrom
    <3>2. arb_st_nxt = arb_st /\ arb_st # "ACK" /\ (arb_st = "GRANT" => "as" \in q)
      BY <3>1, <1>4, ArbStep
         DEF arb_freeze, OwnershipInv, CycleInv, GrantInv, Busy, EvenStates
    <3>3. QED BY <3>2 DEF arb_bus_released_nxt
  <2>3. CASE Busy' /\ st_p_nxt(r) \notin {"S0", "S2"}
    <3>1. StrobeSpan'
      BY <2>3, <1>1 DEF Busy, StrobeSpan, EvenStates, Modify
    <3>2. QED BY <3>1, <2>3, <1>5, <1>6
  <2>4. QED BY <2>1, <2>2, <2>3
<1>8. InStep'
  BY <1>1 DEF InStep
<1>9. StrobeInv'
  BY <1>2, <1>6 DEF StrobeInv
<1>10. CycleInv'
  <2>1. CASE Busy'
    BY <2>1, <1>1, <1>7 DEF CycleInv, arb_bus_released_nxt
  <2>2. CASE "as" \in q'
    <3>1. CASE "as" \in q
      BY <3>1, <1>1, <1>5 DEF CycleInv
    <3>2. CASE st_p_nxt(r) = "S2"
      BY <3>2, <1>1, <2>1 DEF Busy, EvenStates
    <3>3. QED BY <2>2, <1>2, <3>1, <3>2
  <2>3. QED BY <2>1, <2>2 DEF CycleInv
<1>11. GrantInv'
  BY <1>1, <1>2, <1>4, EvenStep DEF GrantInv, arb_bus_released_nxt
<1>12. HandedInv'
  <2>1. "as" \notin q' => "as" \notin q
    BY <1>2
  <2>2. QED BY <2>1, <1>1 DEF HandedInv, arb_bus_released_nxt
<1>13. AckInv'
  <2>1. "as" \in q' /\ "as" \notin q /\ arb_st_nxt = "GRANT" => FALSE
    <3>1. SUFFICES ASSUME "as" \notin q, st_p_nxt(r) = "S2", arb_st_nxt = "GRANT"
                   PROVE FALSE
      BY <1>2
    <3>2. Busy'
      BY <3>1, <1>1 DEF Busy, EvenStates
    <3>3. QED BY <3>1, <3>2, <1>7 DEF arb_bus_released_nxt
  <2>2. QED
    BY <2>1, <1>1, <1>4, ArbStep DEF OwnershipInv, AckInv, RequestInv
<1>14. RequestInv'
  BY <1>1, <1>4, ArbStep DEF OwnershipInv, AckInv, RequestInv
<1>15. QED
  BY <1>8, <1>9, <1>10, <1>11, <1>12, <1>13, <1>14 DEF OwnershipInv

LEMMA FallingOwnership ==
  ASSUME TypeOK, OwnershipInv, NEW a, Falling(a)
  PROVE  OwnershipInv'
<1>1. /\ clk = "high" /\ clk' = "low" /\ st_n' = st_n_nxt(a)
      /\ UNCHANGED <<st_p, cyc, ctl_oe, arb_st, pin>>
      /\ meta' = pin /\ sync' = meta
  BY DEF Falling, seqif
<1>2. /\ "as" \in q' => "as" \in q
      /\ "as" \in q \ q' => (st_n_nxt(a) = "S7" /\ ~cyc_is_rmw) \/ st_n_nxt(a) = "S19"
  BY DEF Falling, When, as_clr
<1>3. st_p \in EvenAll
  BY DEF TypeOK, EvenAll
<1>4. InStep'
  BY <1>1, <1>3, OddStep DEF InStep, OddOf
<1>5. StrobeInv'
  BY <1>1, <1>2, <1>3, OddStep DEF OwnershipInv, StrobeInv, StrobeSpan, Modify, cyc_is_rmw
<1>6. CycleInv'
  BY <1>1, <1>2 DEF OwnershipInv, CycleInv, Busy
<1>7. GrantInv'
  BY <1>1, <1>2, <1>3, OddStep DEF OwnershipInv, GrantInv
<1>8. HandedInv'
  BY <1>1 DEF HandedInv
<1>9. AckInv'
  BY <1>1, <1>2 DEF OwnershipInv, AckInv
<1>10. RequestInv'
  BY <1>1 DEF OwnershipInv, AckInv, RequestInv
<1>11. QED
  BY <1>4, <1>5, <1>6, <1>7, <1>8, <1>9, <1>10 DEF OwnershipInv

LEMMA PinOwnership ==
  ASSUME OwnershipInv,
         \/ MasterRequest \/ MasterAcknowledge \/ MasterDropRequest
         \/ MasterRelease \/ \E p \in {"halt", "reset"} : BoardPin(p)
  PROVE  OwnershipInv'
<1>1. OnlyPins
  BY PinSteps
<1>2. UNCHANGED <<clk, st_p, st_n, cyc, q, ctl_oe, arb_st, meta, sync>>
  BY <1>1 DEF OnlyPins, fsm, seqif, pads
<1>3. InStep' /\ StrobeInv' /\ CycleInv' /\ GrantInv' /\ HandedInv'
  BY <1>2 DEF OwnershipInv, InStep, StrobeInv, StrobeSpan, cyc_is_rmw, CycleInv,
              Busy, GrantInv, HandedInv
<1>4. AckInv' /\ RequestInv'
  <2>1. CASE MasterRequest
    BY <2>1, <1>2 DEF MasterRequest, RaisePin, bg, OwnershipInv, AckInv, RequestInv
  <2>2. CASE MasterAcknowledge
    BY <2>2, <1>2 DEF MasterAcknowledge, RaisePin, bg, AsDriven, OwnershipInv,
                      CycleInv, AckInv, RequestInv
  <2>3. CASE MasterDropRequest
    BY <2>3, <1>2 DEF MasterDropRequest, LowerPin, bg, OwnershipInv, AckInv, RequestInv
  <2>4. CASE MasterRelease
    BY <2>4, <1>2 DEF MasterRelease, LowerPin, OwnershipInv, AckInv, RequestInv
  <2>5. CASE \E p \in {"halt", "reset"} : BoardPin(p)
    <3>1. ("br" \in pin' <=> "br" \in pin) /\ ("bgack" \in pin' <=> "bgack" \in pin)
      BY <2>5 DEF BoardPin, RaisePin, LowerPin
    <3>2. QED BY <3>1, <1>2 DEF OwnershipInv, AckInv, RequestInv
  <2>6. QED BY <2>1, <2>2, <2>3, <2>4, <2>5
<1>5. QED BY <1>3, <1>4 DEF OwnershipInv

LEMMA OwnershipStep == TypeOK /\ OwnershipInv /\ [Next]_vars => OwnershipInv'
<1> SUFFICES ASSUME TypeOK, OwnershipInv, [Next]_vars PROVE OwnershipInv'
  OBVIOUS
<1>1. CASE \E r \in Request \cup {NoReq} : Rising(r)
  BY <1>1, RisingOwnership
<1>2. CASE \E a \in Answers : Falling(a)
  BY <1>2, FallingOwnership
<1>3. CASE \/ MasterRequest \/ MasterAcknowledge \/ MasterDropRequest
           \/ MasterRelease \/ \E p \in {"halt", "reset"} : BoardPin(p)
  BY <1>3, PinOwnership
<1>4. CASE UNCHANGED vars
  BY <1>4 DEF vars, fsm, seqif, pads, inputs, OwnershipInv, InStep, StrobeInv,
              StrobeSpan, cyc_is_rmw, CycleInv, Busy, GrantInv, HandedInv, AckInv,
              RequestInv
<1>5. QED BY <1>1, <1>2, <1>3, <1>4 DEF Next

(* The processor's cycle owns the bus from S0 to its last transfer state,  *)
(* whatever the alternate master, HALT, RESET and the slaves do.           *)
THEOREM CycleOwnsBusAlways == Spec => []CycleOwnsBus
<1>1. OwnershipInv => CycleOwnsBus
  BY DEF OwnershipInv, CycleInv, Busy, CycleOwnsBus
<1>2. QED BY TypeCorrect, InitOwnership, OwnershipStep, <1>1, PTL DEF Spec

(* No clock-high phase finds BGACK asserted and the processor driving.     *)
THEOREM OneMasterAlways == Spec => []OneMaster
<1>1. TypeOK /\ OwnershipInv => OneMaster
  BY DEF TypeOK, ArbStates, OwnershipInv, AckInv, HandedInv, OneMaster
<1>2. QED BY TypeCorrect, InitOwnership, OwnershipStep, <1>1, PTL DEF Spec

-----------------------------------------------------------------------------
(***************************************************************************)
(* The inductive invariant of a transfer.                                  *)
(***************************************************************************)
\* The request of the cycle in progress, or to be rerun, is the one the
\* sequencer still presents; only read-modify-writes reach the write half, and
\* they are never rerun.
HeldInv ==
  /\ st_p \in EvenStates \/ "retry" \in term => cyc = req /\ cyc \in Request
  /\ st_p = "RETRY" => "retry" \in term
  /\ "retry" \in term => ~cyc_is_rmw
  /\ st_p \in Modify \cup WriteTransfer \cup {"BE20"} => cyc_is_rmw

\* No report is pending in a cycle past its first state.
SilentInv == st_p \in EvenStates \ {"S0"} => ~req_ack

\* The flags of the attempt in progress.
Unended ==
  \/ clk = "high" /\ st_p \in {"S2", "S4", "WH", "S16", "WH2"}
  \/ clk = "low" /\ st_n \in {"S1", "S3", "WL", "WL2"}
  \/ st_p \in Modify

FlagInv ==
  /\ "berr" \in term => "retry" \notin term /\ end_code = "BERR"
  /\ Unended => term \cap {"berr", "retry"} = {}
  /\ st_p \in {"BE8", "BE20"} => "berr" \in term

\* How an attempt that has ended, ended.
Ended ==
  \/ st_p \in {"S6", "BE8", "BE20"} \cup Modify \cup WriteTransfer
  \/ st_n = "S5" /\ clk = "low"

EndInv ==
  Ended \/ "vpa" \in term =>
    end_code \in {"DTACK", "VPA", "AVEC"} \/ term \cap {"berr", "late", "retry"} # {}

\* From the falling edge of S0 until the slave's answer is sampled.
Begun == (st_p = "S0" /\ clk = "low") \/ st_p \in {"S2", "S4", "WH"}

\* The address register and its enable, from S1 to the end of the cycle.
AddrInv ==
  Begun \/ st_p \in {"S6"} \cup Modify \cup WriteTransfer =>
    "aoe" \in q /\ a_o = cyc.id

\* The data strobes are asserted in these states and in no other.
DsSpan ==
  \/ st_p = "S2" /\ ~cyc_is_write
  \/ st_p \in {"S4", "WH", "S16", "WH2"}
  \/ st_p \in {"S6", "S18"} /\ clk = "high"

DsInv == "ds" \in q <=> DsSpan

\* And so is the write data.
DataSpan ==
  \/ cyc_is_write /\ (st_p \in ReadTransfer \/ (st_p = "S2" /\ clk = "low"))
  \/ st_p = "S14" /\ clk = "low"
  \/ st_p \in WriteTransfer

DataInv ==
  /\ "doe" \in q <=> DataSpan
  /\ DataSpan => d_o = cyc.id

RwInv ==
  /\ st_p = "S0" => rw_o = "r"
  /\ st_p \in {"S2"} \cup ReadTransfer => rw_o = IF cyc_is_write THEN "w" ELSE "r"
  /\ st_p \in {"S14"} \cup WriteTransfer => rw_o = "w"

\* The address pins are withheld in RESET and HALT only.
HoldInv ==
  clk = "high" /\ ctl_oe /\ st_p \in EvenStates \ {"S0"} /\ "reset" \notin sync => a_hold

TransferInv ==
  /\ HeldInv /\ SilentInv /\ FlagInv /\ EndInv
  /\ AddrInv /\ DsInv /\ DataInv /\ RwInv /\ HoldInv

NoReset == "reset" \notin pin \cup meta \cup sync

\* The word latched in S6 is the one at the requested address.
ReadSpan ==
  /\ ~cyc_is_write
  /\ \/ st_p = "S6" /\ clk = "low"
     \/ st_p \in {"BE8", "BE20"} \cup Modify \cup WriteTransfer

ReadInv == NoReset /\ (ReadSpan => rdata = cyc.id)

\* HALT on the sampling edge, two clocks before the arbiter's rank shows it.
HaltInv ==
  /\ "vpa" \notin term
  /\ \/ clk = "low" /\ st_n \in {"S5", "S17"} /\ "halt" \in meta
     \/ clk = "high" /\ st_p \in {"S6", "S18"} /\ "halt" \in meta
     \/ clk = "low" /\ st_n \in {"S7", "S19"} /\ "halt" \in sync
     => term \cap {"halt", "retry", "berr"} # {}

\* A cycle E ends is in its last state when E is about to fall.
EInv ==
  /\ ~ERuns => e_cnt = 0
  /\ end_code = "VPA" /\ \/ clk = "low" /\ st_n \in {"S5", "S17"}
                         \/ clk = "high" /\ st_p \in {"S6", "S18"}
     => ERuns /\ e_cnt = 9

\* VMA, remembered in term, is on its flop until S7; before a sampling edge the
\* falling half of the state machine has not passed it.
VmaInv ==
  /\ "vma" \in term /\ (Begun \/ (st_p = "S6" /\ clk = "high")) => "vma" \in q
  /\ clk = "high" /\ samp_edge => st_n \notin {"S5", "S17"}

\* Unless the read half of a read-modify-write fails, AS is negated outside the
\* span of one cycle.
KeptInv ==
  cyc_is_rmw /\ (st_p = "S6" \/ (st_n = "S5" /\ clk = "low")) =>
    term \cap {"berr", "retry"} = {}

NegatedInv ==
  "as" \in q => \/ st_p \in {"S2", "S4", "WH"} \cup Modify \cup {"S16", "WH2"}
                \/ st_p \in {"S6", "S18"} /\ clk = "high"
                \/ st_p = "S6" /\ cyc_is_rmw

-----------------------------------------------------------------------------
\* A rising edge with CLK low, from each even state to the next.
LEMMA RisingPath ==
  ASSUME TypeOK, InStep, NEW r, Rising(r)
  PROVE  /\ st_p' = "S2"  => st_n = "S1" /\ st_p = "S0"
         /\ st_p' = "S4"  => st_n = "S3" /\ st_p = "S2"
         /\ st_p' = "WH"  => st_n = "WL" /\ st_p \in {"S4", "WH"}
         /\ st_p' = "S6"  => st_n = "S5" /\ st_p \in {"S4", "WH"}
         /\ st_p' = "M8"  => st_n = "S7" /\ st_p = "S6" /\ cyc_is_rmw /\ "berr" \notin term
         /\ st_p' = "M10" => st_n = "M9" /\ st_p = "M8"
         /\ st_p' = "S12" => st_n = "M11" /\ st_p = "M10"
         /\ st_p' = "S14" => st_n = "S13" /\ st_p = "S12"
         /\ st_p' = "S16" => st_n = "S15" /\ st_p = "S14"
         /\ st_p' = "WH2" => st_n = "WL2" /\ st_p \in {"S16", "WH2"}
         /\ st_p' = "S18" => st_n = "S17" /\ st_p \in {"S16", "WH2"}
         /\ st_p' = "BE8" => st_n = "S7" /\ st_p = "S6" /\ "berr" \in term
         /\ st_p' = "BE20" => st_n = "S19" /\ st_p = "S18" /\ "berr" \in term
         /\ st_p' \in RestStates \cup EvenStates
         /\ st_p' # "S0" => cyc' = cyc
<1> DEFINE ac == after_cycle(r)
<1>1. /\ clk = "low" /\ st_p' = st_p_nxt(r) /\ cyc' = IF start_new(r) THEN r ELSE cyc
  BY DEF Rising
<1>2. st_p \in EvenAll /\ st_n \in OddAll /\ st_n \in OddOf(st_p)
  BY <1>1 DEF TypeOK, EvenAll, OddAll, InStep
<1>3. ac \in {"RETRY", "HALT", "ARB", "S0", "IDLE"}
  BY DEF after_cycle
<1>4. rerun_nxt \in {"RETRY", "ARB", "S0"}
  BY DEF rerun_nxt
<1>5. st_n = "S19" => st_p = "S18"
  BY <1>2 DEF OddOf, EvenAll, RestStates, EvenStates
<1>6. /\ st_p' = "M8" => st_n = "S7" /\ cyc_is_rmw /\ "berr" \notin term
      /\ st_p' = "BE8" => st_n = "S7" /\ "berr" \in term
      /\ st_p' = "BE20" => st_n = "S19" /\ "berr" \in term
  BY <1>1, <1>2, <1>3, <1>4 DEF st_p_nxt, OddAll, RestStates, OddStates
<1>7. st_p' # "S0" => cyc' = cyc
  BY <1>1 DEF start_new
<1> HIDE DEF ac
<1>8. QED
  BY <1>1, <1>2, <1>5, <1>6, <1>7, EvenStep, CameFrom DEF EvenAll

\* How a cycle begins, and how one is left for a resting state.
LEMMA RisingEnd ==
  ASSUME TypeOK, InStep, NEW r, Rising(r), st_p' \in RestStates \cup {"S0"}
  PROVE  /\ \/ st_n \in RestStates /\ st_p = st_n
            \/ st_n = "S7" /\ st_p = "S6" /\ "berr" \notin term
                 /\ ("retry" \in term \/ ~cyc_is_rmw)
            \/ st_n = "S19" /\ st_p = "S18" /\ "berr" \notin term
            \/ st_n = "BE9" /\ st_p = "BE8"
            \/ st_n = "BE21" /\ st_p = "BE20"
         /\ st_n \notin RestStates => /\ "retry" \in term <=> st_p' = "RETRY"
                                      /\ "halt" \in term => st_p' # "S0"
         /\ st_p' = "RETRY" => "retry" \in term \/ st_n = "RETRY"
         /\ st_p' = "S0" => /\ ~arb_bus_released_nxt
                            /\ st_n = "RETRY" => cyc' = cyc
                            /\ st_n # "RETRY" => cyc' = r /\ r # NoReq
<1>1. /\ clk = "low" /\ st_p' = st_p_nxt(r) /\ cyc' = IF start_new(r) THEN r ELSE cyc
  BY DEF Rising
<1>2. st_p \in EvenAll /\ st_n \in OddAll /\ st_n \in OddOf(st_p)
  BY <1>1 DEF TypeOK, EvenAll, OddAll, InStep
<1>3. /\ after_cycle(r) \in {"RETRY", "HALT", "ARB", "S0", "IDLE"}
      /\ "retry" \in term <=> after_cycle(r) = "RETRY"
      /\ "halt" \in term => after_cycle(r) # "S0"
      /\ after_cycle(r) = "S0" => r # NoReq
  BY DEF after_cycle, Visible
<1>4. rerun_nxt \in {"RETRY", "ARB", "S0"}
  BY DEF rerun_nxt
<1>5. \/ st_n \in RestStates
      \/ st_n = "S7" /\ "berr" \notin term /\ ("retry" \in term \/ ~cyc_is_rmw)
           /\ st_p' = after_cycle(r)
      \/ st_n = "S19" /\ "berr" \notin term /\ st_p' = after_cycle(r)
      \/ st_n \in {"BE9", "BE21"} /\ st_p' = after_cycle(r)
  BY <1>1, <1>2 DEF st_p_nxt, OddAll, RestStates, OddStates
<1>6. /\ st_n \in RestStates => st_p = st_n
      /\ st_n = "S7" => st_p = "S6"
      /\ st_n = "S19" => st_p = "S18"
      /\ st_n = "BE9" => st_p = "BE8"
      /\ st_n = "BE21" => st_p = "BE20"
  BY <1>2 DEF OddOf, EvenAll, RestStates, EvenStates
<1>7. st_n \in RestStates =>
         /\ st_p' = "RETRY" => st_n = "RETRY"
         /\ st_p' = "S0" /\ st_n # "RETRY" => r # NoReq
  BY <1>1, <1>4 DEF st_p_nxt, RestStates, Visible
<1>8. st_p' = "S0" => ~arb_bus_released_nxt
  BY <1>1, <1>2, EvenStep
<1>9. st_p' = "S0" => (cyc' = IF st_n = "RETRY" THEN cyc ELSE r)
  BY <1>1 DEF start_new
<1>10. st_n \notin RestStates => /\ "retry" \in term <=> st_p' = "RETRY"
                                 /\ "halt" \in term => st_p' # "S0"
  BY <1>3, <1>5
<1>11. QED
  BY <1>3, <1>5, <1>6, <1>7, <1>8, <1>9, <1>10 DEF RestStates

\* What a falling edge makes of the state, one even state at a time.
LEMMA FallingPath ==
  ASSUME TypeOK, NEW a, Falling(a)
  PROVE  /\ st_p' = st_p /\ st_n' \in OddOf(st_p) /\ st_n' = st_n_nxt(a)
         /\ clk = "high" /\ clk' = "low"
         /\ st_n' = "S1"  => st_p = "S0"
         /\ st_n' = "S3"  <=> st_p = "S2"
         /\ st_n' = "S5"  <=> st_p \in {"S4", "WH"} /\ samp_done(a)
         /\ st_n' = "WL"  <=> st_p \in {"S4", "WH"} /\ ~samp_done(a)
         /\ st_n' = "S7"  <=> st_p = "S6"
         /\ st_n' = "S15" <=> st_p = "S14"
         /\ st_n' = "S17" <=> st_p \in {"S16", "WH2"} /\ samp_done(a)
         /\ st_n' = "WL2" <=> st_p \in {"S16", "WH2"} /\ ~samp_done(a)
         /\ st_n' = "S19" <=> st_p = "S18"
<1>1. st_p \in EvenAll
  BY DEF TypeOK, EvenAll
<1>2. /\ clk = "high" /\ clk' = "low" /\ st_n' = st_n_nxt(a) /\ st_p' = st_p
  BY DEF Falling
<1>3. st_n' \in OddOf(st_p)
  BY <1>1, <1>2, OddStep
<1>4. /\ st_n' = "S1"  => st_p = "S0"
      /\ st_n' = "S3"  <=> st_p = "S2"
      /\ st_n' = "S5"  <=> st_p \in {"S4", "WH"} /\ samp_done(a)
      /\ st_n' = "WL"  <=> st_p \in {"S4", "WH"} /\ ~samp_done(a)
      /\ st_n' = "S7"  <=> st_p = "S6"
      /\ st_n' = "S15" <=> st_p = "S14"
      /\ st_n' = "S17" <=> st_p \in {"S16", "WH2"} /\ samp_done(a)
      /\ st_n' = "WL2" <=> st_p \in {"S16", "WH2"} /\ ~samp_done(a)
      /\ st_n' = "S19" <=> st_p = "S18"
  BY <1>1, <1>2 DEF st_n_nxt, EvenAll, RestStates, EvenStates
<1>5. QED BY <1>2, <1>3, <1>4

-----------------------------------------------------------------------------
LEMMA InitTransfer == Init => TransferInv
<1> SUFFICES ASSUME Init PROVE TransferInv
  OBVIOUS
<1>1. /\ st_p = "IDLE" /\ st_n = "IDLE" /\ term = {} /\ q = {} /\ clk = "low"
      /\ cyc = NoReq
  BY DEF Init
<1>2. HeldInv /\ SilentInv /\ FlagInv /\ EndInv /\ AddrInv
  BY <1>1 DEF HeldInv, SilentInv, FlagInv, EndInv, AddrInv, EvenStates, Modify,
              WriteTransfer, Unended, Ended, Begun
<1>3. DsInv /\ DataInv /\ RwInv /\ HoldInv
  BY <1>1 DEF DsInv, DsSpan, DataInv, DataSpan, cyc_is_write, NoReq, RwInv, HoldInv,
              ReadTransfer, WriteTransfer
<1>4. QED BY <1>2, <1>3 DEF TransferInv

\* The request: a rising edge changes it after a report only.
LEMMA RisingHeld ==
  ASSUME TypeOK, InStep, TransferInv, NEW r, Rising(r)
  PROVE  HeldInv'
<1>1. /\ clk = "low" /\ r \in Presented /\ req' = r /\ term' = term
      /\ req' # NoReq => req' \in Request
  BY DEF Rising, Presented, bookk, TypeOK
<1>2. HeldInv /\ FlagInv
  BY DEF TransferInv
<1>3. /\ st_p \in EvenAll /\ st_n \in OddOf(st_p)
      /\ cyc \in Request => cyc # NoReq
  <2>1. \A k \in Request : k.kind \in Kinds
    BY DEF Request
  <2>2. "none" \notin Kinds
    BY ConstantsAssumption DEF BusKinds
  <2>3. NoReq \notin Request
    BY <2>1, <2>2 DEF NoReq
  <2>4. QED BY <1>1, <2>3 DEF TypeOK, EvenAll, InStep
<1>4. (st_p \in EvenStates \/ "retry" \in term) /\ ~req_last => req' = req /\ req = cyc
  BY <1>1, <1>2, <1>3 DEF HeldInv, Presented
<1>5. CASE "retry" \in term
  <2>1. ~req_last
    BY <1>5 DEF req_last
  <2>2. req' = cyc
    BY <1>4, <1>5, <2>1
  <2>3. cyc' = cyc
    BY <1>1, <2>2 DEF Rising
  <2>4. cyc' \in Request /\ ~cyc_is_rmw'
    BY <1>2, <1>5, <2>3 DEF HeldInv, cyc_is_rmw
  <2>5. st_p' \notin Modify \cup WriteTransfer \cup {"BE20"}
    BY <1>2, <1>5, RisingPath DEF Modify, WriteTransfer, HeldInv, FlagInv
  <2>6. QED BY <1>1, <1>5, <2>2, <2>3, <2>4, <2>5 DEF HeldInv
<1>6. CASE "retry" \notin term /\ st_p' \in EvenStates \ {"S0"}
  <2>1. /\ cyc' = cyc /\ st_p \in EvenStates
        /\ ~req_last
        /\ st_p' \in Modify \cup WriteTransfer \cup {"BE20"} => cyc_is_rmw
    BY <1>2, <1>6, RisingPath
       DEF EvenStates, req_last, Modify, WriteTransfer, HeldInv
  <2>2. req' = cyc'
    BY <1>4, <2>1
  <2>3. st_p' # "RETRY"
    BY <1>6 DEF EvenStates
  <2>4. QED BY <1>1, <1>2, <1>6, <2>1, <2>2, <2>3 DEF HeldInv, cyc_is_rmw
<1>7. CASE "retry" \notin term /\ st_p' \in RestStates \cup {"S0"}
  <2>1. st_p' # "RETRY"
    BY <1>2, <1>3, <1>7, RisingEnd DEF HeldInv
  <2>2. st_p' = "S0" => cyc' = r /\ r # NoReq
    BY <1>2, <1>7, RisingEnd DEF HeldInv
  <2>3. st_p' \notin Modify \cup WriteTransfer \cup {"BE20"}
    BY <1>7 DEF Modify, WriteTransfer, RestStates
  <2>4. st_p' \in EvenStates => st_p' = "S0"
    BY <1>7 DEF RestStates, EvenStates
  <2>5. QED BY <1>1, <1>7, <2>1, <2>2, <2>3, <2>4 DEF HeldInv
<1>8. QED BY <1>5, <1>6, <1>7, RisingPath

LEMMA RisingBook ==
  ASSUME TypeOK, InStep, TransferInv, NEW r, Rising(r)
  PROVE  SilentInv' /\ FlagInv' /\ EndInv'
<1>1. /\ clk = "low" /\ clk' = "high" /\ req_ack' = req_last
      /\ UNCHANGED <<term, end_code, st_n>>
  BY DEF Rising, bookk
<1>2. st_p \in EvenAll /\ st_n \in OddOf(st_p)
  BY <1>1 DEF TypeOK, EvenAll, InStep
<1>3. SilentInv'
  BY <1>1, RisingPath DEF SilentInv, EvenStates, req_last, HeldInv, TransferInv, FlagInv
<1>4. FlagInv'
  <2>1. Unended' => Unended \/ st_p' = "M8"
    BY <1>1, RisingPath DEF Unended, Modify
  <2>2. st_p' = "M8" => term \cap {"berr", "retry"} = {}
    BY <1>1, RisingPath DEF TransferInv, HeldInv
  <2>3. QED
    BY <1>1, <2>1, <2>2, RisingPath DEF TransferInv, FlagInv
<1>5. EndInv'
  <2>1. Ended' => Ended
    BY <1>1, RisingPath DEF Ended, Modify, WriteTransfer
  <2>2. QED BY <1>1, <2>1 DEF TransferInv, EndInv
<1>6. QED BY <1>3, <1>4, <1>5

LEMMA RisingPads ==
  ASSUME TypeOK, InStep, TransferInv, NEW r, Rising(r)
  PROVE  AddrInv' /\ DsInv' /\ DataInv' /\ RwInv' /\ HoldInv'
<1>1. /\ clk = "low" /\ clk' = "high" /\ st_p' = st_p_nxt(r)
      /\ UNCHANGED <<st_n, a_o, d_o, sync>>
      /\ "ds" \in q' <=> "ds" \in q \/ ds_set(r)
      /\ "aoe" \in q' <=> "aoe" \in q /\ ~aoe_clr(r)
      /\ "doe" \in q' <=> "doe" \in q /\ ~doe_clr
  BY DEF Rising, When, inputs
<1>2. st_p \in EvenAll /\ st_n \in OddAll /\ st_n \in OddOf(st_p)
  BY <1>1 DEF TypeOK, EvenAll, OddAll, InStep
<1>3. AddrInv'
  <2>1. SUFFICES ASSUME st_p' \in {"S2", "S4", "WH", "S6"} \cup Modify \cup WriteTransfer
                 PROVE  "aoe" \in q' /\ a_o' = cyc'.id
    BY <1>1 DEF AddrInv, Begun
  <2>2. /\ cyc' = cyc
        /\ Begun \/ st_p \in {"S6"} \cup Modify \cup WriteTransfer
        /\ st_n = "S7" => st_p' = "M8"
        /\ st_n \notin {"S19", "BE9", "BE21"}
    BY <1>1, <2>1, RisingPath DEF Begun, Modify, WriteTransfer
  <2>3. QED BY <1>1, <2>2 DEF TransferInv, AddrInv, aoe_clr
<1>4. DsInv'
  <2>1. st_p' \notin {"S0"} => cyc' = cyc
    BY RisingPath
  <2>2. "ds" \in q' <=> DsSpan \/ ds_set(r)
    BY <1>1 DEF TransferInv, DsInv
  <2>3. DsSpan <=> (st_p = "S2" /\ ~cyc_is_write) \/ st_p \in {"S4", "WH", "S16", "WH2"}
    BY <1>1 DEF DsSpan
  <2>4. DsSpan <=> \/ st_n = "S3" /\ ~cyc_is_write
                   \/ st_n \in {"S5", "WL", "S17", "WL2"}
    BY <1>2, <2>3 DEF OddOf, EvenAll, RestStates, EvenStates
  <2>5. /\ st_n = "S3" <=> st_p' = "S4"
        /\ st_n \in {"S5", "WL"} <=> st_p' \in {"S6", "WH"}
        /\ st_n \in {"S17", "WL2"} <=> st_p' \in {"S18", "WH2"}
    BY <1>1, <1>2, EvenStep DEF st_p_nxt, OddAll, RestStates, OddStates
  <2>6. ds_set(r) <=> \/ st_p' = "S2" /\ ~cyc_is_write
                      \/ st_p' = "S4" /\ cyc_is_write
                      \/ st_p' = "S16"
    BY <1>1 DEF ds_set
  <2>7. DsSpan' <=> \/ st_p' = "S2" /\ ~cyc_is_write
                    \/ st_p' \in {"S4", "WH", "S16", "WH2", "S6", "S18"}
    BY <1>1, <2>1 DEF DsSpan, cyc_is_write
  <2>8. QED BY <2>2, <2>4, <2>5, <2>6, <2>7 DEF DsInv
<1>5. DataInv'
  <2>1. "doe" \in q <=> \/ cyc_is_write /\ st_n \in {"S3", "S5", "WL", "S7"}
                        \/ st_n \in {"S15", "S17", "WL2", "S19"}
    <3>1. "doe" \in q <=> \/ cyc_is_write /\ st_p \in {"S2", "S4", "WH", "S6"}
                          \/ st_p \in {"S14", "S16", "WH2", "S18"}
      BY <1>1 DEF TransferInv, DataInv, DataSpan, ReadTransfer, WriteTransfer
    <3>2. QED
      BY <1>2, <3>1 DEF OddOf, EvenAll, RestStates, EvenStates
  <2>2. /\ st_n = "S3" <=> st_p' = "S4"
        /\ st_n \in {"S5", "WL"} <=> st_p' \in {"S6", "WH"}
        /\ st_n \in {"S17", "WL2"} <=> st_p' \in {"S18", "WH2"}
        /\ st_n = "S15" <=> st_p' = "S16"
    BY <1>1, <1>2, EvenStep DEF st_p_nxt, OddAll, RestStates, OddStates
  <2>3. doe_clr <=> st_n \in {"S7", "S19", "BE9", "BE21"}
    BY DEF doe_clr
  <2>4. st_p' # "S0" => cyc' = cyc
    BY RisingPath
  <2>5. DataSpan' <=> \/ cyc_is_write /\ st_p' \in {"S4", "WH", "S6"}
                      \/ st_p' \in {"S16", "WH2", "S18"}
    BY <1>1, <2>4 DEF DataSpan, ReadTransfer, WriteTransfer, cyc_is_write
  <2>6. "doe" \in q' <=> DataSpan'
    BY <1>1, <2>1, <2>2, <2>3, <2>5
  <2>7. DataSpan' => d_o' = cyc'.id
    <3>1. DataSpan' => "doe" \in q /\ cyc' = cyc
      BY <1>1, <2>4, <2>5, <2>6
    <3>2. QED BY <1>1, <3>1 DEF TransferInv, DataInv
  <2>8. QED BY <2>6, <2>7 DEF DataInv
<1>6. RwInv'
  <2>1. rw_o' = CASE st_p' \in RestStates \cup {"S0"} -> "r"
                  [] st_p' = "S2" /\ cyc_is_write     -> "w"
                  [] st_p' = "S14"                    -> "w"
                  [] OTHER                            -> rw_o
    BY <1>1 DEF Rising
  <2>2. CASE st_p' \in {"S0", "S14"}
    BY <2>1, <2>2 DEF RwInv, RestStates, ReadTransfer, WriteTransfer
  <2>3. CASE st_p' = "S2"
    <3>1. cyc' = cyc /\ rw_o = "r"
      BY <2>3, RisingPath DEF TransferInv, RwInv
    <3>2. rw_o' = IF cyc_is_write THEN "w" ELSE "r"
      BY <2>1, <2>3, <3>1 DEF RestStates
    <3>3. QED BY <2>3, <3>1, <3>2 DEF RwInv, ReadTransfer, WriteTransfer, cyc_is_write
  <2>4. CASE st_p' \in ReadTransfer \cup WriteTransfer
    <3>1. rw_o' = rw_o
      BY <2>1, <2>4 DEF RestStates, ReadTransfer, WriteTransfer
    <3>2. /\ cyc' = cyc
          /\ st_p' \in ReadTransfer => st_p \in {"S2"} \cup ReadTransfer
          /\ st_p' \in WriteTransfer => st_p \in {"S14"} \cup WriteTransfer
      BY <2>4, RisingPath DEF ReadTransfer, WriteTransfer
    <3>3. QED
      BY <2>4, <3>1, <3>2 DEF TransferInv, RwInv, ReadTransfer, WriteTransfer, cyc_is_write
  <2>5. CASE st_p' \notin {"S0", "S2", "S14"} \cup ReadTransfer \cup WriteTransfer
    BY <2>5 DEF RwInv
  <2>6. QED BY <2>2, <2>3, <2>4, <2>5
<1>7. HoldInv'
  <2>1. SUFFICES ASSUME st_p' \in EvenStates \ {"S0"}, ctl_oe', "reset" \notin sync
                 PROVE  a_hold'
    BY <1>1 DEF HoldInv
  <2>2. st_p \notin {"HALT", "RETRY"}
    BY <2>1, RisingPath DEF EvenStates
  <2>3. ~arb_bus_released_nxt
    BY <2>1 DEF Rising
  <2>4. QED BY <2>1, <2>2, <2>3 DEF Rising
<1>8. QED BY <1>3, <1>4, <1>5, <1>6, <1>7

-----------------------------------------------------------------------------
\* What sampling does to the flags of the attempt.
LEMMA Sampling ==
  ASSUME TypeOK, NEW a, Falling(a)
  PROVE  /\ st_p = "S0" => term' = {} /\ end_code' = "NONE"
         /\ samp_edge /\ samp_retry(a) => "retry" \in term' /\ end_code' = "RERUN"
         /\ samp_edge /\ samp_berr(a) => "berr" \in term' /\ end_code' = "BERR"
         /\ "retry" \in term' \ term => /\ ~cyc_is_rmw
                                        /\ end_code' = "RERUN"
                                        /\ samp_edge \/ (st_p = "S6" /\ end_code = "DTACK")
         /\ "berr" \in term' \ term => samp_edge /\ samp_berr(a)
         /\ "vpa" \in term' \ term => samp_edge /\ samp_vpa(a)
         /\ "vma" \in term' \ term => vma_set(a)
         /\ st_p # "S0" => term \cap {"retry", "berr", "late", "vpa", "vma"} \subseteq term'
         /\ samp_edge /\ DtackIn(a) /\ ~BerrIn(a) =>
               end_code' = "DTACK" /\ term_halt \subseteq term'
         /\ samp_edge /\ samp_vpa(a) =>
               /\ "vpa" \in term'
               /\ end_code' = IF cyc_is_iack THEN "AVEC" ELSE "VPA"
         /\ samp_edge /\ ~DtackIn(a) /\ ~BerrIn(a) /\ ~samp_vpa(a) =>
               end_code' = end_code /\ term' \subseteq term \cup {"vma"}
         /\ LateWindow(a) => term' \cap {"late", "retry"} # {}
         /\ st_p # "S0" /\ ~samp_edge /\ ~LateWindow(a) =>
               end_code' = end_code /\ term' = term
<1>1. term' = term_nxt(a) /\ end_code' = end_code_nxt(a)
  BY DEF Falling
<1>2. /\ samp_edge => st_p # "S0" /\ ~LateWindow(a)
      /\ LateWindow(a) => st_p = "S6" /\ end_code = "DTACK" /\ BerrIn(a)
  BY DEF samp_edge, LateWindow
<1>3. CASE st_p = "S0"
  BY <1>1, <1>2, <1>3 DEF term_nxt, end_code_nxt
<1>4. CASE samp_edge
  <2> DEFINE vset == IF vma_set(a) THEN {"vma"} ELSE {}
  <2>1. vset \subseteq {"vma"} /\ ("vma" \in vset => vma_set(a))
    OBVIOUS
  <2>2. term' = (IF samp_retry(a)     THEN term \cup {"retry"}
                 ELSE IF samp_berr(a) THEN term \cup {"berr"}
                 ELSE IF DtackIn(a)   THEN (term \ {"halt"}) \cup term_halt
                 ELSE IF samp_vpa(a)  THEN term \cup {"vpa"}
                 ELSE term) \cup vset
    BY <1>1, <1>2, <1>4 DEF term_nxt
  <2>3. end_code' = IF samp_retry(a)     THEN "RERUN"
                    ELSE IF samp_berr(a) THEN "BERR"
                    ELSE IF DtackIn(a)   THEN "DTACK"
                    ELSE IF samp_vpa(a)
                         THEN (IF cyc_is_iack THEN "AVEC" ELSE "VPA")
                    ELSE end_code
    BY <1>1, <1>2, <1>4 DEF end_code_nxt
  <2>4. term_halt \subseteq {"halt"}
    BY DEF term_halt
  <2>5. /\ samp_retry(a) => ~cyc_is_rmw /\ ~samp_berr(a) /\ BerrIn(a)
        /\ BerrIn(a) => samp_retry(a) \/ samp_berr(a)
        /\ samp_berr(a) => BerrIn(a)
        /\ samp_vpa(a) => ~BerrIn(a) /\ ~DtackIn(a)
    BY DEF samp_retry, samp_berr, samp_vpa, BerrIn, DtackIn, VpaIn
  <2> HIDE DEF vset
  <2>6. QED BY <1>2, <1>4, <2>1, <2>2, <2>3, <2>4, <2>5
<1>5. CASE st_p # "S0" /\ ~samp_edge
  BY <1>1, <1>2, <1>5 DEF term_nxt, end_code_nxt, late_flag, LateRetry
<1>6. QED BY <1>2, <1>3, <1>4, <1>5

LEMMA FallingBook ==
  ASSUME TypeOK, InStep, TransferInv, NEW a \in Answers, Falling(a)
  PROVE  HeldInv' /\ SilentInv' /\ FlagInv' /\ EndInv'
<1>1. clk = "high" /\ clk' = "low" /\ UNCHANGED <<st_p, cyc, req, req_ack>>
  BY DEF Falling, seqif
<1>2. HeldInv'
  <2>1. "retry" \in term' => "retry" \in term \/ (st_p \in EvenStates /\ ~cyc_is_rmw)
    BY Sampling DEF samp_edge, EvenStates
  <2>2. st_p = "RETRY" => (st_p # "S0" /\ "retry" \in term)
    BY DEF TransferInv, HeldInv
  <2>3. st_p = "RETRY" => "retry" \in term'
    BY <2>2, Sampling
  <2>4. QED BY <1>1, <2>1, <2>3 DEF TransferInv, HeldInv, cyc_is_rmw
<1>3. SilentInv'
  BY <1>1 DEF TransferInv, SilentInv
<1>4. FlagInv'
  <2>1. "berr" \in term' => "retry" \notin term' /\ end_code' = "BERR"
    <3>1. CASE st_p = "S0"
      BY <3>1, Sampling
    <3>2. CASE samp_edge
      <4>1. "berr" \notin term /\ "retry" \notin term
        BY <1>1, <3>2 DEF TransferInv, FlagInv, Unended, samp_edge
      <4>2. "berr" \in term' => samp_berr(a) /\ ~samp_retry(a) /\ end_code' = "BERR"
        BY <3>2, <4>1, Sampling DEF samp_berr
      <4>3. "retry" \in term' => end_code' = "RERUN"
        BY <4>1, Sampling
      <4>4. QED BY <4>2, <4>3
    <3>3. CASE st_p # "S0" /\ ~samp_edge
      <4>1. "berr" \in term' => "berr" \in term
        BY <3>3, Sampling
      <4>2. "berr" \in term => ~LateWindow(a)
        BY DEF TransferInv, FlagInv, LateWindow
      <4>3. QED BY <3>3, <4>1, <4>2, Sampling DEF TransferInv, FlagInv
    <3>4. QED BY <3>1, <3>2, <3>3
  <2>2. Unended' => term' \cap {"berr", "retry"} = {}
    <3>1. SUFFICES ASSUME Unended' PROVE "berr" \notin term' /\ "retry" \notin term'
      OBVIOUS
    <3>2. \/ st_p = "S0"
          \/ st_p \in {"S2"} \cup Modify
          \/ samp_edge /\ ~samp_done(a)
      BY <1>1, <3>1, FallingPath DEF Unended, samp_edge
    <3>3. CASE st_p = "S0"
      BY <3>3, Sampling
    <3>4. CASE st_p \in {"S2"} \cup Modify
      <4>1. ~samp_edge /\ st_p \notin {"S0", "S6"}
        BY <3>4 DEF samp_edge, Modify
      <4>2. term' = term
        BY <4>1, Sampling DEF LateWindow
      <4>3. QED BY <1>1, <3>4, <4>2 DEF TransferInv, FlagInv, Unended
    <3>5. CASE samp_edge /\ ~samp_done(a)
      <4>1. "berr" \notin term /\ "retry" \notin term
        BY <1>1, <3>5 DEF TransferInv, FlagInv, Unended, samp_edge
      <4>2. ~samp_berr(a) /\ ~samp_retry(a) /\ ~DtackIn(a)
        BY <3>5 DEF samp_done
      <4>3. ~BerrIn(a)
        BY <4>2 DEF samp_berr
      <4>4. "berr" \notin term'
        BY <4>1, <4>2, Sampling
      <4>5. "retry" \notin term'
        <5>1. CASE samp_vpa(a)
          BY <3>5, <4>1, <5>1, Sampling
        <5>2. CASE ~samp_vpa(a)
          BY <3>5, <4>1, <4>2, <4>3, <5>2, Sampling
        <5>3. QED BY <5>1, <5>2
      <4>6. QED BY <4>4, <4>5
    <3>6. QED BY <3>2, <3>3, <3>4, <3>5
  <2>3. st_p' \in {"BE8", "BE20"} => "berr" \in term'
    <3>1. st_p' \in {"BE8", "BE20"} => st_p # "S0" /\ "berr" \in term
      BY <1>1 DEF TransferInv, FlagInv
    <3>2. QED BY <3>1, Sampling
  <2>4. QED BY <2>1, <2>2, <2>3 DEF FlagInv
<1>5. EndInv'
  <2> DEFINE Good == end_code \in {"DTACK", "VPA", "AVEC"} \/ term \cap {"berr", "late", "retry"} # {}
  <2>1. SUFFICES ASSUME Ended' \/ "vpa" \in term' PROVE Good'
    BY DEF EndInv
  <2>2. Ended \/ "vpa" \in term => Good
    BY DEF TransferInv, EndInv
  <2>3. CASE st_p = "S0"
    <3>1. ~Ended' /\ term' = {}
      BY <1>1, <2>3, FallingPath, Sampling DEF Ended, Modify, WriteTransfer
    <3>2. QED BY <2>1, <3>1
  <2>4. CASE samp_edge /\ (DtackIn(a) \/ BerrIn(a) \/ samp_vpa(a))
    <3>1. BerrIn(a) => samp_retry(a) \/ samp_berr(a)
      BY DEF samp_retry, samp_berr
    <3>2. QED BY <2>4, <3>1, Sampling
  <2>5. CASE samp_edge /\ ~(DtackIn(a) \/ BerrIn(a) \/ samp_vpa(a))
    <3>1. end_code' = end_code
      BY <2>5, Sampling
    <3>2. "vpa" \in term' => "vpa" \in term
      BY <2>5, Sampling
    <3>3. ~samp_berr(a) /\ ~samp_retry(a)
      BY <2>5 DEF samp_berr, samp_retry
    <3>4. Ended' => Ended \/ "vpa" \in term
      BY <1>1, <2>5, <3>3, FallingPath DEF Ended, samp_done
    <3>5. st_p # "S0"
      BY <2>5 DEF samp_edge
    <3>6. term \cap {"berr", "late", "retry"} \subseteq term'
      BY <3>5, Sampling
    <3>7. QED BY <2>1, <2>2, <3>1, <3>2, <3>4, <3>6
  <2>6. CASE st_p # "S0" /\ ~samp_edge
    <3>1. CASE LateWindow(a)
      BY <3>1, Sampling
    <3>2. CASE ~LateWindow(a)
      <4>1. end_code' = end_code /\ term' = term
        BY <2>6, <3>2, Sampling
      <4>2. Ended' => Ended
        BY <1>1, <2>6, FallingPath DEF Ended, samp_edge
      <4>3. QED BY <2>1, <2>2, <4>1, <4>2
    <3>3. QED BY <3>1, <3>2
  <2>7. QED BY <2>3, <2>4, <2>5, <2>6
<1>6. QED BY <1>2, <1>3, <1>4, <1>5

LEMMA FallingPads ==
  ASSUME TypeOK, InStep, TransferInv, NEW a \in Answers, Falling(a)
  PROVE  AddrInv' /\ DsInv' /\ DataInv' /\ RwInv' /\ HoldInv'
<1>1. /\ clk = "high" /\ clk' = "low" /\ UNCHANGED <<st_p, cyc, rw_o, ctl_oe, a_hold>>
      /\ st_p \in EvenAll
      /\ "ds" \in q' <=> "ds" \in q /\ ~ds_clr(a)
      /\ "aoe" \in q' <=> "aoe" \in q \/ aoe_set(a)
      /\ "doe" \in q' <=> "doe" \in q \/ doe_set(a)
      /\ a_o' = IF aoe_set(a) THEN cyc.id ELSE a_o
      /\ d_o' = IF doe_set(a) THEN req.id ELSE d_o
  BY DEF Falling, seqif, When, TypeOK, EvenAll
<1>2. /\ aoe_set(a) <=> st_p = "S0"
      /\ ds_clr(a) <=> st_p \in {"S6", "S18"}
      /\ doe_set(a) <=> (st_p = "S2" /\ cyc_is_write) \/ st_p = "S14"
  <2>1. st_n_nxt(a) = "S1" <=> st_p = "S0"
    BY <1>1 DEF st_n_nxt, EvenAll, RestStates, EvenStates
  <2>2. QED BY <2>1, FallingPath DEF aoe_set, ds_clr, doe_set
<1>3. AddrInv'
  BY <1>1, <1>2 DEF TransferInv, AddrInv, Begun
<1>4. DsInv'
  BY <1>1, <1>2 DEF TransferInv, DsInv, DsSpan, cyc_is_write
<1>5. DataInv'
  <2>1. DataSpan' <=> DataSpan \/ doe_set(a)
    BY <1>1, <1>2 DEF DataSpan, ReadTransfer, WriteTransfer, cyc_is_write
  <2>2. doe_set(a) => req = cyc
    BY <1>2 DEF TransferInv, HeldInv, EvenStates
  <2>3. QED BY <1>1, <2>1, <2>2 DEF TransferInv, DataInv
<1>6. RwInv'
  BY <1>1 DEF TransferInv, RwInv, cyc_is_write
<1>7. HoldInv'
  BY <1>1 DEF HoldInv
<1>8. QED BY <1>3, <1>4, <1>5, <1>6, <1>7

LEMMA TransferStep == TypeOK /\ OwnershipInv /\ TransferInv /\ [Next]_vars => TransferInv'
<1> SUFFICES ASSUME TypeOK, OwnershipInv, TransferInv, [Next]_vars PROVE TransferInv'
  OBVIOUS
<1>1. InStep
  BY DEF OwnershipInv
<1>2. CASE \E r \in Request \cup {NoReq} : Rising(r)
  BY <1>1, <1>2, RisingHeld, RisingBook, RisingPads DEF TransferInv
<1>3. CASE \E a \in Answers : Falling(a)
  BY <1>1, <1>3, FallingBook, FallingPads DEF TransferInv
<1>4. CASE UNCHANGED <<fsm, seqif, bookk, pads, sync>>
  <2>1. UNCHANGED <<clk, st_p, st_n, cyc, req, req_ack, term, end_code, q, ctl_oe,
                    a_hold, rw_o, a_o, d_o, sync>>
    BY <1>4 DEF fsm, seqif, bookk, pads
  <2>2. HeldInv' /\ SilentInv' /\ FlagInv' /\ EndInv' /\ AddrInv'
    BY <2>1 DEF TransferInv, HeldInv, cyc_is_rmw, SilentInv, FlagInv, Unended,
                EndInv, Ended, AddrInv, Begun
  <2>3. DsInv' /\ DataInv' /\ RwInv' /\ HoldInv'
    BY <2>1 DEF TransferInv, DsInv, DsSpan, cyc_is_write, DataInv, DataSpan,
                RwInv, HoldInv
  <2>4. QED BY <2>2, <2>3 DEF TransferInv
<1>5. CASE \/ MasterRequest \/ MasterAcknowledge \/ MasterDropRequest
           \/ MasterRelease \/ \E p \in {"halt", "reset"} : BoardPin(p)
  BY <1>4, <1>5, PinSteps DEF OnlyPins
<1>6. CASE UNCHANGED vars
  BY <1>4, <1>6 DEF vars, inputs
<1>7. QED BY <1>2, <1>3, <1>5, <1>6 DEF Next

(***************************************************************************)
(* The ownership and the transfer invariants together.                     *)
(***************************************************************************)
BusInv == TypeOK /\ OwnershipInv /\ TransferInv

LEMMA BusInvAlways == Spec => []BusInv
<1>1. Init => BusInv
  BY InitType, InitOwnership, InitTransfer DEF BusInv
<1>2. BusInv /\ TypeOK' /\ [Next]_vars => BusInv'
  BY OwnershipStep, TransferStep DEF BusInv
<1>3. QED BY <1>1, <1>2, TypeCorrect, PTL DEF Spec

\* Under AS the arbiter does not let the bus go.
LEMMA KeptUnderStrobe ==
  ASSUME TypeOK, OwnershipInv, "as" \in q
  PROVE  ctl_oe /\ ~arb_bus_released_nxt
<1>1. ctl_oe /\ arb_st # "ACK"
  BY DEF OwnershipInv, CycleInv
<1>2. arb_st = "GRANT" => "bgack" \notin sync
  BY DEF OwnershipInv, AckInv
<1>3. arb_st_nxt # "ACK"
  BY <1>1, <1>2, ArbStep DEF TypeOK
<1>4. QED BY <1>1, <1>3 DEF arb_bus_released_nxt

LEMMA DrivenNow == BusInv => TransferDriven
<1> SUFFICES ASSUME BusInv, clk = "high", "reset" \notin sync,
                    st_p \in ReadTransfer \cup WriteTransfer
             PROVE  /\ AsDriven /\ DsDriven /\ a_oe /\ a_o = cyc.id
                    /\ IF cyc_is_write \/ st_p \in WriteTransfer
                       THEN rw_o = "w" /\ d_oe /\ d_o = cyc.id
                       ELSE rw_o = "r" /\ "doe" \notin q
  BY DEF TransferDriven
<1>1. "as" \in q
  BY DEF BusInv, OwnershipInv, StrobeInv, StrobeSpan, ReadTransfer, WriteTransfer
<1>2. ctl_oe /\ ~arb_bus_released_nxt
  BY <1>1, KeptUnderStrobe DEF BusInv
<1>3. "ds" \in q
  BY DEF BusInv, TransferInv, DsInv, DsSpan, ReadTransfer, WriteTransfer
<1>4. "aoe" \in q /\ a_o = cyc.id
  BY DEF BusInv, TransferInv, AddrInv, Begun, ReadTransfer, WriteTransfer
<1>5. a_hold
  BY <1>2 DEF BusInv, TransferInv, HoldInv, EvenStates, ReadTransfer, WriteTransfer
<1>6. CASE cyc_is_write \/ st_p \in WriteTransfer
  <2>1. DataSpan
    BY <1>6 DEF DataSpan
  <2>2. "doe" \in q /\ d_o = cyc.id
    BY <2>1 DEF BusInv, TransferInv, DataInv
  <2>3. rw_o = "w"
    BY <1>6 DEF BusInv, TransferInv, RwInv
  <2>4. QED
    BY <1>1, <1>2, <1>3, <1>4, <1>5, <1>6, <2>2, <2>3
       DEF AsDriven, DsDriven, a_oe, d_oe
<1>7. CASE ~cyc_is_write /\ st_p \notin WriteTransfer
  <2>1. "doe" \notin q
    BY <1>7 DEF BusInv, TransferInv, DataInv, DataSpan, ReadTransfer, WriteTransfer
  <2>2. rw_o = "r"
    BY <1>7 DEF BusInv, TransferInv, RwInv
  <2>3. QED
    BY <1>1, <1>2, <1>3, <1>4, <1>5, <1>7, <2>1, <2>2 DEF AsDriven, DsDriven, a_oe
<1>8. QED BY <1>6, <1>7

(* While a slave is asked to answer, the strobes, the address, the         *)
(* direction and the data on the pins are those of this request, whatever  *)
(* arbitration, HALT, retries and RESET did before: for every kind of      *)
(* cycle, slave and environment.                                           *)
THEOREM TransferDrivenAlways == Spec => []TransferDriven
BY BusInvAlways, DrivenNow, PTL

(* A read-modify-write holds AS and the address, with the data strobes     *)
(* negated, from its read half across the modify states to its write half. *)
THEOREM RMWIndivisibleAlways == Spec => []RMWIndivisible
<1>1. BusInv => RMWIndivisible
  <2> SUFFICES ASSUME BusInv, st_p \in Modify
               PROVE  AsDriven /\ a_o = cyc.id /\ "aoe" \in q /\ "ds" \notin q
    BY DEF RMWIndivisible
  <2>1. "as" \in q
    BY DEF BusInv, OwnershipInv, StrobeInv, StrobeSpan
  <2>2. ctl_oe
    BY <2>1, KeptUnderStrobe DEF BusInv
  <2>3. "aoe" \in q /\ a_o = cyc.id
    BY DEF BusInv, TransferInv, AddrInv
  <2>4. "ds" \notin q
    BY DEF BusInv, TransferInv, DsInv, DsSpan, Modify
  <2>5. QED BY <2>1, <2>2, <2>3, <2>4 DEF AsDriven
<1>2. QED BY <1>1, BusInvAlways, PTL

-----------------------------------------------------------------------------
\* With RESET left alone, the word a read latches is its own.
LEMMA ReadStep ==
  ASSUME "reset" \notin FreePins, BusInv, ReadInv, [Next]_vars
  PROVE  ReadInv'
<1>1. CASE \E r \in Request \cup {NoReq} : Rising(r)
  <2>1. PICK r : Rising(r)
    BY <1>1
  <2>2. /\ clk = "low" /\ clk' = "high" /\ UNCHANGED <<rdata, pin, meta, sync>>
        /\ TypeOK /\ InStep
    BY <2>1 DEF Rising, bookk, inputs, BusInv, OwnershipInv
  <2>3. ReadSpan' => ReadSpan /\ cyc' = cyc
    BY <2>1, <2>2, RisingPath DEF ReadSpan, Modify, WriteTransfer, cyc_is_write
  <2>4. QED BY <2>2, <2>3 DEF ReadInv, NoReset
<1>2. CASE \E a \in Answers : Falling(a)
  <2>1. PICK a \in Answers : Falling(a)
    BY <1>2
  <2>2. /\ clk = "high" /\ clk' = "low" /\ UNCHANGED <<st_p, cyc, pin>>
        /\ meta' = pin /\ sync' = meta
        /\ rdata' = IF st_p = "S6" THEN Addressed ELSE rdata
    BY <2>1 DEF Falling, seqif
  <2>3. NoReset'
    BY <2>2 DEF ReadInv, NoReset
  <2>4. CASE st_p = "S6"
    <3>1. AsDriven /\ DsDriven /\ a_oe /\ a_o = cyc.id
      BY <2>2, <2>4, DrivenNow DEF TransferDriven, ReadTransfer, ReadInv, NoReset
    <3>2. QED BY <2>2, <2>3, <2>4, <3>1 DEF ReadInv, Addressed
  <2>5. CASE st_p # "S6"
    <3>1. ReadSpan' => ReadSpan
      BY <2>2, <2>5 DEF ReadSpan, cyc_is_write
    <3>2. QED BY <2>2, <2>3, <2>5, <3>1 DEF ReadInv
  <2>6. QED BY <2>4, <2>5
<1>3. CASE UNCHANGED <<fsm, seqif, bookk, pads, sync>> /\ UNCHANGED meta
           /\ ("reset" \in pin' => "reset" \in pin)
  BY <1>3 DEF fsm, seqif, bookk, ReadInv, NoReset, ReadSpan, cyc_is_write
<1>4. CASE \/ MasterRequest \/ MasterAcknowledge \/ MasterDropRequest
           \/ MasterRelease \/ \E p \in {"halt", "reset"} : BoardPin(p)
  <2>1. "reset" \in pin' => "reset" \in pin
    BY <1>4 DEF MasterRequest, MasterAcknowledge, MasterDropRequest, MasterRelease,
                BoardPin, RaisePin, LowerPin
  <2>2. QED BY <1>3, <1>4, <2>1, PinSteps DEF OnlyPins
<1>5. CASE UNCHANGED vars
  BY <1>3, <1>5 DEF vars, inputs
<1>6. QED BY <1>1, <1>2, <1>4, <1>5 DEF Next

(* A cycle is reported finished to the request that asked for it, a report *)
(* without fault is of a transfer the slave acknowledged, and a read's     *)
(* data is the word at the address asked for.  RESET is left alone: it     *)
(* withdraws the address of the cycle it abandons.                         *)
THEOREM ReportIsTrueAlways ==
  ASSUME "reset" \notin FreePins
  PROVE  Spec => []ReportIsTrue
<1>1. Init => ReadInv
  BY DEF Init, ReadInv, NoReset, ReadSpan, Modify, WriteTransfer
<1>2. BusInv /\ ReadInv /\ [Next]_vars => ReadInv'
  BY ReadStep
<1>3. BusInv /\ ReadInv => ReportIsTrue
  <2> SUFFICES ASSUME BusInv, ReadInv, clk = "low", req_last
               PROVE  /\ cyc = req
                      /\ ~req_fault => end_code \in {"DTACK", "VPA", "AVEC"}
                      /\ ~req_fault /\ ~cyc_is_write => rdata = cyc.id
    BY DEF ReportIsTrue
  <2>1. st_p \in EvenAll /\ st_n \in OddOf(st_p)
    BY DEF BusInv, TypeOK, EvenAll, OwnershipInv, InStep
  <2>2. st_n \in {"S7", "S19", "BE9", "BE21"} /\ "retry" \notin term
    BY DEF req_last
  <2>3. st_p \in {"S6", "S18", "BE8", "BE20"}
    BY <2>1, <2>2 DEF OddOf, EvenAll, RestStates, EvenStates
  <2>4. cyc = req
    BY <2>3 DEF BusInv, TransferInv, HeldInv, EvenStates
  <2>5. ~req_fault => end_code \in {"DTACK", "VPA", "AVEC"}
    BY <2>2, <2>3 DEF BusInv, TransferInv, EndInv, Ended, WriteTransfer, req_fault
  <2>6. ~cyc_is_write => rdata = cyc.id
    BY <2>3 DEF ReadInv, ReadSpan, WriteTransfer
  <2>7. QED BY <2>4, <2>5, <2>6
<1>4. QED BY <1>1, <1>2, <1>3, BusInvAlways, PTL DEF Spec

-----------------------------------------------------------------------------
\* A step that is not a clock edge leaves everything but the pins as it is.
LEMMA EdgesOnly ==
  ASSUME [Next]_vars,
         ~ \E r \in Request \cup {NoReq} : Rising(r),
         ~ \E a \in Answers : Falling(a)
  PROVE  UNCHANGED <<clk, st_p, st_n, cyc, req, req_ack, term, end_code, q, ctl_oe,
                     meta, sync, e_cnt, ans>>
<1>1. CASE \/ MasterRequest \/ MasterAcknowledge \/ MasterDropRequest
           \/ MasterRelease \/ \E p \in {"halt", "reset"} : BoardPin(p)
  BY <1>1, PinSteps DEF OnlyPins, fsm, seqif, bookk, pads
<1>2. CASE UNCHANGED vars
  BY <1>2 DEF vars, fsm, seqif, bookk, pads, inputs
<1>3. QED BY <1>1, <1>2 DEF Next

LEMMA HaltStep ==
  ASSUME "vpa" \notin Answers, BusInv, HaltInv, [Next]_vars
  PROVE  HaltInv'
<1> DEFINE Stops == term \cap {"halt", "retry", "berr"} # {}
<1>1. TypeOK /\ InStep
  BY DEF BusInv, OwnershipInv
<1>2. CASE \E r \in Request \cup {NoReq} : Rising(r)
  <2>1. PICK r : Rising(r)
    BY <1>2
  <2>2. clk = "low" /\ clk' = "high" /\ UNCHANGED <<st_n, term, meta>>
    BY <2>1 DEF Rising, bookk, inputs
  <2>3. /\ st_p' = "S6" => st_n = "S5"
        /\ st_p' = "S18" => st_n = "S17"
    BY <1>1, <2>1, RisingPath
  <2>4. QED BY <2>2, <2>3 DEF HaltInv
<1>3. CASE \E a \in Answers : Falling(a)
  <2>1. PICK a \in Answers : Falling(a)
    BY <1>3
  <2>2. clk = "high" /\ clk' = "low" /\ meta' = pin /\ sync' = meta
    BY <2>1 DEF Falling
  <2>3. ~samp_vpa(a) /\ "vpa" \notin term
    BY DEF samp_vpa, VpaIn, HaltInv
  <2>4. "vpa" \notin term'
    BY <1>1, <2>1, <2>3, Sampling
  <2>5. ASSUME st_n' \in {"S5", "S17"}, "halt" \in pin
        PROVE  Stops'
    <3>1. samp_edge /\ samp_done(a)
      BY <1>1, <2>1, <2>5, FallingPath DEF samp_edge
    <3>2. samp_retry(a) \/ samp_berr(a) \/ (DtackIn(a) /\ ~samp_retry(a) /\ ~samp_berr(a))
      BY <2>3, <3>1 DEF samp_done
    <3>3. CASE samp_retry(a) \/ samp_berr(a)
      BY <1>1, <2>1, <3>1, <3>3, Sampling
    <3>4. CASE DtackIn(a) /\ ~samp_retry(a) /\ ~samp_berr(a)
      <4>1. ~BerrIn(a)
        BY <3>4 DEF samp_berr
      <4>2. term_halt \subseteq term'
        BY <1>1, <2>1, <3>1, <3>4, <4>1, Sampling
      <4>3. "halt" \in term_halt
        BY <2>5 DEF term_halt
      <4>4. QED BY <4>2, <4>3
    <3>5. QED BY <3>2, <3>3, <3>4
  <2>6. ASSUME st_n' \in {"S7", "S19"}, "halt" \in meta
        PROVE  Stops'
    <3>1. st_p \in {"S6", "S18"}
      BY <1>1, <2>1, <2>6, FallingPath
    <3>2. Stops
      BY <2>2, <2>6, <3>1 DEF HaltInv
    <3>3. term \subseteq term'
      BY <2>1, <3>1 DEF Falling, term_nxt, samp_edge
    <3>4. QED BY <3>2, <3>3
  <2>7. QED BY <2>2, <2>4, <2>5, <2>6 DEF HaltInv
<1>4. CASE UNCHANGED <<clk, st_p, st_n, term, meta, sync>>
  BY <1>4 DEF HaltInv
<1>5. QED BY <1>2, <1>3, <1>4, EdgesOnly

(* HALT asserted at the edge that samples a cycle's termination keeps the  *)
(* next cycle from starting, whatever the arbiter does.  A cycle ended by  *)
(* VPA does not record HALT, so no slave answers VPA here.                 *)
THEOREM HaltHonouredAlways ==
  ASSUME "vpa" \notin Answers
  PROVE  Spec => HaltHonoured
<1>1. Init => HaltInv
  BY DEF Init, HaltInv
<1>2. BusInv /\ HaltInv /\ [Next]_vars => HaltInv'
  BY HaltStep
<1>3. BusInv /\ HaltInv /\ [Next]_vars =>
        [clk = "low" /\ st_n \in {"S7", "S19"} /\ "halt" \in sync => st_p' # "S0"]_vars
  <2> SUFFICES ASSUME BusInv, HaltInv, [Next]_vars, clk = "low",
                      st_n \in {"S7", "S19"}, "halt" \in sync, st_p' = "S0"
               PROVE  FALSE
    OBVIOUS
  <2>1. TypeOK /\ InStep
    BY DEF BusInv, OwnershipInv
  <2>2. st_p # "S0"
    BY <2>1 DEF InStep, OddOf
  <2>3. ~ \E a \in Answers : Falling(a)
    BY DEF Falling
  <2>4. PICK r : Rising(r)
    BY <2>2, <2>3, EdgesOnly
  <2>5. /\ "berr" \notin term /\ "halt" \notin term /\ "retry" \notin term
    BY <2>1, <2>4, RisingEnd DEF RestStates
  <2>6. QED BY <2>5 DEF HaltInv
<1>4. QED BY <1>1, <1>2, <1>3, BusInvAlways, PTL DEF Spec, HaltHonoured

-----------------------------------------------------------------------------
LEMMA EStep == BusInv /\ EInv /\ [Next]_vars => EInv'
<1> SUFFICES ASSUME BusInv, EInv, [Next]_vars PROVE EInv'
  OBVIOUS
<1>1. TypeOK /\ InStep
  BY DEF BusInv, OwnershipInv
<1>2. CASE \E r \in Request \cup {NoReq} : Rising(r)
  <2>1. PICK r : Rising(r)
    BY <1>2
  <2>2. clk = "low" /\ clk' = "high" /\ UNCHANGED <<st_n, end_code, e_cnt>>
    BY <2>1 DEF Rising, bookk, inputs
  <2>3. /\ st_p' = "S6" => st_n = "S5"
        /\ st_p' = "S18" => st_n = "S17"
    BY <1>1, <2>1, RisingPath
  <2>4. QED BY <2>2, <2>3 DEF EInv
<1>3. CASE \E a \in Answers : Falling(a)
  <2>1. PICK a \in Answers : Falling(a)
    BY <1>3
  <2>2. /\ clk = "high" /\ clk' = "low"
        /\ e_cnt' = IF ERuns THEN e_cnt_nxt ELSE e_cnt
    BY <2>1 DEF Falling
  <2>3. ASSUME end_code' = "VPA", st_n' \in {"S5", "S17"}
        PROVE  e_last_high
    <3>1. samp_edge /\ samp_done(a)
      BY <1>1, <2>1, <2>3, FallingPath DEF samp_edge
    <3>2. ~samp_retry(a) /\ ~samp_berr(a) /\ ~(DtackIn(a) /\ ~BerrIn(a))
          /\ ~(samp_vpa(a) /\ cyc_is_iack)
      BY <1>1, <2>1, <2>3, <3>1, Sampling
    <3>3. ~DtackIn(a)
      BY <3>2 DEF samp_berr
    <3>4. QED BY <3>1, <3>2, <3>3 DEF samp_done
  <2>4. ~ERuns => e_cnt' = 0
    BY <2>2 DEF EInv
  <2>5. e_last_high => ERuns /\ e_cnt' = 9
    BY <2>2 DEF e_last_high, EInv, e_cnt_nxt, E_PERIOD_CLKS
  <2>6. QED BY <2>2, <2>3, <2>4, <2>5 DEF EInv
<1>4. CASE UNCHANGED <<clk, st_p, st_n, end_code, e_cnt>>
  BY <1>4 DEF EInv
<1>5. QED BY <1>2, <1>3, <1>4, EdgesOnly

(* An M6800 cycle enters its last state on the falling edge at which E     *)
(* goes low, in every kind of cycle and in both halves of a read-modify-   *)
(* write.                                                                  *)
THEOREM EndsWithEAlways == Spec => EndsWithE
<1>1. Init => EInv
  BY DEF Init, EInv
<1>2. BusInv /\ EInv /\ [Next]_vars =>
        [end_code = "VPA" /\ st_n' # st_n /\ st_n' \in {"S7", "S19"} => e_o /\ ~e_o']_vars
  <2> SUFFICES ASSUME BusInv, EInv, [Next]_vars, end_code = "VPA", st_n' # st_n,
                      st_n' \in {"S7", "S19"}
               PROVE  e_o /\ ~e_o'
    OBVIOUS
  <2>1. ~ \E r \in Request \cup {NoReq} : Rising(r)
    BY DEF Rising
  <2>2. PICK a \in Answers : Falling(a)
    BY <2>1, EdgesOnly
  <2>3. clk = "high" /\ st_p \in {"S6", "S18"}
    BY <2>2, FallingPath DEF BusInv
  <2>4. ERuns /\ e_cnt = 9
    BY <2>3 DEF EInv
  <2>5. e_cnt' = 0
    BY <2>2, <2>4 DEF Falling, e_cnt_nxt, E_PERIOD_CLKS
  <2>6. QED BY <2>4, <2>5 DEF e_o, E_LOW_CLKS
<1>3. QED BY <1>1, <1>2, EStep, BusInvAlways, PTL DEF Spec, EndsWithE

-----------------------------------------------------------------------------
LEMMA VmaStep == BusInv /\ VmaInv /\ [Next]_vars => VmaInv'
<1> SUFFICES ASSUME BusInv, VmaInv, [Next]_vars PROVE VmaInv'
  OBVIOUS
<1>1. TypeOK /\ InStep
  BY DEF BusInv, OwnershipInv
<1>2. CASE \E r \in Request \cup {NoReq} : Rising(r)
  <2>1. PICK r : Rising(r)
    BY <1>2
  <2>2. /\ clk = "low" /\ clk' = "high" /\ term' = term
        /\ "vma" \in q => "vma" \in q'
    BY <2>1 DEF Rising, bookk, When
  <2>3. Begun' \/ st_p' = "S6" => Begun
    BY <1>1, <2>1, <2>2, RisingPath DEF Begun
  <2>4. samp_edge' => st_n' \notin {"S5", "S17"}
    BY <1>1, <2>1, RisingPath DEF samp_edge, Rising
  <2>5. QED BY <2>2, <2>3, <2>4 DEF VmaInv
<1>3. CASE \E a \in Answers : Falling(a)
  <2>1. PICK a \in Answers : Falling(a)
    BY <1>3
  <2>2. /\ clk = "high" /\ clk' = "low" /\ st_p' = st_p
        /\ vma_set(a) /\ st_n' # "S7" => "vma" \in q'
        /\ "vma" \in q /\ st_n' # "S7" => "vma" \in q'
    BY <2>1 DEF Falling, When
  <2>3. SUFFICES ASSUME "vma" \in term', Begun' PROVE "vma" \in q'
    BY <2>2 DEF VmaInv
  <2>4. st_p # "S0"
    BY <1>1, <2>1, <2>3, Sampling
  <2>5. st_n' # "S7" /\ Begun
    BY <1>1, <2>1, <2>2, <2>3, <2>4, FallingPath DEF Begun
  <2>6. "vma" \in term \/ vma_set(a)
    BY <1>1, <2>1, <2>3, Sampling
  <2>7. QED BY <2>2, <2>5, <2>6 DEF VmaInv
<1>4. CASE UNCHANGED <<clk, st_p, st_n, term, q>>
  BY <1>4 DEF VmaInv, Begun, samp_edge
<1>5. QED BY <1>2, <1>3, <1>4, EdgesOnly

(* E ends no transfer before VMA has been on the pins.  The flag that VMA  *)
(* was asserted outlives the read half of a read-modify-write and the pin  *)
(* does not, so the sequencer asks for none here.                          *)
THEOREM VmaBeforeEAlways ==
  ASSUME "RMW" \notin Kinds
  PROVE  Spec => VmaBeforeE
<1>1. Init => VmaInv
  BY DEF Init, VmaInv
<1>2. BusInv /\ VmaInv /\ [Next]_vars =>
        [clk = "high" /\ EndedByE(ans') /\ ~cyc_is_iack => "vma" \in q]_vars
  <2> SUFFICES ASSUME BusInv, VmaInv, [Next]_vars, clk = "high", EndedByE(ans'),
                      ~cyc_is_iack
               PROVE  "vma" \in q
    OBVIOUS
  <2>1. samp_edge /\ ans' \in {"none", "vpa"} /\ st_n' \in {"S5", "S17"}
    BY DEF EndedByE
  <2>3. CASE \E a \in Answers : Falling(a)
    <3>1. PICK a \in Answers : Falling(a)
      BY <2>3
    <3>2. a = ans' /\ samp_done(a)
      BY <2>1, <3>1, FallingPath DEF Falling, BusInv
    <3>3. "vma" \in term
      BY <2>1, <3>2 DEF samp_done, DtackIn, samp_berr, samp_retry, BerrIn
    <3>4. ~cyc_is_rmw /\ st_p \in EvenStates => st_p \notin WriteTransfer
      BY DEF BusInv, TransferInv, HeldInv
    <3>5. st_p \in {"S4", "WH"}
      <4>1. st_p \in {"S4", "WH", "S16", "WH2"}
        BY <2>1 DEF samp_edge
      <4>2. cyc \in Request
        BY <4>1 DEF BusInv, TransferInv, HeldInv, EvenStates
      <4>3. ~cyc_is_rmw
        BY <4>2 DEF Request, cyc_is_rmw
      <4>4. QED BY <3>4, <4>1, <4>3 DEF EvenStates, WriteTransfer
    <3>6. QED BY <3>3, <3>5 DEF VmaInv, Begun
  <2>4. CASE ~ \E a \in Answers : Falling(a)
    <3>1. ~ \E r \in Request \cup {NoReq} : Rising(r)
      BY DEF Rising
    <3>2. st_n' = st_n
      BY <2>4, <3>1, EdgesOnly
    <3>3. FALSE
      BY <2>1, <3>2 DEF VmaInv
    <3>4. QED BY <3>3
  <2>5. QED BY <2>3, <2>4
<1>3. QED BY <1>1, <1>2, VmaStep, BusInvAlways, PTL DEF Spec, VmaBeforeE

-----------------------------------------------------------------------------
LEMMA KeptStep ==
  ASSUME RmwKept \/ "RMW" \notin Kinds, BusInv, KeptInv, [Next]_vars
  PROVE  KeptInv'
<1>1. TypeOK /\ InStep
  BY DEF BusInv, OwnershipInv
<1>2. CASE \E r \in Request \cup {NoReq} : Rising(r)
  <2>1. PICK r : Rising(r)
    BY <1>2
  <2>2. clk = "low" /\ clk' = "high" /\ term' = term
    BY <2>1 DEF Rising, bookk
  <2>3. st_p' = "S6" => st_n = "S5" /\ cyc' = cyc
    BY <1>1, <2>1, RisingPath
  <2>4. QED BY <2>2, <2>3 DEF KeptInv, cyc_is_rmw
<1>3. CASE \E a \in Answers : Falling(a)
  <2>1. PICK a \in Answers : Falling(a)
    BY <1>3
  <2>2. /\ clk = "high" /\ st_p' = st_p /\ cyc' = cyc /\ term' = term_nxt(a)
        /\ RmwKept => ~ReadHalfFails(a)
    BY <2>1 DEF Falling, seqif
  <2>3. st_n' = "S5" => st_p \in {"S4", "WH"}
    BY <1>1, <2>1, FallingPath
  <2>4. /\ "retry" \in term' \ term => ~cyc_is_rmw
        /\ "berr" \in term' \ term => samp_edge /\ samp_berr(a)
    BY <1>1, <2>1, Sampling
  <2>5. CASE cyc_is_rmw /\ st_p \in {"S4", "WH"}
    <3>1. cyc \in Request
      BY <2>5 DEF BusInv, TransferInv, HeldInv, EvenStates
    <3>2. ~samp_berr(a)
      BY <2>2, <2>5, <3>1 DEF Request, cyc_is_rmw, ReadHalfFails, samp_berr
    <3>3. term \cap {"berr", "retry"} = {}
      BY <2>2, <2>5 DEF BusInv, TransferInv, FlagInv, Unended
    <3>4. QED BY <2>2, <2>4, <2>5, <3>2, <3>3 DEF KeptInv
  <2>6. CASE cyc_is_rmw /\ st_p = "S6"
    BY <2>2, <2>4, <2>6 DEF KeptInv, samp_edge
  <2>7. QED BY <2>2, <2>3, <2>5, <2>6 DEF KeptInv, cyc_is_rmw
<1>4. CASE UNCHANGED <<clk, st_p, st_n, cyc, term>>
  BY <1>4 DEF KeptInv, cyc_is_rmw
<1>5. QED BY <1>2, <1>3, <1>4, EdgesOnly

LEMMA NegatedStep ==
  ASSUME BusInv, KeptInv, NegatedInv, [Next]_vars
  PROVE  NegatedInv'
<1>1. TypeOK /\ InStep
  BY DEF BusInv, OwnershipInv
<1>2. CASE \E r \in Request \cup {NoReq} : Rising(r)
  <2>1. PICK r : Rising(r)
    BY <1>2
  <2>2. /\ clk = "low" /\ clk' = "high" /\ st_p' = st_p_nxt(r)
        /\ "as" \in q' <=> "as" \in q \/ st_p' = "S2"
    BY <2>1 DEF Rising, When, as_set
  <2>3. CASE "as" \in q
    <3>1. \/ st_n \in {"S3", "S5", "WL", "M9", "M11", "S13", "S15", "S17", "WL2"}
          \/ st_n = "S7" /\ st_p = "S6" /\ cyc_is_rmw
      BY <1>1, <2>2, <2>3 DEF NegatedInv, InStep, OddOf, Modify
    <3>2. st_n = "S7" => st_p' = "M8"
      BY <2>2, <3>1 DEF KeptInv, st_p_nxt
    <3>3. st_n # "S7" => st_p' \in {"S4", "WH", "S6", "M10", "S12", "S14", "S16", "S18", "WH2"}
      BY <2>2, <3>1 DEF st_p_nxt
    <3>4. QED BY <2>2, <3>2, <3>3 DEF NegatedInv, Modify
  <2>4. CASE "as" \notin q
    BY <2>2, <2>4 DEF NegatedInv
  <2>5. QED BY <2>3, <2>4
<1>3. CASE \E a \in Answers : Falling(a)
  <2>1. PICK a \in Answers : Falling(a)
    BY <1>3
  <2>2. /\ clk = "high" /\ st_p' = st_p /\ cyc' = cyc
        /\ "as" \in q' => "as" \in q /\ ~as_clr(a)
    BY <2>1 DEF Falling, When, seqif
  <2>3. /\ st_p = "S6" => st_n_nxt(a) = "S7"
        /\ st_p = "S18" => st_n_nxt(a) = "S19"
    BY <1>1, <2>1, FallingPath
  <2>4. /\ st_p = "S6" /\ ~cyc_is_rmw => as_clr(a)
        /\ st_p = "S18" => as_clr(a)
    BY <2>3 DEF as_clr
  <2>5. QED BY <2>2, <2>4 DEF NegatedInv, Modify, cyc_is_rmw
<1>4. CASE UNCHANGED <<clk, st_p, cyc, q>>
  BY <1>4 DEF NegatedInv, cyc_is_rmw, Modify
<1>5. QED BY <1>2, <1>3, <1>4, EdgesOnly

(* AS is negated between any two cycles, so that a slave sees each begin,  *)
(* as long as no read-modify-write fails in its read half, which leaves AS *)
(* asserted.                                                               *)
THEOREM StrobePerCycleAlways ==
  ASSUME RmwKept \/ "RMW" \notin Kinds
  PROVE  Spec => []StrobePerCycle
<1>1. Init => KeptInv /\ NegatedInv
  BY DEF Init, KeptInv, NegatedInv
<1>2. BusInv /\ KeptInv /\ NegatedInv /\ [Next]_vars => KeptInv' /\ NegatedInv'
  BY KeptStep, NegatedStep
<1>3. NegatedInv => StrobePerCycle
  BY DEF NegatedInv, StrobePerCycle, Modify
<1>4. QED BY <1>1, <1>2, <1>3, BusInvAlways, PTL DEF Spec

-----------------------------------------------------------------------------
(***************************************************************************)
(* The refinement of BusAccess.                                            *)
(***************************************************************************)
Owner   == IF ctl_oe THEN "cpu" ELSE "master"
Resting == st_p \in RestStates

\* The phase of the access, read off the state.
LEMMA PhaseIs ==
  ASSUME st_p \in EvenAll
  PROVE  /\ st_p = "S0" => Phase = "begun"
         /\ st_p \in {"BE8", "BE20"} => Phase = "failed"
         /\ st_p \in EvenStates \ {"S0", "BE8", "BE20"} => Phase = "transfer"
         /\ Resting => Phase = IF "retry" \in term THEN "rerun" ELSE "idle"
BY DEF Phase, EvenAll, EvenStates, RestStates, Resting

\* An access begins, or begins again.
LEMMA BeginStep ==
  ASSUME BusInv, BusInv', NEW r, Rising(r), st_p' = "S0"
  PROVE  Access!Begin \/ Access!Rerun
<1>1. /\ TypeOK /\ InStep /\ st_p \in EvenAll /\ st_p' \in EvenAll
      /\ req_ack' = req_last /\ term' = term /\ r \in Presented
  BY DEF BusInv, OwnershipInv, TypeOK, EvenAll, Rising, bookk
<1>2. Phase' = "begun" /\ Owner' = "cpu"
  <2>1. ctl_oe'
    BY <1>1, RisingEnd DEF Rising
  <2>2. QED BY <1>1, <2>1, PhaseIs DEF Phase, Owner, EvenStates
<1>3. CASE "retry" \in term
  <2>1. Resting /\ ~req_last
    BY <1>1, <1>3, RisingEnd DEF Resting, RestStates, req_last
  <2>2. cyc' = cyc
    <3>1. cyc = req /\ cyc # NoReq
      <4>1. cyc = req /\ cyc \in Request
        BY <1>3 DEF BusInv, TransferInv, HeldInv
      <4>2. cyc.kind \in BusKinds
        BY <4>1, ConstantsAssumption DEF Request
      <4>3. QED BY <4>1, <4>2 DEF NoReq, BusKinds
    <3>2. r = cyc
      BY <1>1, <2>1, <3>1 DEF Presented
    <3>3. QED BY <3>2 DEF Rising
  <2>3. Phase = "rerun"
    BY <1>1, <1>3, <2>1, PhaseIs
  <2>4. req_ack' = FALSE
    BY <1>1, <2>1 DEF req_last
  <2>5. Access!Rerun
    BY <1>2, <2>2, <2>3, <2>4 DEF Access!Rerun, Owner
  <2>6. QED BY <2>5
<1>4. CASE "retry" \notin term
  <2>1. cyc' \in Request
    BY DEF BusInv, TransferInv, HeldInv, EvenStates
  <2>2. CASE Resting
    <3>1. Phase = "idle"
      BY <1>1, <1>4, <2>2, PhaseIs
    <3>2. st_n \in RestStates
      BY <1>1, <2>2, RisingEnd DEF Resting, RestStates
    <3>3. req_ack' = FALSE
      BY <1>1, <3>2 DEF req_last, RestStates
    <3>4. Access!Begin
      BY <1>2, <2>1, <3>1, <3>3 DEF Access!Begin, Owner
    <3>5. QED BY <3>4
  <2>3. CASE ~Resting
    <3>1. Phase \in {"transfer", "failed"}
      BY <1>1, <2>3, RisingEnd, PhaseIs DEF Resting, EvenStates, RestStates
    <3>2. req_ack' = TRUE
      BY <1>1, <1>4, <2>3, RisingEnd DEF Resting, RestStates, req_last
    <3>3. Access!Begin
      BY <1>2, <2>1, <3>1, <3>2 DEF Access!Begin, Owner
    <3>4. QED BY <3>3
  <2>4. QED BY <2>2, <2>3
<1>5. QED BY <1>3, <1>4

\* An access goes on: the strobe, the states of a transfer, a bus error to be
\* reported.
LEMMA CycleStep ==
  ASSUME BusInv, BusInv', NEW r, Rising(r), st_p' \in EvenStates \ {"S0"}
  PROVE  Access!Strobe \/ Access!End \/ UNCHANGED Access!vars
<1>1. /\ TypeOK /\ InStep /\ st_p \in EvenAll /\ st_p' \in EvenAll
      /\ req_ack' = req_last /\ term' = term /\ cyc' = cyc
  <2>1. TypeOK /\ InStep
    BY DEF BusInv, OwnershipInv
  <2>2. cyc' = cyc
    BY <2>1, RisingPath
  <2>3. QED BY <2>1, <2>2 DEF TypeOK, EvenAll, Rising, bookk
<1>2. req_ack' = FALSE
  BY DEF BusInv, TransferInv, SilentInv, TypeOK
<1>3. st_p \in EvenStates \ {"BE8", "BE20"}
  BY <1>1, RisingPath DEF EvenStates
<1>4. CASE st_p = "S0"
  <2>1. st_p' = "S2"
    BY <1>1, <1>4, RisingPath DEF EvenStates
  <2>2. Phase = "begun" /\ Phase' = "transfer"
    BY <1>1, <1>4, <2>1, PhaseIs DEF Phase, EvenStates
  <2>3. ctl_oe /\ ctl_oe'
    BY <1>4, <2>1 DEF BusInv, OwnershipInv, CycleInv, Busy, EvenStates
  <2>4. Access!Strobe
    BY <1>1, <1>2, <2>2, <2>3 DEF Access!Strobe, Owner
  <2>5. QED BY <2>4
<1>5. CASE st_p' \in {"BE8", "BE20"}
  <2>1. st_p \in {"S6", "S18"}
    BY <1>1, <1>5, RisingPath
  <2>2. Phase = "transfer" /\ Phase' = "failed"
    BY <1>1, <1>5, <2>1, PhaseIs DEF Phase, EvenStates
  <2>3. Access!End
    BY <1>1, <1>2, <2>2 DEF Access!End, Access!Owners
  <2>4. QED BY <2>3
<1>6. CASE st_p # "S0" /\ st_p' \notin {"BE8", "BE20"}
  <2>1. Phase = "transfer" /\ Phase' = "transfer"
    BY <1>1, <1>3, <1>6, PhaseIs DEF Phase, EvenStates
  <2>2. ctl_oe /\ ctl_oe'
    BY <1>3, <1>6 DEF BusInv, OwnershipInv, CycleInv, Busy, EvenStates
  <2>3. req_ack = FALSE
    BY <1>3, <1>6 DEF BusInv, TransferInv, SilentInv, TypeOK
  <2>4. QED BY <1>1, <1>2, <2>1, <2>2, <2>3 DEF Access!vars
<1>7. QED BY <1>4, <1>5, <1>6

\* An access is over, or the bus is at rest.
LEMMA RestStep ==
  ASSUME BusInv, BusInv', NEW r, Rising(r), st_p' \in RestStates
  PROVE  Access!End \/ Access!ReportError \/ Access!HandOver
<1>1. /\ TypeOK /\ InStep /\ st_p \in EvenAll /\ st_p' \in EvenAll
      /\ req_ack' = req_last /\ term' = term /\ cyc' = cyc
  <2>1. TypeOK /\ InStep
    BY DEF BusInv, OwnershipInv
  <2>2. cyc' = cyc
    BY <2>1, RisingPath DEF RestStates
  <2>3. QED BY <2>1, <2>2 DEF BusInv, TypeOK, EvenAll, Rising, bookk
<1>2. Phase' = IF "retry" \in term THEN "rerun" ELSE "idle"
  BY <1>1 DEF Phase, RestStates, EvenStates
<1>3. CASE Resting
  <2>1. Phase = Phase' /\ Phase \in {"idle", "rerun"}
    BY <1>1, <1>2, <1>3, PhaseIs
  <2>2. st_n \in RestStates
    BY <1>1, <1>3, RisingEnd DEF Resting, RestStates
  <2>3. req_ack' = FALSE
    BY <1>1, <2>2 DEF req_last, RestStates
  <2>4. Access!HandOver
    BY <1>1, <2>1, <2>3 DEF Access!HandOver, Access!Owners
  <2>5. QED BY <2>4
<1>4. CASE st_p \in {"S6", "S18"}
  <2>1. Phase = "transfer"
    BY <1>1, <1>4, PhaseIs DEF EvenStates
  <2>2. req_ack' = ("retry" \notin term)
    BY <1>1, <1>4, RisingEnd DEF req_last, RestStates
  <2>3. "retry" \in term => cyc \notin {k \in Request : k.kind = "RMW"}
    BY DEF BusInv, TransferInv, HeldInv, cyc_is_rmw
  <2>4. Access!End
    BY <1>1, <1>2, <2>1, <2>2, <2>3 DEF Access!End, Access!Owners
  <2>5. QED BY <2>4
<1>5. CASE st_p \in {"BE8", "BE20"}
  <2>1. Phase = "failed"
    BY <1>1, <1>5, PhaseIs
  <2>2. "retry" \notin term
    BY <1>5 DEF BusInv, TransferInv, FlagInv
  <2>3. req_ack' = TRUE
    BY <1>1, <1>5, <2>2, RisingEnd DEF req_last, RestStates
  <2>4. Access!ReportError
    BY <1>1, <1>2, <2>1, <2>2, <2>3 DEF Access!ReportError, Access!Owners
  <2>5. QED BY <2>4
<1>6. QED BY <1>1, <1>3, <1>4, <1>5, RisingEnd DEF Resting

\* Falling edges decide how an access will end; the contract sees nothing.
LEMMA FallingSilent ==
  ASSUME BusInv, NEW a \in Answers, Falling(a)
  PROVE  UNCHANGED Access!vars
<1>1. st_p \in EvenAll /\ UNCHANGED <<st_p, cyc, req_ack, ctl_oe>>
  BY DEF BusInv, TypeOK, EvenAll, Falling, seqif
<1>2. Resting => term' = term
  <2>1. Resting => st_p # "S0" /\ ~samp_edge /\ ~LateWindow(a)
    BY DEF Resting, RestStates, samp_edge, LateWindow
  <2>2. QED BY <2>1, Sampling DEF BusInv
<1>3. Phase' = Phase
  BY <1>1, <1>2 DEF Phase, Resting, EvenAll, EvenStates, RestStates
<1>4. QED BY <1>1, <1>3 DEF Access!vars

(* The bus interface unit implements the contract: one access at a time,   *)
(* each owning the bus, reruns as they were with no report in between, an  *)
(* indivisible access never rerun, every other access reported once.       *)
THEOREM BusImplementsAccess == Spec => AccessSpec
<1>1. Init => Access!Init
  BY DEF Init, Access!Init, Access!Owners, Phase, EvenStates
<1>2. BusInv /\ BusInv' /\ [Next]_vars => [Access!Next]_(Access!vars)
  <2> SUFFICES ASSUME BusInv, BusInv', [Next]_vars PROVE [Access!Next]_(Access!vars)
    OBVIOUS
  <2>1. CASE \E r \in Request \cup {NoReq} : Rising(r)
    <3>1. PICK r : Rising(r)
      BY <2>1
    <3>2. st_p' \in RestStates \/ st_p' = "S0" \/ st_p' \in EvenStates \ {"S0"}
      BY DEF BusInv, TypeOK
    <3>3. QED BY <3>1, <3>2, BeginStep, CycleStep, RestStep DEF Access!Next
  <2>2. CASE \E a \in Answers : Falling(a)
    BY <2>2, FallingSilent
  <2>3. CASE UNCHANGED <<clk, st_p, st_n, cyc, req, req_ack, term, end_code, q, ctl_oe,
                         meta, sync, e_cnt, ans>>
    BY <2>3 DEF Access!vars, Phase
  <2>4. QED BY <2>1, <2>2, <2>3, EdgesOnly
<1>3. QED BY <1>1, <1>2, BusInvAlways, PTL DEF Spec, AccessSpec, Access!Spec
=============================================================================
