------------------------------- MODULE BusAccess ------------------------------
(***************************************************************************)
(* What the bus interface unit promises, with no clock, no bus states and  *)
(* no arbitration handshake: the processor's bus accesses happen one at a  *)
(* time and each inside a stretch of time in which the processor owns the  *)
(* bus; an access that must be rerun is rerun as it was, with no report to *)
(* the sequencer in between; every other access is reported exactly once;  *)
(* an indivisible access is never rerun.                                   *)
(***************************************************************************)
CONSTANTS
  Accesses,      \* the accesses the sequencer may ask for
  Indivisible,   \* those that are read-modify-writes
  NoAccess       \* before the first access

VARIABLES
  phase,  \* "idle", "begun" (no strobe yet), "transfer", "failed" or "rerun"
  cur,    \* the access begun last
  owner,  \* "cpu" or "master"
  ack     \* the report of an access to the sequencer

vars   == <<phase, cur, owner, ack>>
Owners == {"cpu", "master"}

Init == phase = "idle" /\ cur = NoAccess /\ owner \in Owners /\ ack = FALSE

\* An access begins, straight after the one before it or on an idle bus.
Begin ==
  /\ phase \in {"idle", "transfer", "failed"}
  /\ phase' = "begun"
  /\ cur' \in Accesses
  /\ owner' = "cpu"
  /\ ack' = (phase # "idle")

Rerun ==
  /\ phase = "rerun"
  /\ phase' = "begun" /\ owner' = "cpu" /\ ack' = FALSE
  /\ UNCHANGED cur

Strobe ==
  /\ phase = "begun"
  /\ phase' = "transfer" /\ ack' = FALSE
  /\ UNCHANGED <<cur, owner>>

\* The slave ended the access: well, with an error still to be reported, or
\* with a request to try again.
End ==
  /\ phase = "transfer"
  /\ phase' \in {"idle", "failed", "rerun"}
  /\ phase' = "rerun" => cur \notin Indivisible
  /\ ack' = (phase' = "idle")
  /\ owner' \in Owners
  /\ UNCHANGED cur

ReportError ==
  /\ phase = "failed"
  /\ phase' = "idle" /\ ack' = TRUE
  /\ owner' \in Owners
  /\ UNCHANGED cur

\* The bus changes hands, or the report is withdrawn, with no access running.
HandOver ==
  /\ phase \in {"idle", "rerun", "failed"}
  /\ owner' \in Owners
  /\ ack' = FALSE
  /\ UNCHANGED <<phase, cur>>

Next == Begin \/ Rerun \/ Strobe \/ End \/ ReportError \/ HandOver
Spec == Init /\ [][Next]_vars
=============================================================================
