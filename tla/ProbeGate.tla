------------------------------ MODULE ProbeGate ------------------------------
(***************************************************************************)
(* What the orchestrator promises about one run, seen from outside: the    *)
(* run is prepared, may be offered to an operator, is claimed once, and    *)
(* while it is claimed at most one request leaves for the Gateway.  No     *)
(* request leaves before the claim, and none after the run has closed,     *)
(* been rejected or failed.  RunLifecycle implements this specification.   *)
(***************************************************************************)
EXTENDS Naturals

VARIABLES
  phase,   \* how far the run is
  sent     \* number of requests that have left for the Gateway

gateVars == <<phase, sent>>

Phases == {"preparing", "awaiting", "probing", "closing",
           "done", "rejected", "failed"}

Init == phase = "preparing" /\ sent = 0

\* The run stops and waits for an operator.
Offer == phase = "preparing" /\ phase' = "awaiting" /\ UNCHANGED sent

\* Exactly one call takes the decided run over.
Claim == phase = "awaiting" /\ phase' = "probing" /\ UNCHANGED sent

\* The request leaves: only while claimed, and only once.
Send == phase = "probing" /\ sent = 0 /\ sent' = 1 /\ UNCHANGED phase

\* The probe is behind us (or there was none); only reporting is left.
Close == phase \in {"preparing", "probing"} /\ phase' = "closing" /\ UNCHANGED sent

\* The decision acted on was a rejection, and nothing was sent.
Reject == phase = "probing" /\ sent = 0 /\ phase' = "rejected" /\ UNCHANGED sent

Finish == phase = "closing" /\ phase' = "done" /\ UNCHANGED sent

\* Any step may fail, also the reporting steps of a rejected run.
Fail ==
  /\ phase \in {"preparing", "probing", "closing", "rejected"}
  /\ phase' = "failed"
  /\ UNCHANGED sent

Next == Offer \/ Claim \/ Send \/ Close \/ Reject \/ Finish \/ Fail

Spec == Init /\ [][Next]_gateVars

==============================================================================
