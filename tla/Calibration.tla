---------------------------- MODULE Calibration ----------------------------
(***************************************************************************)
(* calibrate_record: what Python makes of the conclusion of the agent.     *)
(* A conclusion is a disposition, a severity, the two proofs it claims,    *)
(* and whether its own prose denies the vulnerability.                     *)
(***************************************************************************)
EXTENDS Integers

CONSTANT NoMeasure   \* nothing was measured

\* SEVERITY_ORDER, DISPOSITIONS, PROOF_VALUES
SeverityOrder == [info |-> 1, low |-> 2, medium |-> 3, high |-> 4, critical |-> 5]

Dispositions == {"confirmed", "likely", "needs_review", "false_positive"}

ProofValues == {"proven", "not_proven", "not_applicable"}

Conclusions ==
  [disposition : Dispositions, severity : DOMAIN SeverityOrder,
   attackerControl : ProofValues, reachability : ProofValues, denies : BOOLEAN]

SeverityCeiling ==
  [confirmed |-> "critical", likely |-> "high", needs_review |-> "medium",
   false_positive |-> "info"]

\* _cap; the schema lets no other severity through.
Cap(severity, ceiling) ==
  IF SeverityOrder[severity] <= SeverityOrder[ceiling] THEN severity ELSE ceiling

\* What was measured wins over what was claimed.
Reachability(c, measured) == IF measured \in ProofValues THEN measured ELSE c.reachability

\* Nothing measures the control of an attacker, so no claim of it is believed.
AttackerControl(c) == IF c.attackerControl = "proven" THEN "not_proven" ELSE c.attackerControl

\* Faulty variant of Disposition: prose decides about whatever it denies.
DispositionByProse(c, measured) ==
  LET proved == IF c.disposition = "confirmed"
                     /\ ~(AttackerControl(c) = "proven" /\ Reachability(c, measured) = "proven")
                THEN "needs_review" ELSE c.disposition
  IN IF c.denies THEN "needs_review" ELSE proved

\* "confirmed" wants both proofs; no assertion stands against its own prose.
Disposition(c, measured) ==
  LET proved == IF c.disposition = "confirmed"
                     /\ ~(AttackerControl(c) = "proven" /\ Reachability(c, measured) = "proven")
                THEN "needs_review" ELSE c.disposition
  IN IF proved \in {"confirmed", "likely"} /\ c.denies THEN "needs_review" ELSE proved

\* Faulty variant of Severity: the ceiling is that of the claimed disposition.
SeverityAsClaimed(c, measured) ==
  LET capped == Cap(c.severity, SeverityCeiling[c.disposition])
  IN IF AttackerControl(c) = "not_proven" THEN Cap(capped, "medium") ELSE capped

\* The ceiling of the disposition it ends with, and of an unproven control.
Severity(c, measured) ==
  LET capped == Cap(c.severity, SeverityCeiling[Disposition(c, measured)])
  IN IF AttackerControl(c) = "not_proven" THEN Cap(capped, "medium") ELSE capped

Calibrated(c, measured) ==
  [disposition     |-> Disposition(c, measured),
   severity        |-> Severity(c, measured),
   attackerControl |-> AttackerControl(c),
   reachability    |-> Reachability(c, measured),
   denies          |-> c.denies]

-----------------------------------------------------------------------------
\* How much a conclusion asserts.
Weight ==
  [confirmed |-> 3, likely |-> 2, needs_review |-> 1, false_positive |-> 0]

\* r asserts no more than c does.
Weaker(r, c) ==
  /\ Weight[r.disposition] <= Weight[c.disposition]
  /\ SeverityOrder[r.severity] <= SeverityOrder[c.severity]
  /\ r.attackerControl = "proven" => c.attackerControl = "proven"
  /\ r.reachability = "proven" => c.reachability = "proven"

\* What r asserts is within what it has proof for.
Sober(r) ==
  /\ SeverityOrder[r.severity] <= SeverityOrder[SeverityCeiling[r.disposition]]
  /\ r.disposition = "confirmed" =>
       r.attackerControl = "proven" /\ r.reachability = "proven" /\ ~r.denies
  /\ r.disposition = "likely" => ~r.denies
  /\ r.attackerControl = "not_proven" =>
       SeverityOrder[r.severity] <= SeverityOrder["medium"]

=============================================================================
