-------------------------- MODULE ProbeFlow_proofs --------------------------
(***************************************************************************)
(* What reaches the application is what was reviewed and approved, and two *)
(* policies that come from one registry agree, for all registries,         *)
(* analyses, overrides and changes by hand.  The argument: the request on  *)
(* the wire was let through by the gates, whose verdict is noted with it;  *)
(* the decision does not change any more; and of the bodies the Gateway    *)
(* can build no two have the same length.  And the files of a run that is  *)
(* finished agree with each other and with what happened: FilesTell.       *)
(***************************************************************************)
EXTENDS ProbeFlow, FiniteSetTheorems, WellFoundedInduction, TLAPS

Kinds == SafeKinds \cup {NoPayload}

Got(r) == [method |-> r.method, path |-> r.path, kind |-> r.body]

\* The request on the wire passed the gates.
WireOK ==
  /\ wire.under \in Registries
  /\ IsAllowed(wire.under, wire.method, wire.path)
  /\ wire.template \in Resolved(wire.under, wire.method, wire.path, wire.body)
  /\ wire.body \in Kinds
  /\ NeedsApproval(Got(wire)) => decision.approved /\ decision.fp = Got(wire)

IsProbe(p) == p = [method |-> p.method, path |-> p.path, kind |-> p.kind]

IsProposal(p) ==
  p = [accepted |-> p.accepted, probe |-> p.probe, source |-> p.source,
       objective |-> p.objective, override |-> p.override]

PolicyFiles == registry \in Registries /\ maps \in Registries /\ Readable(maps)

ProposalShape ==
  pc \in {"approval", "waiting", "probe"} =>
    IsProposal(proposal) /\ (proposal.accepted => IsProbe(proposal.probe))

NothingLeftYet ==
  pc \in {"propose", "approval", "waiting", "probe"} =>
    wire = NoFile /\ received = NoFile

OnTheWire == pc = "wire" => WireOK

ReceivedAsSent ==
  \/ received = NoFile
  \/ /\ WireOK
     /\ received = [method |-> wire.method, path |-> wire.path, body |-> wire.body]

IInv ==
  PolicyFiles /\ ProposalShape /\ NothingLeftYet /\ OnTheWire /\ ReceivedAsSent

-----------------------------------------------------------------------------
\* No two payloads have bodies of the same length.
LEMMA LengthsDiffer ==
  ASSUME NEW a \in Kinds, NEW b \in Kinds, BodyLength(a) = BodyLength(b)
  PROVE  a = b
BY SMT DEF Kinds, SafeKinds, NoPayload, BodyLength

\* A template that a location of readable maps names is in their table.
LEMMA NamedTemplates ==
  ASSUME NEW m \in Registries, Readable(m), NEW path,
         NEW id \in LocationTemplates(m, path)
  PROVE  TemplateOf(m, id) \in Range(m.templates)
<1>1. PICK e \in Range(m.endpoints) : id \in Range(e.templates)
  BY DEF LocationTemplates, Locations
<1>2. id \in Identifiers(m.templates)
  BY <1>1 DEF Readable
<1>3. \E t \in Range(m.templates) : t.id = id
  BY <1>2 DEF Identifiers, Range
<1> QED BY <1>3 DEF TemplateOf

\* What the Gateway passes on has the body that was sent.
LEMMA BodyKept ==
  ASSUME NEW m \in Registries, Readable(m), NEW key, NEW r,
         r.body \in Kinds, Screen(m, key, r) = "pass"
  PROVE  Forwarded(m, r) = [method |-> r.method, path |-> r.path, body |-> r.body]
<1>1. r.template \in LocationTemplates(m, r.path) /\ LengthFits(m, r)
  BY DEF Screen
<1>2. TemplateOf(m, r.template) \in Range(m.templates)
  BY <1>1, NamedTemplates
<1>3. TemplateOf(m, r.template).kind \in Kinds
  BY <1>2, RegistriesAssumption DEF Kinds
<1>4. TemplateOf(m, r.template).kind = r.body
  BY <1>1, <1>3, LengthsDiffer DEF LengthFits
<1> QED BY <1>4 DEF Forwarded

\* Maps that come from the registry of the client let pass what it resolves.
LEMMA SameRegistryPasses ==
  ASSUME NEW m, NEW r,
         r.template \in Resolved(m, r.method, r.path, r.body)
  PROVE  Screen(m, TRUE, r) = "pass"
<1>1. PICK e \in Rules(m, r.method, r.path) : r.template \in Range(e.templates)
  BY DEF Resolved
<1>2. e \in Locations(m, r.path) /\ r.method \in e.methods
  BY <1>1 DEF Rules, Locations
<1>3. r.method \in LocationMethods(m, r.path)
  BY <1>2 DEF LocationMethods
<1>4. r.template \in LocationTemplates(m, r.path)
  BY <1>1, <1>2 DEF LocationTemplates
<1>5. /\ TemplateOf(m, r.template).method = r.method
      /\ TemplateOf(m, r.template).kind = r.body
  BY DEF Resolved
<1>6. LengthFits(m, r)
  BY <1>5 DEF LengthFits
<1> QED BY <1>2, <1>3, <1>4, <1>5, <1>6 DEF Screen

-----------------------------------------------------------------------------
LEMMA InvInit == Init => IInv
BY DEF Init, IInv, PolicyFiles, ProposalShape, NothingLeftYet, OnTheWire,
       ReceivedAsSent

\* A step that leaves alone what the invariant is about, and comes neither
\* before the gates nor to the wire.
LEMMA Untouched ==
  ASSUME IInv,
         UNCHANGED <<registry, maps, proposal, decision, wire, received>>,
         \/ pc' = pc
         \/ pc' \notin {"propose", "approval", "waiting", "probe", "wire"}
  PROVE  IInv'
<1>1. PolicyFiles'
  BY DEF IInv, PolicyFiles
<1>2. ProposalShape'
  BY DEF IInv, ProposalShape, IsProposal, IsProbe
<1>3. NothingLeftYet'
  BY DEF IInv, NothingLeftYet
<1>4. WireOK => WireOK'
  BY DEF WireOK, Got
<1>5. OnTheWire'
  BY <1>4 DEF IInv, OnTheWire
<1>6. ReceivedAsSent'
  BY <1>4 DEF IInv, ReceivedAsSent
<1> QED BY <1>1, <1>2, <1>3, <1>5, <1>6 DEF IInv

\* A step of phase one: nothing has left, and proposal.json keeps its shape.
LEMMA StillHere ==
  ASSUME IInv,
         UNCHANGED <<registry, maps, wire, received>>,
         pc \in {"propose", "approval", "waiting", "probe"},
         pc' \in {"approval", "waiting", "probe"},
         IsProposal(proposal'),
         proposal'.accepted => IsProbe(proposal'.probe)
  PROVE  IInv'
<1>1. PolicyFiles'
  BY DEF IInv, PolicyFiles
<1>2. ProposalShape'
  BY DEF ProposalShape, IsProposal, IsProbe
<1>3. NothingLeftYet'
  BY DEF IInv, NothingLeftYet
<1>4. OnTheWire' /\ ReceivedAsSent'
  BY <1>3 DEF OnTheWire, ReceivedAsSent, NothingLeftYet
<1> QED BY <1>1, <1>2, <1>3, <1>4 DEF IInv

LEMMA ProposeKeeps == ASSUME IInv, Propose PROVE IInv'
<1> DEFINE chosen == IF override # NoObjective
                     THEN [id |-> "operator-override", objective |-> override]
                     ELSE Chosen(registry)
           accepted == Accepts(registry, chosen.objective)
<1> HIDE DEF chosen
<1>1. proposal' = [accepted  |-> accepted,
                   probe     |-> IF accepted THEN ProbeOf(chosen.objective) ELSE NoFile,
                   source    |-> chosen.id,
                   objective |-> chosen.objective,
                   override  |-> override # NoObjective]
  BY DEF Propose, chosen
<1> HIDE DEF accepted
<1>2. IsProposal(proposal')
  BY <1>1 DEF IsProposal
<1>3. proposal'.accepted => IsProbe(proposal'.probe)
  BY <1>1 DEF IsProbe, ProbeOf
<1>4. UNCHANGED <<registry, maps, wire, received>>
  BY DEF Propose, outside, network
<1>5. pc = "propose" /\ pc' = "approval"
  BY DEF Propose
<1> QED BY <1>2, <1>3, <1>4, <1>5, StillHere

LEMMA ApprovalKeeps ==
  ASSUME IInv, SkipApproval \/ AskOperator \/ Decide PROVE IInv'
<1>1. /\ pc \in {"approval", "waiting"} /\ pc' \in {"waiting", "probe"}
      /\ UNCHANGED <<registry, maps, wire, received, proposal>>
  BY DEF SkipApproval, AskOperator, Decide, outside, network
<1>2. IsProposal(proposal') /\ (proposal'.accepted => IsProbe(proposal'.probe))
  BY <1>1 DEF IInv, ProposalShape
<1> QED BY <1>1, <1>2, StillHere

LEMMA SendKeeps == ASSUME IInv, SendRequest PROVE IInv'
<1> DEFINE p == proposal.probe
<1>1. PICK id \in Resolved(registry, p.method, p.path, p.kind) :
        wire' = [method |-> p.method, path |-> p.path, body |-> p.kind,
                 template |-> id, under |-> registry]
  BY DEF SendRequest
<1>2. /\ IsAllowed(registry, p.method, p.path)
      /\ p.kind \in Kinds
      /\ NeedsApproval(p) => Approved(p)
  BY DEF SendRequest, Denial, Kinds
<1>3. IsProbe(p)
  BY DEF IInv, ProposalShape, SendRequest, AtGates
<1>4. Got(wire') = p
  BY <1>1, <1>3 DEF Got, IsProbe
<1>5. UNCHANGED <<registry, maps, proposal, decision, received>> /\ pc' = "wire"
  BY DEF SendRequest, outside
<1>6. WireOK'
  <2>1. wire'.under = registry /\ wire'.method = p.method /\ wire'.path = p.path
        /\ wire'.body = p.kind /\ wire'.template = id
    BY <1>1
  <2>2. NeedsApproval(Got(wire')) =>
          decision'.approved /\ decision'.fp = Got(wire')
    BY <1>2, <1>4, <1>5 DEF Approved
  <2>3. registry \in Registries
    BY DEF IInv, PolicyFiles
  <2> QED BY <1>2, <2>1, <2>2, <2>3 DEF WireOK
<1>7. received' = NoFile
  BY <1>5 DEF IInv, NothingLeftYet, SendRequest, AtGates
<1>8. PolicyFiles'
  BY <1>5 DEF IInv, PolicyFiles
<1> QED BY <1>5, <1>6, <1>7, <1>8
        DEF IInv, ProposalShape, NothingLeftYet, OnTheWire, ReceivedAsSent

\* The answer comes, and the application may have got the request.
LEMMA AnswerKeeps == ASSUME IInv, AppAnswers \/ NobodyAnswers PROVE IInv'
<1>1. /\ UNCHANGED <<registry, maps, proposal, decision, wire>>
      /\ pc = "wire" /\ pc' = "audit"
  BY DEF AppAnswers, NobodyAnswers, Answered, outside
<1>2. CASE received' = received
  BY <1>1, <1>2, Untouched
<1>3. CASE /\ Screen(maps, keyKnown, wire) = "pass"
           /\ received' = Forwarded(maps, wire)
  <2>1. WireOK
    BY <1>1 DEF IInv, OnTheWire
  <2>2. received' = [method |-> wire.method, path |-> wire.path, body |-> wire.body]
    <3>1. wire.body \in Kinds /\ maps \in Registries /\ Readable(maps)
      BY <2>1 DEF WireOK, IInv, PolicyFiles
    <3> QED BY <1>3, <3>1, BodyKept
  <2>3. WireOK'
    BY <1>1, <2>1 DEF WireOK, Got
  <2>4. ReceivedAsSent'
    BY <1>1, <2>2, <2>3 DEF ReceivedAsSent
  <2>5. PolicyFiles'
    BY <1>1 DEF IInv, PolicyFiles
  <2> QED BY <1>1, <2>4, <2>5
          DEF IInv, ProposalShape, NothingLeftYet, OnTheWire
<1> QED BY <1>2, <1>3 DEF AppAnswers, NobodyAnswers

LEMMA EditsKeep == ASSUME IInv, EditRegistry \/ EditProposal PROVE IInv'
<1>1. CASE EditRegistry
  <2>1. /\ UNCHANGED <<maps, pc, proposal, decision, wire, received>>
        /\ registry' \in Registries
    BY <1>1 DEF EditRegistry, network
  <2>2. WireOK => WireOK'
    BY <2>1 DEF WireOK, Got
  <2>3. PolicyFiles' /\ ProposalShape' /\ NothingLeftYet'
    BY <2>1 DEF IInv, PolicyFiles, ProposalShape, NothingLeftYet, IsProposal,
                IsProbe
  <2>4. OnTheWire' /\ ReceivedAsSent'
    BY <2>1, <2>2 DEF IInv, OnTheWire, ReceivedAsSent
  <2> QED BY <2>3, <2>4 DEF IInv
<1>2. CASE EditProposal
  <2>1. PICK p \in Probes \ {proposal.probe} :
          proposal' = [proposal EXCEPT !.probe = p]
    BY <1>2 DEF EditProposal
  <2>2. /\ UNCHANGED <<registry, maps, pc, wire, received>>
        /\ pc \in {"approval", "waiting", "probe"}
    BY <1>2 DEF EditProposal, network
  <2>3. IsProposal(proposal)
    BY <2>2 DEF IInv, ProposalShape
  <2>4. proposal' = [accepted |-> proposal.accepted, probe |-> p,
                     source |-> proposal.source, objective |-> proposal.objective,
                     override |-> proposal.override]
    BY <2>1, <2>3 DEF IsProposal
  <2>5. IsProposal(proposal')
    BY <2>4 DEF IsProposal
  <2>6. IsProbe(proposal'.probe)
    BY <2>4, ProbesAssumption DEF IsProbe
  <2> QED BY <2>2, <2>5, <2>6, StillHere
<1> QED BY <1>1, <1>2

\* Every other step leaves the probe, the decision and the wire alone.
LEMMA OthersKeep ==
  ASSUME IInv,
         \/ ProbeBadDecision \/ ProbeNothing \/ Deny \/ RecordDenial
         \/ GatewayAnswers \/ AuditAnswer \/ ApprovalEvent \/ RecordResult
         \/ Scrub \/ Report \/ Metrics \/ Figures \/ Text \/ Fail
         \/ UNCHANGED vars
  PROVE  IInv'
<1>1. UNCHANGED <<registry, maps, proposal, decision, wire, received>>
  BY DEF ProbeBadDecision, ProbeNothing, Deny, RecordDenial, GatewayAnswers,
         AuditAnswer, ApprovalEvent, RecordResult, Scrub, Report, Metrics,
         Figures, Text, Fail, Answered, AtGates, outside, network, vars
<1>2. \/ pc' = pc
      \/ pc' \notin {"propose", "approval", "waiting", "probe", "wire"}
  BY DEF ProbeBadDecision, ProbeNothing, Deny, RecordDenial, GatewayAnswers,
         AuditAnswer, ApprovalEvent, RecordResult, Scrub, Report, Metrics,
         Figures, Text, Fail, Answered, AtGates, vars
<1> QED BY <1>1, <1>2, Untouched

LEMMA InvStep == ASSUME IInv, [Next]_vars PROVE IInv'
<1>1. CASE Propose
  BY <1>1, ProposeKeeps
<1>2. CASE SkipApproval \/ AskOperator \/ Decide
  BY <1>2, ApprovalKeeps
<1>3. CASE SendRequest
  BY <1>3, SendKeeps
<1>4. CASE AppAnswers \/ NobodyAnswers
  BY <1>4, AnswerKeeps
<1>5. CASE EditRegistry \/ EditProposal
  BY <1>5, EditsKeep
<1>6. CASE \/ ProbeBadDecision \/ ProbeNothing \/ Deny \/ RecordDenial
           \/ GatewayAnswers \/ AuditAnswer \/ ApprovalEvent \/ RecordResult
           \/ Scrub \/ Report \/ Metrics \/ Figures \/ Text \/ Fail
           \/ UNCHANGED vars
  BY <1>6, OthersKeep
<1> QED BY <1>1, <1>2, <1>3, <1>4, <1>5, <1>6 DEF Next, ProbeStep

\* The inductive invariant holds in every behaviour of the flow.
THEOREM FlowInvariant == Spec => []IInv
<1>1. Init => IInv
  BY InvInit
<1>2. IInv /\ [Next]_vars => IInv'
  BY InvStep
<1> QED BY <1>1, <1>2, PTL DEF Spec

-----------------------------------------------------------------------------
\* What the Gateway passes on to the application is the method, path and
\* payload that the client's registry names and the operator approved.
THEOREM ApplicationSeesApproved == Spec => []AppSeesWhatWasApproved
<1>1. IInv => AppSeesWhatWasApproved
  <2> SUFFICES ASSUME IInv, received # NoFile PROVE AppSeesWhatWasApproved
    BY DEF AppSeesWhatWasApproved
  <2>1. /\ WireOK
        /\ received = [method |-> wire.method, path |-> wire.path, body |-> wire.body]
    BY DEF IInv, ReceivedAsSent
  <2> DEFINE got == [method |-> received.method, path |-> received.path,
                     kind |-> received.body]
  <2>2. got = Got(wire) /\ got.method = wire.method /\ got.path = wire.path
        /\ got.kind = wire.body
    BY <2>1 DEF Got
  <2>3. IsReviewed(wire.under, got.method, got.path, got.kind)
    BY <2>1, <2>2 DEF WireOK, IsReviewed
  <2>4. NeedsApproval(got) => decision.approved /\ decision.fp = got
    BY <2>1, <2>2 DEF WireOK
  <2> QED BY <2>3, <2>4 DEF AppSeesWhatWasApproved
<1> QED BY <1>1, FlowInvariant, PTL

\* Whatever the client lets through, a Gateway with the same registry does.
THEOREM PoliciesFromOneRegistryAgree == Spec => []PoliciesAgree
<1>1. IInv /\ keyKnown \in BOOLEAN => PoliciesAgree
  <2> SUFFICES ASSUME IInv, pc = "wire", keyKnown = TRUE, maps = wire.under
               PROVE  Screen(maps, keyKnown, wire) = "pass"
    BY DEF PoliciesAgree
  <2>1. wire.template \in Resolved(maps, wire.method, wire.path, wire.body)
    BY DEF IInv, OnTheWire, WireOK
  <2> QED BY <2>1, SameRegistryPasses
<1>2. Init => keyKnown \in BOOLEAN
  BY DEF Init
<1>3. keyKnown \in BOOLEAN /\ [Next]_vars => (keyKnown \in BOOLEAN)'
  <2>1. [Next]_vars => UNCHANGED keyKnown
    BY DEF Next, vars, outside, settings, Propose, SkipApproval, AskOperator,
           Decide, ProbeStep, ProbeBadDecision, ProbeNothing, Deny, RecordDenial,
           SendRequest, GatewayAnswers, AppAnswers, NobodyAnswers, AuditAnswer,
           ApprovalEvent, RecordResult, Scrub, Report, Metrics, Figures, Text,
           Fail, EditRegistry, EditProposal, Answered, AtGates
  <2> QED BY <2>1
<1> QED BY <1>1, <1>2, <1>3, FlowInvariant, PTL DEF Spec

-----------------------------------------------------------------------------
(* What the files of a finished run say.  The argument follows the call:   *)
(* at each of its points the files tell what has left so far, what came    *)
(* back and what the events and the audit log have of it.                  *)

Occurs(x, s) == \E n \in DOMAIN s : s[n] = x

Gating == {"propose", "approval", "waiting", "probe"}

Sent == {"wire", "audit", "event", "result"}

Closing == {"scrub", "report", "metrics", "figures", "text"}

Has(x) == Occurs(x, events)

Block == [kind |-> "allowlist_block"]

Redaction == [kind |-> "redaction"]

EventKinds == {Block, Granted, Withheld, [kind |-> "injection"], Redaction}

Left == wire # NoFile

Private == "personal data" \in answer.carries

Asked == Left /\ NeedsApproval(proposal.probe)

\* What the call was given stays what it was.
GivenTells ==
  /\ keyKnown \in BOOLEAN /\ analyses \in Analyses
  /\ override \in Overrides \cup {NoObjective}
  /\ edits \in 0..MaxEdits

Sound ==
  proposal.accepted => /\ proposal.objective # NoObjective
                       /\ proposal.probe \in ReviewedProbes \cup Probes

\* proposal.json comes from the operator, or from an analysis of its name.
ProposalTells ==
  /\ pc = "propose" => proposal = NoFile
  /\ proposal = NoFile \/ Sound
  /\ pc \notin {"propose", "end"} =>
       /\ Sound
       /\ proposal.override = (override # NoObjective)
       /\ proposal.accepted /\ override = NoObjective =>
            \E j \in DOMAIN analyses :
              /\ analyses[j].id = proposal.source
              /\ analyses[j].objective = proposal.objective

\* Something left, or nothing did; and it is what proposal.json says.
WireTells ==
  /\ wire \in Files(Requests)
  /\ received # NoFile => Left
  /\ pc \in Gating \cup {"denied"} => ~Left
  /\ pc \in Sent => Left
  /\ pc \in Sent \cup Closing /\ Left =>
       proposal.accepted /\ wire.path = proposal.probe.path
  /\ answer = NoFile \/ answer.carries \subseteq Marks

AuditTells ==
  /\ pc \in Gating \cup {"wire", "audit"} => audit = <<>>
  /\ pc \in {"event", "result"} => audit = <<"SENT">>
  /\ pc = "denied" => audit = <<"DENIED">> /\ proposal.accepted
  /\ pc \in Closing =>
       audit = IF Left THEN <<"SENT">>
               ELSE IF proposal.accepted THEN <<"DENIED">> ELSE <<>>
  /\ audit \in {<<>>, <<"SENT">>, <<"DENIED">>}

EventsTell ==
  /\ events \in Seq(EventKinds)
  /\ pc \in Gating \cup {"denied", "wire", "audit", "event"} => ~Has(Granted)
  /\ pc \in {"result"} \cup Closing => (Has(Granted) <=> Asked)
  /\ pc \in Gating \cup Sent \cup {"denied", "scrub"} => ~Has(Redaction)
  /\ pc \in {"report", "metrics", "figures", "text"} =>
       (Has(Redaction) <=> Left /\ Private)

StateTells ==
  /\ state \in {"ANALYZING", "AWAITING_APPROVAL", "PROBING", "SCRUBBING",
                "REPORTING"} \cup Terminal
  /\ pc # "end" => state \notin {"DONE", "FAILED"}
  /\ pc \in Gating \cup Sent \cup {"denied"} => state # "REJECTED"
  /\ pc \in Closing /\ state = "REJECTED" => ~Left

ResultTells ==
  pc \in {"scrub", "report"} =>
    /\ result.sent <=> Left
    /\ Left => /\ result.preview = Preview
               /\ result.redacted = Private

\* A conclusion of the report has its grounds.
Grounded ==
  /\ Left /\ override = NoObjective
  /\ \E i, j \in DOMAIN analyses :
       /\ analyses[i].id = proposal.source /\ analyses[j].id = proposal.source
       /\ wire.path \in analyses[i].names
       /\ analyses[j].objective = proposal.objective
       /\ analyses[j].objective.declares
  /\ report.verdict = "supports" <=> "signal" \in answer.carries

\* What the report says of the wire and of the events.
ReportTells ==
  /\ pc \in Gating \cup Sent \cup {"denied", "scrub", "report"} => report = NoFile
  /\ pc \in {"metrics", "figures", "text"} =>
       /\ report = [state |-> report.state, sent |-> report.sent,
                    verdict |-> report.verdict, blocks |-> report.blocks,
                    masked |-> report.masked, approved |-> report.approved]
       /\ report.sent <=> Left
       /\ report.approved <=> Asked
       /\ report.masked > 0 <=> Left /\ Private
       /\ report.verdict # "inconclusive" => Grounded

MetricsTell ==
  /\ pc \in {"figures", "text"} =>
       /\ metrics.state = Kept("DONE")
       /\ metrics.requests = IF Left THEN 1 ELSE 0
       /\ metrics.denied = IF ~Left /\ proposal.accepted THEN 1 ELSE 0
       /\ state = "REJECTED" => metrics.approved = 0
  /\ pc = "text" => report.state = Kept("DONE")

BookInv ==
  /\ GivenTells /\ ProposalTells /\ WireTells /\ AuditTells /\ EventsTell
  /\ StateTells /\ ResultTells /\ ReportTells /\ MetricsTell
  /\ ConclusionsAreGrounded /\ FinishedRunsAgree /\ MaskingIsReported

-----------------------------------------------------------------------------
\* Nothing has occurred where there is nothing, and a sequence has what its
\* parts have.
LEMMA OccursNot == ASSUME NEW x PROVE ~Occurs(x, <<>>)
BY DEF Occurs

LEMMA OccursOne == ASSUME NEW x, NEW e PROVE Occurs(x, <<e>>) <=> e = x
BY DEF Occurs

LEMMA OccursConcat ==
  ASSUME NEW E, NEW s \in Seq(E), NEW t \in Seq(E), NEW x
  PROVE  Occurs(x, s \o t) <=> Occurs(x, s) \/ Occurs(x, t)
<1>1. /\ DOMAIN s = 1..Len(s) /\ DOMAIN t = 1..Len(t)
      /\ DOMAIN (s \o t) = 1..(Len(s) + Len(t))
      /\ Len(s) \in Nat /\ Len(t) \in Nat
  OBVIOUS
<1>2. \A n \in 1..Len(s) : (s \o t)[n] = s[n]
  OBVIOUS
<1>3. \A n \in 1..Len(t) : (s \o t)[Len(s) + n] = t[n]
  OBVIOUS
<1>4. ASSUME Occurs(x, s \o t) PROVE Occurs(x, s) \/ Occurs(x, t)
  <2>1. PICK n \in 1..(Len(s) + Len(t)) : (s \o t)[n] = x
    BY <1>1, <1>4 DEF Occurs
  <2>2. CASE n <= Len(s)
    BY <1>1, <1>2, <2>1, <2>2 DEF Occurs
  <2>3. CASE n > Len(s)
    <3>1. n - Len(s) \in 1..Len(t) /\ Len(s) + (n - Len(s)) = n
      BY <1>1, <2>1, <2>3
    <3> QED BY <1>1, <1>3, <2>1, <3>1 DEF Occurs
  <2> QED BY <1>1, <2>1, <2>2, <2>3
<1>5. ASSUME Occurs(x, s) PROVE Occurs(x, s \o t)
  <2>1. PICK n \in 1..Len(s) : s[n] = x
    BY <1>1, <1>5 DEF Occurs
  <2> QED BY <1>1, <1>2, <2>1 DEF Occurs
<1>6. ASSUME Occurs(x, t) PROVE Occurs(x, s \o t)
  <2>1. PICK n \in 1..Len(t) : t[n] = x
    BY <1>1, <1>6 DEF Occurs
  <2>2. Len(s) + n \in 1..(Len(s) + Len(t))
    BY <1>1, <2>1
  <2> QED BY <1>1, <1>3, <2>1, <2>2 DEF Occurs
<1> QED BY <1>4, <1>5, <1>6

LEMMA OccursAppend ==
  ASSUME NEW E, NEW s \in Seq(E), NEW e \in E, NEW x
  PROVE  Occurs(x, Append(s, e)) <=> Occurs(x, s) \/ e = x
<1>1. /\ DOMAIN s = 1..Len(s) /\ Len(s) \in Nat
      /\ DOMAIN Append(s, e) = 1..(Len(s) + 1)
      /\ Append(s, e)[Len(s) + 1] = e
  OBVIOUS
<1>2. \A n \in 1..Len(s) : Append(s, e)[n] = s[n]
  OBVIOUS
<1>3. 1..(Len(s) + 1) = (1..Len(s)) \cup {Len(s) + 1}
  BY <1>1
<1> QED BY <1>1, <1>2, <1>3 DEF Occurs

\* A count is a number, and not zero just when there is something to count.
LEMMA CountTells ==
  ASSUME NEW E, NEW s \in Seq(E), NEW x
  PROVE  CountOf(s, x) \in Nat /\ (CountOf(s, x) > 0 <=> Occurs(x, s))
<1> DEFINE at == {n \in DOMAIN s : s[n] = x}
<1>1. DOMAIN s = 1..Len(s) /\ Len(s) \in Nat
  OBVIOUS
<1>2. IsFiniteSet(DOMAIN s)
  BY <1>1, FS_Interval
<1>3. IsFiniteSet(at)
  BY <1>2, FS_Subset
<1>4. Cardinality(at) \in Nat /\ (Cardinality(at) = 0 <=> at = {})
  BY <1>3, FS_CardinalityType, FS_EmptySet
<1>5. at = {} <=> ~Occurs(x, s)
  BY DEF Occurs
<1> QED BY <1>4, <1>5 DEF CountOf

\* The audit log of one call has at most one line.
LEMMA CountLines ==
  /\ \A x : CountOf(<<>>, x) = 0
  /\ CountOf(<<"SENT">>, "SENT") = 1 /\ CountOf(<<"SENT">>, "DENIED") = 0
  /\ CountOf(<<"DENIED">>, "SENT") = 0 /\ CountOf(<<"DENIED">>, "DENIED") = 1
<1>1. \A y : /\ {n \in DOMAIN <<y>> : <<y>>[n] = y} = {1}
             /\ \A x : x # y => {n \in DOMAIN <<y>> : <<y>>[n] = x} = {}
  OBVIOUS
<1>2. \A x : {n \in DOMAIN <<>> : <<>>[n] = x} = {}
  OBVIOUS
<1>3. Cardinality({}) = 0 /\ Cardinality({1}) = 1
  BY FS_EmptySet, FS_Singleton
<1>4. \A y : CountOf(<<y>>, y) = 1 /\ \A x : x # y => CountOf(<<y>>, x) = 0
  BY <1>1, <1>3 DEF CountOf
<1>5. \A x : CountOf(<<>>, x) = 0
  BY <1>2, <1>3 DEF CountOf
<1> QED BY <1>4, <1>5

\* The events are told apart.
LEMMA EventsDiffer ==
  /\ Granted # Withheld /\ Granted # Block /\ Granted # Redaction
  /\ Granted # [kind |-> "injection"]
  /\ Redaction # Withheld /\ Redaction # Block
  /\ Redaction # [kind |-> "injection"]
<1>1. /\ Granted.kind = "approval" /\ Withheld.kind = "approval"
      /\ Block.kind = "allowlist_block" /\ Redaction.kind = "redaction"
      /\ [kind |-> "injection"].kind = "injection"
      /\ Granted.approved = TRUE /\ Withheld.approved = FALSE
  BY DEF Granted, Withheld, Block, Redaction
<1> QED BY <1>1

LEMMA LeastNumber ==
  ASSUME NEW S, S \subseteq Nat, S # {}
  PROVE  \E n \in S : \A m \in S : n <= m
<1> DEFINE R == OpToRel(<, Nat)
<1>1. PICK n \in S : \A m \in S : ~(<<m, n>> \in R)
  BY NatLessThanWellFounded, WFMin, Zenon
<1>2. \A m \in S : ~(m < n)
  BY <1>1, Zenon DEF OpToRel
<1> QED BY <1>2

\* An objective that is chosen is one of the analysis.
LEMMA ChosenIsProposed ==
  ASSUME analyses \in Analyses, NEW reg, Chosen(reg).objective # NoObjective
  PROVE  \E j \in DOMAIN analyses : Chosen(reg) = analyses[j]
<1> DEFINE proposed == {n \in DOMAIN analyses : analyses[n].objective # NoObjective}
           accepted == {n \in proposed : Accepts(reg, analyses[n].objective)}
           mild     == {n \in accepted : analyses[n].objective.kind = "empty_value"}
           best     == IF mild # {} THEN mild
                       ELSE IF accepted # {} THEN accepted ELSE proposed
           first    == CHOOSE n \in best : \A m \in best : n <= m
<1>1. Chosen(reg) = IF best = {} THEN [id |-> "none", objective |-> NoObjective]
                    ELSE analyses[first]
  BY DEF Chosen
<1>2. best \subseteq DOMAIN analyses
  OBVIOUS
<1>3. DOMAIN analyses \subseteq Nat
  BY AnalysesAssumption
<1> HIDE DEF best
<1>4. best # {}
  BY <1>1
<1>5. first \in best
  BY <1>2, <1>3, <1>4, LeastNumber
<1> QED BY <1>1, <1>2, <1>4, <1>5

\* A probe that the registry accepts is one of its probes, and a request that
\* passes the gates one of its requests.
LEMMA AcceptedProbe ==
  ASSUME NEW reg \in Registries, NEW o, Accepts(reg, o)
  PROVE  ProbeOf(o) \in ReviewedProbes
<1> DEFINE paths == {e.path : e \in Range(reg.endpoints)}
<1>1. o.method \in Methods /\ o.kind \in SafeKinds
  BY DEF Accepts
<1>2. PICK e \in Rules(reg, o.method, o.path) : TRUE
  BY DEF Accepts, IsReviewed, IsAllowed
<1>3. o.path \in paths
  BY <1>2 DEF Rules
<1>4. ProbeOf(o) \in [method : Methods, path : paths, kind : SafeKinds]
  BY <1>1, <1>3 DEF ProbeOf
<1> QED BY <1>4 DEF ReviewedProbes

LEMMA ResolvedRequest ==
  ASSUME NEW reg \in Registries, Readable(reg), NEW method, NEW path,
         NEW kind \in Kinds, NEW id \in Resolved(reg, method, path, kind)
  PROVE  [method |-> method, path |-> path, body |-> kind, template |-> id,
          under |-> reg] \in Requests
<1> DEFINE paths == {e.path : e \in Range(reg.endpoints)}
           ids   == UNION {Range(e.templates) : e \in Range(reg.endpoints)}
<1>1. PICK e \in Rules(reg, method, path) : id \in Range(e.templates)
  BY DEF Resolved
<1>2. e \in Range(reg.endpoints) /\ method \in e.methods /\ e.path = path
  BY <1>1 DEF Rules
<1>3. method \in Methods
  BY <1>2 DEF Readable
<1>4. path \in paths /\ id \in ids
  BY <1>1, <1>2
<1> HIDE DEF paths, ids
<1>5. [method |-> method, path |-> path, body |-> kind, template |-> id,
       under |-> reg] \in [method : Methods, path : paths,
                            body : SafeKinds \cup {NoPayload},
                            template : ids, under : {reg}]
  BY <1>3, <1>4 DEF Kinds
<1> QED BY <1>5 DEF Requests, paths, ids

-----------------------------------------------------------------------------
LEMMA BookInit == Init => BookInv
<1> SUFFICES ASSUME Init PROVE BookInv
  OBVIOUS
<1>1. GivenTells
  <2>1. edits = 0
    BY DEF Init
  <2>2. edits \in 0..MaxEdits
    BY <2>1, MaxEditsAssumption
  <2> QED BY <2>2, Zenon DEF Init, GivenTells
<1>2. ProposalTells /\ WireTells /\ AuditTells
  BY DEF Init, ProposalTells, Sound, WireTells, AuditTells, Files, Left, Gating, Sent,
         Closing
<1>3. EventsTell
  <2>1. events = <<>> /\ pc = "propose"
    BY DEF Init
  <2>2. ~Has(Granted) /\ ~Has(Redaction)
    BY <2>1, OccursNot DEF Has
  <2> QED BY <2>1, <2>2 DEF EventsTell, Closing
<1>4. StateTells /\ ResultTells /\ ReportTells /\ MetricsTell
  BY DEF Init, StateTells, ResultTells, ReportTells, MetricsTell, Gating, Sent,
         Closing, Terminal
<1>5. ConclusionsAreGrounded /\ FinishedRunsAgree /\ MaskingIsReported
  BY DEF Init, ConclusionsAreGrounded, FinishedRunsAgree, MaskingIsReported
<1> QED BY <1>1, <1>2, <1>3, <1>4, <1>5 DEF BookInv

\* Before there is a report nothing is said of it.
LEMMA Unreported ==
  ASSUME report' = NoFile,
         pc' \in Gating \cup Sent \cup {"denied", "scrub", "report"}
  PROVE  /\ ReportTells' /\ MetricsTell' /\ ConclusionsAreGrounded'
         /\ FinishedRunsAgree' /\ MaskingIsReported'
BY DEF ReportTells, MetricsTell, ConclusionsAreGrounded, FinishedRunsAgree,
       MaskingIsReported, Gating, Sent

\* A step between the gates that keeps the logs.
LEMMA Waits ==
  ASSUME BookInv, ProposalTells', GivenTells',
         UNCHANGED <<network, logs, summary>>,
         pc \in Gating, pc' \in Gating,
         state' \in {state, "AWAITING_APPROVAL", "PROBING"}
  PROVE  BookInv'
<1>1. UNCHANGED <<wire, received, answer, audit, events, report>>
  BY DEF network, logs, summary
<1>2. WireTells' /\ AuditTells'
  BY <1>1 DEF BookInv, WireTells, AuditTells, Left, Gating, Sent, Closing
<1>3. EventsTell'
  BY <1>1 DEF BookInv, EventsTell, Has, Gating, Sent, Closing
<1>4. StateTells' /\ ResultTells'
  BY DEF BookInv, StateTells, ResultTells, Gating, Sent, Closing, Terminal
<1>5. report' = NoFile
  BY <1>1 DEF BookInv, ReportTells
<1> QED BY <1>2, <1>3, <1>4, <1>5, Unreported DEF BookInv

LEMMA ProposeTells == ASSUME IInv, BookInv, Propose PROVE BookInv'
<1> DEFINE chosen == IF override # NoObjective
                     THEN [id |-> "operator-override", objective |-> override]
                     ELSE Chosen(registry)
           accepted == Accepts(registry, chosen.objective)
<1>1. /\ pc = "propose" /\ pc' = "approval"
      /\ proposal' = [accepted  |-> accepted,
                      probe     |-> IF accepted THEN ProbeOf(chosen.objective)
                                    ELSE NoFile,
                      source    |-> chosen.id,
                      objective |-> chosen.objective,
                      override  |-> override # NoObjective]
      /\ \/ events' = events
         \/ events' = Append(events, Block)
      /\ UNCHANGED <<analyses, override, keyKnown, edits, wire, received, answer,
                     audit, state, report>>
  BY DEF Propose, outside, settings, network, summary, Block
<1>2. accepted => /\ chosen.objective # NoObjective
                  /\ ProbeOf(chosen.objective) \in ReviewedProbes
  BY AcceptedProbe DEF Accepts, IInv, PolicyFiles
<1>3. accepted /\ override = NoObjective =>
        \E j \in DOMAIN analyses : chosen = analyses[j]
  BY <1>2, ChosenIsProposed DEF BookInv, GivenTells
<1> HIDE DEF chosen, accepted
<1>4. GivenTells'
  BY <1>1 DEF BookInv, GivenTells
<1>5. ProposalTells'
  BY <1>1, <1>2, <1>3 DEF ProposalTells, Sound
<1>6. WireTells' /\ AuditTells'
  BY <1>1 DEF BookInv, WireTells, AuditTells, Left, Gating, Sent, Closing
<1>7. EventsTell'
  <2>1. events \in Seq(EventKinds) /\ ~Has(Granted) /\ ~Has(Redaction)
    BY <1>1 DEF BookInv, EventsTell, Gating
  <2>2. events' \in Seq(EventKinds) /\ ~Has(Granted)' /\ ~Has(Redaction)'
    <3>1. CASE events' = events
      BY <2>1, <3>1 DEF Has
    <3>2. CASE events' = Append(events, Block)
      <4>1. Block \in EventKinds
        BY DEF EventKinds
      <4> QED BY <2>1, <3>2, <4>1, OccursAppend, EventsDiffer DEF Has
    <3> QED BY <1>1, <3>1, <3>2
  <2> QED BY <1>1, <2>2 DEF EventsTell, Closing
<1>8. StateTells' /\ ResultTells' /\ report' = NoFile
  BY <1>1 DEF BookInv, StateTells, ResultTells, ReportTells, Gating, Closing
<1> QED BY <1>1, <1>4, <1>5, <1>6, <1>7, <1>8, Unreported DEF BookInv, Gating

LEMMA ApprovalTells ==
  ASSUME BookInv, SkipApproval \/ AskOperator \/ Decide PROVE BookInv'
<1>1. /\ pc \in {"approval", "waiting"} /\ pc' \in {"waiting", "probe"}
      /\ UNCHANGED <<outside, proposal, network, logs, summary>>
      /\ state' \in {state, "AWAITING_APPROVAL", "PROBING"}
  BY DEF SkipApproval, AskOperator, Decide
<1>2. GivenTells' /\ ProposalTells'
  BY <1>1 DEF BookInv, GivenTells, ProposalTells, Sound, outside, settings
<1> QED BY <1>1, <1>2, Waits DEF Gating

LEMMA EditTells ==
  ASSUME IInv, BookInv, EditRegistry \/ EditProposal
  PROVE  BookInv'
<1>1. /\ UNCHANGED <<analyses, override, keyKnown, pc, state, network, logs,
                     summary, result>>
      /\ edits' = edits + 1 /\ edits < MaxEdits
  BY DEF EditRegistry, EditProposal, settings
<1>2. GivenTells'
  <2>1. edits' \in 0..MaxEdits
    BY <1>1, MaxEditsAssumption DEF BookInv, GivenTells
  <2> QED BY <1>1, <2>1 DEF BookInv, GivenTells
<1>3. CASE EditRegistry
  <2>1. /\ UNCHANGED <<proposal, wire, received, answer, audit, events, report,
                       reportText, metrics>>
    BY <1>3 DEF EditRegistry, network, logs, summary
  <2>2. ProposalTells' /\ WireTells' /\ AuditTells'
    BY <1>1, <2>1 DEF BookInv, ProposalTells, Sound, WireTells, AuditTells, Left
  <2>3. EventsTell'
    BY <1>1, <2>1 DEF BookInv, EventsTell, Has, Asked, Left, Private
  <2>4. StateTells' /\ ResultTells'
    BY <1>1, <2>1 DEF BookInv, StateTells, ResultTells, Left, Private, Preview
  <2>5. ReportTells' /\ MetricsTell'
    BY <1>1, <2>1 DEF BookInv, ReportTells, MetricsTell, Grounded, Left, Asked,
                      Private, Kept
  <2>6. ConclusionsAreGrounded'
    BY <1>1, <2>1 DEF BookInv, ConclusionsAreGrounded
  <2>7. FinishedRunsAgree' /\ MaskingIsReported'
    BY <1>3, <1>1 DEF FinishedRunsAgree, MaskingIsReported, EditRegistry
  <2> QED BY <1>2, <2>2, <2>3, <2>4, <2>5, <2>6, <2>7 DEF BookInv
<1>4. CASE EditProposal
  <2>1. PICK p \in Probes \ {proposal.probe} :
          proposal' = [proposal EXCEPT !.probe = p]
    BY <1>4 DEF EditProposal
  <2>2. pc \in {"approval", "waiting", "probe"}
    BY <1>4 DEF EditProposal
  <2>3. proposal' = [accepted |-> proposal.accepted, probe |-> p,
                     source |-> proposal.source, objective |-> proposal.objective,
                     override |-> proposal.override]
    BY <2>1, <2>2 DEF IInv, ProposalShape, IsProposal
  <2>4. ProposalTells'
    <3>1. /\ proposal'.accepted = proposal.accepted /\ proposal'.probe = p
          /\ proposal'.source = proposal.source
          /\ proposal'.objective = proposal.objective
          /\ proposal'.override = proposal.override
      BY <2>3
    <3>2. proposal.accepted
      BY <1>4 DEF EditProposal
    <3>3. /\ Sound /\ proposal.override = (override # NoObjective)
          /\ override = NoObjective =>
               \E j \in DOMAIN analyses :
                 /\ analyses[j].id = proposal.source
                 /\ analyses[j].objective = proposal.objective
      BY <2>2, <3>2 DEF BookInv, ProposalTells
    <3>4. Sound'
      BY <3>1, <3>2, <3>3 DEF Sound
    <3> QED BY <1>1, <2>2, <3>1, <3>3, <3>4 DEF ProposalTells
  <2> QED BY <1>1, <1>2, <2>2, <2>4, Waits DEF Gating
<1> QED BY <1>3, <1>4

\* The run ends before it is finished.
LEMMA AbortTells == ASSUME BookInv, ProbeBadDecision \/ Fail PROVE BookInv'
<1>1. /\ pc # "end" /\ pc' = "end" /\ state' = "FAILED"
      /\ UNCHANGED <<analyses, override, keyKnown, edits, proposal, wire,
                     received, answer, report>>
  BY DEF ProbeBadDecision, Fail, outside, settings, network, summary
<1>2. audit' \in {<<>>, <<"SENT">>, <<"DENIED">>}
  <2>1. CASE ProbeBadDecision
    <3>1. audit = <<>> /\ audit' = Append(audit, "DENIED")
      BY <2>1 DEF ProbeBadDecision, BookInv, AuditTells, Gating
    <3> QED BY <3>1
  <2>2. CASE Fail
    BY <2>2 DEF Fail, logs, BookInv, AuditTells
  <2> QED BY <2>1, <2>2
<1>3. events' \in Seq(EventKinds)
  <2>1. events' \in {events, Append(events, Withheld)}
    BY DEF ProbeBadDecision, Fail, logs, Withheld
  <2>2. events \in Seq(EventKinds) /\ Withheld \in EventKinds
    BY DEF BookInv, EventsTell, EventKinds
  <2> QED BY <2>1, <2>2
<1>4. GivenTells' /\ ProposalTells' /\ WireTells'
  BY <1>1 DEF BookInv, GivenTells, ProposalTells, Sound, WireTells, Left, Gating, Sent,
              Closing
<1>5. AuditTells' /\ EventsTell' /\ StateTells'
  BY <1>1, <1>2, <1>3 DEF AuditTells, EventsTell, StateTells, Gating, Sent,
              Closing, Terminal
<1>6. ResultTells' /\ ReportTells' /\ MetricsTell'
  BY <1>1 DEF ResultTells, ReportTells, MetricsTell, Gating, Sent
<1>7. ConclusionsAreGrounded'
  BY <1>1 DEF BookInv, ConclusionsAreGrounded
<1>8. FinishedRunsAgree' /\ MaskingIsReported'
  BY <1>1 DEF FinishedRunsAgree, MaskingIsReported
<1> QED BY <1>4, <1>5, <1>6, <1>7, <1>8 DEF BookInv

\* Nothing is asked, or the gates refuse it.
LEMMA RefusalTells ==
  ASSUME IInv, BookInv, ProbeNothing \/ Deny \/ RecordDenial PROVE BookInv'
<1>1. /\ UNCHANGED <<analyses, override, keyKnown, edits, proposal, wire,
                     received, answer, report>>
      /\ pc \in {"probe", "denied"} /\ pc' \in {"denied", "scrub"}
  BY DEF ProbeNothing, Deny, RecordDenial, AtGates, outside, settings, network,
         summary
<1>2. ~Left /\ ~Left' /\ ~Has(Granted) /\ ~Has(Redaction)
      /\ events \in Seq(EventKinds) /\ state # "REJECTED" /\ report = NoFile
  BY <1>1 DEF BookInv, WireTells, EventsTell, StateTells, ReportTells, Left, Gating
<1>3. GivenTells' /\ ProposalTells' /\ WireTells'
  BY <1>1, <1>2 DEF BookInv, GivenTells, ProposalTells, Sound, WireTells, Gating, Sent,
              Closing
<1>4. AuditTells'
  <2>1. CASE ProbeNothing
    BY <1>1, <1>2, <2>1 DEF ProbeNothing, logs, BookInv, AuditTells, Gating, Sent,
       Closing
  <2>2. CASE Deny
    <3>1. audit = <<>> /\ audit' = Append(audit, "DENIED") /\ pc' = "denied"
          /\ proposal.accepted
      BY <2>2 DEF Deny, AtGates, BookInv, AuditTells, Gating
    <3> QED BY <1>1, <3>1 DEF AuditTells, Gating, Closing
  <2>3. CASE RecordDenial
    <3>1. audit' = <<"DENIED">> /\ pc' = "scrub" /\ proposal.accepted
      BY <2>3 DEF RecordDenial, logs, BookInv, AuditTells
    <3> QED BY <1>1, <1>2, <3>1 DEF AuditTells, Gating
  <2> QED BY <2>1, <2>2, <2>3
<1>5. EventsTell'
  <2>1. events' \in {events, Append(events, Block), Append(events, Withheld)}
    BY DEF ProbeNothing, Deny, RecordDenial, logs, Block, Withheld
  <2>2. Block \in EventKinds /\ Withheld \in EventKinds
    BY DEF EventKinds
  <2>3. events' \in Seq(EventKinds) /\ ~Has(Granted)' /\ ~Has(Redaction)'
    <3>1. CASE events' = events
      BY <1>2, <3>1 DEF Has
    <3>2. CASE events' = Append(events, Block)
      BY <1>2, <2>2, <3>2, OccursAppend, EventsDiffer DEF Has
    <3>3. CASE events' = Append(events, Withheld)
      BY <1>2, <2>2, <3>3, OccursAppend, EventsDiffer DEF Has
    <3> QED BY <2>1, <3>1, <3>2, <3>3
  <2> QED BY <1>1, <1>2, <2>3 DEF EventsTell, Asked
<1>6. StateTells'
  BY <1>1, <1>2 DEF BookInv, StateTells, ProbeNothing, Deny, RecordDenial, Gating,
                    Sent, Closing, Terminal
<1>7. ResultTells'
  <2>1. pc' = "scrub" => result' = Unsent
    BY <1>1 DEF ProbeNothing, Deny, RecordDenial
  <2> QED BY <1>1, <1>2, <2>1 DEF ResultTells, Unsent
<1> QED BY <1>1, <1>2, <1>3, <1>4, <1>5, <1>6, <1>7, Unreported DEF BookInv

\* What the call was given and what it proposed stay, once it has proposed.
LEMMA Keeps ==
  ASSUME BookInv, UNCHANGED <<analyses, override, keyKnown, edits, proposal>>,
         pc \notin {"propose", "end"}, pc' # "propose"
  PROVE  GivenTells' /\ ProposalTells'
BY DEF BookInv, GivenTells, ProposalTells, Sound

LEMMA SendTells == ASSUME IInv, BookInv, SendRequest PROVE BookInv'
<1> DEFINE p == proposal.probe
<1>1. PICK id \in Resolved(registry, p.method, p.path, p.kind) :
        wire' = [method |-> p.method, path |-> p.path, body |-> p.kind,
                 template |-> id, under |-> registry]
  BY DEF SendRequest
<1>2. /\ UNCHANGED <<analyses, override, keyKnown, edits, proposal, received,
                     answer, audit, events, state, report>>
      /\ pc = "probe" /\ pc' = "wire" /\ proposal.accepted
  BY DEF SendRequest, AtGates, outside, settings, logs, summary
<1>3. wire' \in Requests
  <2>1. p.kind \in Kinds /\ Readable(registry)
    BY DEF SendRequest, AtGates, Denial, Kinds
  <2> QED BY <1>1, <2>1, ResolvedRequest DEF IInv, PolicyFiles
<1>4. Left' /\ wire'.path = proposal'.probe.path
  BY <1>1, <1>2, <1>3, NoFileAssumption DEF Left
<1>5. WireTells'
  BY <1>2, <1>3, <1>4 DEF BookInv, WireTells, Files, Gating
<1>6. AuditTells'
  BY <1>2 DEF BookInv, AuditTells, Gating, Closing
<1>7. EventsTell'
  BY <1>2 DEF BookInv, EventsTell, Has, Gating, Closing
<1>8. StateTells' /\ ResultTells'
  BY <1>2 DEF BookInv, StateTells, ResultTells, Gating, Closing
<1>9. report' = NoFile
  BY <1>2 DEF BookInv, ReportTells, Gating
<1> QED BY <1>2, <1>5, <1>6, <1>7, <1>8, <1>9, Keeps, Unreported DEF BookInv, Sent

LEMMA AnswerTells ==
  ASSUME BookInv, GatewayAnswers \/ AppAnswers \/ NobodyAnswers PROVE BookInv'
<1>1. /\ UNCHANGED <<analyses, override, keyKnown, edits, proposal, wire, audit,
                     events, state, report>>
      /\ pc = "wire" /\ pc' = "audit"
  BY DEF GatewayAnswers, AppAnswers, NobodyAnswers, Answered, outside, settings,
         logs, summary
<1>2. answer'.carries \subseteq Marks
  <2>1. CASE GatewayAnswers
    <3>1. PICK carries \in SUBSET {"signal"} :
            \E status : Answered("gateway", status, carries)
      BY <2>1, Zenon DEF GatewayAnswers
    <3>2. PICK status : Answered("gateway", status, carries)
      BY <3>1
    <3>3. answer'.carries = carries
      BY <3>2 DEF Answered
    <3> QED BY <3>3 DEF Marks
  <2>2. CASE AppAnswers
    <3>1. PICK carries \in SUBSET {"signal", "late signal", "personal data",
                                   "instruction"} :
            Answered("application", "200", carries)
      BY <2>2 DEF AppAnswers
    <3> QED BY <3>1 DEF Answered, Marks
  <2>3. CASE NobodyAnswers
    BY <2>3 DEF NobodyAnswers, Answered, Marks
  <2> QED BY <2>1, <2>2, <2>3
<1>3. WireTells'
  BY <1>1, <1>2 DEF BookInv, WireTells, Left, Gating, Sent, Closing
<1>4. AuditTells'
  BY <1>1 DEF BookInv, AuditTells, Gating, Closing
<1>5. EventsTell'
  BY <1>1 DEF BookInv, EventsTell, Has, Gating, Sent, Closing
<1>6. StateTells' /\ ResultTells'
  BY <1>1 DEF BookInv, StateTells, ResultTells, Sent, Closing
<1>7. report' = NoFile
  BY <1>1 DEF BookInv, ReportTells, Sent
<1> QED BY <1>1, <1>3, <1>4, <1>5, <1>6, <1>7, Keeps, Unreported DEF BookInv, Sent

\* The audit log, the event of the approval and the result, one by one.
LEMMA LogTells ==
  ASSUME BookInv, AuditAnswer \/ ApprovalEvent \/ RecordResult PROVE BookInv'
<1>1. /\ UNCHANGED <<analyses, override, keyKnown, edits, proposal, wire,
                     received, answer, report>>
      /\ \/ pc = "audit" /\ pc' = "event" /\ AuditAnswer
         \/ pc = "event" /\ pc' = "result" /\ ApprovalEvent
         \/ pc = "result" /\ pc' = "scrub" /\ RecordResult
  BY DEF AuditAnswer, ApprovalEvent, RecordResult, outside, settings, network,
         summary
<1>2. Left /\ Left' /\ proposal.accepted
  BY <1>1 DEF BookInv, WireTells, Left, Sent, Closing
<1>3. WireTells'
  BY <1>1, <1>2 DEF BookInv, WireTells, Left, Gating, Sent, Closing
<1>4. AuditTells'
  <2>1. CASE AuditAnswer
    <3>1. audit = <<>> /\ audit' = Append(audit, "SENT") /\ pc' = "event"
      BY <1>1, <2>1 DEF AuditAnswer, BookInv, AuditTells
    <3> QED BY <3>1 DEF AuditTells, Gating, Closing
  <2>2. CASE ApprovalEvent \/ RecordResult
    <3>1. audit' = <<"SENT">> /\ pc' \in {"result", "scrub"}
      BY <1>1, <2>2 DEF ApprovalEvent, RecordResult, logs, BookInv, AuditTells
    <3> QED BY <1>2, <3>1 DEF AuditTells, Gating
  <2> QED BY <2>1, <2>2
<1>5. EventsTell'
  <2>1. /\ events \in Seq(EventKinds) /\ ~Has(Redaction)
        /\ pc \in {"audit", "event"} => ~Has(Granted)
        /\ pc = "result" => (Has(Granted) <=> Asked)
    BY <1>1 DEF BookInv, EventsTell, Sent
  <2>2. Asked' <=> Asked
    BY <1>1, <1>2 DEF Asked, Left
  <2>3. CASE events' = events
    <3>1. (Has(Granted)' <=> Has(Granted)) /\ (Has(Redaction)' <=> Has(Redaction))
      BY <2>3 DEF Has
    <3>2. pc = "event" => ~NeedsApproval(proposal.probe)
      <4>1. ASSUME pc = "event", NeedsApproval(proposal.probe) PROVE FALSE
        <5>1. events' = Append(events, Granted)
          BY <1>1, <4>1 DEF ApprovalEvent, Granted
        <5>2. Occurs(Granted, events')
          BY <2>1, <5>1, OccursAppend DEF EventKinds
        <5> QED BY <2>1, <2>3, <4>1, <5>2 DEF Has
      <4> QED BY <4>1
    <3> QED BY <1>1, <2>1, <2>2, <2>3, <3>1, <3>2
            DEF EventsTell, Gating, Closing, Asked
  <2>4. CASE events' # events
    <3>1. /\ pc = "event" /\ pc' = "result" /\ NeedsApproval(proposal.probe)
          /\ events' = Append(events, Granted)
      BY <1>1, <2>4 DEF AuditAnswer, ApprovalEvent, RecordResult, logs, Granted
    <3>2. Granted \in EventKinds
      BY DEF EventKinds
    <3>3. events' \in Seq(EventKinds) /\ Has(Granted)' /\ ~Has(Redaction)'
      BY <2>1, <3>1, <3>2, OccursAppend, EventsDiffer DEF Has
    <3>4. Asked'
      BY <1>1, <1>2, <3>1 DEF Asked
    <3> QED BY <3>1, <3>3, <3>4 DEF EventsTell, Gating, Closing
  <2> QED BY <2>3, <2>4
<1>6. StateTells'
  BY <1>1, <1>2 DEF BookInv, StateTells, AuditAnswer, ApprovalEvent, RecordResult,
                    Gating, Sent, Closing, Terminal
<1>7. ResultTells'
  <2>1. pc' = "scrub" =>
          /\ result'.sent = TRUE /\ result'.preview = Preview
          /\ result'.redacted = Private
    <3>1. ASSUME pc' = "scrub"
          PROVE  result' = [sent |-> TRUE, status |-> answer.status,
                            preview |-> Preview, redacted |-> Private]
      <4>1. RecordResult
        BY <1>1, <3>1
      <4> QED BY <4>1, Zenon DEF RecordResult, Private
    <3> HIDE DEF Private, Preview
    <3> QED BY <3>1
  <2>2. Preview' = Preview /\ Private' = Private
    BY <1>1 DEF Preview, Private
  <2> QED BY <1>1, <1>2, <2>1, <2>2 DEF ResultTells
<1>8. report' = NoFile
  BY <1>1 DEF BookInv, ReportTells, Sent
<1> QED BY <1>1, <1>3, <1>4, <1>5, <1>6, <1>7, <1>8, Keeps, Unreported
        DEF BookInv, Sent

LEMMA ScrubTells == ASSUME BookInv, Scrub PROVE BookInv'
<1>1. /\ UNCHANGED <<analyses, override, keyKnown, edits, proposal, wire,
                     received, answer, audit, result, report>>
      /\ pc = "scrub" /\ pc' = "report"
  BY DEF Scrub, outside, settings, network, summary
<1>2. UNCHANGED <<Left, Asked, Private, Preview>>
  BY <1>1 DEF Left, Asked, Private, Preview
<1>3. WireTells' /\ AuditTells'
  BY <1>1, <1>2 DEF BookInv, WireTells, AuditTells, Gating, Sent, Closing
<1>4. StateTells'
  BY <1>1, <1>2 DEF BookInv, StateTells, Scrub, Kept, Gating, Sent, Closing, Terminal
<1>5. ResultTells'
  BY <1>1, <1>2 DEF BookInv, ResultTells
<1>6. EventsTell'
  <2>1. /\ events \in Seq(EventKinds) /\ ~Has(Redaction)
        /\ Has(Granted) <=> Asked
        /\ result.sent <=> Left
        /\ Left => result.preview = Preview /\ result.redacted = Private
    BY <1>1 DEF BookInv, EventsTell, ResultTells, Closing
  <2>2. CASE ~result.sent
    <3>1. events' = events
      BY <2>2 DEF Scrub
    <3>2. Has(Granted)' = Has(Granted) /\ Has(Redaction)' = Has(Redaction)
      BY <3>1 DEF Has
    <3> QED BY <1>1, <1>2, <2>1, <2>2, <3>1, <3>2 DEF EventsTell, Gating, Sent, Closing
  <2>3. CASE result.sent
    <3> DEFINE injected == IF "instruction" \in result.preview
                           THEN <<[kind |-> "injection"]>> ELSE <<>>
               masked   == IF Masked(result) THEN <<Redaction>> ELSE <<>>
    <3>1. events' = (events \o injected) \o masked
      BY <2>3 DEF Scrub, Redaction
    <3>2. Masked(result) <=> Private
      BY <2>1, <2>3 DEF Masked, Preview
    <3>3. injected \in Seq(EventKinds) /\ masked \in Seq(EventKinds)
      <4>1. \A e \in EventKinds : <<e>> \in Seq(EventKinds)
        OBVIOUS
      <4>2. <<>> \in Seq(EventKinds)
        OBVIOUS
      <4>3. [kind |-> "injection"] \in EventKinds /\ Redaction \in EventKinds
        BY DEF EventKinds
      <4> QED BY <4>1, <4>2, <4>3
    <3>4. ~Occurs(Granted, injected) /\ ~Occurs(Redaction, injected)
      BY OccursNot, OccursOne, EventsDiffer
    <3>5. ~Occurs(Granted, masked) /\ (Occurs(Redaction, masked) <=> Private)
      BY <3>2, OccursNot, OccursOne, EventsDiffer
    <3> HIDE DEF injected, masked
    <3>6. events \o injected \in Seq(EventKinds)
      BY <2>1, <3>3
    <3>7. /\ events' \in Seq(EventKinds)
          /\ Has(Granted)' <=> Has(Granted)
          /\ Has(Redaction)' <=> Private
      <4>1. events' \in Seq(EventKinds)
        BY <3>1, <3>3, <3>6
      <4>2. \A x : Occurs(x, events') <=>
                     Occurs(x, events) \/ Occurs(x, injected) \/ Occurs(x, masked)
        BY <2>1, <3>1, <3>3, <3>6, OccursConcat
      <4> QED BY <2>1, <3>4, <3>5, <4>1, <4>2 DEF Has
    <3> QED BY <1>1, <1>2, <2>1, <2>3, <3>7 DEF EventsTell, Gating, Sent, Closing
  <2> QED BY <2>2, <2>3
<1>7. report' = NoFile
  BY <1>1 DEF BookInv, ReportTells
<1> QED BY <1>1, <1>3, <1>4, <1>5, <1>6, <1>7, Keeps, Unreported DEF BookInv

\* The steps that write the report and the metrics leave the rest alone.
LEMMA Writes ==
  ASSUME BookInv,
         UNCHANGED <<analyses, override, keyKnown, edits, proposal, network, logs,
                     result>>,
         pc \in Closing \ {"scrub"}, pc' \in Closing \ {"scrub", "report"},
         state' \in {state, Kept("REPORTING")}
  PROVE  /\ GivenTells' /\ ProposalTells' /\ WireTells' /\ AuditTells'
         /\ EventsTell' /\ StateTells' /\ ResultTells'
         /\ FinishedRunsAgree' /\ MaskingIsReported'
         /\ UNCHANGED <<Left, Asked, Private, Preview>>
<1>1. UNCHANGED <<wire, received, answer, audit, events>>
  BY DEF network, logs
<1>2. UNCHANGED <<Left, Asked, Private, Preview>>
  BY <1>1 DEF Left, Asked, Private, Preview
<1>3. GivenTells' /\ ProposalTells'
  BY Keeps DEF Closing
<1>4. WireTells' /\ AuditTells'
  BY <1>1, <1>2 DEF BookInv, WireTells, AuditTells, Gating, Sent, Closing
<1>5. EventsTell'
  <2>1. UNCHANGED <<Has(Granted), Has(Redaction)>>
    BY <1>1 DEF Has
  <2>2. pc = "report" \/ pc # "report"
    OBVIOUS
  <2> QED BY <1>1, <1>2, <2>1 DEF BookInv, EventsTell, Gating, Sent, Closing
<1>6. StateTells' /\ ResultTells'
  BY <1>2 DEF BookInv, StateTells, ResultTells, Kept, Gating, Sent, Closing, Terminal
<1>7. FinishedRunsAgree' /\ MaskingIsReported'
  BY DEF FinishedRunsAgree, MaskingIsReported, Closing
<1> QED BY <1>2, <1>3, <1>4, <1>5, <1>6, <1>7

\* A conclusion rests on an analysis of the name the proposal has.
LEMMA ConclusionIsGrounded ==
  ASSUME BookInv, pc = "report", Conclusion # "inconclusive"
  PROVE  /\ Left /\ override = NoObjective
         /\ \E i, j \in DOMAIN analyses :
              /\ analyses[i].id = proposal.source
              /\ analyses[j].id = proposal.source
              /\ wire.path \in analyses[i].names
              /\ analyses[j].objective = proposal.objective
              /\ analyses[j].objective.declares
         /\ Conclusion = "supports" <=> "signal" \in answer.carries
<1>1. Conclusive
  BY DEF Conclusion
<1>2. Left /\ result.preview = Preview
  BY <1>1 DEF Conclusive, BookInv, ResultTells
<1>3. proposal.accepted /\ wire.path = proposal.probe.path
  BY <1>2 DEF BookInv, WireTells, Closing
<1>4. override = NoObjective
  BY <1>1 DEF Conclusive, BookInv, ProposalTells
<1>5. PICK j \in DOMAIN analyses :
        /\ analyses[j].id = proposal.source
        /\ analyses[j].objective = proposal.objective
  BY <1>3, <1>4 DEF BookInv, ProposalTells
<1>6. PICK i \in Linked : NamesTheEndpoint(analyses[i], proposal.probe.path)
  BY <1>1 DEF Conclusive
<1>7. i \in DOMAIN analyses /\ analyses[i].id = proposal.source
      /\ wire.path \in analyses[i].names
  BY <1>3, <1>6 DEF Linked, NamesTheEndpoint
<1>8. analyses[j].objective.declares
  BY <1>1, <1>5 DEF Conclusive
<1>9. Conclusion = "supports" <=> "signal" \in answer.carries
  BY <1>1, <1>2 DEF Conclusion, Preview
<1> QED BY <1>2, <1>4, <1>5, <1>7, <1>8, <1>9

LEMMA ReportStepTells == ASSUME BookInv, Report PROVE BookInv'
<1>1. /\ UNCHANGED <<analyses, override, keyKnown, edits, proposal, network, logs,
                     result>>
      /\ UNCHANGED <<wire, received, answer, audit, events>>
      /\ pc = "report" /\ pc' = "metrics" /\ state' = Kept("REPORTING")
  BY DEF Report, outside, settings, network, logs
<1>2. /\ GivenTells' /\ ProposalTells' /\ WireTells' /\ AuditTells'
      /\ EventsTell' /\ StateTells' /\ ResultTells'
      /\ FinishedRunsAgree' /\ MaskingIsReported'
      /\ UNCHANGED <<Left, Asked, Private, Preview>>
  BY <1>1, Writes DEF Closing
<1> DEFINE masked   == CountOf(events, Redaction)
           approved == CountOf(events, Granted) > 0
           blocks   == CountOf(events, [kind |-> "allowlist_block"])
<1>3. report' = [state |-> "REPORTING", sent |-> result.sent,
                 verdict |-> Conclusion, blocks |-> blocks, masked |-> masked,
                 approved |-> approved]
  BY DEF Report, Redaction
<1>4. /\ events \in Seq(EventKinds)
      /\ Has(Granted) <=> Asked
      /\ Has(Redaction) <=> Left /\ Private
  BY <1>1 DEF BookInv, EventsTell, Closing
<1>5. masked > 0 <=> Left /\ Private
  BY <1>4, CountTells DEF Has
<1>6. approved <=> Asked
  BY <1>4, CountTells DEF Has
<1>7. result.sent <=> Left
  BY <1>1 DEF BookInv, ResultTells
<1> HIDE DEF masked, approved, blocks
<1>8. report'.verdict # "inconclusive" => Grounded'
  BY <1>1, <1>2, <1>3, ConclusionIsGrounded DEF Grounded
<1>9. ReportTells' /\ MetricsTell' /\ ConclusionsAreGrounded'
  <2>1. ReportTells'
    BY <1>1, <1>2, <1>3, <1>5, <1>6, <1>7, <1>8 DEF ReportTells, Gating, Sent
  <2>2. MetricsTell'
    BY <1>1 DEF MetricsTell
  <2>3. ConclusionsAreGrounded'
    BY <1>8 DEF ConclusionsAreGrounded, Grounded, Left
  <2> QED BY <2>1, <2>2, <2>3
<1> QED BY <1>2, <1>9 DEF BookInv

LEMMA MetricsTells == ASSUME BookInv, Metrics PROVE BookInv'
<1>1. /\ UNCHANGED <<analyses, override, keyKnown, edits, proposal, network, logs,
                     result>>
      /\ UNCHANGED <<wire, answer, audit, events, report, state>>
      /\ pc = "metrics" /\ pc' = "figures"
  BY DEF Metrics, outside, settings, network, logs
<1>2. /\ GivenTells' /\ ProposalTells' /\ WireTells' /\ AuditTells'
      /\ EventsTell' /\ StateTells' /\ ResultTells'
      /\ FinishedRunsAgree' /\ MaskingIsReported'
      /\ UNCHANGED <<Left, Asked, Private, Preview>>
  BY <1>1, Writes DEF Closing
<1> DEFINE sent == CountOf(audit, "SENT")
           denied == CountOf(audit, "DENIED")
           granted == CountOf(events, Granted)
           withheld == CountOf(events, Withheld)
<1>3. metrics' = [state |-> Kept("DONE"), requests |-> sent, denied |-> denied,
                  approved |-> granted, rejected |-> withheld]
  BY DEF Metrics
<1>4. /\ sent = IF Left THEN 1 ELSE 0
      /\ denied = IF ~Left /\ proposal.accepted THEN 1 ELSE 0
  <2>1. /\ audit = IF Left THEN <<"SENT">>
                   ELSE IF proposal.accepted THEN <<"DENIED">> ELSE <<>>
    BY <1>1 DEF BookInv, AuditTells, Closing
  <2> QED BY <2>1, CountLines
<1>5. state = "REJECTED" => granted = 0
  <2>1. events \in Seq(EventKinds) /\ (Has(Granted) <=> Asked)
        /\ (state = "REJECTED" => ~Left)
    BY <1>1 DEF BookInv, EventsTell, StateTells, Closing
  <2>2. granted \in Nat /\ (granted > 0 <=> Has(Granted))
    BY <2>1, CountTells DEF Has
  <2> HIDE DEF granted
  <2> QED BY <2>1, <2>2 DEF Asked
<1> HIDE DEF sent, denied, granted, withheld
<1>6. MetricsTell'
  BY <1>1, <1>2, <1>3, <1>4, <1>5 DEF MetricsTell, Kept
<1>7. ReportTells'
  BY <1>1, <1>2 DEF BookInv, ReportTells, Grounded, Gating, Sent
<1>8. ConclusionsAreGrounded'
  BY <1>1 DEF BookInv, ConclusionsAreGrounded
<1> QED BY <1>2, <1>6, <1>7, <1>8 DEF BookInv

LEMMA FiguresTell == ASSUME BookInv, Figures PROVE BookInv'
<1>1. /\ UNCHANGED <<analyses, override, keyKnown, edits, proposal, network, logs,
                     result>>
      /\ UNCHANGED <<wire, answer, metrics, state>>
      /\ pc = "figures" /\ pc' = "text"
  BY DEF Figures, outside, settings, network, logs
<1>2. /\ GivenTells' /\ ProposalTells' /\ WireTells' /\ AuditTells'
      /\ EventsTell' /\ StateTells' /\ ResultTells'
      /\ FinishedRunsAgree' /\ MaskingIsReported'
      /\ UNCHANGED <<Left, Asked, Private, Preview>>
  BY <1>1, Writes DEF Closing
<1>3. report' = [state |-> Kept("DONE"), sent |-> report.sent,
                 verdict |-> report.verdict, blocks |-> report.blocks,
                 masked |-> report.masked, approved |-> report.approved]
  BY <1>1 DEF Figures, BookInv, ReportTells
<1>4. ReportTells'
  <2>1. report'.verdict # "inconclusive" => Grounded'
    BY <1>1, <1>2, <1>3 DEF BookInv, ReportTells, Grounded
  <2> QED BY <1>1, <1>2, <1>3, <2>1 DEF BookInv, ReportTells, Gating, Sent
<1>5. MetricsTell'
  BY <1>1, <1>2, <1>3 DEF BookInv, MetricsTell, Kept
<1>6. ConclusionsAreGrounded'
  BY <1>1, <1>4 DEF ReportTells, ConclusionsAreGrounded, Grounded, Left
<1> QED BY <1>2, <1>4, <1>5, <1>6 DEF BookInv

LEMMA TextTells == ASSUME BookInv, Text PROVE BookInv'
<1>1. /\ UNCHANGED <<analyses, override, keyKnown, edits, proposal, wire,
                     received, answer, audit, events, report, metrics>>
      /\ pc = "text" /\ pc' = "end"
      /\ state' = Kept("DONE") /\ reportText' = Kept("DONE")
  BY DEF Text, outside, settings, network, logs
<1>2. GivenTells' /\ ProposalTells'
  BY <1>1, Keeps
<1>3. UNCHANGED <<Left, Asked, Private>>
  BY <1>1 DEF Left, Asked, Private
<1>4. WireTells' /\ AuditTells'
  BY <1>1, <1>3 DEF BookInv, WireTells, AuditTells, Gating, Sent, Closing
<1>5. EventsTell'
  BY <1>1 DEF BookInv, EventsTell, Gating, Sent, Closing
<1>6. StateTells' /\ ResultTells' /\ ReportTells' /\ MetricsTell'
  BY <1>1 DEF BookInv, StateTells, ResultTells, ReportTells, MetricsTell, Kept,
              Gating, Sent, Closing, Terminal
<1>7. ConclusionsAreGrounded'
  BY <1>1 DEF BookInv, ConclusionsAreGrounded
<1>8. /\ report.state = Kept("DONE") /\ metrics.state = Kept("DONE")
      /\ report.sent <=> Left
      /\ report.approved <=> Asked
      /\ report.masked > 0 <=> Left /\ Private
      /\ metrics.requests = IF Left THEN 1 ELSE 0
      /\ metrics.denied = IF ~Left /\ proposal.accepted THEN 1 ELSE 0
      /\ state = "REJECTED" => ~Left /\ metrics.approved = 0
      /\ state \notin {"DONE", "FAILED"}
  BY <1>1 DEF BookInv, ReportTells, MetricsTell, StateTells, Closing
<1>9. FinishedRunsAgree'
  <2>1. state' = "REJECTED" => state = "REJECTED"
    BY <1>1 DEF Kept
  <2> QED BY <1>1, <1>8, <2>1 DEF FinishedRunsAgree, Left, Asked
<1>10. MaskingIsReported'
  BY <1>1, <1>8 DEF MaskingIsReported, Left, Private
<1> QED BY <1>2, <1>4, <1>5, <1>6, <1>7, <1>9, <1>10 DEF BookInv

LEMMA BookStep == ASSUME IInv, BookInv, [Next]_vars PROVE BookInv'
<1>1. CASE Propose
  BY <1>1, ProposeTells
<1>2. CASE SkipApproval \/ AskOperator \/ Decide
  BY <1>2, ApprovalTells
<1>3. CASE ProbeBadDecision \/ Fail
  BY <1>3, AbortTells
<1>4. CASE ProbeNothing \/ Deny \/ RecordDenial
  BY <1>4, RefusalTells
<1>5. CASE SendRequest
  BY <1>5, SendTells
<1>6. CASE GatewayAnswers \/ AppAnswers \/ NobodyAnswers
  BY <1>6, AnswerTells
<1>7. CASE AuditAnswer \/ ApprovalEvent \/ RecordResult
  BY <1>7, LogTells
<1>8. CASE Scrub
  BY <1>8, ScrubTells
<1>9. CASE Report
  BY <1>9, ReportStepTells
<1>10. CASE Metrics
  BY <1>10, MetricsTells
<1>11. CASE Figures
  BY <1>11, FiguresTell
<1>12. CASE Text
  BY <1>12, TextTells
<1>13. CASE EditRegistry \/ EditProposal
  BY <1>13, EditTells
<1>14. CASE UNCHANGED vars
  <2>1. UNCHANGED <<pc, state, reportText, analyses, override, keyKnown, edits,
                   proposal, wire, received, answer, audit, events, result, report,
                   metrics>>
    BY <1>14 DEF vars, outside, settings, network, logs, summary
  <2>2. GivenTells' /\ ProposalTells' /\ WireTells' /\ AuditTells'
    BY <2>1 DEF BookInv, GivenTells, ProposalTells, Sound, WireTells, AuditTells,
                Left
  <2>3. EventsTell' /\ StateTells' /\ ResultTells'
    BY <2>1 DEF BookInv, EventsTell, Has, Asked, Left, Private, StateTells,
                ResultTells, Preview
  <2>4. ReportTells' /\ MetricsTell'
    BY <2>1 DEF BookInv, ReportTells, MetricsTell, Grounded, Left, Asked, Private,
                Kept
  <2>5. ConclusionsAreGrounded' /\ FinishedRunsAgree' /\ MaskingIsReported'
    BY <2>1 DEF BookInv, ConclusionsAreGrounded, FinishedRunsAgree,
                MaskingIsReported
  <2> QED BY <2>2, <2>3, <2>4, <2>5 DEF BookInv
<1> QED BY <1>1, <1>2, <1>3, <1>4, <1>5, <1>6, <1>7, <1>8, <1>9, <1>10, <1>11,
           <1>12, <1>13, <1>14 DEF Next, ProbeStep

\* At each point of the call the files tell what happened so far.
THEOREM FilesTell == Spec => []BookInv
<1>1. Init => BookInv
  BY BookInit
<1>2. IInv /\ BookInv /\ [Next]_vars => BookInv'
  BY BookStep
<1> QED BY <1>1, <1>2, FlowInvariant, PTL DEF Spec

-----------------------------------------------------------------------------
\* Every variable has its type, and one call logs one line at most.
THEOREM FlowTypes == Spec => []TypeOK
<1>1. IInv /\ BookInv => TypeOK
  <2> SUFFICES ASSUME IInv, BookInv PROVE TypeOK
    OBVIOUS
  <2>1. registry \in Registries /\ maps \in Registries
    BY DEF IInv, PolicyFiles
  <2>2. /\ keyKnown \in BOOLEAN /\ analyses \in Analyses
        /\ override \in Overrides \cup {NoObjective} /\ edits \in 0..MaxEdits
    BY DEF BookInv, GivenTells
  <2>3. proposal # NoFile =>
          /\ proposal.accepted => proposal.probe # NoFile
          /\ proposal.accepted => proposal.objective # NoObjective
    BY NoFileAssumption DEF BookInv, ProposalTells, Sound
  <2>4. /\ wire \in Files(Requests)
        /\ received # NoFile => wire # NoFile
        /\ answer # NoFile => answer.carries \subseteq Marks
    BY DEF BookInv, WireTells, Left
  <2>5. audit \in Seq(Lines) /\ Len(audit) <= 1
    <3>1. audit \in {<<>>, <<"SENT">>, <<"DENIED">>}
      BY DEF BookInv, AuditTells
    <3>2. \A x \in Lines : <<x>> \in Seq(Lines) /\ Len(<<x>>) = 1
      OBVIOUS
    <3>3. <<>> \in Seq(Lines) /\ Len(<<>>) <= 1
      OBVIOUS
    <3>4. "SENT" \in Lines /\ "DENIED" \in Lines
      BY DEF Lines
    <3>5. /\ <<"SENT">> \in Seq(Lines) /\ Len(<<"SENT">>) <= 1
          /\ <<"DENIED">> \in Seq(Lines) /\ Len(<<"DENIED">>) <= 1
      BY <3>2, <3>4
    <3>6. CASE audit = <<>>
      BY <3>3, <3>6
    <3>7. CASE audit \in {<<"SENT">>, <<"DENIED">>}
      BY <3>5, <3>7
    <3> QED BY <3>1, <3>6, <3>7
  <2>6. /\ state \in {"ANALYZING", "AWAITING_APPROVAL", "PROBING", "SCRUBBING",
                      "REPORTING"} \cup Terminal
        /\ state \in {"DONE", "FAILED"} => pc = "end"
    BY DEF BookInv, StateTells
  <2> QED BY <2>1, <2>2, <2>3, <2>4, <2>5, <2>6 DEF TypeOK
<1> QED BY <1>1, FlowInvariant, FilesTell, PTL

\* A finished run's report, metrics and logs tell what happened on the wire and
\* what became of the approval.
THEOREM FinishedRuns == Spec => []FinishedRunsAgree
<1>1. BookInv => FinishedRunsAgree
  BY DEF BookInv
<1> QED BY <1>1, FilesTell, PTL

\* A finding is called supported or refuted only on its own evidence, its own
\* declared signal and an answer to the operator's own run.
THEOREM Conclusions == Spec => []ConclusionsAreGrounded
<1>1. BookInv => ConclusionsAreGrounded
  BY DEF BookInv
<1> QED BY <1>1, FilesTell, PTL

\* What was masked in an answer is reported as masked, and nothing else is.
THEOREM MaskingTold == Spec => []MaskingIsReported
<1>1. BookInv => MaskingIsReported
  BY DEF BookInv
<1> QED BY <1>1, FilesTell, PTL

=============================================================================
