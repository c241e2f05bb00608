----------------------------- MODULE ProbeFlow -----------------------------
(***************************************************************************)
(* What a run does with the objectives of its analysis: one is chosen, may *)
(* be approved, passes the gates of send_probe and those of the Gateway,   *)
(* and what comes back ends up in the audit log, the events, the result,   *)
(* the report and the metrics.  RunLifecycle shows that one call at a time *)
(* does this; here is that call, with the content RunLifecycle leaves out. *)
(* The registry, the Gateway's copy of it and proposal.json may be changed *)
(* by hand meanwhile, and any step may fail half way.                      *)
(***************************************************************************)
EXTENDS GatewayPolicy, FiniteSets

CONSTANTS
  Registries,   \* what endpoint-allowlist.json may hold
  Analyses,     \* what analysis.jsonl may hold
  Overrides,    \* objectives the operator may give on the command line
  Probes,       \* probes a hand may write into proposal.json
  NoObjective,  \* the agent proposes nothing; no override
  NoFile,       \* an artifact is not there
  Broken,       \* decision.json, when it cannot be read
  MaxEdits      \* bound: how many times a file is changed by hand

\* The payload of every template is one that has a canonical body.
ASSUME RegistriesAssumption ==
  \A reg \in Registries : \A t \in Range(reg.templates) :
    t.kind \in SafeKinds \cup {NoPayload}

ASSUME MaxEditsAssumption == MaxEdits \in Nat

\* analysis.jsonl is read line by line.
ASSUME AnalysesAssumption ==
  \A s \in Analyses : Len(s) \in Nat /\ DOMAIN s = 1..Len(s)

\* The requests and the probes that some registry lets through.
Requests ==
  UNION {[method : Methods, path : {e.path : e \in Range(reg.endpoints)},
          body : SafeKinds \cup {NoPayload},
          template : UNION {Range(e.templates) : e \in Range(reg.endpoints)},
          under : {reg}] : reg \in Registries}

ReviewedProbes ==
  UNION {[method : Methods, path : {e.path : e \in Range(reg.endpoints)},
          kind : SafeKinds] : reg \in Registries}

\* None of them is taken for a file that is not there.
ASSUME NoFileAssumption == NoFile \notin Requests \cup ReviewedProbes \cup Probes

\* What a hand writes into proposal.json still has the fields of SafeProbe.
ASSUME ProbesAssumption ==
  \A p \in Probes : p = [method |-> p.method, path |-> p.path, kind |-> p.kind]

VARIABLES
  registry,     \* endpoint-allowlist.json
  maps,         \* the registry the Gateway's maps were copied from
  keyKnown,     \* client and Gateway use the same API key
  analyses,     \* analysis.jsonl
  override,     \* ctx.probe_override
  pc,           \* what the call does next
  state,        \* the state in state.json
  proposal,     \* proposal.json
  request,      \* approval-request.json: its fingerprint
  decision,     \* decision.json
  wire,         \* the request that left
  received,     \* what the application got of it
  answer,       \* what came back
  audit,        \* gateway-requests.jsonl
  events,       \* events.jsonl
  result,       \* probe-result.json
  report,       \* report.json
  reportText,   \* the state report.md names
  metrics,      \* metrics.json
  edits         \* how many changes by hand there were

settings == <<keyKnown, analyses, override>>
outside == <<registry, maps, settings, edits>>
network == <<wire, received, answer>>
logs == <<audit, events>>
summary == <<report, reportText, metrics>>
vars == <<outside, pc, state, proposal, request, decision, network, logs,
          result, summary>>

Init ==
  /\ registry \in Registries
  /\ maps \in {r \in Registries : Readable(r)}
  /\ keyKnown \in BOOLEAN
  /\ analyses \in Analyses
  /\ override \in Overrides \cup {NoObjective}
  /\ pc = "propose" /\ state = "ANALYZING"
  /\ proposal = NoFile /\ request = NoFile /\ decision = NoFile
  /\ wire = NoFile /\ received = NoFile /\ answer = NoFile
  /\ audit = <<>> /\ events = <<>>
  /\ result = NoFile /\ report = NoFile /\ reportText = "" /\ metrics = NoFile
  /\ edits = 0

Terminal == {"DONE", "REJECTED", "FAILED"}

\* _execute restores a terminal state.
Kept(st) == IF state \in Terminal THEN state ELSE st

\* Any step may fail, also after some of what it does.
Fail ==
  /\ pc \notin {"waiting", "end"}
  /\ state' = "FAILED" /\ pc' = "end"
  /\ UNCHANGED <<outside, proposal, request, decision, network, logs, result,
                 summary>>

-----------------------------------------------------------------------------
(* step_propose.                                                           *)

\* validate_objective
Accepts(reg, o) ==
  /\ o # NoObjective
  /\ o.complete
  /\ o.kind \in SafeKinds
  /\ o.method \in Methods
  /\ IsReviewed(reg, o.method, o.path, o.kind)

\* _choose_objective: the first accepted empty value, else the first accepted
\* objective, else the first one, else none.
Chosen(reg) ==
  LET proposed == {n \in DOMAIN analyses : analyses[n].objective # NoObjective}
      accepted == {n \in proposed : Accepts(reg, analyses[n].objective)}
      mild     == {n \in accepted : analyses[n].objective.kind = "empty_value"}
      best     == IF mild # {} THEN mild
                  ELSE IF accepted # {} THEN accepted ELSE proposed
  IN IF best = {} THEN [id |-> "none", objective |-> NoObjective]
     ELSE analyses[CHOOSE n \in best : \A m \in best : n <= m]

ProbeOf(o) == [method |-> o.method, path |-> o.path, kind |-> o.kind]

Propose ==
  LET chosen   == IF override # NoObjective
                  THEN [id |-> "operator-override", objective |-> override]
                  ELSE Chosen(registry)
      accepted == Accepts(registry, chosen.objective)
  IN /\ pc = "propose" /\ pc' = "approval"
     /\ Readable(registry)
     /\ proposal' = [accepted  |-> accepted,
                     probe     |-> IF accepted THEN ProbeOf(chosen.objective) ELSE NoFile,
                     source    |-> chosen.id,
                     objective |-> chosen.objective,
                     override  |-> override # NoObjective]
     /\ events' = IF chosen.objective # NoObjective /\ ~accepted
                  THEN Append(events, [kind |-> "allowlist_block"]) ELSE events
     /\ UNCHANGED <<outside, state, request, decision, network, audit, result,
                    summary>>

-----------------------------------------------------------------------------
(* step_approval, and the operator.                                        *)

NeedsApproval(probe) == probe.method = "POST" \/ probe.kind # NoPayload

SkipApproval ==
  /\ pc = "approval" /\ pc' = "probe"
  /\ proposal.accepted => ~NeedsApproval(proposal.probe)
  /\ UNCHANGED <<outside, state, proposal, request, decision, network, logs,
                 result, summary>>

\* The request holds the payload itself, so its kind has to be a known one.
AskOperator ==
  /\ pc = "approval" /\ pc' = "waiting"
  /\ proposal.accepted /\ NeedsApproval(proposal.probe)
  /\ proposal.probe.kind \in SafeKinds \cup {NoPayload}
  /\ request' = proposal.probe
  /\ state' = "AWAITING_APPROVAL"
  /\ UNCHANGED <<outside, proposal, decision, network, logs, result, summary>>

\* The operator decides on what the request shows, or leaves a file that
\* cannot be read; the run is taken over.
Decide ==
  /\ pc = "waiting" /\ pc' = "probe"
  /\ decision' \in {[approved |-> a, fp |-> request] : a \in BOOLEAN}
                     \cup {Broken}
  /\ state' = "PROBING"
  /\ UNCHANGED <<outside, proposal, request, network, logs, result, summary>>

-----------------------------------------------------------------------------
(* step_probe and send_probe.                                              *)

Unsent == [sent |-> FALSE, status |-> "none", preview |-> {}, redacted |-> FALSE]

ProbeBadDecision ==
  /\ pc = "probe" /\ pc' = "end"
  /\ decision = Broken
  /\ result' = Unsent
  /\ audit' = Append(audit, "DENIED")
  /\ events' = Append(events, [kind |-> "approval", approved |-> FALSE])
  /\ state' = "FAILED"
  /\ UNCHANGED <<outside, proposal, request, decision, network, summary>>

ProbeNothing ==
  /\ pc = "probe" /\ pc' = "scrub"
  /\ decision # Broken
  /\ ~proposal.accepted
  /\ result' = Unsent
  /\ UNCHANGED <<outside, state, proposal, request, decision, network, logs,
                 summary>>

\* The decision is an approval of this very request.
Approved(p) == decision # NoFile /\ decision.approved /\ decision.fp = p

\* The gates of send_probe, in their order; "" when all are passed.
Denial ==
  LET p == proposal.probe
  IN IF ~IsAllowed(registry, p.method, p.path) THEN "allowlist"
     ELSE IF p.kind \notin SafeKinds \cup {NoPayload} THEN "payload kind"
     ELSE IF Resolved(registry, p.method, p.path, p.kind) = {} THEN "allowlist"
     ELSE IF NeedsApproval(p) /\ ~Approved(p) THEN "approval"
     ELSE ""

\* The probe is built from proposal.json as it is now.
AtGates ==
  /\ pc = "probe"
  /\ decision # Broken
  /\ proposal.accepted
  /\ Readable(registry)

\* Faulty variant of Deny: the denied probe is tried again.
DenyAndRetry ==
  /\ AtGates /\ Denial # ""
  /\ audit' = Append(audit, "DENIED")
  /\ UNCHANGED <<outside, pc, state, proposal, request, decision, network,
                 events, result, summary>>

Deny ==
  /\ AtGates /\ pc' = "denied"
  /\ Denial # ""
  /\ audit' = Append(audit, "DENIED")
  /\ events' = CASE Denial = "allowlist" ->
                      Append(events, [kind |-> "allowlist_block"])
                 [] Denial = "approval" ->
                      Append(events, [kind |-> "approval", approved |-> FALSE])
                 [] OTHER -> events
  /\ UNCHANGED <<outside, state, proposal, request, decision, network, result,
                 summary>>

RecordDenial ==
  /\ pc = "denied" /\ pc' = "scrub"
  /\ result' = Unsent
  /\ state' = IF decision # NoFile /\ ~decision.approved THEN "REJECTED" ELSE "PROBING"
  /\ UNCHANGED <<outside, proposal, request, decision, network, logs, summary>>

\* The request leaves; it is noted by which registry.
SendRequest ==
  LET p == proposal.probe
  IN /\ AtGates /\ pc' = "wire"
     /\ Denial = ""
     /\ \E id \in Resolved(registry, p.method, p.path, p.kind) :
          wire' = [method |-> p.method, path |-> p.path, body |-> p.kind,
                   template |-> id, under |-> registry]
     /\ UNCHANGED <<outside, state, proposal, request, decision, received,
                    answer, logs, result, summary>>

-----------------------------------------------------------------------------
(* The answer.  It may carry the signal the agent waits for, near its      *)
(* beginning or past the 512 bytes that are kept, personal data, or an     *)
(* instruction to the agent.                                               *)

Answered(from, status, carries) ==
  /\ answer' = [from |-> from, status |-> status, carries |-> carries]
  /\ pc' = "audit"
  /\ UNCHANGED <<outside, state, proposal, request, decision, wire, logs,
                 result, summary>>

\* A page of the Gateway itself: its policy, its limit, or no application.
GatewayAnswers ==
  LET status == Screen(maps, keyKnown, wire)
  IN /\ pc = "wire"
     /\ \E s \in IF status = "pass" THEN {"429", "502"} ELSE {status},
           carries \in SUBSET {"signal"} : Answered("gateway", s, carries)
     /\ UNCHANGED received

AppAnswers ==
  /\ pc = "wire"
  /\ Screen(maps, keyKnown, wire) = "pass"
  /\ received' = Forwarded(maps, wire)
  /\ \E carries \in SUBSET {"signal", "late signal", "personal data",
                            "instruction"} : Answered("application", "200", carries)

\* The transport gives up, before or after the application got the request.
NobodyAnswers ==
  /\ pc = "wire"
  /\ \/ UNCHANGED received
     \/ /\ Screen(maps, keyKnown, wire) = "pass"
        /\ received' = Forwarded(maps, wire)
  /\ Answered("nobody", "none", {})

\* The whole answer is redacted, then cut to 512 bytes.
Preview == answer.carries \ {"late signal", "personal data"}

AuditAnswer ==
  /\ pc = "audit" /\ pc' = "event"
  /\ audit' = Append(audit, "SENT")
  /\ UNCHANGED <<outside, state, proposal, request, decision, network, events,
                 result, summary>>

ApprovalEvent ==
  /\ pc = "event" /\ pc' = "result"
  /\ events' = IF NeedsApproval(proposal.probe)
               THEN Append(events, [kind |-> "approval", approved |-> TRUE])
               ELSE events
  /\ UNCHANGED <<outside, state, proposal, request, decision, network, audit,
                 result, summary>>

RecordResult ==
  /\ pc = "result" /\ pc' = "scrub"
  /\ result' = [sent |-> TRUE, status |-> answer.status, preview |-> Preview,
                redacted |-> "personal data" \in answer.carries]
  /\ state' = "PROBING"
  /\ UNCHANGED <<outside, proposal, request, decision, network, logs, summary>>

\* Faulty variant of Masked: what send_probe masked is forgotten.
MaskedHereOnly(r) == "personal data" \in r.preview

\* What send_probe masked, and what step_scrub still finds.
Masked(r) == r.redacted \/ "personal data" \in r.preview

\* step_scrub
Scrub ==
  /\ pc = "scrub" /\ pc' = "report"
  /\ IF result.sent
     THEN /\ state' = Kept("SCRUBBING")
          /\ events' = events
               \o (IF "instruction" \in result.preview
                   THEN <<[kind |-> "injection"]>> ELSE <<>>)
               \o (IF Masked(result) THEN <<[kind |-> "redaction"]>> ELSE <<>>)
     ELSE UNCHANGED <<state, events>>
  /\ UNCHANGED <<outside, proposal, request, decision, network, audit, result,
                 summary>>

-----------------------------------------------------------------------------
(* step_report and step_finalize.                                          *)

\* _linked_record: the first entry with that name.
Linked ==
  {n \in DOMAIN analyses :
     /\ analyses[n].id = proposal.source
     /\ \A m \in 1..(n - 1) : analyses[m].id # proposal.source}

\* Faulty variant of NamesTheEndpoint: any endpoint will do.
AnyEndpoint(a, path) == TRUE

\* The endpoint occurs in the evidence of the finding, not just in what the
\* agent says of its objective.
NamesTheEndpoint(a, path) == path \in a.names

\* decide_verdict
Conclusive ==
  /\ result.sent
  /\ ~proposal.override
  /\ \E n \in Linked : NamesTheEndpoint(analyses[n], proposal.probe.path)
  /\ proposal.objective.declares

Conclusion ==
  IF ~Conclusive THEN "inconclusive"
  ELSE IF "signal" \in result.preview THEN "supports" ELSE "refutes"

CountOf(s, x) == Cardinality({n \in DOMAIN s : s[n] = x})

Granted == [kind |-> "approval", approved |-> TRUE]

Withheld == [kind |-> "approval", approved |-> FALSE]

\* step_report: report.md and report.json are written with REPORTING in them.
Report ==
  /\ pc = "report" /\ pc' = "metrics"
  /\ state' = Kept("REPORTING")
  /\ reportText' = "REPORTING"
  /\ report' = [state    |-> "REPORTING",
                sent     |-> result.sent,
                verdict  |-> Conclusion,
                blocks   |-> CountOf(events, [kind |-> "allowlist_block"]),
                masked   |-> CountOf(events, [kind |-> "redaction"]),
                approved |-> CountOf(events, Granted) > 0]
  /\ UNCHANGED <<outside, proposal, request, decision, network, logs, result,
                 metrics>>

\* step_finalize sets DONE unless the state is terminal, and collects what the
\* files of the run say.
Metrics ==
  /\ pc = "metrics" /\ pc' = "figures"
  /\ metrics' = [state    |-> Kept("DONE"),
                 requests |-> CountOf(audit, "SENT"),
                 denied   |-> CountOf(audit, "DENIED"),
                 approved |-> CountOf(events, Granted),
                 rejected |-> CountOf(events, Withheld)]
  /\ UNCHANGED <<outside, state, proposal, request, decision, network, logs,
                 result, report, reportText>>

\* Faulty variant of Figures: report.json goes on to say REPORTING.
FiguresLeftAlone ==
  /\ pc = "figures" /\ pc' = "text"
  /\ UNCHANGED <<outside, state, proposal, request, decision, network, logs,
                 result, summary>>

Figures ==
  /\ pc = "figures" /\ pc' = "text"
  /\ report' = [report EXCEPT !.state = Kept("DONE")]
  /\ UNCHANGED <<outside, state, proposal, request, decision, network, logs,
                 result, reportText, metrics>>

\* The text is last; then _execute saves the record.
Text ==
  /\ pc = "text" /\ pc' = "end"
  /\ reportText' = Kept("DONE")
  /\ state' = Kept("DONE")
  /\ UNCHANGED <<outside, proposal, request, decision, network, logs, result,
                 report, metrics>>

-----------------------------------------------------------------------------
(* Changes by hand.                                                        *)

EditRegistry ==
  /\ pc # "end" /\ edits < MaxEdits /\ edits' = edits + 1
  /\ registry' \in Registries \ {registry}
  /\ UNCHANGED <<maps, settings, pc, state, proposal, request, decision,
                 network, logs, result, summary>>

EditProposal ==
  /\ pc \in {"approval", "waiting", "probe"}
  /\ edits < MaxEdits /\ edits' = edits + 1
  /\ proposal.accepted
  /\ \E p \in Probes \ {proposal.probe} : proposal' = [proposal EXCEPT !.probe = p]
  /\ UNCHANGED <<registry, maps, settings, pc, state, request, decision,
                 network, logs, result, summary>>

ProbeStep ==
  \/ ProbeBadDecision \/ ProbeNothing \/ Deny \/ RecordDenial \/ SendRequest
  \/ GatewayAnswers \/ AppAnswers \/ NobodyAnswers
  \/ AuditAnswer \/ ApprovalEvent \/ RecordResult

Next ==
  \/ Propose \/ SkipApproval \/ AskOperator \/ Decide \/ ProbeStep
  \/ Scrub \/ Report \/ Metrics \/ Figures \/ Text \/ Fail
  \/ EditRegistry \/ EditProposal

Spec == Init /\ [][Next]_vars

-----------------------------------------------------------------------------
Files(S) == S \cup {NoFile}

Lines == {"SENT", "DENIED"}

Marks == {"signal", "late signal", "personal data", "instruction"}

\* Every variable has its type, and one call logs one line at most.
TypeOK ==
  /\ registry \in Registries /\ maps \in Registries /\ keyKnown \in BOOLEAN
  /\ analyses \in Analyses /\ override \in Overrides \cup {NoObjective}
  /\ state \in {"ANALYZING", "AWAITING_APPROVAL", "PROBING", "SCRUBBING",
                "REPORTING"} \cup Terminal
  /\ proposal # NoFile =>
       /\ proposal.accepted => proposal.probe # NoFile
       /\ proposal.accepted => proposal.objective # NoObjective
  /\ wire \in Files(Requests)
  /\ received # NoFile => wire # NoFile
  /\ answer # NoFile => answer.carries \subseteq Marks
  /\ audit \in Seq(Lines) /\ Len(audit) <= 1
  /\ state \in {"DONE", "FAILED"} => pc = "end"
  /\ edits \in 0..MaxEdits

\* What the application gets is what was reviewed and what the operator saw:
\* the client's registry names that method, path and payload, and if it needs
\* an approval, the decision approves just that, though the request names only
\* a template, and the Gateway builds the body from a table of its own that may
\* have been copied from another registry.
AppSeesWhatWasApproved ==
  received # NoFile =>
    LET got == [method |-> received.method, path |-> received.path,
                kind |-> received.body]
    IN /\ IsReviewed(wire.under, got.method, got.path, got.kind)
       /\ NeedsApproval(got) => decision.approved /\ decision.fp = got

\* A Gateway whose maps are those of the registry refuses nothing that the
\* client lets through: no gate of the client is wider than its counterpart.
PoliciesAgree ==
  pc = "wire" /\ keyKnown /\ maps = wire.under
    => Screen(maps, keyKnown, wire) = "pass"

\* A finished run's report, metrics and logs tell what happened on the wire
\* and what became of the approval, whichever gate stopped the request.
FinishedRunsAgree ==
  pc = "end" /\ state \in {"DONE", "REJECTED"} =>
    LET left == wire # NoFile
    IN /\ report.state = state /\ reportText = state /\ metrics.state = state
       /\ report.sent <=> left
       /\ metrics.requests = IF left THEN 1 ELSE 0
       /\ metrics.denied = IF ~left /\ proposal.accepted THEN 1 ELSE 0
       /\ report.approved <=> left /\ NeedsApproval(proposal.probe)
       /\ state = "REJECTED" => ~left /\ metrics.approved = 0

\* The report calls a finding supported only if the answer to its own request
\* carried the signal it had declared, and refuted only if the part that is
\* kept did not; the endpoint that was asked occurs in the finding's evidence.
\* Nothing keeps the model from giving two findings one name: then the evidence
\* may be that of the one, and the objective that of the other.
ConclusionsAreGrounded ==
  report # NoFile /\ report.verdict # "inconclusive" =>
    /\ wire # NoFile /\ override = NoObjective
    /\ \E i, j \in DOMAIN analyses :
         /\ analyses[i].id = proposal.source /\ analyses[j].id = proposal.source
         /\ wire.path \in analyses[i].names
         /\ analyses[j].objective = proposal.objective
         /\ analyses[j].objective.declares
    /\ report.verdict = "supports" <=> "signal" \in answer.carries

\* Whatever was masked in an answer is reported as masked, though it was masked
\* before the run's own filter saw it and may lie past the part that is kept.
MaskingIsReported ==
  pc = "end" /\ state \in {"DONE", "REJECTED"} /\ wire # NoFile =>
    (report.masked > 0 <=> "personal data" \in answer.carries)

=============================================================================
