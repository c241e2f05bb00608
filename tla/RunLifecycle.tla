---------------------------- MODULE RunLifecycle ----------------------------
(***************************************************************************)
(* One run of the pipeline, from the first step to its terminal state, and *)
(* every call that may touch it: the call that starts it (execute_run, in  *)
(* the web process or under the CLI's `run`), CLI `approve` calls and web  *)
(* POSTs to /approvals/<run>.  The calls share nothing but the files of    *)
(* the run directory and the flock on .resume.lock, and interleave between *)
(* any two file accesses.  Calls may die; decision.json is written in      *)
(* place and can be seen half-written.                                     *)
(*                                                                         *)
(* The content of a file is a value.  The nine steps are numbered.  Run    *)
(* logs, guardrail events and the artifacts of the analysis are left out.  *)
(***************************************************************************)
EXTENDS Integers, Sequences

CONSTANTS
  Starter,         \* the call that executes phase one
  CliApprovers,    \* calls of `project_sentinel approve`
  WebApprovers,    \* POST /approvals/<run> requests
  StarterIsCli,    \* started by `run` (which prompts) or by POST /runs
  Requests,        \* fingerprints of the requests a proposal may hold
  NoRequest,       \* "" : no fingerprint
  NoOne,           \* the lock is free
  NoDecision,      \* there is no such file
  Empty,           \* decision.json between open(O_TRUNC) and write
  Garbled,         \* decision.json after two overlapping writes
  MaxCrashes,      \* bound: how many times calls die
  MaxEdits         \* bound: how many times proposal.json is edited by hand

Calls == {Starter} \cup CliApprovers \cup WebApprovers

\* The calls served by the one web process.
WebCalls == WebApprovers \cup (IF StarterIsCli THEN {} ELSE {Starter})

Decisions ==
  [by : Calls, approved : BOOLEAN, fp : Requests \cup {NoRequest}]

ASSUME ConstantsAssumption ==
  /\ Starter \notin CliApprovers \cup WebApprovers
  /\ CliApprovers \cap WebApprovers = {}
  /\ StarterIsCli \in BOOLEAN
  /\ Requests # {} /\ NoRequest \notin Requests
  /\ NoOne \notin Calls
  /\ {NoDecision, Empty, Garbled} \cap Decisions = {}
  /\ NoDecision \notin {Empty, Garbled} /\ Empty # Garbled
  /\ MaxCrashes \in Nat /\ MaxEdits \in Nat

-----------------------------------------------------------------------------
(* The record kept in state.json.                                          *)

Approval == 5    \* scan, normalize, analyze and propose are steps 1 to 4
Probe    == 6
Scrub    == 7
Report   == 8
Finalize == 9
StepIndex == 1..9

Statuses == {"pending", "running", "done", "failed", "skipped"}

RunStates == {"IDLE", "SCANNING", "NORMALIZING", "ANALYZING",
              "AWAITING_APPROVAL", "PROBING", "SCRUBBING", "REPORTING",
              "DONE", "REJECTED", "FAILED"}

Terminal == {"DONE", "REJECTED", "FAILED"}

RunRecords == [state : RunStates, steps : [StepIndex -> Statuses]]

InitialRecord == [state |-> "IDLE", steps |-> [s \in StepIndex |-> "pending"]]

\* RunRecord.mark_step
Mark(r, s, status) == [r EXCEPT !.steps = [r.steps EXCEPT ![s] = status]]

WithState(r, st) == [r EXCEPT !.state = st]

\* Faulty variant of Kept: the step's own state wins over a terminal one.
KeptNothing(r, st) == st

\* _execute remembers a terminal state before a step and restores it after.
Kept(r, st) == IF r.state \in Terminal THEN r.state ELSE st

Failed(r, s) == WithState(Mark(r, s, "failed"), "FAILED")

-----------------------------------------------------------------------------
VARIABLES
  stateFile,        \* state.json
  proposal,         \* proposal.json: is a probe accepted, and which
  approvalRequest,  \* approval-request.json: its fingerprint, or NoRequest
  decisionFile,     \* decision.json
  claimFile,        \* probe-claim.json: the idempotency key
  probeResult,      \* probe-result.json: "none", "denied" or "sent"
  auditLog,         \* gateway-requests.jsonl: "SENT" and "DENIED" lines
  lock,             \* who holds the flock on .resume.lock
  wire,             \* the requests that reached the transport
  pc,               \* what each call does next
  at,               \* the step _execute is at, per call
  rec,              \* the RunRecord in memory, per call
  choice,           \* the decision the call's operator made
  loaded,           \* decision and request step_probe holds in memory
  crashes, edits    \* bounded environment events so far

files == <<proposal, approvalRequest, decisionFile, claimFile, probeResult,
           auditLog>>
memory == <<at, rec, choice, loaded>>
environment == <<crashes, edits>>
vars == <<stateFile, files, lock, wire, pc, memory, environment>>

Labels == {"idle", "begin", "body", "offer", "prompt", "truncate", "write",
           "resume", "locked", "take", "send", "audit", "record", "final",
           "unlock", "done", "dead"}

Payloads == [decision : Decisions, fp : Requests]

\* Every variable has its type: the files of a run directory, the lock, and where
\* each call is.
TypeOK ==
  /\ stateFile \in RunRecords
  /\ proposal \in [accepted : BOOLEAN, fp : Requests \cup {NoRequest}]
  /\ proposal.accepted => proposal.fp \in Requests
  /\ approvalRequest \in Requests \cup {NoRequest}
  /\ decisionFile \in Decisions \cup {NoDecision, Empty, Garbled}
  /\ claimFile \in Decisions \cup {NoDecision, Empty, Garbled}
  /\ probeResult \in {"none", "denied", "sent"}
  /\ auditLog \in Seq({"SENT", "DENIED"})
  /\ lock \in Calls \cup {NoOne}
  /\ wire \in Seq(Payloads)
  /\ pc \in [Calls -> Labels]
  /\ at \in [Calls -> StepIndex]
  /\ rec \in [Calls -> RunRecords]
  /\ choice \in [Calls -> Decisions \cup {NoDecision}]
  /\ loaded \in [Calls -> Payloads \cup {NoDecision}]
  /\ \A p \in Calls : pc[p] \in {"truncate", "write"} => choice[p] \in Decisions
  /\ \A p \in Calls : pc[p] = "send" => loaded[p] \in Payloads
  /\ crashes \in Nat /\ edits \in Nat

\* create_run has saved a fresh record; the starter is about to execute it.
Init ==
  /\ stateFile = InitialRecord
  /\ proposal = [accepted |-> FALSE, fp |-> NoRequest]
  /\ approvalRequest = NoRequest
  /\ decisionFile = NoDecision
  /\ claimFile = NoDecision
  /\ probeResult = "none"
  /\ auditLog = <<>>
  /\ lock = NoOne
  /\ wire = <<>>
  /\ pc = [p \in Calls |-> IF p = Starter THEN "begin" ELSE "idle"]
  /\ at = [p \in Calls |-> 1]
  /\ rec = [p \in Calls |-> InitialRecord]
  /\ choice = [p \in Calls |-> NoDecision]
  /\ loaded = [p \in Calls |-> NoDecision]
  /\ crashes = 0 /\ edits = 0

Goto(p, l) == pc' = [pc EXCEPT ![p] = l]

-----------------------------------------------------------------------------
(* _execute: mark the step as running and save; run the step; save what it *)
(* left; go on, or stop on a failure.                                      *)

BeginStep(p) ==
  LET r == Mark(rec[p], at[p], "running")
  IN /\ pc[p] = "begin"
     /\ IF rec[p].steps[at[p]] = "pending"
        THEN rec' = [rec EXCEPT ![p] = r] /\ stateFile' = r
        ELSE UNCHANGED <<rec, stateFile>>
     /\ Goto(p, "body")
     /\ UNCHANGED <<files, lock, wire, at, choice, loaded, environment>>

\* The step returned r: save it and move to the next step of the phase.
SaveStep(p, r) ==
  /\ rec' = [rec EXCEPT ![p] = r]
  /\ stateFile' = r
  /\ IF at[p] = Finalize
     THEN Goto(p, "final") /\ UNCHANGED at
     ELSE Goto(p, "begin") /\ at' = [at EXCEPT ![p] = @ + 1]
  /\ UNCHANGED <<lock, wire, choice, loaded, environment>>

\* Faulty variant of SaveFailure: the loop goes on with the next step.
SaveFailureAndGoOn(p, r) == SaveStep(p, Failed(r, at[p]))

\* _record_failure: the step raised; phase two still goes through the last
\* save of its caller, phase one returns at once.
SaveFailure(p, r) ==
  /\ rec' = [rec EXCEPT ![p] = Failed(r, at[p])]
  /\ stateFile' = Failed(r, at[p])
  /\ Goto(p, IF at[p] <= Approval THEN "done" ELSE "final")
  /\ UNCHANGED <<lock, wire, at, choice, loaded, environment>>

\* Any step may raise before another call can see what it did, step_approval
\* after writing the request, and step_probe while it records an answer.
FailStep(p) ==
  /\ pc[p] \in {"body", "offer", "audit", "record"}
  /\ SaveFailure(p, rec[p])
  /\ UNCHANGED files

-----------------------------------------------------------------------------
(* Phase one: steps 1 to 5.                                                *)

\* Step s fills its artifacts, which no property tells apart, under state st.
IngestStep(p, s, st) ==
  /\ pc[p] = "body" /\ at[p] = s
  /\ SaveStep(p, WithState(Mark(rec[p], s, "done"), Kept(rec[p], st)))
  /\ UNCHANGED files

ScanStep(p) == IngestStep(p, 1, "SCANNING")

NormalizeStep(p) == IngestStep(p, 2, "NORMALIZING")

AnalyzeStep(p) == IngestStep(p, 3, "ANALYZING")

\* Faulty variant of ProposeStep: an accepted proposal without a probe.
ProposeStepWithoutProbe(p) ==
  /\ pc[p] = "body" /\ at[p] = 4
  /\ \E a \in BOOLEAN : proposal' = [accepted |-> a, fp |-> NoRequest]
  /\ SaveStep(p, Mark(rec[p], 4, "done"))
  /\ UNCHANGED <<approvalRequest, decisionFile, claimFile, probeResult, auditLog>>

\* step_propose sets no state of its own; an accepted proposal names a request.
ProposeStep(p) ==
  /\ pc[p] = "body" /\ at[p] = 4
  /\ \/ \E f \in Requests : proposal' = [accepted |-> TRUE, fp |-> f]
     \/ proposal' = [accepted |-> FALSE, fp |-> NoRequest]
  /\ SaveStep(p, Mark(rec[p], 4, "done"))
  /\ UNCHANGED <<approvalRequest, decisionFile, claimFile, probeResult, auditLog>>

\* step_approval without an accepted probe.  An accepted probe always carries
\* a payload kind, so requires_approval holds for every accepted probe.
SkipApproval(p) ==
  /\ pc[p] = "body" /\ at[p] = Approval
  /\ ~proposal.accepted
  /\ SaveStep(p, Mark(rec[p], Approval, "skipped"))
  /\ UNCHANGED files

\* step_approval writes approval-request.json first ...
WriteRequest(p) ==
  /\ pc[p] = "body" /\ at[p] = Approval
  /\ proposal.accepted
  /\ approvalRequest' = proposal.fp
  /\ Goto(p, "offer")
  /\ UNCHANGED <<stateFile, proposal, decisionFile, claimFile, probeResult,
                 auditLog, lock, wire, memory, environment>>

\* Faulty variant of OfferRun: _execute does not stop at AWAITING_APPROVAL.
OfferRunAndGoOn(p) ==
  /\ pc[p] = "offer"
  /\ SaveStep(p, WithState(Mark(rec[p], Approval, "running"),
                           Kept(rec[p], "AWAITING_APPROVAL")))
  /\ UNCHANGED files

\* ... and _execute then saves AWAITING_APPROVAL and returns.  Under `run` the
\* CLI goes on to prompt its operator.
OfferRun(p) ==
  LET r == WithState(Mark(rec[p], Approval, "running"),
                     Kept(rec[p], "AWAITING_APPROVAL"))
  IN /\ pc[p] = "offer"
     /\ rec' = [rec EXCEPT ![p] = r]
     /\ stateFile' = r
     /\ Goto(p, IF StarterIsCli THEN "prompt" ELSE "done")
     /\ UNCHANGED <<files, lock, wire, at, choice, loaded, environment>>

-----------------------------------------------------------------------------
(* The operator's decision.  A call decides, then overwrites decision.json *)
(* in place (open truncates, write fills), then resumes the run.           *)

Decide(p, approved) ==
  /\ choice' = [choice EXCEPT ![p] =
                  [by |-> p, approved |-> approved, fp |-> approvalRequest]]
  /\ Goto(p, "truncate")
  /\ UNCHANGED <<stateFile, files, lock, wire, at, rec, loaded, environment>>

\* The call returns an error to its operator and touches nothing.
TurnAway(p) ==
  /\ Goto(p, "done")
  /\ UNCHANGED <<stateFile, files, lock, wire, memory, environment>>

\* cmd_approve insists on AWAITING_APPROVAL and an approval request.
CliApprove(p) ==
  /\ p \in CliApprovers /\ pc[p] = "idle"
  /\ IF stateFile.state = "AWAITING_APPROVAL" /\ approvalRequest # NoRequest
     THEN \E a \in BOOLEAN : Decide(p, a)
     ELSE TurnAway(p)

\* decide_approval does not look at the state; an approval needs the request,
\* a rejection takes the fingerprint if there is one.
WebApprove(p) ==
  /\ p \in WebApprovers /\ pc[p] = "idle"
  /\ \E a \in BOOLEAN :
       IF a /\ approvalRequest = NoRequest THEN TurnAway(p) ELSE Decide(p, a)

\* cmd_run prompts (or takes --yes) once start_run returned AWAITING_APPROVAL.
PromptOperator(p) ==
  /\ pc[p] = "prompt"
  /\ \E a \in BOOLEAN : Decide(p, a)

\* write_decision, first half: the file is there and empty.
TruncateDecision(p) ==
  /\ pc[p] = "truncate"
  /\ decisionFile' = Empty
  /\ Goto(p, "write")
  /\ UNCHANGED <<stateFile, proposal, approvalRequest, claimFile, probeResult,
                 auditLog, lock, wire, memory, environment>>

\* write_decision, second half: if another writer got in between, the longer
\* text shows behind the shorter one.
WriteDecision(p) ==
  /\ pc[p] = "write"
  /\ decisionFile' \in IF decisionFile = Empty THEN {choice[p]}
                       ELSE {choice[p], Garbled}
  /\ Goto(p, "resume")
  /\ UNCHANGED <<stateFile, proposal, approvalRequest, claimFile, probeResult,
                 auditLog, lock, wire, memory, environment>>

-----------------------------------------------------------------------------
(* resume_run: lock, re-read, check, claim, take the run over.             *)

\* Faulty variant of AcquireLock: a lock of the thread or process only.
AcquireLockOfItsOwn(p) ==
  /\ pc[p] = "resume"
  /\ lock' = p /\ Goto(p, "locked")
  /\ UNCHANGED <<stateFile, files, wire, memory, environment>>

\* run_lock does not wait: a busy lock sends the caller away.
AcquireLock(p) ==
  /\ pc[p] = "resume"
  /\ IF lock = NoOne
     THEN lock' = p /\ Goto(p, "locked")
     ELSE UNCHANGED lock /\ Goto(p, "done")
  /\ UNCHANGED <<stateFile, files, wire, memory, environment>>

\* Faulty variants of MustRefuse: the state read before the lock is trusted; a
\* decision that cannot be parsed counts as no decision.
MustRefuseByClaimOnly == decisionFile = NoDecision

MustRefuseTorn ==
  \/ stateFile.state # "AWAITING_APPROVAL"
  \/ decisionFile \in {NoDecision, Empty, Garbled}

\* _resume_refusal, on the record re-read under the lock.
MustRefuse ==
  \/ stateFile.state # "AWAITING_APPROVAL"
  \/ decisionFile = NoDecision

\* The idempotency key stands for the bytes decision.json holds right now.
IdempotencyKey == decisionFile

\* The claim on disk carries this decision's key already.
AlreadyClaimed == claimFile = IdempotencyKey

RefuseResume(p) ==
  /\ pc[p] = "locked"
  /\ MustRefuse \/ AlreadyClaimed
  /\ Goto(p, "unlock")
  /\ UNCHANGED <<stateFile, files, lock, wire, memory, environment>>

\* write_claim; the record loaded under the lock stays in memory.  Two garbled
\* texts need not be the same text.
ClaimRun(p) ==
  /\ pc[p] = "locked"
  /\ ~MustRefuse
  /\ AlreadyClaimed => decisionFile = Garbled
  /\ rec' = [rec EXCEPT ![p] = stateFile]
  /\ claimFile' = IdempotencyKey
  /\ Goto(p, "take")
  /\ UNCHANGED <<stateFile, proposal, approvalRequest, decisionFile,
                 probeResult, auditLog, lock, wire, at, choice, loaded,
                 environment>>

\* The second mark on disk: the run no longer awaits approval.
TakeRun(p) ==
  LET r == WithState(rec[p], "PROBING")
  IN /\ pc[p] = "take"
     /\ rec' = [rec EXCEPT ![p] = r]
     /\ stateFile' = r
     /\ at' = [at EXCEPT ![p] = Probe]
     /\ Goto(p, "begin")
     /\ UNCHANGED <<files, lock, wire, choice, loaded, environment>>

-----------------------------------------------------------------------------
(* step_probe.  It reads decision.json again.                              *)

AtProbe(p) == pc[p] = "body" /\ at[p] = Probe

Readable(d) == d \notin {Empty, Garbled}

\* Faulty variant of ApprovalSettled: nobody closes the approval step.
ApprovalLeftOpen(r, d) == r

\* A readable decision settles the approval step.
ApprovalSettled(r, d) ==
  IF d = NoDecision THEN r ELSE Mark(r, Approval, "done")

\* An unreadable decision is neither an approval nor a rejection.
ProbeBadDecision(p) ==
  /\ AtProbe(p)
  /\ ~Readable(decisionFile)
  /\ probeResult' = "denied"
  /\ auditLog' = Append(auditLog, "DENIED")
  /\ SaveFailure(p, rec[p])
  /\ UNCHANGED <<proposal, approvalRequest, decisionFile, claimFile>>

\* The allowlist file cannot be read, or the artifact not be written.
ProbeBroken(p) ==
  /\ AtProbe(p)
  /\ Readable(decisionFile)
  /\ SaveFailure(p, ApprovalSettled(rec[p], decisionFile))
  /\ UNCHANGED files

ProbeNothing(p) ==
  /\ AtProbe(p)
  /\ Readable(decisionFile)
  /\ ~proposal.accepted
  /\ probeResult' = "denied"
  /\ SaveStep(p, Mark(ApprovalSettled(rec[p], decisionFile), Probe, "skipped"))
  /\ UNCHANGED <<proposal, approvalRequest, decisionFile, claimFile, auditLog>>

\* Faulty variant of Permits: an approval is good for any request.
PermitsAnyRequest(d, f) == d # NoDecision /\ d.approved

\* send_probe's approval gate for the request in proposal.json.
Permits(d, f) == d # NoDecision /\ d.approved /\ d.fp = f

\* send_probe denies: by policy (allowlist, payload kind, template: a matter of
\* configuration, so always possible), or as the decision does not permit it.
ProbeDenied(p) ==
  LET rejected == decisionFile # NoDecision /\ ~decisionFile.approved
      st == IF rejected THEN "REJECTED" ELSE "PROBING"
  IN /\ AtProbe(p)
     /\ Readable(decisionFile)
     /\ proposal.accepted
     /\ probeResult' = "denied"
     /\ auditLog' = Append(auditLog, "DENIED")
     /\ SaveStep(p, WithState(Mark(ApprovalSettled(rec[p], decisionFile),
                                   Probe, "skipped"),
                              Kept(rec[p], st)))
     /\ UNCHANGED <<proposal, approvalRequest, decisionFile, claimFile>>

\* Every gate is passed; decision and request are now in memory only.
ProbeAdmitted(p) ==
  /\ AtProbe(p)
  /\ Readable(decisionFile)
  /\ proposal.accepted
  /\ Permits(decisionFile, proposal.fp)
  /\ loaded' = [loaded EXCEPT ![p] =
                  [decision |-> decisionFile, fp |-> proposal.fp]]
  /\ rec' = [rec EXCEPT ![p] = ApprovalSettled(rec[p], decisionFile)]
  /\ Goto(p, "send")
  /\ UNCHANGED <<stateFile, files, lock, wire, at, choice, environment>>

\* The transport call; it reports errors as a response and never raises.
SendProbe(p) ==
  /\ pc[p] = "send"
  /\ wire' = Append(wire, loaded[p])
  /\ loaded' = [loaded EXCEPT ![p] = NoDecision]
  /\ Goto(p, "audit")
  /\ UNCHANGED <<stateFile, files, lock, at, rec, choice, environment>>

AuditProbe(p) ==
  /\ pc[p] = "audit"
  /\ auditLog' = Append(auditLog, "SENT")
  /\ Goto(p, "record")
  /\ UNCHANGED <<stateFile, proposal, approvalRequest, decisionFile, claimFile,
                 probeResult, lock, wire, memory, environment>>

\* Faulty variant of RecordProbe: the state follows decision.json as it is now.
RecordProbeByFile(p) ==
  /\ pc[p] = "record"
  /\ probeResult' = "sent"
  /\ SaveStep(p, WithState(Mark(rec[p], Probe, "done"),
       IF Readable(decisionFile) /\ ~decisionFile.approved
       THEN "REJECTED" ELSE "PROBING"))
  /\ UNCHANGED <<proposal, approvalRequest, decisionFile, claimFile, auditLog>>

\* step_probe writes probe-result.json, returns, and _execute saves.
RecordProbe(p) ==
  /\ pc[p] = "record"
  /\ probeResult' = "sent"
  /\ SaveStep(p, WithState(Mark(rec[p], Probe, "done"), Kept(rec[p], "PROBING")))
  /\ UNCHANGED <<proposal, approvalRequest, decisionFile, claimFile, auditLog>>

-----------------------------------------------------------------------------
(* Scrub, report, finalize, and the way out.                               *)

\* step_scrub has nothing to do unless probe-result.json says "sent".
ScrubStep(p) ==
  /\ pc[p] = "body" /\ at[p] = Scrub
  /\ IF probeResult = "sent"
     THEN SaveStep(p, WithState(Mark(rec[p], Scrub, "done"),
                                Kept(rec[p], "SCRUBBING")))
     ELSE SaveStep(p, Mark(rec[p], Scrub, "skipped"))
  /\ UNCHANGED files

ReportStep(p) ==
  /\ pc[p] = "body" /\ at[p] = Report
  /\ SaveStep(p, WithState(Mark(rec[p], Report, "done"),
                           Kept(rec[p], "REPORTING")))
  /\ UNCHANGED files

FinalizeStep(p) ==
  /\ pc[p] = "body" /\ at[p] = Finalize
  /\ SaveStep(p, WithState(Mark(rec[p], Finalize, "done"),
                           Kept(rec[p], "DONE")))
  /\ UNCHANGED files

\* resume_run and execute_run save once more; resume_run then leaves the lock.
FinalSave(p) ==
  /\ pc[p] = "final"
  /\ stateFile' = rec[p]
  /\ Goto(p, IF lock = p THEN "unlock" ELSE "done")
  /\ UNCHANGED <<files, lock, wire, memory, environment>>

Unlock(p) ==
  /\ pc[p] = "unlock"
  /\ lock' = NoOne
  /\ Goto(p, "done")
  /\ UNCHANGED <<stateFile, files, wire, memory, environment>>

-----------------------------------------------------------------------------
(* The environment.                                                        *)

Live(p) == pc[p] \notin {"idle", "done", "dead"}

\* A call dies (its process is killed, or an OSError unwinds it); the
\* operating system releases the flock it holds.
Die(P) ==
  /\ crashes < MaxCrashes
  /\ crashes' = crashes + 1
  /\ pc' = [p \in Calls |-> IF p \in P /\ Live(p) THEN "dead" ELSE pc[p]]
  /\ lock' = IF lock \in P THEN NoOne ELSE lock
  /\ UNCHANGED <<stateFile, files, wire, memory, edits>>

CallDies(p) == Live(p) /\ Die({p})

\* The web process dies with every handler and background task it runs.
WebDies == (\E p \in WebCalls : Live(p)) /\ Die(WebCalls)

\* Somebody changes the proposed request after the fact.
EditProposal ==
  /\ edits < MaxEdits
  /\ edits' = edits + 1
  /\ proposal.accepted
  /\ \E f \in Requests \ {proposal.fp} : proposal' = [proposal EXCEPT !.fp = f]
  /\ UNCHANGED <<stateFile, approvalRequest, decisionFile, claimFile,
                 probeResult, auditLog, lock, wire, pc, memory, crashes>>

-----------------------------------------------------------------------------

PhaseOneStep(p) ==
  \/ ScanStep(p) \/ NormalizeStep(p) \/ AnalyzeStep(p)
  \/ ProposeStep(p) \/ SkipApproval(p) \/ WriteRequest(p) \/ OfferRun(p)

ProbeStep(p) ==
  \/ ProbeBadDecision(p) \/ ProbeBroken(p) \/ ProbeNothing(p) \/ ProbeDenied(p)
  \/ ProbeAdmitted(p) \/ SendProbe(p) \/ AuditProbe(p) \/ RecordProbe(p)

ResumeStep(p) ==
  \/ TruncateDecision(p) \/ WriteDecision(p) \/ AcquireLock(p)
  \/ RefuseResume(p) \/ ClaimRun(p) \/ TakeRun(p)

\* What a call does by itself, without waiting for a person.
RunCall(p) ==
  \/ BeginStep(p) \/ FailStep(p) \/ PhaseOneStep(p) \/ ResumeStep(p)
  \/ ProbeStep(p) \/ ScrubStep(p) \/ ReportStep(p) \/ FinalizeStep(p)
  \/ FinalSave(p) \/ Unlock(p)

OperatorActs(p) == CliApprove(p) \/ WebApprove(p) \/ PromptOperator(p)

Next ==
  \/ \E p \in Calls : RunCall(p) \/ OperatorActs(p) \/ CallDies(p)
  \/ WebDies
  \/ EditProposal

Spec == Init /\ [][Next]_vars

\* A thread that can run is eventually run; people need not decide, and
\* nothing need crash.
FairSpec == Spec /\ \A p \in Calls : WF_vars(RunCall(p))

-----------------------------------------------------------------------------
(* Safety.                                                                 *)

\* At most one request leaves for the Gateway in the whole life of a run, in
\* whatever order CLI, web and background calls resume it and die
\* (resume_run: "two concurrent resumes must not both send").
ProbeSentAtMostOnce == Len(wire) <= 1

\* A request that left carries the approval of the operator who made it, given
\* for that very request, whatever was written to decision.json or
\* proposal.json in the meantime (send_probe's approval gate).
SentRequestWasApproved ==
  \A i \in 1..Len(wire) :
    LET d == wire[i].decision
    IN d.approved /\ d.fp = wire[i].fp /\ d = choice[d.by]

\* No call is about to save a record that misses what another call saved: the
\* record in memory is the one on disk whenever _execute writes state.json.
NoLostUpdate ==
  \A p \in Calls :
    pc[p] \in {"take", "begin", "body", "offer", "final"} => rec[p] = stateFile

\* REJECTED is only ever reported of a run whose request stayed here: nothing
\* on the wire, in the audit log or in probe-result.json says otherwise.
RejectedMeansUnsent ==
  stateFile.state = "REJECTED" =>
    /\ wire = <<>> /\ probeResult = "denied" /\ auditLog = <<"DENIED">>
    /\ stateFile.steps[Probe] = "skipped"

\* DONE is a settled run: every step is done or skipped, and the step record,
\* the result artifact and the audit log agree on whether a request was sent.
DoneMeansSettled ==
  stateFile.state = "DONE" =>
    /\ \A s \in StepIndex : stateFile.steps[s] \in {"done", "skipped"}
    /\ stateFile.steps[Probe] = "done" <=> Len(wire) = 1
    /\ probeResult = "sent" <=> Len(wire) = 1
    /\ auditLog = <<"SENT">> <=> Len(wire) = 1

\* A failed run stopped at one step: that step is the only failed one, all
\* before it are settled, none after it has begun.  (An unreadable decision
\* fails the probe step and leaves the approval step running.)
FailureStopsTheRun ==
  stateFile.state = "FAILED" =>
    \E f \in StepIndex :
      /\ stateFile.steps[f] = "failed"
      /\ \A s \in StepIndex : s > f => stateFile.steps[s] = "pending"
      /\ \A s \in StepIndex : s < f =>
           \/ stateFile.steps[s] \in {"done", "skipped"}
           \/ s = Approval /\ f = Probe /\ stateFile.steps[s] = "running"

\* A terminal state is final: nobody leaves DONE or FAILED, and a rejected run
\* can only still fail while its report is written.
TerminalIsFinal ==
  [][ /\ stateFile.state \in {"DONE", "FAILED"} => stateFile' = stateFile
      /\ stateFile.state = "REJECTED" =>
           stateFile'.state \in {"REJECTED", "FAILED"} ]_stateFile

\* The run implements the gate: offered before it is claimed, claimed before
\* it sends, at most one request, none once it closed or was rejected.
PhaseOf(st) ==
  CASE st = "AWAITING_APPROVAL" -> "awaiting"
    [] st = "PROBING" -> "probing"
    [] st \in {"SCRUBBING", "REPORTING"} -> "closing"
    [] st = "DONE" -> "done"
    [] st = "REJECTED" -> "rejected"
    [] st = "FAILED" -> "failed"
    [] OTHER -> "preparing"

Gate == INSTANCE ProbeGate
          WITH phase <- PhaseOf(stateFile.state), sent <- Len(wire)

ImplementsGate == Gate!Spec

-----------------------------------------------------------------------------
(* Liveness, under FairSpec.                                               *)

\* A call that was refused has still to let go of the lock.
RefusedCallHoldsLock == lock # NoOne /\ pc[lock] = "unlock"

\* A decision that is completely written while the run awaits it drives the
\* run to its end, also when its own call finds the lock busy: whoever holds it
\* then goes on with the run.  The exception is a holder that was refused before
\* the run awaited anything; such a decision is written, and its call returns.
DecidedRunEnds ==
  \A p \in Calls :
    (pc[p] = "resume" /\ stateFile.state = "AWAITING_APPROVAL" /\ ~RefusedCallHoldsLock)
      ~> (stateFile.state \in Terminal)

-----------------------------------------------------------------------------
(* What the documentation and comments say, and the code does not do.      *)

\* runner.py: the claim carries the idempotency key of the decision that the
\* claimed attempt carries out.
ClaimNamesTheDecision ==
  \A i \in 1..Len(wire) : wire[i].decision = claimFile

\* architecture.md: when the machine goes down half way, the run can be taken
\* up again.  Here: an approve call that comes after the death drives it on.
InterruptedRunGoesOn ==
  \A p \in CliApprovers :
    (pc[Starter] = "dead" /\ pc[p] = "idle") ~> (stateFile.state \in Terminal)

\* As FairSpec, and every `approve` call is made sooner or later.
ApprovingSpec == FairSpec /\ \A p \in CliApprovers : WF_vars(CliApprove(p))

=============================================================================
