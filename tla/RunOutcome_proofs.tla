--------------------------- MODULE RunOutcome_proofs ---------------------------
(***************************************************************************)
(* What is left of a run: a request that was sent carries its operator's   *)
(* approval, and the records of a rejected, finished or failed run tell    *)
(* what happened.  Proofs for any number of approvers, deaths and edits,   *)
(* on top of the invariants of RunLifecycle_proofs.                        *)
(***************************************************************************)
EXTENDS RunLifecycle_proofs

-----------------------------------------------------------------------------
(* The inductive invariants: of the decisions, and of the records.         *)

\* A call in phase one, whose operator is still to be asked.
PhaseOne(p) ==
  \/ pc[p] = "offer"
  \/ pc[p] \in {"begin", "body"} /\ at[p] \in 1..Approval

\* An operator decides once, before the call resumes the run.
ChosenOnce ==
  \A p \in Calls : choice[p] # NoDecision =>
    /\ choice[p] \in Decisions /\ choice[p].by = p
    /\ pc[p] \notin {"idle", "prompt"} /\ ~PhaseOne(p)

\* d is the decision its operator made.
IsChosen(d) == d \in Decisions /\ d = choice[d.by]

\* What the operator approved is the very request at hand.
IsApproved(load) ==
  /\ load.decision.approved /\ load.decision.fp = load.fp
  /\ IsChosen(load.decision)

ChoiceInv ==
  /\ ChosenOnce
  /\ decisionFile \in Decisions => IsChosen(decisionFile)
  /\ \A p \in Calls : pc[p] = "send" => IsApproved(loaded[p])
  /\ \A i \in 1..Len(wire) : IsApproved(wire[i])

Settled(status) == status \in {"done", "skipped"}

Stepping(p) == pc[p] \in {"begin", "body", "offer", "send", "audit", "record"}

\* Between two saves a record has settled what lies behind the call, begun the
\* step it is at, and nothing else.  The approval step of a run that was taken
\* over stays open until step_probe reads the decision, which is there.
StepsFit(p) ==
  /\ \A s \in StepIndex : s > at[p] => rec[p].steps[s] = "pending"
  /\ rec[p].steps[at[p]] = IF pc[p] = "begin" THEN "pending" ELSE "running"
  /\ \A s \in StepIndex : s < at[p] =>
       \/ Settled(rec[p].steps[s])
       \/ /\ s = Approval /\ at[p] = Probe /\ rec[p].steps[s] = "running"
          /\ pc[p] \in {"begin", "body"} /\ decisionFile # NoDecision

\* Before the probe no artifact speaks of one.
Untouched == probeResult = "none" /\ auditLog = <<>>

\* Behind it the record, the result, the audit log and the wire tell the same.
Agreed(r) ==
  \/ /\ r.steps[Probe] = "done" /\ r.state # "REJECTED"
     /\ Len(wire) = 1 /\ probeResult = "sent" /\ auditLog = <<"SENT">>
  \/ /\ r.steps[Probe] = "skipped"
     /\ wire = <<>> /\ probeResult = "denied"
     /\ \/ auditLog = <<"DENIED">>
        \/ auditLog = <<>> /\ r.state # "REJECTED"

\* What the record and the artifacts say where a call is.
PlaceTells(p) ==
  /\ Stepping(p) => StepsFit(p)
  /\ pc[p] = "take" => decisionFile # NoDecision
  /\ BeforeSend(p) => Untouched
  /\ pc[p] \in {"audit", "record"} => Len(wire) = 1
  /\ pc[p] = "audit" => auditLog = <<>>
  /\ pc[p] = "record" => auditLog = <<"SENT">>
  /\ pc[p] \in {"begin", "body"} /\ at[p] \in Scrub..Finalize => Agreed(rec[p])

\* The record of a run that is offered to an operator, and of one that failed.
OfferedSteps(r) ==
  /\ \A s \in StepIndex : s < Approval => Settled(r.steps[s])
  /\ r.steps[Approval] = "running"
  /\ \A s \in StepIndex : s > Approval => r.steps[s] = "pending"

FailedSteps(r) ==
  \E f \in StepIndex :
    /\ r.steps[f] = "failed"
    /\ \A s \in StepIndex : s > f => r.steps[s] = "pending"
    /\ \A s \in StepIndex : s < f =>
         \/ Settled(r.steps[s])
         \/ s = Approval /\ f = Probe /\ r.steps[s] = "running"

\* What state.json and the artifacts say when nobody need be at work.
FileTells ==
  /\ stateFile.state = "AWAITING_APPROVAL" => OfferedSteps(stateFile) /\ Untouched
  /\ stateFile.state \in {"DONE", "REJECTED"} => Agreed(stateFile)
  /\ stateFile.state = "DONE" => \A s \in StepIndex : Settled(stateFile.steps[s])
  /\ stateFile.state = "FAILED" => FailedSteps(stateFile)

OutcomeInv == FileTells /\ \A p \in Calls : PlaceTells(p)

-----------------------------------------------------------------------------
(* The decisions.                                                          *)

\* What is no decision: the stand-ins for a file that holds none.
LEMMA NotDecisions == {NoDecision, Empty, Garbled} \cap Decisions = {}
BY ConstantsAssumption

\* Calls that move on without deciding, writing or loading a decision.
LEMMA ChoiceKept ==
  ASSUME ChoiceInv, UNCHANGED <<choice, decisionFile, wire, loaded>>,
         \A q \in Calls :
           \/ pc'[q] = pc[q] /\ at'[q] = at[q]
           \/ pc'[q] \notin {"idle", "prompt", "offer", "begin", "body", "send"}
           \/ pc'[q] \in {"begin", "body"} /\ at'[q] \in Probe..Finalize
           \/ PhaseOne(q) /\ pc'[q] # "send"
  PROVE  ChoiceInv'
<1>1. ChosenOnce'
  <2> SUFFICES ASSUME NEW q \in Calls, choice[q] # NoDecision
               PROVE  /\ choice[q] \in Decisions /\ choice[q].by = q
                      /\ pc'[q] \notin {"idle", "prompt"} /\ ~PhaseOne(q)'
    BY DEF ChosenOnce
  <2>1. /\ choice[q] \in Decisions /\ choice[q].by = q
        /\ pc[q] \notin {"idle", "prompt"} /\ ~PhaseOne(q)
    BY DEF ChoiceInv, ChosenOnce
  <2>2. QED
    BY <2>1 DEF PhaseOne, Approval, Probe, Finalize
<1>2. \A d : IsChosen(d)' <=> IsChosen(d)
  BY DEF IsChosen
<1>3. decisionFile' \in Decisions => IsChosen(decisionFile)'
  BY DEF ChoiceInv, IsChosen
<1>4. \A q \in Calls : pc'[q] = "send" => IsApproved(loaded[q])'
  BY DEF ChoiceInv, IsApproved, IsChosen, PhaseOne
<1>5. \A i \in 1..Len(wire)' : IsApproved(wire[i])'
  BY DEF ChoiceInv, IsApproved, IsChosen
<1>6. QED
  BY <1>1, <1>3, <1>4, <1>5 DEF ChoiceInv

\* A fresh run holds no decision.
LEMMA InitChoice == Init => ChoiceInv
<1> SUFFICES ASSUME Init PROVE ChoiceInv
  OBVIOUS
<1>1. /\ \A p \in Calls : choice[p] = NoDecision /\ pc[p] \in {"begin", "idle"}
      /\ decisionFile = NoDecision /\ wire = <<>>
  BY DEF Init
<1>2. QED
  BY <1>1, NotDecisions DEF ChoiceInv, ChosenOnce

\* A decision is made where there was none, so it is nobody else's; writing it
\* makes the file say what was chosen, or nothing.
LEMMA DecisionChoice ==
  ASSUME TypeOK, ChoiceInv, NEW p \in Calls,
         ResumeStep(p) \/ OperatorActs(p)
  PROVE  ChoiceInv'
<1>0. /\ at \in [Calls -> StepIndex] /\ pc \in [Calls -> Labels]
      /\ choice \in [Calls -> Decisions \cup {NoDecision}]
  BY DEF TypeOK
<1>1. ASSUME NEW a \in BOOLEAN, Decide(p, a), pc[p] \in {"idle", "prompt"}
      PROVE  ChoiceInv'
  <2> DEFINE d == [by |-> p, approved |-> a, fp |-> approvalRequest]
  <2>1. d \in Decisions /\ d.by = p
    BY DEF Decisions, TypeOK
  <2> HIDE DEF d
  <2>2. /\ choice'[p] = d /\ pc'[p] = "truncate"
        /\ \A q \in Calls : q # p => choice'[q] = choice[q] /\ pc'[q] = pc[q]
        /\ UNCHANGED <<decisionFile, wire, at, loaded>>
    BY <1>0, <1>1 DEF Decide, Goto, files, d
  <2>3. choice[p] = NoDecision
    BY <1>1 DEF ChoiceInv, ChosenOnce
  <2>4. \A e : IsChosen(e) => IsChosen(e)'
    <3> SUFFICES ASSUME NEW e, e \in Decisions, e = choice[e.by]
                 PROVE  e = choice'[e.by]
      BY DEF IsChosen
    <3>1. e.by \in Calls
      BY DEF Decisions
    <3>2. e.by # p
      BY <2>3, NotDecisions
    <3>3. QED
      BY <2>2, <3>1, <3>2
  <2>5. ChosenOnce'
    BY <2>1, <2>2 DEF ChoiceInv, ChosenOnce, PhaseOne
  <2>6. \A l : IsApproved(l) => IsApproved(l)'
    BY <2>4 DEF IsApproved
  <2>7. \A q \in Calls : pc'[q] = "send" => IsApproved(loaded[q])'
    BY <2>2, <2>6 DEF ChoiceInv, IsApproved, IsChosen
  <2>8. \A i \in 1..Len(wire)' : IsApproved(wire[i])'
    BY <2>2, <2>6 DEF ChoiceInv, IsApproved, IsChosen
  <2>9. decisionFile' \in Decisions => IsChosen(decisionFile)'
    BY <2>2, <2>4 DEF ChoiceInv, IsChosen
  <2>10. QED
    BY <2>5, <2>7, <2>8, <2>9 DEF ChoiceInv
<1>2. CASE TruncateDecision(p) \/ WriteDecision(p)
  <2>1. /\ UNCHANGED <<choice, wire, at, loaded>>
        /\ \A q \in Calls : pc'[q] = pc[q] \/ pc'[q] \in {"write", "resume"}
        /\ \/ decisionFile' \in {Empty, Garbled}
           \/ decisionFile' = choice[p]
    BY <1>0, <1>2 DEF TruncateDecision, WriteDecision, Goto, memory
  <2>2. decisionFile' \in Decisions => IsChosen(decisionFile)'
    <3>1. choice[p] \in Decisions => choice[p].by = p
      BY NotDecisions DEF ChoiceInv, ChosenOnce
    <3>2. QED
      BY <2>1, <3>1, NotDecisions DEF IsChosen
  <2>3. ChosenOnce'
    BY <2>1 DEF ChoiceInv, ChosenOnce, PhaseOne
  <2>4. /\ \A q \in Calls : pc'[q] = "send" => IsApproved(loaded[q])'
        /\ \A i \in 1..Len(wire)' : IsApproved(wire[i])'
    BY <2>1 DEF ChoiceInv, IsApproved, IsChosen
  <2>5. QED
    BY <2>2, <2>3, <2>4 DEF ChoiceInv
<1>3. CASE TurnAway(p) \/ AcquireLock(p) \/ RefuseResume(p) \/ ClaimRun(p)
  <2>1. /\ UNCHANGED <<choice, decisionFile, wire, loaded, at>>
        /\ \A q \in Calls : \/ pc'[q] = pc[q]
                            \/ pc'[q] \in {"done", "locked", "unlock", "take"}
    BY <1>0, <1>3
    DEF TurnAway, AcquireLock, RefuseResume, ClaimRun, Goto, memory, files
  <2>2. QED
    BY <2>1, ChoiceKept
<1>4. CASE TakeRun(p)
  <2>1. /\ UNCHANGED <<choice, decisionFile, wire, loaded>>
        /\ pc'[p] = "begin" /\ at'[p] = Probe
        /\ \A q \in Calls : q # p => pc'[q] = pc[q] /\ at'[q] = at[q]
    BY <1>0, <1>4 DEF TakeRun, Goto, files
  <2>2. QED
    BY <2>1, ChoiceKept DEF Probe, Finalize
<1>5. QED
  BY <1>1, <1>2, <1>3, <1>4
  DEF ResumeStep, OperatorActs, CliApprove, WebApprove, PromptOperator

\* Moving on through the steps makes no decision; the request that is sent is
\* the one that was admitted with its decision.
LEMMA ExecuteChoice ==
  ASSUME IInv, TypeOK, ChoiceInv, NEW p \in Calls, RunCall(p), ~ResumeStep(p)
  PROVE  ChoiceInv'
<1>0. /\ at \in [Calls -> StepIndex] /\ pc \in [Calls -> Labels]
      /\ loaded \in [Calls -> Payloads \cup {NoDecision}]
      /\ at[p] \in 1..9
  BY DEF TypeOK, StepIndex
<1>1. ASSUME NEW r, SaveStep(p, r), UNCHANGED decisionFile,
             PhaseOne(p) \/ at[p] \in Probe..Finalize
      PROVE  ChoiceInv'
  <2>1. /\ UNCHANGED <<choice, wire, loaded>>
        /\ \A q \in Calls : q # p => pc'[q] = pc[q] /\ at'[q] = at[q]
        /\ \/ pc'[p] = "final"
           \/ pc'[p] = "begin" /\ at'[p] = at[p] + 1 /\ at[p] # Finalize
    BY <1>0, <1>1 DEF SaveStep, Goto
  <2>2. \/ pc'[p] = "final"
        \/ pc'[p] = "begin" /\ at'[p] \in Probe..Finalize
        \/ pc'[p] = "begin" /\ PhaseOne(p)
    BY <1>0, <1>1, <2>1 DEF Probe, Finalize
  <2>3. QED
    BY <1>1, <2>1, <2>2, ChoiceKept
<1>2. ASSUME NEW r, SaveFailure(p, r), UNCHANGED decisionFile
      PROVE  ChoiceInv'
  <2>1. /\ UNCHANGED <<choice, wire, loaded, at>>
        /\ \A q \in Calls : pc'[q] = pc[q] \/ pc'[q] \in {"done", "final"}
    BY <1>0, <1>2 DEF SaveFailure, Goto
  <2>2. QED
    BY <1>2, <2>1, ChoiceKept
<1>3. CASE BeginStep(p)
  <2>1. /\ UNCHANGED <<choice, decisionFile, wire, loaded, at>>
        /\ pc[p] = "begin" /\ pc'[p] = "body"
        /\ \A q \in Calls : q # p => pc'[q] = pc[q]
    BY <1>0, <1>3 DEF BeginStep, Goto, files
  <2>2. PhaseOne(p) \/ at[p] \in Probe..Finalize
    BY <1>0, <2>1 DEF PhaseOne, Approval, Probe, Finalize
  <2>3. QED
    BY <2>1, <2>2, ChoiceKept
<1>4. CASE FailStep(p)
  BY <1>2, <1>4 DEF FailStep, files
<1>5. CASE \/ ScanStep(p) \/ NormalizeStep(p) \/ AnalyzeStep(p)
           \/ ProposeStep(p) \/ SkipApproval(p)
  <2>1. PhaseOne(p) /\ UNCHANGED decisionFile
    BY <1>5 DEF ScanStep, NormalizeStep, AnalyzeStep, IngestStep, ProposeStep,
                SkipApproval, PhaseOne, Approval, files
  <2>2. \E r : SaveStep(p, r)
    BY <1>5 DEF ScanStep, NormalizeStep, AnalyzeStep, IngestStep, ProposeStep,
                SkipApproval
  <2>3. QED
    BY <1>1, <2>1, <2>2
<1>6. CASE WriteRequest(p) \/ OfferRun(p)
  <2>1. /\ UNCHANGED <<choice, decisionFile, wire, loaded, at>>
        /\ PhaseOne(p) /\ pc'[p] \in {"offer", "prompt", "done"}
        /\ \A q \in Calls : q # p => pc'[q] = pc[q]
    BY <1>0, <1>6 DEF WriteRequest, OfferRun, Goto, memory, files, PhaseOne, Approval
  <2>2. QED
    BY <2>1, ChoiceKept
<1>7. CASE ProbeBadDecision(p) \/ ProbeBroken(p)
  BY <1>2, <1>7 DEF ProbeBadDecision, ProbeBroken, files
<1>8. CASE ProbeNothing(p) \/ ProbeDenied(p) \/ RecordProbe(p)
  <2>1. at[p] = Probe
    <3>1. pc[p] = "record" => at[p] = Probe
      BY DEF IInv, SendsAtProbe
    <3>2. QED
      BY <1>8, <3>1 DEF ProbeNothing, ProbeDenied, RecordProbe, AtProbe
  <2>2. UNCHANGED decisionFile /\ \E r : SaveStep(p, r)
    BY <1>8 DEF ProbeNothing, ProbeDenied, RecordProbe
  <2>3. QED
    BY <1>1, <2>1, <2>2 DEF Probe, Finalize
<1>9. CASE ProbeAdmitted(p)
  <2>1. /\ UNCHANGED <<choice, decisionFile, wire, at>>
        /\ pc[p] = "body" /\ pc'[p] = "send" /\ at[p] = Probe
        /\ decisionFile \notin {NoDecision, Empty, Garbled}
        /\ decisionFile.approved /\ decisionFile.fp = proposal.fp
        /\ loaded'[p] = [decision |-> decisionFile, fp |-> proposal.fp]
        /\ \A q \in Calls : q # p => pc'[q] = pc[q] /\ loaded'[q] = loaded[q]
    BY <1>0, <1>9 DEF ProbeAdmitted, AtProbe, Readable, Permits, Goto, files
  <2>2. IsChosen(decisionFile)
    BY <2>1 DEF TypeOK, ChoiceInv
  <2>3. IsApproved(loaded'[p])
    BY <2>1, <2>2 DEF IsApproved
  <2>4. \A q \in Calls : pc'[q] = "send" => IsApproved(loaded[q])'
    BY <2>1, <2>3 DEF ChoiceInv, IsApproved, IsChosen
  <2>5. ChosenOnce'
    BY <2>1 DEF ChoiceInv, ChosenOnce, PhaseOne
  <2>6. /\ decisionFile' \in Decisions => IsChosen(decisionFile)'
        /\ \A i \in 1..Len(wire)' : IsApproved(wire[i])'
    BY <2>1 DEF ChoiceInv, IsApproved, IsChosen
  <2>7. QED
    BY <2>4, <2>5, <2>6 DEF ChoiceInv
<1>10. CASE SendProbe(p)
  <2>1. /\ UNCHANGED <<choice, decisionFile, at>>
        /\ pc[p] = "send" /\ pc'[p] = "audit"
        /\ wire' = Append(wire, loaded[p])
        /\ \A q \in Calls : q # p => pc'[q] = pc[q] /\ loaded'[q] = loaded[q]
    BY <1>0, <1>10 DEF SendProbe, Goto, files
  <2>2. IsApproved(loaded[p])
    BY <2>1 DEF ChoiceInv
  <2>3. \A i \in 1..Len(wire') : IsApproved(wire'[i])
    BY <2>1, <2>2 DEF ChoiceInv, TypeOK
  <2>4. \A q \in Calls : pc'[q] = "send" => IsApproved(loaded[q])'
    BY <2>1 DEF ChoiceInv, IsApproved, IsChosen
  <2>5. ChosenOnce'
    BY <2>1 DEF ChoiceInv, ChosenOnce, PhaseOne
  <2>6. decisionFile' \in Decisions => IsChosen(decisionFile)'
    BY <2>1 DEF ChoiceInv, IsChosen
  <2>7. \A i \in 1..Len(wire)' : IsApproved(wire[i])'
    BY <2>1, <2>3 DEF IsApproved, IsChosen
  <2>8. QED
    BY <2>4, <2>5, <2>6, <2>7 DEF ChoiceInv
<1>11. CASE AuditProbe(p) \/ FinalSave(p) \/ Unlock(p)
  <2>1. /\ UNCHANGED <<choice, decisionFile, wire, loaded, at>>
        /\ \A q \in Calls : pc'[q] = pc[q] \/ pc'[q] \in {"record", "unlock", "done"}
    BY <1>0, <1>11 DEF AuditProbe, FinalSave, Unlock, Goto, memory, files
  <2>2. QED
    BY <2>1, ChoiceKept
<1>12. CASE ScrubStep(p) \/ ReportStep(p) \/ FinalizeStep(p)
  <2>1. at[p] \in Probe..Finalize /\ UNCHANGED decisionFile
    BY <1>12 DEF ScrubStep, ReportStep, FinalizeStep, files, Probe, Scrub, Report, Finalize
  <2>2. \E r : SaveStep(p, r)
    BY <1>12 DEF ScrubStep, ReportStep, FinalizeStep
  <2>3. QED
    BY <1>1, <2>1, <2>2
<1>13. QED
  BY <1>3, <1>4, <1>5, <1>6, <1>7, <1>8, <1>9, <1>10, <1>11, <1>12
  DEF RunCall, PhaseOneStep, ProbeStep

\* Neither a death nor an edit of the proposal touches a decision.
LEMMA EnvironmentChoice ==
  ASSUME ChoiceInv,
         (\E P \in SUBSET Calls : Die(P)) \/ EditProposal \/ UNCHANGED vars
  PROVE  ChoiceInv'
<1>1. /\ UNCHANGED <<choice, decisionFile, wire, loaded, at>>
      /\ \A q \in Calls : pc'[q] = pc[q] \/ pc'[q] = "dead"
  BY DEF Die, EditProposal, vars, memory, files
<1>2. QED
  BY <1>1, ChoiceKept

\* In every reachable state a decision on file, in memory or on the wire is the
\* one its operator made.
THEOREM ChoiceInvariance == Spec => []ChoiceInv
<1>1. IInv /\ TypeOK /\ ChoiceInv /\ [Next]_vars => ChoiceInv'
  <2> SUFFICES ASSUME IInv, TypeOK, ChoiceInv, [Next]_vars
               PROVE  ChoiceInv'
    OBVIOUS
  <2>1. ASSUME NEW p \in Calls, RunCall(p) \/ OperatorActs(p)
        PROVE  ChoiceInv'
    BY <2>1, DecisionChoice, ExecuteChoice
  <2>2. ASSUME NEW p \in Calls, CallDies(p)
        PROVE  ChoiceInv'
    BY <2>2, EnvironmentChoice DEF CallDies
  <2>3. CASE WebDies
    <3>1. WebCalls \in SUBSET Calls
      BY DEF WebCalls, Calls
    <3>2. QED
      BY <2>3, <3>1, EnvironmentChoice DEF WebDies
  <2>4. CASE EditProposal \/ UNCHANGED vars
    BY <2>4, EnvironmentChoice
  <2>5. QED
    BY <2>1, <2>2, <2>3, <2>4 DEF Next
<1>2. QED
  BY <1>1, InitChoice, TypeCorrect, Invariance, PTL DEF Spec

\* A request that left carries the approval of the operator who made it, given
\* for that request (send_probe's approval gate reads decision.json again, and
\* the file may be overwritten before and after).
THEOREM ApprovedRequests == Spec => []SentRequestWasApproved
<1>1. ChoiceInv => SentRequestWasApproved
  BY DEF ChoiceInv, SentRequestWasApproved, IsApproved, IsChosen
<1>2. QED
  BY <1>1, ChoiceInvariance, PTL

-----------------------------------------------------------------------------
(* The records and the artifacts.                                          *)

\* mark_step changes one step.
LEMMA MarkSteps ==
  ASSUME NEW r \in RunRecords, NEW s \in StepIndex, NEW st
  PROVE  /\ Mark(r, s, st).steps[s] = st
         /\ \A t \in StepIndex : t # s => Mark(r, s, st).steps[t] = r.steps[t]
BY DEF Mark, RunRecords

\* Setting the state changes none.
LEMMA WithStateSteps ==
  ASSUME NEW r \in RunRecords, NEW st
  PROVE  WithState(r, st).steps = r.steps
BY DEF WithState, RunRecords

\* _record_failure marks the step it stopped at.
LEMMA FailedStepsOf ==
  ASSUME NEW r \in RunRecords, NEW s \in StepIndex
  PROVE  /\ Failed(r, s).steps[s] = "failed"
         /\ \A t \in StepIndex : t # s => Failed(r, s).steps[t] = r.steps[t]
<1>1. Mark(r, s, "failed") \in RunRecords
  BY MarkType DEF Statuses
<1>2. Failed(r, s).steps = Mark(r, s, "failed").steps
  BY <1>1, WithStateSteps DEF Failed
<1>3. QED
  BY <1>2, MarkSteps

\* A decision that is there settles the approval step, and no other step.
LEMMA ApprovalSettledSteps ==
  ASSUME NEW r \in RunRecords, NEW d
  PROVE  /\ d # NoDecision => ApprovalSettled(r, d).steps[Approval] = "done"
         /\ d = NoDecision => ApprovalSettled(r, d) = r
         /\ \A t \in StepIndex : t # Approval =>
              ApprovalSettled(r, d).steps[t] = r.steps[t]
BY MarkSteps DEF ApprovalSettled, StepIndex, Approval

\* No other call has anything to tell while the writer is at work.
LEMMA WriterTells ==
  ASSUME IInv, NEW p \in Calls, Writing(p), PlaceTells(p)', FileTells',
         \A q \in Calls : q # p => pc'[q] = pc[q]
  PROVE  OutcomeInv'
<1> SUFFICES ASSUME NEW q \in Calls, q # p PROVE PlaceTells(q)'
  BY DEF OutcomeInv
<1>1. ~Writing(q)
  BY DEF IInv, OneWriter
<1>2. pc'[q] \notin {"take", "offer", "send", "audit", "record", "final", "begin", "body"}
  BY <1>1 DEF Writing, Executing
<1>3. QED
  BY <1>2 DEF PlaceTells, Stepping, BeforeSend

\* A step that touches no record, no result and no log.
LEMMA QuietTells ==
  ASSUME OutcomeInv,
         UNCHANGED <<stateFile, wire, at, rec, probeResult, auditLog>>,
         decisionFile # NoDecision => decisionFile' # NoDecision,
         \A q \in Calls :
           \/ pc'[q] = pc[q]
           \/ pc'[q] \in {"idle", "prompt", "truncate", "write", "resume",
                          "locked", "unlock", "done", "dead"}
  PROVE  OutcomeInv'
<1>1. FileTells'
  BY DEF OutcomeInv, FileTells, OfferedSteps, FailedSteps, Agreed, Untouched
<1>2. ASSUME NEW q \in Calls PROVE PlaceTells(q)'
  <2>1. PlaceTells(q)
    BY DEF OutcomeInv
  <2>2. CASE pc'[q] = pc[q]
    <3>1. StepsFit(q) => StepsFit(q)'
      BY <2>2 DEF StepsFit
    <3>2. Agreed(rec[q]) => Agreed(rec[q])'
      BY DEF Agreed
    <3>3. QED
      BY <2>1, <2>2, <3>1, <3>2 DEF PlaceTells, Stepping, BeforeSend, Untouched
  <2>3. CASE pc'[q] # pc[q]
    BY <2>3 DEF PlaceTells, Stepping, BeforeSend
  <2>4. QED
    BY <2>2, <2>3
<1>3. QED
  BY <1>1, <1>2 DEF OutcomeInv

\* Saving what a step returned, if all up to that step is settled and what is
\* told of the probe is right.
LEMMA SaveStepTells ==
  ASSUME IInv, TypeOK, GateInv', NEW p \in Calls, NEW r, SaveStep(p, r), Writing(p),
         \A s \in StepIndex : s <= at[p] => Settled(r.steps[s]),
         \A s \in StepIndex : s > at[p] => r.steps[s] = "pending",
         at[p] = Finalize => r.state \in {"DONE", "REJECTED"},
         at[p] < Probe => Untouched',
         at[p] >= Probe => Agreed(r)'
  PROVE  OutcomeInv'
<1>1. /\ at \in [Calls -> StepIndex] /\ rec \in [Calls -> RunRecords]
      /\ pc \in [Calls -> Labels] /\ at[p] \in 1..9 /\ StepIndex = 1..9
  BY DEF TypeOK, StepIndex
<1>2. /\ rec'[p] = r /\ stateFile' = r
      /\ \A q \in Calls : q # p => pc'[q] = pc[q]
  BY <1>1 DEF SaveStep, Goto
<1>3. CASE at[p] = Finalize
  <2>1. pc'[p] = "final"
    BY <1>1, <1>3 DEF SaveStep, Goto
  <2>2. PlaceTells(p)'
    BY <2>1 DEF PlaceTells, Stepping, BeforeSend
  <2>3. \A s \in StepIndex : Settled(r.steps[s])
    BY <1>1, <1>3 DEF Finalize
  <2>4. Agreed(r)'
    BY <1>3 DEF Finalize, Probe
  <2>5. FileTells'
    BY <1>2, <1>3, <2>3, <2>4 DEF FileTells
  <2>6. QED
    BY <1>2, <2>2, <2>5, WriterTells
<1>4. CASE at[p] # Finalize
  <2>1. pc'[p] = "begin" /\ at'[p] = at[p] + 1
    BY <1>1, <1>4 DEF SaveStep, Goto
  <2>2. r.state \in StatesAt(at[p] + 1) /\ at[p] \in 1..8
    BY <1>1, <1>2, <1>4, <2>1 DEF GateInv, Fits, Finalize
  <2>3. StepsFit(p)'
    BY <1>1, <1>2, <2>1, <2>2 DEF StepsFit
  <2>4. at[p] < Probe <=> at'[p] <= Probe
    BY <2>1, <2>2 DEF Probe
  <2>5. at'[p] \in Scrub..Finalize => Agreed(rec[p])'
    BY <1>2, <2>1, <2>2 DEF Scrub, Finalize, Probe, Agreed
  <2>6. PlaceTells(p)'
    BY <2>1, <2>3, <2>4, <2>5 DEF PlaceTells, BeforeSend, Untouched
  <2>7. r.state \notin {"AWAITING_APPROVAL", "DONE", "FAILED"}
    BY <2>2 DEF StatesAt, Preparing
  <2>8. r.state = "REJECTED" => Agreed(stateFile)'
    <3>1. r.state = "REJECTED" => at[p] >= Probe
      BY <2>2 DEF StatesAt, Preparing, Approval, Probe
    <3>2. QED
      BY <1>2, <3>1 DEF Agreed
  <2>9. FileTells'
    BY <1>2, <2>7, <2>8 DEF FileTells
  <2>10. QED
    BY <1>2, <2>6, <2>9, WriterTells
<1>5. QED
  BY <1>3, <1>4

\* Recording a failure, if all before the step is settled and none after it
\* has begun.
LEMMA SaveFailureTells ==
  ASSUME IInv, TypeOK, NEW p \in Calls, NEW r \in RunRecords, SaveFailure(p, r),
         Writing(p),
         \A s \in StepIndex : s > at[p] => r.steps[s] = "pending",
         \A s \in StepIndex : s < at[p] =>
           \/ Settled(r.steps[s])
           \/ s = Approval /\ at[p] = Probe /\ r.steps[s] = "running"
  PROVE  OutcomeInv'
<1>1. /\ at \in [Calls -> StepIndex] /\ rec \in [Calls -> RunRecords]
      /\ pc \in [Calls -> Labels] /\ at[p] \in StepIndex /\ StepIndex = 1..9
  BY DEF TypeOK, StepIndex
<1>2. /\ stateFile' = Failed(r, at[p]) /\ pc'[p] \in {"done", "final"}
      /\ \A q \in Calls : q # p => pc'[q] = pc[q]
  BY <1>1 DEF SaveFailure, Goto
<1>3. PlaceTells(p)'
  BY <1>2 DEF PlaceTells, Stepping, BeforeSend
<1> DEFINE f == Failed(r, at[p])
<1>4. /\ f.state = "FAILED" /\ f.steps[at[p]] = "failed"
      /\ \A t \in StepIndex : t # at[p] => f.steps[t] = r.steps[t]
  <2>1. f.state = "FAILED"
    BY <1>1, FailedType
  <2>2. \A t \in StepIndex : f.steps[t] = IF t = at[p] THEN "failed" ELSE r.steps[t]
    BY <1>1, FailedStepsOf
  <2> QED BY <1>1, <2>1, <2>2
<1> HIDE DEF f
<1>5. FailedSteps(f)
  BY <1>1, <1>4 DEF FailedSteps
<1>6. FileTells'
  BY <1>2, <1>4, <1>5 DEF FileTells, FailedSteps, f
<1>7. QED
  BY <1>2, <1>3, <1>6, WriterTells

\* A fresh run has done nothing.
LEMMA InitTells == Init => OutcomeInv
<1> SUFFICES ASSUME Init PROVE OutcomeInv
  OBVIOUS
<1>1. \A p \in Calls :
        /\ pc[p] \in {"begin", "idle"} /\ at[p] = 1
        /\ \A s \in StepIndex : rec[p].steps[s] = "pending"
  BY DEF Init, InitialRecord
<1>2. stateFile.state = "IDLE" /\ Untouched
  BY DEF Init, InitialRecord, Untouched
<1>3. \A p \in Calls : PlaceTells(p)
  <2> TAKE p \in Calls
  <2>1. StepsFit(p) \/ pc[p] = "idle"
    BY <1>1 DEF StepsFit, StepIndex
  <2>2. QED
    BY <1>1, <1>2, <2>1 DEF PlaceTells, Stepping, Scrub, Finalize
<1>4. QED
  BY <1>2, <1>3 DEF OutcomeInv, FileTells

\* Where a call executes, its record is typed and tells what is behind it.
LEMMA WriterPlace ==
  ASSUME IInv, TypeOK, GateInv, OutcomeInv, NEW p \in Calls, Executing(p)
  PROVE  /\ Writing(p) /\ Fits(p) /\ PlaceTells(p)
         /\ rec[p] \in RunRecords /\ at[p] \in StepIndex
         /\ at[p] \in 1..9 /\ StepIndex = 1..9
         /\ pc[p] \in {"begin", "body", "offer", "final"} => rec[p] = stateFile
BY WriterRecord DEF Writing, OutcomeInv, StepIndex

\* Phase one settles one step after the other, and touches no artifact of the
\* probe.
LEMMA PhaseOneTells ==
  ASSUME IInv, TypeOK, GateInv, GateInv', OutcomeInv, NEW p \in Calls,
         BeginStep(p) \/ FailStep(p) \/ PhaseOneStep(p)
  PROVE  OutcomeInv'
<1>0. /\ at \in [Calls -> StepIndex] /\ rec \in [Calls -> RunRecords]
      /\ pc \in [Calls -> Labels]
  BY DEF TypeOK
<1>1. CASE BeginStep(p)
  <2>1. pc[p] = "begin" /\ Executing(p) /\ Stepping(p)
    BY <1>1 DEF BeginStep, Executing, Stepping
  <2>2. /\ Writing(p) /\ Fits(p) /\ PlaceTells(p) /\ StepsFit(p)
        /\ rec[p] \in RunRecords /\ at[p] \in StepIndex
        /\ at[p] \in 1..9 /\ StepIndex = 1..9 /\ rec[p] = stateFile
    BY <2>1, WriterPlace DEF PlaceTells
  <2> DEFINE r == Mark(rec[p], at[p], "running")
  <2>3. /\ r.steps[at[p]] = "running" /\ r.state = rec[p].state
        /\ \A t \in StepIndex : t # at[p] => r.steps[t] = rec[p].steps[t]
    <3>1. "running" \in Statuses
      BY DEF Statuses
    <3>2. r.state = rec[p].state
      BY <2>2, <3>1, MarkType
    <3>3. rec[p] \in RunRecords /\ at[p] \in StepIndex
      BY <2>2
    <3>4. QED
      BY <3>2, <3>3, MarkSteps
  <2>4. /\ rec'[p] = r /\ stateFile' = r /\ pc'[p] = "body"
        /\ UNCHANGED <<at, wire, probeResult, auditLog, decisionFile>>
        /\ \A q \in Calls : q # p => pc'[q] = pc[q]
    BY <1>0, <1>1, <2>1, <2>2 DEF BeginStep, StepsFit, Goto, files
  <2> HIDE DEF r
  <2>5. StepsFit(p)'
    BY <2>1, <2>2, <2>3, <2>4 DEF StepsFit
  <2>6. at[p] \in Scrub..Finalize => Agreed(rec[p])' /\ Agreed(stateFile)'
    <3> SUFFICES ASSUME at[p] \in Scrub..Finalize
                 PROVE  Agreed(rec[p])' /\ Agreed(stateFile)'
      OBVIOUS
    <3>1. r.steps[Probe] = rec[p].steps[Probe] /\ r.state = rec[p].state
      BY <2>2, <2>3 DEF Scrub, Finalize, Probe
    <3>2. Agreed(rec[p])
      BY <2>1, <2>2 DEF PlaceTells
    <3>3. QED
      BY <2>4, <3>1, <3>2 DEF Agreed
  <2>7. PlaceTells(p)'
    BY <2>1, <2>2, <2>4, <2>5, <2>6 DEF PlaceTells, BeforeSend, Untouched
  <2>8. rec[p].state \in StatesAt(at[p])
    BY <2>1, <2>2 DEF Fits
  <2>9. /\ rec[p].state \notin {"AWAITING_APPROVAL", "DONE", "FAILED"}
        /\ rec[p].state = "REJECTED" => at[p] \in Scrub..Finalize
    BY <2>2, <2>8 DEF StatesAt, Preparing, Approval, Probe, Scrub, Report, Finalize
  <2>10. FileTells'
    BY <2>3, <2>4, <2>6, <2>9 DEF FileTells
  <2>11. QED
    BY <2>2, <2>4, <2>7, <2>10, WriterTells
<1>2. CASE FailStep(p)
  <2>1. Executing(p) /\ Stepping(p) /\ SaveFailure(p, rec[p])
    BY <1>2 DEF FailStep, Executing, Stepping
  <2>2. Writing(p) /\ StepsFit(p) /\ rec[p] \in RunRecords
    BY <2>1, WriterPlace DEF PlaceTells
  <2>3. QED
    BY <2>1, <2>2, SaveFailureTells DEF StepsFit
<1>3. CASE \/ ScanStep(p) \/ NormalizeStep(p) \/ AnalyzeStep(p)
           \/ ProposeStep(p) \/ SkipApproval(p)
  <2>1. /\ pc[p] = "body" /\ Executing(p) /\ Stepping(p) /\ at[p] \in 1..5
        /\ UNCHANGED <<probeResult, auditLog>>
    BY <1>3 DEF ScanStep, NormalizeStep, AnalyzeStep, IngestStep, ProposeStep,
                SkipApproval, Executing, Stepping, Approval, files
  <2>2. /\ Writing(p) /\ PlaceTells(p) /\ StepsFit(p) /\ StepIndex = 1..9
        /\ rec[p] \in RunRecords /\ at[p] \in StepIndex /\ BeforeSend(p)
    BY <2>1, WriterPlace DEF PlaceTells, BeforeSend, Probe
  <2>3. PICK m \in {"done", "skipped"} :
          \/ SaveStep(p, Mark(rec[p], at[p], m))
          \/ \E st : SaveStep(p, WithState(Mark(rec[p], at[p], m), st))
    BY <1>3 DEF ScanStep, NormalizeStep, AnalyzeStep, IngestStep, ProposeStep,
                SkipApproval
  <2> DEFINE marked == Mark(rec[p], at[p], m)
  <2>4. /\ marked \in RunRecords /\ marked.steps[at[p]] = m
        /\ \A t \in StepIndex : t # at[p] => marked.steps[t] = rec[p].steps[t]
    <3>1. m \in Statuses
      BY DEF Statuses
    <3>2. marked \in RunRecords
      BY <2>2, <3>1, MarkType
    <3>3. rec[p] \in RunRecords /\ at[p] \in StepIndex
      BY <2>2
    <3>4. QED
      BY <3>2, <3>3, MarkSteps
  <2>5. PICK r : SaveStep(p, r) /\ r.steps = marked.steps
    BY <2>3, <2>4, WithStateSteps
  <2> HIDE DEF marked
  <2>6. \A s \in StepIndex : s <= at[p] => Settled(r.steps[s])
    BY <2>1, <2>2, <2>4, <2>5 DEF StepsFit, Settled, Probe
  <2>7. \A s \in StepIndex : s > at[p] => r.steps[s] = "pending"
    BY <2>1, <2>2, <2>4, <2>5 DEF StepsFit
  <2>8. Untouched'
    BY <2>1, <2>2 DEF PlaceTells, Untouched
  <2>9. at[p] # Finalize /\ ~(at[p] >= Probe)
    BY <2>1 DEF Finalize, Probe
  <2>10. QED
    BY <2>2, <2>5, <2>6, <2>7, <2>8, <2>9, SaveStepTells
<1>4. CASE WriteRequest(p)
  <2>1. /\ pc[p] = "body" /\ pc'[p] = "offer" /\ at[p] = Approval
        /\ Executing(p) /\ Stepping(p)
        /\ UNCHANGED <<stateFile, rec, at, wire, probeResult, auditLog, decisionFile>>
        /\ \A q \in Calls : q # p => pc'[q] = pc[q]
    BY <1>0, <1>4 DEF WriteRequest, Goto, memory, Executing, Stepping
  <2>2. Writing(p) /\ PlaceTells(p) /\ StepsFit(p) /\ BeforeSend(p)
    BY <2>1, WriterPlace DEF PlaceTells, BeforeSend, Approval, Probe
  <2>3. StepsFit(p)'
    BY <2>1, <2>2 DEF StepsFit, Approval, Probe
  <2>4. PlaceTells(p)'
    BY <2>1, <2>2, <2>3 DEF PlaceTells, Untouched
  <2>5. FileTells'
    BY <2>1 DEF OutcomeInv, FileTells, OfferedSteps, FailedSteps, Agreed, Untouched
  <2>6. QED
    BY <2>1, <2>2, <2>4, <2>5, WriterTells
<1>5. CASE OfferRun(p)
  <2> DEFINE r == WithState(Mark(rec[p], Approval, "running"),
                            Kept(rec[p], "AWAITING_APPROVAL"))
  <2>1. pc[p] = "offer" /\ Executing(p) /\ Stepping(p)
    BY <1>5 DEF OfferRun, Executing, Stepping
  <2>2. /\ Writing(p) /\ PlaceTells(p) /\ StepsFit(p) /\ StepIndex = 1..9
        /\ rec[p] \in RunRecords /\ at[p] = Approval /\ rec[p].state \in Preparing
    BY <2>1, WriterPlace DEF PlaceTells, Fits
  <2>3. Kept(rec[p], "AWAITING_APPROVAL") = "AWAITING_APPROVAL"
    BY <2>2, KeptOngoing DEF Preparing, Ongoing
  <2>4. Mark(rec[p], Approval, "running") \in RunRecords
    BY <2>2, MarkType DEF Statuses, Approval
  <2>5. /\ r.state = "AWAITING_APPROVAL" /\ r.steps[Approval] = "running"
        /\ \A t \in StepIndex : t # Approval => r.steps[t] = rec[p].steps[t]
    BY <2>2, <2>3, <2>4, WithStateType, WithStateSteps, MarkSteps
    DEF RunStates, Approval
  <2>6. /\ stateFile' = r /\ pc'[p] \in {"prompt", "done"}
        /\ UNCHANGED <<probeResult, auditLog>>
        /\ \A q \in Calls : q # p => pc'[q] = pc[q]
    BY <1>0, <1>5 DEF OfferRun, Goto, files
  <2> HIDE DEF r
  <2>7. OfferedSteps(r)
    BY <2>2, <2>5 DEF OfferedSteps, StepsFit, Approval, Probe
  <2>8. Untouched'
    BY <2>1, <2>2, <2>6 DEF PlaceTells, BeforeSend, Untouched
  <2>9. FileTells'
    BY <2>5, <2>6, <2>7, <2>8 DEF FileTells, OfferedSteps
  <2>10. PlaceTells(p)'
    BY <2>6 DEF PlaceTells, Stepping, BeforeSend
  <2>11. QED
    BY <2>2, <2>6, <2>9, <2>10, WriterTells
<1>6. QED
  BY <1>1, <1>2, <1>3, <1>4, <1>5 DEF PhaseOneStep

\* A call claims a run that is offered, and its decision is there.
LEMMA ResumeTells ==
  ASSUME IInv, TypeOK, GateInv, OutcomeInv, NEW p \in Calls,
         ResumeStep(p) \/ OperatorActs(p)
  PROVE  OutcomeInv'
<1>0. /\ at \in [Calls -> StepIndex] /\ rec \in [Calls -> RunRecords]
      /\ pc \in [Calls -> Labels]
      /\ \A q \in Calls : pc[q] \in {"truncate", "write"} => choice[q] # NoDecision
  BY NotDecisions DEF TypeOK
<1>1. CASE \/ \E a \in BOOLEAN : Decide(p, a)
           \/ TurnAway(p) \/ TruncateDecision(p) \/ WriteDecision(p)
           \/ AcquireLock(p) \/ RefuseResume(p)
  <2>1. /\ UNCHANGED <<stateFile, wire, at, rec, probeResult, auditLog>>
        /\ \A q \in Calls :
             \/ pc'[q] = pc[q]
             \/ pc'[q] \in {"truncate", "write", "resume", "locked", "unlock", "done"}
    BY <1>0, <1>1
    DEF Decide, TurnAway, TruncateDecision, WriteDecision, AcquireLock,
        RefuseResume, Goto, memory, files
  <2>2. decisionFile # NoDecision => decisionFile' # NoDecision
    <3>1. NoDecision \notin {Empty, Garbled}
      BY ConstantsAssumption
    <3>2. CASE TruncateDecision(p) \/ WriteDecision(p)
      BY <1>0, <3>1, <3>2 DEF TruncateDecision, WriteDecision
    <3>3. CASE ~(TruncateDecision(p) \/ WriteDecision(p))
      BY <1>1, <3>3 DEF Decide, TurnAway, AcquireLock, RefuseResume, files
    <3>4. QED
      BY <3>2, <3>3
  <2>3. QED
    BY <2>1, <2>2, QuietTells
<1>2. CASE ClaimRun(p)
  <2>1. /\ pc[p] = "locked" /\ pc'[p] = "take"
        /\ stateFile.state = "AWAITING_APPROVAL" /\ decisionFile # NoDecision
        /\ UNCHANGED <<stateFile, wire, at, probeResult, auditLog, decisionFile>>
        /\ \A q \in Calls : q # p => pc'[q] = pc[q] /\ rec'[q] = rec[q]
    BY <1>0, <1>2 DEF ClaimRun, MustRefuse, Goto
  <2>2. Untouched
    BY <2>1 DEF OutcomeInv, FileTells
  <2>3. PlaceTells(p)'
    BY <2>1, <2>2 DEF PlaceTells, Stepping, Untouched
  <2>4. ASSUME NEW q \in Calls, q # p PROVE PlaceTells(q)'
    <3>1. PlaceTells(q) /\ pc'[q] = pc[q] /\ rec'[q] = rec[q]
      BY <2>1, <2>4 DEF OutcomeInv
    <3>2. (StepsFit(q) => StepsFit(q)') /\ (Agreed(rec[q]) => Agreed(rec[q])')
      BY <2>1, <3>1 DEF StepsFit, Agreed
    <3>3. QED
      BY <2>1, <3>1, <3>2 DEF PlaceTells, Stepping, BeforeSend, Untouched
  <2>5. FileTells'
    BY <2>1 DEF OutcomeInv, FileTells, OfferedSteps, FailedSteps, Agreed, Untouched
  <2>6. QED
    BY <2>3, <2>4, <2>5 DEF OutcomeInv
<1>3. CASE TakeRun(p)
  <2> DEFINE r == WithState(rec[p], "PROBING")
  <2>1. pc[p] = "take" /\ Writing(p)
    BY <1>3 DEF TakeRun, Writing
  <2>2. /\ rec[p] = stateFile /\ rec[p] \in RunRecords
        /\ rec[p].state = "AWAITING_APPROVAL"
    BY <2>1, WriterRecord DEF Fits
  <2>3. OfferedSteps(rec[p]) /\ Untouched /\ decisionFile # NoDecision
    BY <2>1, <2>2 DEF OutcomeInv, FileTells, PlaceTells
  <2>4. r.state = "PROBING" /\ r.steps = rec[p].steps
    BY <2>2, WithStateType, WithStateSteps DEF RunStates
  <2>5. /\ rec'[p] = r /\ stateFile' = r /\ pc'[p] = "begin" /\ at'[p] = Probe
        /\ UNCHANGED <<wire, probeResult, auditLog, decisionFile>>
        /\ \A q \in Calls : q # p => pc'[q] = pc[q]
    BY <1>0, <1>3 DEF TakeRun, Goto, files
  <2> HIDE DEF r
  <2>6. StepsFit(p)'
    BY <2>3, <2>4, <2>5 DEF OfferedSteps, StepsFit, StepIndex, Approval, Probe
  <2>7. PlaceTells(p)'
    BY <2>3, <2>5, <2>6 DEF PlaceTells, Untouched, Probe, Scrub, Finalize
  <2>8. FileTells'
    BY <2>4, <2>5 DEF FileTells
  <2>9. QED
    BY <2>1, <2>5, <2>7, <2>8, WriterTells
<1>4. QED
  BY <1>1, <1>2, <1>3
  DEF ResumeStep, OperatorActs, CliApprove, WebApprove, PromptOperator

\* A decision that cannot be read, or a broken step: everything but the probe,
\* and perhaps the approval, is settled.
LEMMA ProbeFailureTells ==
  ASSUME IInv, TypeOK, GateInv, OutcomeInv, NEW p \in Calls,
         ProbeBadDecision(p) \/ ProbeBroken(p)
  PROVE  OutcomeInv'
<1> DEFINE settled == ApprovalSettled(rec[p], decisionFile)
<1>1. pc[p] = "body" /\ at[p] = Probe /\ Executing(p) /\ Stepping(p)
  BY DEF ProbeBadDecision, ProbeBroken, AtProbe, Executing, Stepping
<1>2. Writing(p) /\ StepsFit(p) /\ rec[p] \in RunRecords /\ StepIndex = 1..9
  BY <1>1, WriterPlace DEF PlaceTells
<1>3. /\ settled \in RunRecords
      /\ \A t \in StepIndex : t # Approval => settled.steps[t] = rec[p].steps[t]
      /\ settled = rec[p] \/ settled.steps[Approval] = "done"
  BY <1>2, SettledType, ApprovalSettledSteps
<1> HIDE DEF settled
<1>4. PICK r \in {rec[p], settled} : SaveFailure(p, r)
  BY DEF ProbeBadDecision, ProbeBroken, settled
<1>5. \A s \in StepIndex : s > at[p] => r.steps[s] = "pending"
  BY <1>1, <1>2, <1>3 DEF StepsFit, Approval, Probe
<1>6. \A s \in StepIndex : s < at[p] =>
        \/ Settled(r.steps[s])
        \/ s = Approval /\ at[p] = Probe /\ r.steps[s] = "running"
  BY <1>1, <1>2, <1>3 DEF StepsFit, Settled
<1>7. QED
  BY <1>2, <1>3, <1>4, <1>5, <1>6, SaveFailureTells

\* Passing the gates, sending and logging: the step is still running.
LEMMA SendingTells ==
  ASSUME IInv, TypeOK, GateInv, OutcomeInv, NEW p \in Calls,
         ProbeAdmitted(p) \/ SendProbe(p) \/ AuditProbe(p)
  PROVE  OutcomeInv'
<1>0. /\ at \in [Calls -> StepIndex] /\ rec \in [Calls -> RunRecords]
      /\ pc \in [Calls -> Labels] /\ wire \in Seq(Payloads)
  BY DEF TypeOK
<1>1. pc[p] \in {"body", "send", "audit"} /\ Executing(p) /\ Stepping(p)
  BY DEF ProbeAdmitted, SendProbe, AuditProbe, AtProbe, Executing, Stepping
<1>2. /\ Writing(p) /\ PlaceTells(p) /\ StepsFit(p) /\ Fits(p)
      /\ rec[p] \in RunRecords /\ StepIndex = 1..9
  BY <1>1, WriterPlace DEF PlaceTells
<1>3. at[p] = Probe
  BY <1>1 DEF ProbeAdmitted, SendProbe, AuditProbe, AtProbe, IInv, SendsAtProbe
<1>4. /\ stateFile' = stateFile /\ at' = at
      /\ pc'[p] \in {"send", "audit", "record"}
      /\ \A q \in Calls : q # p => pc'[q] = pc[q]
  BY <1>0 DEF ProbeAdmitted, SendProbe, AuditProbe, Goto, memory
<1>5. stateFile.state = "PROBING"
  <2>1. CASE pc[p] = "body"
    <3>1. proposal.accepted
      BY <2>1 DEF ProbeAdmitted, SendProbe, AuditProbe
    <3>2. rec[p] = stateFile
      BY <1>1, <2>1, WriterPlace
    <3>3. QED
      BY <1>2, <1>3, <2>1, <3>1, <3>2 DEF Fits, StatesAt, Approval, Probe
  <2>2. CASE pc[p] \in {"send", "audit"}
    BY <1>1, <1>2, <2>2, WriterRecord DEF Fits
  <2>3. QED
    BY <1>1, <2>1, <2>2
<1>6. FileTells'
  BY <1>4, <1>5 DEF FileTells
<1>7. StepsFit(p)'
  <2>1. CASE ProbeAdmitted(p)
    <3> DEFINE settled == ApprovalSettled(rec[p], decisionFile)
    <3>1. decisionFile # NoDecision /\ rec'[p] = settled
      BY <1>0, <2>1 DEF ProbeAdmitted, Permits
    <3>2. /\ settled.steps[Approval] = "done"
          /\ \A t \in StepIndex : t # Approval => settled.steps[t] = rec[p].steps[t]
      BY <1>2, <3>1, ApprovalSettledSteps
    <3>3. pc[p] = "body" /\ pc'[p] = "send"
      BY <1>0, <2>1 DEF ProbeAdmitted, AtProbe, Goto
    <3> HIDE DEF settled
    <3>4. QED
      BY <1>2, <1>3, <1>4, <3>1, <3>2, <3>3 DEF StepsFit, Settled, Approval, Probe
  <2>2. CASE SendProbe(p) \/ AuditProbe(p)
    <3>1. rec' = rec /\ pc[p] \in {"send", "audit"} /\ pc'[p] \in {"audit", "record"}
      BY <1>0, <2>2 DEF SendProbe, AuditProbe, Goto, memory
    <3>2. QED
      BY <1>2, <1>4, <3>1 DEF StepsFit
  <2>3. QED
    BY <2>1, <2>2
<1>8. PlaceTells(p)'
  <2>1. CASE ProbeAdmitted(p)
    <3>1. BeforeSend(p) /\ pc'[p] = "send" /\ UNCHANGED <<probeResult, auditLog>>
      BY <1>0, <1>3, <2>1 DEF ProbeAdmitted, AtProbe, Goto, files, BeforeSend, Probe
    <3>2. QED
      BY <1>2, <1>7, <3>1 DEF PlaceTells, Untouched
  <2>2. CASE SendProbe(p)
    <3>1. /\ BeforeSend(p) /\ pc'[p] = "audit" /\ UNCHANGED <<probeResult, auditLog>>
          /\ wire' = Append(wire, loaded[p])
      BY <1>0, <2>2 DEF SendProbe, Goto, files, BeforeSend
    <3>2. wire = <<>>
      BY <3>1 DEF IInv, NoWayBack
    <3>3. Len(wire') = 1 /\ auditLog' = <<>>
      BY <1>2, <3>1, <3>2 DEF PlaceTells, Untouched
    <3>4. QED
      BY <1>7, <3>1, <3>3 DEF PlaceTells, BeforeSend
  <2>3. CASE AuditProbe(p)
    <3>1. /\ pc[p] = "audit" /\ pc'[p] = "record" /\ UNCHANGED wire
          /\ auditLog' = Append(auditLog, "SENT")
      BY <1>0, <2>3 DEF AuditProbe, Goto
    <3>2. Len(wire') = 1 /\ auditLog' = <<"SENT">>
      BY <1>2, <3>1 DEF PlaceTells
    <3>3. QED
      BY <1>7, <3>1, <3>2 DEF PlaceTells, BeforeSend
  <2>4. QED
    BY <2>1, <2>2, <2>3
<1>9. QED
  BY <1>2, <1>4, <1>6, <1>8, WriterTells

\* The probe is behind the run: sent, denied, or there was none.
LEMMA ProbedTells ==
  ASSUME IInv, TypeOK, GateInv, GateInv', OutcomeInv, NEW p \in Calls,
         ProbeNothing(p) \/ ProbeDenied(p) \/ RecordProbe(p)
  PROVE  OutcomeInv'
<1> DEFINE settled == ApprovalSettled(rec[p], decisionFile)
<1>1. pc[p] \in {"body", "record"} /\ Executing(p) /\ Stepping(p)
  BY DEF ProbeNothing, ProbeDenied, RecordProbe, AtProbe, Executing, Stepping
<1>2. /\ Writing(p) /\ PlaceTells(p) /\ StepsFit(p) /\ Fits(p)
      /\ rec[p] \in RunRecords /\ StepIndex = 1..9
  BY <1>1, WriterPlace DEF PlaceTells
<1>3. at[p] = Probe /\ Probe \in StepIndex /\ Approval \in StepIndex
  BY <1>1 DEF ProbeNothing, ProbeDenied, RecordProbe, AtProbe, IInv, SendsAtProbe,
              StepIndex, Approval, Probe
<1>4. ASSUME ProbeNothing(p) \/ ProbeDenied(p)
      PROVE  OutcomeInv'
  <2>1. AtProbe(p) /\ BeforeSend(p) /\ pc[p] = "body"
    BY <1>4 DEF ProbeNothing, ProbeDenied, AtProbe, BeforeSend, Probe
  <2>2. Untouched /\ wire = <<>>
    BY <1>2, <2>1 DEF PlaceTells, IInv, NoWayBack
  <2>3. /\ settled \in RunRecords /\ settled.state = rec[p].state
        /\ \A s \in StepIndex : s # Approval => settled.steps[s] = rec[p].steps[s]
        /\ decisionFile # NoDecision => settled.steps[Approval] = "done"
        /\ decisionFile = NoDecision => settled = rec[p]
    BY <1>2, SettledType, ApprovalSettledSteps
  <2>4. Settled(settled.steps[Approval])
    BY <1>2, <1>3, <2>3 DEF StepsFit, Settled, Approval, Probe
  <2> HIDE DEF settled
  <2> DEFINE marked == Mark(settled, Probe, "skipped")
  <2>5. /\ marked \in RunRecords /\ marked.state = rec[p].state
        /\ marked.steps[Probe] = "skipped"
        /\ \A s \in StepIndex : s # Probe => marked.steps[s] = settled.steps[s]
    <3>1. "skipped" \in Statuses
      BY DEF Statuses
    <3>2. marked \in RunRecords /\ marked.state = rec[p].state
      BY <1>3, <2>3, <3>1, MarkType
    <3>3. QED
      BY <1>3, <2>3, <3>2, MarkSteps
  <2>6. PICK r : /\ SaveStep(p, r) /\ r.steps = marked.steps
                 /\ \/ auditLog' = <<>> /\ r.state # "REJECTED"
                    \/ auditLog' = <<"DENIED">>
    <3>1. CASE ProbeNothing(p)
      <4>1. SaveStep(p, marked) /\ auditLog' = <<>>
        BY <2>2, <3>1 DEF ProbeNothing, settled, Untouched
      <4>2. marked.state # "REJECTED"
        BY <1>2, <1>3, <2>1, <2>5 DEF Fits, StatesAt, Preparing, Approval, Probe
      <4>3. QED
        BY <4>1, <4>2
    <3>2. CASE ProbeDenied(p)
      <4>1. PICK st : SaveStep(p, WithState(marked, Kept(rec[p], st)))
        BY <3>2 DEF ProbeDenied, settled
      <4>2. WithState(marked, Kept(rec[p], st)).steps = marked.steps
        BY <2>5, WithStateSteps
      <4>3. auditLog' = <<"DENIED">>
        BY <2>2, <3>2 DEF ProbeDenied, Untouched
      <4>4. QED
        BY <4>1, <4>2, <4>3
    <3>3. QED
      BY <1>4, <3>1, <3>2
  <2> HIDE DEF marked
  <2>7. \A s \in StepIndex : s <= at[p] => Settled(r.steps[s])
    BY <1>2, <1>3, <2>3, <2>4, <2>5, <2>6 DEF StepsFit, Settled, Approval, Probe
  <2>8. \A s \in StepIndex : s > at[p] => r.steps[s] = "pending"
    BY <1>2, <1>3, <2>3, <2>5, <2>6 DEF StepsFit, Approval, Probe
  <2>9. wire' = <<>> /\ probeResult' = "denied"
    BY <1>4, <2>2, <2>6 DEF ProbeNothing, ProbeDenied, SaveStep
  <2>10. Agreed(r)'
    BY <2>5, <2>6, <2>9 DEF Agreed
  <2>11. at[p] # Finalize /\ ~(at[p] < Probe)
    BY <1>3 DEF Probe, Finalize
  <2>12. QED
    BY <1>2, <2>6, <2>7, <2>8, <2>10, <2>11, SaveStepTells
<1>5. CASE RecordProbe(p)
  <2> DEFINE marked == Mark(rec[p], Probe, "done")
  <2>1. pc[p] = "record" /\ rec[p].state = "PROBING"
    BY <1>2, <1>5 DEF RecordProbe, Fits
  <2>2. /\ marked \in RunRecords /\ marked.steps[Probe] = "done"
        /\ \A s \in StepIndex : s # Probe => marked.steps[s] = rec[p].steps[s]
    <3>1. "done" \in Statuses
      BY DEF Statuses
    <3>2. marked \in RunRecords
      BY <1>2, <1>3, <3>1, MarkType
    <3>3. QED
      BY <1>2, <1>3, <3>2, MarkSteps
  <2>3. Kept(rec[p], "PROBING") = "PROBING" /\ "PROBING" \in RunStates
    BY <2>1 DEF Kept, RunStates
  <2>4. PICK r : SaveStep(p, r) /\ r.steps = marked.steps /\ r.state = "PROBING"
    BY <1>5, <2>2, <2>3, WithStateSteps, WithStateType DEF RecordProbe
  <2> HIDE DEF marked
  <2>5. \A s \in StepIndex : s <= at[p] => Settled(r.steps[s])
    BY <1>2, <1>3, <2>1, <2>2, <2>4 DEF StepsFit, Settled
  <2>6. \A s \in StepIndex : s > at[p] => r.steps[s] = "pending"
    BY <1>2, <1>3, <2>2, <2>4 DEF StepsFit
  <2>7. Len(wire') = 1 /\ probeResult' = "sent" /\ auditLog' = <<"SENT">>
    BY <1>2, <1>5, <2>1, <2>4 DEF PlaceTells, RecordProbe, SaveStep
  <2>8. Agreed(r)'
    BY <2>2, <2>4, <2>7 DEF Agreed
  <2>9. at[p] # Finalize /\ ~(at[p] < Probe)
    BY <1>3 DEF Probe, Finalize
  <2>10. QED
    BY <1>2, <2>4, <2>5, <2>6, <2>8, <2>9, SaveStepTells
<1>6. QED
  BY <1>4, <1>5

\* The last steps settle what is left, and change nothing that is told of the
\* probe.
LEMMA WrapUpTells ==
  ASSUME IInv, TypeOK, GateInv, GateInv', OutcomeInv, NEW p \in Calls,
         ScrubStep(p) \/ ReportStep(p) \/ FinalizeStep(p) \/ FinalSave(p) \/ Unlock(p)
  PROVE  OutcomeInv'
<1>0. /\ at \in [Calls -> StepIndex] /\ rec \in [Calls -> RunRecords]
      /\ pc \in [Calls -> Labels]
  BY DEF TypeOK
<1>1. CASE ScrubStep(p) \/ ReportStep(p) \/ FinalizeStep(p)
  <2>1. /\ pc[p] = "body" /\ Executing(p) /\ Stepping(p)
        /\ at[p] \in Scrub..Finalize
        /\ UNCHANGED <<probeResult, auditLog>>
    BY <1>1 DEF ScrubStep, ReportStep, FinalizeStep, Executing, Stepping, files,
                Scrub, Report, Finalize
  <2>2. /\ Writing(p) /\ PlaceTells(p) /\ StepsFit(p) /\ Fits(p)
        /\ rec[p] \in RunRecords /\ at[p] \in StepIndex
        /\ at[p] \in 7..9 /\ StepIndex = 1..9
    BY <2>1, WriterPlace DEF PlaceTells, Scrub, Finalize
  <2>3. Agreed(rec[p]) /\ rec[p].state \in Ongoing
    BY <2>1, <2>2 DEF PlaceTells, Fits, StatesAt, Ongoing, Preparing, Approval,
                      Probe, Scrub, Report
  <2>4. PICK m \in {"done", "skipped"}, st \in {"SCRUBBING", "REPORTING", "DONE"} :
          /\ \/ SaveStep(p, Mark(rec[p], at[p], m)) /\ at[p] = Scrub
             \/ SaveStep(p, WithState(Mark(rec[p], at[p], m), Kept(rec[p], st)))
          /\ at[p] = Finalize => st = "DONE"
    <3>1. CASE ScrubStep(p)
      BY <3>1 DEF ScrubStep, Scrub, Finalize
    <3>2. CASE ReportStep(p)
      BY <3>2 DEF ReportStep, Report, Finalize
    <3>3. CASE FinalizeStep(p)
      BY <3>3 DEF FinalizeStep
    <3>4. QED
      BY <1>1, <3>1, <3>2, <3>3
  <2> DEFINE marked == Mark(rec[p], at[p], m)
  <2>5. /\ marked \in RunRecords /\ marked.state = rec[p].state
        /\ marked.steps[at[p]] = m
        /\ \A t \in StepIndex : t # at[p] => marked.steps[t] = rec[p].steps[t]
    <3>1. m \in Statuses
      BY DEF Statuses
    <3>2. marked \in RunRecords /\ marked.state = rec[p].state
      BY <2>2, <3>1, MarkType
    <3>3. rec[p] \in RunRecords /\ at[p] \in StepIndex
      BY <2>2
    <3>4. QED
      BY <3>2, <3>3, MarkSteps
  <2> HIDE DEF marked
  <2>6. PICK r : /\ SaveStep(p, r) /\ r.steps = marked.steps
                 /\ r.state = "REJECTED" <=> rec[p].state = "REJECTED"
                 /\ at[p] = Finalize => r.state \in {"DONE", "REJECTED"}
    <3>1. CASE SaveStep(p, marked) /\ at[p] = Scrub
      BY <2>5, <3>1 DEF Scrub, Finalize
    <3>2. CASE SaveStep(p, WithState(marked, Kept(rec[p], st)))
      <4>1. st \in RunStates /\ "REJECTED" \in RunStates
        BY DEF RunStates
      <4>2. Kept(rec[p], st) = IF rec[p].state = "REJECTED" THEN "REJECTED" ELSE st
        BY <2>3, KeptOngoing
      <4>3. WithState(marked, Kept(rec[p], st)).state = Kept(rec[p], st)
        BY <2>5, <4>1, <4>2, WithStateType
      <4>4. WithState(marked, Kept(rec[p], st)).steps = marked.steps
        BY <2>5, WithStateSteps
      <4>5. QED
        BY <2>4, <3>2, <4>2, <4>3, <4>4
    <3>3. QED
      BY <2>4, <3>1, <3>2 DEF marked
  <2>7. \A s \in StepIndex : s <= at[p] => Settled(r.steps[s])
    BY <2>1, <2>2, <2>5, <2>6 DEF StepsFit, Settled, Probe
  <2>8. \A s \in StepIndex : s > at[p] => r.steps[s] = "pending"
    BY <2>1, <2>2, <2>5, <2>6 DEF StepsFit
  <2>9. r.steps[Probe] = rec[p].steps[Probe]
    BY <2>2, <2>5, <2>6 DEF Probe
  <2>10. wire' = wire
    BY <2>6 DEF SaveStep
  <2>11. Agreed(r)'
    BY <2>1, <2>3, <2>6, <2>9, <2>10 DEF Agreed
  <2>12. ~(at[p] < Probe)
    BY <2>2 DEF Probe
  <2>13. QED
    BY <2>2, <2>6, <2>7, <2>8, <2>11, <2>12, SaveStepTells
<1>2. CASE FinalSave(p)
  <2>1. pc[p] = "final" /\ Executing(p)
    BY <1>2 DEF FinalSave, Executing
  <2>2. rec[p] = stateFile
    BY <2>1, WriterPlace
  <2>3. /\ UNCHANGED <<stateFile, wire, at, rec, probeResult, auditLog, decisionFile>>
        /\ \A q \in Calls : pc'[q] = pc[q] \/ pc'[q] \in {"unlock", "done"}
    BY <1>0, <1>2, <2>2 DEF FinalSave, Goto, memory, files
  <2>4. QED
    BY <2>3, QuietTells
<1>3. CASE Unlock(p)
  <2>1. /\ UNCHANGED <<stateFile, wire, at, rec, probeResult, auditLog, decisionFile>>
        /\ \A q \in Calls : pc'[q] = pc[q] \/ pc'[q] = "done"
    BY <1>0, <1>3 DEF Unlock, Goto, memory, files
  <2>2. QED
    BY <2>1, QuietTells
<1>4. QED
  BY <1>1, <1>2, <1>3

\* Neither a death nor an edit of the proposal touches a record.
LEMMA EnvironmentTells ==
  ASSUME OutcomeInv,
         (\E P \in SUBSET Calls : Die(P)) \/ EditProposal \/ UNCHANGED vars
  PROVE  OutcomeInv'
<1>1. /\ UNCHANGED <<stateFile, wire, at, rec, probeResult, auditLog, decisionFile>>
      /\ \A q \in Calls : pc'[q] = pc[q] \/ pc'[q] = "dead"
  BY DEF Die, EditProposal, vars, memory, files
<1>2. QED
  BY <1>1, QuietTells

-----------------------------------------------------------------------------
(* The theorems.                                                           *)

\* In every reachable state the records and the artifacts tell how far the run
\* is, and what became of its probe.
THEOREM OutcomeInvariance == Spec => []OutcomeInv
<1>1. IInv /\ TypeOK /\ GateInv /\ OutcomeInv /\ [Next]_vars => OutcomeInv'
  <2> SUFFICES ASSUME IInv, TypeOK, GateInv, OutcomeInv, [Next]_vars
               PROVE  OutcomeInv'
    OBVIOUS
  <2>0. GateInv'
    BY NextGate
  <2>1. ASSUME NEW p \in Calls, RunCall(p) \/ OperatorActs(p)
        PROVE  OutcomeInv'
    BY <2>0, <2>1, PhaseOneTells, ResumeTells, ProbeFailureTells, SendingTells,
       ProbedTells, WrapUpTells
    DEF RunCall, ProbeStep
  <2>2. ASSUME NEW p \in Calls, CallDies(p)
        PROVE  OutcomeInv'
    BY <2>2, EnvironmentTells DEF CallDies
  <2>3. CASE WebDies
    <3>1. WebCalls \in SUBSET Calls
      BY DEF WebCalls, Calls
    <3>2. QED
      BY <2>3, <3>1, EnvironmentTells DEF WebDies
  <2>4. CASE EditProposal \/ UNCHANGED vars
    BY <2>4, EnvironmentTells
  <2>5. QED
    BY <2>1, <2>2, <2>3, <2>4 DEF Next
<1>2. QED
  BY <1>1, InitTells, TypeCorrect, Invariance, GateInvariance, PTL DEF Spec

\* REJECTED is only ever said of a run that sent nothing, and the result, the
\* audit log and the step record say so as well (step_probe, runner.py).
THEOREM RejectedRuns == Spec => []RejectedMeansUnsent
<1>1. OutcomeInv => RejectedMeansUnsent
  BY DEF OutcomeInv, FileTells, Agreed, RejectedMeansUnsent
<1>2. QED
  BY <1>1, OutcomeInvariance, PTL

\* DONE is a settled run, whose record, result and audit log agree on whether a
\* request was sent (the steps of _execute, whoever executed them).
THEOREM DoneRuns == Spec => []DoneMeansSettled
<1>1. OutcomeInv => DoneMeansSettled
  <2> SUFFICES ASSUME OutcomeInv, stateFile.state = "DONE" PROVE DoneMeansSettled
    BY DEF DoneMeansSettled
  <2>1. /\ Agreed(stateFile)
        /\ \A s \in StepIndex : stateFile.steps[s] \in {"done", "skipped"}
    BY DEF OutcomeInv, FileTells, Settled
  <2>2. Len(wire) = 1 \/ (wire = <<>> /\ Len(wire) # 1)
    <3>1. wire = <<>> => Len(wire) # 1
      OBVIOUS
    <3>2. Len(wire) = 1 \/ wire = <<>>
      BY <2>1 DEF Agreed
    <3>3. QED
      BY <3>1, <3>2
  <2>3. auditLog = <<"SENT">> <=> Len(wire) = 1
    BY <2>1, <2>2 DEF Agreed
  <2>4. QED
    BY <2>1, <2>2, <2>3 DEF Agreed, DoneMeansSettled
<1>2. QED
  BY <1>1, OutcomeInvariance, PTL

\* A failed run stopped at one step: all before it settled, none after it begun
\* (_record_failure, in phase one and in phase two).
THEOREM FailedRuns == Spec => []FailureStopsTheRun
<1>1. OutcomeInv => FailureStopsTheRun
  BY DEF OutcomeInv, FileTells, FailedSteps, Settled, FailureStopsTheRun
<1>2. QED
  BY <1>1, OutcomeInvariance, PTL

=============================================================================
