------------------------- MODULE RunLifecycle_proofs -------------------------
(***************************************************************************)
(* Proofs about RunLifecycle, for any number of approvers, deaths and      *)
(* edits: type correctness, at most one request on the wire, no lost       *)
(* update of state.json; the orchestrator implements ProbeGate, and a      *)
(* terminal state is final.                                                *)
(***************************************************************************)
EXTENDS RunLifecycle, TLAPS, SequenceTheorems

-----------------------------------------------------------------------------
(* The inductive invariant.                                                *)

Executing(p) ==
  pc[p] \in {"begin", "body", "offer", "send", "audit", "record", "final"}

\* A call that will write state.json without checking anything again.
Writing(p) == Executing(p) \/ pc[p] = "take"

\* ... and that may still get to the transport.
BeforeSend(p) ==
  \/ pc[p] \in {"take", "offer", "send"}
  \/ pc[p] \in {"begin", "body"} /\ at[p] <= Probe

\* The flock is held from the check to the claim, and again until it is left.
LockHeld == \A p \in Calls : pc[p] \in {"locked", "take", "unlock"} => lock = p

OneWriter == \A p, q \in Calls : Writing(p) /\ Writing(q) => p = q

\* Who executes does not await approval, and neither does the file.
NotAwaiting ==
  \A p \in Calls :
    Executing(p) =>
      rec[p].state = stateFile.state /\ rec[p].state # "AWAITING_APPROVAL"

SendsAtProbe == \A p \in Calls : pc[p] \in {"send", "audit", "record"} => at[p] = Probe

\* Once a request is out nobody can get to the transport again.
NoWayBack ==
  wire # <<>> =>
    /\ stateFile.state # "AWAITING_APPROVAL"
    /\ \A p \in Calls : ~BeforeSend(p)

IInv ==
  /\ LockHeld
  /\ OneWriter
  /\ NoLostUpdate
  /\ NotAwaiting
  /\ SendsAtProbe
  /\ NoWayBack
  /\ ProbeSentAtMostOnce

-----------------------------------------------------------------------------
(* What the operators on records return.                                   *)

\* mark_step keeps a record a record and leaves the state alone.
LEMMA MarkType ==
  ASSUME NEW r \in RunRecords, NEW s \in StepIndex, NEW st \in Statuses
  PROVE  Mark(r, s, st) \in RunRecords /\ Mark(r, s, st).state = r.state
BY DEF Mark, RunRecords

\* Setting the state keeps a record a record.
LEMMA WithStateType ==
  ASSUME NEW r \in RunRecords, NEW st \in RunStates
  PROVE  WithState(r, st) \in RunRecords /\ WithState(r, st).state = st
BY DEF WithState, RunRecords

\* The restored state is a state, and the given one or a terminal one.
LEMMA KeptType ==
  ASSUME NEW r \in RunRecords, NEW st \in RunStates
  PROVE  Kept(r, st) \in RunStates /\ Kept(r, st) \in Terminal \cup {st}
BY DEF Kept, RunRecords

\* _record_failure leaves a record in state FAILED.
LEMMA FailedType ==
  ASSUME NEW r \in RunRecords, NEW s \in StepIndex
  PROVE  Failed(r, s) \in RunRecords /\ Failed(r, s).state = "FAILED"
<1>1. Mark(r, s, "failed") \in RunRecords
  BY MarkType DEF Statuses
<1>2. QED
  BY <1>1, WithStateType DEF Failed, RunStates

\* Reading a decision closes the approval step at most.
LEMMA SettledType ==
  ASSUME NEW r \in RunRecords, NEW d
  PROVE  /\ ApprovalSettled(r, d) \in RunRecords
         /\ ApprovalSettled(r, d).state = r.state
BY MarkType DEF ApprovalSettled, Statuses, StepIndex, Approval

\* A fresh run is a record.
LEMMA InitialRecordType == InitialRecord \in RunRecords
BY DEF InitialRecord, RunRecords, RunStates, Statuses

-----------------------------------------------------------------------------
(* Type correctness, in two parts: the artifacts, and everything else.     *)

FilesOK ==
  /\ proposal \in [accepted : BOOLEAN, fp : Requests \cup {NoRequest}]
  /\ proposal.accepted => proposal.fp \in Requests
  /\ approvalRequest \in Requests \cup {NoRequest}
  /\ decisionFile \in Decisions \cup {NoDecision, Empty, Garbled}
  /\ claimFile \in Decisions \cup {NoDecision, Empty, Garbled}
  /\ probeResult \in {"none", "denied", "sent"}
  /\ auditLog \in Seq({"SENT", "DENIED"})

ControlOK ==
  /\ stateFile \in RunRecords
  /\ lock \in Calls \cup {NoOne}
  /\ wire \in Seq(Payloads)
  /\ pc \in [Calls -> Labels]
  /\ at \in [Calls -> StepIndex]
  /\ rec \in [Calls -> RunRecords]
  /\ choice \in [Calls -> Decisions \cup {NoDecision}]
  /\ loaded \in [Calls -> Payloads \cup {NoDecision}]
  /\ \A p \in Calls : pc[p] \in {"truncate", "write"} => choice[p] \in Decisions
  /\ \A p \in Calls : pc[p] = "send" => loaded[p] \in Payloads
  /\ crashes \in Nat /\ edits \in Nat

\* TypeOK is the two parts together.
LEMMA TypeParts == TypeOK <=> FilesOK /\ ControlOK
BY DEF TypeOK, FilesOK, ControlOK

\* The same after a step.
LEMMA TypePartsNext == FilesOK' /\ ControlOK' => TypeOK'
BY DEF TypeOK, FilesOK, ControlOK

\* A step that writes no artifact keeps their types.
LEMMA FilesUnchanged == FilesOK /\ UNCHANGED files => FilesOK'
BY DEF FilesOK, files

\* Saving a step's record keeps the types.
LEMMA SaveStepType ==
  ASSUME ControlOK, NEW p \in Calls, NEW r \in RunRecords, SaveStep(p, r)
  PROVE  ControlOK'
<1>1. at' \in [Calls -> StepIndex]
  BY DEF SaveStep, ControlOK, Goto, StepIndex, Finalize
<1>2. /\ pc' \in [Calls -> Labels]
      /\ \A q \in Calls : pc'[q] \in {"truncate", "write", "send"} => pc[q] = pc'[q]
  BY DEF SaveStep, ControlOK, Goto, Labels
<1>3. QED
  BY <1>1, <1>2 DEF SaveStep, ControlOK, environment

\* Recording a failure keeps the types.
LEMMA SaveFailureType ==
  ASSUME ControlOK, NEW p \in Calls, NEW r \in RunRecords, SaveFailure(p, r)
  PROVE  ControlOK'
<1>1. Failed(r, at[p]) \in RunRecords
  BY FailedType DEF ControlOK
<1>2. /\ pc' \in [Calls -> Labels]
      /\ \A q \in Calls : pc'[q] \in {"truncate", "write", "send"} => pc[q] = pc'[q]
  BY DEF SaveFailure, ControlOK, Goto, Labels
<1>3. QED
  BY <1>1, <1>2 DEF SaveFailure, ControlOK, environment

\* create_run leaves the files and the calls well typed.
LEMMA InitType == Init => TypeOK
<1> SUFFICES ASSUME Init PROVE TypeOK
  OBVIOUS
<1>1. Starter \in Calls
  BY DEF Calls
<1>2. \A p \in Calls : pc[p] \in {"begin", "idle"}
  BY DEF Init
<1>3. ControlOK
  BY <1>1, <1>2, InitialRecordType
  DEF Init, ControlOK, Labels, StepIndex
<1>4. FilesOK
  BY DEF Init, FilesOK
<1>5. QED
  BY <1>3, <1>4, TypeParts

\* The steps of _execute in phase one.
LEMMA PhaseOneType ==
  ASSUME TypeOK, NEW p \in Calls, BeginStep(p) \/ FailStep(p) \/ PhaseOneStep(p)
  PROVE  TypeOK'
<1>0. FilesOK /\ ControlOK /\ rec[p] \in RunRecords /\ at[p] \in StepIndex
  BY TypeParts DEF ControlOK
<1>1. CASE BeginStep(p)
  <2>1. Mark(rec[p], at[p], "running") \in RunRecords
    BY <1>0, MarkType DEF Statuses
  <2>2. ControlOK'
    BY <1>0, <1>1, <2>1 DEF BeginStep, ControlOK, Goto, Labels, environment
  <2>3. QED
    BY <1>0, <1>1, <2>2, FilesUnchanged, TypePartsNext DEF BeginStep
<1>2. CASE FailStep(p)
  BY <1>0, <1>2, SaveFailureType, FilesUnchanged, TypePartsNext DEF FailStep
<1>3. ASSUME NEW s \in 1..3, NEW st \in {"SCANNING", "NORMALIZING", "ANALYZING"},
             IngestStep(p, s, st)
      PROVE  TypeOK'
  <2>1. st \in RunStates
    BY DEF RunStates
  <2>2. Mark(rec[p], s, "done") \in RunRecords
    BY <1>0, MarkType DEF Statuses, StepIndex
  <2>3. WithState(Mark(rec[p], s, "done"), Kept(rec[p], st)) \in RunRecords
    BY <1>0, <2>1, <2>2, KeptType, WithStateType
  <2>4. QED
    BY <1>0, <1>3, <2>3, SaveStepType, FilesUnchanged, TypePartsNext DEF IngestStep
<1>4. CASE ProposeStep(p)
  <2>1. Mark(rec[p], 4, "done") \in RunRecords
    BY <1>0, MarkType DEF Statuses, StepIndex
  <2>2. ControlOK'
    BY <1>0, <1>4, <2>1, SaveStepType DEF ProposeStep
  <2>3. /\ proposal' \in [accepted : BOOLEAN, fp : Requests \cup {NoRequest}]
        /\ proposal'.accepted => proposal'.fp \in Requests
    <3>1. CASE \E f \in Requests : proposal' = [accepted |-> TRUE, fp |-> f]
      BY <3>1
    <3>2. CASE proposal' = [accepted |-> FALSE, fp |-> NoRequest]
      BY <3>2
    <3>3. QED
      BY <1>4, <3>1, <3>2 DEF ProposeStep
  <2>5. FilesOK'
    BY <1>0, <1>4, <2>3 DEF ProposeStep, FilesOK
  <2>4. QED
    BY <2>2, <2>5, TypePartsNext
<1>5. CASE SkipApproval(p)
  <2>1. Mark(rec[p], Approval, "skipped") \in RunRecords
    BY <1>0, MarkType DEF Statuses, StepIndex, Approval
  <2>2. QED
    BY <1>0, <1>5, <2>1, SaveStepType, FilesUnchanged, TypePartsNext DEF SkipApproval
<1>6. CASE WriteRequest(p)
  <2>1. FilesOK'
    BY <1>0, <1>6 DEF WriteRequest, FilesOK
  <2>2. ControlOK'
    BY <1>0, <1>6 DEF WriteRequest, ControlOK, Goto, Labels, memory, environment
  <2>3. QED
    BY <2>1, <2>2, TypePartsNext
<1>7. CASE OfferRun(p)
  <2> DEFINE r == WithState(Mark(rec[p], Approval, "running"),
                            Kept(rec[p], "AWAITING_APPROVAL"))
  <2>1. Mark(rec[p], Approval, "running") \in RunRecords
    BY <1>0, MarkType DEF Statuses, StepIndex, Approval
  <2>2. r \in RunRecords
    BY <1>0, <2>1, KeptType, WithStateType DEF RunStates
  <2>3. ControlOK'
    BY <1>0, <1>7, <2>2 DEF OfferRun, ControlOK, Goto, Labels, environment
  <2>4. QED
    BY <1>0, <1>7, <2>3, FilesUnchanged, TypePartsNext DEF OfferRun
<1>8. QED
  BY <1>1, <1>2, <1>3, <1>4, <1>5, <1>6, <1>7
  DEF PhaseOneStep, ScanStep, NormalizeStep, AnalyzeStep

\* Decisions, the lock and the claim.
LEMMA ResumeType ==
  ASSUME TypeOK, NEW p \in Calls, ResumeStep(p) \/ OperatorActs(p)
  PROVE  TypeOK'
<1>0. FilesOK /\ ControlOK /\ rec[p] \in RunRecords
  BY TypeParts DEF ControlOK
<1>1. ASSUME NEW a \in BOOLEAN, Decide(p, a)
      PROVE  TypeOK'
  <2>1. [by |-> p, approved |-> a, fp |-> approvalRequest] \in Decisions
    BY <1>0 DEF FilesOK, Decisions
  <2>2. ControlOK'
    BY <1>0, <1>1, <2>1 DEF Decide, ControlOK, Goto, Labels, environment
  <2>3. QED
    BY <1>0, <1>1, <2>2, FilesUnchanged, TypePartsNext DEF Decide
<1>2. CASE TurnAway(p)
  <2>1. ControlOK'
    BY <1>0, <1>2 DEF TurnAway, ControlOK, Goto, Labels, memory, environment
  <2>2. QED
    BY <1>0, <1>2, <2>1, FilesUnchanged, TypePartsNext DEF TurnAway
<1>3. CASE TruncateDecision(p)
  <2>1. ControlOK'
    BY <1>0, <1>3 DEF TruncateDecision, ControlOK, Goto, Labels, memory, environment
  <2>2. FilesOK'
    BY <1>0, <1>3 DEF TruncateDecision, FilesOK
  <2>3. QED
    BY <2>1, <2>2, TypePartsNext
<1>4. CASE WriteDecision(p)
  <2>1. ControlOK'
    BY <1>0, <1>4 DEF WriteDecision, ControlOK, Goto, Labels, memory, environment
  <2>2. choice[p] \in Decisions
    BY <1>0, <1>4 DEF WriteDecision, ControlOK
  <2>3. FilesOK'
    BY <1>0, <1>4, <2>2 DEF WriteDecision, FilesOK
  <2>4. QED
    BY <2>1, <2>3, TypePartsNext
<1>5. CASE AcquireLock(p) \/ RefuseResume(p)
  <2>1. ControlOK'
    BY <1>0, <1>5
    DEF AcquireLock, RefuseResume, ControlOK, Goto, Labels, memory, environment
  <2>2. QED
    BY <1>0, <1>5, <2>1, FilesUnchanged, TypePartsNext DEF AcquireLock, RefuseResume
<1>6. CASE ClaimRun(p)
  <2>1. ControlOK'
    BY <1>0, <1>6 DEF ClaimRun, ControlOK, Goto, Labels, environment
  <2>2. FilesOK'
    BY <1>0, <1>6 DEF ClaimRun, FilesOK, IdempotencyKey
  <2>3. QED
    BY <2>1, <2>2, TypePartsNext
<1>7. CASE TakeRun(p)
  <2>1. WithState(rec[p], "PROBING") \in RunRecords
    BY <1>0, WithStateType DEF RunStates
  <2>2. Probe \in StepIndex
    BY DEF Probe, StepIndex
  <2>3. ControlOK'
    BY <1>0, <1>7, <2>1, <2>2 DEF TakeRun, ControlOK, Goto, Labels, environment
  <2>4. QED
    BY <1>0, <1>7, <2>3, FilesUnchanged, TypePartsNext DEF TakeRun
<1>8. QED
  BY <1>1, <1>2, <1>3, <1>4, <1>5, <1>6, <1>7
  DEF ResumeStep, OperatorActs, CliApprove, WebApprove, PromptOperator

\* step_probe, from the gate to the saved result.
LEMMA ProbeType ==
  ASSUME TypeOK, NEW p \in Calls, ProbeStep(p)
  PROVE  TypeOK'
<1> DEFINE settled == ApprovalSettled(rec[p], decisionFile)
<1>0. FilesOK /\ ControlOK /\ rec[p] \in RunRecords /\ settled \in RunRecords
  BY TypeParts, SettledType DEF ControlOK
<1>1. \A r \in RunRecords : \A st \in {"done", "skipped"} :
        Mark(r, Probe, st) \in RunRecords
  BY MarkType DEF Statuses, StepIndex, Probe
<1>2. CASE ProbeBadDecision(p)
  <2>1. ControlOK'
    BY <1>0, <1>2, SaveFailureType DEF ProbeBadDecision
  <2>2. FilesOK'
    BY <1>0, <1>2 DEF ProbeBadDecision, FilesOK
  <2>3. QED
    BY <2>1, <2>2, TypePartsNext
<1>3. CASE ProbeBroken(p)
  BY <1>0, <1>3, SaveFailureType, FilesUnchanged, TypePartsNext DEF ProbeBroken
<1>4. CASE ProbeNothing(p)
  <2>1. Mark(settled, Probe, "skipped") \in RunRecords
    BY <1>0, <1>1
  <2>2. ControlOK'
    BY <1>0, <1>4, <2>1, SaveStepType DEF ProbeNothing
  <2>3. FilesOK'
    BY <1>0, <1>4 DEF ProbeNothing, FilesOK
  <2>4. QED
    BY <2>2, <2>3, TypePartsNext
<1>5. CASE ProbeDenied(p)
  <2>1. Mark(settled, Probe, "skipped") \in RunRecords
    BY <1>0, <1>1
  <2>2. \A st \in {"REJECTED", "PROBING"} :
          WithState(Mark(settled, Probe, "skipped"), Kept(rec[p], st)) \in RunRecords
    BY <1>0, <2>1, KeptType, WithStateType DEF RunStates
  <2>3. ControlOK'
    BY <1>0, <1>5, <2>2, SaveStepType DEF ProbeDenied
  <2>4. FilesOK'
    BY <1>0, <1>5 DEF ProbeDenied, FilesOK
  <2>5. QED
    BY <2>3, <2>4, TypePartsNext
<1>6. CASE ProbeAdmitted(p)
  <2>1. [decision |-> decisionFile, fp |-> proposal.fp] \in Payloads
    BY <1>0, <1>6 DEF ProbeAdmitted, FilesOK, Readable, Permits, Payloads
  <2>2. ControlOK'
    BY <1>0, <1>6, <2>1 DEF ProbeAdmitted, ControlOK, Goto, Labels, environment
  <2>3. QED
    BY <1>0, <1>6, <2>2, FilesUnchanged, TypePartsNext DEF ProbeAdmitted
<1>7. CASE SendProbe(p)
  <2>1. Append(wire, loaded[p]) \in Seq(Payloads)
    BY <1>0, <1>7 DEF SendProbe, ControlOK
  <2>2. ControlOK'
    BY <1>0, <1>7, <2>1 DEF SendProbe, ControlOK, Goto, Labels, environment
  <2>3. QED
    BY <1>0, <1>7, <2>2, FilesUnchanged, TypePartsNext DEF SendProbe
<1>8. CASE AuditProbe(p)
  <2>1. ControlOK'
    BY <1>0, <1>8 DEF AuditProbe, ControlOK, Goto, Labels, memory, environment
  <2>2. FilesOK'
    BY <1>0, <1>8 DEF AuditProbe, FilesOK
  <2>3. QED
    BY <2>1, <2>2, TypePartsNext
<1>9. CASE RecordProbe(p)
  <2>1. WithState(Mark(rec[p], Probe, "done"), Kept(rec[p], "PROBING")) \in RunRecords
    BY <1>0, <1>1, KeptType, WithStateType DEF RunStates
  <2>2. ControlOK'
    BY <1>0, <1>9, <2>1, SaveStepType DEF RecordProbe
  <2>3. FilesOK'
    BY <1>0, <1>9 DEF RecordProbe, FilesOK
  <2>4. QED
    BY <2>2, <2>3, TypePartsNext
<1>10. QED
  BY <1>2, <1>3, <1>4, <1>5, <1>6, <1>7, <1>8, <1>9 DEF ProbeStep

\* Scrub, report, finalize and the last save.
LEMMA WrapUpType ==
  ASSUME TypeOK, NEW p \in Calls,
         ScrubStep(p) \/ ReportStep(p) \/ FinalizeStep(p) \/ FinalSave(p) \/ Unlock(p)
  PROVE  TypeOK'
<1>0. FilesOK /\ ControlOK /\ rec[p] \in RunRecords
  BY TypeParts DEF ControlOK
<1>1. \A s \in {Scrub, Report, Finalize} : \A st \in {"done", "skipped"} :
        Mark(rec[p], s, st) \in RunRecords
  BY <1>0, MarkType DEF Statuses, StepIndex, Scrub, Report, Finalize
<1>2. \A s \in {Scrub, Report, Finalize} :
      \A st \in {"SCRUBBING", "REPORTING", "DONE"} :
        WithState(Mark(rec[p], s, "done"), Kept(rec[p], st)) \in RunRecords
  BY <1>0, <1>1, KeptType, WithStateType DEF RunStates
<1>3. CASE ScrubStep(p) \/ ReportStep(p) \/ FinalizeStep(p)
  <2>1. PICK r \in RunRecords : SaveStep(p, r)
    BY <1>1, <1>2, <1>3 DEF ScrubStep, ReportStep, FinalizeStep
  <2>2. UNCHANGED files
    BY <1>3 DEF ScrubStep, ReportStep, FinalizeStep
  <2>3. QED
    BY <1>0, <2>1, <2>2, SaveStepType, FilesUnchanged, TypePartsNext
<1>4. CASE FinalSave(p) \/ Unlock(p)
  <2>1. ControlOK'
    BY <1>0, <1>4 DEF FinalSave, Unlock, ControlOK, Goto, Labels, memory, environment
  <2>2. QED
    BY <1>0, <1>4, <2>1, FilesUnchanged, TypePartsNext DEF FinalSave, Unlock
<1>5. QED
  BY <1>3, <1>4

\* Deaths and edits.
LEMMA EnvironmentType ==
  ASSUME TypeOK, (\E P \in SUBSET Calls : Die(P)) \/ EditProposal
  PROVE  TypeOK'
<1>0. FilesOK /\ ControlOK
  BY TypeParts
<1>1. ASSUME NEW P \in SUBSET Calls, Die(P)
      PROVE  TypeOK'
  <2>1. ControlOK'
    BY <1>0, <1>1 DEF Die, ControlOK, Labels, memory
  <2>2. QED
    BY <1>0, <1>1, <2>1, FilesUnchanged, TypePartsNext DEF Die
<1>2. CASE EditProposal
  <2>1. ControlOK'
    BY <1>0, <1>2 DEF EditProposal, ControlOK, memory
  <2>2. FilesOK'
    BY <1>0, <1>2 DEF EditProposal, FilesOK
  <2>3. QED
    BY <2>1, <2>2, TypePartsNext
<1>3. QED
  BY <1>1, <1>2

\* Every variable keeps its type, and a call about to write a decision or to
\* send holds one (RunRecord, the artifacts and the calls' control).
THEOREM TypeCorrect == Spec => []TypeOK
<1>1. TypeOK /\ [Next]_vars => TypeOK'
  <2> SUFFICES ASSUME TypeOK, [Next]_vars
               PROVE  TypeOK'
    OBVIOUS
  <2>1. ASSUME NEW p \in Calls, RunCall(p) \/ OperatorActs(p)
        PROVE  TypeOK'
    BY <2>1, PhaseOneType, ResumeType, ProbeType, WrapUpType DEF RunCall
  <2>2. ASSUME NEW p \in Calls, CallDies(p)
        PROVE  TypeOK'
    BY <2>2, EnvironmentType DEF CallDies
  <2>3. CASE WebDies
    <3>1. WebCalls \in SUBSET Calls
      BY DEF WebCalls, Calls
    <3>2. QED
      BY <2>3, <3>1, EnvironmentType DEF WebDies
  <2>4. CASE EditProposal
    BY <2>4, EnvironmentType
  <2>5. CASE UNCHANGED vars
    BY <2>5 DEF TypeOK, vars, files, memory, environment
  <2>6. QED
    BY <2>1, <2>2, <2>3, <2>4, <2>5 DEF Next
<1>2. QED
  BY <1>1, InitType, PTL DEF Spec

-----------------------------------------------------------------------------
(* The inductive invariant: its base case, and steps by what they touch.   *)

\* Phase one of the starter is the only writer of a fresh run.
LEMMA InitInv == Init => IInv
<1> SUFFICES ASSUME Init PROVE IInv
  OBVIOUS
<1>1. Starter \in Calls
  BY DEF Calls
<1>2. \A p \in Calls : /\ pc[p] = IF p = Starter THEN "begin" ELSE "idle"
                       /\ rec[p] = InitialRecord
  BY <1>1 DEF Init
<1>3. wire = <<>> /\ stateFile = InitialRecord /\ stateFile.state = "IDLE"
  BY DEF Init, InitialRecord
<1>4. QED
  BY <1>2, <1>3 DEF IInv, LockHeld, OneWriter, NoLostUpdate, NotAwaiting,
     SendsAtProbe, NoWayBack, ProbeSentAtMostOnce, Executing, Writing

\* A step after which nobody writes who did not write before, and that leaves
\* state.json, the records and the wire alone, keeps the invariant.
LEMMA QuietStep ==
  ASSUME IInv, LockHeld',
         UNCHANGED <<stateFile, wire, at, rec>>,
         \A q \in Calls :
           \/ pc'[q] = pc[q]
           \/ pc'[q] \in {"idle", "prompt", "truncate", "write", "resume",
                          "locked", "unlock", "done", "dead"}
  PROVE  IInv'
<1>1. \A q \in Calls :
        /\ Executing(q)' => Executing(q) /\ pc'[q] = pc[q]
        /\ Writing(q)' => Writing(q) /\ pc'[q] = pc[q]
        /\ BeforeSend(q)' => BeforeSend(q)
  BY DEF Executing, Writing, BeforeSend
<1>2. OneWriter' /\ NotAwaiting' /\ NoWayBack' /\ ProbeSentAtMostOnce'
  BY <1>1 DEF IInv, OneWriter, NotAwaiting, NoWayBack, ProbeSentAtMostOnce
<1>3. NoLostUpdate' /\ SendsAtProbe'
  BY DEF IInv, NoLostUpdate, SendsAtProbe
<1>4. QED
  BY <1>2, <1>3 DEF IInv

\* A step of the one writer, which may save state.json, keeps the invariant if
\* its record agrees with what it saved and it is no closer to the transport.
LEMMA WriterStep ==
  ASSUME IInv, NEW p \in Calls, Writing(p), UNCHANGED wire, UNCHANGED lock,
         \A q \in Calls : q # p =>
           pc'[q] = pc[q] /\ rec'[q] = rec[q] /\ at'[q] = at[q],
         pc'[p] \notin {"locked", "take"},
         pc'[p] = "unlock" => lock = p,
         Executing(p)' => /\ rec'[p].state = stateFile'.state
                          /\ rec'[p].state # "AWAITING_APPROVAL",
         pc'[p] \in {"begin", "body", "offer", "final"} => rec'[p] = stateFile',
         pc'[p] \in {"send", "audit", "record"} => at'[p] = Probe,
         BeforeSend(p)' => BeforeSend(p),
         wire # <<>> => stateFile'.state # "AWAITING_APPROVAL"
  PROVE  IInv'
<1>1. \A q \in Calls : q # p => ~Writing(q) /\ ~Writing(q)'
  BY DEF IInv, OneWriter, Writing, Executing
<1>2. \A q \in Calls : q # p => ~Executing(q)'
  BY <1>1 DEF Writing
<1>3. \A q \in Calls : BeforeSend(q)' => BeforeSend(q)
  BY <1>1 DEF BeforeSend, Writing, Executing
<1>4. LockHeld' /\ SendsAtProbe'
  BY DEF IInv, LockHeld, SendsAtProbe
<1>5. OneWriter' /\ NotAwaiting'
  BY <1>1, <1>2 DEF OneWriter, NotAwaiting
<1>6. NoLostUpdate'
  <2> SUFFICES ASSUME NEW q \in Calls,
                      pc'[q] \in {"take", "begin", "body", "offer", "final"}
               PROVE  rec'[q] = stateFile'
    BY DEF NoLostUpdate
  <2>1. q = p
    BY <1>1 DEF Writing, Executing
  <2>2. QED
    BY <2>1
<1>7. NoWayBack' /\ ProbeSentAtMostOnce'
  BY <1>3 DEF IInv, NoWayBack, ProbeSentAtMostOnce
<1>8. QED
  BY <1>4, <1>5, <1>6, <1>7 DEF IInv

\* Saving what a step returned is such a step.
LEMMA SaveStepInv ==
  ASSUME IInv, TypeOK, NEW p \in Calls, NEW r, SaveStep(p, r),
         pc[p] \in {"body", "record"}, pc[p] = "record" => at[p] = Probe,
         r.state # "AWAITING_APPROVAL"
  PROVE  IInv'
<1>1. /\ at \in [Calls -> StepIndex] /\ rec \in [Calls -> RunRecords]
      /\ pc \in [Calls -> Labels]
  BY DEF TypeOK
<1>2. rec'[p] = r /\ stateFile' = r /\ pc'[p] \in {"begin", "final"}
  BY <1>1 DEF SaveStep, Goto
<1>3. BeforeSend(p)' => BeforeSend(p)
  <2>1. BeforeSend(p)' => at'[p] = at[p] + 1 /\ at'[p] <= Probe
    BY <1>1, <1>2 DEF BeforeSend, SaveStep, Goto
  <2>2. at[p] \in 1..9
    BY <1>1 DEF StepIndex
  <2>3. QED
    BY <2>1, <2>2 DEF BeforeSend, Probe
<1>4. \A q \in Calls : q # p =>
        pc'[q] = pc[q] /\ rec'[q] = rec[q] /\ at'[q] = at[q]
  BY <1>1 DEF SaveStep, Goto
<1>5. Writing(p) /\ wire' = wire /\ lock' = lock
  BY DEF Writing, Executing, SaveStep
<1>6. QED
  BY <1>2, <1>3, <1>4, <1>5, WriterStep

\* So is recording a failure.
LEMMA SaveFailureInv ==
  ASSUME IInv, TypeOK, NEW p \in Calls, NEW r \in RunRecords, SaveFailure(p, r),
         Writing(p)
  PROVE  IInv'
<1>1. /\ at \in [Calls -> StepIndex] /\ rec \in [Calls -> RunRecords]
      /\ pc \in [Calls -> Labels]
  BY DEF TypeOK
<1>2. Failed(r, at[p]).state = "FAILED"
  BY <1>1, FailedType
<1>3. rec'[p] = stateFile' /\ stateFile'.state = "FAILED" /\ pc'[p] \in {"done", "final"}
  BY <1>1, <1>2 DEF SaveFailure, Goto
<1>4. \A q \in Calls : q # p =>
        pc'[q] = pc[q] /\ rec'[q] = rec[q] /\ at'[q] = at[q]
  BY <1>1 DEF SaveFailure, Goto
<1>5. ~BeforeSend(p)'
  BY <1>3 DEF BeforeSend
<1>6. wire' = wire /\ lock' = lock
  BY DEF SaveFailure
<1>7. QED
  BY <1>3, <1>4, <1>5, <1>6, WriterStep

-----------------------------------------------------------------------------
(* The inductive step, one lemma per group of actions.                     *)

\* The state of a record that Kept merges a non-awaiting state into.
LEMMA KeptNotAwaiting ==
  ASSUME NEW r \in RunRecords, NEW st \in RunStates, st # "AWAITING_APPROVAL"
  PROVE  Kept(r, st) # "AWAITING_APPROVAL"
BY KeptType DEF Terminal

\* _execute in phase one: only OfferRun makes the run await approval, and its
\* call then stops writing.
LEMMA PhaseOneInv ==
  ASSUME IInv, TypeOK, NEW p \in Calls, BeginStep(p) \/ FailStep(p) \/ PhaseOneStep(p)
  PROVE  IInv'
<1>0. /\ at \in [Calls -> StepIndex] /\ rec \in [Calls -> RunRecords]
      /\ pc \in [Calls -> Labels] /\ rec[p] \in RunRecords /\ at[p] \in StepIndex
  BY DEF TypeOK
<1>1. Executing(p) => rec[p].state = stateFile.state /\ rec[p].state # "AWAITING_APPROVAL"
  BY DEF IInv, NotAwaiting
<1>2. \A s \in StepIndex, st \in Statuses :
        Mark(rec[p], s, st) \in RunRecords /\ Mark(rec[p], s, st).state = rec[p].state
  BY <1>0, MarkType
<1>3. CASE BeginStep(p)
  <2>0. rec[p] = stateFile
    BY <1>3 DEF BeginStep, IInv, NoLostUpdate
  <2>1. rec'[p] = stateFile' /\ rec'[p].state = rec[p].state /\ pc'[p] = "body"
    BY <1>0, <1>2, <1>3, <2>0 DEF BeginStep, Goto, Statuses
  <2>2. BeforeSend(p)' => BeforeSend(p)
    BY <1>3, <2>1 DEF BeginStep, BeforeSend
  <2>3. Executing(p) /\ Writing(p)
    BY <1>3 DEF BeginStep, Executing, Writing
  <2>4. \A q \in Calls : q # p =>
          pc'[q] = pc[q] /\ rec'[q] = rec[q] /\ at'[q] = at[q]
    BY <1>0, <1>3 DEF BeginStep, Goto
  <2>5. wire' = wire /\ lock' = lock
    BY <1>3 DEF BeginStep
  <2>6. QED
    BY <1>1, <2>1, <2>2, <2>3, <2>4, <2>5, WriterStep
<1>4. CASE FailStep(p)
  BY <1>0, <1>4, SaveFailureInv DEF FailStep, Writing, Executing
<1>5. ASSUME NEW s \in 1..3, NEW st \in {"SCANNING", "NORMALIZING", "ANALYZING"},
             IngestStep(p, s, st)
      PROVE  IInv'
  <2>1. st \in RunStates \ {"AWAITING_APPROVAL"}
    BY DEF RunStates
  <2>2. WithState(Mark(rec[p], s, "done"), Kept(rec[p], st)).state
          # "AWAITING_APPROVAL"
    <3>1. Mark(rec[p], s, "done") \in RunRecords
      BY <1>2 DEF Statuses, StepIndex
    <3>2. /\ Kept(rec[p], st) \in RunStates
          /\ Kept(rec[p], st) # "AWAITING_APPROVAL"
      BY <1>0, <2>1, KeptNotAwaiting, KeptType
    <3>3. QED
      BY <3>1, <3>2, WithStateType
  <2>3. QED
    BY <1>5, <2>2, SaveStepInv DEF IngestStep
<1>6. CASE ProposeStep(p) \/ SkipApproval(p)
  <2>1. PICK s \in StepIndex, st \in Statuses : SaveStep(p, Mark(rec[p], s, st))
    <3>1. 4 \in StepIndex /\ Approval \in StepIndex
          /\ "done" \in Statuses /\ "skipped" \in Statuses
      BY DEF StepIndex, Approval, Statuses
    <3>2. QED
      BY <1>6, <3>1 DEF ProposeStep, SkipApproval
  <2>2. pc[p] = "body" /\ Executing(p)
    BY <1>6 DEF ProposeStep, SkipApproval, Executing
  <2>3. QED
    BY <1>1, <1>2, <2>1, <2>2, SaveStepInv
<1>7. CASE WriteRequest(p)
  <2>1. /\ pc[p] = "body" /\ pc'[p] = "offer" /\ at[p] = Approval
        /\ stateFile' = stateFile /\ rec' = rec /\ at' = at
        /\ wire' = wire /\ lock' = lock
    BY <1>0, <1>7 DEF WriteRequest, Goto, memory
  <2>2. BeforeSend(p) /\ Executing(p) /\ Writing(p)
    BY <2>1 DEF BeforeSend, Approval, Probe, Executing, Writing
  <2>3. rec[p] = stateFile
    BY <2>1 DEF IInv, NoLostUpdate
  <2>4. \A q \in Calls : q # p =>
          pc'[q] = pc[q] /\ rec'[q] = rec[q] /\ at'[q] = at[q]
    BY <1>0, <1>7, <2>1 DEF WriteRequest, Goto
  <2>5. QED
    BY <1>1, <2>1, <2>2, <2>3, <2>4, WriterStep
<1>8. CASE OfferRun(p)
  <2>1. /\ pc[p] = "offer" /\ pc'[p] \in {"prompt", "done"} /\ at' = at
        /\ wire' = wire /\ lock' = lock
    BY <1>0, <1>8 DEF OfferRun, Goto
  <2>2. BeforeSend(p) /\ Writing(p)
    BY <2>1 DEF BeforeSend, Executing, Writing
  <2>3. wire = <<>>
    BY <2>2 DEF IInv, NoWayBack
  <2>4. \A q \in Calls : q # p =>
          pc'[q] = pc[q] /\ rec'[q] = rec[q] /\ at'[q] = at[q]
    BY <1>0, <1>8 DEF OfferRun, Goto
  <2>5. ~Executing(p)' /\ ~BeforeSend(p)'
    BY <2>1 DEF Executing, BeforeSend
  <2>6. QED
    BY <2>1, <2>2, <2>3, <2>4, <2>5, WriterStep
<1>9. QED
  BY <1>3, <1>4, <1>5, <1>6, <1>7, <1>8
  DEF PhaseOneStep, ScanStep, NormalizeStep, AnalyzeStep

\* Of all that happens around a decision, ClaimRun alone makes a new writer; it
\* finds the run awaiting approval under the lock, so nobody else is one.
LEMMA ResumeInv ==
  ASSUME IInv, TypeOK, NEW p \in Calls, ResumeStep(p) \/ OperatorActs(p)
  PROVE  IInv'
<1>0. /\ at \in [Calls -> StepIndex] /\ rec \in [Calls -> RunRecords]
      /\ pc \in [Calls -> Labels] /\ rec[p] \in RunRecords /\ at[p] \in StepIndex
      /\ NoOne \notin Calls
  BY ConstantsAssumption DEF TypeOK
<1>1. LockHeld
  BY DEF IInv
<1>2. CASE \/ \E a \in BOOLEAN : Decide(p, a)
           \/ TurnAway(p) \/ TruncateDecision(p) \/ WriteDecision(p)
  <2>1. /\ UNCHANGED <<stateFile, wire, at, rec, lock>>
        /\ \A q \in Calls : \/ pc'[q] = pc[q]
                            \/ pc'[q] \in {"truncate", "write", "resume", "done"}
    BY <1>0, <1>2 DEF Decide, TurnAway, TruncateDecision, WriteDecision, Goto, memory
  <2>2. LockHeld'
    BY <1>1, <2>1 DEF LockHeld
  <2>3. QED
    BY <2>1, <2>2, QuietStep
<1>3. CASE AcquireLock(p)
  <2>1. /\ UNCHANGED <<stateFile, wire, at, rec>>
        /\ \A q \in Calls : \/ pc'[q] = pc[q]
                            \/ pc'[q] \in {"locked", "done"}
    BY <1>0, <1>3 DEF AcquireLock, Goto, memory
  <2>2. LockHeld'
    <3>1. CASE lock = NoOne
      <4>1. \A q \in Calls : pc[q] \notin {"locked", "take", "unlock"}
        BY <1>0, <1>1, <3>1 DEF LockHeld
      <4>2. QED
        BY <1>0, <1>3, <3>1, <4>1 DEF AcquireLock, Goto, LockHeld
    <3>2. CASE lock # NoOne
      BY <1>0, <1>1, <1>3, <3>2 DEF AcquireLock, Goto, LockHeld
    <3>3. QED
      BY <3>1, <3>2
  <2>3. QED
    BY <2>1, <2>2, QuietStep
<1>4. CASE RefuseResume(p)
  <2>1. /\ UNCHANGED <<stateFile, wire, at, rec, lock>>
        /\ \A q \in Calls : pc'[q] = pc[q] \/ pc'[q] = "unlock"
    BY <1>0, <1>4 DEF RefuseResume, Goto, memory
  <2>2. LockHeld'
    BY <1>0, <1>1, <1>4 DEF RefuseResume, Goto, LockHeld
  <2>3. QED
    BY <2>1, <2>2, QuietStep
<1>5. CASE ClaimRun(p)
  <2>1. /\ pc[p] = "locked" /\ pc'[p] = "take" /\ rec'[p] = stateFile
        /\ stateFile.state = "AWAITING_APPROVAL"
        /\ UNCHANGED <<stateFile, wire, at, lock>>
        /\ \A q \in Calls : q # p => pc'[q] = pc[q] /\ rec'[q] = rec[q]
    BY <1>0, <1>5 DEF ClaimRun, MustRefuse, Goto
  <2>2. \A q \in Calls : ~Writing(q)
    <3> SUFFICES ASSUME NEW q \in Calls, Writing(q) PROVE FALSE
      OBVIOUS
    <3>1. CASE Executing(q)
      BY <2>1, <3>1 DEF IInv, NotAwaiting
    <3>2. CASE pc[q] = "take"
      BY <1>1, <2>1, <3>2 DEF LockHeld
    <3>3. QED
      BY <3>1, <3>2 DEF Writing
  <2>3. \A q \in Calls : q # p => ~Writing(q)'
    BY <2>1, <2>2 DEF Writing, Executing
  <2>4. \A q \in Calls : ~Executing(q)'
    BY <2>1, <2>3 DEF Writing, Executing
  <2>5. wire = <<>>
    BY <2>1 DEF IInv, NoWayBack
  <2>6. LockHeld'
    BY <1>1, <2>1 DEF LockHeld
  <2>7. OneWriter' /\ NotAwaiting'
    BY <2>3, <2>4 DEF OneWriter, NotAwaiting
  <2>8. NoLostUpdate'
    BY <2>1, <2>4 DEF NoLostUpdate, Executing, IInv
  <2>9. SendsAtProbe' /\ NoWayBack' /\ ProbeSentAtMostOnce'
    BY <2>1, <2>5 DEF IInv, SendsAtProbe, NoWayBack, ProbeSentAtMostOnce
  <2>10. QED
    BY <2>6, <2>7, <2>8, <2>9 DEF IInv
<1>6. CASE TakeRun(p)
  <2>1. /\ pc[p] = "take" /\ pc'[p] = "begin"
        /\ rec'[p] = stateFile' /\ stateFile'.state = "PROBING"
        /\ wire' = wire /\ lock' = lock
        /\ \A q \in Calls : q # p =>
             pc'[q] = pc[q] /\ rec'[q] = rec[q] /\ at'[q] = at[q]
    BY <1>0, <1>6, WithStateType DEF TakeRun, Goto, RunStates
  <2>2. Writing(p) /\ BeforeSend(p)
    BY <2>1 DEF Writing, BeforeSend
  <2>3. QED
    BY <2>1, <2>2, WriterStep
<1>7. QED
  BY <1>2, <1>3, <1>4, <1>5, <1>6
  DEF ResumeStep, OperatorActs, CliApprove, WebApprove, PromptOperator

\* step_probe: its one writer sends while nothing has been sent, and goes on to
\* places from which the transport is out of reach.
LEMMA ProbeInv ==
  ASSUME IInv, TypeOK, NEW p \in Calls, ProbeStep(p)
  PROVE  IInv'
<1> DEFINE settled == ApprovalSettled(rec[p], decisionFile)
<1>0. /\ at \in [Calls -> StepIndex] /\ rec \in [Calls -> RunRecords]
      /\ pc \in [Calls -> Labels] /\ rec[p] \in RunRecords /\ at[p] \in StepIndex
  BY DEF TypeOK
<1>1. Executing(p) => rec[p].state = stateFile.state /\ rec[p].state # "AWAITING_APPROVAL"
  BY DEF IInv, NotAwaiting
<1>2. settled \in RunRecords /\ settled.state = rec[p].state
  BY <1>0, SettledType
<1>3. \A r \in RunRecords, st \in {"done", "skipped"} :
        Mark(r, Probe, st) \in RunRecords /\ Mark(r, Probe, st).state = r.state
  BY MarkType DEF Statuses, StepIndex, Probe
<1>4. CASE ProbeBadDecision(p) \/ ProbeBroken(p)
  <2>1. PICK r \in RunRecords : SaveFailure(p, r)
    BY <1>0, <1>2, <1>4 DEF ProbeBadDecision, ProbeBroken
  <2>2. Writing(p)
    BY <1>4 DEF ProbeBadDecision, ProbeBroken, AtProbe, Writing, Executing
  <2>3. QED
    BY <2>1, <2>2, SaveFailureInv
<1>5. CASE ProbeNothing(p)
  <2>1. Mark(settled, Probe, "skipped").state = rec[p].state
    BY <1>2, <1>3
  <2>2. pc[p] = "body" /\ Executing(p) /\ SaveStep(p, Mark(settled, Probe, "skipped"))
    BY <1>5 DEF ProbeNothing, AtProbe, Executing
  <2>3. QED
    BY <1>1, <2>1, <2>2, SaveStepInv
<1>6. CASE ProbeDenied(p) \/ RecordProbe(p)
  <2>1. \A r \in RunRecords, st \in {"REJECTED", "PROBING"} :
          WithState(r, Kept(rec[p], st)).state # "AWAITING_APPROVAL"
    <3> TAKE r \in RunRecords, st \in {"REJECTED", "PROBING"}
    <3>1. st \in RunStates /\ st # "AWAITING_APPROVAL"
      BY DEF RunStates
    <3>2. Kept(rec[p], st) \in RunStates /\ Kept(rec[p], st) # "AWAITING_APPROVAL"
      BY <1>0, <3>1, KeptType, KeptNotAwaiting
    <3>3. QED
      BY <3>2, WithStateType
  <2>2. PICK r \in RunRecords, st \in {"REJECTED", "PROBING"} :
          SaveStep(p, WithState(r, Kept(rec[p], st)))
    BY <1>0, <1>2, <1>3, <1>6 DEF ProbeDenied, RecordProbe
  <2>3. pc[p] \in {"body", "record"}
    BY <1>6 DEF ProbeDenied, RecordProbe, AtProbe
  <2>4. pc[p] = "record" => at[p] = Probe
    BY DEF IInv, SendsAtProbe
  <2>5. QED
    BY <2>1, <2>2, <2>3, <2>4, SaveStepInv
<1>7. CASE ProbeAdmitted(p) \/ AuditProbe(p)
  <2>1. /\ stateFile' = stateFile /\ wire' = wire /\ lock' = lock
        /\ at' = at /\ at[p] = Probe
        /\ \/ pc[p] = "body" /\ pc'[p] = "send"
           \/ pc[p] = "audit" /\ pc'[p] = "record"
        /\ rec'[p].state = rec[p].state
        /\ \A q \in Calls : q # p => pc'[q] = pc[q] /\ rec'[q] = rec[q]
    BY <1>0, <1>2, <1>7
    DEF ProbeAdmitted, AuditProbe, AtProbe, Goto, memory, IInv, SendsAtProbe
  <2>2. Executing(p) /\ Writing(p) /\ (BeforeSend(p)' => BeforeSend(p))
    BY <2>1 DEF Executing, Writing, BeforeSend, Probe
  <2>3. wire # <<>> => stateFile.state # "AWAITING_APPROVAL"
    BY DEF IInv, NoWayBack
  <2>4. QED
    BY <1>1, <2>1, <2>2, <2>3, WriterStep
<1>8. CASE SendProbe(p)
  <2>1. /\ pc[p] = "send" /\ pc'[p] = "audit" /\ wire' = Append(wire, loaded[p])
        /\ UNCHANGED <<stateFile, lock, at, rec>>
        /\ \A q \in Calls : q # p => pc'[q] = pc[q]
    BY <1>0, <1>8 DEF SendProbe, Goto
  <2>2. Writing(p) /\ Executing(p) /\ BeforeSend(p)
    BY <2>1 DEF Writing, Executing, BeforeSend
  <2>3. wire = <<>>
    BY <2>2 DEF IInv, NoWayBack
  <2>4. Len(wire') = 1
    BY <2>1, <2>3
  <2>5. \A q \in Calls : q # p => ~Writing(q) /\ ~Writing(q)'
    BY <2>1, <2>2 DEF IInv, OneWriter, Writing, Executing
  <2>6. \A q \in Calls : ~BeforeSend(q)'
    BY <2>1, <2>5 DEF BeforeSend, Writing, Executing
  <2>7. LockHeld' /\ SendsAtProbe'
    BY <2>1 DEF IInv, LockHeld, SendsAtProbe
  <2>8. OneWriter' /\ NotAwaiting' /\ NoLostUpdate'
    <3>1. \A q \in Calls : q # p => ~Executing(q)'
      BY <2>5 DEF Writing
    <3>2. OneWriter' /\ NotAwaiting'
      BY <1>1, <2>1, <2>2, <2>5, <3>1 DEF OneWriter, NotAwaiting
    <3>3. NoLostUpdate'
      BY <2>1, <2>5 DEF NoLostUpdate, Writing, Executing
    <3>4. QED
      BY <3>2, <3>3
  <2>9. NoWayBack' /\ ProbeSentAtMostOnce'
    BY <1>1, <2>1, <2>2, <2>4, <2>6 DEF NoWayBack, ProbeSentAtMostOnce
  <2>10. QED
    BY <2>7, <2>8, <2>9 DEF IInv
<1>9. QED
  BY <1>4, <1>5, <1>6, <1>7, <1>8 DEF ProbeStep

\* The last three steps save, the last save saves what is saved already.
LEMMA WrapUpInv ==
  ASSUME IInv, TypeOK, NEW p \in Calls,
         ScrubStep(p) \/ ReportStep(p) \/ FinalizeStep(p) \/ FinalSave(p) \/ Unlock(p)
  PROVE  IInv'
<1>0. /\ at \in [Calls -> StepIndex] /\ rec \in [Calls -> RunRecords]
      /\ pc \in [Calls -> Labels] /\ rec[p] \in RunRecords
      /\ NoOne \notin Calls
  BY ConstantsAssumption DEF TypeOK
<1>1. Executing(p) => rec[p].state = stateFile.state /\ rec[p].state # "AWAITING_APPROVAL"
  BY DEF IInv, NotAwaiting
<1>2. CASE ScrubStep(p) \/ ReportStep(p) \/ FinalizeStep(p)
  <2>1. pc[p] = "body" /\ Executing(p)
    BY <1>2 DEF ScrubStep, ReportStep, FinalizeStep, Executing
  <2>2. \A s \in {Scrub, Report, Finalize}, m \in {"done", "skipped"} :
          /\ Mark(rec[p], s, m) \in RunRecords
          /\ Mark(rec[p], s, m).state # "AWAITING_APPROVAL"
    BY <1>0, <1>1, <2>1, MarkType DEF Scrub, Report, Finalize, StepIndex, Statuses
  <2>3. \A r \in RunRecords, st \in {"SCRUBBING", "REPORTING", "DONE"} :
          WithState(r, Kept(rec[p], st)).state # "AWAITING_APPROVAL"
    <3> TAKE r \in RunRecords, st \in {"SCRUBBING", "REPORTING", "DONE"}
    <3>1. st \in RunStates /\ st # "AWAITING_APPROVAL"
      BY DEF RunStates
    <3>2. Kept(rec[p], st) \in RunStates /\ Kept(rec[p], st) # "AWAITING_APPROVAL"
      BY <1>0, <3>1, KeptType, KeptNotAwaiting
    <3>3. QED
      BY <3>2, WithStateType
  <2>4. \E r : SaveStep(p, r) /\ r.state # "AWAITING_APPROVAL"
    BY <1>2, <2>2, <2>3 DEF ScrubStep, ReportStep, FinalizeStep
  <2>5. QED
    BY <2>1, <2>4, SaveStepInv
<1>3. CASE FinalSave(p)
  <2>1. /\ pc[p] = "final" /\ pc'[p] \in {"unlock", "done"}
        /\ pc'[p] = "unlock" => lock = p
        /\ stateFile' = rec[p] /\ UNCHANGED <<wire, lock, at, rec>>
        /\ \A q \in Calls : q # p => pc'[q] = pc[q]
    BY <1>0, <1>3 DEF FinalSave, Goto, memory
  <2>2. /\ Executing(p) /\ Writing(p) /\ ~Executing(p)' /\ ~BeforeSend(p)'
    BY <2>1 DEF Executing, Writing, BeforeSend
  <2>3. QED
    BY <1>1, <2>1, <2>2, WriterStep
<1>4. CASE Unlock(p)
  <2>1. /\ UNCHANGED <<stateFile, wire, at, rec>>
        /\ \A q \in Calls : pc'[q] = pc[q] \/ pc'[q] = "done"
    BY <1>0, <1>4 DEF Unlock, Goto, memory
  <2>2. LockHeld'
    BY <1>0, <1>4 DEF Unlock, Goto, IInv, LockHeld
  <2>3. QED
    BY <2>1, <2>2, QuietStep
<1>5. QED
  BY <1>2, <1>3, <1>4

\* A death takes the dead call's lock away and nothing else.
LEMMA EnvironmentInv ==
  ASSUME IInv, TypeOK, (\E P \in SUBSET Calls : Die(P)) \/ EditProposal
  PROVE  IInv'
<1>1. ASSUME NEW P \in SUBSET Calls, Die(P)
      PROVE  IInv'
  <2>1. /\ UNCHANGED <<stateFile, wire, at, rec>>
        /\ \A q \in Calls : pc'[q] = pc[q] \/ pc'[q] = "dead"
    BY <1>1 DEF Die, memory
  <2>2. LockHeld'
    <3> SUFFICES ASSUME NEW q \in Calls, pc'[q] \in {"locked", "take", "unlock"}
                 PROVE  lock' = q
      BY DEF LockHeld
    <3>1. pc[q] = pc'[q] /\ q \notin P
      BY <1>1 DEF Die, Live
    <3>2. lock = q
      BY <3>1 DEF IInv, LockHeld
    <3>3. QED
      BY <1>1, <3>1, <3>2 DEF Die
  <2>3. QED
    BY <2>1, <2>2, QuietStep
<1>2. CASE EditProposal
  <2>1. UNCHANGED <<stateFile, wire, at, rec, pc, lock>>
    BY <1>2 DEF EditProposal, memory
  <2>2. LockHeld'
    BY <2>1 DEF IInv, LockHeld
  <2>3. QED
    BY <2>1, <2>2, QuietStep
<1>3. QED
  BY <1>1, <1>2

\* IInv holds in every reachable state.
THEOREM Invariance == Spec => []IInv
<1>1. IInv /\ TypeOK /\ [Next]_vars => IInv'
  <2> SUFFICES ASSUME IInv, TypeOK, [Next]_vars
               PROVE  IInv'
    OBVIOUS
  <2>1. ASSUME NEW p \in Calls, RunCall(p) \/ OperatorActs(p)
        PROVE  IInv'
    BY <2>1, PhaseOneInv, ResumeInv, ProbeInv, WrapUpInv DEF RunCall
  <2>2. ASSUME NEW p \in Calls, CallDies(p)
        PROVE  IInv'
    BY <2>2, EnvironmentInv DEF CallDies
  <2>3. CASE WebDies
    <3>1. WebCalls \in SUBSET Calls
      BY DEF WebCalls, Calls
    <3>2. QED
      BY <2>3, <3>1, EnvironmentInv DEF WebDies
  <2>4. CASE EditProposal
    BY <2>4, EnvironmentInv
  <2>5. CASE UNCHANGED vars
    <3>1. UNCHANGED <<stateFile, wire, at, rec, pc, lock>>
      BY <2>5 DEF vars, memory
    <3>2. LockHeld'
      BY <3>1 DEF IInv, LockHeld
    <3>3. QED
      BY <3>1, <3>2, QuietStep
  <2>6. QED
    BY <2>1, <2>2, <2>3, <2>4, <2>5 DEF Next
<1>2. QED
  BY <1>1, InitInv, TypeCorrect, PTL DEF Spec

\* However many calls resume a run, and whichever of them die, at most one
\* request leaves (resume_run under the flock, and the two marks it leaves).
THEOREM ProbeOnce == Spec => []ProbeSentAtMostOnce
<1>1. IInv => ProbeSentAtMostOnce
  BY DEF IInv
<1>2. QED
  BY <1>1, Invariance, PTL

\* No call ever saves a record that misses an update another call saved.
THEOREM UpdatesKept == Spec => []NoLostUpdate
<1>1. IInv => NoLostUpdate
  BY DEF IInv
<1>2. QED
  BY <1>1, Invariance, PTL

-----------------------------------------------------------------------------
(* Which states a record can be in where its call is.                      *)

Preparing == {"IDLE", "SCANNING", "NORMALIZING", "ANALYZING"}

\* The states in which _execute may begin step i.
StatesAt(i) ==
  IF i <= Approval THEN Preparing
  ELSE IF i = Probe THEN Preparing \cup {"PROBING"}
  ELSE IF i = Scrub THEN Preparing \cup {"PROBING", "REJECTED"}
  ELSE IF i = Report THEN Preparing \cup {"PROBING", "SCRUBBING", "REJECTED"}
  ELSE {"REPORTING", "REJECTED"}

\* A record without a claim gets to step_probe only if there is no probe.
Fits(p) ==
  /\ pc[p] = "take" => rec[p].state = "AWAITING_APPROVAL"
  /\ pc[p] = "offer" => at[p] = Approval /\ rec[p].state \in Preparing
  /\ pc[p] \in {"send", "audit", "record"} => rec[p].state = "PROBING"
  /\ pc[p] = "final" => rec[p].state \in Terminal
  /\ pc[p] \in {"begin", "body"} =>
       /\ rec[p].state \in StatesAt(at[p])
       /\ at[p] = Probe /\ rec[p].state \in Preparing => ~proposal.accepted

GateInv == \A p \in Calls : Fits(p)

\* Where a saved state is not terminal but for a rejection.
Ongoing == Preparing \cup {"PROBING", "SCRUBBING", "REPORTING", "REJECTED"}

\* One move of the gate, or none; and no move away from a terminal state.
GateStep == [Gate!Next]_(Gate!gateVars)

FinalStep ==
  stateFile' # stateFile =>
    /\ stateFile.state \notin {"DONE", "FAILED"}
    /\ stateFile.state = "REJECTED" => stateFile'.state \in {"REJECTED", "FAILED"}

-----------------------------------------------------------------------------
(* Lemmas.                                                                 *)

\* The phase of every state.
LEMMA PhaseValues ==
  /\ \A st \in Preparing : PhaseOf(st) = "preparing"
  /\ PhaseOf("AWAITING_APPROVAL") = "awaiting"
  /\ PhaseOf("PROBING") = "probing"
  /\ PhaseOf("SCRUBBING") = "closing" /\ PhaseOf("REPORTING") = "closing"
  /\ PhaseOf("DONE") = "done"
  /\ PhaseOf("REJECTED") = "rejected"
  /\ PhaseOf("FAILED") = "failed"
BY DEF PhaseOf, Preparing

\* A step that saves no other state and sends nothing is a stutter of the gate.
LEMMA GateStutter ==
  ASSUME stateFile'.state = stateFile.state, UNCHANGED wire
  PROVE  GateStep
BY DEF GateStep, Gate!gateVars

\* An ongoing run may fail.
LEMMA GateFails ==
  ASSUME stateFile.state \in Ongoing, stateFile'.state = "FAILED", UNCHANGED wire
  PROVE  GateStep /\ FinalStep
<1>1. PhaseOf(stateFile.state) \in {"preparing", "probing", "closing", "rejected"}
  BY PhaseValues DEF Ongoing
<1>2. Gate!Fail
  BY <1>1, PhaseValues DEF Gate!Fail
<1>3. FinalStep
  BY DEF FinalStep, Ongoing, Preparing
<1>4. QED
  BY <1>2, <1>3 DEF GateStep, Gate!Next

\* Only the writer's place has to be looked at after a step of the writer.
LEMMA WriterFits ==
  ASSUME IInv, NEW p \in Calls, Writing(p), Fits(p)',
         \A q \in Calls : q # p => pc'[q] = pc[q]
  PROVE  GateInv'
<1> SUFFICES ASSUME NEW q \in Calls, q # p PROVE Fits(q)'
  BY DEF GateInv
<1>1. ~Writing(q)
  BY DEF IInv, OneWriter
<1>2. pc'[q] \notin {"take", "offer", "send", "audit", "record", "final", "begin", "body"}
  BY <1>1 DEF Writing, Executing
<1>3. QED
  BY <1>2 DEF Fits

\* A step that makes nobody a writer and touches no record keeps all places,
\* stutters at the gate and leaves a terminal state alone.
LEMMA QuietFits ==
  ASSUME GateInv, UNCHANGED <<stateFile, wire, at, rec>>,
         proposal'.accepted = proposal.accepted,
         \A q \in Calls :
           \/ pc'[q] = pc[q]
           \/ pc'[q] \in {"idle", "prompt", "truncate", "write", "resume",
                          "locked", "unlock", "done", "dead"}
  PROVE  GateInv' /\ GateStep /\ FinalStep
<1>1. ASSUME NEW q \in Calls PROVE Fits(q)'
  BY DEF GateInv, Fits
<1>2. QED
  BY <1>1, GateStutter DEF GateInv, FinalStep

\* The writer's record on disk, and the state it is in.
LEMMA WriterRecord ==
  ASSUME IInv, TypeOK, GateInv, NEW p \in Calls, Writing(p)
  PROVE  /\ pc[p] \in {"take", "begin", "body", "offer", "final"} => rec[p] = stateFile
         /\ Executing(p) => rec[p].state = stateFile.state
         /\ rec[p] \in RunRecords /\ rec[p].state \in RunStates /\ at[p] \in 1..9
         /\ Fits(p)
BY DEF IInv, NoLostUpdate, NotAwaiting, TypeOK, RunRecords, StepIndex, GateInv

\* Saving a step's record, if the record fits the step that comes next.
LEMMA SaveStepFits ==
  ASSUME IInv, TypeOK, NEW p \in Calls, NEW r, SaveStep(p, r), Writing(p),
         at[p] # Finalize => r.state \in StatesAt(at[p] + 1),
         at[p] = Finalize => r.state \in Terminal,
         at[p] + 1 = Probe /\ r.state \in Preparing => ~proposal'.accepted
  PROVE  GateInv'
<1>1. /\ at \in [Calls -> StepIndex] /\ rec \in [Calls -> RunRecords]
      /\ pc \in [Calls -> Labels]
  BY DEF TypeOK
<1>2. \A q \in Calls : q # p => pc'[q] = pc[q]
  BY <1>1 DEF SaveStep, Goto
<1>3. rec'[p] = r
  BY <1>1 DEF SaveStep
<1>4. CASE at[p] = Finalize
  <2>1. pc'[p] = "final"
    BY <1>1, <1>4 DEF SaveStep, Goto
  <2>2. Fits(p)'
    BY <1>3, <1>4, <2>1 DEF Fits
  <2>3. QED
    BY <1>2, <2>2, WriterFits
<1>5. CASE at[p] # Finalize
  <2>1. pc'[p] = "begin" /\ at'[p] = at[p] + 1
    BY <1>1, <1>5 DEF SaveStep, Goto
  <2>2. rec'[p].state \in StatesAt(at'[p])
    BY <1>3, <1>5, <2>1
  <2>3. Fits(p)'
    BY <1>3, <2>1, <2>2 DEF Fits, StatesAt
  <2>4. QED
    BY <1>2, <2>3, WriterFits
<1>6. QED
  BY <1>4, <1>5

\* Recording a failure ends the call's steps and fails an ongoing run.
LEMMA SaveFailureFits ==
  ASSUME IInv, TypeOK, GateInv, NEW p \in Calls, NEW r \in RunRecords,
         SaveFailure(p, r), pc[p] \in {"body", "offer", "audit", "record"}
  PROVE  GateInv' /\ GateStep /\ FinalStep
<1>1. /\ at \in [Calls -> StepIndex] /\ rec \in [Calls -> RunRecords]
      /\ pc \in [Calls -> Labels] /\ Writing(p) /\ Executing(p)
  BY DEF TypeOK, Writing, Executing
<1>2. Failed(r, at[p]).state = "FAILED"
  BY <1>1, FailedType
<1>3. /\ rec'[p] = stateFile' /\ stateFile'.state = "FAILED"
      /\ pc'[p] \in {"done", "final"} /\ wire' = wire
      /\ \A q \in Calls : q # p => pc'[q] = pc[q]
  BY <1>1, <1>2 DEF SaveFailure, Goto
<1>4. Fits(p)'
  BY <1>3 DEF Fits, Terminal
<1>5. stateFile.state \in Ongoing
  BY <1>1, WriterRecord DEF Fits, StatesAt, Ongoing, Preparing
<1>6. QED
  BY <1>1, <1>3, <1>4, <1>5, WriterFits, GateFails
-----------------------------------------------------------------------------
(* The steps.                                                              *)

\* A fresh run is being prepared, at step 1.
LEMMA InitGate == Init => GateInv /\ Gate!Init
<1> SUFFICES ASSUME Init PROVE GateInv /\ Gate!Init
  OBVIOUS
<1>1. \A p \in Calls : /\ pc[p] = IF p = Starter THEN "begin" ELSE "idle"
                       /\ at[p] = 1 /\ rec[p].state = "IDLE"
  BY DEF Init, InitialRecord
<1>2. GateInv
  BY <1>1 DEF GateInv, Fits, StatesAt, Preparing, Approval, Probe
<1>3. stateFile.state \in Preparing /\ Len(wire) = 0
  BY DEF Init, InitialRecord, Preparing
<1>4. QED
  BY <1>2, <1>3, PhaseValues DEF Gate!Init

\* The state that Kept merges: a rejection or the step's own.
LEMMA KeptOngoing ==
  ASSUME NEW r, NEW st, r.state \in Ongoing
  PROVE  Kept(r, st) = IF r.state = "REJECTED" THEN "REJECTED" ELSE st
BY DEF Kept, Terminal, Ongoing, Preparing

\* _execute in phase one prepares the run and then offers it.
LEMMA PhaseOneGate ==
  ASSUME IInv, TypeOK, GateInv, NEW p \in Calls,
         BeginStep(p) \/ FailStep(p) \/ PhaseOneStep(p)
  PROVE  GateInv' /\ GateStep /\ FinalStep
<1>0. /\ at \in [Calls -> StepIndex] /\ rec \in [Calls -> RunRecords]
      /\ pc \in [Calls -> Labels] /\ rec[p] \in RunRecords /\ at[p] \in StepIndex
  BY DEF TypeOK
<1>1. \A s \in StepIndex, st \in Statuses :
        Mark(rec[p], s, st) \in RunRecords /\ Mark(rec[p], s, st).state = rec[p].state
  BY <1>0, MarkType
<1>2. Preparing \subseteq Ongoing
  BY DEF Ongoing
<1>3. CASE BeginStep(p)
  <2>1. pc[p] = "begin" /\ Writing(p)
    BY <1>3 DEF BeginStep, Writing, Executing
  <2>2. rec[p] = stateFile /\ Fits(p)
    BY <2>1, WriterRecord
  <2>3. /\ rec'[p].state = rec[p].state /\ stateFile'.state = stateFile.state
        /\ stateFile' # stateFile => stateFile' = Mark(rec[p], at[p], "running")
        /\ pc'[p] = "body" /\ at' = at /\ wire' = wire
        /\ proposal' = proposal
        /\ \A q \in Calls : q # p => pc'[q] = pc[q]
    BY <1>0, <1>1, <1>3, <2>2 DEF BeginStep, Goto, Statuses, files
  <2>4. Fits(p)'
    BY <2>1, <2>2, <2>3 DEF Fits
  <2>5. stateFile.state \in Ongoing
    BY <1>0, <2>1, <2>2 DEF Fits, StatesAt, Ongoing, Preparing
  <2>6. FinalStep
    BY <2>3, <2>5 DEF FinalStep, Ongoing, Preparing
  <2>7. QED
    BY <2>1, <2>3, <2>4, <2>6, WriterFits, GateStutter
<1>4. CASE FailStep(p)
  BY <1>0, <1>4, SaveFailureFits DEF FailStep
<1>5. ASSUME NEW s \in 1..3, NEW st \in {"SCANNING", "NORMALIZING", "ANALYZING"},
             IngestStep(p, s, st)
      PROVE  GateInv' /\ GateStep /\ FinalStep
  <2> DEFINE r == WithState(Mark(rec[p], s, "done"), Kept(rec[p], st))
  <2>1. pc[p] = "body" /\ at[p] = s /\ SaveStep(p, r) /\ Writing(p) /\ Executing(p)
    BY <1>5 DEF IngestStep, Writing, Executing
  <2>2. rec[p].state = stateFile.state /\ rec[p].state \in Preparing
    BY <2>1, WriterRecord DEF Fits, StatesAt, Approval
  <2>3. Kept(rec[p], st) = st /\ st \in RunStates /\ st \in Preparing
    BY <1>2, <2>2, KeptOngoing DEF Preparing, RunStates
  <2>4. r.state \in Preparing
    BY <1>1, <2>3, WithStateType DEF StepIndex, Statuses
  <2>5. GateInv'
    <3> HIDE DEF r
    <3>1. s + 1 <= Approval /\ s # Finalize /\ s + 1 # Probe
      BY DEF Approval, Finalize, Probe
    <3>2. QED
      BY <2>1, <2>4, <3>1, SaveStepFits DEF StatesAt
  <2>6. stateFile'.state \in Preparing /\ wire' = wire
    BY <2>1, <2>4 DEF SaveStep
  <2>7. GateStep
    BY <2>2, <2>6, PhaseValues DEF GateStep, Gate!gateVars
  <2>8. FinalStep
    BY <2>2 DEF FinalStep, Preparing
  <2>9. QED
    BY <2>5, <2>7, <2>8
<1>6. CASE ProposeStep(p) \/ SkipApproval(p)
  <2>0. 4 \in StepIndex /\ Approval \in StepIndex
        /\ "done" \in Statuses /\ "skipped" \in Statuses
    BY DEF StepIndex, Approval, Statuses
  <2>1. PICK r : /\ SaveStep(p, r) /\ r.state = rec[p].state
                 /\ at[p] \in 4..5
                 /\ at[p] = 5 => ~proposal'.accepted
    BY <1>1, <1>6, <2>0 DEF ProposeStep, SkipApproval, files, Approval
  <2>2. pc[p] = "body" /\ Executing(p) /\ Writing(p)
    BY <1>6 DEF ProposeStep, SkipApproval, Writing, Executing
  <2>3. rec[p].state = stateFile.state /\ rec[p].state \in Preparing
    BY <2>1, <2>2, WriterRecord DEF Fits, StatesAt, Approval
  <2>4. GateInv'
    <3>1. at[p] + 1 = Probe => at[p] = 5
      BY <2>1 DEF Probe
    <3>2. r.state \in StatesAt(at[p] + 1) /\ at[p] # Finalize
      BY <2>1, <2>3 DEF StatesAt, Approval, Probe, Finalize
    <3>3. QED
      BY <2>1, <2>2, <3>1, <3>2, SaveStepFits
  <2>5. stateFile'.state = stateFile.state /\ wire' = wire
    BY <2>1, <2>3 DEF SaveStep
  <2>6. FinalStep
    BY <2>3 DEF FinalStep, Preparing
  <2>7. QED
    BY <2>4, <2>5, <2>6, GateStutter
<1>7. CASE WriteRequest(p)
  <2>1. /\ pc[p] = "body" /\ pc'[p] = "offer" /\ at[p] = Approval
        /\ UNCHANGED <<stateFile, rec, at, wire>>
        /\ \A q \in Calls : q # p => pc'[q] = pc[q]
    BY <1>0, <1>7 DEF WriteRequest, Goto, memory
  <2>2. Writing(p)
    BY <2>1 DEF Writing, Executing
  <2>3. rec[p].state \in Preparing
    BY <2>1, <2>2, WriterRecord DEF Fits, StatesAt
  <2>4. Fits(p)'
    BY <2>1, <2>3 DEF Fits
  <2>5. QED
    BY <2>1, <2>2, <2>4, WriterFits, GateStutter DEF FinalStep
<1>8. CASE OfferRun(p)
  <2>1. pc[p] = "offer" /\ Writing(p) /\ Executing(p)
    BY <1>8 DEF OfferRun, Writing, Executing
  <2>2. rec[p].state = stateFile.state /\ rec[p].state \in Preparing
    BY <2>1, WriterRecord DEF Fits
  <2>3. Kept(rec[p], "AWAITING_APPROVAL") = "AWAITING_APPROVAL"
    BY <1>2, <2>2, KeptOngoing DEF Preparing
  <2>4. stateFile'.state = "AWAITING_APPROVAL"
    BY <1>1, <1>8, <2>3, WithStateType
    DEF OfferRun, Approval, StepIndex, Statuses, RunStates
  <2>5. /\ pc'[p] \in {"prompt", "done"} /\ wire' = wire
        /\ \A q \in Calls : q # p => pc'[q] = pc[q]
    BY <1>0, <1>8 DEF OfferRun, Goto
  <2>6. Fits(p)'
    BY <2>5 DEF Fits
  <2>7. Gate!Offer
    BY <2>2, <2>4, <2>5, PhaseValues DEF Gate!Offer
  <2>8. FinalStep
    BY <2>2 DEF FinalStep, Preparing
  <2>9. QED
    BY <2>1, <2>5, <2>6, <2>7, <2>8, WriterFits DEF GateStep, Gate!Next
<1>9. QED
  BY <1>3, <1>4, <1>5, <1>6, <1>7, <1>8
  DEF PhaseOneStep, ScanStep, NormalizeStep, AnalyzeStep

\* Decisions and the lock leave the gate alone; TakeRun is its claim.
LEMMA ResumeGate ==
  ASSUME IInv, TypeOK, GateInv, NEW p \in Calls, ResumeStep(p) \/ OperatorActs(p)
  PROVE  GateInv' /\ GateStep /\ FinalStep
<1>0. /\ at \in [Calls -> StepIndex] /\ rec \in [Calls -> RunRecords]
      /\ pc \in [Calls -> Labels] /\ rec[p] \in RunRecords
  BY DEF TypeOK
<1>1. CASE \/ \E a \in BOOLEAN : Decide(p, a)
           \/ TurnAway(p) \/ TruncateDecision(p) \/ WriteDecision(p)
           \/ AcquireLock(p) \/ RefuseResume(p)
  <2>1. /\ UNCHANGED <<stateFile, wire, at, rec, proposal>>
        /\ \A q \in Calls :
             \/ pc'[q] = pc[q]
             \/ pc'[q] \in {"truncate", "write", "resume", "locked", "unlock", "done"}
    BY <1>0, <1>1
    DEF Decide, TurnAway, TruncateDecision, WriteDecision, AcquireLock,
        RefuseResume, Goto, memory, files
  <2>2. QED
    BY <2>1, QuietFits
<1>2. CASE ClaimRun(p)
  <2>1. /\ pc[p] = "locked" /\ pc'[p] = "take" /\ rec'[p] = stateFile
        /\ stateFile.state = "AWAITING_APPROVAL"
        /\ UNCHANGED <<stateFile, wire, at, proposal>>
        /\ \A q \in Calls : q # p => pc'[q] = pc[q] /\ rec'[q] = rec[q]
    BY <1>0, <1>2 DEF ClaimRun, MustRefuse, Goto
  <2>2. Fits(p)'
    BY <2>1 DEF Fits
  <2>3. \A q \in Calls : q # p => Fits(q)'
    BY <2>1 DEF GateInv, Fits
  <2>4. QED
    BY <2>1, <2>2, <2>3, GateStutter DEF GateInv, FinalStep
<1>3. CASE TakeRun(p)
  <2>1. /\ pc[p] = "take" /\ pc'[p] = "begin" /\ at'[p] = Probe
        /\ rec'[p].state = "PROBING" /\ stateFile'.state = "PROBING"
        /\ wire' = wire
        /\ \A q \in Calls : q # p => pc'[q] = pc[q]
    BY <1>0, <1>3, WithStateType DEF TakeRun, Goto, RunStates
  <2>2. Writing(p)
    BY <2>1 DEF Writing
  <2>3. stateFile.state = "AWAITING_APPROVAL"
    BY <2>1, <2>2, WriterRecord DEF Fits
  <2>4. Fits(p)'
    BY <2>1 DEF Fits, StatesAt, Approval, Probe, Preparing
  <2>5. Gate!Claim
    BY <2>1, <2>3, PhaseValues DEF Gate!Claim
  <2>6. QED
    BY <2>1, <2>2, <2>3, <2>4, <2>5, WriterFits DEF GateStep, Gate!Next, FinalStep
<1>4. QED
  BY <1>1, <1>2, <1>3
  DEF ResumeStep, OperatorActs, CliApprove, WebApprove, PromptOperator

\* step_probe sends once, or rejects while nothing has been sent.
LEMMA ProbeGateStep ==
  ASSUME IInv, TypeOK, GateInv, NEW p \in Calls, ProbeStep(p)
  PROVE  GateInv' /\ GateStep /\ FinalStep
<1> DEFINE settled == ApprovalSettled(rec[p], decisionFile)
<1>0. /\ at \in [Calls -> StepIndex] /\ rec \in [Calls -> RunRecords]
      /\ pc \in [Calls -> Labels] /\ rec[p] \in RunRecords
  BY DEF TypeOK
<1>1. settled \in RunRecords /\ settled.state = rec[p].state
  BY <1>0, SettledType
<1>2. \A r \in RunRecords, st \in {"done", "skipped"} :
        Mark(r, Probe, st) \in RunRecords /\ Mark(r, Probe, st).state = r.state
  BY MarkType DEF Statuses, StepIndex, Probe
<1>3. AtProbe(p) =>
        /\ Executing(p) /\ Writing(p) /\ at[p] = Probe
        /\ rec[p].state = stateFile.state
        /\ rec[p].state \in Preparing \cup {"PROBING"}
        /\ rec[p].state \in Preparing => ~proposal.accepted
        /\ wire = <<>>
  <2> SUFFICES ASSUME AtProbe(p)
               PROVE  /\ Executing(p) /\ Writing(p) /\ at[p] = Probe
                      /\ rec[p].state = stateFile.state
                      /\ rec[p].state \in Preparing \cup {"PROBING"}
                      /\ rec[p].state \in Preparing => ~proposal.accepted
                      /\ wire = <<>>
    OBVIOUS
  <2>1. Executing(p) /\ Writing(p) /\ BeforeSend(p)
    BY DEF AtProbe, Executing, Writing, BeforeSend, Probe
  <2>2. wire = <<>>
    BY <2>1 DEF IInv, NoWayBack
  <2>3. QED
    BY <2>1, <2>2, WriterRecord DEF AtProbe, Fits, StatesAt, Approval, Probe
<1>4. CASE ProbeBadDecision(p) \/ ProbeBroken(p)
  BY <1>0, <1>1, <1>4, SaveFailureFits DEF ProbeBadDecision, ProbeBroken, AtProbe
<1>5. CASE ProbeNothing(p)
  <2> DEFINE r == Mark(settled, Probe, "skipped")
  <2>1. r.state = rec[p].state /\ SaveStep(p, r) /\ AtProbe(p)
    BY <1>1, <1>2, <1>5 DEF ProbeNothing
  <2> HIDE DEF r
  <2>2. GateInv'
    BY <1>3, <2>1, SaveStepFits DEF StatesAt, Approval, Probe, Scrub, Finalize
  <2>3. stateFile'.state = stateFile.state /\ wire' = wire
    BY <1>3, <2>1 DEF SaveStep
  <2>4. FinalStep
    BY <1>3, <2>1 DEF FinalStep, Preparing
  <2>5. QED
    BY <2>2, <2>3, <2>4, GateStutter
<1>6. CASE ProbeDenied(p)
  <2>1. PICK st \in {"REJECTED", "PROBING"} :
          /\ SaveStep(p, WithState(Mark(settled, Probe, "skipped"), Kept(rec[p], st)))
          /\ AtProbe(p) /\ proposal.accepted
    BY <1>6 DEF ProbeDenied
  <2> DEFINE r == WithState(Mark(settled, Probe, "skipped"), Kept(rec[p], st))
  <2>2. rec[p].state = "PROBING" /\ stateFile.state = "PROBING"
    BY <1>3, <2>1
  <2>3. Kept(rec[p], st) = st
    BY <2>2 DEF Kept, Terminal
  <2>4. r.state = st
    BY <1>1, <1>2, <2>3, WithStateType DEF RunStates
  <2>5. SaveStep(p, r)
    BY <2>1
  <2> HIDE DEF r
  <2>6. GateInv'
    BY <1>3, <2>1, <2>4, <2>5, SaveStepFits DEF StatesAt, Approval, Probe, Scrub, Finalize
  <2>7. stateFile'.state = st /\ wire' = wire
    BY <2>4, <2>5 DEF SaveStep
  <2>8. GateStep
    <3>1. CASE st = "PROBING"
      BY <2>2, <2>7, <3>1, GateStutter
    <3>2. CASE st = "REJECTED"
      <4>1. Gate!Reject
        BY <1>3, <2>1, <2>2, <2>7, <3>2, PhaseValues DEF Gate!Reject
      <4>2. QED
        BY <4>1 DEF GateStep, Gate!Next
    <3>3. QED
      BY <3>1, <3>2
  <2>9. FinalStep
    BY <2>2 DEF FinalStep
  <2>10. QED
    BY <2>6, <2>8, <2>9
<1>7. CASE ProbeAdmitted(p) \/ AuditProbe(p)
  <2>1. /\ UNCHANGED <<stateFile, wire, at>>
        /\ \/ AtProbe(p) /\ proposal.accepted /\ pc'[p] = "send"
           \/ pc[p] = "audit" /\ pc'[p] = "record"
        /\ rec'[p].state = rec[p].state
        /\ \A q \in Calls : q # p => pc'[q] = pc[q]
    BY <1>0, <1>1, <1>7 DEF ProbeAdmitted, AuditProbe, Goto, memory
  <2>2. Writing(p)
    BY <1>3, <2>1 DEF Writing, Executing
  <2>3. rec[p].state = "PROBING"
    BY <1>3, <2>1, <2>2, WriterRecord DEF Fits
  <2>4. Fits(p)'
    BY <2>1, <2>3 DEF Fits
  <2>5. QED
    BY <2>1, <2>2, <2>4, WriterFits, GateStutter DEF FinalStep
<1>8. CASE SendProbe(p)
  <2>1. /\ pc[p] = "send" /\ pc'[p] = "audit" /\ wire' = Append(wire, loaded[p])
        /\ UNCHANGED <<stateFile, at, rec>>
        /\ \A q \in Calls : q # p => pc'[q] = pc[q]
    BY <1>0, <1>8 DEF SendProbe, Goto
  <2>2. Writing(p) /\ Executing(p) /\ BeforeSend(p)
    BY <2>1 DEF Writing, Executing, BeforeSend
  <2>3. wire = <<>> /\ Len(wire) = 0 /\ Len(wire') = 1
    BY <2>1, <2>2 DEF IInv, NoWayBack
  <2>4. rec[p].state = "PROBING" /\ stateFile.state = "PROBING"
    BY <2>1, <2>2, WriterRecord DEF Fits
  <2>5. Fits(p)'
    BY <2>1, <2>4 DEF Fits
  <2>6. Gate!Send
    BY <2>1, <2>3, <2>4, PhaseValues DEF Gate!Send
  <2>7. QED
    BY <2>1, <2>2, <2>5, <2>6, WriterFits DEF GateStep, Gate!Next, FinalStep
<1>9. CASE RecordProbe(p)
  <2> DEFINE r == WithState(Mark(rec[p], Probe, "done"), Kept(rec[p], "PROBING"))
  <2>1. pc[p] = "record" /\ SaveStep(p, r) /\ Writing(p) /\ Executing(p)
    BY <1>9 DEF RecordProbe, Writing, Executing
  <2>2. at[p] = Probe /\ rec[p].state = "PROBING" /\ stateFile.state = "PROBING"
    BY <2>1, WriterRecord DEF IInv, SendsAtProbe, Fits
  <2>3. r.state = "PROBING"
    BY <1>0, <1>2, <2>2, WithStateType DEF Kept, Terminal, RunStates
  <2> HIDE DEF r
  <2>4. GateInv'
    BY <2>1, <2>2, <2>3, SaveStepFits DEF StatesAt, Approval, Probe, Scrub, Finalize
  <2>5. stateFile'.state = stateFile.state /\ wire' = wire
    BY <2>1, <2>2, <2>3 DEF SaveStep
  <2>6. QED
    BY <2>2, <2>4, <2>5, GateStutter DEF FinalStep
<1>10. QED
  BY <1>4, <1>5, <1>6, <1>7, <1>8, <1>9 DEF ProbeStep

\* Scrub and report close the gate, finalize finishes; a rejection stays one.
LEMMA WrapUpGate ==
  ASSUME IInv, TypeOK, GateInv, NEW p \in Calls,
         ScrubStep(p) \/ ReportStep(p) \/ FinalizeStep(p) \/ FinalSave(p) \/ Unlock(p)
  PROVE  GateInv' /\ GateStep /\ FinalStep
<1>0. /\ at \in [Calls -> StepIndex] /\ rec \in [Calls -> RunRecords]
      /\ pc \in [Calls -> Labels] /\ rec[p] \in RunRecords
  BY DEF TypeOK
<1>1. \A s \in {Scrub, Report, Finalize}, m \in {"done", "skipped"} :
        Mark(rec[p], s, m) \in RunRecords /\ Mark(rec[p], s, m).state = rec[p].state
  BY <1>0, MarkType DEF Scrub, Report, Finalize, StepIndex, Statuses
<1>2. pc[p] = "body" => /\ Writing(p) /\ Executing(p) /\ rec[p].state = stateFile.state
                        /\ rec[p].state \in StatesAt(at[p])
  BY WriterRecord DEF Writing, Executing, Fits
<1>3. \A r \in RunRecords, st \in {"SCRUBBING", "REPORTING", "DONE"} :
        rec[p].state \in Ongoing =>
          WithState(r, Kept(rec[p], st)).state =
            IF rec[p].state = "REJECTED" THEN "REJECTED" ELSE st
  BY KeptOngoing, WithStateType DEF RunStates
<1>4. CASE ScrubStep(p)
  <2>1. pc[p] = "body" /\ at[p] = Scrub
    BY <1>4 DEF ScrubStep
  <2>2. rec[p].state \in Preparing \cup {"PROBING", "REJECTED"}
    BY <1>2, <2>1 DEF StatesAt, Scrub, Approval, Probe
  <2>3. rec[p].state \in Ongoing
    BY <2>2 DEF Ongoing
  <2>4. PICK r : /\ SaveStep(p, r)
                 /\ \/ r.state = rec[p].state
                    \/ r.state = "SCRUBBING" /\ rec[p].state # "REJECTED"
    <3>1. CASE probeResult = "sent"
      BY <1>1, <1>3, <1>4, <2>3, <3>1 DEF ScrubStep
    <3>2. CASE probeResult # "sent"
      BY <1>1, <1>4, <3>2 DEF ScrubStep
    <3>3. QED
      BY <3>1, <3>2
  <2>5. GateInv'
    BY <1>2, <2>1, <2>2, <2>4, SaveStepFits
    DEF StatesAt, Approval, Probe, Scrub, Report, Finalize
  <2>6. stateFile' = r /\ wire' = wire
    BY <2>4 DEF SaveStep
  <2>7. GateStep
    <3>1. CASE r.state = rec[p].state
      BY <1>2, <2>1, <2>6, <3>1, GateStutter
    <3>2. CASE r.state = "SCRUBBING" /\ rec[p].state # "REJECTED"
      <4>1. Gate!Close
        BY <1>2, <2>1, <2>2, <2>6, <3>2, PhaseValues DEF Gate!Close
      <4>2. QED
        BY <4>1 DEF GateStep, Gate!Next
    <3>3. QED
      BY <2>4, <3>1, <3>2
  <2>8. FinalStep
    BY <1>2, <2>1, <2>2, <2>4, <2>6 DEF FinalStep, Preparing
  <2>9. QED
    BY <2>5, <2>7, <2>8
<1>5. CASE ReportStep(p)
  <2>1. pc[p] = "body" /\ at[p] = Report
    BY <1>5 DEF ReportStep
  <2>2. rec[p].state \in Preparing \cup {"PROBING", "SCRUBBING", "REJECTED"}
    BY <1>2, <2>1 DEF StatesAt, Scrub, Approval, Probe, Report
  <2>3. rec[p].state \in Ongoing
    BY <2>2 DEF Ongoing
  <2>4. PICK r : /\ SaveStep(p, r)
                 /\ r.state = IF rec[p].state = "REJECTED" THEN "REJECTED"
                              ELSE "REPORTING"
    BY <1>1, <1>3, <1>5, <2>3 DEF ReportStep
  <2>5. GateInv'
    BY <1>2, <2>1, <2>4, SaveStepFits
    DEF StatesAt, Approval, Probe, Scrub, Report, Finalize, Preparing
  <2>6. stateFile' = r /\ wire' = wire
    BY <2>4 DEF SaveStep
  <2>7. GateStep
    <3>1. CASE rec[p].state = "REJECTED"
      BY <1>2, <2>1, <2>4, <2>6, <3>1, GateStutter
    <3>2. CASE rec[p].state = "SCRUBBING"
      BY <1>2, <2>1, <2>4, <2>6, <3>2, PhaseValues DEF GateStep, Gate!gateVars
    <3>3. CASE rec[p].state \in Preparing \cup {"PROBING"}
      <4>1. rec[p].state # "REJECTED"
        BY <3>3 DEF Preparing
      <4>2. Gate!Close
        BY <1>2, <2>1, <2>4, <2>6, <3>3, <4>1, PhaseValues DEF Gate!Close
      <4>3. QED
        BY <4>2 DEF GateStep, Gate!Next
    <3>4. QED
      BY <2>2, <3>1, <3>2, <3>3
  <2>8. FinalStep
    BY <1>2, <2>1, <2>2, <2>4, <2>6 DEF FinalStep, Preparing
  <2>9. QED
    BY <2>5, <2>7, <2>8
<1>6. CASE FinalizeStep(p)
  <2>1. pc[p] = "body" /\ at[p] = Finalize
    BY <1>6 DEF FinalizeStep
  <2>2. rec[p].state \in {"REPORTING", "REJECTED"}
    BY <1>2, <2>1 DEF StatesAt, Scrub, Approval, Probe, Report, Finalize
  <2>3. PICK r : /\ SaveStep(p, r)
                 /\ r.state = IF rec[p].state = "REJECTED" THEN "REJECTED" ELSE "DONE"
    BY <1>1, <1>3, <1>6, <2>2 DEF FinalizeStep, Ongoing
  <2>4. GateInv'
    BY <1>2, <2>1, <2>3, SaveStepFits DEF Terminal, Probe, Finalize
  <2>5. stateFile' = r /\ wire' = wire
    BY <2>3 DEF SaveStep
  <2>6. GateStep
    <3>1. CASE rec[p].state = "REJECTED"
      BY <1>2, <2>1, <2>3, <2>5, <3>1, GateStutter
    <3>2. CASE rec[p].state = "REPORTING"
      <4>1. Gate!Finish
        BY <1>2, <2>1, <2>3, <2>5, <3>2, PhaseValues DEF Gate!Finish
      <4>2. QED
        BY <4>1 DEF GateStep, Gate!Next
    <3>3. QED
      BY <2>2, <3>1, <3>2
  <2>7. FinalStep
    BY <1>2, <2>1, <2>2, <2>3, <2>5 DEF FinalStep
  <2>8. QED
    BY <2>4, <2>6, <2>7
<1>7. CASE FinalSave(p)
  <2>1. /\ pc[p] = "final" /\ pc'[p] \in {"unlock", "done"}
        /\ stateFile' = rec[p] /\ UNCHANGED <<wire, at, rec>>
        /\ \A q \in Calls : q # p => pc'[q] = pc[q]
    BY <1>0, <1>7 DEF FinalSave, Goto, memory
  <2>2. Writing(p)
    BY <2>1 DEF Writing, Executing
  <2>3. rec[p] = stateFile
    BY <2>1, <2>2, WriterRecord
  <2>4. Fits(p)'
    BY <2>1 DEF Fits
  <2>5. QED
    BY <2>1, <2>2, <2>3, <2>4, WriterFits, GateStutter DEF FinalStep
<1>8. CASE Unlock(p)
  <2>1. /\ UNCHANGED <<stateFile, wire, at, rec, proposal>>
        /\ \A q \in Calls : pc'[q] = pc[q] \/ pc'[q] = "done"
    BY <1>0, <1>8 DEF Unlock, Goto, memory, files
  <2>2. QED
    BY <2>1, QuietFits
<1>9. QED
  BY <1>4, <1>5, <1>6, <1>7, <1>8

\* Neither a death nor an edit of the proposal moves the gate.
LEMMA EnvironmentGate ==
  ASSUME IInv, TypeOK, GateInv, (\E P \in SUBSET Calls : Die(P)) \/ EditProposal
  PROVE  GateInv' /\ GateStep /\ FinalStep
<1>1. ASSUME NEW P \in SUBSET Calls, Die(P)
      PROVE  GateInv' /\ GateStep /\ FinalStep
  <2>1. /\ UNCHANGED <<stateFile, wire, at, rec, proposal>>
        /\ \A q \in Calls : pc'[q] = pc[q] \/ pc'[q] = "dead"
    BY <1>1 DEF Die, memory, files
  <2>2. QED
    BY <2>1, QuietFits
<1>2. CASE EditProposal
  <2>1. UNCHANGED <<stateFile, wire, at, rec, pc>>
    BY <1>2 DEF EditProposal, memory
  <2>2. proposal'.accepted = proposal.accepted
    <3>1. PICK f \in Requests \ {proposal.fp} : proposal' = [proposal EXCEPT !.fp = f]
      BY <1>2 DEF EditProposal
    <3>2. QED
      BY <3>1 DEF TypeOK
  <2>3. QED
    BY <2>1, <2>2, QuietFits
<1>3. QED
  BY <1>1, <1>2

-----------------------------------------------------------------------------
(* The theorems.                                                           *)

\* One step of the run, whoever takes it.
LEMMA NextGate ==
  ASSUME IInv, TypeOK, GateInv, [Next]_vars
  PROVE  GateInv' /\ GateStep /\ FinalStep
<1>1. ASSUME NEW p \in Calls, RunCall(p) \/ OperatorActs(p)
      PROVE  GateInv' /\ GateStep /\ FinalStep
  BY <1>1, PhaseOneGate, ResumeGate, ProbeGateStep, WrapUpGate DEF RunCall
<1>2. ASSUME NEW p \in Calls, CallDies(p)
      PROVE  GateInv' /\ GateStep /\ FinalStep
  BY <1>2, EnvironmentGate DEF CallDies
<1>3. CASE WebDies
  <2>1. WebCalls \in SUBSET Calls
    BY DEF WebCalls, Calls
  <2>2. QED
    BY <1>3, <2>1, EnvironmentGate DEF WebDies
<1>4. CASE EditProposal
  BY <1>4, EnvironmentGate
<1>5. CASE UNCHANGED vars
  BY <1>5, QuietFits DEF vars, memory, files
<1>6. QED
  BY <1>1, <1>2, <1>3, <1>4, <1>5 DEF Next

\* The state of a record fits the place of its call in every reachable state.
THEOREM GateInvariance == Spec => []GateInv
<1>1. Init => GateInv
  BY InitGate
<1>2. IInv /\ TypeOK /\ GateInv /\ [Next]_vars => GateInv'
  BY NextGate
<1>3. QED
  BY <1>1, <1>2, TypeCorrect, Invariance, PTL DEF Spec

\* Whatever calls, deaths and edits do to it, a run implements ProbeGate: the
\* whole of execute_run and resume_run against the promise.
THEOREM GateImplemented == Spec => ImplementsGate
<1>1. Init => Gate!Init
  BY InitGate
<1>2. IInv /\ TypeOK /\ GateInv /\ [Next]_vars => [Gate!Next]_(Gate!gateVars)
  BY NextGate DEF GateStep
<1>3. QED
  BY <1>1, <1>2, TypeCorrect, Invariance, GateInvariance, PTL
  DEF Spec, ImplementsGate, Gate!Spec

\* DONE and FAILED are never left and REJECTED only for FAILED, though three
\* more steps set a state of their own after a rejection (_execute, runner.py).
THEOREM FinalityOfTerminal == Spec => TerminalIsFinal
<1>1. IInv /\ TypeOK /\ GateInv /\ [Next]_vars =>
        [ /\ stateFile.state \in {"DONE", "FAILED"} => stateFile' = stateFile
          /\ stateFile.state = "REJECTED" =>
               stateFile'.state \in {"REJECTED", "FAILED"} ]_stateFile
  BY NextGate DEF FinalStep
<1>2. QED
  BY <1>1, TypeCorrect, Invariance, GateInvariance, PTL DEF Spec, TerminalIsFinal

=============================================================================
