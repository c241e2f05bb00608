----------------------- MODULE AnalysisPipeline_proofs -----------------------
(***************************************************************************)
(* For any number of groups, threads, retries and answers: run_pipeline    *)
(* leaves no thread behind, asks the model no more often than it may, and  *)
(* publishes the records and the sums that the answers call for.           *)
(*                                                                         *)
(* The argument has four parts.  PhaseInv ties the main thread to the      *)
(* groups; RequestInv bounds the requests of a group; OutcomeInv says for  *)
(* each place a group can be in what its outcome tells of its results; and *)
(* FilesInv says that the files are what the outcomes came to.  The sums   *)
(* of the summary follow from counting in each group.                      *)
(***************************************************************************)
EXTENDS AnalysisPipeline, SetOrder_proofs, SequenceTheorems

\* What is known in each phase of the main thread.
PhaseInv ==
  /\ phase \in Phases
  /\ phase = "load" => \A g \in Groups : place[g] = "queued"
  /\ phase \in {"load", "analyze", "cancel"} => recordsFile = NoFile
  /\ phase \in {"records", "summary", "done"} => \A g \in Groups : place[g] = "settled"
  /\ phase = "raised" =>
       /\ Running = {}
       /\ (\E g \in Groups : place[g] = "failed") => recordsFile = NoFile

\* A thread works on a group it has, or takes one while the pool is open; it
\* touches neither the files nor the main thread.
LEMMA ThreadActs ==
  ASSUME NEW g \in Groups, Thread(g)
  PROVE  /\ place[g] \in Active \/ phase \in {"analyze", "cancel"}
         /\ UNCHANGED <<workers, count, allowlist, phase, recordsFile, summaryFile>>
<1>1. CASE TakeGroup(g)
  BY <1>1 DEF TakeGroup, given, outputs
<1>2. CASE BuildPacket(g) \/ BreakPacket(g) \/ SendRequest(g)
  BY <1>2 DEF BuildPacket, BreakPacket, SendRequest, given, outputs, Active
<1>3. CASE \E a \in Answers \cup {NoAnswer} : AnswerComes(g, a)
  BY <1>3 DEF AnswerComes, given, outputs, Active
<1>4. CASE GarbleComes(g) \/ NothingComes(g) \/ RefusalComes(g)
  BY <1>4 DEF GarbleComes, NothingComes, RefusalComes, given, outputs, Active
<1> QED BY <1>1, <1>2, <1>3, <1>4 DEF Thread

\* Threads work on groups only while the main thread waits for them.
LEMMA ThreadPhase ==
  ASSUME PhaseInv, NEW g \in Groups, Thread(g)
  PROVE  phase \in {"analyze", "cancel"}
<1>1. place[g] \in Active \/ phase \in {"analyze", "cancel"}
  BY ThreadActs
<1>2. place[g] \in Active => phase \notin {"load", "records", "summary", "done", "raised"}
  BY DEF PhaseInv, Running, Active
<1> QED BY <1>1, <1>2 DEF PhaseInv, Phases

LEMMA PhaseStep ==
  ASSUME PhaseInv, [Next]_vars
  PROVE  PhaseInv'
<1>1. ASSUME NEW g \in Groups, Thread(g) PROVE PhaseInv'
  <2>1. UNCHANGED <<count, phase, recordsFile>> /\ phase \in {"analyze", "cancel"}
    BY <1>1, ThreadActs, ThreadPhase
  <2> QED BY <2>1 DEF PhaseInv, Phases
<1>2. CASE LoadAllowlist
  <2>1. /\ phase = "load" /\ phase' = IF count = 0 THEN "records" ELSE "analyze"
        /\ UNCHANGED <<count, place, recordsFile>>
    BY <1>2 DEF LoadAllowlist, given, threads, outputs
  <2>2. count = 0 => Groups' = {}
    BY <2>1 DEF Groups
  <2> QED BY <2>1, <2>2 DEF PhaseInv, Phases
<1>3. CASE RefuseProvider \/ BreakAllowlist
  <2>1. /\ phase = "load" /\ phase' = "raised"
        /\ UNCHANGED <<count, place, recordsFile>>
    BY <1>3 DEF RefuseProvider, BreakAllowlist, given, threads, outputs
  <2>2. Running' = {}
    BY <2>1 DEF PhaseInv, Running, Active, Groups
  <2>3. recordsFile' = NoFile
    BY <2>1 DEF PhaseInv
  <2> QED BY <2>1, <2>2, <2>3 DEF PhaseInv, Phases
<1>4. CASE NoticeFailure
  BY <1>4 DEF NoticeFailure, PhaseInv, Phases, given, threads, outputs
<1>5. ASSUME NEW g \in Groups, CancelGroup(g) PROVE PhaseInv'
  BY <1>5 DEF CancelGroup, PhaseInv, Phases, given, outputs
<1>6. CASE RaiseFailure
  <2>1. /\ phase = "cancel" /\ phase' = "raised" /\ Running = {}
        /\ UNCHANGED <<count, place, recordsFile>>
    BY <1>6 DEF RaiseFailure, given, threads, outputs
  <2>2. Running' = {}
    BY <2>1 DEF Running, Groups
  <2>3. recordsFile' = NoFile
    BY <2>1 DEF PhaseInv
  <2> QED BY <2>1, <2>2, <2>3 DEF PhaseInv, Phases
<1>7. CASE CollectOutcomes
  BY <1>7 DEF CollectOutcomes, PhaseInv, Phases, given, threads, outputs, Groups
<1>8. CASE WriteRecords \/ WriteSummary
  <2>1. /\ phase \in {"records", "summary"} /\ phase' \in {"summary", "done"}
        /\ UNCHANGED <<count, place>>
    BY <1>8 DEF WriteRecords, WriteSummary, given, threads
  <2> QED BY <2>1 DEF PhaseInv, Phases, Groups
<1>9. CASE BreakOutput
  <2>1. /\ phase \in {"records", "summary"} /\ phase' = "raised"
        /\ UNCHANGED <<count, place>>
    BY <1>9 DEF BreakOutput, given, threads
  <2>2. \A g \in Groups' : place'[g] = "settled"
    BY <2>1 DEF PhaseInv, Groups
  <2> QED BY <2>1, <2>2 DEF PhaseInv, Phases, Running, Active
<1>10. CASE UNCHANGED vars
  BY <1>10 DEF vars, given, threads, outputs, PhaseInv, Running, Groups
<1> QED BY <1>1, <1>2, <1>3, <1>4, <1>5, <1>6, <1>7, <1>8, <1>9, <1>10 DEF Next, Main

LEMMA InitPhase ==
  ASSUME Init
  PROVE  PhaseInv
BY PipelineAssumption DEF Init, PhaseInv, Phases, Groups, Slots

LEMMA PhaseInvariant == Spec => []PhaseInv
BY InitPhase, PhaseStep, PTL DEF Spec

\* Once run_pipeline has returned or raised, no thread of it asks the model for
\* anything, whatever the size of the pool and whichever thread raised.
THEOREM PoolIsEmpty == Spec => []NothingRunsAfterReturn
<1>1. PhaseInv => NothingRunsAfterReturn
  <2> SUFFICES ASSUME PhaseInv, phase = "done"
               PROVE  Running = {} /\ ~\E g \in Groups : place[g] = "failed"
    BY DEF PhaseInv, NothingRunsAfterReturn
  <2>1. \A g \in Groups : place[g] = "settled"
    BY DEF PhaseInv
  <2> QED BY <2>1 DEF Running, Active
<1> QED BY <1>1, PhaseInvariant, PTL

-----------------------------------------------------------------------------
\* What one call may cost.
PerCall == MaxRetries + 1

\* How many completions group g may have brought before its current call.
Before(g) == IF outcome[g].retries = 1 THEN PerCall ELSE 0

\* Where each group is with its requests.
GroupInv(g) ==
  /\ attempts[g] \in 0..PerCall
  /\ received[g] \in Nat
  /\ outcome[g].retries \in {0, 1}
  /\ place[g] \in Active /\ outcome[g].retries = 0 => results[g] = <<>>
  /\ outcome[g].retries = 1 =>
       /\ phase # "load"
       /\ results[g] # <<>> /\ BlocksTheRecord(Errors(Head(results[g])))
  /\ place[g] = "build" => received[g] <= Before(g)
  /\ place[g] = "send" => attempts[g] <= MaxRetries /\ received[g] <= Before(g) + attempts[g]
  /\ place[g] = "wait" => attempts[g] >= 1 /\ received[g] <= Before(g) + attempts[g] - 1
  /\ received[g] <= Before(g) + PerCall
  /\ place[g] = "queued" => received[g] = 0 /\ outcome[g].retries = 0 /\ results[g] = <<>>

OutcomeFields == DOMAIN NewOutcome

RequestInv ==
  /\ MaxRetries \in Nat
  /\ DOMAIN place = Slots /\ DOMAIN attempts = Slots /\ DOMAIN outcome = Slots
  /\ DOMAIN results = Slots /\ DOMAIN received = Slots
  /\ Groups \subseteq Slots
  /\ \A g \in Slots : DOMAIN outcome[g] = OutcomeFields /\ results[g] \in Seq(Answers \cup {NoAnswer})
  /\ \A g \in Slots : GroupInv(g)
  /\ phase = "load" => \A g \in Slots : place[g] = "queued"

\* Settling and counting leave the number of retries alone.
LEMMA RetriesKept ==
  ASSUME NEW out, DOMAIN out = OutcomeFields, NEW a, NEW errors
  PROVE  /\ DOMAIN Settle(out, a, errors) = OutcomeFields
         /\ Settle(out, a, errors).retries = out.retries
         /\ DOMAIN Counted(out, errors) = OutcomeFields
         /\ Counted(out, errors).retries = out.retries
<1>1. "retries" \in DOMAIN out
  BY DEF OutcomeFields, NewOutcome
<1>2. DOMAIN Counted(out, errors) = OutcomeFields /\ Counted(out, errors).retries = out.retries
  BY <1>1 DEF Counted
<1>3. CASE BlocksTheRecord(errors)
  BY <1>1, <1>2, <1>3 DEF Settle
<1>4. CASE ~BlocksTheRecord(errors)
  BY <1>1, <1>2, <1>4 DEF Settle, Publish
<1> QED BY <1>3, <1>4

\* A result ends the work on a group, or begins its second call.
LEMMA ResultActs ==
  ASSUME RequestInv, NEW g \in Slots, place[g] = "wait", NEW a, TakeResult(g, a)
  PROVE  /\ results' = [results EXCEPT ![g] = Append(@, a)]
         /\ DOMAIN place' = Slots /\ DOMAIN outcome' = Slots
         /\ DOMAIN outcome'[g] = OutcomeFields
         /\ \A h \in Slots \ {g} : place'[h] = place[h] /\ outcome'[h] = outcome[h]
         /\ \/ /\ place'[g] \in {"settled", "failed"}
               /\ outcome'[g].retries = outcome[g].retries
            \/ /\ place'[g] = "build" /\ outcome'[g].retries = 1
               /\ results[g] = <<>> /\ BlocksTheRecord(Errors(a))
<1> DEFINE out == [outcome[g] EXCEPT !.calls = @ + 1]
           put(where, o) == /\ place' = [place EXCEPT ![g] = where]
                            /\ outcome' = [outcome EXCEPT ![g] = o]
<1>1. DOMAIN place = Slots /\ DOMAIN outcome = Slots /\ DOMAIN outcome[g] = OutcomeFields
  BY DEF RequestInv
<1>2. "retries" \in OutcomeFields
  BY DEF OutcomeFields, NewOutcome
<1>3. DOMAIN out = OutcomeFields /\ out.retries = outcome[g].retries
  BY <1>1, <1>2 DEF OutcomeFields, NewOutcome
<1>4. results' = [results EXCEPT ![g] = Append(@, a)]
  BY DEF TakeResult
<1>5. \/ put("settled", [out EXCEPT !.invalid = 1, !.observed = 1])
      \/ put("settled", Settle([out EXCEPT !.observed = @ + 1], Head(results[g]),
                               Errors(Head(results[g]))))
      \/ put("failed", out)
      \/ /\ AskAgain(g, Errors(a))
         /\ put("build", [Counted(out, Errors(a)) EXCEPT !.retries = 1])
      \/ put("settled", Settle(Counted(out, Errors(a)), a, Errors(a)))
  BY DEF TakeResult
<1>6. ASSUME NEW where, NEW o, put(where, o), DOMAIN o = OutcomeFields
      PROVE  /\ DOMAIN place' = Slots /\ DOMAIN outcome' = Slots
             /\ DOMAIN outcome'[g] = OutcomeFields
             /\ \A h \in Slots \ {g} : place'[h] = place[h] /\ outcome'[h] = outcome[h]
             /\ place'[g] = where /\ outcome'[g] = o
  BY <1>1, <1>6
<1> HIDE DEF out, put
<1>7. CASE put("settled", [out EXCEPT !.invalid = 1, !.observed = 1])
  <2>1. DOMAIN [out EXCEPT !.invalid = 1, !.observed = 1] = OutcomeFields
          /\ [out EXCEPT !.invalid = 1, !.observed = 1].retries = out.retries
    BY <1>2, <1>3
  <2> QED BY <1>3, <1>4, <1>6, <1>7, <2>1
<1>8. CASE put("settled", Settle([out EXCEPT !.observed = @ + 1], Head(results[g]),
                                 Errors(Head(results[g]))))
  <2>1. DOMAIN [out EXCEPT !.observed = @ + 1] = OutcomeFields
          /\ [out EXCEPT !.observed = @ + 1].retries = out.retries
    BY <1>2, <1>3
  <2> DEFINE seen == [out EXCEPT !.observed = @ + 1]
             first == Head(results[g])
  <2>2. DOMAIN Settle(seen, first, Errors(first)) = OutcomeFields
          /\ Settle(seen, first, Errors(first)).retries = seen.retries
    BY <2>1, RetriesKept, ZenonT(30)
  <2> QED BY <1>3, <1>4, <1>6, <1>8, <2>1, <2>2
<1>9. CASE put("failed", out)
  BY <1>3, <1>4, <1>6, <1>9
<1>10. CASE /\ AskAgain(g, Errors(a))
            /\ put("build", [Counted(out, Errors(a)) EXCEPT !.retries = 1])
  <2>1. DOMAIN Counted(out, Errors(a)) = OutcomeFields
    BY <1>3, RetriesKept
  <2>2. DOMAIN [Counted(out, Errors(a)) EXCEPT !.retries = 1] = OutcomeFields
          /\ [Counted(out, Errors(a)) EXCEPT !.retries = 1].retries = 1
    BY <1>2, <2>1
  <2>3. results[g] = <<>> /\ BlocksTheRecord(Errors(a))
    BY <1>10 DEF AskAgain
  <2> QED BY <1>4, <1>6, <1>10, <2>2, <2>3
<1>11. CASE put("settled", Settle(Counted(out, Errors(a)), a, Errors(a)))
  BY <1>3, <1>4, <1>6, <1>11, RetriesKept
<1> QED BY <1>5, <1>7, <1>8, <1>9, <1>10, <1>11

\* A group that a thread does not touch stays as it is.
LEMMA OthersStay ==
  ASSUME RequestInv, NEW h \in Slots, phase' # "load",
         place'[h] = place[h], attempts'[h] = attempts[h], outcome'[h] = outcome[h],
         results'[h] = results[h], received'[h] = received[h], UNCHANGED allowlist
  PROVE  GroupInv(h)'
BY DEF RequestInv, GroupInv, Before, Errors

\* What a result does to its group, if it brought a completion or none.
LEMMA ResultStep ==
  ASSUME RequestInv, phase # "load", NEW g \in Groups, place[g] = "wait",
         NEW a \in Answers \cup {NoAnswer}, TakeResult(g, a),
         NEW n \in {0, 1}, DOMAIN received' = Slots, received'[g] = received[g] + n,
         \A h \in Slots \ {g} : received'[h] = received[h],
         UNCHANGED <<count, allowlist, phase, attempts>>
  PROVE  RequestInv'
<1>1. g \in Slots /\ GroupInv(g) /\ MaxRetries \in Nat /\ results[g] \in Seq(Answers \cup {NoAnswer})
  BY DEF RequestInv
<1>2. /\ results' = [results EXCEPT ![g] = Append(@, a)]
      /\ DOMAIN place' = Slots /\ DOMAIN outcome' = Slots
      /\ DOMAIN outcome'[g] = OutcomeFields
      /\ \A h \in Slots \ {g} : place'[h] = place[h] /\ outcome'[h] = outcome[h]
      /\ \/ /\ place'[g] \in {"settled", "failed"}
            /\ outcome'[g].retries = outcome[g].retries
         \/ /\ place'[g] = "build" /\ outcome'[g].retries = 1
            /\ results[g] = <<>> /\ BlocksTheRecord(Errors(a))
  BY <1>1, ResultActs
<1>3. results'[g] = Append(results[g], a) /\ received'[g] = received[g] + n
        /\ attempts'[g] = attempts[g] /\ DOMAIN results' = Slots /\ DOMAIN received' = Slots
        /\ results'[g] \in Seq(Answers \cup {NoAnswer})
  BY <1>1, <1>2 DEF RequestInv
<1>4. ASSUME NEW h \in Slots, h # g PROVE GroupInv(h)'
  <2>1. results'[h] = results[h] /\ received'[h] = received[h]
    BY <1>2, <1>4 DEF RequestInv
  <2> QED BY <1>2, <1>4, <2>1, OthersStay
<1>5. received'[g] \in Nat /\ received'[g] <= Before(g) + attempts[g]
        /\ attempts[g] \in 0..PerCall /\ Before(g) \in {0, PerCall} /\ PerCall \in Nat
  <2>1. /\ attempts[g] \in 0..PerCall /\ received[g] \in Nat
        /\ received[g] <= Before(g) + attempts[g] - 1
    BY <1>1 DEF GroupInv
  <2>2. PerCall \in Nat /\ Before(g) \in {0, PerCall}
    BY <1>1 DEF Before, PerCall
  <2>3. received[g] + n \in Nat /\ received[g] + n <= Before(g) + attempts[g]
    BY <2>1, <2>2
  <2> QED BY <1>3, <2>1, <2>2, <2>3
<1>6. ASSUME place'[g] \in {"settled", "failed"},
             outcome'[g].retries = outcome[g].retries
      PROVE  GroupInv(g)'
  <2>1. Before(g)' = Before(g)
    BY <1>6 DEF Before, PerCall
  <2>2. outcome[g].retries = 1 =>
          results'[g] # <<>> /\ Head(results'[g]) = Head(results[g])
    BY <1>1, <1>3 DEF GroupInv
  <2>3. outcome'[g].retries = 1 =>
          results'[g] # <<>> /\ BlocksTheRecord(Errors(Head(results[g])))
            /\ Head(results'[g]) = Head(results[g])
    BY <1>1, <1>6, <2>2 DEF GroupInv
  <2>4. (outcome[g].retries = 1 =>
          results[g] # <<>> /\ BlocksTheRecord(Errors(Head(results[g]))))'
    BY <2>3 DEF Errors
  <2>5. received'[g] <= Before(g)' + PerCall
    BY <1>5, <2>1
  <2>6. outcome'[g].retries \in {0, 1}
    BY <1>1, <1>6 DEF GroupInv
  <2> QED BY <1>3, <1>5, <1>6, <2>4, <2>5, <2>6 DEF GroupInv, Active, PerCall
<1>7. ASSUME place'[g] = "build", outcome'[g].retries = 1,
             results[g] = <<>>, BlocksTheRecord(Errors(a))
      PROVE  GroupInv(g)'
  <2>1. outcome[g].retries = 0
    BY <1>1, <1>7 DEF GroupInv
  <2>2. Before(g) = 0 /\ Before(g)' = PerCall
    BY <1>7, <2>1 DEF Before, PerCall
  <2>3. results'[g] # <<>> /\ Head(results'[g]) = a
    BY <1>3, <1>7
  <2>4. (results[g] # <<>> /\ BlocksTheRecord(Errors(Head(results[g]))))'
    BY <1>7, <2>3 DEF Errors
  <2>5. received'[g] <= Before(g)' /\ received'[g] <= Before(g)' + PerCall
    BY <1>5, <2>2
  <2> QED BY <1>3, <1>5, <1>7, <2>4, <2>5 DEF GroupInv, Active, PerCall
<1>8. \A h \in Slots : GroupInv(h)'
  BY <1>2, <1>4, <1>6, <1>7
<1>9. \A h \in Slots : DOMAIN outcome'[h] = OutcomeFields
                        /\ results'[h] \in Seq(Answers \cup {NoAnswer})
  BY <1>1, <1>2, <1>3 DEF RequestInv
<1>10. Groups' = Groups
  BY DEF Groups
<1> QED BY <1>2, <1>3, <1>8, <1>9, <1>10 DEF RequestInv

\* A step of a thread within a call changes where its group is, and its requests.
LEMMA GroupStep ==
  ASSUME RequestInv, phase # "load", NEW g \in Groups,
         DOMAIN place' = Slots, DOMAIN attempts' = Slots, DOMAIN received' = Slots,
         \A h \in Slots \ {g} : /\ place'[h] = place[h] /\ attempts'[h] = attempts[h]
                                /\ received'[h] = received[h],
         UNCHANGED <<count, allowlist, phase, outcome, results>>,
         (place[g] = "queued" /\ place'[g] = "build") => received'[g] = 0,
         attempts'[g] \in 0..PerCall, received'[g] \in Nat,
         place'[g] # "queued",
         place'[g] \in Active => place[g] \in Active \cup {"queued"},
         place'[g] = "build" => received'[g] <= Before(g),
         place'[g] = "send" =>
           attempts'[g] <= MaxRetries /\ received'[g] <= Before(g) + attempts'[g],
         place'[g] = "wait" =>
           attempts'[g] >= 1 /\ received'[g] <= Before(g) + attempts'[g] - 1,
         received'[g] <= Before(g) + PerCall
  PROVE  RequestInv'
<1>1. \A h \in Slots \ {g} : GroupInv(h)'
  BY OthersStay
<1>2. g \in Slots /\ GroupInv(g)
  BY DEF RequestInv
<1>3. Before(g)' = Before(g)
  BY DEF Before, PerCall
<1>4. outcome'[g].retries = 0 /\ place'[g] \in Active => results'[g] = <<>>
  BY <1>2 DEF GroupInv
<1>5. (outcome[g].retries = 1 =>
        results[g] # <<>> /\ BlocksTheRecord(Errors(Head(results[g]))))'
  BY <1>2 DEF GroupInv, Errors
<1>6. outcome'[g].retries \in {0, 1}
  BY <1>2 DEF GroupInv
<1>7. GroupInv(g)'
  BY <1>3, <1>4, <1>5, <1>6 DEF GroupInv, PerCall
<1>8. Groups' = Groups
  BY DEF Groups
<1> QED BY <1>1, <1>7, <1>8 DEF RequestInv

LEMMA RequestStep ==
  ASSUME RequestInv, [Next]_vars
  PROVE  RequestInv'
<1>1. ASSUME NEW g \in Groups, Thread(g) PROVE RequestInv'
  <2>1. /\ g \in Slots /\ GroupInv(g) /\ MaxRetries \in Nat
        /\ DOMAIN place = Slots /\ DOMAIN attempts = Slots /\ DOMAIN received = Slots
    BY DEF RequestInv
  <2>2. UNCHANGED <<count, allowlist, phase>>
    BY <1>1, ThreadActs
  <2>3. phase # "load"
    BY <1>1, <2>1, ThreadActs DEF RequestInv, Active
  <2>4. Before(g) \in {0, PerCall} /\ PerCall = MaxRetries + 1
    BY DEF Before, PerCall
  <2>5. CASE TakeGroup(g)
    <3>1. place[g] = "queued" /\ place' = [place EXCEPT ![g] = "build"]
            /\ UNCHANGED <<attempts, outcome, results, received>>
      BY <2>5 DEF TakeGroup, Queued, history
    <3>2. received[g] = 0 /\ attempts[g] \in 0..PerCall
      BY <2>1, <3>1 DEF GroupInv
    <3> QED BY <2>1, <2>2, <2>3, <2>4, <3>1, <3>2, GroupStep
  <2>6. CASE BuildPacket(g)
    <3>1. place[g] = "build" /\ place' = [place EXCEPT ![g] = "send"]
            /\ attempts' = [attempts EXCEPT ![g] = 0]
            /\ UNCHANGED <<outcome, results, received>>
      BY <2>6 DEF BuildPacket, history
    <3>2. received[g] <= Before(g) /\ received[g] \in Nat
      BY <2>1, <3>1 DEF GroupInv
    <3>3. place'[g] = "send" /\ attempts'[g] = 0 /\ DOMAIN place' = Slots /\ DOMAIN attempts' = Slots
      BY <2>1, <3>1
    <3> QED BY <2>1, <2>2, <2>3, <2>4, <3>1, <3>2, <3>3, GroupStep DEF Active
  <2>7. CASE BreakPacket(g)
    <3>1. place[g] = "build" /\ place' = [place EXCEPT ![g] = "failed"]
            /\ UNCHANGED <<attempts, outcome, results, received>>
      BY <2>7 DEF BreakPacket, history
    <3>2. received[g] <= Before(g) + PerCall /\ received[g] \in Nat /\ attempts[g] \in 0..PerCall
      BY <2>1 DEF GroupInv
    <3>3. place'[g] = "failed" /\ DOMAIN place' = Slots
      BY <2>1, <3>1
    <3> QED BY <2>1, <2>2, <2>3, <2>4, <3>1, <3>2, <3>3, GroupStep DEF Active
  <2>8. CASE SendRequest(g)
    <3>1. place[g] = "send" /\ place' = [place EXCEPT ![g] = "wait"]
            /\ attempts' = [attempts EXCEPT ![g] = @ + 1]
            /\ UNCHANGED <<outcome, results, received>>
      BY <2>8 DEF SendRequest, history
    <3>2. /\ attempts[g] <= MaxRetries /\ received[g] <= Before(g) + attempts[g]
          /\ attempts[g] \in 0..PerCall /\ received[g] \in Nat
      BY <2>1, <3>1 DEF GroupInv
    <3>3. place'[g] = "wait" /\ attempts'[g] = attempts[g] + 1
            /\ DOMAIN place' = Slots /\ DOMAIN attempts' = Slots
      BY <2>1, <3>1
    <3> QED BY <2>1, <2>2, <2>3, <2>4, <3>1, <3>2, <3>3, GroupStep DEF Active
  <2>9. CASE \E a \in Answers \cup {NoAnswer} : AnswerComes(g, a)
    <3>1. PICK a \in Answers \cup {NoAnswer} : AnswerComes(g, a)
      BY <2>9
    <3>2. /\ place[g] = "wait" /\ TakeResult(g, a) /\ UNCHANGED attempts
          /\ DOMAIN received' = Slots /\ received'[g] = received[g] + 1
          /\ \A h \in Slots \ {g} : received'[h] = received[h]
      BY <2>1, <3>1 DEF AnswerComes
    <3> QED BY <2>2, <2>3, <3>2, ResultStep
  <2>10. ASSUME NEW n \in {0, 1}, place[g] = "wait", UNCHANGED attempts,
                DOMAIN received' = Slots, received'[g] = received[g] + n,
                \A h \in Slots \ {g} : received'[h] = received[h],
                RetryOrGiveUp(g) \/ TakeResult(g, NoAnswer)
         PROVE  RequestInv'
    <3>1. CASE TakeResult(g, NoAnswer)
      BY <2>2, <2>3, <2>10, <3>1, ResultStep
    <3>2. CASE MayRetry(g) /\ place' = [place EXCEPT ![g] = "send"] /\ UNCHANGED <<outcome, results>>
      <4>1. /\ attempts[g] <= MaxRetries /\ received[g] <= Before(g) + attempts[g] - 1
            /\ attempts[g] \in 0..PerCall /\ received[g] \in Nat
        BY <2>1, <2>10, <3>2 DEF GroupInv, MayRetry
      <4>2. place'[g] = "send" /\ DOMAIN place' = Slots
        BY <2>1, <2>10, <3>2
      <4> QED BY <2>1, <2>2, <2>3, <2>4, <2>10, <3>2, <4>1, <4>2, GroupStep DEF Active
    <3> QED BY <2>10, <3>1, <3>2 DEF RetryOrGiveUp
  <2>11. CASE GarbleComes(g)
    <3>1. /\ place[g] = "wait" /\ UNCHANGED attempts /\ RetryOrGiveUp(g)
          /\ DOMAIN received' = Slots /\ received'[g] = received[g] + 1
          /\ \A h \in Slots \ {g} : received'[h] = received[h]
      BY <2>1, <2>11 DEF GarbleComes
    <3> QED BY <2>10, <3>1
  <2>12. CASE NothingComes(g) \/ RefusalComes(g)
    <3>1. received' = received /\ place[g] = "wait" /\ UNCHANGED attempts
            /\ (RetryOrGiveUp(g) \/ TakeResult(g, NoAnswer))
      BY <2>12 DEF NothingComes, RefusalComes
    <3>2. received'[g] = received[g] + 0
      BY <2>1, <3>1 DEF GroupInv
    <3> QED BY <2>1, <2>10, <3>1, <3>2
  <2> QED BY <1>1, <2>5, <2>6, <2>7, <2>8, <2>9, <2>11, <2>12 DEF Thread
<1>2. ASSUME NEW g \in Groups, CancelGroup(g) PROVE RequestInv'
  <2>1. /\ phase = "cancel" /\ place[g] = "queued" /\ place' = [place EXCEPT ![g] = "cancelled"]
        /\ UNCHANGED <<count, allowlist, phase, attempts, outcome, results, received>>
    BY <1>2 DEF CancelGroup, Queued, given, history
  <2>2. /\ g \in Slots /\ GroupInv(g) /\ MaxRetries \in Nat
        /\ DOMAIN place = Slots /\ DOMAIN attempts = Slots /\ DOMAIN received = Slots
    BY DEF RequestInv
  <2>3. received[g] <= Before(g) + PerCall /\ received[g] \in Nat /\ attempts[g] \in 0..PerCall
    BY <2>2 DEF GroupInv
  <2>4. place'[g] = "cancelled" /\ DOMAIN place' = Slots
    BY <2>1, <2>2
  <2> QED BY <2>1, <2>2, <2>3, <2>4, GroupStep DEF Active
<1>3. CASE LoadAllowlist
  <2>1. phase = "load" /\ UNCHANGED <<count, place, attempts, outcome, results, received>>
    BY <1>3 DEF LoadAllowlist, given, threads, history
  <2>2. \A h \in Slots : place[h] = "queued"
    BY <2>1 DEF RequestInv
  <2>3. \A h \in Slots : GroupInv(h)'
    BY <2>1, <2>2 DEF RequestInv, GroupInv, Before, Active
  <2> QED BY <2>1, <2>2, <2>3 DEF RequestInv, Groups
<1>4. CASE \/ RefuseProvider \/ BreakAllowlist \/ NoticeFailure \/ RaiseFailure
           \/ CollectOutcomes \/ WriteRecords \/ WriteSummary \/ BreakOutput
           \/ UNCHANGED vars
  <2>1. UNCHANGED <<count, allowlist, place, attempts, outcome, results, received>>
    BY <1>4 DEF RefuseProvider, BreakAllowlist, NoticeFailure, RaiseFailure, CollectOutcomes,
                WriteRecords, WriteSummary, BreakOutput, vars, given, threads, history
  <2>2. phase' = "load" => phase = "load"
    BY <1>4 DEF RefuseProvider, BreakAllowlist, NoticeFailure, RaiseFailure, CollectOutcomes,
                WriteRecords, WriteSummary, BreakOutput, vars
  <2>3. \A h \in Slots : GroupInv(h)'
    BY <2>1, <2>2 DEF RequestInv, GroupInv, Before, Errors
  <2> QED BY <2>1, <2>2, <2>3 DEF RequestInv, Groups
<1> QED BY <1>1, <1>2, <1>3, <1>4 DEF Next, Main

LEMMA InitRequests ==
  ASSUME Init
  PROVE  RequestInv
<1>1. /\ place = [g \in Slots |-> "queued"] /\ attempts = [g \in Slots |-> 0]
      /\ outcome = [g \in Slots |-> NewOutcome]
      /\ results = [g \in Slots |-> <<>>] /\ received = [g \in Slots |-> 0]
      /\ count \in 0..MaxGroups
  BY DEF Init
<1>2. MaxRetries \in Nat /\ Groups \subseteq Slots
  BY <1>1, PipelineAssumption DEF Groups, Slots
<1>3. NewOutcome.retries = 0
  BY DEF NewOutcome
<1>4. \A g \in Slots : GroupInv(g)
  BY <1>1, <1>2, <1>3 DEF GroupInv, Before, PerCall, Active
<1> QED BY <1>1, <1>2, <1>4 DEF RequestInv, OutcomeFields

LEMMA RequestInvariant == Spec => []RequestInv
BY InitRequests, RequestStep, PTL DEF Spec

\* No group costs more requests than two calls may take, and the second call is
\* made only for a record that would otherwise be lost, for any number of
\* retries and any answers.
THEOREM RequestsStayBounded == Spec => []RequestsBounded
<1>1. RequestInv => RequestsBounded
  <2> SUFFICES ASSUME RequestInv, NEW g \in Groups
               PROVE  /\ attempts[g] <= MaxRetries + 1
                      /\ received[g] <= (MaxRetries + 1) * (1 + Flag(outcome[g].retries = 1))
                      /\ outcome[g].retries = 1 => BlocksTheRecord(Errors(Head(results[g])))
    BY DEF RequestsBounded
  <2>1. GroupInv(g) /\ MaxRetries \in Nat
    BY DEF RequestInv
  <2>2. attempts[g] <= MaxRetries + 1
    BY <2>1 DEF GroupInv, PerCall
  <2>3. CASE outcome[g].retries = 1
    <3>1. received[g] <= (MaxRetries + 1) + (MaxRetries + 1)
      BY <2>1, <2>3 DEF GroupInv, Before, PerCall
    <3>2. Flag(outcome[g].retries = 1) = 1
      BY <2>3 DEF Flag
    <3>3. (MaxRetries + 1) * (1 + 1) = (MaxRetries + 1) + (MaxRetries + 1)
      BY <2>1
    <3>4. BlocksTheRecord(Errors(Head(results[g])))
      BY <2>1, <2>3 DEF GroupInv
    <3> QED BY <2>2, <3>1, <3>2, <3>3, <3>4
  <2>4. CASE outcome[g].retries # 1
    <3>1. received[g] <= MaxRetries + 1
      BY <2>1, <2>4 DEF GroupInv, Before, PerCall
    <3>2. Flag(outcome[g].retries = 1) = 0
      BY <2>4 DEF Flag
    <3>3. (MaxRetries + 1) * (1 + 0) = MaxRetries + 1
      BY <2>1
    <3> QED BY <2>2, <2>4, <3>1, <3>2, <3>3
  <2> QED BY <2>3, <2>4
<1> QED BY <1>1, RequestInvariant, PTL

-----------------------------------------------------------------------------
(* What an outcome says, and what the provider returned.                   *)

\* Errors and its consequences, with the allowlist as a parameter.
ErrorsIf(l, a) ==
  a.faults \cup (IF l /\ a.objective = "unlisted" THEN {"objective"} ELSE {})
Broken(l, a) == a = NoAnswer \/ ErrorsIf(l, a) # {}
Unsafe(l, a) == a # NoAnswer /\ "unsafe" \in ErrorsIf(l, a)

\* What each adds to its counter.
BrokenUnit(l, a) == IF Broken(l, a) THEN 1 ELSE 0
UnsafeUnit(l, a) == IF Unsafe(l, a) THEN 1 ELSE 0
GoodUnit(r) == IF r.objective # "none" THEN 1 ELSE 0

\* No call for g has returned yet.
Fresh(g) == results[g] = <<>> /\ outcome[g] = NewOutcome

\* A broken answer came, and another one is asked for.
Again(g) ==
  LET o == outcome[g]
      first == results[g][1]
  IN /\ Len(results[g]) = 1 /\ first \in Answers /\ BlocksTheRecord(Errors(first))
     /\ o.record = NoAnswer /\ o.calls = 1 /\ o.retries = 1 /\ o.observed = 1
     /\ o.unsafeObserved = UnsafeUnit(allowlist, first)
     /\ \A f \in {"invalid", "unsafe", "badObjective", "goodObjective"} : o[f] = 0

\* The counters of broken answers tell how many there are.
CountsBroken(g) ==
  LET rs == results[g]
      o  == outcome[g]
  IN \/ /\ Len(rs) = 1
        /\ o.observed = BrokenUnit(allowlist, rs[1]) /\ o.unsafeObserved = UnsafeUnit(allowlist, rs[1])
     \/ /\ Len(rs) = 2
        /\ o.observed = BrokenUnit(allowlist, rs[1]) + BrokenUnit(allowlist, rs[2])
        /\ o.unsafeObserved = UnsafeUnit(allowlist, rs[1]) + UnsafeUnit(allowlist, rs[2])

\* The record is what the last answer allows.
HoldsRecord(g) ==
  LET o == outcome[g]
  IN \/ /\ Publishable(g) /\ o.record = RecordOf(g) /\ o.invalid = 0
        /\ o.goodObjective = GoodUnit(RecordOf(g))
     \/ ~Publishable(g) /\ o.record = NoAnswer /\ o.invalid = 1 /\ o.goodObjective = 0

Closed(g) ==
  LET o == outcome[g]
  IN /\ Len(results[g]) \in {1, 2}
     /\ o.calls = Len(results[g]) /\ o.retries = Len(results[g]) - 1
     /\ o.unsafe = Flag(LeftUnsafe(g)) /\ o.badObjective = Flag(LosesObjective(g))
     /\ CountsBroken(g) /\ HoldsRecord(g)

\* A thread that raised leaves no record.
Broke(g) ==
  /\ Len(results[g]) <= 2 /\ outcome[g].record = NoAnswer
  /\ \A f \in OutcomeFields \ {"record"} : outcome[g][f] \in 0..2

OutcomeTells(g) ==
  CASE place[g] = "settled" -> Closed(g)
    [] place[g] = "failed" -> Broke(g)
    [] OTHER -> Fresh(g) \/ Again(g)

OutcomeInv == RequestInv /\ \A g \in Slots : OutcomeTells(g)

-----------------------------------------------------------------------------
\* What Settle does to each field, if a fault blocks the record.
LEMMA SettleBlocks ==
  ASSUME NEW out, DOMAIN out = OutcomeFields, NEW a, NEW errors, BlocksTheRecord(errors),
         NEW s, s = Settle(out, a, errors)
  PROVE  /\ s.invalid = 1 /\ s.unsafe = Flag("unsafe" \in errors)
         /\ \A f \in OutcomeFields \ {"invalid", "unsafe"} : s[f] = out[f]
<1>1. s = [out EXCEPT !.invalid = 1, !.unsafe = Flag("unsafe" \in errors)]
  BY DEF Settle
<1> QED BY <1>1 DEF OutcomeFields, NewOutcome

\* What Settle does to each field, if none does.
LEMMA SettlePublishes ==
  ASSUME NEW out, DOMAIN out = OutcomeFields, NEW a, NEW errors, ~BlocksTheRecord(errors),
         NEW s, s = Settle(out, a, errors)
  PROVE  /\ s.record = (IF "objective" \in errors THEN [a EXCEPT !.objective = "none"]
                        ELSE a)
         /\ s.badObjective = Flag("objective" \in errors)
         /\ s.goodObjective = Flag("objective" \notin errors /\ a.objective # "none")
         /\ \A f \in OutcomeFields \ {"record", "badObjective", "goodObjective"} :
              s[f] = out[f]
<1>1. s = Publish(out, a, errors)
  BY DEF Settle
<1> QED BY <1>1 DEF Publish, OutcomeFields, NewOutcome

\* Before a result, a group that waits has none or a broken one.
Waits(g) ==
  LET o == outcome[g]
      n == Len(results[g])
  IN /\ n \in {0, 1} /\ (n = 0 <=> results[g] = <<>>)
     /\ DOMAIN o = OutcomeFields /\ o.record = NoAnswer
     /\ o.calls = n /\ o.retries = n /\ o.observed = n
     /\ \A f \in {"invalid", "unsafe", "badObjective", "goodObjective"} : o[f] = 0
     /\ n = 0 => o.unsafeObserved = 0
     /\ n = 1 => /\ results[g][1] \in Answers
                 /\ BlocksTheRecord(Errors(results[g][1]))
                 /\ o.unsafeObserved = UnsafeUnit(allowlist, results[g][1])

LEMMA WaitTells ==
  ASSUME OutcomeInv, NEW g \in Slots, place[g] \notin {"settled", "failed"}
  PROVE  Waits(g)
<1> DEFINE o == outcome[g]
           n == Len(results[g])
<1>1. DOMAIN o = OutcomeFields /\ results[g] \in Seq(Answers \cup {NoAnswer})
  BY DEF OutcomeInv, RequestInv
<1>2. Fresh(g) \/ Again(g)
  BY DEF OutcomeInv, OutcomeTells
<1>3. CASE Fresh(g)
  <2>1. results[g] = <<>> /\ o = NewOutcome
    BY <1>3 DEF Fresh
  <2>2. n = 0
    BY <2>1
  <2> QED BY <1>1, <2>1, <2>2 DEF NewOutcome, Waits
<1>4. CASE Again(g)
  <2>1. n = 1 /\ results[g] # <<>>
    BY <1>4 DEF Again
  <2> QED BY <1>1, <1>4, <2>1 DEF Again, Waits
<1> QED BY <1>2, <1>3, <1>4

\* What the results are once a call has returned.
LEMMA ResultsGrow ==
  ASSUME OutcomeInv, NEW g \in Slots, Len(results[g]) \in {0, 1},
         NEW a \in Answers \cup {NoAnswer},
         results' = [results EXCEPT ![g] = Append(@, a)], UNCHANGED allowlist
  PROVE  /\ Len(results'[g]) = Len(results[g]) + 1 /\ results'[g] # <<>>
         /\ results'[g][Len(results[g]) + 1] = a
         /\ (Len(results[g]) = 1 => results'[g][1] = results[g][1])
         /\ Publishable(g)' <=> a # NoAnswer /\ ~BlocksTheRecord(Errors(a))
         /\ LosesObjective(g)' <=> /\ a # NoAnswer /\ ~BlocksTheRecord(Errors(a))
                                   /\ "objective" \in Errors(a)
         /\ RecordOf(g)' = IF "objective" \in Errors(a) THEN [a EXCEPT !.objective = "none"]
                           ELSE a
         /\ \A b : Errors(b)' = Errors(b)
<1> DEFINE n == Len(results[g])
<1>1. results[g] \in Seq(Answers \cup {NoAnswer}) /\ DOMAIN results = Slots
  BY DEF OutcomeInv, RequestInv
<1>2. results'[g] = Append(results[g], a)
  BY <1>1
<1>3. /\ Len(results'[g]) = n + 1 /\ results'[g] # <<>>
      /\ results'[g][n + 1] = a /\ (n = 1 => results'[g][1] = results[g][1])
  BY <1>1, <1>2
<1>4. \A b : Errors(b)' = Errors(b)
  BY DEF Errors
<1>5. Last(results'[g]) = a
  BY <1>3 DEF Last
<1>6. Errors(Last(results[g]))' = Errors(a)
  BY <1>4, <1>5
<1>7. Publishable(g)' <=> a # NoAnswer /\ ~BlocksTheRecord(Errors(a))
  BY <1>3, <1>5, <1>6 DEF Publishable
<1>8. RecordOf(g)' = IF "objective" \in Errors(a) THEN [a EXCEPT !.objective = "none"] ELSE a
  BY <1>5, <1>6 DEF RecordOf
<1>9. LosesObjective(g)' <=> Publishable(g)' /\ "objective" \in Errors(a)
  BY <1>6 DEF LosesObjective
<1> QED BY <1>3, <1>4, <1>7, <1>8, <1>9

\* What one more result makes of an unsafe answer: an answer replaces the one
\* before, the absence of one leaves it in its place.
LEMMA UnsafeGrows ==
  ASSUME OutcomeInv, NEW g \in Slots, Len(results[g]) \in {0, 1},
         NEW a \in Answers \cup {NoAnswer},
         results' = [results EXCEPT ![g] = Append(@, a)], UNCHANGED allowlist
  PROVE  /\ a # NoAnswer => (LeftUnsafe(g)' <=> "unsafe" \in Errors(a))
         /\ a = NoAnswer /\ Len(results[g]) = 0 => ~LeftUnsafe(g)'
         /\ a = NoAnswer /\ Len(results[g]) = 1 =>
              (LeftUnsafe(g)' <=> /\ results[g][1] # NoAnswer
                                  /\ "unsafe" \in Errors(results[g][1]))
<1> DEFINE n == Len(results[g])
           rs == results'[g]
<1>1. /\ Len(rs) = n + 1 /\ rs[n + 1] = a /\ (n = 1 => rs[1] = results[g][1])
      /\ \A b : Errors(b)' = Errors(b)
  BY ResultsGrow
<1>2. DOMAIN rs = 1..(n + 1)
  <2>1. results[g] \in Seq(Answers \cup {NoAnswer}) /\ DOMAIN results = Slots
    BY DEF OutcomeInv, RequestInv
  <2>2. rs = Append(results[g], a)
    BY <2>1
  <2> QED BY <2>1, <2>2
<1>3. LeftUnsafe(g)' <=>
        \E i \in DOMAIN rs : /\ rs[i] # NoAnswer /\ "unsafe" \in Errors(rs[i])
                             /\ \A j \in DOMAIN rs : j > i => rs[j] = NoAnswer
  BY <1>1 DEF LeftUnsafe
<1>4. n \in {0, 1}
  OBVIOUS
<1> HIDE DEF n, rs
<1>5. CASE n = 0
  <2>1. DOMAIN rs = {1} /\ rs[1] = a
    BY <1>1, <1>2, <1>5
  <2>2. LeftUnsafe(g)' <=> a # NoAnswer /\ "unsafe" \in Errors(a)
    BY <1>3, <2>1
  <2> QED BY <1>5, <2>2 DEF n
<1>6. CASE n = 1
  <2>1. DOMAIN rs = {1, 2} /\ rs[1] = results[g][1] /\ rs[2] = a
    BY <1>1, <1>2, <1>6
  <2>2. LeftUnsafe(g)' <=> \/ a # NoAnswer /\ "unsafe" \in Errors(a)
                           \/ /\ a = NoAnswer /\ rs[1] # NoAnswer
                              /\ "unsafe" \in Errors(rs[1])
    BY <1>3, <2>1
  <2> QED BY <1>6, <2>1, <2>2 DEF n
<1> QED BY <1>4, <1>5, <1>6

\* What one more result does to the counters of broken answers.
LEMMA CountsGrow ==
  ASSUME OutcomeInv, NEW g \in Slots, place[g] \notin {"settled", "failed"},
         NEW a \in Answers \cup {NoAnswer},
         results' = [results EXCEPT ![g] = Append(@, a)], UNCHANGED allowlist,
         outcome'[g].observed = outcome[g].observed + BrokenUnit(allowlist, a),
         outcome'[g].unsafeObserved =
           outcome[g].unsafeObserved + UnsafeUnit(allowlist, a)
  PROVE  CountsBroken(g)'
<1> DEFINE n == Len(results[g])
           rs == results'[g]
           o == outcome[g]
           p == outcome'[g]
<1>1. /\ n \in {0, 1} /\ o.observed = n
      /\ n = 0 => o.unsafeObserved = 0
      /\ n = 1 => /\ results[g][1] \in Answers
                  /\ BlocksTheRecord(Errors(results[g][1]))
                  /\ o.unsafeObserved = UnsafeUnit(allowlist, results[g][1])
  BY WaitTells DEF Waits
<1>2. /\ Len(rs) = n + 1 /\ rs[n + 1] = a
      /\ (n = 1 => rs[1] = results[g][1])
  BY <1>1, ResultsGrow
<1>3. CASE n = 0
  <2>1. Len(rs) = 1 /\ rs[1] = a
    BY <1>2, <1>3
  <2>2. BrokenUnit(allowlist, a) \in Nat /\ UnsafeUnit(allowlist, a) \in Nat
    BY DEF Flag, BrokenUnit, UnsafeUnit, GoodUnit
  <2>3. p.observed = BrokenUnit(allowlist, a) /\ p.unsafeObserved = UnsafeUnit(allowlist, a)
    BY <1>1, <1>3, <2>2
  <2> HIDE DEF n, rs, p
  <2>4. /\ Len(rs) = 1
        /\ p.observed = BrokenUnit(allowlist', rs[1])
        /\ p.unsafeObserved = UnsafeUnit(allowlist', rs[1])
    BY <2>1, <2>3
  <2> QED BY <2>4 DEF CountsBroken, rs, p
<1>4. CASE n = 1
  <2> DEFINE first == results[g][1]
  <2>1. Len(rs) = 2 /\ rs[1] = first /\ rs[2] = a
    BY <1>2, <1>4
  <2>2. first.faults # {} /\ first # NoAnswer
    BY <1>1, <1>4, PipelineAssumption DEF BlocksTheRecord, Errors, Blocking, Judgements
  <2>3. BrokenUnit(allowlist, first) = 1
    BY <2>2 DEF Broken, ErrorsIf, Flag, BrokenUnit, UnsafeUnit, GoodUnit
  <2>4. p.observed = BrokenUnit(allowlist, first) + BrokenUnit(allowlist, a)
    BY <1>1, <1>4, <2>3
  <2>5. p.unsafeObserved = UnsafeUnit(allowlist, first) + UnsafeUnit(allowlist, a)
    BY <1>1, <1>4
  <2> HIDE DEF n, rs, p, first
  <2>6. /\ Len(rs) = 2
        /\ p.observed = BrokenUnit(allowlist', rs[1]) + BrokenUnit(allowlist', rs[2])
        /\ p.unsafeObserved = UnsafeUnit(allowlist', rs[1]) + UnsafeUnit(allowlist', rs[2])
    BY <2>1, <2>4, <2>5
  <2> QED BY <2>6 DEF CountsBroken, rs, p
<1> QED BY <1>1, <1>3, <1>4

\* The record that an answer without a blocking fault gives.
Kept(l, a) == IF "objective" \in ErrorsIf(l, a) THEN [a EXCEPT !.objective = "none"] ELSE a

\* How the outcome o becomes p when the result a is the last.
Closing(o, p, a) ==
  LET lost == a = NoAnswer \/ BlocksTheRecord(Errors(a))
  IN /\ p.calls = o.calls + 1 /\ p.retries = o.retries
     /\ p.observed = o.observed + BrokenUnit(allowlist, a)
     /\ p.unsafeObserved = o.unsafeObserved + UnsafeUnit(allowlist, a)
     /\ lost => /\ p.record = NoAnswer /\ p.invalid = 1
                /\ p.goodObjective = 0 /\ p.badObjective = 0
     /\ ~lost => /\ p.record = Kept(allowlist, a) /\ p.invalid = 0
                 /\ p.goodObjective = GoodUnit(Kept(allowlist, a))
                 /\ p.badObjective = Flag("objective" \in Errors(a))

\* A result that is not asked for again closes its group.
LEMMA Closes ==
  ASSUME OutcomeInv, NEW g \in Slots, place[g] \notin {"settled", "failed"},
         NEW a \in Answers \cup {NoAnswer},
         results' = [results EXCEPT ![g] = Append(@, a)], UNCHANGED allowlist,
         Closing(outcome[g], outcome'[g], a), outcome'[g].unsafe = Flag(LeftUnsafe(g)')
  PROVE  Closed(g)'
<1> DEFINE n == Len(results[g])
           o == outcome[g]
           p == outcome'[g]
<1>1. n \in {0, 1} /\ o.calls = n /\ o.retries = n
  BY WaitTells DEF Waits
<1>2. /\ Len(results'[g]) = n + 1
      /\ Publishable(g)' <=> a # NoAnswer /\ ~BlocksTheRecord(Errors(a))
      /\ LosesObjective(g)' <=> /\ a # NoAnswer /\ ~BlocksTheRecord(Errors(a))
                                /\ "objective" \in Errors(a)
      /\ RecordOf(g)' = IF "objective" \in Errors(a) THEN [a EXCEPT !.objective = "none"]
                        ELSE a
  BY <1>1, ResultsGrow
<1>3. RecordOf(g)' = Kept(allowlist, a)
  BY <1>2 DEF Kept, ErrorsIf, Errors
<1>4. CountsBroken(g)'
  BY CountsGrow DEF Closing
<1>5. HoldsRecord(g)'
  <2>1. CASE a = NoAnswer \/ BlocksTheRecord(Errors(a))
    <3>1. ~Publishable(g)' /\ p.record = NoAnswer /\ p.invalid = 1 /\ p.goodObjective = 0
      BY <1>2, <2>1 DEF Closing
    <3> QED BY <3>1 DEF HoldsRecord
  <2>2. CASE ~(a = NoAnswer \/ BlocksTheRecord(Errors(a)))
    <3>1. Publishable(g)'
      BY <1>2, <2>2
    <3>2. p.record = RecordOf(g)' /\ p.invalid = 0
            /\ p.goodObjective = GoodUnit(RecordOf(g)')
      BY <1>3, <2>2 DEF Closing
    <3> QED BY <3>1, <3>2 DEF HoldsRecord
  <2> QED BY <2>1, <2>2
<1> HIDE DEF n
<1>6. /\ Len(results'[g]) \in {1, 2} /\ p.calls = Len(results'[g])
      /\ p.retries = Len(results'[g]) - 1
  <2>1. Len(results'[g]) = n + 1 /\ p.calls = n + 1 /\ p.retries = n
    BY <1>1, <1>2 DEF Closing
  <2>2. n + 1 \in {1, 2}
    BY <1>1
  <2>3. p.calls = Len(results'[g])
    BY <2>1
  <2>4. p.retries = Len(results'[g]) - 1
    BY <1>1, <2>1
  <2> QED BY <2>1, <2>2, <2>3, <2>4, Zenon
<1>7. p.badObjective = Flag(LosesObjective(g)')
  <2>1. CASE a = NoAnswer \/ BlocksTheRecord(Errors(a))
    BY <1>2, <2>1 DEF Closing, Flag
  <2>2. CASE ~(a = NoAnswer \/ BlocksTheRecord(Errors(a)))
    <3>1. LosesObjective(g)' <=> "objective" \in Errors(a)
      BY <1>2, <2>2
    <3> QED BY <2>2, <3>1 DEF Closing, Flag
  <2> QED BY <2>1, <2>2
<1>8. p.unsafe = Flag(LeftUnsafe(g))' /\ p.badObjective = Flag(LosesObjective(g))'
  BY <1>7 DEF Flag
<1> QED BY <1>4, <1>5, <1>6, <1>8 DEF Closed

\* An answer closes its group when it is settled.
LEMMA AnswerCloses ==
  ASSUME OutcomeInv, NEW g \in Slots, place[g] \notin {"settled", "failed"}, NEW a \in Answers,
         results' = [results EXCEPT ![g] = Append(@, a)], UNCHANGED allowlist,
         NEW out, out = [outcome[g] EXCEPT !.calls = @ + 1],
         outcome'[g] = Settle(Counted(out, Errors(a)), a, Errors(a))
  PROVE  Closed(g)'
<1> DEFINE n == Len(results[g])
           o == outcome[g]
           p == outcome'[g]
<1>1. /\ n \in {0, 1} /\ DOMAIN o = OutcomeFields /\ o.record = NoAnswer
      /\ \A f \in {"invalid", "unsafe", "badObjective", "goodObjective"} : o[f] = 0
  BY WaitTells DEF Waits
<1>2. PICK errors : errors = Errors(a)
  OBVIOUS
<1>3. PICK c : c = Counted(out, errors)
  OBVIOUS
<1>4. p = Settle(c, a, errors)
  BY <1>2, <1>3
<1> HIDE DEF p, o, n
<1>5. DOMAIN out = OutcomeFields /\ out.calls = o.calls + 1
        /\ \A f \in OutcomeFields \ {"calls"} : out[f] = o[f]
  BY <1>1 DEF OutcomeFields, NewOutcome, o
<1>6. /\ DOMAIN c = OutcomeFields
      /\ c.observed = out.observed + Flag(errors # {})
      /\ c.unsafeObserved = out.unsafeObserved + Flag("unsafe" \in errors)
      /\ \A f \in OutcomeFields \ {"observed", "unsafeObserved"} : c[f] = out[f]
  BY <1>3, <1>5 DEF Counted, OutcomeFields, NewOutcome
<1>7. ASSUME BlocksTheRecord(errors)
      PROVE  /\ p.invalid = 1 /\ p.unsafe = Flag("unsafe" \in errors)
             /\ \A f \in OutcomeFields \ {"invalid", "unsafe"} : p[f] = c[f]
  BY <1>4, <1>6, <1>7, SettleBlocks
<1>8. errors = ErrorsIf(allowlist, a) /\ a # NoAnswer
  BY <1>2, PipelineAssumption DEF Errors, ErrorsIf, Judgements
<1>9. /\ Flag(errors # {}) = BrokenUnit(allowlist, a)
      /\ Flag("unsafe" \in errors) = UnsafeUnit(allowlist, a)
  BY <1>8 DEF Broken, Unsafe, Flag, BrokenUnit, UnsafeUnit, GoodUnit
<1>10. /\ c.calls = o.calls + 1 /\ c.retries = o.retries
       /\ c.observed = o.observed + Flag(errors # {})
       /\ c.unsafeObserved = o.unsafeObserved + Flag("unsafe" \in errors)
       /\ c.record = o.record /\ c.invalid = o.invalid /\ c.unsafe = o.unsafe
       /\ c.badObjective = o.badObjective /\ c.goodObjective = o.goodObjective
  BY <1>5, <1>6 DEF OutcomeFields, NewOutcome
<1>11. c.observed = o.observed + BrokenUnit(allowlist, a)
         /\ c.unsafeObserved = o.unsafeObserved + UnsafeUnit(allowlist, a)
  BY <1>9, <1>10
<1>12. Flag("unsafe" \in errors) = Flag(LeftUnsafe(g)')
  <2>1. LeftUnsafe(g)' <=> "unsafe" \in errors
    BY <1>1, <1>2, <1>8, UnsafeGrows DEF n
  <2> QED BY <2>1 DEF Flag
<1>13. CASE BlocksTheRecord(errors)
  <2>1. /\ p.calls = c.calls /\ p.retries = c.retries /\ p.observed = c.observed
        /\ p.unsafeObserved = c.unsafeObserved /\ p.record = c.record
        /\ p.badObjective = c.badObjective /\ p.goodObjective = c.goodObjective
        /\ p.invalid = 1
    BY <1>7, <1>13 DEF OutcomeFields, NewOutcome
  <2>2. p.unsafe = Flag(LeftUnsafe(g)')
    BY <1>7, <1>13, <1>12
  <2>3. p.badObjective = 0 /\ p.goodObjective = 0 /\ p.record = NoAnswer
    BY <1>1, <1>10, <2>1
  <2>4. BlocksTheRecord(Errors(a))
    BY <1>2, <1>13
  <2>5. Closing(o, p, a)
    BY <1>10, <1>11, <2>1, <2>3, <2>4 DEF Closing
  <2> QED BY <2>2, <2>5, Closes DEF p, o
<1>14. CASE ~BlocksTheRecord(errors)
  <2>1. /\ p.record = (IF "objective" \in errors THEN [a EXCEPT !.objective = "none"] ELSE a)
        /\ p.badObjective = Flag("objective" \in errors)
        /\ p.goodObjective = Flag("objective" \notin errors /\ a.objective # "none")
        /\ \A f \in OutcomeFields \ {"record", "badObjective", "goodObjective"} : p[f] = c[f]
    BY <1>4, <1>6, <1>14, SettlePublishes
  <2>2. /\ p.calls = c.calls /\ p.retries = c.retries /\ p.observed = c.observed
        /\ p.unsafeObserved = c.unsafeObserved /\ p.invalid = c.invalid /\ p.unsafe = c.unsafe
    BY <2>1 DEF OutcomeFields, NewOutcome
  <2>3. p.unsafe = Flag(LeftUnsafe(g)')
    <3>1. "unsafe" \notin errors
      BY <1>14 DEF BlocksTheRecord, Blocking
    <3>2. p.unsafe = 0
      BY <1>1, <1>10, <2>2
    <3> QED BY <1>12, <3>1, <3>2 DEF Flag
  <2>4. p.invalid = 0 /\ p.badObjective = Flag("objective" \in Errors(a))
    BY <1>1, <1>2, <1>10, <2>1, <2>2
  <2>5. p.record = Kept(allowlist, a)
    BY <1>8, <2>1 DEF Kept
  <2>6. p.goodObjective = GoodUnit(Kept(allowlist, a))
    <3>1. DOMAIN a = {"faults", "objective"}
      BY PipelineAssumption DEF Judgements
    <3>2. CASE "objective" \in errors
      <4>1. Kept(allowlist, a).objective = "none"
        BY <1>8, <3>1, <3>2 DEF Kept
      <4> QED BY <2>1, <3>2, <4>1 DEF Flag, BrokenUnit, UnsafeUnit, GoodUnit
    <3>3. CASE "objective" \notin errors
      <4>1. Kept(allowlist, a) = a
        BY <1>8, <3>3 DEF Kept
      <4> QED BY <2>1, <3>3, <4>1 DEF Flag, BrokenUnit, UnsafeUnit, GoodUnit
    <3> QED BY <3>2, <3>3
  <2>7. a # NoAnswer /\ ~BlocksTheRecord(Errors(a))
    BY <1>2, <1>8, <1>14
  <2>8. Closing(o, p, a)
    BY <1>10, <1>11, <2>2, <2>4, <2>5, <2>6, <2>7 DEF Closing
  <2> QED BY <2>3, <2>8, Closes DEF p, o
<1> QED BY <1>13, <1>14

\* A call without a usable answer closes its group: the first broken answer, if
\* there was one, is settled for what it is.
LEMMA SilenceCloses ==
  ASSUME OutcomeInv, NEW g \in Slots, place[g] \notin {"settled", "failed"},
         results' = [results EXCEPT ![g] = Append(@, NoAnswer)], UNCHANGED allowlist,
         NEW out, out = [outcome[g] EXCEPT !.calls = @ + 1],
         \/ /\ results[g] = <<>>
            /\ outcome'[g] = [out EXCEPT !.invalid = 1, !.observed = 1]
         \/ /\ results[g] # <<>>
            /\ outcome'[g] = Settle([out EXCEPT !.observed = @ + 1], Head(results[g]),
                                    Errors(Head(results[g])))
  PROVE  Closed(g)'
<1> DEFINE n == Len(results[g])
           o == outcome[g]
           p == outcome'[g]
<1>1. /\ n \in {0, 1} /\ (n = 0 <=> results[g] = <<>>)
      /\ DOMAIN o = OutcomeFields /\ o.record = NoAnswer /\ o.observed = n
      /\ \A f \in {"invalid", "unsafe", "badObjective", "goodObjective"} : o[f] = 0
      /\ n = 0 => o.unsafeObserved = 0
      /\ n = 1 => /\ BlocksTheRecord(Errors(results[g][1])) /\ results[g][1] \in Answers
                  /\ o.unsafeObserved = UnsafeUnit(allowlist, results[g][1])
  BY WaitTells DEF Waits
<1>2. /\ o.unsafeObserved \in {0, 1}
      /\ o.badObjective = 0 /\ o.goodObjective = 0 /\ o.unsafe = 0
  BY <1>1 DEF Flag, BrokenUnit, UnsafeUnit, GoodUnit
<1>3. BrokenUnit(allowlist, NoAnswer) = 1 /\ UnsafeUnit(allowlist, NoAnswer) = 0
  BY DEF Broken, Unsafe, Flag, BrokenUnit, UnsafeUnit, GoodUnit
<1>4. ASSUME /\ p.calls = o.calls + 1 /\ p.retries = o.retries /\ p.observed = o.observed + 1
             /\ p.unsafeObserved = o.unsafeObserved /\ p.unsafe = Flag(LeftUnsafe(g)')
             /\ p.badObjective = 0 /\ p.record = NoAnswer /\ p.invalid = 1
             /\ p.goodObjective = 0
      PROVE  Closed(g)'
  <2>1. p.unsafeObserved = o.unsafeObserved + UnsafeUnit(allowlist, NoAnswer)
    BY <1>2, <1>3, <1>4
  <2>2. p.observed = o.observed + BrokenUnit(allowlist, NoAnswer)
    BY <1>3, <1>4
  <2> HIDE DEF o, p
  <2>3. Closing(o, p, NoAnswer)
    BY <1>4, <2>1, <2>2 DEF Closing
  <2> QED BY <1>4, <2>3, Closes DEF o, p
<1>5. CASE results[g] = <<>>
  <2>1. p = [out EXCEPT !.invalid = 1, !.observed = 1] /\ o.observed = 0
    BY <1>1, <1>5
  <2> HIDE DEF p
  <2>2. /\ p.calls = o.calls + 1 /\ p.retries = o.retries /\ p.observed = 1
        /\ p.unsafeObserved = o.unsafeObserved /\ p.unsafe = o.unsafe
        /\ p.badObjective = o.badObjective /\ p.record = o.record /\ p.invalid = 1
        /\ p.goodObjective = o.goodObjective
    BY <1>1, <2>1 DEF OutcomeFields, NewOutcome
  <2>3. ~LeftUnsafe(g)'
    BY <1>1, <1>5, UnsafeGrows
  <2>4. p.unsafe = Flag(LeftUnsafe(g)')
    BY <1>2, <2>2, <2>3 DEF Flag
  <2> QED BY <1>1, <1>2, <1>4, <2>1, <2>2, <2>4
<1>6. CASE results[g] # <<>>
  <2>1. results[g] \in Seq(Answers \cup {NoAnswer})
    BY DEF OutcomeInv, RequestInv
  <2>2. Head(results[g]) = results[g][1] /\ n = 1
    BY <1>1, <1>6, <2>1
  <2>3. PICK first : first = Head(results[g])
    OBVIOUS
  <2>4. PICK errors : errors = Errors(first)
    OBVIOUS
  <2>5. PICK seen : seen = [out EXCEPT !.observed = @ + 1]
    OBVIOUS
  <2>6. p = Settle(seen, first, errors)
    BY <1>6, <2>3, <2>4, <2>5
  <2>7. BlocksTheRecord(errors)
    BY <1>1, <2>2, <2>3, <2>4
  <2>8. /\ DOMAIN seen = OutcomeFields
        /\ seen.calls = o.calls + 1 /\ seen.retries = o.retries
        /\ seen.observed = o.observed + 1 /\ seen.unsafeObserved = o.unsafeObserved
        /\ seen.badObjective = o.badObjective /\ seen.record = o.record
        /\ seen.goodObjective = o.goodObjective
    BY <1>1, <2>5 DEF OutcomeFields, NewOutcome
  <2> HIDE DEF p
  <2>9. /\ p.invalid = 1 /\ p.unsafe = Flag("unsafe" \in errors)
        /\ \A f \in OutcomeFields \ {"invalid", "unsafe"} : p[f] = seen[f]
    BY <2>6, <2>7, <2>8, SettleBlocks
  <2>10. p.unsafe = Flag(LeftUnsafe(g)')
    <3>1. first # NoAnswer
      BY <1>1, <2>2, <2>3, PipelineAssumption
    <3>2. LeftUnsafe(g)' <=> "unsafe" \in errors
      BY <1>1, <2>2, <2>3, <2>4, <3>1, UnsafeGrows
    <3> QED BY <2>9, <3>2 DEF Flag
  <2>11. /\ p.calls = o.calls + 1 /\ p.retries = o.retries /\ p.observed = o.observed + 1
         /\ p.unsafeObserved = o.unsafeObserved /\ p.badObjective = o.badObjective
         /\ p.record = o.record /\ p.goodObjective = o.goodObjective
    BY <2>8, <2>9 DEF OutcomeFields, NewOutcome
  <2> QED BY <1>1, <1>2, <1>4, <2>9, <2>10, <2>11
<1> QED BY <1>5, <1>6

\* An answer that is asked for again leaves its group with one broken answer.
LEMMA RetryTells ==
  ASSUME OutcomeInv, NEW g \in Slots, place[g] \notin {"settled", "failed"}, NEW a \in Answers,
         results' = [results EXCEPT ![g] = Append(@, a)], UNCHANGED allowlist,
         NEW out, out = [outcome[g] EXCEPT !.calls = @ + 1], AskAgain(g, Errors(a)),
         outcome'[g] = [Counted(out, Errors(a)) EXCEPT !.retries = 1]
  PROVE  Again(g)'
<1> DEFINE n == Len(results[g])
           o == outcome[g]
           p == outcome'[g]
<1>1. /\ (n = 0 <=> results[g] = <<>>)
      /\ DOMAIN o = OutcomeFields /\ o.record = NoAnswer /\ o.calls = n /\ o.observed = n
      /\ \A f \in {"invalid", "unsafe", "badObjective", "goodObjective"} : o[f] = 0
      /\ n = 0 => o.unsafeObserved = 0
  BY WaitTells DEF Waits
<1>2. n = 0 /\ BlocksTheRecord(Errors(a))
  BY <1>1 DEF AskAgain
<1>3. Len(results'[g]) = n + 1 /\ results'[g][n + 1] = a /\ Errors(a)' = Errors(a)
  BY <1>2, ResultsGrow
<1>4. Len(results'[g]) = 1 /\ results'[g][1] = a
  BY <1>2, <1>3
<1>5. PICK errors : errors = Errors(a)
  OBVIOUS
<1>6. PICK c : c = Counted(out, errors)
  OBVIOUS
<1>7. p = [c EXCEPT !.retries = 1]
  BY <1>5, <1>6
<1> HIDE DEF p, o, n
<1>8. DOMAIN out = OutcomeFields /\ out.calls = o.calls + 1
        /\ \A f \in OutcomeFields \ {"calls"} : out[f] = o[f]
  BY <1>1 DEF OutcomeFields, NewOutcome, o
<1>9. errors # {} /\ a # NoAnswer /\ errors = ErrorsIf(allowlist, a)
  BY <1>2, <1>5, PipelineAssumption DEF BlocksTheRecord, Errors, ErrorsIf, Judgements
<1>10. Flag(errors # {}) = 1 /\ Flag("unsafe" \in errors) = UnsafeUnit(allowlist, a)
  BY <1>9 DEF Flag, Unsafe, UnsafeUnit
<1>11. /\ DOMAIN c = OutcomeFields
       /\ c.observed = out.observed + Flag(errors # {})
       /\ c.unsafeObserved = out.unsafeObserved + Flag("unsafe" \in errors)
       /\ \A f \in OutcomeFields \ {"observed", "unsafeObserved"} : c[f] = out[f]
  BY <1>6, <1>8 DEF Counted, OutcomeFields, NewOutcome
<1>12. UnsafeUnit(allowlist, a) \in {0, 1}
  BY DEF UnsafeUnit
<1>13. c.observed = 1 /\ c.unsafeObserved = UnsafeUnit(allowlist, a)
  <2>1. out.observed = 0 /\ out.unsafeObserved = 0
    BY <1>1, <1>2, <1>8 DEF OutcomeFields, NewOutcome
  <2>2. c.observed = 0 + 1
    BY <1>10, <1>11, <2>1
  <2>3. c.unsafeObserved = 0 + UnsafeUnit(allowlist, a)
    BY <1>10, <1>11, <2>1
  <2> HIDE DEF o
  <2> QED BY <1>12, <2>2, <2>3
<1>14. /\ p.retries = 1 /\ p.observed = c.observed /\ p.unsafeObserved = c.unsafeObserved
       /\ p.record = o.record /\ p.calls = o.calls + 1
       /\ p.invalid = o.invalid /\ p.unsafe = o.unsafe
       /\ p.badObjective = o.badObjective /\ p.goodObjective = o.goodObjective
  BY <1>7, <1>8, <1>11 DEF OutcomeFields, NewOutcome
<1>15. p.record = NoAnswer /\ p.calls = 1 /\ p.invalid = 0 /\ p.unsafe = 0
         /\ p.badObjective = 0 /\ p.goodObjective = 0
  BY <1>1, <1>2, <1>14
<1>16. p.unsafeObserved = UnsafeUnit(allowlist', results'[g][1])
  BY <1>4, <1>13, <1>14
<1>17. BlocksTheRecord(Errors(results[g][1]))'
  BY <1>2, <1>4 DEF Errors
<1> QED BY <1>4, <1>13, <1>14, <1>15, <1>16, <1>17 DEF Again, p

\* An answer that the validators cannot walk through leaves no record.
LEMMA ShapeBreaks ==
  ASSUME OutcomeInv, NEW g \in Slots, place[g] \notin {"settled", "failed"}, NEW a \in Answers,
         results' = [results EXCEPT ![g] = Append(@, a)], UNCHANGED allowlist,
         outcome'[g] = [outcome[g] EXCEPT !.calls = @ + 1]
  PROVE  Broke(g)'
<1> DEFINE n == Len(results[g])
           o == outcome[g]
           p == outcome'[g]
<1>1. /\ n \in {0, 1}
      /\ DOMAIN o = OutcomeFields /\ o.record = NoAnswer
      /\ o.calls = n /\ o.retries = n /\ o.observed = n
      /\ \A f \in {"invalid", "unsafe", "badObjective", "goodObjective"} : o[f] = 0
      /\ n = 0 => o.unsafeObserved = 0
      /\ n = 1 => o.unsafeObserved = UnsafeUnit(allowlist, results[g][1])
  BY WaitTells DEF Waits
<1>2. Len(results'[g]) = n + 1
  BY <1>1, ResultsGrow
<1>3. o.unsafeObserved \in {0, 1}
  BY <1>1 DEF UnsafeUnit
<1>4. p.calls = o.calls + 1 /\ \A f \in OutcomeFields \ {"calls"} : p[f] = o[f]
  BY <1>1 DEF OutcomeFields, NewOutcome
<1> HIDE DEF p, o, n
<1>5. n + 1 \in 0..2 /\ n \in 0..2 /\ n + 1 <= 2
  BY <1>1
<1>6. p.record = NoAnswer
  BY <1>1, <1>4 DEF OutcomeFields, NewOutcome
<1>7. ASSUME NEW f \in OutcomeFields \ {"record"} PROVE p[f] \in 0..2
  <2>1. CASE f = "calls"
    BY <1>1, <1>4, <1>5, <2>1
  <2>2. CASE f # "calls"
    <3>1. p[f] = o[f]
      BY <1>4, <1>7, <2>2
    <3>2. f \in {"retries", "observed", "unsafeObserved", "invalid", "unsafe",
                 "badObjective", "goodObjective"}
      BY <1>7, <2>2 DEF OutcomeFields, NewOutcome
    <3>3. CASE f \in {"retries", "observed", "unsafeObserved"}
      BY <1>1, <1>3, <1>5, <3>1, <3>3
    <3>4. CASE f \notin {"retries", "observed", "unsafeObserved"}
      BY <1>1, <3>1, <3>2, <3>4
    <3> QED BY <3>3, <3>4
  <2> QED BY <2>1, <2>2
<1> QED BY <1>2, <1>5, <1>6, <1>7 DEF Broke, p

\* Whatever a call returns, the outcome of its group goes on telling what came.
LEMMA ResultTells ==
  ASSUME OutcomeInv, NEW g \in Slots, place[g] = "wait", NEW a \in Answers \cup {NoAnswer},
         TakeResult(g, a), UNCHANGED allowlist
  PROVE  OutcomeTells(g)'
<1> DEFINE out == [outcome[g] EXCEPT !.calls = @ + 1]
           put(where, o) == /\ place' = [place EXCEPT ![g] = where]
                            /\ outcome' = [outcome EXCEPT ![g] = o]
<1>1. DOMAIN place = Slots /\ DOMAIN outcome = Slots
  BY DEF OutcomeInv, RequestInv
<1>2. results' = [results EXCEPT ![g] = Append(@, a)]
  BY DEF TakeResult
<1>3. \/ /\ a = NoAnswer /\ results[g] = <<>>
         /\ put("settled", [out EXCEPT !.invalid = 1, !.observed = 1])
      \/ /\ a = NoAnswer /\ results[g] # <<>>
         /\ put("settled", Settle([out EXCEPT !.observed = @ + 1], Head(results[g]),
                                  Errors(Head(results[g]))))
      \/ a # NoAnswer /\ put("failed", out)
      \/ /\ a # NoAnswer /\ AskAgain(g, Errors(a))
         /\ put("build", [Counted(out, Errors(a)) EXCEPT !.retries = 1])
      \/ a # NoAnswer /\ put("settled", Settle(Counted(out, Errors(a)), a, Errors(a)))
  BY DEF TakeResult
<1>4. ASSUME NEW where, NEW o, put(where, o)
      PROVE  place'[g] = where /\ outcome'[g] = o
  BY <1>1, <1>4
<1> HIDE DEF put
<1>5. PICK seen : seen = out
  OBVIOUS
<1>6. CASE /\ a = NoAnswer /\ results[g] = <<>>
           /\ put("settled", [out EXCEPT !.invalid = 1, !.observed = 1])
  <2>1. place'[g] = "settled"
    BY <1>4, <1>6
  <2>2. outcome'[g] = [seen EXCEPT !.invalid = 1, !.observed = 1]
    BY <1>4, <1>5, <1>6
  <2>3. Closed(g)'
    BY <1>2, <1>5, <1>6, <2>2, SilenceCloses
  <2> QED BY <2>1, <2>3 DEF OutcomeTells
<1>7. CASE /\ a = NoAnswer /\ results[g] # <<>>
           /\ put("settled", Settle([out EXCEPT !.observed = @ + 1], Head(results[g]),
                                    Errors(Head(results[g]))))
  <2>1. place'[g] = "settled"
    BY <1>4, <1>7
  <2>2. outcome'[g] = Settle([seen EXCEPT !.observed = @ + 1], Head(results[g]),
                             Errors(Head(results[g])))
    BY <1>4, <1>5, <1>7
  <2>3. Closed(g)'
    BY <1>2, <1>5, <1>7, <2>2, SilenceCloses
  <2> QED BY <2>1, <2>3 DEF OutcomeTells
<1>8. CASE a # NoAnswer /\ put("failed", out)
  <2>1. place'[g] = "failed"
    BY <1>4, <1>8
  <2>2. outcome'[g] = [outcome[g] EXCEPT !.calls = @ + 1]
    BY <1>4, <1>8
  <2>3. Broke(g)'
    BY <1>2, <1>8, <2>2, ShapeBreaks
  <2> QED BY <2>1, <2>3 DEF OutcomeTells
<1>9. CASE /\ a # NoAnswer /\ AskAgain(g, Errors(a))
           /\ put("build", [Counted(out, Errors(a)) EXCEPT !.retries = 1])
  <2>1. place'[g] = "build"
    BY <1>4, <1>9
  <2>2. outcome'[g] = [Counted(seen, Errors(a)) EXCEPT !.retries = 1]
    BY <1>4, <1>5, <1>9
  <2>3. Again(g)'
    BY <1>2, <1>5, <1>9, <2>2, RetryTells
  <2> QED BY <2>1, <2>3 DEF OutcomeTells
<1>10. CASE a # NoAnswer /\ put("settled", Settle(Counted(out, Errors(a)), a, Errors(a)))
  <2>1. place'[g] = "settled"
    BY <1>4, <1>10
  <2>2. outcome'[g] = Settle(Counted(seen, Errors(a)), a, Errors(a))
    BY <1>4, <1>5, <1>10
  <2>3. Closed(g)'
    BY <1>2, <1>5, <1>10, <2>2, AnswerCloses
  <2> QED BY <2>1, <2>3 DEF OutcomeTells
<1> QED BY <1>3, <1>6, <1>7, <1>8, <1>9, <1>10

\* A group stays what it is while nothing of it changes but its place, and that
\* within the work on a call.
LEMMA StaysTold ==
  ASSUME NEW g \in Slots, OutcomeTells(g),
         outcome'[g] = outcome[g], results'[g] = results[g],
         \/ place'[g] = place[g]
         \/ {place[g], place'[g]} \cap {"settled", "failed"} = {},
         (UNCHANGED allowlist) \/ Fresh(g)
  PROVE  OutcomeTells(g)'
<1>1. CASE Fresh(g) /\ place[g] \notin {"settled", "failed"}
  <2>1. Fresh(g)'
    BY <1>1 DEF Fresh
  <2> QED BY <1>1, <2>1 DEF OutcomeTells
<1>2. CASE Fresh(g) /\ place[g] = "settled"
  BY <1>2 DEF OutcomeTells, Closed, Fresh
<1>3. CASE place[g] = "failed"
  <2>1. place'[g] = "failed" /\ Broke(g)
    BY <1>3 DEF OutcomeTells
  <2>2. Broke(g)'
    BY <2>1 DEF Broke, OutcomeFields, NewOutcome
  <2> QED BY <2>1, <2>2 DEF OutcomeTells
<1>4. CASE UNCHANGED allowlist
  <2>1. Closed(g)' <=> Closed(g)
    BY <1>4 DEF Closed, CountsBroken, HoldsRecord, Publishable, RecordOf, Errors,
                 LeftUnsafe, LosesObjective, Flag
  <2>2. Again(g)' <=> Again(g)
    BY <1>4 DEF Again, Errors
  <2>3. Fresh(g)' <=> Fresh(g)
    BY DEF Fresh
  <2>4. CASE place'[g] = place[g] /\ place[g] = "settled"
    BY <2>1, <2>4 DEF OutcomeTells
  <2>5. CASE {place[g], place'[g]} \cap {"settled", "failed"} = {}
    <3>1. Fresh(g) \/ Again(g)
      BY <2>5 DEF OutcomeTells
    <3>2. Fresh(g)' \/ Again(g)'
      BY <2>2, <2>3, <3>1
    <3> QED BY <2>5, <3>2 DEF OutcomeTells
  <2> QED BY <1>3, <2>4, <2>5
<1> QED BY <1>1, <1>2, <1>3, <1>4

\* A group that is not settled has no record yet.
LEMMA WaitingBroke ==
  ASSUME OutcomeInv, NEW g \in Slots, place[g] \notin {"settled", "failed"}
  PROVE  Broke(g)
<1> DEFINE n == Len(results[g])
           o == outcome[g]
<1>1. /\ n \in {0, 1}
      /\ DOMAIN o = OutcomeFields /\ o.record = NoAnswer
      /\ o.calls = n /\ o.retries = n /\ o.observed = n
      /\ \A f \in {"invalid", "unsafe", "badObjective", "goodObjective"} : o[f] = 0
      /\ n = 0 => o.unsafeObserved = 0
      /\ n = 1 => o.unsafeObserved = UnsafeUnit(allowlist, results[g][1])
  BY WaitTells DEF Waits
<1>2. o.unsafeObserved \in {0, 1}
  BY <1>1 DEF UnsafeUnit
<1> HIDE DEF n, o
<1>3. n \in 0..2 /\ n <= 2
  BY <1>1
<1>4. ASSUME NEW f \in OutcomeFields \ {"record"} PROVE o[f] \in 0..2
  <2>1. f \in {"calls", "retries", "observed", "unsafeObserved", "invalid", "unsafe",
               "badObjective", "goodObjective"}
    BY <1>4 DEF OutcomeFields, NewOutcome
  <2>2. CASE f \in {"calls", "retries", "observed", "unsafeObserved"}
    BY <1>1, <1>2, <1>3, <2>2
  <2>3. CASE f \notin {"calls", "retries", "observed", "unsafeObserved"}
    BY <1>1, <2>1, <2>3
  <2> QED BY <2>2, <2>3
<1> QED BY <1>1, <1>3, <1>4 DEF Broke, n, o

LEMMA OutcomeStep ==
  ASSUME OutcomeInv, [Next]_vars
  PROVE  OutcomeInv'
<1>1. RequestInv'
  BY RequestStep DEF OutcomeInv
<1>2. /\ RequestInv /\ Groups \subseteq Slots /\ DOMAIN place = Slots
      /\ DOMAIN outcome = Slots /\ DOMAIN results = Slots
      /\ phase = "load" => \A g \in Slots : place[g] = "queued"
      /\ \A g \in Slots : OutcomeTells(g)
  BY DEF OutcomeInv, RequestInv
<1>3. ASSUME NEW g \in Slots, UNCHANGED <<allowlist, outcome, results>>,
             \A h \in Slots \ {g} : place'[h] = place[h],
             \/ place'[g] = place[g]
             \/ {place[g], place'[g]} \cap {"settled", "failed"} = {}
      PROVE  \A h \in Slots : OutcomeTells(h)'
  BY <1>2, <1>3, StaysTold
<1>4. ASSUME NEW g \in Groups, Thread(g) PROVE \A h \in Slots : OutcomeTells(h)'
  <2>1. g \in Slots
    BY <1>2
  <2>2. UNCHANGED allowlist
    BY <1>4, ThreadActs
  <2>3. CASE TakeGroup(g) \/ BuildPacket(g) \/ SendRequest(g)
    <3>1. /\ UNCHANGED <<outcome, results>>
          /\ place[g] \in {"queued", "build", "send"}
          /\ \E where \in {"build", "send", "wait"} : place' = [place EXCEPT ![g] = where]
      BY <2>3 DEF TakeGroup, Queued, BuildPacket, SendRequest, history
    <3>2. place'[g] \in {"build", "send", "wait"} /\ \A h \in Slots \ {g} : place'[h] = place[h]
      BY <1>2, <2>1, <3>1
    <3>3. {place[g], place'[g]} \cap {"settled", "failed"} = {}
      BY <3>1, <3>2
    <3> QED BY <1>3, <2>1, <2>2, <3>1, <3>2, <3>3
  <2>4. CASE BreakPacket(g)
    <3>1. /\ UNCHANGED <<outcome, results>> /\ place[g] = "build"
          /\ place' = [place EXCEPT ![g] = "failed"]
      BY <2>4 DEF BreakPacket, history
    <3>2. place'[g] = "failed" /\ \A h \in Slots \ {g} : place'[h] = place[h]
      BY <1>2, <2>1, <3>1
    <3>3. Broke(g)'
      <4>1. Broke(g)
        BY <2>1, <3>1, WaitingBroke
      <4> QED BY <3>1, <4>1 DEF Broke, OutcomeFields, NewOutcome
    <3>4. OutcomeTells(g)'
      BY <3>2, <3>3 DEF OutcomeTells
    <3>5. \A h \in Slots \ {g} : OutcomeTells(h)'
      BY <1>2, <2>2, <3>1, <3>2, StaysTold
    <3> QED BY <3>4, <3>5
  <2>5. ASSUME NEW a \in Answers \cup {NoAnswer}, place[g] = "wait", TakeResult(g, a)
        PROVE  \A h \in Slots : OutcomeTells(h)'
    <3>1. OutcomeTells(g)'
      BY <2>1, <2>2, <2>5, ResultTells
    <3>2. /\ results' = [results EXCEPT ![g] = Append(@, a)]
          /\ \A h \in Slots \ {g} : place'[h] = place[h] /\ outcome'[h] = outcome[h]
      BY <1>2, <2>1, <2>5, ResultActs
    <3>3. \A h \in Slots \ {g} : results'[h] = results[h]
      BY <1>2, <3>2
    <3>4. \A h \in Slots \ {g} : OutcomeTells(h)'
      BY <1>2, <2>2, <3>2, <3>3, StaysTold
    <3> QED BY <3>1, <3>4
  <2>6. ASSUME place[g] = "wait", RetryOrGiveUp(g) PROVE \A h \in Slots : OutcomeTells(h)'
    <3>1. CASE TakeResult(g, NoAnswer)
      BY <2>5, <2>6, <3>1
    <3>2. CASE place' = [place EXCEPT ![g] = "send"] /\ UNCHANGED <<outcome, results>>
      <4>1. place'[g] = "send" /\ \A h \in Slots \ {g} : place'[h] = place[h]
        BY <1>2, <2>1, <3>2
      <4>2. {place[g], place'[g]} \cap {"settled", "failed"} = {}
        BY <2>6, <4>1
      <4> QED BY <1>3, <2>1, <2>2, <3>2, <4>1, <4>2
    <3> QED BY <2>6, <3>1, <3>2 DEF RetryOrGiveUp
  <2>7. CASE \E a \in Answers \cup {NoAnswer} : AnswerComes(g, a)
    BY <2>5, <2>7 DEF AnswerComes
  <2>8. CASE GarbleComes(g) \/ NothingComes(g)
    BY <2>6, <2>8 DEF GarbleComes, NothingComes
  <2>9. CASE RefusalComes(g)
    BY <2>5, <2>9 DEF RefusalComes
  <2> QED BY <1>4, <2>3, <2>4, <2>7, <2>8, <2>9 DEF Thread
<1>5. ASSUME NEW g \in Groups, CancelGroup(g) PROVE \A h \in Slots : OutcomeTells(h)'
  <2>1. /\ g \in Slots /\ place[g] = "queued" /\ place' = [place EXCEPT ![g] = "cancelled"]
        /\ UNCHANGED <<allowlist, outcome, results>>
    BY <1>2, <1>5 DEF CancelGroup, Queued, history
  <2>2. place'[g] = "cancelled" /\ \A h \in Slots \ {g} : place'[h] = place[h]
    BY <1>2, <2>1
  <2>3. {place[g], place'[g]} \cap {"settled", "failed"} = {}
    BY <2>1, <2>2
  <2> QED BY <1>3, <2>1, <2>2, <2>3
<1>6. ASSUME LoadAllowlist PROVE \A h \in Slots : OutcomeTells(h)'
  <2>1. phase = "load" /\ UNCHANGED <<place, outcome, results>>
    BY <1>6 DEF LoadAllowlist, threads, history
  <2>2. ASSUME NEW g \in Slots PROVE OutcomeTells(g)'
    <3>1. place[g] = "queued"
      BY <1>2, <2>1
    <3>2. results[g] = <<>>
      BY <1>2, <3>1 DEF RequestInv, GroupInv
    <3>3. Fresh(g)
      BY <1>2, <3>1, <3>2 DEF OutcomeTells, Again
    <3> QED BY <1>2, <2>1, <3>3, StaysTold
  <2> QED BY <2>2
<1>7. ASSUME \/ RefuseProvider \/ BreakAllowlist \/ NoticeFailure \/ RaiseFailure
             \/ CollectOutcomes \/ WriteRecords \/ WriteSummary \/ BreakOutput
             \/ UNCHANGED vars
      PROVE  \A h \in Slots : OutcomeTells(h)'
  <2>1. UNCHANGED <<allowlist, place, outcome, results>>
    BY <1>7 DEF RefuseProvider, BreakAllowlist, NoticeFailure, RaiseFailure, CollectOutcomes,
                WriteRecords, WriteSummary, BreakOutput, vars, threads, history
  <2> QED BY <1>2, <2>1, StaysTold
<1>8. \A h \in Slots : OutcomeTells(h)'
  BY <1>4, <1>5, <1>6, <1>7 DEF Next, Main
<1> QED BY <1>1, <1>8 DEF OutcomeInv

\* In every reachable state, for any answers and any interleaving of the threads,
\* the outcome of a group counts the calls, the broken and the unsafe answers it
\* really had, and holds the record its last answer allows, if any.
THEOREM OutcomesTell == Spec => []OutcomeInv
<1>1. Init => OutcomeInv
  <2> SUFFICES ASSUME Init PROVE OutcomeInv
    OBVIOUS
  <2>1. RequestInv
    BY InitRequests
  <2>2. /\ place = [g \in Slots |-> "queued"] /\ outcome = [g \in Slots |-> NewOutcome]
        /\ results = [g \in Slots |-> <<>>]
    BY DEF Init
  <2>3. \A g \in Slots : OutcomeTells(g)
    BY <2>2 DEF OutcomeTells, Fresh
  <2> QED BY <2>1, <2>3 DEF OutcomeInv
<1> QED BY <1>1, OutcomeStep, PTL DEF Spec

-----------------------------------------------------------------------------
(* The files.                                                              *)

FilesInv ==
  /\ PhaseInv
  /\ recordsFile # NoFile =>
       /\ phase \in {"summary", "done", "raised"} /\ recordsFile = Records
       /\ \A g \in Groups : place[g] = "settled"
  /\ phase \in {"summary", "done"} => recordsFile = Records
  /\ summaryFile # NoFile => phase = "done" /\ summaryFile = Summary

\* The files tell what the outcomes tell, for as long as those stay.
LEMMA FilesKeep ==
  ASSUME FilesInv, UNCHANGED <<count, allowlist, place, outcome>>
  PROVE  /\ Records' = Records /\ Summary' = Summary
         /\ (\A g \in Groups : place[g] = "settled") => \A g \in Groups' : place'[g] = "settled"
<1>1. Groups' = Groups /\ Lost' = Lost
  BY DEF Groups, Lost
<1>2. Records' = Records
  BY <1>1 DEF Records
<1>3. Summary' = Summary
  BY <1>1 DEF Summary, Total, RecordsComplete
<1> QED BY <1>1, <1>2, <1>3

LEMMA FilesStep ==
  ASSUME FilesInv, [Next]_vars
  PROVE  FilesInv'
<1>1. PhaseInv /\ PhaseInv'
  BY PhaseStep DEF FilesInv
<1>2. ASSUME phase \in {"analyze", "cancel"}, UNCHANGED <<phase, recordsFile, summaryFile>>
      PROVE  FilesInv'
  BY <1>1, <1>2 DEF FilesInv
<1>3. ASSUME NEW g \in Groups, Thread(g) PROVE FilesInv'
  <2>1. phase \in {"analyze", "cancel"} /\ UNCHANGED <<phase, recordsFile, summaryFile>>
    BY <1>1, <1>3, ThreadPhase, ThreadActs
  <2> QED BY <1>2, <2>1
<1>4. ASSUME NEW g \in Groups, CancelGroup(g) PROVE FilesInv'
  <2>1. phase = "cancel" /\ UNCHANGED <<phase, recordsFile, summaryFile>>
    BY <1>4 DEF CancelGroup, outputs
  <2> QED BY <1>2, <2>1
<1>5. CASE LoadAllowlist \/ RefuseProvider \/ BreakAllowlist \/ NoticeFailure \/ RaiseFailure
             \/ CollectOutcomes
  <2>1. /\ phase \in {"load", "analyze", "cancel"} /\ UNCHANGED <<recordsFile, summaryFile>>
        /\ phase' \in {"analyze", "cancel", "raised", "records"}
    BY <1>5 DEF LoadAllowlist, RefuseProvider, BreakAllowlist, NoticeFailure, RaiseFailure,
                CollectOutcomes, outputs
  <2>2. recordsFile = NoFile /\ summaryFile = NoFile
    BY <2>1 DEF FilesInv
  <2> QED BY <1>1, <2>1, <2>2 DEF FilesInv
<1>6. CASE WriteRecords
  <2>1. /\ phase = "records" /\ phase' = "summary" /\ recordsFile' = Records
        /\ UNCHANGED <<count, allowlist, place, outcome, summaryFile>>
    BY <1>6 DEF WriteRecords, given, threads
  <2>2. Records' = Records /\ \A g \in Groups' : place'[g] = "settled"
    BY <1>1, <2>1, FilesKeep DEF PhaseInv
  <2>3. summaryFile' = NoFile
    BY <2>1 DEF FilesInv
  <2> QED BY <1>1, <2>1, <2>2, <2>3 DEF FilesInv
<1>7. CASE WriteSummary
  <2>1. /\ phase = "summary" /\ phase' = "done" /\ summaryFile' = Summary
        /\ UNCHANGED <<count, allowlist, place, outcome, recordsFile>>
    BY <1>7 DEF WriteSummary, given, threads
  <2>2. /\ Records' = Records /\ Summary' = Summary
        /\ \A g \in Groups' : place'[g] = "settled"
    BY <1>1, <2>1, FilesKeep DEF PhaseInv
  <2> QED BY <1>1, <2>1, <2>2 DEF FilesInv
<1>8. CASE BreakOutput
  <2>1. /\ phase \in {"records", "summary"} /\ phase' = "raised"
        /\ UNCHANGED <<count, allowlist, place, outcome, recordsFile, summaryFile>>
    BY <1>8 DEF BreakOutput, given, threads, outputs
  <2>2. Records' = Records /\ \A g \in Groups' : place'[g] = "settled"
    BY <1>1, <2>1, FilesKeep DEF PhaseInv
  <2>3. summaryFile' = NoFile
    BY <2>1 DEF FilesInv
  <2> QED BY <1>1, <2>1, <2>2, <2>3 DEF FilesInv
<1>9. CASE UNCHANGED vars
  <2>1. UNCHANGED <<count, allowlist, place, outcome, phase, recordsFile, summaryFile>>
    BY <1>9 DEF vars, given, threads, outputs
  <2>2. /\ Records' = Records /\ Summary' = Summary
        /\ (\A g \in Groups : place[g] = "settled") =>
             \A g \in Groups' : place'[g] = "settled"
    BY <2>1, FilesKeep
  <2> QED BY <1>1, <2>1, <2>2 DEF FilesInv
<1> QED BY <1>3, <1>4, <1>5, <1>6, <1>7, <1>8, <1>9 DEF Next, Main

\* What is in the files is what the outcomes say when every group is settled, and
\* the summary is not written before the records.
THEOREM FilesTell == Spec => []FilesInv
<1>1. Init => FilesInv
  <2> SUFFICES ASSUME Init PROVE FilesInv
    OBVIOUS
  <2>1. PhaseInv
    BY InitPhase
  <2> QED BY <2>1 DEF Init, FilesInv
<1> QED BY <1>1, FilesStep, PTL DEF Spec

-----------------------------------------------------------------------------
(* Sums.                                                                   *)

\* The units of all groups together, and the places of all groups.
UnitsOf(G, n) == UNION {{g} \X (1..n[g]) : g \in G}
PlacesOf(G, P) == UNION {{g} \X P[g] : g \in G}

\* What the units of every group come to, if each group has as many units as
\* members of a set of its own.
LEMMA SumsAgree ==
  ASSUME NEW G, IsFiniteSet(G), NEW n, NEW P,
         \A g \in G : n[g] \in 0..2 /\ IsFiniteSet(P[g]) /\ Cardinality(P[g]) = n[g]
  PROVE  Cardinality(UnitsOf(G, n)) = Cardinality(PlacesOf(G, P))
<1> DEFINE A == UnitsOf(G, n)
           C == PlacesOf(G, P)
           b == [g \in G |-> CHOOSE f : f \in Bijection(1..n[g], P[g])]
           f == [x \in A |-> <<x[1], b[x[1]][x[2]]>>]
<1>1. \A x : x \in A <=> \E g \in G : \E i \in 1..n[g] : x = <<g, i>>
  BY DEF UnitsOf
<1>2. \A x : x \in C <=> \E g \in G : \E i \in P[g] : x = <<g, i>>
  BY DEF PlacesOf
<1>3. ASSUME NEW g \in G PROVE b[g] \in Bijection(1..n[g], P[g])
  <2>1. IsFiniteSet(1..n[g]) /\ Cardinality(1..n[g]) = n[g]
    BY NumbersUpTo
  <2>2. ExistsBijection(1..n[g], P[g])
    BY <2>1, FS_SameCardinalityBij
  <2>3. \E h : h \in Bijection(1..n[g], P[g])
    BY <2>2 DEF ExistsBijection
  <2> QED BY <2>3
<1>4. ASSUME NEW g \in G
      PROVE  /\ \A i \in 1..n[g] : b[g][i] \in P[g]
             /\ \A i, j \in 1..n[g] : b[g][i] = b[g][j] => i = j
             /\ \A y \in P[g] : \E i \in 1..n[g] : b[g][i] = y
  <2>1. b[g] \in Injection(1..n[g], P[g]) /\ b[g] \in Surjection(1..n[g], P[g])
    BY <1>3 DEF Bijection
  <2> HIDE DEF b
  <2>2. b[g] \in [1..n[g] -> P[g]] /\ \A y \in P[g] : \E i \in 1..n[g] : b[g][i] = y
    BY <2>1 DEF Surjection
  <2>3. DOMAIN b[g] = 1..n[g]
    BY <2>2
  <2>4. \A i, j \in 1..n[g] : b[g][i] = b[g][j] => i = j
    BY <2>1, <2>3 DEF Injection, IsInjective
  <2> QED BY <2>2, <2>4
<1>5. IsFiniteSet(A)
  <2>1. A \subseteq G \X (1..2)
    BY <1>1
  <2>2. IsFiniteSet(G \X (1..2))
    BY NumbersUpTo, FS_Product
  <2> QED BY <2>1, <2>2, FS_Subset
<1> HIDE DEF A, C, b
<1>6. ASSUME NEW x \in A PROVE f[x] \in C /\ f[x][1] = x[1] /\ f[x][2] = b[x[1]][x[2]]
  BY <1>1, <1>2, <1>4
<1>7. f \in Injection(A, C)
  <2>1. f \in [A -> C] /\ DOMAIN f = A
    BY <1>6
  <2>2. ASSUME NEW x \in A, NEW y \in A, f[x] = f[y] PROVE x = y
    <3>1. x[1] = y[1] /\ b[x[1]][x[2]] = b[y[1]][y[2]]
      BY <1>6, <2>2
    <3>2. PICK g \in G : \E i \in 1..n[g] : x = <<g, i>>
      BY <1>1
    <3>3. PICK h \in G : \E j \in 1..n[h] : y = <<h, j>>
      BY <1>1
    <3>4. x = <<g, x[2]>> /\ y = <<h, y[2]>> /\ x[2] \in 1..n[g] /\ y[2] \in 1..n[h]
            /\ x[1] = g /\ y[1] = h
      BY <3>2, <3>3
    <3>5. g = h
      BY <3>1, <3>4
    <3>6. b[g][x[2]] = b[g][y[2]] /\ x[2] \in 1..n[g] /\ y[2] \in 1..n[g]
      BY <3>1, <3>4, <3>5
    <3>7. x[2] = y[2]
      BY <1>4, <3>6
    <3> QED BY <3>4, <3>5, <3>7
  <2> HIDE DEF f
  <2> QED BY <2>1, <2>2 DEF Injection, IsInjective
<1>8. f \in Surjection(A, C)
  <2>1. f \in [A -> C]
    BY <1>6
  <2>2. ASSUME NEW y \in C PROVE \E x \in A : f[x] = y
    <3>1. PICK g \in G : \E i \in P[g] : y = <<g, i>>
      BY <1>2
    <3>2. PICK i \in P[g] : y = <<g, i>>
      BY <3>1
    <3>3. PICK j \in 1..n[g] : b[g][j] = i
      BY <1>4
    <3>4. <<g, j>> \in A
      BY <1>1
    <3>5. f[<<g, j>>] = y
      BY <3>2, <3>3, <3>4
    <3> QED BY <3>4, <3>5
  <2> HIDE DEF f
  <2> QED BY <2>1, <2>2 DEF Surjection
<1>9. ExistsBijection(A, C)
  BY <1>7, <1>8 DEF ExistsBijection, Bijection
<1>10. Cardinality(C) = Cardinality(A)
  BY <1>5, <1>9, FS_Bijection
<1> QED BY <1>10 DEF A, C

\* A counter that is 0 or 1 counts the groups where it is 1.
LEMMA FlagsCount ==
  ASSUME NEW G, IsFiniteSet(G), NEW n, \A g \in G : n[g] \in {0, 1}
  PROVE  Cardinality(UnitsOf(G, n)) = Cardinality({g \in G : n[g] = 1})
<1> DEFINE A == UnitsOf(G, n)
           D == {g \in G : n[g] = 1}
           f == [g \in D |-> <<g, 1>>]
<1>1. ASSUME NEW x PROVE x \in A <=> \E g \in D : x = <<g, 1>>
  <2>1. x \in A <=> \E g \in G : \E i \in 1..n[g] : x = <<g, i>>
    BY DEF UnitsOf
  <2>2. ASSUME NEW g \in G PROVE 1..n[g] = IF n[g] = 1 THEN {1} ELSE {}
    <3>1. CASE n[g] = 0
      BY <3>1
    <3>2. CASE n[g] = 1
      BY <3>2
    <3> QED BY <3>1, <3>2
  <2> HIDE DEF A
  <2> QED BY <2>1, <2>2
<1>2. IsFiniteSet(D)
  <2>1. D \subseteq G
    OBVIOUS
  <2> QED BY <2>1, FS_Subset
<1> HIDE DEF A, D
<1>3. f \in [D -> A] /\ DOMAIN f = D /\ \A g \in D : f[g] = <<g, 1>>
  BY <1>1
<1>4. \A g, h \in D : f[g] = f[h] => g = h
  OBVIOUS
<1>5. \A x \in A : \E g \in D : f[g] = x
  BY <1>1
<1> HIDE DEF f
<1>6. f \in Injection(D, A) /\ f \in Surjection(D, A)
  BY <1>3, <1>4, <1>5 DEF Injection, IsInjective, Surjection
<1>7. ExistsBijection(D, A)
  BY <1>6 DEF ExistsBijection, Bijection
<1>8. Cardinality(A) = Cardinality(D)
  BY <1>2, <1>7, FS_Bijection
<1> QED BY <1>8 DEF A, D

-----------------------------------------------------------------------------
(* What is published.                                                      *)

LEMMA GroupsAreFew ==
  ASSUME RequestInv, NEW S, S \subseteq Groups
  PROVE  IsFiniteSet(S) /\ S \subseteq Int /\ IsOrder(S, Ascending(S))
<1>1. S \subseteq Slots
  BY DEF RequestInv
<1>2. IsFiniteSet(Slots) /\ Slots \subseteq Int
  BY PipelineAssumption, NumbersUpTo DEF Slots
<1>3. IsFiniteSet(S) /\ S \subseteq Int
  BY <1>1, <1>2, FS_Subset
<1> QED BY <1>3, AscendingIsOrder

\* A record is a judgement, so that a lost group is one without a publishable answer.
LEMMA SettledTells ==
  ASSUME OutcomeInv, \A g \in Groups : place[g] = "settled"
  PROVE  /\ \A g \in Groups : Closed(g)
         /\ Lost = {g \in Groups : ~Publishable(g)}
         /\ Groups \ Lost = {g \in Groups : Publishable(g)}
         /\ \A g \in Groups \ Lost : outcome[g].record = RecordOf(g)
         /\ \A g \in Groups : /\ Publishable(g) => Last(results[g]) \in Answers
                              /\ outcome[g].invalid \in {0, 1}
                              /\ outcome[g].invalid = 1 <=> ~Publishable(g)
<1>1. ASSUME NEW g \in Groups PROVE g \in Slots /\ Closed(g) /\ HoldsRecord(g)
  BY <1>1 DEF OutcomeInv, RequestInv, OutcomeTells, Closed
<1>2. ASSUME NEW g \in Groups, Publishable(g) PROVE Last(results[g]) \in Answers
  <2>1. results[g] \in Seq(Answers \cup {NoAnswer}) /\ results[g] # <<>>
    BY <1>1, <1>2 DEF OutcomeInv, RequestInv, Publishable
  <2>2. Last(results[g]) \in Answers \cup {NoAnswer}
    BY <2>1 DEF Last
  <2> QED BY <1>2, <2>2 DEF Publishable
<1>3. ASSUME NEW g \in Groups, Publishable(g) PROVE RecordOf(g) # NoAnswer
  <2>1. Last(results[g]) \in Judgements
    BY <1>2, <1>3, PipelineAssumption
  <2>2. RecordOf(g) \in Judgements
    BY <2>1 DEF RecordOf, Judgements
  <2> QED BY <2>2, PipelineAssumption
<1>4. \A g \in Groups : outcome[g].record = NoAnswer <=> ~Publishable(g)
  BY <1>1, <1>3 DEF HoldsRecord
<1>5. \A g \in Groups : /\ Publishable(g) => outcome[g].record = RecordOf(g)
                        /\ outcome[g].invalid \in {0, 1}
                        /\ outcome[g].invalid = 1 <=> ~Publishable(g)
  BY <1>1 DEF HoldsRecord
<1>6. /\ Lost = {g \in Groups : ~Publishable(g)}
      /\ Groups \ Lost = {g \in Groups : Publishable(g)}
  BY <1>4 DEF Lost
<1> QED BY <1>1, <1>2, <1>5, <1>6

\* Each record is about one group, in the order of the groups.
LEMMA FileTells ==
  ASSUME OutcomeInv, recordsFile = Records, \A g \in Groups : place[g] = "settled"
  PROVE  \E n \in Nat :
           /\ n = Cardinality(Groups \ Lost) /\ n = Len(recordsFile)
           /\ DOMAIN recordsFile = 1..n
           /\ \A k \in 1..n : /\ recordsFile[k].group \in Groups \ Lost
                              /\ recordsFile[k].record = RecordOf(recordsFile[k].group)
           /\ \A g \in Groups \ Lost : \E k \in 1..n : recordsFile[k].group = g
           /\ \A k, l \in 1..n : k < l => recordsFile[k].group < recordsFile[l].group
<1> DEFINE kept == Groups \ Lost
           n == Cardinality(kept)
           rs == recordsFile
           nth(k) == Nth(kept, Ascending(kept), k)
<1>1. IsFiniteSet(kept) /\ kept \subseteq Int /\ IsOrder(kept, Ascending(kept))
  <2>1. kept \subseteq Groups
    OBVIOUS
  <2> QED BY <2>1, GroupsAreFew DEF OutcomeInv
<1>2. n \in Nat
  BY <1>1, FS_CardinalityType
<1>3. rs = [k \in 1..n |-> [group |-> nth(k), record |-> outcome[nth(k)].record]]
  BY DEF Records
<1>4. \A g \in kept : outcome[g].record = RecordOf(g)
  BY SettledTells
<1>5. \A k \in 1..n : nth(k) \in kept
  BY <1>1, NthTells
<1>6. \A g \in kept : \E k \in 1..n : nth(k) = g
  BY <1>1, NthOfAll
<1>7. ASSUME NEW k \in 1..n, NEW l \in 1..n, k < l PROVE nth(k) < nth(l)
  <2>1. <<nth(k), nth(l)>> \in Ascending(kept) /\ nth(k) # nth(l)
    BY <1>1, <1>7, NthInOrder
  <2>2. nth(k) \in Int /\ nth(l) \in Int
    BY <1>1, <1>5
  <2>3. nth(k) <= nth(l)
    BY <2>1 DEF Ascending
  <2> HIDE DEF nth
  <2> QED BY <2>1, <2>2, <2>3
<1> HIDE DEF nth, kept, n
<1>8. DOMAIN rs = 1..n
        /\ \A k \in 1..n : rs[k].group = nth(k) /\ rs[k].record = outcome[nth(k)].record
  BY <1>3
<1>9. Len(rs) = n
  <2> DEFINE R == {rs[k] : k \in 1..n}
  <2>1. rs \in [1..n -> R]
    BY <1>3, <1>8
  <2> HIDE DEF R
  <2>2. rs \in Seq(R)
    BY <1>2, <2>1, SeqDef
  <2>3. Len(rs) \in Nat /\ DOMAIN rs = 1..Len(rs)
    BY <2>2, LenProperties
  <2>4. Cardinality(1..n) = n /\ Cardinality(1..Len(rs)) = Len(rs)
    BY <1>2, <2>3, NumbersUpTo
  <2> QED BY <1>8, <2>3, <2>4
<1>10. n = Cardinality(Groups \ Lost)
  BY DEF n, kept
<1>11. \A k \in 1..n : rs[k].group \in Groups \ Lost /\ rs[k].record = RecordOf(rs[k].group)
  BY <1>4, <1>5, <1>8 DEF kept
<1>12. \A g \in Groups \ Lost : \E k \in 1..n : rs[k].group = g
  BY <1>6, <1>8 DEF kept
<1>13. \A k, l \in 1..n : k < l => rs[k].group < rs[l].group
  BY <1>7, <1>8
<1> QED BY <1>2, <1>8, <1>9, <1>10, <1>11, <1>12, <1>13

\* For any number of groups, threads and retries, any answers and any order in
\* which they come: analysis.jsonl holds exactly the records that the last answers
\* allow, in the order of the groups.
THEOREM RecordsAreRight == Spec => []RecordsFollowAnswers
<1>1. OutcomeInv /\ FilesInv => RecordsFollowAnswers
  <2> SUFFICES ASSUME OutcomeInv, FilesInv, recordsFile # NoFile
               PROVE  RecordsFollowAnswers
    BY DEF RecordsFollowAnswers
  <2>1. recordsFile = Records /\ \A g \in Groups : place[g] = "settled"
    BY DEF FilesInv
  <2>2. PICK n \in Nat :
          /\ DOMAIN recordsFile = 1..n
          /\ \A k \in 1..n : /\ recordsFile[k].group \in Groups \ Lost
                             /\ recordsFile[k].record = RecordOf(recordsFile[k].group)
          /\ \A g \in Groups \ Lost : \E k \in 1..n : recordsFile[k].group = g
          /\ \A k, l \in 1..n : k < l => recordsFile[k].group < recordsFile[l].group
    BY <2>1, FileTells
  <2>3. Groups \ Lost = {g \in Groups : Publishable(g)}
    BY <2>1, SettledTells
  <2>4. {recordsFile[i].group : i \in DOMAIN recordsFile} = {g \in Groups : Publishable(g)}
    <3>1. \A g \in Groups : Publishable(g) => \E k \in 1..n : recordsFile[k].group = g
      BY <2>2, <2>3
    <3>2. \A k \in 1..n : recordsFile[k].group \in {g \in Groups : Publishable(g)}
      BY <2>2, <2>3
    <3> QED BY <2>2, <3>1, <3>2
  <2> QED BY <2>2, <2>4 DEF RecordsFollowAnswers
<1> QED BY <1>1, OutcomesTell, FilesTell, PTL

\* "COMPLETE" is never said of a run that lost a group or could not check an
\* objective against the allowlist, whatever the model answered.
THEOREM CompleteIsChecked == Spec => []CompleteMeansChecked
<1>1. OutcomeInv /\ FilesInv => CompleteMeansChecked
  <2> SUFFICES ASSUME OutcomeInv, FilesInv, summaryFile # NoFile, summaryFile.complete
               PROVE  /\ \A g \in Groups : \E i \in DOMAIN recordsFile :
                           recordsFile[i].group = g
                      /\ \A i \in DOMAIN recordsFile :
                           recordsFile[i].record.objective # "unlisted"
    BY DEF CompleteMeansChecked
  <2>1. /\ summaryFile = Summary /\ recordsFile = Records
        /\ \A g \in Groups : place[g] = "settled"
    BY DEF FilesInv, PhaseInv
  <2>2. Lost = {} /\ allowlist
    BY <2>1 DEF Summary, RecordsComplete
  <2>3. PICK n \in Nat :
          /\ DOMAIN recordsFile = 1..n
          /\ \A k \in 1..n : /\ recordsFile[k].group \in Groups \ Lost
                             /\ recordsFile[k].record = RecordOf(recordsFile[k].group)
          /\ \A g \in Groups \ Lost : \E k \in 1..n : recordsFile[k].group = g
    BY <2>1, FileTells
  <2>4. \A g \in Groups : \E i \in DOMAIN recordsFile : recordsFile[i].group = g
    BY <2>2, <2>3
  <2>5. ASSUME NEW g \in Groups PROVE RecordOf(g).objective # "unlisted"
    <3>1. Publishable(g) /\ Last(results[g]) \in Answers
      BY <2>1, <2>2, <2>5, SettledTells
    <3>2. PICK a : a = Last(results[g])
      OBVIOUS
    <3>3. a \in Judgements
      BY <3>1, <3>2, PipelineAssumption
    <3>4. RecordOf(g) = IF "objective" \in Errors(a) THEN [a EXCEPT !.objective = "none"] ELSE a
      BY <3>2 DEF RecordOf
    <3>5. CASE a.objective = "unlisted"
      <4>1. "objective" \in Errors(a)
        BY <2>2, <3>5 DEF Errors
      <4> QED BY <3>3, <3>4, <4>1 DEF Judgements
    <3>6. CASE a.objective # "unlisted"
      BY <3>3, <3>4, <3>6 DEF Judgements
    <3> QED BY <3>5, <3>6
  <2> QED BY <2>3, <2>4, <2>5
<1> QED BY <1>1, OutcomesTell, FilesTell, PTL

-----------------------------------------------------------------------------
(* The summary.                                                            *)

\* How many of at most two places are in a set.
LEMMA PlacesCount ==
  ASSUME NEW len \in {1, 2}, NEW P, P \subseteq 1..len, NEW n,
         len = 1 => n = IF 1 \in P THEN 1 ELSE 0,
         len = 2 => n = (IF 1 \in P THEN 1 ELSE 0) + (IF 2 \in P THEN 1 ELSE 0)
  PROVE  IsFiniteSet(P) /\ Cardinality(P) = n /\ n \in 0..2
<1>1. /\ IsFiniteSet({}) /\ Cardinality({}) = 0
      /\ IsFiniteSet({1}) /\ Cardinality({1}) = 1
      /\ IsFiniteSet({2}) /\ Cardinality({2}) = 1
  BY FS_EmptySet, FS_Singleton
<1>2. IsFiniteSet({1} \cup {2}) /\ Cardinality({1} \cup {2}) = 2
  <2>1. IsFiniteSet(1..2) /\ Cardinality(1..2) = 2
    BY 2 \in Nat, NumbersUpTo
  <2>2. {1} \cup {2} = 1..2
    OBVIOUS
  <2> QED BY <2>1, <2>2
<1>3. CASE len = 1
  <2> P \subseteq {1}
    BY <1>3
  <2>1. CASE 1 \in P
    <3>1. P = {1}
      BY <2>1
    <3> QED BY <1>1, <1>3, <3>1
  <2>2. CASE 1 \notin P
    <3>1. P = {}
      BY <2>2
    <3> QED BY <1>1, <1>3, <3>1
  <2> QED BY <2>1, <2>2
<1>4. CASE len = 2
  <2> P \subseteq {1, 2}
    BY <1>4
  <2>1. CASE 1 \in P /\ 2 \in P
    <3>1. P = {1} \cup {2}
      BY <2>1
    <3> QED BY <1>2, <1>4, <3>1
  <2>2. CASE 1 \in P /\ 2 \notin P
    <3>1. P = {1}
      BY <2>2
    <3> QED BY <1>1, <1>4, <3>1
  <2>3. CASE 1 \notin P /\ 2 \in P
    <3>1. P = {2}
      BY <2>3
    <3> QED BY <1>1, <1>4, <3>1
  <2>4. CASE 1 \notin P /\ 2 \notin P
    <3>1. P = {}
      BY <2>4
    <3> QED BY <1>1, <1>4, <3>1
  <2> QED BY <2>1, <2>2, <2>3, <2>4
<1> QED BY <1>3, <1>4

\* The places of the broken and of the unsafe results of a group.
BrokenPlaces(g) ==
  {i \in DOMAIN results[g] : results[g][i] = NoAnswer \/ Errors(results[g][i]) # {}}
UnsafePlaces(g) ==
  {i \in DOMAIN results[g] : results[g][i] # NoAnswer /\ "unsafe" \in Errors(results[g][i])}

LEMMA CountersTell ==
  ASSUME OutcomeInv, NEW g \in Slots, Closed(g)
  PROVE  /\ Len(results[g]) \in {1, 2} /\ DOMAIN results[g] = 1..Len(results[g])
         /\ IsFiniteSet(BrokenPlaces(g)) /\ Cardinality(BrokenPlaces(g)) = outcome[g].observed
         /\ outcome[g].observed \in 0..2
         /\ IsFiniteSet(UnsafePlaces(g))
         /\ Cardinality(UnsafePlaces(g)) = outcome[g].unsafeObserved
         /\ outcome[g].unsafeObserved \in 0..2
<1> DEFINE rs == results[g]
           len == Len(rs)
<1>1. rs \in Seq(Answers \cup {NoAnswer})
  BY DEF OutcomeInv, RequestInv
<1>2. len \in {1, 2} /\ DOMAIN rs = 1..len
  BY <1>1, LenProperties DEF Closed
<1>3. \A i \in DOMAIN rs : /\ i \in BrokenPlaces(g) <=> Broken(allowlist, rs[i])
                           /\ i \in UnsafePlaces(g) <=> Unsafe(allowlist, rs[i])
  BY DEF BrokenPlaces, UnsafePlaces, Broken, Unsafe, Errors, ErrorsIf
<1>4. BrokenPlaces(g) \subseteq DOMAIN rs /\ UnsafePlaces(g) \subseteq DOMAIN rs
  BY DEF BrokenPlaces, UnsafePlaces
<1>5. \/ /\ len = 1
         /\ outcome[g].observed = BrokenUnit(allowlist, rs[1])
         /\ outcome[g].unsafeObserved = UnsafeUnit(allowlist, rs[1])
      \/ /\ len = 2
         /\ outcome[g].observed = BrokenUnit(allowlist, rs[1]) + BrokenUnit(allowlist, rs[2])
         /\ outcome[g].unsafeObserved = UnsafeUnit(allowlist, rs[1]) + UnsafeUnit(allowlist, rs[2])
  BY DEF Closed, CountsBroken
<1>6. ASSUME NEW i \in DOMAIN rs
      PROVE  /\ BrokenUnit(allowlist, rs[i]) = IF i \in BrokenPlaces(g) THEN 1 ELSE 0
             /\ UnsafeUnit(allowlist, rs[i]) = IF i \in UnsafePlaces(g) THEN 1 ELSE 0
  BY <1>3 DEF BrokenUnit, UnsafeUnit
<1> HIDE DEF rs, len
<1>7. CASE len = 1
  <2>1. 1 \in DOMAIN rs
    BY <1>2, <1>7
  <2> QED BY <1>2, <1>4, <1>5, <1>6, <1>7, <2>1, PlacesCount DEF rs, len
<1>8. CASE len = 2
  <2>1. 1 \in DOMAIN rs /\ 2 \in DOMAIN rs
    BY <1>2, <1>8
  <2> QED BY <1>2, <1>4, <1>5, <1>6, <1>8, <2>1, PlacesCount DEF rs, len
<1> QED BY <1>2, <1>7, <1>8

\* The sums of the summary, when every group is settled.
LEMMA TotalsTell ==
  ASSUME OutcomeInv, \A g \in Groups : place[g] = "settled"
  PROVE  /\ Total("calls") = Observed(LAMBDA a : TRUE)
         /\ Total("retries") = Cardinality({g \in Groups : Len(results[g]) = 2})
         /\ Total("observed") = Observed(LAMBDA a : a = NoAnswer \/ Errors(a) # {})
         /\ Total("unsafeObserved") = Observed(LAMBDA a : a # NoAnswer /\ "unsafe" \in Errors(a))
         /\ Total("invalid") = Cardinality(Lost)
         /\ Total("goodObjective") = Cardinality({g \in Groups : outcome[g].goodObjective = 1})
         /\ Total("unsafe") = Cardinality({g \in Groups : LeftUnsafe(g)})
         /\ Total("badObjective") = Cardinality({g \in Groups : LosesObjective(g)})
<1>1. IsFiniteSet(Groups)
  BY GroupsAreFew DEF OutcomeInv
<1>2. ASSUME NEW g \in Groups PROVE g \in Slots /\ Closed(g)
  BY <1>2, SettledTells DEF OutcomeInv, RequestInv
<1>3. ASSUME NEW g \in Groups
      PROVE  /\ Len(results[g]) \in {1, 2} /\ DOMAIN results[g] = 1..Len(results[g])
             /\ IsFiniteSet(BrokenPlaces(g))
             /\ Cardinality(BrokenPlaces(g)) = outcome[g].observed
             /\ outcome[g].observed \in 0..2
             /\ IsFiniteSet(UnsafePlaces(g))
             /\ Cardinality(UnsafePlaces(g)) = outcome[g].unsafeObserved
             /\ outcome[g].unsafeObserved \in 0..2
  BY <1>2, CountersTell
<1>4. ASSUME NEW g \in Groups
      PROVE  /\ outcome[g].calls = Len(results[g]) /\ outcome[g].retries = Len(results[g]) - 1
             /\ outcome[g].goodObjective \in {0, 1}
             /\ outcome[g].invalid \in {0, 1} /\ (outcome[g].invalid = 1 <=> g \in Lost)
  <2>1. /\ outcome[g].calls = Len(results[g]) /\ outcome[g].retries = Len(results[g]) - 1
        /\ HoldsRecord(g)
    BY <1>2 DEF Closed
  <2>2. outcome[g].goodObjective \in {0, 1}
    BY <2>1 DEF HoldsRecord, GoodUnit
  <2>3. outcome[g].invalid \in {0, 1} /\ (outcome[g].invalid = 1 <=> g \in Lost)
    BY SettledTells
  <2> QED BY <2>1, <2>2, <2>3
<1>5. Total("calls") = Observed(LAMBDA a : TRUE)
  <2>1. \A g \in Groups : 1..outcome[g].calls = {i \in DOMAIN results[g] : TRUE}
    BY <1>3, <1>4
  <2>2. UNION {{g} \X (1..outcome[g].calls) : g \in Groups} =
        UNION {{g} \X {i \in DOMAIN results[g] : TRUE} : g \in Groups}
    BY <2>1
  <2> QED BY <2>2 DEF Total, Observed
<1>6. Total("retries") = Cardinality({g \in Groups : Len(results[g]) = 2})
  <2> DEFINE n == [g \in Groups |-> outcome[g].retries]
  <2>1. ASSUME NEW g \in Groups PROVE n[g] \in {0, 1} /\ (n[g] = 1 <=> Len(results[g]) = 2)
    <3>1. n[g] = Len(results[g]) - 1 /\ Len(results[g]) \in {1, 2}
      BY <1>3, <1>4
    <3> HIDE DEF n
    <3>2. CASE Len(results[g]) = 1
      BY <3>1, <3>2
    <3>3. CASE Len(results[g]) = 2
      BY <3>1, <3>3
    <3> QED BY <3>1, <3>2, <3>3
  <2>2. {g \in Groups : n[g] = 1} = {g \in Groups : Len(results[g]) = 2}
    BY <2>1
  <2>3. Total("retries") = Cardinality(UnitsOf(Groups, n))
    BY DEF Total, UnitsOf
  <2> HIDE DEF n
  <2>4. Cardinality(UnitsOf(Groups, n)) = Cardinality({g \in Groups : n[g] = 1})
    BY <1>1, <2>1, FlagsCount
  <2> QED BY <2>2, <2>3, <2>4
<1>7. Total("invalid") = Cardinality(Lost)
  <2> DEFINE n == [g \in Groups |-> outcome[g].invalid]
  <2>1. \A g \in Groups : n[g] \in {0, 1} /\ (n[g] = 1 <=> g \in Lost)
    BY <1>4
  <2>2. {g \in Groups : n[g] = 1} = Lost
    BY <2>1 DEF Lost
  <2>3. Total("invalid") = Cardinality(UnitsOf(Groups, n))
    BY DEF Total, UnitsOf
  <2> HIDE DEF n
  <2>4. Cardinality(UnitsOf(Groups, n)) = Cardinality({g \in Groups : n[g] = 1})
    BY <1>1, <2>1, FlagsCount
  <2> QED BY <2>2, <2>3, <2>4
<1>8. Total("goodObjective") = Cardinality({g \in Groups : outcome[g].goodObjective = 1})
  <2> DEFINE n == [g \in Groups |-> outcome[g].goodObjective]
  <2>1. \A g \in Groups : n[g] \in {0, 1} /\ n[g] = outcome[g].goodObjective
    BY <1>4
  <2>2. {g \in Groups : n[g] = 1} = {g \in Groups : outcome[g].goodObjective = 1}
    BY <2>1
  <2>3. Total("goodObjective") = Cardinality(UnitsOf(Groups, n))
    BY DEF Total, UnitsOf
  <2> HIDE DEF n
  <2>4. Cardinality(UnitsOf(Groups, n)) = Cardinality({g \in Groups : n[g] = 1})
    BY <1>1, <2>1, FlagsCount
  <2> QED BY <2>2, <2>3, <2>4
<1>9. Total("observed") = Observed(LAMBDA a : a = NoAnswer \/ Errors(a) # {})
  <2> DEFINE n == [g \in Groups |-> outcome[g].observed]
             P == [g \in Groups |-> BrokenPlaces(g)]
  <2>1. \A g \in Groups : n[g] \in 0..2 /\ IsFiniteSet(P[g]) /\ Cardinality(P[g]) = n[g]
    BY <1>3
  <2>2. Total("observed") = Cardinality(UnitsOf(Groups, n))
    BY DEF Total, UnitsOf
  <2>3. Observed(LAMBDA a : a = NoAnswer \/ Errors(a) # {}) =
        Cardinality(PlacesOf(Groups, P))
    BY DEF Observed, PlacesOf, BrokenPlaces
  <2> HIDE DEF n, P
  <2>4. Cardinality(UnitsOf(Groups, n)) = Cardinality(PlacesOf(Groups, P))
    BY <1>1, <2>1, SumsAgree
  <2> QED BY <2>2, <2>3, <2>4
<1>10. Total("unsafeObserved") = Observed(LAMBDA a : a # NoAnswer /\ "unsafe" \in Errors(a))
  <2> DEFINE n == [g \in Groups |-> outcome[g].unsafeObserved]
             P == [g \in Groups |-> UnsafePlaces(g)]
  <2>1. \A g \in Groups : n[g] \in 0..2 /\ IsFiniteSet(P[g]) /\ Cardinality(P[g]) = n[g]
    BY <1>3
  <2>2. Total("unsafeObserved") = Cardinality(UnitsOf(Groups, n))
    BY DEF Total, UnitsOf
  <2>3. Observed(LAMBDA a : a # NoAnswer /\ "unsafe" \in Errors(a)) =
        Cardinality(PlacesOf(Groups, P))
    BY DEF Observed, PlacesOf, UnsafePlaces
  <2> HIDE DEF n, P
  <2>4. Cardinality(UnitsOf(Groups, n)) = Cardinality(PlacesOf(Groups, P))
    BY <1>1, <2>1, SumsAgree
  <2> QED BY <2>2, <2>3, <2>4
<1>11. Total("unsafe") = Cardinality({g \in Groups : LeftUnsafe(g)})
  <2> DEFINE n == [g \in Groups |-> outcome[g].unsafe]
  <2>1. \A g \in Groups : n[g] \in {0, 1} /\ (n[g] = 1 <=> LeftUnsafe(g))
    BY <1>2 DEF Closed, Flag
  <2>2. {g \in Groups : n[g] = 1} = {g \in Groups : LeftUnsafe(g)}
    BY <2>1
  <2>3. Total("unsafe") = Cardinality(UnitsOf(Groups, n))
    BY DEF Total, UnitsOf
  <2> HIDE DEF n
  <2>4. Cardinality(UnitsOf(Groups, n)) = Cardinality({g \in Groups : n[g] = 1})
    BY <1>1, <2>1, FlagsCount
  <2> QED BY <2>2, <2>3, <2>4
<1>12. Total("badObjective") = Cardinality({g \in Groups : LosesObjective(g)})
  <2> DEFINE n == [g \in Groups |-> outcome[g].badObjective]
  <2>1. \A g \in Groups : n[g] \in {0, 1} /\ (n[g] = 1 <=> LosesObjective(g))
    BY <1>2 DEF Closed, Flag
  <2>2. {g \in Groups : n[g] = 1} = {g \in Groups : LosesObjective(g)}
    BY <2>1
  <2>3. Total("badObjective") = Cardinality(UnitsOf(Groups, n))
    BY DEF Total, UnitsOf
  <2> HIDE DEF n
  <2>4. Cardinality(UnitsOf(Groups, n)) = Cardinality({g \in Groups : n[g] = 1})
    BY <1>1, <2>1, FlagsCount
  <2> QED BY <2>2, <2>3, <2>4
<1> QED BY <1>5, <1>6, <1>7, <1>8, <1>9, <1>10, <1>11, <1>12

\* The objectives in the file are those that the outcomes count.
LEMMA ObjectivesCount ==
  ASSUME OutcomeInv, recordsFile = Records, \A g \in Groups : place[g] = "settled"
  PROVE  Cardinality({i \in DOMAIN recordsFile : recordsFile[i].record.objective # "none"}) =
         Cardinality({g \in Groups : outcome[g].goodObjective = 1})
<1> DEFINE E == {i \in DOMAIN recordsFile : recordsFile[i].record.objective # "none"}
           D == {g \in Groups : outcome[g].goodObjective = 1}
           f == [i \in E |-> recordsFile[i].group]
<1>1. PICK n \in Nat :
        /\ DOMAIN recordsFile = 1..n
        /\ \A k \in 1..n : /\ recordsFile[k].group \in Groups \ Lost
                           /\ recordsFile[k].record = RecordOf(recordsFile[k].group)
        /\ \A g \in Groups \ Lost : \E k \in 1..n : recordsFile[k].group = g
        /\ \A k, l \in 1..n : k < l => recordsFile[k].group < recordsFile[l].group
  BY FileTells
<1>2. \A g \in Groups : g \in D <=> g \in Groups \ Lost /\ RecordOf(g).objective # "none"
  <2>1. ASSUME NEW g \in Groups
        PROVE  outcome[g].goodObjective = 1 <=>
                 Publishable(g) /\ RecordOf(g).objective # "none"
    <3>1. HoldsRecord(g)
      BY SettledTells DEF Closed
    <3>2. CASE Publishable(g) /\ outcome[g].goodObjective = GoodUnit(RecordOf(g))
      BY <3>2 DEF GoodUnit
    <3>3. CASE ~Publishable(g) /\ outcome[g].goodObjective = 0
      BY <3>3
    <3> QED BY <3>1, <3>2, <3>3 DEF HoldsRecord
  <2>2. Groups \ Lost = {g \in Groups : Publishable(g)}
    BY SettledTells
  <2> QED BY <2>1, <2>2
<1>3. \A i \in E : i \in 1..n /\ recordsFile[i].group \in D
  BY <1>1, <1>2
<1>4. \A g \in D : g \in Groups \ Lost /\ RecordOf(g).objective # "none"
  BY <1>2
<1>5. IsFiniteSet(E)
  <2>1. E \subseteq 1..n
    BY <1>1
  <2> QED BY <2>1, NumbersUpTo, FS_Subset
<1>6. \A i \in 1..n : recordsFile[i].group \in Int
  <2>1. Groups \subseteq Int
    BY GroupsAreFew DEF OutcomeInv
  <2> QED BY <1>1, <2>1
<1>7. \A g \in D : \E i \in E : recordsFile[i].group = g
  BY <1>1, <1>4
<1>8. ASSUME NEW i \in E, NEW j \in E, recordsFile[i].group = recordsFile[j].group PROVE i = j
  <2>1. i \in 1..n /\ j \in 1..n
    BY <1>3
  <2> HIDE DEF E
  <2>2. i \in Int /\ j \in Int /\ recordsFile[i].group \in Int /\ recordsFile[j].group \in Int
    BY <1>6, <2>1
  <2>3. ~(i < j) /\ ~(j < i)
    BY <1>1, <1>8, <2>1, <2>2
  <2> QED BY <2>2, <2>3
<1> HIDE DEF E, D
<1>9. f \in [E -> D] /\ DOMAIN f = E /\ \A i \in E : f[i] = recordsFile[i].group
  BY <1>3
<1> HIDE DEF f
<1>10. f \in Injection(E, D) /\ f \in Surjection(E, D)
  BY <1>7, <1>8, <1>9 DEF Injection, IsInjective, Surjection
<1>11. ExistsBijection(E, D)
  BY <1>10 DEF ExistsBijection, Bijection
<1>12. Cardinality(D) = Cardinality(E)
  BY <1>5, <1>11, FS_Bijection
<1> QED BY <1>12 DEF E, D

\* For any number of groups, threads and retries and any answers: the summary
\* counts every call, every broken and every unsafe answer whether it was repaired
\* or not, names the lost groups and says how many were left with an unsafe
\* answer, and counts the objectives that are in the file or were taken out of it.
THEOREM SummaryIsTrue == Spec => []SummaryTellsTheTruth
<1>1. OutcomeInv /\ FilesInv => SummaryTellsTheTruth
  <2> SUFFICES ASSUME OutcomeInv, FilesInv, summaryFile # NoFile
               PROVE  SummaryTellsTheTruth
    BY DEF SummaryTellsTheTruth
  <2>1. /\ summaryFile = Summary /\ recordsFile = Records
        /\ \A g \in Groups : place[g] = "settled"
    BY DEF FilesInv, PhaseInv
  <2>2. /\ Total("calls") = Observed(LAMBDA a : TRUE)
        /\ Total("retries") = Cardinality({g \in Groups : Len(results[g]) = 2})
        /\ Total("observed") = Observed(LAMBDA a : a = NoAnswer \/ Errors(a) # {})
        /\ Total("unsafeObserved") =
             Observed(LAMBDA a : a # NoAnswer /\ "unsafe" \in Errors(a))
        /\ Total("invalid") = Cardinality(Lost)
        /\ Total("goodObjective") = Cardinality({g \in Groups : outcome[g].goodObjective = 1})
        /\ Total("unsafe") = Cardinality({g \in Groups : LeftUnsafe(g)})
        /\ Total("badObjective") = Cardinality({g \in Groups : LosesObjective(g)})
    BY <2>1, TotalsTell
  <2>3. /\ summaryFile.calls = Total("calls") /\ summaryFile.retries = Total("retries")
        /\ summaryFile.observed = Total("observed")
        /\ summaryFile.unsafeObserved = Total("unsafeObserved")
        /\ summaryFile.invalid = Total("invalid")
        /\ summaryFile.goodObjective = Total("goodObjective")
        /\ summaryFile.unsafe = Total("unsafe")
        /\ summaryFile.badObjective = Total("badObjective")
        /\ summaryFile.missing = Lost
        /\ summaryFile.records = Cardinality(Groups \ Lost)
    BY <2>1 DEF Summary
  <2>4. Len(recordsFile) = Cardinality(Groups \ Lost)
    BY <2>1, FileTells
  <2>5. Lost = {g \in Groups : ~Publishable(g)}
    BY <2>1, SettledTells
  <2>6. summaryFile.goodObjective =
          Cardinality({i \in DOMAIN recordsFile : recordsFile[i].record.objective # "none"})
    BY <2>1, <2>2, <2>3, ObjectivesCount
  <2> QED BY <2>2, <2>3, <2>4, <2>5, <2>6 DEF SummaryTellsTheTruth
<1> QED BY <1>1, OutcomesTell, FilesTell, PTL

-----------------------------------------------------------------------------
(* Types.                                                                  *)

\* What no other invariant says of the variables.
GivenInv ==
  /\ workers \in 1..MaxWorkers /\ count \in 0..MaxGroups /\ allowlist \in BOOLEAN
  /\ place \in [Slots -> {"queued"} \cup Active \cup Over]
  /\ attempts \in [Slots -> Nat]

LEMMA GivenStep ==
  ASSUME GivenInv, RequestInv, [Next]_vars
  PROVE  GivenInv'
<1>1. ASSUME NEW g \in Groups, Thread(g) PROVE GivenInv'
  <2>1. UNCHANGED <<workers, count, allowlist>>
    BY <1>1, ThreadActs
  <2>2. g \in Slots
    BY DEF RequestInv
  <2>3. \/ UNCHANGED place
        \/ \E where \in {"build", "send", "wait", "settled", "failed"} :
             place' = [place EXCEPT ![g] = where]
    BY <1>1 DEF Thread, TakeGroup, BuildPacket, BreakPacket, SendRequest, AnswerComes,
                GarbleComes, NothingComes, RefusalComes, RetryOrGiveUp, TakeResult
  <2>4. place' \in [Slots -> {"queued"} \cup Active \cup Over]
    BY <2>2, <2>3 DEF GivenInv, Active, Over
  <2>5. \/ UNCHANGED attempts
        \/ attempts' = [attempts EXCEPT ![g] = 0]
        \/ attempts' = [attempts EXCEPT ![g] = @ + 1]
    BY <1>1 DEF Thread, TakeGroup, BuildPacket, BreakPacket, SendRequest, AnswerComes,
                GarbleComes, NothingComes, RefusalComes
  <2>6. attempts' \in [Slots -> Nat]
    BY <2>2, <2>5 DEF GivenInv
  <2> QED BY <2>1, <2>4, <2>6 DEF GivenInv
<1>2. ASSUME NEW g \in Groups, CancelGroup(g) PROVE GivenInv'
  <2>1. /\ g \in Slots /\ UNCHANGED <<workers, count, allowlist, attempts>>
        /\ place' = [place EXCEPT ![g] = "cancelled"]
    BY <1>2 DEF CancelGroup, given, RequestInv
  <2> QED BY <2>1 DEF GivenInv, Over
<1>3. CASE LoadAllowlist
  BY <1>3 DEF LoadAllowlist, GivenInv, given, threads
<1>4. CASE \/ RefuseProvider \/ BreakAllowlist \/ NoticeFailure \/ RaiseFailure
           \/ CollectOutcomes \/ WriteRecords \/ WriteSummary \/ BreakOutput
           \/ UNCHANGED vars
  <2>1. UNCHANGED <<workers, count, allowlist, place, attempts>>
    BY <1>4 DEF RefuseProvider, BreakAllowlist, NoticeFailure, RaiseFailure, CollectOutcomes,
                WriteRecords, WriteSummary, BreakOutput, vars, given, threads
  <2> QED BY <2>1 DEF GivenInv
<1> QED BY <1>1, <1>2, <1>3, <1>4 DEF Next, Main

LEMMA GivenInvariant == Spec => []GivenInv
<1>1. Init => GivenInv
  <2> SUFFICES ASSUME Init PROVE GivenInv
    OBVIOUS
  <2>1. place \in [Slots -> {"queued"} \cup Active \cup Over]
    BY DEF Init
  <2>2. attempts \in [Slots -> Nat]
    BY DEF Init
  <2> QED BY <2>1, <2>2 DEF Init, GivenInv
<1> QED BY <1>1, GivenStep, RequestInvariant, PTL DEF Spec

\* What the counters of an outcome and its record may be.
LEMMA OutcomeTypes ==
  ASSUME OutcomeInv, NEW g \in Slots
  PROVE  /\ outcome[g].record \in Answers \cup {NoAnswer} \cup
              {[a EXCEPT !.objective = "none"] : a \in Answers}
         /\ \A f \in OutcomeFields \ {"record"} : outcome[g][f] \in 0..2
         /\ Len(results[g]) <= 2
<1> DEFINE o == outcome[g]
<1>1. \A f \in OutcomeFields \ {"record"} :
        f \in {"calls", "retries", "invalid", "observed", "unsafe", "unsafeObserved",
               "badObjective", "goodObjective"}
  BY DEF OutcomeFields, NewOutcome
<1>2. CASE place[g] = "settled"
  <2>1. Closed(g)
    BY <1>2 DEF OutcomeInv, OutcomeTells
  <2>2. o.observed \in 0..2 /\ o.unsafeObserved \in 0..2
    BY <2>1, CountersTell
  <2>3. HoldsRecord(g) /\ Len(results[g]) \in {1, 2}
    BY <2>1 DEF Closed
  <2>4. o.invalid \in {0, 1} /\ o.goodObjective \in {0, 1}
    BY <2>3 DEF HoldsRecord, GoodUnit
  <2>5. o.unsafe \in {0, 1} /\ o.badObjective \in {0, 1}
    BY <2>1 DEF Closed, Flag
  <2>6. o.calls \in 0..2 /\ o.retries \in 0..2 /\ Len(results[g]) <= 2
    <3>1. o.calls = Len(results[g]) /\ o.retries = Len(results[g]) - 1
      BY <2>1 DEF Closed
    <3>2. CASE Len(results[g]) = 1
      BY <3>1, <3>2
    <3>3. CASE Len(results[g]) = 2
      BY <3>1, <3>3
    <3> QED BY <2>3, <3>2, <3>3
  <2>7. o.record \in Answers \cup {NoAnswer} \cup
          {[a EXCEPT !.objective = "none"] : a \in Answers}
    <3>1. CASE Publishable(g) /\ o.record = RecordOf(g)
      <4>1. Last(results[g]) \in Answers
        <5>1. results[g] \in Seq(Answers \cup {NoAnswer}) /\ results[g] # <<>>
          BY <3>1 DEF OutcomeInv, RequestInv, Publishable
        <5>2. Last(results[g]) \in Answers \cup {NoAnswer}
          BY <5>1 DEF Last
        <5> QED BY <3>1, <5>2 DEF Publishable
      <4> QED BY <3>1, <4>1 DEF RecordOf
    <3>2. CASE o.record = NoAnswer
      BY <3>2
    <3> QED BY <2>3, <3>1, <3>2 DEF HoldsRecord
  <2>8. \A f \in OutcomeFields \ {"record"} : o[f] \in 0..2
    BY <1>1, <2>2, <2>4, <2>5, <2>6
  <2> QED BY <2>6, <2>7, <2>8
<1>3. CASE place[g] # "settled"
  <2>1. CASE place[g] = "failed"
    <3>1. Broke(g)
      BY <2>1 DEF OutcomeInv, OutcomeTells
    <3> QED BY <3>1 DEF Broke
  <2>2. CASE place[g] # "failed"
    <3>1. Broke(g)
      BY <1>3, <2>2, WaitingBroke
    <3> QED BY <3>1 DEF Broke
  <2> QED BY <2>1, <2>2
<1> QED BY <1>2, <1>3

\* Every variable has its type, for every value of the constants.
THEOREM PipelineTypes == Spec => []TypeOK
<1>1. GivenInv /\ OutcomeInv /\ FilesInv => TypeOK
  <2> SUFFICES ASSUME GivenInv, OutcomeInv, FilesInv PROVE TypeOK
    OBVIOUS
  <2>1. phase \in Phases
    BY DEF FilesInv, PhaseInv
  <2>2. attempts \in [Slots -> 0..(MaxRetries + 1)]
    <3>1. DOMAIN attempts = Slots /\ \A g \in Slots : attempts[g] \in 0..PerCall
      BY DEF OutcomeInv, RequestInv, GroupInv
    <3> QED BY <3>1 DEF PerCall, GivenInv
  <2>3. \A g \in Slots :
          /\ outcome[g].record \in Answers \cup {NoAnswer} \cup
               {[a EXCEPT !.objective = "none"] : a \in Answers}
          /\ \A f \in DOMAIN NewOutcome \ {"record"} : outcome[g][f] \in 0..2
          /\ results[g] \in Seq(Answers \cup {NoAnswer}) /\ Len(results[g]) <= 2
          /\ received[g] \in Nat
    BY OutcomeTypes DEF OutcomeFields, OutcomeInv, RequestInv, GroupInv
  <2>4. recordsFile = NoFile \/ Len(recordsFile) <= count
    <3> SUFFICES ASSUME recordsFile # NoFile PROVE Len(recordsFile) <= count
      OBVIOUS
    <3>1. recordsFile = Records /\ \A g \in Groups : place[g] = "settled"
      BY DEF FilesInv
    <3>2. Len(recordsFile) = Cardinality(Groups \ Lost)
      BY <3>1, FileTells
    <3>3. count \in Nat
      BY PipelineAssumption DEF GivenInv
    <3>4. IsFiniteSet(Groups) /\ Cardinality(Groups) = count
      BY <3>3, NumbersUpTo DEF Groups
    <3>5. Groups \ Lost \subseteq Groups
      OBVIOUS
    <3>6. Cardinality(Groups \ Lost) <= Cardinality(Groups)
      BY <3>4, <3>5, FS_Subset
    <3> QED BY <3>2, <3>4, <3>6
  <2>5. summaryFile = NoFile \/ summaryFile.groups = count
    BY DEF FilesInv, Summary
  <2> QED BY <2>1, <2>2, <2>3, <2>4, <2>5 DEF TypeOK, GivenInv
<1> QED BY <1>1, GivenInvariant, OutcomesTell, FilesTell, PTL

=============================================================================
