-------------------------- MODULE AnalysisPipeline --------------------------
(***************************************************************************)
(* run_pipeline: groups of findings are analysed by a pool of threads that *)
(* ask a language model about one group each; the outcomes are added up    *)
(* and written as analysis.jsonl and analysis-summary.json.                *)
(*                                                                         *)
(* A thread shares nothing with the others but the order in which groups   *)
(* are taken.  It may raise, and the main thread then cancels what has not *)
(* started, waits for the rest and raises too.  Requests to the model time *)
(* out, fail for good or bring an answer of any quality.  An answer is     *)
(* what the checks find in it; its text, the prompts, token counts, the    *)
(* redaction of both and the calibration of the record are left out.       *)
(***************************************************************************)
EXTENDS Integers, Sequences, FiniteSets, FiniteSetsExt, SequencesExt, SetOrder

CONSTANTS
  MaxGroups,          \* bound: how many groups grouping yields at most
  MaxWorkers,         \* bound: the values of LLM_CONCURRENCY
  MaxRetries,         \* LLM_MAX_RETRIES: further requests within one call
  ValidationRetries,  \* VALIDATION_MAX_RETRIES
  Answers,            \* the answers the model gives
  NoAnswer,           \* a call that ended without a usable answer
  NoFile              \* the file has not been written

\* What _validate_response can find; "shape" stands for a JSON value that the
\* validators cannot even walk through (a list, or null where a list belongs).
Blocking == {"schema", "provenance", "unsafe", "shape"}

\* What there is to tell of an answer.
Judgements == [faults : SUBSET Blocking, objective : {"none", "listed", "unlisted"}]

ASSUME PipelineAssumption ==
  /\ MaxGroups \in Nat /\ MaxWorkers \in Nat \ {0}
  /\ MaxRetries \in Nat /\ ValidationRetries \in Nat
  /\ Answers \subseteq Judgements /\ NoAnswer \notin Judgements

VARIABLES
  workers,       \* llm_concurrency
  count,         \* how many groups there are
  allowlist,     \* whether the endpoint allowlist could be loaded
  phase,         \* where run_pipeline is
  place,         \* where the analysis of each group is
  attempts,      \* requests sent within the current call, per group
  outcome,       \* _GroupOutcome, per group
  recordsFile,   \* analysis.jsonl
  summaryFile,   \* analysis-summary.json
  results,       \* what the provider returned for each group, call by call
  received       \* completions that reached the client, per group

threads == <<place, attempts, outcome>>
outputs == <<recordsFile, summaryFile>>
history == <<results, received>>
given == <<workers, count>>
vars == <<given, allowlist, phase, threads, outputs, history>>

Slots == 1..MaxGroups
Groups == 1..count

NewOutcome ==
  [record |-> NoAnswer, calls |-> 0, retries |-> 0, invalid |-> 0,
   observed |-> 0, unsafe |-> 0, unsafeObserved |-> 0,
   badObjective |-> 0, goodObjective |-> 0]

Phases == {"load", "analyze", "cancel", "records", "summary", "done", "raised"}

\* A thread builds the packet, sends requests and settles its outcome.
Active == {"build", "send", "wait"}
Over == {"settled", "failed", "cancelled"}
Running == {g \in Groups : place[g] \in Active}

\* Every variable has its type: a group is in one place, and what its outcome
\* counts stays within two calls.
TypeOK ==
  /\ workers \in 1..MaxWorkers
  /\ count \in 0..MaxGroups
  /\ allowlist \in BOOLEAN
  /\ phase \in Phases
  /\ place \in [Slots -> {"queued"} \cup Active \cup Over]
  /\ attempts \in [Slots -> 0..(MaxRetries + 1)]
  /\ \A g \in Slots :
       /\ outcome[g].record \in Answers \cup {NoAnswer} \cup
            {[a EXCEPT !.objective = "none"] : a \in Answers}
       /\ \A f \in DOMAIN NewOutcome \ {"record"} : outcome[g][f] \in 0..2
       /\ results[g] \in Seq(Answers \cup {NoAnswer}) /\ Len(results[g]) <= 2
       /\ received[g] \in Nat
  /\ recordsFile = NoFile \/ Len(recordsFile) <= count
  /\ summaryFile = NoFile \/ summaryFile.groups = count

Init ==
  /\ workers \in 1..MaxWorkers
  /\ count \in 0..MaxGroups
  /\ allowlist = FALSE
  /\ phase = "load"
  /\ place = [g \in Slots |-> "queued"]
  /\ attempts = [g \in Slots |-> 0]
  /\ outcome = [g \in Slots |-> NewOutcome]
  /\ recordsFile = NoFile /\ summaryFile = NoFile
  /\ results = [g \in Slots |-> <<>>]
  /\ received = [g \in Slots |-> 0]

-----------------------------------------------------------------------------
(* The main thread before the pool.                                        *)

\* The groups are known; the provider is built unless there are none, and the
\* allowlist is loaded or, if that fails, done without.
LoadAllowlist ==
  /\ phase = "load"
  /\ allowlist' \in BOOLEAN
  /\ phase' = IF count = 0 THEN "records" ELSE "analyze"
  /\ UNCHANGED <<given, threads, outputs, history>>

\* build_llm refuses the configuration.
RefuseProvider ==
  /\ phase = "load" /\ count > 0
  /\ phase' = "raised"
  /\ UNCHANGED <<given, allowlist, threads, outputs, history>>

\* The allowlist is JSON of a shape that from_json does not foresee.
BreakAllowlist ==
  /\ phase = "load"
  /\ phase' = "raised"
  /\ UNCHANGED <<given, allowlist, threads, outputs, history>>

-----------------------------------------------------------------------------
(* The pool.                                                               *)

PoolSize == Min({workers, count})

Queued == {g \in Groups : place[g] = "queued"}

\* Faulty variant of Awaited: only the first future is looked at.
AwaitedFirst(g) == g = 1 /\ place[g] # "settled"

\* The group whose future the main thread waits for.
Awaited(g) == /\ place[g] # "settled"
              /\ \A h \in 1..(g - 1) : place[h] = "settled"

\* Without a pool the exception of one group ends the loop over the groups.
LoopEnded == PoolSize = 1 /\ \E g \in Groups : place[g] = "failed"

\* A thread of the pool takes the next group.
TakeGroup(g) ==
  /\ phase \in {"analyze", "cancel"}
  /\ g \in Queued /\ \A h \in Queued : g <= h
  /\ Cardinality(Running) < PoolSize /\ ~LoopEnded
  /\ place' = [place EXCEPT ![g] = "build"]
  /\ UNCHANGED <<given, allowlist, phase, attempts, outcome, outputs, history>>

\* Faulty variant of BuildPacket: the requests of both calls share one budget
\* that is checked too late.
BuildPacketOnce(g) ==
  /\ place[g] = "build"
  /\ place' = [place EXCEPT ![g] = "send"]
  /\ UNCHANGED <<given, allowlist, phase, attempts, outcome, outputs, history>>

\* analyze_finding_group builds the packet and the prompt, and begins a call.
BuildPacket(g) ==
  /\ place[g] = "build"
  /\ place' = [place EXCEPT ![g] = "send"]
  /\ attempts' = [attempts EXCEPT ![g] = 0]
  /\ UNCHANGED <<given, allowlist, phase, outcome, outputs, history>>

\* A file the packet or the prompt is built from cannot be read.
BreakPacket(g) ==
  /\ place[g] = "build"
  /\ place' = [place EXCEPT ![g] = "failed"]
  /\ UNCHANGED <<given, allowlist, phase, attempts, outcome, outputs, history>>

\* One pass through the loop of _call_api, after the sleep if there is one.
SendRequest(g) ==
  /\ place[g] = "send"
  /\ attempts' = [attempts EXCEPT ![g] = @ + 1]
  /\ place' = [place EXCEPT ![g] = "wait"]
  /\ UNCHANGED <<given, allowlist, phase, outcome, outputs, history>>

-----------------------------------------------------------------------------
(* Checking an answer.                                                     *)

\* _validate_response
Errors(a) ==
  a.faults \cup (IF allowlist /\ a.objective = "unlisted" THEN {"objective"} ELSE {})

\* blocks_the_record
BlocksTheRecord(errors) == errors \cap Blocking # {}

Flag(b) == IF b THEN 1 ELSE 0

\* The record is published, without an objective that was turned down.
Publish(out, a, errors) ==
  [out EXCEPT
     !.record = IF "objective" \in errors THEN [a EXCEPT !.objective = "none"] ELSE a,
     !.badObjective = Flag("objective" \in errors),
     !.goodObjective = Flag("objective" \notin errors /\ a.objective # "none")]

\* Faulty variant of Settle: a wrong objective costs the whole record.
SettleStrictly(out, a, errors) ==
  IF errors # {} THEN [out EXCEPT !.invalid = 1] ELSE Publish(out, a, errors)

\* _settle
Settle(out, a, errors) ==
  IF BlocksTheRecord(errors)
  THEN [out EXCEPT !.invalid = 1, !.unsafe = Flag("unsafe" \in errors)]
  ELSE Publish(out, a, errors)

\* Faulty variant of Counted: a retry that succeeds wipes the first failure out.
CountedAfresh(out, errors) ==
  [out EXCEPT !.observed = Flag(errors # {}),
              !.unsafeObserved = Flag("unsafe" \in errors)]

\* What an answer adds to the counters of broken answers.
Counted(out, errors) ==
  [out EXCEPT !.observed = @ + Flag(errors # {}),
              !.unsafeObserved = @ + Flag("unsafe" \in errors)]

\* Faulty variant of AskAgain: an objective alone is worth another call.
AskAgainAlways(g, errors) == errors # {} /\ ValidationRetries >= 1

\* A broken answer is asked for once more, unless only its objective is wrong.
AskAgain(g, errors) ==
  /\ results[g] = <<>>
  /\ BlocksTheRecord(errors) /\ ValidationRetries >= 1

\* The call for group g returns the answer a, or NoAnswer.
TakeResult(g, a) ==
  LET out == [outcome[g] EXCEPT !.calls = @ + 1]
      to(where, o) == /\ place' = [place EXCEPT ![g] = where]
                      /\ outcome' = [outcome EXCEPT ![g] = o]
  IN
  /\ results' = [results EXCEPT ![g] = Append(@, a)]
  /\ \/ /\ a = NoAnswer /\ results[g] = <<>>
        /\ to("settled", [out EXCEPT !.invalid = 1, !.observed = 1])
     \/ /\ a = NoAnswer /\ results[g] # <<>>
        /\ LET first == Head(results[g])
           IN to("settled", Settle([out EXCEPT !.observed = @ + 1], first, Errors(first)))
     \/ /\ a # NoAnswer /\ "shape" \in a.faults
        /\ to("failed", out)
     \/ /\ a # NoAnswer /\ "shape" \notin a.faults
        /\ IF AskAgain(g, Errors(a))
           THEN to("build", [Counted(out, Errors(a)) EXCEPT !.retries = 1])
           ELSE to("settled", Settle(Counted(out, Errors(a)), a, Errors(a)))

-----------------------------------------------------------------------------
(* Replies to a request.                                                   *)

MayRetry(g) == attempts[g] <= MaxRetries

\* A completion that parses; it ends the call.
AnswerComes(g, a) ==
  /\ place[g] = "wait"
  /\ received' = [received EXCEPT ![g] = @ + 1]
  /\ TakeResult(g, a)
  /\ UNCHANGED <<given, allowlist, phase, attempts, outputs>>

\* The call is repeated while requests are left, and ends without an answer.
RetryOrGiveUp(g) ==
  \/ /\ MayRetry(g)
     /\ place' = [place EXCEPT ![g] = "send"]
     /\ UNCHANGED <<outcome, results>>
  \/ /\ ~MayRetry(g)
     /\ TakeResult(g, NoAnswer)

\* A completion without content, or whose content is no JSON.
GarbleComes(g) ==
  /\ place[g] = "wait"
  /\ received' = [received EXCEPT ![g] = @ + 1]
  /\ RetryOrGiveUp(g)
  /\ UNCHANGED <<given, allowlist, phase, attempts, outputs>>

\* Too many requests, a server error, a network error, a timeout, no choices.
NothingComes(g) ==
  /\ place[g] = "wait"
  /\ RetryOrGiveUp(g)
  /\ UNCHANGED <<given, allowlist, phase, attempts, outputs, received>>

\* Any other error ends the call at once.
RefusalComes(g) ==
  /\ place[g] = "wait"
  /\ TakeResult(g, NoAnswer)
  /\ UNCHANGED <<given, allowlist, phase, attempts, outputs, received>>

-----------------------------------------------------------------------------
(* The main thread after the pool.                                         *)

\* The awaited future raises; executor.map starts to cancel the others.
NoticeFailure ==
  /\ phase = "analyze"
  /\ \E g \in Groups : Awaited(g) /\ place[g] = "failed"
  /\ phase' = "cancel"
  /\ UNCHANGED <<given, allowlist, threads, outputs, history>>

\* It goes backwards, while threads of the pool still take groups.
CancelGroup(g) ==
  /\ phase = "cancel"
  /\ g \in Queued /\ \A h \in Queued : h <= g
  /\ place' = [place EXCEPT ![g] = "cancelled"]
  /\ UNCHANGED <<given, allowlist, phase, attempts, outcome, outputs, history>>

\* Faulty variant of RaiseFailure: threads are left behind.
RaiseWithoutWaiting ==
  /\ phase = "cancel" /\ Queued = {}
  /\ phase' = "raised"
  /\ UNCHANGED <<given, allowlist, threads, outputs, history>>

\* Leaving the `with` block waits for the threads, then the exception goes on.
RaiseFailure ==
  /\ phase = "cancel" /\ Queued = {} /\ Running = {}
  /\ phase' = "raised"
  /\ UNCHANGED <<given, allowlist, threads, outputs, history>>

\* Every future has its result.
CollectOutcomes ==
  /\ phase = "analyze"
  /\ \A g \in Groups : place[g] = "settled"
  /\ phase' = "records"
  /\ UNCHANGED <<given, allowlist, threads, outputs, history>>

Lost == {g \in Groups : outcome[g].record = NoAnswer}

\* The records in the order of the groups, each with the group it is about.
Records ==
  LET kept == Groups \ Lost
      RecordOfGroup(g) == [group |-> g, record |-> outcome[g].record]
  IN [k \in 1..Cardinality(kept) |-> RecordOfGroup(Nth(kept, Ascending(kept), k))]

\* Faulty variant of RecordsComplete: a missing allowlist is kept silent.
RecordsCompleteAnyway == Lost = {}

\* "COMPLETE"
RecordsComplete == Lost = {} /\ allowlist

\* The sum of a counter over the groups: how many there are when the units of
\* each group are kept apart.
Total(field) == Cardinality(UNION {{g} \X (1..outcome[g][field]) : g \in Groups})

Summary ==
  [groups |-> count, records |-> Cardinality(Groups \ Lost), missing |-> Lost,
   calls |-> Total("calls"), retries |-> Total("retries"),
   invalid |-> Total("invalid"), observed |-> Total("observed"),
   unsafe |-> Total("unsafe"), unsafeObserved |-> Total("unsafeObserved"),
   badObjective |-> Total("badObjective"), goodObjective |-> Total("goodObjective"),
   complete |-> RecordsComplete]

\* write_jsonl_atomic
WriteRecords ==
  /\ phase = "records"
  /\ recordsFile' = Records
  /\ phase' = "summary"
  /\ UNCHANGED <<given, allowlist, threads, summaryFile, history>>

\* _write_json_atomic
WriteSummary ==
  /\ phase = "summary"
  /\ summaryFile' = Summary
  /\ phase' = "done"
  /\ UNCHANGED <<given, allowlist, threads, recordsFile, history>>

\* Neither file is touched when writing it fails.
BreakOutput ==
  /\ phase \in {"records", "summary"}
  /\ phase' = "raised"
  /\ UNCHANGED <<given, allowlist, threads, outputs, history>>

-----------------------------------------------------------------------------
Thread(g) ==
  \/ TakeGroup(g) \/ BuildPacket(g) \/ BreakPacket(g) \/ SendRequest(g)
  \/ \E a \in Answers \cup {NoAnswer} : AnswerComes(g, a)
  \/ GarbleComes(g) \/ NothingComes(g) \/ RefusalComes(g)

Main ==
  \/ LoadAllowlist \/ RefuseProvider \/ BreakAllowlist
  \/ NoticeFailure \/ (\E g \in Groups : CancelGroup(g)) \/ RaiseFailure
  \/ CollectOutcomes \/ WriteRecords \/ WriteSummary \/ BreakOutput

Next == Main \/ \E g \in Groups : Thread(g)

Spec == Init /\ [][Next]_vars

\* Threads run, and a request ends: both the socket and the whole answer have
\* a deadline (timeout_seconds).
FairSpec ==
  /\ Spec
  /\ WF_vars(Main)
  /\ \A g \in Slots : WF_vars(g \in Groups /\ Thread(g))

-----------------------------------------------------------------------------
(* What the pipeline promises, stated over what the provider returned.     *)

\* The last answer for g, if it may be published at all.
Publishable(g) ==
  /\ results[g] # <<>> /\ Last(results[g]) # NoAnswer
  /\ ~BlocksTheRecord(Errors(Last(results[g])))

\* A record as the last answer gives it, its objective only where listed.
RecordOf(g) ==
  LET a == Last(results[g])
  IN IF "objective" \in Errors(a) THEN [a EXCEPT !.objective = "none"] ELSE a

\* analysis.jsonl holds exactly the records that the last answers allow, in the
\* order of the groups, however the threads interleaved, whatever was retried,
\* and whatever else failed (pipeline.py: concurrency never changes the records).
RecordsFollowAnswers ==
  recordsFile # NoFile =>
    /\ {recordsFile[i].group : i \in DOMAIN recordsFile} = {g \in Groups : Publishable(g)}
    /\ \A i, j \in DOMAIN recordsFile :
         i < j => recordsFile[i].group < recordsFile[j].group
    /\ \A i \in DOMAIN recordsFile :
         recordsFile[i].record = RecordOf(recordsFile[i].group)

\* How many of the results satisfy Test.
Observed(Test(_)) ==
  Cardinality(UNION {{g} \X {i \in DOMAIN results[g] : Test(results[g][i])} : g \in Groups})

\* The group was left with an unsafe answer, after which none came that could be
\* looked at.
LeftUnsafe(g) ==
  \E i \in DOMAIN results[g] :
    /\ results[g][i] # NoAnswer /\ "unsafe" \in Errors(results[g][i])
    /\ \A j \in DOMAIN results[g] : j > i => results[g][j] = NoAnswer

\* The record of the group is published without the objective of its answer.
LosesObjective(g) == Publishable(g) /\ "objective" \in Errors(Last(results[g]))

\* The summary counts what happened, not what is left of it: every call, every
\* broken answer whether repaired later or not, every lost group by name and
\* whether an unsafe answer is what it was left with, and the objectives that
\* are in the file or were taken out of it.
SummaryTellsTheTruth ==
  summaryFile # NoFile =>
    /\ summaryFile.calls = Observed(LAMBDA a : TRUE)
    /\ summaryFile.retries = Cardinality({g \in Groups : Len(results[g]) = 2})
    /\ summaryFile.observed = Observed(LAMBDA a : a = NoAnswer \/ Errors(a) # {})
    /\ summaryFile.unsafeObserved =
         Observed(LAMBDA a : a # NoAnswer /\ "unsafe" \in Errors(a))
    /\ summaryFile.unsafe = Cardinality({g \in Groups : LeftUnsafe(g)})
    /\ summaryFile.missing = {g \in Groups : ~Publishable(g)}
    /\ summaryFile.invalid = Cardinality(summaryFile.missing)
    /\ summaryFile.records = Len(recordsFile)
    /\ summaryFile.goodObjective =
         Cardinality({i \in DOMAIN recordsFile : recordsFile[i].record.objective # "none"})
    /\ summaryFile.badObjective = Cardinality({g \in Groups : LosesObjective(g)})

\* "COMPLETE" means that every group has its record and that no record carries
\* an objective outside the allowlist, be it unread or unreadable.
CompleteMeansChecked ==
  summaryFile # NoFile /\ summaryFile.complete =>
    /\ \A g \in Groups : \E i \in DOMAIN recordsFile : recordsFile[i].group = g
    /\ \A i \in DOMAIN recordsFile : recordsFile[i].record.objective # "unlisted"

\* A call costs at most MaxRetries + 1 requests, and a group at most two calls,
\* the second only for a record that would otherwise be lost.
RequestsBounded ==
  \A g \in Groups :
    /\ attempts[g] <= MaxRetries + 1
    /\ received[g] <= (MaxRetries + 1) * (1 + Flag(outcome[g].retries = 1))
    /\ outcome[g].retries = 1 => BlocksTheRecord(Errors(Head(results[g])))

\* When run_pipeline has returned or raised, no thread of it goes on asking the
\* model, and a group that raised has left no output behind.
NothingRunsAfterReturn ==
  phase \in {"done", "raised"} =>
    /\ Running = {}
    /\ (\E g \in Groups : place[g] = "failed") => recordsFile = NoFile

\* Whatever the model answers or fails to answer, run_pipeline comes to an end.
PipelineReturns == <>(phase \in {"done", "raised"})

\* What _analyze_one_group says of itself: a broken answer is checked and asked
\* for once more; it does not end the analysis.  The code does not hold to it.
NoAnswerEndsTheAnalysis ==
  [][\A g \in Slots : results'[g] # results[g] => place'[g] # "failed"]_vars

\* What the summary says of itself: invalid_responses_observed is the number of
\* broken answers really received.  The code does not count those it repeats
\* inside a call.
EveryBrokenAnswerCounted ==
  summaryFile # NoFile =>
    summaryFile.observed >=
      MapThenSumSet(LAMBDA g : received[g], Groups)
        - Observed(LAMBDA a : a # NoAnswer /\ Errors(a) = {})

=============================================================================
