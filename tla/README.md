# Project Sentinel: formal models, checks and proofs

Project Sentinel scans a code base, lets a language model analyse the findings,
and may send *one* verification request through a policy-enforcing Gateway after
a human has approved exactly that request.  The TLA+ modules here model the
program under `src/src/project_sentinel/`.  `PROJECT.json` maps every definition
to the lines it stands for, and lists the runs, the hazards and the theorems.

## The system

| Component | State it keeps | Operations | Hard behaviour |
| --- | --- | --- | --- |
| Run orchestrator (`orchestrator/`) | run directory: `state.json`, `.resume.lock`, `probe-claim.json` | `create_run`, `execute_run`, `start_run`, `resume_run`, nine steps | concurrent resumes from several processes, deaths, one failing step |
| Human approval (`guardrails/approval.py`, `commands/approve.py`, `commands/run.py`) | `approval-request.json`, `decision.json` | build a request, decide, read a decision | file rewritten in place; decision replaced while it is acted on |
| Web application (`web/`) | none of its own | `POST /runs`, `POST /approvals/<run>`, GET screens | background tasks of one process die together; no check of the run's state |
| Ingestion (`ingestion/`, `steps/ingest.py`) | `raw.json`, `zap-alerts.json`, `gateway-access.log`, `findings.json` | `step_scan`, `step_normalize`, two normalizers, a merge | stale, broken or missing output of an earlier command |
| Grouping and correlation (`analysis/grouping.py`, `correlation.py`) | a list that shrinks while it is looped over | `group_findings`, `correlate` | order of findings and of paths; passes until nothing merges |
| Analysis pipeline (`analysis/`, `llm/`) | `analysis.jsonl`, summary | prompt, LLM call, repair, validation | thread pool, retries, counters |
| Calibration (`analysis/calibration.py`) | none | `calibrate_record` | a chain of caps that may only lower a claim, and a measurement that replaces one |
| Proposal (`steps/propose.py`, `probe/proposal.py`) | `proposal.json` | choose an objective, validate it | an override; a registry that changes before the request leaves |
| Probe tool (`probe/tool.py`, `transport.py`) | `gateway-requests.jsonl` | `send_probe` | gates, rate limit, transport and audit line in order |
| Rate limiter (`probe/rate_limit.py`) | token bucket per process | `wait` | threads, clock arithmetic |
| Gateway policy (`gateway/`, `infra/docker/gateway`) | allowlist file; maps in an Nginx template | `is_allowed`, `resolve_template`; rewrite checks | two policies that share no code and must agree |
| Filters (`guardrails/redaction.py`, `injection.py`) | none | `scan`, `redact` | applied several times, before and after a truncation |
| Verdict, report, metrics (`orchestrator/verdict.py`, `report.py`, `metrics.py`) | `report.json`, `report.md`, `metrics.json` | build | agreement with `state.json`, the wire and the logs |
| Retrieval, configuration, demo, evaluation | files in, files out | | data mapping only |

The components meet in the files of a run directory.  No process keeps the state
of a run in memory across calls (`state.py`: `state.json` is the single source of
truth for CLI and web); the only lock is a non-blocking `flock`, taken by
`resume_run` but not by `execute_run`.  That is where correctness is hard, so it
is what is modelled first.

What makes the components correct: a run sends at most one request, the one its
operator approved; DONE and FAILED are final, a rejected run can only still fail
while its report is written, and a terminal state tells the truth about what was
sent; the limiter never exceeds its budget; calibration raises nothing an agent
claimed, except a reachability that was measured; grouping does not depend on
order; pipeline counters add up whatever fails; every artifact of a finished run
agrees with the others.

## Modules

* **`ProbeGate`** is the abstract specification of one run: prepared, offered,
  claimed, at most one request sent while claimed, then closed, rejected or
  failed.  It knows nothing of files, locks or callers.
* **`RunLifecycle`** is the orchestrator in detail, for one run: the call that
  starts it, `approve` calls and web decisions, each with a program counter
  (`pc`), the step `_execute` is at (`at`) and its `RunRecord` in memory (`rec`).
  Shared variables are the files of the run directory, the flock, and `wire`, the
  requests that reached the transport.  One action is one stretch of code
  between two accesses to shared files: `BeginStep` is the save before a step,
  each `...Step` action runs a step and does the save after it, `WriteRequest`
  and `OfferRun` are the two file writes of `step_approval`, `TruncateDecision`
  and `WriteDecision` those of `write_decision`, `ClaimRun` and `TakeRun` those
  of `resume_run`, and `ProbeAdmitted`, `SendProbe`, `AuditProbe`, `RecordProbe`
  the way of a request through `step_probe`.  `Die` ends a call, or all calls of
  the web process, between any two of them; `EditProposal` is somebody changing
  `proposal.json` by hand.
* **`AnalysisPipeline`** is `run_pipeline`: the main thread (`phase`), one record
  per group of where its analysis is (`place`), the requests of the current call
  (`attempts`) and its `_GroupOutcome` (`outcome`), and the two output files.
  Threads share nothing but the order in which groups are taken, so an action is
  one step of one thread between a request and its reply: `BuildPacket`,
  `SendRequest`, and `AnswerComes`, `GarbleComes`, `NothingComes`, `RefusalComes`
  for the ways `_call_api` goes on; `TakeResult` is what `_analyze_one_group`
  does with a finished call, checks and repair included.  An answer is the set of
  faults the validators find in it and whether its objective is listed.
  `results` and `received` record what the provider returned and what reached the
  client; no guard but "is this the first call" reads them, and the properties
  compare the outputs with them.
* **`RateLimiter`** is `ToolRateLimiter.wait` for many threads: `Take` and
  `FallAsleep` are the two ways through the locked block, `Wake` the end of the
  sleep, at its time or later.  Time is counted in ticks and tokens in fractions
  (`Token` of them make one, a tick is worth `Rate`), which keeps the arithmetic
  in integers; the code's floating-point figures are these up to rounding.
* **`ProbeThrottle`** extends it with the other limiter of the system, Nginx's
  `limit_req`: a granted call becomes a request under way (`Send`), which is
  counted (`Admit`), turned away (`Refuse`) or lost (`Lose`) in any order.  That
  `limit_req` keeps an excess which decays with time is external knowledge; its
  rate, burst and status are those of `infra/docker/gateway`.
* **`GatewayPolicy`** holds the two policies a probe must pass, each as its own
  operators: `Readable`, `IsAllowed`, `Resolved`, `IsReviewed` are the client's
  `Allowlist`; `Screen` is the order of checks of the Nginx listener (path 403,
  key 401, method 405, template and body length 403) and `Forwarded` the body it
  builds itself.  A registry is a value; the Gateway's maps are named by the
  registry they were copied from, which need not be the client's.
* **`ProbeFlow`** extends it with one call's way from analysis to report, with the
  content that `RunLifecycle` leaves out: `Propose` (`_choose_objective`,
  `validate_objective`), the approval and the operator's decision, the gates of
  `send_probe` one by one, what the Gateway and the application answer, the audit
  line, the events, `probe-result.json`, the scrubbing, the verdict, and the
  three summaries write by write.  `Fail` ends any step, after a part of its
  writes; the client's registry may be changed by hand between any two steps, and
  `proposal.json` until `step_probe` has read it (`MaxEdits`), while the Gateway's
  maps are those of any registry from the start.
* **`Grouping`** is `group_findings`, comparison by comparison: `PutInBucket`,
  then `MergeTwo`, `LeaveApart`, `NextGroup`, `EndPass` for the two loops over the
  shrinking `group_list`, then `SortGroups`.  The hash that decides between equal
  groups may put them in either order.
* **`SetOrder`** picks the k-th element of a finite set in an order: it stands for
  what the code reads one after the other and skips in part (the entries of a
  report, sorted plugins, nested loops over alerts and their instances, the
  outcomes of groups).  It needs no recursion, so that it can be proved about.
* **`Correlation`** is both normalizers, the merge, the access-log reader and
  `correlate`, as operators on sequences; **`Calibration`** is `calibrate_record`,
  as a chain of record updates in the code's order.
* **`Intake`** composes the three: `step_scan` (fresh or stale `raw.json`, an
  optional DAST pass that may leave either file and fail all the same),
  `step_normalize`, and of `step_analyze` the loading, the grouping and what
  becomes of the answer about one group (`Settle`).
* **`MC...`** modules instantiate these for TLC; the `.cfg` files are the runs.
* **`RunLifecycle_proofs`**, **`RunOutcome_proofs`** (which extends it),
  **`RateLimiter_proofs`**, **`ProbeThrottle_proofs`**,
  **`AnalysisPipeline_proofs`**, **`ProbeFlow_proofs`**, **`Intake_proofs`** and
  **`SetOrder_proofs`** hold the theorems and their lemmas.

`RunLifecycle` and `ProbeFlow` describe the same steps from two sides: the first
shows that whatever calls are made, one of them at a time executes a run and at
most one request leaves; the second what that one call reads and writes.
`AnalysisPipeline` likewise shows how answers are asked for and counted, `Intake`
what they are about and what is published.

Definitions named after a fault (`MustRefuseByClaimOnly`, `KeptNothing`, ...)
are not used by the specification.  Each stands before the definition it varies
and is a plausible bug that one of the properties must detect.

## Runs

Six record what holds, six a disagreement between the code and its text.

| Run | Instance | What it shows |
| --- | --- | --- |
| `races` | web start, `approve` c1 and c2, web decision w1, two deaths, one request | `ProbeSentAtMostOnce`, `NoLostUpdate`, `RejectedMeansUnsent`, `FailureStopsTheRun`, `TerminalIsFinal`, and that the run implements `ProbeGate` |
| `edited` | CLI start (with its prompt), w1, two requests, one edit of the proposal, no death, fair calls | `SentRequestWasApproved`, `DoneMeansSettled`, `DecidedRunEnds` |
| `claim` | web start, w1, w2 | violation: the claim may name a decision other than the one acted on |
| `interrupted` | web start, c1, one death | violation: a run that dies outside `AWAITING_APPROVAL` is never resumed |
| `answers` | up to two groups and two threads, seven sorts of answer, one retry within a call and one repair call, fair threads | `RecordsFollowAnswers`, `SummaryTellsTheTruth`, `CompleteMeansChecked`, `RequestsBounded`, `NothingRunsAfterReturn`, `PipelineReturns` |
| `shape` | one group | violation: an answer of a wrong shape ends the whole analysis |
| `garble` | one group | violation: broken answers repeated inside the client are not counted |
| `throttle` | three threads, a bucket and a `limit_req` of two, six ticks | `BudgetKept`, `NobodyOversleeps`, `RefusalsAreDueToDelay` |
| `probe` | four registries on either side of the wire, six analyses, one override, four probes written by hand, two changes by hand | `AppSeesWhatWasApproved`, `PoliciesAgree`, `FinishedRunsAgree`, `ConclusionsAreGrounded`, `MaskingIsReported` |
| `intake` | five reports of OpenGrep, three of ZAP, three access logs, merging off or within two lines | `EveryFindingInOneGroup`, `GroupsAreClasses`, `MergeIsNeverRefused`, `EvidenceIsObserved`, `MeasurementFollowsTraffic`, `OnlyMeasurementStrengthens`, `CalibrationIsSober`, `GroupingEnds` |
| `unmeasured` | as `intake` | violation: where no route is known, the record keeps the reachability the agent claimed |
| `order` | as `intake` | violation: of several answered paths of a route, the order of a set decides which one's alerts are found |

**Bounds.**  `MaxCrashes` counts deaths and `MaxEdits` hand edits.  Three calls
besides the starter cover one that claims, one that overwrites the decision and
one that arrives late; two deaths allow one between claim and save, and one of
the call that retried.  `edited`, which checks liveness as well, has two that
decide, the prompt and the web: enough for one to overwrite the other's decision,
for one to find the lock held by the other, and for an early decision to be
refused.  Two requests are what a mismatch between approval and
proposal needs.  Calls of one kind are interchangeable, so `races` uses symmetry
(it checks no liveness).  A call makes one decision; another attempt of the same
operator is another call.

In the pipeline `MaxGroups` and `MaxWorkers` bound the groups and the pool; the
number of each is chosen at the start, so the loop without a pool and the empty
input are included.  Two groups show every interleaving of two outcomes, and the
race between a cancellation and a thread that takes the second group, since the
main thread may notice a failure before or after.  A raising, a running and a
queued group at once would take three; for `NothingRunsAfterReturn` and
`RequestsBounded` the theorems cover every number.  `MaxRetries` is 1 as in the
configuration's default; the seven answers are one for each combination of faults
that the code tells apart.

`MaxClock` stops the clock of the limiter after the bucket has been emptied,
refilled and emptied again, with a token that takes two ticks and a half, so that
sleeps are rounded.  A request may be under way for
as long as the clock runs; six ticks are more than two tokens take, so that
requests arrive late, in a bunch, and are refused.

The registries of `probe` are the file as it is kept, one without a template, one
with the payloads of two templates exchanged, and one that cannot be read; two
changes allow one before the approval and one after.  The analyses have an objective that is preferred, one that is not in the
registry, one whose path has a query, one that declares no signal, one whose
finding does not name the endpoint, and none.

The reports of `intake` have a chain of near lines whose middle comes last (so
that a pass must be repeated), one fingerprint at a distance, two files and two
rules on a line, an entry that is no object, a line that is missing, and nothing.
The ZAP reports have duplicates, methods and hosts that are ignored, and one more
instance than `MaxInstances` keeps; the logs have answers of 200, 204, 302 and
403, and a path that resembles a route without being one.

**Fairness.**  `FairSpec` of `RunLifecycle` assumes that each call, a thread or
process of its own, keeps running once started.  Nothing is assumed of people:
they need not decide.  `DecidedRunEnds` is about decisions completely written
while the run awaits.  `ApprovingSpec`, for `interrupted`, adds that an announced
`approve` call is made, so that the counterexample is not merely an operator who
stays away.  The pipeline's `FairSpec` assumes that the main thread and every pool
thread run and that a request ends: `urlopen` has a timeout and
`_read_response_bytes` a deadline for the whole answer.  Which way a request ends
is not assumed.  `FairSpec` of `Intake` assumes only that `group_findings`, a
sequential function, keeps running once called.

**A decision that is left lying.**  `DecidedRunEnds` has one exception, without
which it is false.  A web decision made before the run awaits takes the lock, and
its call is refused from what it loaded.  If the run is offered and another
decision written before that call lets go, the call of the latter finds the lock
busy and returns; the comment there (`runner.py:141`) takes the holder to be
running phase two, but this one is leaving.  Nothing is lost on disk: the decision
stays in `decision.json`, and the next `approve` call acts on a decision again.
Until one is made, the run awaits.  The premise `~RefusedCallHoldsLock` excepts
the decisions whose call may meet such a holder, and no others.

**Deadlock** is not checked in these runs: when every call has returned, or the
run waits for an operator who never decides, nothing is left to do; when
`run_pipeline` or a run has ended, or the limiter's clock stands still, likewise.

**The six disagreements.**  (1) `runner.py:177-179` says the claim carries the
idempotency key of *this* decision, but `step_probe` reads `decision.json` again,
and a web decision may have replaced it.  The request is still one that an
operator approved (`SentRequestWasApproved` holds); the claim on disk names
somebody else's decision.  (2) `docs/architecture.md:210` promises that an
interrupted run can be resumed; `_resume_refusal` accepts `AWAITING_APPROVAL`
only, and a run that dies in phase one or two stays where it was.
(3) `pipeline.py:178` says a broken answer is checked and asked for once more.
`validate_provenance` is called even when the schema check failed, and raises on
a JSON list, on a `null` where a list belongs, or on strings in place of
references; the exception ends `run_pipeline`, all other groups included.
(4) `pipeline.py:138` and `:553` say that `invalid_responses_observed` counts the
broken responses really received.  `_call_api` repeats a request whose completion
is empty or no JSON without telling anyone, so those are counted once per failed
call, or not at all.  `SummaryTellsTheTruth` therefore counts the results of
calls, for which the summary is right.  (5) `docs/architecture.md:166-168` says that reachability is
measured rather than declared by the agent, and that `no_route` lowers it.
`_extract_measured_reachability` returns nothing for `no_route`
(`pipeline.py:354`), and `calibrate_record` then keeps what the agent said,
`proven` included.  Where a route is known the measurement does decide
(`MeasurementFollowsTraffic`).
(6) `tests/unit/analysis/test_correlation.py:3` calls correlation deterministic.
`_route_matches` takes the first path that fits in the order of a Python set of
strings, which differs between processes, and `correlate` looks for alerts at that
path only.  Where several answered paths end on a route, the same files can yield
`reachable` or `reachable_and_alerted`.  Whether the route was reached, and with it
the measured reachability, does not depend on the order.

Another sentence is not contradicted by a run, since the table below it says
otherwise itself: `docs/architecture.md:171` says the calibration layer only lowers
and never raises, and lists among its rules that a measurement overwrites
`reachability`, which `calibration.py:130-133` does in either direction.
`OnlyMeasurementStrengthens` states what holds.

## Proofs

Every safety property and every action property of the runs above that pass is
also proved, for all values of the constants.

`RunLifecycle_proofs` is checked by TLAPS for every set of approvers and requests
and every bound, from the assumptions in `ConstantsAssumption` alone (the values
standing for "no file", "free" and so on are distinct from real ones).

* `TypeCorrect`: `Spec => []TypeOK`, split into the types of the artifacts
  (`FilesOK`) and of the calls (`ControlOK`).
* `Invariance`: `Spec => []IInv`, and from it `ProbeOnce`
  (`[]ProbeSentAtMostOnce`) and `UpdatesKept` (`[]NoLostUpdate`).

`ProbeSentAtMostOnce` is not inductive.  A second request needs a second call
past the check, so `IInv` says who may be past it: calls that check, claim or
leave hold the lock (`LockHeld`); at most one call is a writer (`OneWriter`); its
record is the one on disk (`NoLostUpdate`) and does not await approval
(`NotAwaiting`).  `ClaimRun` alone makes a new writer, and it reads
`AWAITING_APPROVAL` under the lock, which contradicts any other writer.  Once a
request is out, no call is before the transport and the run does not await
approval (`NoWayBack`).  Two lemmas carry the induction: `QuietStep` for steps
that create no writer, `WriterStep` for steps of the writer.

Its second part builds on `IInv`:

* `GateImplemented`: `Spec => ImplementsGate`, the run implements `ProbeGate`
  under the mapping of the saved state to a phase and of `wire` to a count.
* `FinalityOfTerminal`: `Spec => TerminalIsFinal`: DONE and FAILED are kept, and
  REJECTED can only become FAILED.

Both rest on `GateInv` (theorem `GateInvariance`): the state of a record in
memory fits the place of its call in the code (`StatesAt`), so that the next save
can only move the phase forwards; a record without a claim reaches `step_probe`
only where nothing is sent; and nothing is sent before a claim is saved.

`RunOutcome_proofs` says what is left of a run, from two more invariants.

* `ApprovedRequests` (`[]SentRequestWasApproved`), from `ChoiceInvariance`.
  `decision.json` may be replaced while a call acts on it, so the file alone says
  nothing of what was sent.  `ChoiceInv` says that an operator decides once and
  before its call resumes the run, that every complete decision on file is the one
  its operator made, and that what a call holds in memory when it is at the
  transport is an approval of the very request beside it.
* `RejectedRuns` (`[]RejectedMeansUnsent`), `DoneRuns` (`[]DoneMeansSettled`) and
  `FailedRuns` (`[]FailureStopsTheRun`), from `OutcomeInvariance`.  `OutcomeInv`
  says, place by place, what the record in memory has settled (`StepsFit`), that
  no artifact speaks of a probe before there is one (`Untouched`), and that behind
  it record, result, audit log and wire tell the same (`Agreed`); and what the
  saved record says between calls (`FileTells`).  `StepsFit` must allow for an
  approval step that stays open until `step_probe` has read the decision, which is
  why a failure there leaves it running.

`RateLimiter_proofs` holds for every number of threads, every rate, burst and
length of time, from `BucketAssumption` (the figures are positive):

* `BucketTyped`, `BudgetAlwaysKept` (`[]BudgetKept`) and `SleepIsNeeded`
  (`[]NobodyOversleeps`), from `BucketInvariance`.

The budget of past stretches does not say what may be granted next.
`NothingFromNowhere` does: since any granted call, what was granted plus what is
left in the bucket is at most the burst plus what came in.  It becomes the budget
of every stretch that ends with the next grant.  `SleepsMeasured` says that one
tick before a sleeper is due, the tokens at the last look and what came in since
do not make a token; other threads only take, so this survives them.

`ProbeThrottle_proofs` composes: `RefusedForDelay` (`[]RefusalsAreDueToDelay`) and
`ThrottleTyped`, without any assumption on how long requests are under way.  A
request that arrives later than a token takes to come back is late; each late one
can make room for one refusal at most, whichever request it then hits.  The
invariant is `Balanced`: the excess not yet decayed, the prompt requests under way
and the tokens in the bucket are together within the burst, but for one token for
each late request that was not paid for by a refusal.  A prompt request only moves
a token from one to the next, a late one adds a token to the excess without taking
one from those under way, and time takes from the excess what it gives to the
bucket.  The one exception is an excess that has decayed to nothing while the
bucket went on filling; there `NothingFromNowhere` helps: prompt requests under way
are young, so they and the bucket exceed the burst by one token at most, the one
being counted.

**What it means.**  At 30 requests per minute a token takes two seconds.  The five
seconds of `transport.py:80` are a limit on each wait for the socket and not on the
whole way, and a request given up may still arrive, so requests may well be late
and the Gateway may answer 429; the run `throttle` has such states.  The theorem
speaks of one process as the only user of a key; a second process, or a restarted
one, has a bucket of its own.

`AnalysisPipeline_proofs` holds for every number of groups, threads and retries
and every set of answers, from `PipelineAssumption`.

* `PoolIsEmpty` (`[]NothingRunsAfterReturn`): when `run_pipeline` has returned or
  raised, no thread is at work.  The property says nothing of the phases before;
  `PhaseInv` does: a thread works only while groups are being analysed or
  cancelled, and the output files are written only once every group is settled.
* `RequestsStayBounded` (`[]RequestsBounded`): no group costs more requests than
  two calls with their retries.  `RequestInv` ties the requests of the current
  call, the number of finished calls and the place of the group together, so that
  a repair call is the second and there is no third.
* `RecordsAreRight` (`[]RecordsFollowAnswers`), `CompleteIsChecked`
  (`[]CompleteMeansChecked`), `SummaryIsTrue` (`[]SummaryTellsTheTruth`) and
  `PipelineTypes` (`[]TypeOK`).  `OutcomesTell` says what the outcome of a group
  tells of its results at each place the group can be in: nothing yet, one broken
  answer that is asked for again, or what it came to.  `FilesTell` says that both
  files are what the outcomes came to, since no group moves any more.  What is left
  is counting.  A sum over the groups is the size of the union of their counters,
  each kept apart (`Total`); a one-to-one map between these units and the results
  they were counted for shows that both sums are the same (`SumsAgree`,
  `FlagsCount`), without an induction over the groups.  That no answer is taken
  for the absence of one is part of `PipelineAssumption`.

`SetOrder_proofs` has the lemmas about `Nth` which this and the intake need: in an
order on a finite set there is a k-th element for each k up to its size, each
element is the k-th for one k only, and later ones are larger.

`ProbeFlow_proofs` holds for all registries, analyses, overrides, probes and
changes by hand, from `RegistriesAssumption` (templates carry payload kinds that
have a canonical body) and `ProbesAssumption` (a hand leaves the fields of a
probe in place).

* `ApplicationSeesApproved` (`[]AppSeesWhatWasApproved`).  The request carries
  only the name of a template and a length, and the Gateway may have maps of
  another registry.  The invariant (`FlowInvariant`) says that what is on the wire
  was resolved in the registry of that moment and, where it must be, approved; and
  of the canonical bodies no two have the same length, so that a Gateway which
  accepts the length builds the body that was approved.
* `PoliciesFromOneRegistryAgree` (`[]PoliciesAgree`): with maps of the same
  registry the Gateway refuses nothing that the client lets through.
* `FinishedRuns` (`[]FinishedRunsAgree`), `Conclusions`
  (`[]ConclusionsAreGrounded`), `MaskingTold` (`[]MaskingIsReported`) and
  `FlowTypes` (`[]TypeOK`), from `FilesTell`.  Its invariant, `BookInv`, says for
  each place of the call which files are there and what they say: the result
  repeats the answer up to its truncation, the events and the lines of the audit
  log are those of what happened, and the proposal is that of an analysis of the
  name it gives.  The summaries are written one after the other from these, so
  that what `FinishedRunsAgree` compares at the end goes back to one source.

These need, besides, that the analyses are arrays (`AnalysesAssumption`), that the
bound on edits is a number, and that no request or probe is taken for a missing
file (`NoFileAssumption`).  What `ConclusionsAreGrounded` says of names is as much
as holds: `_linked_record` finds a record by its `analysis_id`, which the model
makes up and nothing compares with the others.  Of two records with one name the
evidence is that of the first, while the objective may have come from the second.

`Intake_proofs` holds for every number of findings and any threshold, from
`ReportsAssumption` (a fingerprint is made from one rule, and lines are integers
or missing) and `ThresholdsAssumption`; its second part from `ClaimsAssumption`
and `NoMeasureAssumption`.

* `NoFindingIsLost` (`[]EveryFindingInOneGroup`) and
  `GroupsDependOnFindingsOnly` (`[]GroupsAreClasses`), from `GroupingInvariant`.
  At any time the groups cover what was placed, are disjoint, have one rule each
  and keys apart, and are connected by nearness (`Sound`).  What a pass has
  compared and found apart stays apart as long as the pass merges nothing
  (`ComparedApart`); so after a pass without a merge no two groups are near
  (`NoRelations`), and the order of the input is gone.  One rule per group is what
  lets the code compare the rules of the leads only.
* `OnlyTrafficStrengthens` (`[]OnlyMeasurementStrengthens`) and
  `PublishedRecordsAreSober` (`[]CalibrationIsSober`): each link of the chain asserts
  no more than what it is given, but for a measurement that says proven, which
  needs an answered path of the route; and the last record is a fixed point.
* `MergingSucceeds` (`[]MergeIsNeverRefused`), `EvidenceHolds`
  (`[]EvidenceIsObserved`), `TrafficDecides` (`[]MeasurementFollowsTraffic`) and
  `IntakeTypes` (`[]TypeOK`), from `IntakeInvariant`.  `IntakeInv` says, step by
  step, that `findings.json` is what the normalizers make of the two reports, that
  its evidence is what `correlate` makes of the log in some order of its paths,
  and that a published record is that of the group it is about.  From there the
  argument is about operators: the k-th entry and the k-th plugin are different
  for different k, so no identifier occurs twice; where a path fits, one is found
  in every order, so that whether a route was reached does not depend on it (which
  path it is, and so whether alerts are found, does: disagreement 6); what evidence
  says of alerts is right for the path it names, as far as `findings.json` keeps
  their instances (`MaxInstances`); and an alert at a path is one of
  an instance the Gateway had forwarded.  They need that ZAP's plugins
  are in an order (`AlertReportsAssumption` has numbers for them) and its lists are
  lists, that a log is finite (`AccessLogsAssumption`), and that a report is told
  from a missing file (`AbsentAssumption`).

## Only model-checked

Liveness, which is out of the prover's reach: `DecidedRunEnds`, `PipelineReturns`
and `GroupingEnds` are shown for the instances of their runs only.  The six
disagreements are counterexamples, for which an instance is enough.

## What the models leave out

In `RunLifecycle`: run log and guardrail events, timestamps, texts.  What a step
computes before `proposal.json` is a choice, and denials by allowlist, payload
kind or template are one nondeterministic choice (`ProbeDenied`); `ProbeFlow` has
them one by one.  `decision.json` holds a whole decision, nothing, or a garbled
text; `state.json` and `probe-claim.json` are replaced atomically, as the code
does with `os.replace`.  A failure inside a step is modelled with all of the
step's earlier writes undone, except where another call can see them
(`FailStep`, `ProbeBroken`).

In the pipeline: packets and prompts, token counts, the reasons of a failure, the
redaction around the provider, and what each validator compares (an answer is the
set of faults they find).  A negative retry limit is not modelled.

In `ProbeFlow`: headers, timings, sizes, wording.  An answer is its status class
and the set of things it carries that the filters or the verdict look for
(`Marks`); where they stand is told apart only by the truncation of the preview.

In `Intake`: identifiers are made up by the normalizers and occur as far as the
merge compares them; texts, CWE and confidence are left out; a path is a sequence
of segments.  Which routes a file declares is a constant, as extracting them is
string processing.  One group's answer stands for all, since a record depends on
its own group only.

## Not modelled

* **Retrieval** (`retrieval/`): a keyword ranking over a fixed corpus, without
  state or control flow; its unit tests say as much as a model would.
* **The regular expressions and the merging of spans** of the filters: string
  processing.  Where the filters are applied is in `ProbeFlow`.
* **Configuration, command line and data classes**: parsing, and read-only
  commands.
* **The Gateway's DAST listener** except its access log, and its header rules and
  size limits: they are configuration of Nginx, whose semantics would be the
  model's own invention.
* **Layout of reports and the listing of findings in them**; **GET screens**;
  **run-log lines**: they only show what others wrote.
* **`new_run` and `list_runs`**: one run is modelled; that two processes may pick
  the same directory name is listed as a hazard.
* **Demo, evaluation and exercises**: they use the components above.

## Plan

1. An abstract specification of the pipeline (one outcome per group, in group
   order, all or nothing) that it implements, proved from `OutcomeInv` and
   `FilesInv`.
2. Several processes with buckets of their own: what a run records when the
   Gateway answers 429.
3. `RunStore`: directory names and listing.
