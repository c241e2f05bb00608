------------------------------- MODULE Intake -------------------------------
(***************************************************************************)
(* From the scanners to a conclusion: step_scan, step_normalize, and of    *)
(* step_analyze the loading, the grouping, and what becomes of the answer  *)
(* about one group, whichever it is.  AnalysisPipeline shows how answers   *)
(* are asked for; here is what they are about and what is made of them.    *)
(***************************************************************************)
EXTENDS Grouping, Correlation, Calibration

CONSTANTS
  Reports,       \* what OpenGrep may report
  AlertReports,  \* what ZAP may report
  AccessLogs,    \* the DAST lane's access logs: sets of [path, status]
  Claims,        \* what an agent may conclude
  Absent,        \* a file is not there
  Malformed,     \* a file is not JSON of the expected shape
  NoLine,        \* a result has no start line
  NoClaim        \* no answer was settled yet

ASSUME ClaimsAssumption == Claims \subseteq Conclusions

ASSUME NoMeasureAssumption == NoMeasure \notin ProofValues

\* What findings.json may hold: a fingerprint is made from a rule by OpenGrep, and
\* from a plugin by zap_normalizer, so that it never stands for two of them.
Loadable(fs) ==
  /\ Len(fs) \in Nat /\ DOMAIN fs = 1..Len(fs)
  /\ \A k \in DOMAIN fs : fs[k].line \in Int \cup {NoLine}
  /\ \A a, b \in DOMAIN fs :
       fs[a].fingerprint # NoFingerprint /\ fs[a].fingerprint = fs[b].fingerprint
         => fs[a].rule = fs[b].rule

IsArray(s) == Len(s) \in Nat /\ DOMAIN s = 1..Len(s)

ASSUME ReportsAssumption ==
  \A r \in Reports :
    /\ IsArray(r) /\ Loadable(Static(r))
    /\ \A a \in AlertReports : Loadable(Static(r) \o Dynamic(a))

\* The plugins of alerts are numbers, in their order.
ASSUME AlertReportsAssumption ==
  \A a \in AlertReports :
    /\ IsArray(a)
    /\ \A n \in DOMAIN a : a[n].plugin \in Int /\ IsArray(a[n].instances)

ASSUME AccessLogsAssumption ==
  \A log \in AccessLogs : IsFiniteSet(log) /\ \A l \in log : l.status \in Int

\* No file that is there is taken for one that is not.
ASSUME AbsentAssumption == Absent \notin AlertReports

VARIABLES
  pc,          \* the step that comes next
  cause,       \* why the run failed
  oldReport,   \* artifacts/raw/opengrep.json, left by an earlier scan
  raw,         \* raw.json
  alerts,      \* zap-alerts.json
  accessLog,   \* gateway-access.log
  dast,        \* what state.json says of DAST
  items,       \* findings.json
  evidence,    \* the runtime_evidence in it, by position; <<>> without any
  claim,       \* what the agent concludes of a group
  record,      \* what is published
  about        \* the group both are about

scanVars == <<oldReport, raw, alerts, accessLog, dast>>
findingsVars == <<items, evidence>>
answerVars == <<claim, record, about>>
vars == <<pc, cause, scanVars, findingsVars, answerVars, groupingVars>>

Init ==
  /\ GroupingInit
  /\ pc = "scan" /\ cause = ""
  /\ oldReport \in Reports \cup {Absent}
  /\ raw = Absent /\ alerts = Absent /\ accessLog = Absent /\ dast = ""
  /\ items = <<>> /\ evidence = <<>>
  /\ claim = NoClaim /\ record = NoClaim /\ about = {}

Fails(why) == pc' = "end" /\ cause' = why

\* A step goes on, with the next one, or fails.
GoesOn(next) == pc' = next /\ UNCHANGED cause

-----------------------------------------------------------------------------
(* step_scan                                                               *)

\* raw.json is what the command wrote, or else what an earlier one left.
Scan ==
  /\ pc = "scan"
  /\ \E written \in Reports \cup {Absent, Malformed} :
       raw' = IF written # Absent THEN written ELSE oldReport
  /\ CASE raw' = Absent -> Fails("no report")
       [] raw' = Malformed -> Fails("bad report")
       [] OTHER -> GoesOn("dast")
  /\ UNCHANGED <<oldReport, alerts, accessLog, dast, findingsVars, answerVars,
                 groupingVars>>

\* A command of step_scan or step_normalize fails or takes too long.
CommandFails ==
  /\ pc \in {"scan", "normalize"}
  /\ Fails("command")
  /\ UNCHANGED <<scanVars, findingsVars, answerVars, groupingVars>>

NoDast ==
  /\ pc = "dast" /\ dast' = "skipped"
  /\ GoesOn("normalize")
  /\ UNCHANGED <<oldReport, raw, alerts, accessLog, findingsVars, answerVars,
                 groupingVars>>

\* The DAST command may leave either file, and may fail all the same.
Dast ==
  /\ pc = "dast"
  /\ alerts' \in AlertReports \cup {Absent, Malformed}
  /\ accessLog' \in AccessLogs \cup {Absent}
  /\ \E succeeds \in BOOLEAN :
       dast' = IF succeeds /\ alerts' # Absent /\ accessLog' # Absent
               THEN "done" ELSE "skipped"
  /\ GoesOn("normalize")
  /\ UNCHANGED <<oldReport, raw, findingsVars, answerVars, groupingVars>>

-----------------------------------------------------------------------------
(* step_normalize                                                          *)

NormalizeStatic ==
  /\ pc = "normalize"
  /\ items' = Static(raw)
  /\ GoesOn(IF alerts = Absent THEN "load" ELSE "merge")
  /\ UNCHANGED <<scanVars, evidence, answerVars, groupingVars>>

\* Alerts are merged when they are there, whatever state.json says of DAST.
Merge ==
  LET both == items \o Dynamic(alerts)
  IN /\ pc = "merge" /\ alerts # Malformed
     /\ IF Mergeable(both)
        THEN items' = both /\ GoesOn("correlate")
        ELSE UNCHANGED items /\ Fails("merge")
     /\ UNCHANGED <<scanVars, evidence, answerVars, groupingVars>>

MergeBreaks ==
  /\ pc = "merge" /\ alerts = Malformed
  /\ Fails("bad alerts")
  /\ UNCHANGED <<scanVars, findingsVars, answerVars, groupingVars>>

\* Without an access log nothing was observed.
Traffic == IF accessLog = Absent THEN {} ELSE accessLog

Correlate ==
  /\ pc = "correlate" /\ GoesOn("load")
  /\ \E order \in SetToSeqs(Observed(Traffic)) :
       evidence' = [k \in {n \in DOMAIN items : items[n].tool # "zap"} |->
                      EvidenceFor(items[k], items, order)]
  /\ UNCHANGED <<scanVars, items, answerVars, groupingVars>>

-----------------------------------------------------------------------------
(* step_analyze                                                            *)

\* load_findings converts the line of every finding.
Load ==
  /\ pc = "load"
  /\ \A k \in DOMAIN items : items[k].line # NoLine
  /\ Start(items)
  /\ GoesOn("group")
  /\ UNCHANGED <<scanVars, findingsVars, answerVars>>

LoadBreaks ==
  /\ pc = "load"
  /\ \E k \in DOMAIN items : items[k].line = NoLine
  /\ Fails("no line")
  /\ UNCHANGED <<scanVars, findingsVars, answerVars, groupingVars>>

Group ==
  /\ pc = "group"
  /\ GroupingStep
  /\ UNCHANGED <<pc, cause, scanVars, findingsVars, answerVars>>

\* Faulty variant of Measured: one finding out of reach decides for all.
MeasuredPessimist(members) ==
  LET strengths == {evidence[k].strength : k \in members \cap DOMAIN evidence}
  IN IF "route_known_not_reached" \in strengths THEN "not_proven"
     ELSE IF strengths \cap {"reachable", "reachable_and_alerted"} # {} THEN "proven"
     ELSE NoMeasure

\* _extract_measured_reachability.  It looks at the findings that the record
\* names; the validators let no record through that does not name them all.
Measured(members) ==
  LET strengths == {evidence[k].strength : k \in members \cap DOMAIN evidence}
  IN IF strengths \cap {"reachable", "reachable_and_alerted"} # {} THEN "proven"
     ELSE IF "route_known_not_reached" \in strengths THEN "not_proven"
     ELSE NoMeasure

\* _settle publishes the answer about a group.
Settle ==
  /\ pc = "group" /\ stage = "done"
  /\ \E g \in DOMAIN groups, c \in Claims :
       /\ about' = groups[g].members
       /\ claim' = c
       /\ record' = Calibrated(c, Measured(groups[g].members))
  /\ GoesOn("end")
  /\ UNCHANGED <<scanVars, findingsVars, groupingVars>>

Next ==
  \/ Scan \/ CommandFails \/ NoDast \/ Dast
  \/ NormalizeStatic \/ Merge \/ MergeBreaks \/ Correlate
  \/ Load \/ LoadBreaks \/ Group \/ Settle

Spec == Init /\ [][Next]_vars

\* group_findings runs to its end once it is called.
FairSpec == Spec /\ WF_vars(Group)

-----------------------------------------------------------------------------
\* Every variable has its type, in particular the input of the grouping.
TypeOK ==
  /\ stage \in {"idle", "bucket", "merge", "sort", "done"}
  /\ threshold \in Thresholds
  /\ WellFormed
  /\ placed \in 0..Len(findings)
  /\ \A g \in DOMAIN groups : groups[g].lead \in groups[g].members
  /\ i \in 1..Len(findings) + 1 /\ j \in 2..Len(findings) + 2 /\ merged \in BOOLEAN
  /\ raw \in Reports \cup {Absent, Malformed}
  /\ dast \in {"", "done", "skipped"}
  /\ DOMAIN evidence \subseteq DOMAIN items
  /\ record # NoClaim => record \in Conclusions
  /\ cause # "" => pc = "end"

\* Merging the findings of both scanners never meets an identifier twice, though
\* each normalizer makes them up on its own.
MergeIsNeverRefused == cause # "merge"

\* The Gateway answered a path on which a route of this finding's file ends.
Reached(k) ==
  \E l \in Traffic : l.status \in 200..299 /\ RouteMatches(RouteOf[items[k].file], l.path)

\* What findings.json says of a static finding at run time is what the files of
\* the scan show: reachable if a path of the declared route was answered.  It
\* names one such path, alerted with what ZAP raised on that path and the
\* Gateway had forwarded, and not alerted if no instance in findings.json is on
\* that path.  Which of several paths it is, is left open: see
\* CorrelationIsDeterministic.
EvidenceIsObserved ==
  \A k \in DOMAIN evidence :
    LET e     == evidence[k]
        route == RouteOf[items[k].file]
    IN /\ e.strength = "no_route" <=> route = NoRoute
       /\ e.strength # "no_route" =>
            (e.strength \in {"reachable", "reachable_and_alerted"} <=> Reached(k))
       /\ e.strength \in {"reachable", "reachable_and_alerted"} =>
            /\ RouteMatches(route, e.observed)
            /\ \E l \in Traffic : l.path = e.observed /\ l.status \in 200..299
       /\ e.strength = "reachable" =>
            \A n \in DOMAIN items : \A x \in Range(items[n].instances) :
              x.path # e.observed
       /\ e.strength = "reachable_and_alerted" =>
            \E a \in Range(alerts) : \E x \in Range(a.instances) :
              /\ WasForwarded(x) /\ x.path = e.observed
              /\ <<"zap", a.plugin>> \in e.alerts

\* The static findings of a group whose files declare a route.
Routed(members) ==
  {k \in members : items[k].tool # "zap" /\ RouteOf[items[k].file] # NoRoute}

\* Where the routes of a group are known and ZAP ran, a published record says
\* of reachability what the traffic shows, whatever the agent claimed and
\* whichever paths happened to be compared first; elsewhere it says what the
\* agent did.
MeasurementFollowsTraffic ==
  record # NoClaim =>
    record.reachability =
      IF alerts = Absent \/ Routed(about) = {} THEN claim.reachability
      ELSE IF \E k \in Routed(about) : Reached(k) THEN "proven" ELSE "not_proven"

\* A published record asserts no more than the agent did, but for one thing: it
\* calls the group reachable, which the agent need not have done, where a route
\* of the group was answered while ZAP ran.  That raises neither disposition nor
\* severity.
OnlyMeasurementStrengthens ==
  record # NoClaim =>
    Weaker(record, IF alerts # Absent /\ \E k \in Routed(about) : Reached(k)
                   THEN [claim EXCEPT !.reachability = "proven"] ELSE claim)

\* A published record asserts nothing it has no proof for, measured or not, and
\* calibrating it again would not change it.
CalibrationIsSober ==
  record # NoClaim =>
    /\ Sober(record)
    /\ Calibrated(record, NoMeasure) = record

\* What docs/architecture.md says of reachability: that it is measured and not
\* what the agent says of itself, and lowered where no route is known.  The code
\* measures nothing there, and keeps what the agent says.
ReachabilityIsMeasured ==
  record # NoClaim
    /\ about \subseteq DOMAIN evidence
    /\ (\A k \in about : evidence[k].strength = "no_route")
    => record.reachability # "proven"

\* What tests/unit/analysis/test_correlation.py says of correlate: that it is
\* deterministic.  Of several answered paths on which a route ends, it takes one
\* in the order in which Python goes through a set of strings; if ZAP raised
\* alerts on some of them only, that order decides what findings.json says.
CorrelationIsDeterministic ==
  \A k \in DOMAIN evidence : \A order \in SetToSeqs(Observed(Traffic)) :
    EvidenceFor(items[k], items, order).strength = evidence[k].strength

\* The loops over the shrinking list come to an end, pass after pass.
GroupingEnds == (stage = "bucket") ~> (stage = "done")

=============================================================================
