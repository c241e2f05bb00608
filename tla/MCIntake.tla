------------------------------ MODULE MCIntake ------------------------------
(* An instance of Intake for TLC.  Rules, files and lines are small          *)
(* numbers, plugins and addresses large ones.                               *)
EXTENDS Intake, TLC

CONSTANTS FpA, FpB, FpC

Result(rule, file, line, severity, fp) ==
  [rule |-> rule, file |-> file, line |-> line, severity |-> severity,
   fingerprint |-> fp]

\* A chain of near lines, whose middle comes last; equal fingerprints at a
\* distance; two files and two rules; an entry that is no object; no line.
MCReports ==
  {<<Result(1, 1, 2, "WARNING", FpA), Result(1, 1, 6, "ERROR", FpB),
     Result(1, 1, 4, "INFO", NoFingerprint)>>,
   <<Result(1, 1, 6, "WARNING", FpB), Result(1, 1, 2, "ERROR", FpA),
     NotAnObject, Result(1, 1, 4, "ERROR", FpC), Result(1, 2, 8, "INFO", FpA)>>,
   <<Result(1, 1, 2, "ERROR", NoFingerprint), Result(2, 1, 2, "ERROR", NoFingerprint),
     Result(1, 3, 3, "OTHER", FpB), Result(1, 1, 2, "ERROR", NoFingerprint)>>,
   <<Result(2, 3, NoLine, "ERROR", FpA)>>,
   <<>>}

\* File 3 declares no route.
MCRouteOf == <<<<"a">>, <<"b", "c">>, NoRoute>>

Seen(method, host, path, url) ==
  [method |-> method, host |-> host, path |-> path, url |-> url, param |-> ""]

Page(path, url) == Seen("GET", "gateway-dast", path, url)

Alert(plugin, risk, instances) ==
  [plugin |-> plugin, risk |-> risk, instances |-> instances]

MCThresholds == {-1, 2}

Short == <<"WebGoat", "a">>
Long == <<"WebGoat", "x", "a">>
Other == <<"WebGoat", "b", "c">>

MCAlertReports ==
  {<<Alert(1001, "medium", <<Page(Short, 501), Page(Short, 501), Page(Long, 502)>>),
     Alert(1002, "low", <<Seen("POST", "gateway-dast", Short, 501)>>)>>,
   <<Alert(1002, "high", <<Page(<<"WebGoat">>, 503)>>),
     Alert(1001, "low", <<Seen("GET", "elsewhere", Short, 504), Page(Long, 502)>>),
     Alert(1002, "low", <<Page(Other, 505), Page(Long, 502), Page(Short, 501)>>)>>,
   <<>>}

Line(path, status) == [path |-> path, status |-> status]

MCAccessLogs ==
  {{Line(Short, 200), Line(Long, 200), Line(Other, 302)},
   {Line(Short, 302), Line(Other, 204), Line(<<"WebGoat", "xa">>, 200)},
   {Line(Short, 403)}}

MCClaims == [disposition : Dispositions, severity : {"low", "critical"},
             attackerControl : {"proven", "not_applicable"},
             reachability : ProofValues, denies : BOOLEAN]

=============================================================================
