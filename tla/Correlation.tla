---------------------------- MODULE Correlation ----------------------------
(***************************************************************************)
(* What becomes of the scanners' reports: normalizer.py for OpenGrep,      *)
(* zap_normalizer.py for ZAP, merge_findings.py, and correlation.py, which *)
(* compares the routes that source files declare with the paths that the   *)
(* Gateway's access log shows.                                             *)
(*                                                                         *)
(* A path is the sequence of what stands between its slashes, a route      *)
(* likewise; files, rules and plugins are numbers, in their order.         *)
(***************************************************************************)
EXTENDS Integers, FiniteSets, SequencesExt, SetOrder

CONSTANTS
  RouteOf,        \* the route that a source file declares
  NoRoute,        \* it declares none, is too large or cannot be read
  NotAnObject,    \* an entry of a report that is no JSON object
  MaxInstances    \* DEFAULT_MAX_INSTANCES

ASSUME MaxInstancesAssumption == MaxInstances \in Nat \ {0}

MapSeverity(s) ==
  CASE s = "ERROR" -> "high" [] s = "WARNING" -> "medium"
    [] s = "INVENTORY" -> "info" [] OTHER -> "low"

\* normalize_report: identifiers count the entries that are skipped, too.
Static(report) ==
  LET kept == {n \in DOMAIN report : report[n] # NotAnObject}
      FindingAt(n) == [id          |-> <<"opengrep", n>>,
                       tool        |-> "opengrep",
                       rule        |-> report[n].rule,
                       file        |-> report[n].file,
                       line        |-> report[n].line,
                       severity    |-> MapSeverity(report[n].severity),
                       fingerprint |-> report[n].fingerprint,
                       instances   |-> <<>>]
  IN [k \in 1..Cardinality(kept) |-> FindingAt(Nth(kept, Ascending(kept), k))]

-----------------------------------------------------------------------------
\* _was_forwarded_by_dast_gateway
WasForwarded(instance) ==
  /\ instance.method \in {"GET", "HEAD"}
  /\ instance.host = "gateway-dast"
  /\ Len(instance.path) > 1 /\ instance.path[1] = "WebGoat"

AlertsOf(report, plugin) == {n \in DOMAIN report : report[n].plugin = plugin}

\* The m-th instance of the n-th alert is at the place <<n, m>>.
Places(report, plugin) ==
  UNION {{n} \X DOMAIN report[n].instances : n \in AlertsOf(report, plugin)}

InstanceAt(report, place) == report[place[1]].instances[place[2]]

\* The instances of all alerts of a plugin, the first one of equal ones.
Collected(report, plugin) ==
  LET forwarded == {p \in Places(report, plugin) : WasForwarded(InstanceAt(report, p))}
      new       == {p \in forwarded : \A q \in forwarded :
                      InstanceAt(report, q) = InstanceAt(report, p)
                        => <<p, q>> \in NestedOrder(forwarded)}
  IN [k \in 1..Cardinality(new) |->
        InstanceAt(report, Nth(new, NestedOrder(new), k))]

Plugins(report) ==
  {p \in {report[n].plugin : n \in DOMAIN report} : Collected(report, p) # <<>>}

\* The finding of a plugin: named after its first instance, with the risk of its
\* first alert and the first instances only.
PluginFinding(report, plugin) ==
  LET all    == Collected(report, plugin)
      alerts == AlertsOf(report, plugin)
  IN [id          |-> <<"zap", plugin>>,
      tool        |-> "zap",
      rule        |-> plugin,
      file        |-> all[1].url,
      line        |-> 0,
      severity    |-> report[Nth(alerts, Ascending(alerts), 1)].risk,
      fingerprint |-> <<plugin, all[1]>>,
      instances   |-> [n \in DOMAIN all \cap 1..MaxInstances |-> all[n]]]

\* Faulty variant of Dynamic: one finding for each alert, not for each plugin.
DynamicPerAlert(report) ==
  LET kept == {n \in DOMAIN report : report[n].plugin \in Plugins(report)}
  IN [k \in 1..Cardinality(kept) |->
        PluginFinding(report, report[Nth(kept, Ascending(kept), k)].plugin)]

\* normalize_zap_report
Dynamic(report) ==
  LET plugins == Plugins(report)
  IN [k \in 1..Cardinality(plugins) |->
        PluginFinding(report, Nth(plugins, Ascending(plugins), k))]

\* merge_files refuses an identifier that occurs twice.
Mergeable(fs) == \A a, b \in DOMAIN fs : fs[a].id = fs[b].id => a = b

-----------------------------------------------------------------------------
\* Faulty variant of Observed: a redirection counts as an answer.
ObservedBelow400(log) == {l.path : l \in {m \in log : m.status < 400}}

\* parse_gateway_access_log: the paths that were answered with 2xx.
Observed(log) == {l.path : l \in {m \in log : 200 <= m.status /\ m.status < 300}}

\* The route may follow a context path.
RouteMatches(route, path) == IsSuffix(route, path)

\* The dynamic findings that have an instance on a path.
AlertsAt(fs, path) ==
  {f.id : f \in {g \in Range(fs) : \E x \in Range(g.instances) : x.path = path}}

Evidence(strength, observed, alerts) ==
  [strength |-> strength, observed |-> observed, alerts |-> alerts]

\* correlate for a static finding.  _route_matches takes the first path that
\* fits in the order in which Python happens to go through a set.
EvidenceFor(f, fs, order) ==
  LET route   == RouteOf[f.file]
      fitting == {n \in DOMAIN order : RouteMatches(route, order[n])}
      path    == order[Nth(fitting, Ascending(fitting), 1)]
  IN IF route = NoRoute THEN Evidence("no_route", <<>>, {})
     ELSE IF fitting = {} THEN Evidence("route_known_not_reached", <<>>, {})
     ELSE Evidence(IF AlertsAt(fs, path) = {} THEN "reachable"
                   ELSE "reachable_and_alerted",
                   path, AlertsAt(fs, path))

=============================================================================
