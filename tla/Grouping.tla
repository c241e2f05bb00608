------------------------------ MODULE Grouping ------------------------------
(***************************************************************************)
(* group_findings: findings become buckets by fingerprint, or by rule,     *)
(* file and line; then two loops over a list that shrinks under them merge *)
(* groups that are near each other, pass after pass, until a pass merges   *)
(* nothing; then the list is sorted.                                       *)
(*                                                                         *)
(* A member of a group is the position of a finding in the input, so that  *)
(* equal findings stay apart.  The order of members does not matter, since *)
(* they are sorted by identifier in the end; what is read before is the    *)
(* first one, the lead.                                                    *)
(***************************************************************************)
EXTENDS Integers, Sequences, FiniteSets, Functions

CONSTANTS
  NoFingerprint,   \* the fingerprint is missing or blank
  Thresholds       \* what near_dup_line_threshold may be; -1 merges nothing

ASSUME ThresholdsAssumption == Thresholds \subseteq Int

VARIABLES
  findings,    \* the input
  threshold,   \* near_dup_line_threshold
  stage,       \* where group_findings is
  placed,      \* how many findings are in a bucket
  groups,      \* group_list
  i, j,        \* the two loops
  merged       \* this pass has merged something

loops == <<i, j, merged>>
groupingVars == <<findings, threshold, stage, placed, groups, loops>>

GroupingInit ==
  /\ findings = <<>> /\ threshold \in Thresholds
  /\ stage = "idle" /\ placed = 0 /\ groups = <<>>
  /\ i = 1 /\ j = 2 /\ merged = FALSE

Start(input) ==
  /\ stage = "idle" /\ stage' = "bucket"
  /\ findings' = input
  /\ UNCHANGED <<threshold, placed, groups, loops>>

-----------------------------------------------------------------------------
Key(f) == IF f.fingerprint # NoFingerprint THEN <<f.fingerprint>>
          ELSE <<f.rule, f.file, f.line>>

SameKey(a, b) == Key(findings[a]) = Key(findings[b])

\* The next finding joins the bucket of its key, or starts one.
PutInBucket ==
  LET k    == placed + 1
      same == {g \in DOMAIN groups : SameKey(groups[g].lead, k)}
  IN /\ stage = "bucket" /\ placed < Len(findings)
     /\ placed' = k
     /\ groups' = IF same = {} THEN Append(groups, [lead |-> k, members |-> {k}])
                  ELSE [g \in DOMAIN groups |->
                          IF g \in same
                          THEN [groups[g] EXCEPT !.members = @ \cup {k}]
                          ELSE groups[g]]
     /\ UNCHANGED <<findings, threshold, stage, loops>>

\* A threshold below zero skips the merging.
StartMerging ==
  /\ stage = "bucket" /\ placed = Len(findings)
  /\ stage' = IF threshold >= 0 THEN "merge" ELSE "sort"
  /\ UNCHANGED <<findings, threshold, placed, groups, loops>>

Close(a, b) ==
  /\ findings[a].file = findings[b].file
  /\ findings[a].line - findings[b].line \in (-threshold)..threshold

\* Two groups of one rule, by their leads, with members that are close.
Near(g, h) ==
  /\ findings[g.lead].rule = findings[h.lead].rule
  /\ \E a \in g.members, b \in h.members : Close(a, b)

Looking == stage = "merge" /\ i <= Len(groups)

\* Faulty variant of MergeTwo: the list keeps the group that was merged.
MergeWithoutPop ==
  /\ Looking /\ j <= Len(groups)
  /\ Near(groups[i], groups[j])
  /\ groups' = [groups EXCEPT ![i].members = @ \cup groups[j].members]
  /\ merged' = TRUE /\ j' = j + 1
  /\ UNCHANGED <<findings, threshold, stage, placed, i>>

\* Faulty variant of MergeTwo: the group that follows is never compared with
\* the merged one, and no other pass is made for it.
MergeAndGoOn ==
  /\ Looking /\ j <= Len(groups)
  /\ Near(groups[i], groups[j])
  /\ groups' = [g \in 1..Len(groups) - 1 |->
                  CASE g = i -> [groups[i] EXCEPT !.members = @ \cup groups[j].members]
                    [] g # i /\ g < j -> groups[g]
                    [] g >= j -> groups[g + 1]]
  /\ j' = j + 1
  /\ UNCHANGED <<findings, threshold, stage, placed, i, merged>>

\* group_list[i].extend(group_list.pop(j)); j now points at the next group.
MergeTwo ==
  /\ Looking /\ j <= Len(groups)
  /\ Near(groups[i], groups[j])
  /\ groups' = [g \in 1..Len(groups) - 1 |->
                  CASE g = i -> [groups[i] EXCEPT !.members = @ \cup groups[j].members]
                    [] g # i /\ g < j -> groups[g]
                    [] g >= j -> groups[g + 1]]
  /\ merged' = TRUE
  /\ UNCHANGED <<findings, threshold, stage, placed, i, j>>

LeaveApart ==
  /\ Looking /\ j <= Len(groups)
  /\ ~Near(groups[i], groups[j])
  /\ j' = j + 1
  /\ UNCHANGED <<findings, threshold, stage, placed, groups, i, merged>>

\* Faulty variant of NextGroup: the inner loop goes on where it was.
NextGroupFromHere ==
  /\ Looking /\ j > Len(groups)
  /\ i' = i + 1 /\ j' = j + 1
  /\ UNCHANGED <<findings, threshold, stage, placed, groups, merged>>

NextGroup ==
  /\ Looking /\ j > Len(groups)
  /\ i' = i + 1 /\ j' = i + 2
  /\ UNCHANGED <<findings, threshold, stage, placed, groups, merged>>

\* Faulty variant of EndPass: what the last pass did is not forgotten.
EndPassUnforgotten ==
  /\ stage = "merge" /\ i > Len(groups)
  /\ i' = 1 /\ j' = 2
  /\ stage' = IF merged THEN "merge" ELSE "sort"
  /\ UNCHANGED <<findings, threshold, placed, groups, merged>>

\* The end of a pass: another one follows one that merged something.
EndPass ==
  /\ stage = "merge" /\ i > Len(groups)
  /\ i' = 1 /\ j' = 2 /\ merged' = FALSE
  /\ stage' = IF merged THEN "merge" ELSE "sort"
  /\ UNCHANGED <<findings, threshold, placed, groups>>

-----------------------------------------------------------------------------
Least(S) == CHOOSE x \in S : \A y \in S : x <= y

SeverityRank == [critical |-> 0, high |-> 1, medium |-> 2, low |-> 3, info |-> 4]

\* What groups are sorted by: the highest severity, the first location.  The
\* hash that decides between equals may put them in either order.
SortKey(g) ==
  LET file == Least({findings[k].file : k \in g.members})
  IN <<Least({SeverityRank[findings[k].severity] : k \in g.members}), file,
       Least({findings[k].line : k \in {m \in g.members : findings[m].file = file}})>>

Before(s, t) ==
  \E n \in 1..3 : s[n] < t[n] /\ \A m \in 1..n - 1 : s[m] = t[m]

SortGroups ==
  /\ stage = "sort" /\ stage' = "done"
  /\ \E p \in Bijection(DOMAIN groups, DOMAIN groups) :
       /\ \A g, h \in DOMAIN groups :
            g < h => ~Before(SortKey(groups[p[h]]), SortKey(groups[p[g]]))
       /\ groups' = [g \in DOMAIN groups |-> groups[p[g]]]
  /\ UNCHANGED <<findings, threshold, placed, loops>>

GroupingStep ==
  \/ PutInBucket \/ StartMerging \/ MergeTwo \/ LeaveApart \/ NextGroup
  \/ EndPass \/ SortGroups

-----------------------------------------------------------------------------
\* What load_findings returns, where a fingerprint is made from a rule: OpenGrep
\* hashes the rule, zap_normalizer the plugin.
WellFormed ==
  /\ Len(findings) \in Nat /\ DOMAIN findings = 1..Len(findings)
  /\ \A k \in DOMAIN findings : findings[k].line \in Int
  /\ \A a, b \in DOMAIN findings :
       findings[a].fingerprint # NoFingerprint
         /\ findings[a].fingerprint = findings[b].fingerprint
         => findings[a].rule = findings[b].rule

\* No finding is lost or is in two groups, at any time while the list shrinks
\* under the loops.
EveryFindingInOneGroup ==
  \A k \in 1..placed :
    \E g \in DOMAIN groups :
      k \in groups[g].members /\ \A h \in DOMAIN groups \ {g} : k \notin groups[h].members

\* Two findings belong together whatever the others are.
Related(a, b) ==
  \/ SameKey(a, b)
  \/ /\ threshold >= 0
     /\ findings[a].rule = findings[b].rule
     /\ Close(a, b)

\* The groups are the classes that this relation generates: no related findings
\* are in different groups, and no group falls into two parts without a relation
\* between them.  So they depend on the findings, not on their order, although
\* the loops compare groups in the order of the list.
GroupsAreClasses ==
  stage \in {"sort", "done"} =>
    /\ \A g, h \in DOMAIN groups : g # h =>
         \A a \in groups[g].members, b \in groups[h].members : ~Related(a, b)
    /\ \A g \in DOMAIN groups : \A part \in SUBSET groups[g].members :
         part \notin {{}, groups[g].members} =>
           \E a \in part, b \in groups[g].members \ part : Related(a, b)

=============================================================================
