---------------------------- MODULE Intake_proofs ----------------------------
(***************************************************************************)
(* For every input: no finding is lost or doubled while groups merge, the  *)
(* groups that come out are the classes of the relation between findings,  *)
(* whatever their order, and calibration only weakens a conclusion.        *)
(*                                                                         *)
(* The invariant of the loops speaks of any list of groups, gs, of the     *)
(* first n findings, so that one lemma for each way a list changes does.   *)
(***************************************************************************)
EXTENDS Intake, SetOrder_proofs, SequenceTheorems

GroupRecords == [lead : Nat, members : SUBSET Nat]

IsList(gs) == Len(gs) \in Nat /\ DOMAIN gs = 1..Len(gs) /\ gs \in [1..Len(gs) -> GroupRecords]

Members(gs, n) ==
  \A g \in DOMAIN gs : gs[g].lead \in gs[g].members /\ gs[g].members \subseteq 1..n

Covers(gs, n) == \A k \in 1..n : \E g \in DOMAIN gs : k \in gs[g].members

Disjoint(gs) ==
  \A g, h \in DOMAIN gs : g # h => gs[g].members \cap gs[h].members = {}

OneRule(gs) ==
  \A g \in DOMAIN gs : \A k \in gs[g].members :
    findings[k].rule = findings[gs[g].lead].rule

KeysApart(gs) ==
  \A g, h \in DOMAIN gs : g # h =>
    \A a \in gs[g].members, b \in gs[h].members : ~SameKey(a, b)

\* No set falls into two parts without a relation between them.
Connected(S) ==
  \A part \in SUBSET S : part \notin {{}, S} =>
    \E a \in part, b \in S \ part : Related(a, b)

AllConnected(gs) == \A g \in DOMAIN gs : Connected(gs[g].members)

Sound(gs, n) ==
  /\ IsList(gs) /\ Members(gs, n) /\ Covers(gs, n) /\ Disjoint(gs)
  /\ OneRule(gs) /\ KeysApart(gs) /\ AllConnected(gs)

\* While findings are put into buckets, a bucket has one key.
Buckets(gs) ==
  \A g \in DOMAIN gs : \A k \in gs[g].members : SameKey(gs[g].lead, k)

BucketKeys == stage = "bucket" => Buckets(groups)

\* What this pass has compared is apart, unless it merged something.
ComparedApart ==
  stage = "merge" =>
    /\ threshold >= 0
    /\ i \in Nat /\ j \in Nat /\ i >= 1 /\ j > i
    /\ merged \/ \A g, h \in DOMAIN groups :
                   (g < i \/ (g = i /\ h < j)) /\ g < h => ~Near(groups[g], groups[h])

NoRelations ==
  stage \in {"sort", "done"} =>
    \A g, h \in DOMAIN groups : g # h =>
      \A a \in groups[g].members, b \in groups[h].members : ~Related(a, b)

Stages ==
  /\ threshold \in Int /\ placed \in Nat
  /\ stage \in {"idle", "bucket", "merge", "sort", "done"}
  /\ stage = "idle" => placed = 0 /\ groups = <<>>
  /\ stage \in {"idle", "bucket"} => i = 1 /\ j = 2
  /\ stage # "idle" => placed <= Len(findings)
  /\ stage \in {"merge", "sort", "done"} => placed = Len(findings)

IInv ==
  Stages /\ Sound(groups, placed) /\ BucketKeys /\ ComparedApart /\ NoRelations

-----------------------------------------------------------------------------
LEMMA KeyNamesRule ==
  ASSUME WellFormed, NEW a \in DOMAIN findings, NEW b \in DOMAIN findings,
         SameKey(a, b)
  PROVE  findings[a].rule = findings[b].rule
<1>1. CASE findings[a].fingerprint # NoFingerprint /\ findings[b].fingerprint # NoFingerprint
  <2>1. <<findings[a].fingerprint>> = <<findings[b].fingerprint>>
    BY <1>1 DEF SameKey, Key
  <2>2. findings[a].fingerprint = findings[b].fingerprint
    BY <2>1
  <2> QED BY <1>1, <2>2 DEF WellFormed
<1>2. CASE findings[a].fingerprint = NoFingerprint /\ findings[b].fingerprint = NoFingerprint
  BY <1>2 DEF SameKey, Key
<1>3. ASSUME NEW x, NEW r, NEW f, NEW l PROVE <<x>> # <<r, f, l>>
  <2>1. Len(<<x>>) = 1 /\ Len(<<r, f, l>>) = 3
    OBVIOUS
  <2> QED BY <2>1
<1>4. CASE findings[a].fingerprint # NoFingerprint /\ findings[b].fingerprint = NoFingerprint
  BY <1>3, <1>4 DEF SameKey, Key
<1>5. CASE findings[a].fingerprint = NoFingerprint /\ findings[b].fingerprint # NoFingerprint
  <2>1. Key(findings[b]) = Key(findings[a])
    BY DEF SameKey
  <2> QED BY <1>3, <1>5, <2>1 DEF Key
<1> QED BY <1>1, <1>2, <1>4, <1>5

LEMMA CloseBothWays ==
  ASSUME WellFormed, NEW a \in DOMAIN findings, NEW b \in DOMAIN findings,
         threshold \in Int
  PROVE  Close(a, b) <=> Close(b, a)
<1>1. findings[a].line \in Int /\ findings[b].line \in Int
  BY DEF WellFormed
<1> QED BY <1>1 DEF Close

LEMMA RelatedBothWays ==
  ASSUME WellFormed, NEW a \in DOMAIN findings, NEW b \in DOMAIN findings,
         threshold \in Int
  PROVE  Related(a, b) <=> Related(b, a)
BY CloseBothWays DEF Related, SameKey

\* Two connected sets with a relation between them make a connected one.
LEMMA UnionConnected ==
  ASSUME WellFormed, threshold \in Int,
         NEW S \in SUBSET DOMAIN findings, NEW T \in SUBSET DOMAIN findings,
         Connected(S), Connected(T),
         NEW s \in S, NEW t \in T, Related(s, t)
  PROVE  Connected(S \cup T)
<1> SUFFICES ASSUME NEW part \in SUBSET (S \cup T), part # {}, part # S \cup T
             PROVE  \E a \in part, b \in (S \cup T) \ part : Related(a, b)
  BY DEF Connected
<1>1. CASE part \cap S \notin {{}, S}
  <2>1. \E a \in part \cap S, b \in S \ (part \cap S) : Related(a, b)
    BY <1>1 DEF Connected
  <2> QED BY <2>1
<1>2. CASE part \cap T \notin {{}, T}
  <2>1. \E a \in part \cap T, b \in T \ (part \cap T) : Related(a, b)
    BY <1>2 DEF Connected
  <2> QED BY <2>1
<1>3. CASE part \cap S = S /\ part \cap T = {}
  <2>1. s \in part /\ t \in (S \cup T) \ part
    BY <1>3
  <2> QED BY <2>1
<1>4. CASE part \cap S = {} /\ part \cap T = T
  <2>1. t \in part /\ s \in (S \cup T) \ part /\ Related(t, s)
    BY <1>4, RelatedBothWays
  <2> QED BY <2>1
<1>5. CASE part \cap S = S /\ part \cap T = T
  BY <1>5
<1>6. CASE part \cap S = {} /\ part \cap T = {}
  BY <1>6
<1> QED BY <1>1, <1>2, <1>3, <1>4, <1>5, <1>6

LEMMA OneConnected == ASSUME NEW k PROVE Connected({k})
BY DEF Connected

-----------------------------------------------------------------------------
\* The invariant of the list looks at the findings, not at the loops.
LEMMA SoundNext ==
  ASSUME UNCHANGED <<findings, threshold>>, Sound(groups', placed')
  PROVE  Sound(groups, placed)'
<1>1. IsList(groups)' /\ Members(groups, placed)' /\ Covers(groups, placed)'
        /\ Disjoint(groups)'
  BY DEF Sound, IsList, Members, Covers, Disjoint
<1>2. OneRule(groups)'
  BY DEF Sound, OneRule
<1>3. \A a, b : SameKey(a, b)' <=> SameKey(a, b)
  BY DEF SameKey, Key
<1>4. KeysApart(groups)'
  BY <1>3 DEF Sound, KeysApart
<1>5. \A a, b : Related(a, b)' <=> Related(a, b)
  BY <1>3 DEF Related, Close
<1>6. AllConnected(groups)'
  BY <1>5 DEF Sound, AllConnected, Connected
<1> QED BY <1>1, <1>2, <1>4, <1>6 DEF Sound

LEMMA SoundEmpty == Sound(<<>>, 0) /\ Sound(<<>>, 0)'
BY DEF Sound, IsList, Members, Covers, Disjoint, OneRule, KeysApart, AllConnected

LEMMA FunctionIsSeq ==
  ASSUME NEW S, NEW m \in Nat, NEW f \in [1..m -> S]
  PROVE  f \in Seq(S)
BY SeqDef

LEMMA NewBucket ==
  ASSUME WellFormed, threshold \in Int, NEW gs, NEW n \in Nat, Sound(gs, n),
         Buckets(gs),
         n + 1 \in DOMAIN findings,
         \A g \in DOMAIN gs : ~SameKey(gs[g].lead, n + 1),
         NEW hs, hs = Append(gs, [lead |-> n + 1, members |-> {n + 1}])
  PROVE  Sound(hs, n + 1) /\ Buckets(hs)
<1> DEFINE k == n + 1
           G == [lead |-> k, members |-> {k}]
<1>0. /\ gs \in Seq(GroupRecords) /\ G \in GroupRecords
  <2>1. gs \in [1..Len(gs) -> GroupRecords] /\ Len(gs) \in Nat
    BY DEF Sound, IsList
  <2>2. gs \in Seq(GroupRecords)
    BY <2>1, FunctionIsSeq
  <2>3. k \in Nat /\ {k} \in SUBSET Nat
    OBVIOUS
  <2>4. G \in GroupRecords
    BY <2>3 DEF GroupRecords
  <2> QED BY <2>2, <2>4
<1>1. /\ DOMAIN hs = 1..Len(gs) + 1 /\ Len(hs) = Len(gs) + 1
      /\ \A g \in 1..Len(gs) : hs[g] = gs[g]
      /\ hs[Len(gs) + 1] = G
  BY <1>0
<1>2. /\ DOMAIN gs = 1..Len(gs) /\ Len(gs) \in Nat
      /\ \A g \in DOMAIN gs : gs[g].members \subseteq 1..n /\ k \notin gs[g].members
  BY DEF Sound, IsList, Members
<1>3. G.lead = k /\ G.members = {k}
  OBVIOUS
<1>4. DOMAIN hs = DOMAIN gs \cup {Len(gs) + 1} /\ Len(gs) + 1 \notin DOMAIN gs
  BY <1>1, <1>2
<1>a. hs = Append(gs, G)
  OBVIOUS
<1> HIDE DEF G
<1>5. IsList(hs)
  <2>1. hs \in Seq(GroupRecords)
    BY <1>0, <1>a
  <2> QED BY <2>1, LenProperties DEF IsList
<1>6. Members(hs, k)
  BY <1>1, <1>2, <1>3, <1>4 DEF Sound, Members
<1>7. Covers(hs, k)
  <2> SUFFICES ASSUME NEW m \in 1..k PROVE \E g \in DOMAIN hs : m \in hs[g].members
    BY DEF Covers
  <2>1. CASE m = k
    BY <1>1, <1>3, <1>4, <2>1
  <2>2. CASE m # k
    <3>1. m \in 1..n
      BY <2>2
    <3>2. PICK g \in DOMAIN gs : m \in gs[g].members
      BY <3>1 DEF Sound, Covers
    <3> QED BY <1>1, <1>2, <1>4, <3>2
  <2> QED BY <2>1, <2>2
<1>8. Disjoint(hs)
  BY <1>1, <1>2, <1>3, <1>4 DEF Sound, Disjoint
<1>9. OneRule(hs)
  BY <1>1, <1>2, <1>3, <1>4 DEF Sound, OneRule
<1>10. KeysApart(hs)
  <2>1. \A g \in DOMAIN gs : \A a \in gs[g].members : ~SameKey(a, k) /\ ~SameKey(k, a)
    <3> SUFFICES ASSUME NEW g \in DOMAIN gs, NEW a \in gs[g].members,
                        SameKey(a, k)
                 PROVE  FALSE
      BY DEF SameKey
    <3>1. SameKey(gs[g].lead, a)
      BY DEF Buckets
    <3> QED BY <3>1 DEF SameKey
  <2> QED BY <1>1, <1>2, <1>3, <1>4, <2>1 DEF Sound, KeysApart
<1>11. AllConnected(hs)
  <2>1. Connected({k})
    BY OneConnected
  <2>2. Connected(hs[Len(gs) + 1].members)
    BY <1>1, <1>3, <2>1
  <2>3. \A g \in DOMAIN gs : Connected(hs[g].members)
    BY <1>1, <1>2 DEF Sound, AllConnected
  <2> QED BY <1>4, <2>2, <2>3 DEF AllConnected
<1>12. Buckets(hs)
  BY <1>1, <1>2, <1>3, <1>4 DEF Buckets, SameKey
<1> QED BY <1>5, <1>6, <1>7, <1>8, <1>9, <1>10, <1>11, <1>12 DEF Sound

LEMMA JoinBucket ==
  ASSUME WellFormed, threshold \in Int, NEW gs, NEW n \in Nat, Sound(gs, n),
         Buckets(gs), n + 1 \in DOMAIN findings, 1..n \subseteq DOMAIN findings,
         NEW b \in DOMAIN gs, SameKey(gs[b].lead, n + 1),
         NEW hs,
         hs = [g \in DOMAIN gs |->
                 IF g \in {h \in DOMAIN gs : SameKey(gs[h].lead, n + 1)}
                 THEN [gs[g] EXCEPT !.members = @ \cup {n + 1}] ELSE gs[g]]
  PROVE  Sound(hs, n + 1) /\ Buckets(hs)
<1> DEFINE k == n + 1
<1>1. /\ DOMAIN gs = 1..Len(gs) /\ Len(gs) \in Nat
      /\ \A g \in DOMAIN gs : /\ gs[g] \in GroupRecords
                              /\ gs[g].lead \in gs[g].members
                              /\ gs[g].members \subseteq 1..n
                              /\ k \notin gs[g].members
  BY DEF Sound, IsList, Members
<1>2. \A h \in DOMAIN gs : SameKey(gs[h].lead, k) => h = b
  BY <1>1 DEF Sound, KeysApart, SameKey
<1>3. /\ \A g \in DOMAIN gs \ {b} : hs[g] = gs[g]
      /\ hs[b] = [gs[b] EXCEPT !.members = @ \cup {k}]
      /\ DOMAIN hs = DOMAIN gs
  BY <1>2
<1>4. /\ hs[b] = [lead |-> gs[b].lead, members |-> gs[b].members \cup {k}]
      /\ hs[b].lead = gs[b].lead /\ hs[b].members = gs[b].members \cup {k}
  BY <1>1, <1>3 DEF GroupRecords
<1>5. IsList(hs)
  <2>1. hs \in [1..Len(gs) -> GroupRecords]
    BY <1>1, <1>3, <1>4 DEF GroupRecords
  <2>2. Len(hs) = Len(gs)
    BY <1>1, <2>1
  <2> QED BY <1>1, <2>1, <2>2 DEF IsList
<1>6. Members(hs, k)
  BY <1>1, <1>3, <1>4 DEF Members
<1>7. Covers(hs, k)
  <2> SUFFICES ASSUME NEW m \in 1..k PROVE \E g \in DOMAIN hs : m \in hs[g].members
    BY DEF Covers
  <2>1. CASE m = k
    BY <1>3, <1>4, <2>1
  <2>2. CASE m # k
    <3>1. m \in 1..n
      BY <2>2
    <3>2. PICK g \in DOMAIN gs : m \in gs[g].members
      BY <3>1 DEF Sound, Covers
    <3> QED BY <1>3, <1>4, <3>2
  <2> QED BY <2>1, <2>2
<1>8. Disjoint(hs)
  <2> SUFFICES ASSUME NEW g \in DOMAIN gs, NEW h \in DOMAIN gs, g # h,
                      NEW x \in hs[g].members, x \in hs[h].members
               PROVE  FALSE
    BY <1>3 DEF Disjoint
  <2>1. x = k \/ (x \in gs[g].members /\ x \in gs[h].members)
    BY <1>3, <1>4
  <2>2. x # k
    BY <1>1, <1>3
  <2> QED BY <2>1, <2>2 DEF Sound, Disjoint
<1>9. OneRule(hs)
  <2>1. gs[b].lead \in DOMAIN findings
    BY <1>1
  <2>2. findings[k].rule = findings[gs[b].lead].rule
    BY <2>1, KeyNamesRule
  <2>3. OneRule(gs)
    BY DEF Sound
  <2> SUFFICES ASSUME NEW g \in DOMAIN gs, NEW x \in hs[g].members
               PROVE  findings[x].rule = findings[hs[g].lead].rule
    BY <1>3 DEF OneRule
  <2>4. CASE g = b
    BY <1>4, <2>2, <2>3, <2>4 DEF OneRule
  <2>5. CASE g # b
    <3>1. hs[g] = gs[g]
      BY <1>3, <2>5
    <3>2. x \in gs[g].members
      BY <3>1
    <3>3. findings[x].rule = findings[gs[g].lead].rule
      BY <2>3, <3>2 DEF OneRule
    <3> QED BY <3>1, <3>3
  <2> QED BY <2>4, <2>5
<1>10. Buckets(hs)
  BY <1>3, <1>4 DEF Buckets
<1>11. KeysApart(hs)
  <2> SUFFICES ASSUME NEW g \in DOMAIN hs, NEW h \in DOMAIN hs, g # h,
                      NEW x \in hs[g].members, NEW y \in hs[h].members,
                      SameKey(x, y)
               PROVE  FALSE
    BY DEF KeysApart
  <2>1. SameKey(gs[g].lead, x) /\ SameKey(gs[h].lead, y)
    BY <1>3, <1>4, <1>10 DEF Buckets
  <2>2. SameKey(gs[g].lead, gs[h].lead)
    BY <2>1 DEF SameKey
  <2> QED BY <1>1, <1>3, <2>2 DEF Sound, KeysApart
<1>12. AllConnected(hs)
  <2>1. Connected(gs[b].members \cup {k})
    <3>1. gs[b].members \in SUBSET DOMAIN findings /\ {k} \in SUBSET DOMAIN findings
      BY <1>1
    <3>2. gs[b].lead \in gs[b].members /\ Related(gs[b].lead, k)
      BY <1>1 DEF Related
    <3>3. Connected(gs[b].members) /\ Connected({k})
      BY OneConnected DEF Sound, AllConnected
    <3> QED BY <3>1, <3>2, <3>3, UnionConnected
  <2> QED BY <1>3, <1>4, <2>1 DEF Sound, AllConnected
<1> QED BY <1>5, <1>6, <1>7, <1>8, <1>9, <1>10, <1>11, <1>12 DEF Sound

-----------------------------------------------------------------------------
\* A list whose groups are groups of gs, or two near ones in one.
LEMMA Regrouped ==
  ASSUME WellFormed, threshold \in Int, threshold >= 0, NEW gs, NEW n \in Nat,
         Sound(gs, n), 1..n \subseteq DOMAIN findings,
         NEW hs, IsList(hs),
         \A p \in DOMAIN gs : \E g \in DOMAIN hs :
           gs[p].members \subseteq hs[g].members,
         \A g, h \in DOMAIN hs : g # h =>
           \A a \in hs[g].members, b \in hs[h].members :
             \E p, q \in DOMAIN gs : p # q /\ a \in gs[p].members /\ b \in gs[q].members,
         \A g \in DOMAIN hs : \E p, q \in DOMAIN gs :
           /\ hs[g].lead = gs[p].lead
           /\ hs[g].members = gs[p].members \cup gs[q].members
           /\ p = q \/ Near(gs[p], gs[q])
  PROVE  Sound(hs, n)
<1>1. Members(gs, n) /\ Covers(gs, n) /\ Disjoint(gs) /\ OneRule(gs)
        /\ KeysApart(gs) /\ AllConnected(gs)
  BY DEF Sound
<1>2. Members(hs, n)
  <2> SUFFICES ASSUME NEW g \in DOMAIN hs
               PROVE  hs[g].lead \in hs[g].members /\ hs[g].members \subseteq 1..n
    BY DEF Members
  <2>1. PICK p \in DOMAIN gs, q \in DOMAIN gs :
          /\ hs[g].lead = gs[p].lead
          /\ hs[g].members = gs[p].members \cup gs[q].members
    OBVIOUS
  <2>2. /\ gs[p].lead \in gs[p].members /\ gs[p].members \subseteq 1..n
        /\ gs[q].members \subseteq 1..n
    BY <1>1 DEF Members
  <2> QED BY <2>1, <2>2
<1>3. Covers(hs, n)
  <2> SUFFICES ASSUME NEW k \in 1..n
               PROVE  \E g \in DOMAIN hs : k \in hs[g].members
    BY DEF Covers
  <2>1. PICK p \in DOMAIN gs : k \in gs[p].members
    BY <1>1 DEF Covers
  <2>2. PICK g \in DOMAIN hs : gs[p].members \subseteq hs[g].members
    OBVIOUS
  <2> QED BY <2>1, <2>2
<1>a. ASSUME NEW g \in DOMAIN hs, NEW h \in DOMAIN hs, g # h,
             NEW a \in hs[g].members, NEW b \in hs[h].members
      PROVE  a # b /\ ~SameKey(a, b)
  <2>1. PICK p \in DOMAIN gs, q \in DOMAIN gs :
          p # q /\ a \in gs[p].members /\ b \in gs[q].members
    BY <1>a
  <2>2. gs[p].members \cap gs[q].members = {}
    BY <1>1, <2>1 DEF Disjoint
  <2>3. ~SameKey(a, b)
    BY <1>1, <2>1 DEF KeysApart
  <2> QED BY <2>1, <2>2, <2>3
<1>4. Disjoint(hs)
  BY <1>a DEF Disjoint
<1>5. KeysApart(hs)
  BY <1>a DEF KeysApart
<1> SUFFICES ASSUME NEW g \in DOMAIN hs
             PROVE  /\ \A k \in hs[g].members : findings[k].rule = findings[hs[g].lead].rule
                    /\ Connected(hs[g].members)
  BY <1>2, <1>3, <1>4, <1>5 DEF Sound, OneRule, AllConnected
<1>6. PICK p \in DOMAIN gs, q \in DOMAIN gs :
        /\ hs[g].lead = gs[p].lead
        /\ hs[g].members = gs[p].members \cup gs[q].members
        /\ p = q \/ Near(gs[p], gs[q])
  OBVIOUS
<1>7. CASE p = q
  <2>1. hs[g].members = gs[p].members
    BY <1>6, <1>7
  <2>2. \A k \in gs[p].members : findings[k].rule = findings[gs[p].lead].rule
    BY <1>1 DEF OneRule
  <2>3. Connected(gs[p].members)
    BY <1>1 DEF AllConnected
  <2> QED BY <1>6, <2>1, <2>2, <2>3
<1>8. CASE Near(gs[p], gs[q])
  <2>1. \A k \in gs[p].members : findings[k].rule = findings[gs[p].lead].rule
    BY <1>1 DEF OneRule
  <2>2. \A k \in gs[q].members : findings[k].rule = findings[gs[q].lead].rule
    BY <1>1 DEF OneRule
  <2>3. findings[gs[p].lead].rule = findings[gs[q].lead].rule
    BY <1>8 DEF Near
  <2>4. PICK a \in gs[p].members, b \in gs[q].members : Close(a, b)
    BY <1>8 DEF Near
  <2>5. Related(a, b)
    BY <2>1, <2>2, <2>3, <2>4 DEF Related
  <2>6. gs[p].members \in SUBSET DOMAIN findings /\ gs[q].members \in SUBSET DOMAIN findings
    BY <1>1 DEF Members
  <2>7. Connected(gs[p].members) /\ Connected(gs[q].members)
    BY <1>1 DEF AllConnected
  <2>8. Connected(gs[p].members \cup gs[q].members)
    BY <2>5, <2>6, <2>7, UnionConnected
  <2>9. \A k \in hs[g].members : findings[k].rule = findings[hs[g].lead].rule
    BY <1>6, <2>1, <2>2, <2>3
  <2> QED BY <1>6, <2>8, <2>9
<1> QED BY <1>6, <1>7, <1>8

\* group_list[x].extend(group_list.pop(y)), group by group.
LEMMA PopAndExtend ==
  ASSUME IsList(groups), i \in DOMAIN groups, j \in DOMAIN groups, i < j, MergeTwo
  PROVE  /\ DOMAIN groups' = 1..Len(groups) - 1
         /\ i \in 1..Len(groups) - 1
         /\ groups' = [g \in DOMAIN groups' |-> groups'[g]]
         /\ groups'[i] = [lead |-> groups[i].lead,
                          members |-> groups[i].members \cup groups[j].members]
         /\ \A g \in 1..Len(groups) - 1 :
              g # i => groups'[g] = groups[IF g < j THEN g ELSE g + 1]
<1>0. groups' = [g \in 1..Len(groups) - 1 |->
                   CASE g = i -> [groups[i] EXCEPT !.members = @ \cup groups[j].members]
                     [] g # i /\ g < j -> groups[g]
                     [] g >= j -> groups[g + 1]]
  BY DEF MergeTwo
<1>1. /\ Len(groups) \in Nat /\ DOMAIN groups = 1..Len(groups)
      /\ groups \in [1..Len(groups) -> GroupRecords]
      /\ i \in Int /\ j \in Int
  BY DEF IsList
<1>2. i \in 1..Len(groups) - 1 /\ i < j /\ ~(i >= j)
  BY <1>1
<1>3. groups'[i] = [groups[i] EXCEPT !.members = @ \cup groups[j].members]
  BY <1>0, <1>2
<1>4. groups[i] \in GroupRecords
  BY <1>1
<1>5. groups'[i] = [lead |-> groups[i].lead,
                    members |-> groups[i].members \cup groups[j].members]
  BY <1>3, <1>4 DEF GroupRecords
<1>6. \A g \in 1..Len(groups) - 1 :
        g # i => groups'[g] = groups[IF g < j THEN g ELSE g + 1]
  BY <1>0, <1>1
<1>7. DOMAIN groups' = 1..Len(groups) - 1
  BY <1>0
<1>8. groups' = [g \in DOMAIN groups' |-> groups'[g]]
  <2> DEFINE new(g) ==
        CASE g = i -> [groups[i] EXCEPT !.members = @ \cup groups[j].members]
          [] g # i /\ g < j -> groups[g]
          [] g >= j -> groups[g + 1]
  <2>1. groups' = [g \in 1..Len(groups) - 1 |-> new(g)]
    BY <1>0
  <2> HIDE DEF new
  <2> QED BY <2>1
<1> QED BY <1>2, <1>5, <1>6, <1>7, <1>8

LEMMA MergedTwo ==
  ASSUME WellFormed, threshold \in Int, threshold >= 0, NEW gs, NEW n \in Nat,
         Sound(gs, n), 1..n \subseteq DOMAIN findings,
         NEW x \in DOMAIN gs, NEW y \in DOMAIN gs, x < y, Near(gs[x], gs[y]),
         NEW hs, hs = [g \in DOMAIN hs |-> hs[g]],
         DOMAIN hs = 1..Len(gs) - 1, x \in 1..Len(gs) - 1,
         hs[x] = [lead |-> gs[x].lead, members |-> gs[x].members \cup gs[y].members],
         \A g \in 1..Len(gs) - 1 :
           g # x => hs[g] = gs[IF g < y THEN g ELSE g + 1]
  PROVE  Sound(hs, n)
<1> DEFINE o(g) == IF g < y THEN g ELSE g + 1
           D == 1..Len(gs) - 1
<1>1. /\ Len(gs) \in Nat /\ DOMAIN gs = 1..Len(gs) /\ gs \in [1..Len(gs) -> GroupRecords]
      /\ x \in Int /\ y \in Int
  BY DEF Sound, IsList
<1>2. /\ \A g \in D : o(g) \in DOMAIN gs /\ o(g) # y
      /\ \A g, h \in D : g # h => o(g) # o(h)
      /\ \A p \in DOMAIN gs : p # y => \E g \in D : o(g) = p
      /\ x \in D /\ \A g \in D : o(g) = x <=> g = x
  <2>1. \A g \in D : o(g) \in DOMAIN gs /\ o(g) # y
    BY <1>1
  <2>2. \A g, h \in D : g # h => o(g) # o(h)
    BY <1>1
  <2>3. ASSUME NEW p \in DOMAIN gs, p # y PROVE \E g \in D : o(g) = p
    <3>1. CASE p < y
      BY <1>1, <3>1
    <3>2. CASE p > y
      <4>1. p - 1 \in D /\ o(p - 1) = p
        BY <1>1, <3>2
      <4> QED BY <4>1
    <3> QED BY <1>1, <2>3, <3>1, <3>2
  <2>4. x \in D /\ \A g \in D : o(g) = x <=> g = x
    BY <1>1
  <2> QED BY <2>1, <2>2, <2>3, <2>4
<1>3. \A g \in D : g # x => hs[g] = gs[o(g)]
  BY <1>1
<1>4. hs[x].lead = gs[x].lead /\ hs[x].members = gs[x].members \cup gs[y].members
  OBVIOUS
<1>5. DOMAIN hs = D
  OBVIOUS
<1>6. IsList(hs)
  <2>1. \A g \in D : hs[g] \in GroupRecords
    BY <1>1, <1>2, <1>3, <1>4, SMTT(20) DEF GroupRecords
  <2>2. hs \in [D -> GroupRecords]
    BY <2>1
  <2>3. Len(gs) - 1 \in Nat
    BY <1>1
  <2>4. hs \in Seq(GroupRecords)
    BY <2>2, <2>3, FunctionIsSeq
  <2> QED BY <2>4, LenProperties DEF IsList
<1> HIDE DEF o, D
<1>7. \A p \in DOMAIN gs : \E g \in DOMAIN hs : gs[p].members \subseteq hs[g].members
  <2> SUFFICES ASSUME NEW p \in DOMAIN gs
               PROVE  \E g \in DOMAIN hs : gs[p].members \subseteq hs[g].members
    OBVIOUS
  <2>1. CASE p = x \/ p = y
    BY <1>2, <1>4, <1>5, <2>1
  <2>2. CASE p # x /\ p # y
    <3>1. PICK g \in D : o(g) = p
      BY <1>2, <2>2
    <3> QED BY <1>2, <1>3, <1>5, <2>2, <3>1
  <2> QED BY <2>1, <2>2
<1>8. \A g, h \in DOMAIN hs : g # h =>
        \A a \in hs[g].members, b \in hs[h].members :
          \E p, q \in DOMAIN gs : p # q /\ a \in gs[p].members /\ b \in gs[q].members
  <2>1. \A g \in D : \A a \in hs[g].members :
          \E p \in DOMAIN gs : a \in gs[p].members /\ (p = o(g) \/ (g = x /\ p = y))
    <3> SUFFICES ASSUME NEW g \in D, NEW a \in hs[g].members
                 PROVE  \E p \in DOMAIN gs :
                          a \in gs[p].members /\ (p = o(g) \/ (g = x /\ p = y))
      OBVIOUS
    <3>1. CASE g = x
      <4>1. a \in gs[x].members \/ a \in gs[y].members
        BY <1>4, <3>1
      <4>2. o(g) = x
        BY <1>2, <3>1
      <4> QED BY <3>1, <4>1, <4>2
    <3>2. CASE g # x
      <4>1. o(g) \in DOMAIN gs /\ hs[g] = gs[o(g)]
        BY <1>2, <1>3, <3>2
      <4> QED BY <4>1
    <3> QED BY <3>1, <3>2
  <2> SUFFICES ASSUME NEW g \in DOMAIN hs, NEW h \in DOMAIN hs, g # h,
                      NEW a \in hs[g].members, NEW b \in hs[h].members
               PROVE  \E p, q \in DOMAIN gs :
                        p # q /\ a \in gs[p].members /\ b \in gs[q].members
    OBVIOUS
  <2>0. g \in D /\ h \in D
    BY <1>5
  <2>2. PICK p \in DOMAIN gs : a \in gs[p].members /\ (p = o(g) \/ (g = x /\ p = y))
    BY <2>0, <2>1
  <2>3. PICK q \in DOMAIN gs : b \in gs[q].members /\ (q = o(h) \/ (h = x /\ q = y))
    BY <2>0, <2>1
  <2>4. p # q
    BY <1>2, <2>0, <2>2, <2>3
  <2> QED BY <2>2, <2>3, <2>4
<1>9. \A g \in DOMAIN hs : \E p, q \in DOMAIN gs :
        /\ hs[g].lead = gs[p].lead
        /\ hs[g].members = gs[p].members \cup gs[q].members
        /\ p = q \/ Near(gs[p], gs[q])
  <2> SUFFICES ASSUME NEW g \in D
               PROVE  \E p, q \in DOMAIN gs :
                        /\ hs[g].lead = gs[p].lead
                        /\ hs[g].members = gs[p].members \cup gs[q].members
                        /\ p = q \/ Near(gs[p], gs[q])
    BY <1>5
  <2>1. CASE g = x
    <3>1. /\ hs[g].lead = gs[x].lead
          /\ hs[g].members = gs[x].members \cup gs[y].members
      BY <1>4, <2>1
    <3> QED BY <3>1
  <2>2. CASE g # x
    <3>1. o(g) \in DOMAIN gs /\ hs[g] = gs[o(g)]
      BY <1>2, <1>3, <2>2
    <3> QED BY <3>1
  <2> QED BY <2>1, <2>2
<1> QED BY <1>6, <1>7, <1>8, <1>9, Regrouped

\* The list in another order.
LEMMA Sorted ==
  ASSUME NEW gs, NEW n \in Nat, Sound(gs, n),
         NEW p \in Bijection(DOMAIN gs, DOMAIN gs),
         NEW hs, hs = [g \in DOMAIN hs |-> hs[g]], DOMAIN hs = DOMAIN gs,
         \A g \in DOMAIN gs : hs[g] = gs[p[g]]
  PROVE  /\ Sound(hs, n)
         /\ \A g, h \in DOMAIN hs : g # h =>
              \E k, l \in DOMAIN gs : k # l /\ hs[g] = gs[k] /\ hs[h] = gs[l]
<1>1. /\ Len(gs) \in Nat /\ DOMAIN gs = 1..Len(gs) /\ gs \in [1..Len(gs) -> GroupRecords]
      /\ DOMAIN hs = DOMAIN gs
  BY DEF Sound, IsList
<1>2. /\ \A g \in DOMAIN gs : p[g] \in DOMAIN gs
      /\ \A g, h \in DOMAIN gs : p[g] = p[h] => g = h
      /\ \A k \in DOMAIN gs : \E g \in DOMAIN gs : p[g] = k
  BY DEF Bijection, Injection, Surjection, IsInjective
<1>3. \A g \in DOMAIN hs : p[g] \in DOMAIN gs /\ hs[g] = gs[p[g]]
  BY <1>2
<1>4. \A g, h \in DOMAIN hs : g # h =>
        \E k, l \in DOMAIN gs : k # l /\ hs[g] = gs[k] /\ hs[h] = gs[l]
  <2> SUFFICES ASSUME NEW g \in DOMAIN hs, NEW h \in DOMAIN hs, g # h
               PROVE  \E k, l \in DOMAIN gs :
                        k # l /\ hs[g] = gs[k] /\ hs[h] = gs[l]
    OBVIOUS
  <2>1. p[g] \in DOMAIN gs /\ p[h] \in DOMAIN gs /\ p[g] # p[h]
    BY <1>1, <1>2
  <2>2. hs[g] = gs[p[g]] /\ hs[h] = gs[p[h]]
    BY <1>3
  <2> QED BY <2>1, <2>2
<1>5. \A k \in DOMAIN gs : \E g \in DOMAIN hs : hs[g] = gs[k]
  BY <1>1, <1>2, <1>3
<1>6. IsList(hs)
  <2>1. \A g \in 1..Len(gs) : hs[g] \in GroupRecords
    BY <1>1, <1>3
  <2>2. hs \in [1..Len(gs) -> GroupRecords]
    BY <1>1, <2>1
  <2>3. hs \in Seq(GroupRecords)
    BY <1>1, <2>2, FunctionIsSeq
  <2> QED BY <2>3, LenProperties DEF IsList
<1>7. Members(gs, n) /\ Covers(gs, n) /\ Disjoint(gs) /\ OneRule(gs)
        /\ KeysApart(gs) /\ AllConnected(gs)
  BY DEF Sound
<1>8. Members(hs, n)
  BY <1>3, <1>7 DEF Members
<1>9. Covers(hs, n)
  BY <1>5, <1>7 DEF Covers
<1>10. OneRule(hs)
  BY <1>3, <1>7 DEF OneRule
<1>11. AllConnected(hs)
  BY <1>3, <1>7 DEF AllConnected
<1>12. Disjoint(hs) /\ KeysApart(hs)
  <2> SUFFICES ASSUME NEW g \in DOMAIN hs, NEW h \in DOMAIN hs, g # h
               PROVE  /\ hs[g].members \cap hs[h].members = {}
                      /\ \A a \in hs[g].members, b \in hs[h].members : ~SameKey(a, b)
    BY DEF Disjoint, KeysApart
  <2>1. PICK k \in DOMAIN gs, l \in DOMAIN gs :
          k # l /\ hs[g] = gs[k] /\ hs[h] = gs[l]
    BY <1>4
  <2> QED BY <1>7, <2>1 DEF Disjoint, KeysApart
<1> QED BY <1>4, <1>6, <1>8, <1>9, <1>10, <1>11, <1>12 DEF Sound

-----------------------------------------------------------------------------
\* Two groups with members that are related are near, one way round or the other.
LEMMA RelatedMeansNear ==
  ASSUME WellFormed, threshold \in Int, NEW gs, NEW n \in Nat, Sound(gs, n),
         1..n \subseteq DOMAIN findings,
         NEW g \in DOMAIN gs, NEW h \in DOMAIN gs, g # h,
         NEW a \in gs[g].members, NEW b \in gs[h].members, Related(a, b)
  PROVE  threshold >= 0 /\ Near(gs[g], gs[h]) /\ Near(gs[h], gs[g])
<1>1. ~SameKey(a, b)
  BY DEF Sound, KeysApart
<1>2. threshold >= 0 /\ findings[a].rule = findings[b].rule /\ Close(a, b)
  BY <1>1 DEF Related
<1>3. a \in DOMAIN findings /\ b \in DOMAIN findings
  BY DEF Sound, Members
<1>4. Close(b, a)
  BY <1>2, <1>3, CloseBothWays
<1>5. findings[a].rule = findings[gs[g].lead].rule
  BY DEF Sound, OneRule
<1>6. findings[b].rule = findings[gs[h].lead].rule
  BY DEF Sound, OneRule
<1>7. findings[gs[g].lead].rule = findings[gs[h].lead].rule
  BY <1>2, <1>5, <1>6
<1>8. Near(gs[g], gs[h])
  BY <1>2, <1>7 DEF Near
<1>9. Near(gs[h], gs[g])
  BY <1>4, <1>7 DEF Near
<1> QED BY <1>2, <1>8, <1>9

\* What only the findings decide is as before when they are.
LEMMA NearNext ==
  ASSUME UNCHANGED <<findings, threshold>>
  PROVE  /\ \A g, h : Near(g, h)' <=> Near(g, h)
         /\ \A a, b : Related(a, b)' <=> Related(a, b)
         /\ \A a, b : SameKey(a, b)' <=> SameKey(a, b)
<1>1. \A a, b : Close(a, b)' <=> Close(a, b)
  BY DEF Close
<1>2. \A a, b : SameKey(a, b)' <=> SameKey(a, b)
  BY DEF SameKey, Key
<1>3. \A a, b : Related(a, b)' <=> Related(a, b)
  BY <1>1, <1>2 DEF Related
<1>4. \A g, h : Near(g, h)' <=> Near(g, h)
  BY DEF Near, Close
<1> QED BY <1>2, <1>3, <1>4

LEMMA ApartNext ==
  ASSUME UNCHANGED <<findings, threshold>>,
         \A g, h \in DOMAIN groups' :
           (g < i' \/ (g = i' /\ h < j')) /\ g < h => ~Near(groups'[g], groups'[h])
  PROVE  (\A g, h \in DOMAIN groups :
            (g < i \/ (g = i /\ h < j)) /\ g < h => ~Near(groups[g], groups[h]))'
<1>1. \A a, b : Close(a, b)' <=> Close(a, b)
  BY DEF Close
<1> QED BY <1>1 DEF Near

LEMMA NoRelationsNext ==
  ASSUME UNCHANGED <<findings, threshold>>,
         \A g, h \in DOMAIN groups' : g # h =>
           \A a \in groups'[g].members, b \in groups'[h].members : ~Related(a, b)
  PROVE  NoRelations'
BY NearNext DEF NoRelations

-----------------------------------------------------------------------------
LEMMA BucketStep ==
  ASSUME IInv, WellFormed, PutInBucket
  PROVE  IInv'
<1> DEFINE k == placed + 1
           same == {g \in DOMAIN groups : SameKey(groups[g].lead, k)}
<1>1. /\ stage = "bucket" /\ stage' = "bucket" /\ placed < Len(findings) /\ placed' = k
      /\ UNCHANGED <<findings, threshold, i, j, merged>>
  BY DEF PutInBucket, loops
<1>2. /\ threshold \in Int /\ placed \in Nat /\ Sound(groups, placed)
      /\ Buckets(groups) /\ i = 1 /\ j = 2
  BY <1>1 DEF IInv, Stages, BucketKeys
<1>3. k \in DOMAIN findings /\ 1..placed \subseteq DOMAIN findings /\ Len(findings) \in Nat
  BY <1>1, <1>2 DEF WellFormed
<1>4. Sound(groups', k) /\ Buckets(groups')
  <2>1. CASE same = {}
    <3>1. groups' = Append(groups, [lead |-> k, members |-> {k}])
      BY <2>1 DEF PutInBucket
    <3>2. \A g \in DOMAIN groups : ~SameKey(groups[g].lead, k)
      BY <2>1
    <3> QED BY <1>2, <1>3, <3>1, <3>2, NewBucket
  <2>2. CASE same # {}
    <3>1. groups' = [g \in DOMAIN groups |->
                       IF g \in same
                       THEN [groups[g] EXCEPT !.members = @ \cup {k}] ELSE groups[g]]
      BY <2>2 DEF PutInBucket
    <3>2. PICK b \in DOMAIN groups : SameKey(groups[b].lead, k)
      BY <2>2
    <3> QED BY <1>2, <1>3, <3>1, <3>2, JoinBucket
  <2> QED BY <2>1, <2>2
<1>5. Sound(groups, placed)'
  BY <1>1, <1>4, SoundNext
<1>6. BucketKeys'
  <2>1. \A a, b : SameKey(a, b)' <=> SameKey(a, b)
    BY <1>1, NearNext
  <2>2. \A g \in DOMAIN groups' : \A m \in groups'[g].members : SameKey(groups'[g].lead, m)
    BY <1>4 DEF Buckets
  <2> QED BY <1>1, <2>2 DEF BucketKeys, Buckets, SameKey, Key
<1>7. Stages' /\ ComparedApart' /\ NoRelations'
  BY <1>1, <1>2, <1>3 DEF Stages, ComparedApart, NoRelations
<1> QED BY <1>5, <1>6, <1>7 DEF IInv

LEMMA StartMergingStep ==
  ASSUME IInv, WellFormed, StartMerging
  PROVE  IInv'
<1>1. /\ stage = "bucket" /\ placed = Len(findings)
      /\ stage' = (IF threshold >= 0 THEN "merge" ELSE "sort")
      /\ UNCHANGED <<findings, threshold, placed, groups, i, j, merged>>
  BY DEF StartMerging, loops
<1>2. /\ threshold \in Int /\ placed \in Nat /\ Sound(groups, placed)
      /\ i = 1 /\ j = 2
  BY <1>1 DEF IInv, Stages
<1>3. Sound(groups', placed')
  BY <1>1, <1>2
<1>4. Sound(groups, placed)'
  BY <1>1, <1>3, SoundNext
<1>5. Stages' /\ BucketKeys'
  BY <1>1, <1>2 DEF Stages, BucketKeys
<1>6. \A g, h \in DOMAIN groups : g \in Int /\ h \in Int /\ g >= 1
  BY <1>2 DEF Sound, IsList
<1>7. \A g, h \in DOMAIN groups' :
        (g < i' \/ (g = i' /\ h < j')) /\ g < h => ~Near(groups'[g], groups'[h])
  BY <1>1, <1>2, <1>6
<1>8. ComparedApart'
  BY <1>1, <1>2, <1>7, ApartNext DEF ComparedApart
<1>9. NoRelations'
  <2>1. CASE threshold >= 0
    BY <1>1, <2>1 DEF NoRelations
  <2>2. CASE ~(threshold >= 0)
    <3>1. \A g, h \in DOMAIN groups' : g # h =>
            \A a \in groups'[g].members, b \in groups'[h].members : ~Related(a, b)
      BY <1>1, <1>2, <2>2 DEF Sound, KeysApart, Related
    <3> QED BY <1>1, <3>1, NoRelationsNext
  <2> QED BY <2>1, <2>2
<1> QED BY <1>4, <1>5, <1>8, <1>9 DEF IInv

\* What holds whenever the merge loops look.
LEMMA InMerge ==
  ASSUME IInv, WellFormed, stage = "merge"
  PROVE  /\ threshold \in Int /\ threshold >= 0 /\ placed \in Nat
         /\ placed = Len(findings) /\ 1..placed \subseteq DOMAIN findings
         /\ Sound(groups, placed)
         /\ Len(groups) \in Nat /\ DOMAIN groups = 1..Len(groups)
         /\ i \in Nat /\ j \in Nat /\ i >= 1 /\ j > i
         /\ merged \/ \A g, h \in DOMAIN groups :
                        (g < i \/ (g = i /\ h < j)) /\ g < h => ~Near(groups[g], groups[h])
BY DEF IInv, Stages, ComparedApart, Sound, IsList, WellFormed

LEMMA MergeTwoStep ==
  ASSUME IInv, WellFormed, MergeTwo
  PROVE  IInv'
<1>1. /\ stage = "merge" /\ stage' = "merge" /\ merged' = TRUE
      /\ i <= Len(groups) /\ j <= Len(groups) /\ Near(groups[i], groups[j])
      /\ UNCHANGED <<findings, threshold, placed, i, j>>
  BY DEF MergeTwo, Looking
<1>3. /\ threshold \in Int /\ threshold >= 0 /\ placed \in Nat
      /\ placed = Len(findings) /\ 1..placed \subseteq DOMAIN findings
      /\ Sound(groups, placed) /\ i \in Nat /\ j \in Nat /\ i >= 1 /\ j > i
      /\ Len(groups) \in Nat /\ DOMAIN groups = 1..Len(groups)
  BY <1>1, InMerge
<1>4. i \in DOMAIN groups /\ j \in DOMAIN groups /\ i < j
  BY <1>1, <1>3
<1>5. IsList(groups)
  BY <1>3 DEF Sound
<1>6. /\ DOMAIN groups' = 1..Len(groups) - 1
      /\ i \in 1..Len(groups) - 1
      /\ groups' = [g \in DOMAIN groups' |-> groups'[g]]
      /\ groups'[i] = [lead |-> groups[i].lead,
                       members |-> groups[i].members \cup groups[j].members]
      /\ \A g \in 1..Len(groups) - 1 :
           g # i => groups'[g] = groups[IF g < j THEN g ELSE g + 1]
  BY <1>4, <1>5, PopAndExtend
<1>8. Sound(groups', placed)
  BY <1>1, <1>3, <1>4, <1>6, MergedTwo
<1>9. Sound(groups, placed)'
  BY <1>1, <1>8, SoundNext
<1>10. Stages' /\ BucketKeys' /\ ComparedApart' /\ NoRelations'
  BY <1>1, <1>3 DEF Stages, BucketKeys, ComparedApart, NoRelations
<1> QED BY <1>9, <1>10 DEF IInv

LEMMA LoopStep ==
  ASSUME IInv, WellFormed, LeaveApart \/ NextGroup
  PROVE  IInv'
<1>1. /\ stage = "merge" /\ stage' = "merge"
      /\ UNCHANGED <<findings, threshold, placed, groups, merged>>
  BY DEF LeaveApart, NextGroup, Looking
<1>2. /\ threshold \in Int /\ threshold >= 0 /\ placed \in Nat
      /\ placed = Len(findings) /\ 1..placed \subseteq DOMAIN findings
      /\ Sound(groups, placed) /\ i \in Nat /\ j \in Nat /\ i >= 1 /\ j > i
      /\ Len(groups) \in Nat /\ DOMAIN groups = 1..Len(groups)
      /\ merged \/ \A g, h \in DOMAIN groups :
                     (g < i \/ (g = i /\ h < j)) /\ g < h => ~Near(groups[g], groups[h])
  BY <1>1, InMerge
<1>3. Sound(groups', placed')
  BY <1>1, <1>2
<1>4. Sound(groups, placed)'
  BY <1>1, <1>3, SoundNext
<1>5. i' \in Nat /\ j' \in Nat /\ i' >= 1 /\ j' > i'
  <2>1. CASE LeaveApart
    BY <1>2, <2>1 DEF LeaveApart
  <2>2. CASE NextGroup
    BY <1>2, <2>2 DEF NextGroup
  <2> QED BY <2>1, <2>2
<1>6. \A g, h \in DOMAIN groups : g \in Int /\ h \in Int /\ h <= Len(groups)
  BY <1>2
<1>7. ASSUME ~merged
      PROVE  \A g, h \in DOMAIN groups' :
               (g < i' \/ (g = i' /\ h < j')) /\ g < h => ~Near(groups'[g], groups'[h])
  <2> SUFFICES ASSUME NEW g \in DOMAIN groups, NEW h \in DOMAIN groups,
                      g < i' \/ (g = i' /\ h < j'), g < h
               PROVE  ~Near(groups[g], groups[h])
    BY <1>1
  <2>0. g \in Int /\ h \in Int /\ h <= Len(groups)
    BY <1>6
  <2>1. CASE LeaveApart
    <3>1. i' = i /\ j' = j + 1 /\ ~Near(groups[i], groups[j])
      BY <2>1 DEF LeaveApart
    <3>2. g < i \/ (g = i /\ h < j) \/ (g = i /\ h = j)
      BY <1>2, <2>0, <3>1
    <3> QED BY <1>2, <1>7, <3>1, <3>2
  <2>2. CASE NextGroup
    <3>1. i' = i + 1 /\ j' = i + 2 /\ j > Len(groups)
      BY <2>2 DEF NextGroup
    <3>2. g < i \/ (g = i /\ h < j)
      BY <1>2, <2>0, <3>1
    <3> QED BY <1>2, <1>7, <3>2
  <2> QED BY <2>1, <2>2
<1>8. ComparedApart'
  <2>1. CASE merged
    BY <1>1, <1>2, <1>5, <2>1 DEF ComparedApart
  <2>2. CASE ~merged
    <3>1. (\A g, h \in DOMAIN groups :
             (g < i \/ (g = i /\ h < j)) /\ g < h => ~Near(groups[g], groups[h]))'
      BY <1>1, <1>7, <2>2, ApartNext
    <3> QED BY <1>1, <1>2, <1>5, <3>1 DEF ComparedApart
  <2> QED BY <2>1, <2>2
<1>9. Stages' /\ BucketKeys' /\ NoRelations'
  BY <1>1, <1>2 DEF Stages, BucketKeys, NoRelations
<1> QED BY <1>4, <1>8, <1>9 DEF IInv

LEMMA EndPassStep ==
  ASSUME IInv, WellFormed, EndPass
  PROVE  IInv'
<1>1. /\ stage = "merge" /\ i > Len(groups) /\ i' = 1 /\ j' = 2 /\ merged' = FALSE
      /\ stage' = (IF merged THEN "merge" ELSE "sort")
      /\ UNCHANGED <<findings, threshold, placed, groups>>
  BY DEF EndPass
<1>2. /\ threshold \in Int /\ threshold >= 0 /\ placed \in Nat
      /\ placed = Len(findings) /\ 1..placed \subseteq DOMAIN findings
      /\ Sound(groups, placed) /\ i \in Nat
      /\ Len(groups) \in Nat /\ DOMAIN groups = 1..Len(groups)
      /\ merged \/ \A g, h \in DOMAIN groups :
                     (g < i \/ (g = i /\ h < j)) /\ g < h => ~Near(groups[g], groups[h])
  BY <1>1, InMerge
<1>3. Sound(groups', placed')
  BY <1>1, <1>2
<1>4. Sound(groups, placed)'
  BY <1>1, <1>3, SoundNext
<1>5. Stages' /\ BucketKeys'
  BY <1>1, <1>2 DEF Stages, BucketKeys
<1>6. \A g, h \in DOMAIN groups' :
        (g < i' \/ (g = i' /\ h < j')) /\ g < h => ~Near(groups'[g], groups'[h])
  BY <1>1, <1>2
<1>7. ComparedApart'
  BY <1>1, <1>2, <1>6, ApartNext DEF ComparedApart
<1>8. NoRelations'
  <2>1. CASE merged
    BY <1>1, <2>1 DEF NoRelations
  <2>2. CASE ~merged
    <3>1. ASSUME NEW g \in DOMAIN groups, NEW h \in DOMAIN groups, g # h,
                 NEW a \in groups[g].members, NEW b \in groups[h].members, Related(a, b)
          PROVE  FALSE
      <4>1. Near(groups[g], groups[h]) /\ Near(groups[h], groups[g])
        BY <1>2, <3>1, RelatedMeansNear
      <4>2. g < h \/ h < g
        BY <1>2, <3>1
      <4>3. g < i /\ h < i
        BY <1>1, <1>2
      <4> QED BY <1>2, <2>2, <4>1, <4>2, <4>3
    <3>2. \A g, h \in DOMAIN groups' : g # h =>
            \A a \in groups'[g].members, b \in groups'[h].members : ~Related(a, b)
      BY <1>1, <3>1
    <3> QED BY <1>1, <3>2, NoRelationsNext
  <2> QED BY <2>1, <2>2
<1> QED BY <1>4, <1>5, <1>7, <1>8 DEF IInv

LEMMA SortStep ==
  ASSUME IInv, WellFormed, SortGroups
  PROVE  IInv'
<1>1. /\ stage = "sort" /\ stage' = "done"
      /\ UNCHANGED <<findings, threshold, placed, i, j, merged>>
  BY DEF SortGroups, loops
<1>2. PICK p \in Bijection(DOMAIN groups, DOMAIN groups) :
        groups' = [g \in DOMAIN groups |-> groups[p[g]]]
  BY DEF SortGroups
<1>a. /\ groups' = [g \in DOMAIN groups' |-> groups'[g]]
      /\ DOMAIN groups' = DOMAIN groups
      /\ \A g \in DOMAIN groups : groups'[g] = groups[p[g]]
  BY <1>2
<1>3. /\ Stages /\ placed \in Nat /\ Sound(groups, placed)
      /\ \A g, h \in DOMAIN groups : g # h =>
           \A a \in groups[g].members, b \in groups[h].members : ~Related(a, b)
  BY <1>1 DEF IInv, Stages, NoRelations
<1>4. /\ Sound(groups', placed)
      /\ \A g, h \in DOMAIN groups' : g # h =>
           \E k, l \in DOMAIN groups :
             k # l /\ groups'[g] = groups[k] /\ groups'[h] = groups[l]
  BY <1>3, <1>a, Sorted
<1>5. Sound(groups, placed)'
  BY <1>1, <1>4, SoundNext
<1>6. \A g, h \in DOMAIN groups' : g # h =>
        \A a \in groups'[g].members, b \in groups'[h].members : ~Related(a, b)
  <2> SUFFICES ASSUME NEW g \in DOMAIN groups', NEW h \in DOMAIN groups', g # h
               PROVE  \A a \in groups'[g].members, b \in groups'[h].members : ~Related(a, b)
    OBVIOUS
  <2>1. PICK k \in DOMAIN groups, l \in DOMAIN groups :
          k # l /\ groups'[g] = groups[k] /\ groups'[h] = groups[l]
    BY <1>4
  <2> QED BY <1>3, <2>1
<1>7. NoRelations'
  BY <1>1, <1>6, NoRelationsNext
<1>8. Stages' /\ BucketKeys' /\ ComparedApart'
  BY <1>1, <1>3 DEF Stages, BucketKeys, ComparedApart
<1> QED BY <1>5, <1>7, <1>8 DEF IInv

LEMMA StartStep ==
  ASSUME IInv, WellFormed', NEW input, Start(input)
  PROVE  IInv'
<1>1. /\ stage = "idle" /\ stage' = "bucket"
      /\ UNCHANGED <<threshold, placed, groups, i, j, merged>>
  BY DEF Start, loops
<1>2. /\ threshold \in Int /\ placed = 0 /\ groups = <<>> /\ i = 1 /\ j = 2
  BY <1>1 DEF IInv, Stages
<1>3. Len(findings') \in Nat
  BY DEF WellFormed
<1>4. Sound(groups, placed)'
  <2>1. groups' = <<>> /\ placed' = 0
    BY <1>1, <1>2
  <2> QED BY <2>1, SoundEmpty
<1>5. Stages'
  BY <1>1, <1>2, <1>3 DEF Stages
<1>6. BucketKeys' /\ ComparedApart' /\ NoRelations'
  BY <1>1, <1>2 DEF BucketKeys, Buckets, ComparedApart, NoRelations
<1> QED BY <1>4, <1>5, <1>6 DEF IInv

LEMMA GroupingUnchanged ==
  ASSUME IInv, UNCHANGED groupingVars
  PROVE  IInv'
<1>1. UNCHANGED <<findings, threshold, stage, placed, groups, i, j, merged>>
  BY DEF groupingVars, loops
<1>2. Sound(groups', placed')
  BY <1>1 DEF IInv
<1>3. Sound(groups, placed)'
  BY <1>1, <1>2, SoundNext
<1>4. Stages'
  BY <1>1 DEF IInv, Stages
<1>5. BucketKeys'
  BY <1>1 DEF IInv, BucketKeys, Buckets, SameKey, Key
<1>6. NoRelations'
  <2>1. CASE stage \in {"sort", "done"}
    <3>1. \A g, h \in DOMAIN groups' : g # h =>
            \A a \in groups'[g].members, b \in groups'[h].members : ~Related(a, b)
      BY <1>1, <2>1 DEF IInv, NoRelations
    <3> QED BY <1>1, <3>1, NoRelationsNext
  <2>2. CASE stage \notin {"sort", "done"}
    BY <1>1, <2>2 DEF NoRelations
  <2> QED BY <2>1, <2>2
<1>7. ComparedApart'
  <2>1. CASE stage # "merge"
    BY <1>1, <2>1 DEF ComparedApart
  <2>2. CASE stage = "merge" /\ merged
    BY <1>1, <2>2 DEF IInv, ComparedApart
  <2>3. CASE stage = "merge" /\ ~merged
    <3>1. \A g, h \in DOMAIN groups' :
            (g < i' \/ (g = i' /\ h < j')) /\ g < h => ~Near(groups'[g], groups'[h])
      BY <1>1, <2>3 DEF IInv, ComparedApart
    <3>2. (\A g, h \in DOMAIN groups :
             (g < i \/ (g = i /\ h < j)) /\ g < h => ~Near(groups[g], groups[h]))'
      BY <1>1, <3>1, ApartNext
    <3> QED BY <1>1, <2>3, <3>2 DEF IInv, ComparedApart
  <2> QED BY <2>1, <2>2, <2>3
<1> QED BY <1>3, <1>4, <1>5, <1>6, <1>7 DEF IInv

LEMMA InvInit == Init => IInv
<1> SUFFICES ASSUME Init PROVE IInv
  OBVIOUS
<1>1. /\ stage = "idle" /\ placed = 0 /\ groups = <<>> /\ i = 1 /\ j = 2
      /\ threshold \in Int
  BY ThresholdsAssumption DEF Init, GroupingInit
<1>2. Sound(groups, placed)
  BY <1>1, SoundEmpty
<1>3. Stages /\ BucketKeys /\ ComparedApart /\ NoRelations
  BY <1>1 DEF Stages, BucketKeys, ComparedApart, NoRelations
<1> QED BY <1>2, <1>3 DEF IInv

LEMMA InvStep ==
  ASSUME IInv, WellFormed, WellFormed', [Next]_vars
  PROVE  IInv'
<1>1. CASE GroupingStep
  BY <1>1, BucketStep, StartMergingStep, MergeTwoStep, LoopStep, EndPassStep, SortStep
     DEF GroupingStep
<1>2. CASE \E input : Start(input)
  BY <1>2, StartStep
<1>3. CASE UNCHANGED groupingVars
  BY <1>3, GroupingUnchanged
<1>4. GroupingStep \/ (\E input : Start(input)) \/ UNCHANGED groupingVars
  <2>1. CASE Load
    BY <2>1 DEF Load
  <2>2. CASE Group
    BY <2>2 DEF Group
  <2>3. CASE ~Load /\ ~Group
    BY <2>3 DEF Next, vars, Scan, CommandFails, NoDast, Dast, NormalizeStatic, Merge,
                MergeBreaks, Correlate, LoadBreaks, Settle
  <2> QED BY <2>1, <2>2, <2>3
<1> QED BY <1>1, <1>2, <1>3, <1>4

-----------------------------------------------------------------------------
StaticFindings == {Static(r) : r \in Reports}

\* What has been read and made so far comes from reports that are as assumed.
FromReports ==
  /\ oldReport \in Reports \cup {Absent}
  /\ alerts \in AlertReports \cup {Absent, Malformed}
  /\ pc \in {"dast", "normalize", "merge"} => raw \in Reports
  /\ pc = "merge" => items \in StaticFindings
  /\ pc \in {"merge", "correlate"} => alerts # Absent
  /\ pc \in {"correlate", "load"} => Loadable(items)

LEMMA FromReportsStep ==
  ASSUME FromReports, [Next]_vars
  PROVE  FromReports'
<1>1. CASE Scan
  <2>1. raw' \in Reports \cup {Absent, Malformed}
    BY <1>1 DEF Scan, FromReports
  <2>2. (pc' = "end") \/ (pc' = "dast" /\ raw' \in Reports)
    BY <1>1, <2>1 DEF Scan, Fails, GoesOn
  <2> QED BY <1>1, <2>2 DEF Scan, FromReports
<1>2. CASE NoDast \/ Dast
  <2>1. pc = "dast" /\ pc' = "normalize" /\ UNCHANGED <<oldReport, raw>>
    BY <1>2 DEF NoDast, Dast, GoesOn
  <2>2. alerts' \in AlertReports \cup {Absent, Malformed}
    BY <1>2 DEF NoDast, Dast, FromReports
  <2> QED BY <2>1, <2>2 DEF FromReports
<1>3. CASE NormalizeStatic
  <2>1. /\ pc = "normalize" /\ items' = Static(raw)
        /\ pc' = IF alerts = Absent THEN "load" ELSE "merge"
        /\ UNCHANGED <<oldReport, raw, alerts>>
    BY <1>3 DEF NormalizeStatic, GoesOn, scanVars
  <2>2. raw \in Reports /\ Loadable(Static(raw))
    BY <2>1, ReportsAssumption DEF FromReports
  <2>3. Loadable(items')
    BY <2>1, <2>2
  <2>4. Loadable(items)'
    BY <2>3 DEF Loadable
  <2>5. items' \in StaticFindings
    BY <2>1, <2>2 DEF StaticFindings
  <2>6. CASE alerts = Absent
    BY <2>1, <2>4, <2>6 DEF FromReports
  <2>7. CASE alerts # Absent
    BY <2>1, <2>2, <2>5, <2>7 DEF FromReports
  <2> QED BY <2>6, <2>7
<1>4. CASE Merge
  <2>1. /\ pc = "merge" /\ alerts # Malformed
        /\ UNCHANGED <<oldReport, raw, alerts>>
    BY <1>4 DEF Merge, scanVars
  <2>2. pc' = "end" \/ (pc' = "correlate" /\ items' = items \o Dynamic(alerts))
    BY <1>4 DEF Merge, Fails, GoesOn
  <2>3. Loadable(items \o Dynamic(alerts))
    BY <2>1, ReportsAssumption DEF FromReports, StaticFindings
  <2>4. pc' = "correlate" => Loadable(items)'
    <3> SUFFICES ASSUME pc' = "correlate" PROVE Loadable(items)'
      OBVIOUS
    <3>1. Loadable(items')
      BY <2>2, <2>3
    <3> QED BY <3>1 DEF Loadable
  <2> QED BY <2>1, <2>2, <2>4 DEF FromReports
<1>5. CASE Correlate
  <2>1. pc = "correlate" /\ pc' = "load" /\ UNCHANGED <<oldReport, raw, alerts, items>>
    BY <1>5 DEF Correlate, GoesOn, scanVars
  <2>2. Loadable(items)'
    BY <2>1 DEF FromReports, Loadable
  <2> QED BY <2>1, <2>2 DEF FromReports
<1>6. CASE CommandFails \/ MergeBreaks \/ LoadBreaks \/ Load \/ Settle
  <2>1. pc' \in {"end", "group"} /\ UNCHANGED <<oldReport, alerts>>
    BY <1>6 DEF CommandFails, MergeBreaks, LoadBreaks, Load, Settle, Fails, GoesOn, scanVars
  <2> QED BY <2>1 DEF FromReports
<1>7. CASE Group \/ UNCHANGED vars
  <2>1. UNCHANGED <<pc, oldReport, raw, alerts, items>>
    BY <1>7 DEF Group, vars, scanVars, findingsVars
  <2>2. Loadable(items)' = Loadable(items)
    BY <2>1 DEF Loadable
  <2> QED BY <2>1, <2>2 DEF FromReports
<1> QED BY <1>1, <1>2, <1>3, <1>4, <1>5, <1>6, <1>7 DEF Next

\* The findings that are grouped are those that were loaded.
LEMMA WellFormedStep ==
  ASSUME FromReports, WellFormed, [Next]_vars
  PROVE  WellFormed'
<1>1. CASE Load
  <2>1. findings' = items /\ Loadable(items) /\ \A k \in DOMAIN items : items[k].line # NoLine
    BY <1>1 DEF Load, Start, FromReports
  <2> QED BY <2>1 DEF Loadable, WellFormed
<1>2. CASE ~Load
  <2>1. UNCHANGED findings
    BY <1>2 DEF Next, vars, Scan, CommandFails, NoDast, Dast, NormalizeStatic, Merge,
                MergeBreaks, Correlate, LoadBreaks, Settle, Group, GroupingStep, groupingVars,
                PutInBucket, StartMerging, MergeTwo, LeaveApart, NextGroup, EndPass, SortGroups
  <2> QED BY <2>1 DEF WellFormed
<1> QED BY <1>1, <1>2

LEMMA InputIsWellFormed == Spec => []WellFormed
<1>1. Init => FromReports /\ WellFormed
  <2> SUFFICES ASSUME Init PROVE FromReports /\ WellFormed
    OBVIOUS
  <2>1. FromReports
    BY DEF Init, FromReports
  <2>2. findings = <<>>
    BY DEF Init, GroupingInit
  <2>3. Len(findings) = 0 /\ DOMAIN findings = {}
    BY <2>2
  <2>4. WellFormed
    BY <2>3 DEF WellFormed
  <2> QED BY <2>1, <2>4
<1>2. FromReports /\ WellFormed /\ [Next]_vars => FromReports' /\ WellFormed'
  BY FromReportsStep, WellFormedStep
<1> QED BY <1>1, <1>2, PTL DEF Spec

-----------------------------------------------------------------------------
\* Whatever the scanners report, the loops of group_findings keep their
\* invariant.
THEOREM GroupingInvariant == Spec => []IInv
BY InvInit, InvStep, InputIsWellFormed, PTL DEF Spec

\* No finding is lost, and none is in two groups, however many there are and
\* wherever the loops of group_findings are.
THEOREM NoFindingIsLost == Spec => []EveryFindingInOneGroup
<1>1. IInv => EveryFindingInOneGroup
  <2> SUFFICES ASSUME IInv, NEW k \in 1..placed
               PROVE  \E g \in DOMAIN groups :
                        k \in groups[g].members
                          /\ \A h \in DOMAIN groups \ {g} : k \notin groups[h].members
    BY DEF EveryFindingInOneGroup
  <2>1. PICK g \in DOMAIN groups : k \in groups[g].members
    BY DEF IInv, Sound, Covers
  <2>2. \A h \in DOMAIN groups \ {g} : k \notin groups[h].members
    BY <2>1 DEF IInv, Sound, Disjoint
  <2> QED BY <2>1, <2>2
<1> QED BY <1>1, GroupingInvariant, PTL

\* The groups that are returned are the classes that the relation between
\* findings generates, for any findings in any order and any threshold.
THEOREM GroupsDependOnFindingsOnly == Spec => []GroupsAreClasses
<1>1. IInv => GroupsAreClasses
  <2> SUFFICES ASSUME IInv, stage \in {"sort", "done"} PROVE GroupsAreClasses
    BY DEF GroupsAreClasses
  <2>1. \A g, h \in DOMAIN groups : g # h =>
          \A a \in groups[g].members, b \in groups[h].members : ~Related(a, b)
    BY DEF IInv, NoRelations
  <2>2. \A g \in DOMAIN groups : Connected(groups[g].members)
    BY DEF IInv, Sound, AllConnected
  <2> QED BY <2>1, <2>2 DEF GroupsAreClasses, Connected
<1> QED BY <1>1, GroupingInvariant, PTL

-----------------------------------------------------------------------------
\* What was settled is what calibration makes of some conclusion of the agent.
Settled ==
  record = NoClaim \/ (claim \in Claims /\ \E m : record = Calibrated(claim, m))

LEMMA SettledStep == Settled /\ [Next]_vars => Settled'
<1> SUFFICES ASSUME Settled, [Next]_vars PROVE Settled'
  OBVIOUS
<1>1. CASE Settle
  BY <1>1 DEF Settle, Settled
<1>2. CASE ~Settle
  <2>1. UNCHANGED <<claim, record>>
    BY <1>2 DEF Next, vars, Scan, CommandFails, NoDast, Dast, NormalizeStatic, Merge,
                MergeBreaks, Correlate, Load, LoadBreaks, Group, answerVars
  <2> QED BY <2>1 DEF Settled
<1> QED BY <1>1, <1>2

LEMMA SettledInvariant == Spec => []Settled
<1>1. Init => Settled
  BY DEF Init, Settled
<1> QED BY <1>1, SettledStep, PTL DEF Spec

\* What Cap returns, whatever it is given.
LEMMA CapLowers ==
  ASSUME NEW s \in DOMAIN SeverityOrder, NEW t \in DOMAIN SeverityOrder
  PROVE  /\ Cap(s, t) \in DOMAIN SeverityOrder
         /\ SeverityOrder[Cap(s, t)] <= SeverityOrder[s]
         /\ SeverityOrder[Cap(s, t)] <= SeverityOrder[t]
BY DEF Cap, SeverityOrder

\* Whatever was measured, calibration weakens all but the reachability.
LEMMA CalibratedIsWeaker ==
  ASSUME NEW c \in Conclusions, NEW m, NEW d,
         d.disposition = c.disposition, d.severity = c.severity,
         Reachability(c, m) = "proven" => d.reachability = "proven"
  PROVE  Weaker(Calibrated(c, m), d)
<1> DEFINE r == Calibrated(c, m)
<1>1. /\ c.disposition \in Dispositions /\ c.severity \in DOMAIN SeverityOrder
      /\ c.attackerControl \in ProofValues /\ c.denies \in BOOLEAN
  BY DEF Conclusions
<1>2. /\ r.disposition = Disposition(c, m) /\ r.severity = Severity(c, m)
      /\ r.attackerControl = AttackerControl(c)
      /\ r.reachability = Reachability(c, m) /\ r.denies = c.denies
  BY DEF Calibrated
<1>3. Disposition(c, m) = c.disposition
        \/ (Disposition(c, m) = "needs_review" /\ c.disposition \in {"confirmed", "likely"})
  BY <1>1 DEF Disposition
<1>4. Weight[Disposition(c, m)] <= Weight[c.disposition]
  BY <1>1, <1>3 DEF Weight, Dispositions
<1>5. SeverityOrder[Severity(c, m)] <= SeverityOrder[c.severity]
  <2> DEFINE ceiling == SeverityCeiling[Disposition(c, m)]
             capped == Cap(c.severity, ceiling)
  <2>1. ceiling \in DOMAIN SeverityOrder /\ "medium" \in DOMAIN SeverityOrder
    BY <1>1, <1>3 DEF Dispositions, SeverityCeiling, SeverityOrder
  <2>2. Severity(c, m) = (IF AttackerControl(c) = "not_proven"
                          THEN Cap(capped, "medium") ELSE capped)
    BY DEF Severity
  <2> HIDE DEF ceiling
  <2>3. capped \in DOMAIN SeverityOrder /\ SeverityOrder[capped] <= SeverityOrder[c.severity]
    BY <1>1, <2>1, CapLowers
  <2> HIDE DEF capped
  <2>4. SeverityOrder[Cap(capped, "medium")] <= SeverityOrder[capped]
          /\ Cap(capped, "medium") \in DOMAIN SeverityOrder
    BY <2>1, <2>3, CapLowers
  <2>5. \A s \in DOMAIN SeverityOrder : SeverityOrder[s] \in Int
    BY DEF SeverityOrder
  <2> QED BY <1>1, <2>2, <2>3, <2>4, <2>5
<1>6. AttackerControl(c) # "proven"
  BY DEF AttackerControl
<1> QED BY <1>2, <1>4, <1>5, <1>6 DEF Weaker

LEMMA CapKeeps ==
  ASSUME NEW s \in DOMAIN SeverityOrder, NEW t \in DOMAIN SeverityOrder,
         SeverityOrder[s] <= SeverityOrder[t]
  PROVE  Cap(s, t) = s
BY DEF Cap

\* What a calibrated conclusion asserts has its proof, and is calibrated already.
LEMMA CalibratedIsSober ==
  ASSUME NEW c \in Conclusions, NEW m
  PROVE  Sober(Calibrated(c, m)) /\ Calibrated(Calibrated(c, m), NoMeasure) = Calibrated(c, m)
<1> DEFINE d == Disposition(c, m)
           s == Severity(c, m)
           a == AttackerControl(c)
           v == Reachability(c, m)
           r == Calibrated(c, m)
<1>1. /\ c.disposition \in Dispositions /\ c.severity \in DOMAIN SeverityOrder
      /\ c.attackerControl \in ProofValues /\ c.denies \in BOOLEAN
  BY DEF Conclusions
<1>2. r = [disposition |-> d, severity |-> s, attackerControl |-> a,
           reachability |-> v, denies |-> c.denies]
  BY DEF Calibrated
<1>3. a # "proven" /\ a \in ProofValues
  BY <1>1 DEF AttackerControl, ProofValues
<1>4. d \in {"likely", "needs_review", "false_positive"} /\ ~(d = "likely" /\ c.denies)
  BY <1>1, <1>3 DEF Disposition, Dispositions
<1>5. /\ s \in DOMAIN SeverityOrder
      /\ SeverityOrder[s] <= SeverityOrder[SeverityCeiling[d]]
      /\ a = "not_proven" => SeverityOrder[s] <= SeverityOrder["medium"]
  <2> DEFINE ceiling == SeverityCeiling[d]
             capped == Cap(c.severity, ceiling)
  <2>1. ceiling \in DOMAIN SeverityOrder /\ "medium" \in DOMAIN SeverityOrder
    BY <1>4 DEF SeverityCeiling, SeverityOrder
  <2>2. s = (IF a = "not_proven" THEN Cap(capped, "medium") ELSE capped)
    BY DEF Severity
  <2> HIDE DEF ceiling, s, a, d
  <2>3. capped \in DOMAIN SeverityOrder /\ SeverityOrder[capped] <= SeverityOrder[ceiling]
    BY <1>1, <2>1, CapLowers
  <2> HIDE DEF capped
  <2>4. /\ Cap(capped, "medium") \in DOMAIN SeverityOrder
        /\ SeverityOrder[Cap(capped, "medium")] <= SeverityOrder[capped]
        /\ SeverityOrder[Cap(capped, "medium")] <= SeverityOrder["medium"]
    BY <2>1, <2>3, CapLowers
  <2>5. \A x \in DOMAIN SeverityOrder : SeverityOrder[x] \in Int
    BY DEF SeverityOrder
  <2>6. s \in DOMAIN SeverityOrder /\ SeverityOrder[s] <= SeverityOrder[ceiling]
    BY <2>1, <2>2, <2>3, <2>4, <2>5
  <2>7. a = "not_proven" => SeverityOrder[s] <= SeverityOrder["medium"]
    BY <2>2, <2>4
  <2> QED BY <2>6, <2>7 DEF ceiling
<1> HIDE DEF d, s, a, v, r
<1>6. /\ r.disposition = d /\ r.severity = s /\ r.attackerControl = a
      /\ r.reachability = v /\ r.denies = c.denies
  BY <1>2
<1>7. Sober(r)
  BY <1>3, <1>4, <1>5, <1>6 DEF Sober
<1>8. AttackerControl(r) = a
  BY <1>3, <1>6 DEF AttackerControl
<1>9. Reachability(r, NoMeasure) = v
  BY <1>6, NoMeasureAssumption DEF Reachability
<1>10. Disposition(r, NoMeasure) = d
  BY <1>4, <1>6 DEF Disposition
<1>11. Severity(r, NoMeasure) = s
  <2>1. SeverityCeiling[d] \in DOMAIN SeverityOrder /\ "medium" \in DOMAIN SeverityOrder
    BY <1>4 DEF SeverityCeiling, SeverityOrder
  <2>2. Cap(s, SeverityCeiling[d]) = s
    BY <1>5, <2>1, CapKeeps
  <2>3. a = "not_proven" => Cap(s, "medium") = s
    BY <1>5, <2>1, CapKeeps
  <2> QED BY <1>6, <1>8, <1>10, <2>2, <2>3 DEF Severity
<1>12. Calibrated(r, NoMeasure) = r
  BY <1>2, <1>6, <1>8, <1>9, <1>10, <1>11 DEF Calibrated
<1> QED BY <1>7, <1>12 DEF r

\* A record that is published asserts nothing it has no proof for, and to
\* calibrate it again would not change it.
THEOREM PublishedRecordsAreSober == Spec => []CalibrationIsSober
<1>1. Settled => CalibrationIsSober
  BY ClaimsAssumption, CalibratedIsSober DEF Settled, CalibrationIsSober
<1> QED BY <1>1, SettledInvariant, PTL

-----------------------------------------------------------------------------
(* What the normalizers and the correlation make of the reports.           *)

\* The findings of OpenGrep carry its name, other identifiers, and no instances.
LEMMA StaticTells ==
  ASSUME NEW r \in Reports
  PROVE  \E n \in Nat :
           /\ DOMAIN Static(r) = 1..n
           /\ Static(r) = [k \in 1..n |-> Static(r)[k]]
           /\ \A k \in 1..n : /\ Static(r)[k].tool = "opengrep"
                              /\ Static(r)[k].instances = <<>>
                              /\ \E m : Static(r)[k].id = <<"opengrep", m>>
           /\ \A k, l \in 1..n : Static(r)[k].id = Static(r)[l].id => k = l
<1> DEFINE kept == {n \in DOMAIN r : r[n] # NotAnObject}
           R == Ascending(kept)
<1>1. DOMAIN r = 1..Len(r) /\ Len(r) \in Nat
  BY ReportsAssumption DEF IsArray
<1>2. IsFiniteSet(kept) /\ kept \subseteq Int
  <2>1. IsFiniteSet(1..Len(r)) /\ kept \subseteq 1..Len(r)
    BY <1>1, FS_Interval, 1 \in Int
  <2> QED BY <2>1, FS_Subset
<1>3. Cardinality(kept) \in Nat /\ IsOrder(kept, R)
  BY <1>2, FS_CardinalityType, AscendingIsOrder
<1> DEFINE n == Cardinality(kept)
<1>4. /\ DOMAIN Static(r) = 1..n
      /\ Static(r) = [k \in 1..n |-> Static(r)[k]]
      /\ \A k \in 1..n : /\ Static(r)[k].id = <<"opengrep", Nth(kept, R, k)>>
                         /\ Static(r)[k].tool = "opengrep"
                         /\ Static(r)[k].instances = <<>>
  BY DEF Static
<1> HIDE DEF kept, R
<1>5. ASSUME NEW k \in 1..n, NEW l \in 1..n, Static(r)[k].id = Static(r)[l].id
      PROVE  k = l
  <2>1. Nth(kept, R, k) = Nth(kept, R, l)
    BY <1>4, <1>5
  <2> QED BY <1>2, <1>3, <2>1, NthDiffer
<1>6. \A k \in 1..n : /\ Static(r)[k].tool = "opengrep"
                     /\ Static(r)[k].instances = <<>>
                     /\ \E m : Static(r)[k].id = <<"opengrep", m>>
  BY <1>4
<1>7. n \in Nat /\ DOMAIN Static(r) = 1..n /\ Static(r) = [k \in 1..n |-> Static(r)[k]]
  BY <1>3, <1>4
<1> HIDE DEF n
<1> QED BY <1>5, <1>6, <1>7

LEMMA PlacesAreFinite ==
  ASSUME NEW a \in AlertReports, NEW p
  PROVE  IsFiniteSet(Places(a, p)) /\ Places(a, p) \subseteq Int \X Int
<1> DEFINE ns == AlertsOf(a, p)
           At(n) == {n} \X DOMAIN a[n].instances
           F  == {At(n) : n \in ns}
           at == [n \in ns |-> At(n)]
<1>1. /\ ns \subseteq 1..Len(a) /\ Len(a) \in Nat
      /\ \A n \in ns : /\ DOMAIN a[n].instances = 1..Len(a[n].instances)
                       /\ Len(a[n].instances) \in Nat
  BY AlertReportsAssumption DEF AlertsOf, IsArray
<1>2. IsFiniteSet(ns)
  <2>1. IsFiniteSet(1..Len(a))
    BY <1>1, FS_Interval, 1 \in Int
  <2> QED BY <1>1, <2>1, FS_Subset
<1>3. \A n \in ns : IsFiniteSet(At(n)) /\ At(n) \subseteq Int \X Int
  <2> SUFFICES ASSUME NEW n \in ns
               PROVE  IsFiniteSet(At(n)) /\ At(n) \subseteq Int \X Int
    OBVIOUS
  <2>1. IsFiniteSet(DOMAIN a[n].instances) /\ DOMAIN a[n].instances \subseteq Int
    <3>1. DOMAIN a[n].instances = 1..Len(a[n].instances) /\ Len(a[n].instances) \in Int
      BY <1>1
    <3>2. IsFiniteSet(1..Len(a[n].instances))
      BY <3>1, FS_Interval, 1 \in Int
    <3> QED BY <3>1, <3>2
  <2>2. IsFiniteSet({n})
    BY FS_Singleton
  <2> QED BY <1>1, <2>1, <2>2, FS_Product
<1>4. at \in Surjection(ns, F)
  <2>1. at \in [ns -> F] /\ \A T \in F : \E n \in ns : at[n] = T
    OBVIOUS
  <2> HIDE DEF at, F
  <2> QED BY <2>1 DEF Surjection
<1>5. IsFiniteSet(F)
  BY <1>2, <1>4, FS_Surjection
<1>6. IsFiniteSet(UNION F)
  <2>1. \A T \in F : IsFiniteSet(T)
    BY <1>3
  <2> QED BY <1>5, <2>1, FS_UNION
<1>7. Places(a, p) = UNION F
  BY DEF Places
<1> QED BY <1>3, <1>6, <1>7

\* What is collected for a plugin are instances that the Gateway had forwarded.
LEMMA CollectedTells ==
  ASSUME NEW a \in AlertReports, NEW p
  PROVE  /\ \E n \in Nat : DOMAIN Collected(a, p) = 1..n
         /\ \A k \in DOMAIN Collected(a, p) :
              /\ WasForwarded(Collected(a, p)[k])
              /\ \E n \in DOMAIN a : /\ a[n].plugin = p
                                     /\ Collected(a, p)[k] \in Range(a[n].instances)
<1> DEFINE forwarded == {q \in Places(a, p) : WasForwarded(InstanceAt(a, q))}
           new == {q \in forwarded : \A r \in forwarded :
                     InstanceAt(a, r) = InstanceAt(a, q)
                       => <<q, r>> \in NestedOrder(forwarded)}
           R == NestedOrder(new)
           n == Cardinality(new)
<1>1. /\ DOMAIN Collected(a, p) = 1..n
      /\ \A k \in 1..n : Collected(a, p)[k] = InstanceAt(a, Nth(new, R, k))
  BY DEF Collected
<1>2. /\ \A q \in new : q \in Places(a, p) /\ WasForwarded(InstanceAt(a, q))
      /\ new \subseteq Places(a, p)
  OBVIOUS
<1> HIDE DEF new
<1>3. IsFiniteSet(new) /\ IsOrder(new, R)
  <2>1. new \subseteq Int \X Int
    BY <1>2, PlacesAreFinite
  <2> QED BY <1>2, <2>1, PlacesAreFinite, FS_Subset, NestedIsOrder
<1>4. n \in Nat
  BY <1>3, FS_CardinalityType
<1>5. \A k \in 1..n : Nth(new, R, k) \in new
  BY <1>3, NthTells
<1>6. \A q \in Places(a, p) :
        \E m \in DOMAIN a : a[m].plugin = p /\ InstanceAt(a, q) \in Range(a[m].instances)
  <2> SUFFICES ASSUME NEW q \in Places(a, p)
               PROVE  \E m \in DOMAIN a : /\ a[m].plugin = p
                                          /\ InstanceAt(a, q) \in Range(a[m].instances)
    OBVIOUS
  <2>1. PICK m \in AlertsOf(a, p) : q \in {m} \X DOMAIN a[m].instances
    BY DEF Places
  <2>2. m \in DOMAIN a /\ a[m].plugin = p
    BY DEF AlertsOf
  <2>3. q[1] = m /\ q[2] \in DOMAIN a[m].instances
    BY <2>1
  <2>4. InstanceAt(a, q) = a[m].instances[q[2]]
    BY <2>3 DEF InstanceAt
  <2> QED BY <2>2, <2>3, <2>4 DEF Range
<1> HIDE DEF R, n
<1> QED BY <1>1, <1>2, <1>4, <1>5, <1>6

LEMMA PluginsAreFinite ==
  ASSUME NEW a \in AlertReports
  PROVE  IsFiniteSet(Plugins(a)) /\ Plugins(a) \subseteq Int
<1> DEFINE all == {a[n].plugin : n \in DOMAIN a}
           pluginOf == [n \in DOMAIN a |-> a[n].plugin]
<1>1. DOMAIN a = 1..Len(a) /\ Len(a) \in Nat /\ \A n \in DOMAIN a : a[n].plugin \in Int
  BY AlertReportsAssumption DEF IsArray
<1>2. IsFiniteSet(DOMAIN a)
  BY <1>1, FS_Interval, 1 \in Int
<1>3. pluginOf \in Surjection(DOMAIN a, all)
  <2>1. pluginOf \in [DOMAIN a -> all] /\ \A p \in all : \E n \in DOMAIN a : pluginOf[n] = p
    OBVIOUS
  <2> HIDE DEF pluginOf, all
  <2> QED BY <2>1 DEF Surjection
<1>4. IsFiniteSet(all)
  BY <1>2, <1>3, FS_Surjection
<1>5. Plugins(a) \subseteq all /\ all \subseteq Int
  BY <1>1 DEF Plugins
<1> QED BY <1>4, <1>5, FS_Subset

\* A finding of ZAP is named after a plugin; its instances were raised by an alert
\* of this plugin, and forwarded.
FromZap(f, a) ==
  /\ f.tool = "zap"
  /\ \E p : /\ f.id = <<"zap", p>>
            /\ \A x \in Range(f.instances) :
                /\ WasForwarded(x)
                /\ \E n \in DOMAIN a : a[n].plugin = p /\ x \in Range(a[n].instances)

LEMMA PluginFindingTells ==
  ASSUME NEW a \in AlertReports, NEW p
  PROVE  PluginFinding(a, p).id = <<"zap", p>> /\ FromZap(PluginFinding(a, p), a)
<1> DEFINE f == PluginFinding(a, p)
           all == Collected(a, p)
<1>1. /\ f.id = <<"zap", p>> /\ f.tool = "zap"
      /\ f.instances = [n \in DOMAIN all \cap 1..MaxInstances |-> all[n]]
  BY DEF PluginFinding
<1> HIDE DEF f
<1>2. \A x \in Range(f.instances) : \E k \in DOMAIN all : x = all[k]
  BY <1>1 DEF Range
<1>3. \A x \in Range(f.instances) :
        /\ WasForwarded(x)
        /\ \E n \in DOMAIN a : a[n].plugin = p /\ x \in Range(a[n].instances)
  BY <1>2, CollectedTells
<1>4. FromZap(f, a)
  BY <1>1, <1>3 DEF FromZap
<1> QED BY <1>1, <1>4 DEF f

LEMMA DynamicTells ==
  ASSUME NEW a \in AlertReports
  PROVE  \E n \in Nat :
           /\ DOMAIN Dynamic(a) = 1..n
           /\ Dynamic(a) = [k \in 1..n |-> Dynamic(a)[k]]
           /\ \A k \in 1..n : /\ FromZap(Dynamic(a)[k], a)
                              /\ \E p : Dynamic(a)[k].id = <<"zap", p>>
           /\ \A k, l \in 1..n : Dynamic(a)[k].id = Dynamic(a)[l].id => k = l
<1> DEFINE plugins == Plugins(a)
           R == Ascending(plugins)
           n == Cardinality(plugins)
<1>1. IsFiniteSet(plugins) /\ IsOrder(plugins, R) /\ n \in Nat
  BY PluginsAreFinite, AscendingIsOrder, FS_CardinalityType
<1>2. /\ DOMAIN Dynamic(a) = 1..n
      /\ Dynamic(a) = [k \in 1..n |-> Dynamic(a)[k]]
      /\ \A k \in 1..n : Dynamic(a)[k] = PluginFinding(a, Nth(plugins, R, k))
  BY DEF Dynamic
<1>3. \A k \in 1..n : /\ Dynamic(a)[k].id = <<"zap", Nth(plugins, R, k)>>
                      /\ FromZap(Dynamic(a)[k], a)
  BY <1>2, PluginFindingTells
<1> HIDE DEF plugins, R
<1>4. ASSUME NEW k \in 1..n, NEW l \in 1..n, Dynamic(a)[k].id = Dynamic(a)[l].id
      PROVE  k = l
  <2>1. Nth(plugins, R, k) = Nth(plugins, R, l)
    BY <1>3, <1>4
  <2> QED BY <1>1, <2>1, NthDiffer
<1> QED BY <1>1, <1>2, <1>3, <1>4

LEMMA Joined ==
  ASSUME NEW m \in Nat, NEW n \in Nat,
         NEW s, s = [k \in 1..m |-> s[k]], NEW t, t = [k \in 1..n |-> t[k]]
  PROVE  /\ DOMAIN (s \o t) = 1..m + n
         /\ \A k \in 1..m + n : \/ k \in 1..m /\ (s \o t)[k] = s[k]
                                \/ k - m \in 1..n /\ (s \o t)[k] = t[k - m]
<1> DEFINE S == {s[k] : k \in 1..m} \cup {t[k] : k \in 1..n}
<1>1. s \in [1..m -> S] /\ t \in [1..n -> S]
  OBVIOUS
<1> HIDE DEF S
<1>2. s \in Seq(S) /\ t \in Seq(S)
  BY <1>1, FunctionIsSeq
<1>3. Len(s) = m /\ Len(t) = n
  BY <1>1, <1>2, LenProperties
<1>4. /\ s \o t \in Seq(S) /\ Len(s \o t) = m + n
      /\ \A k \in 1..m + n : (s \o t)[k] = IF k <= m THEN s[k] ELSE t[k - m]
  BY <1>2, <1>3, ConcatProperties
<1>5. DOMAIN (s \o t) = 1..m + n
  BY <1>4, LenProperties
<1> DEFINE u == s \o t
<1>6. \A k \in 1..m + n : u[k] = IF k <= m THEN s[k] ELSE t[k - m]
  BY <1>4
<1> HIDE DEF u
<1>7. \A k \in 1..m + n : \/ k \in 1..m /\ u[k] = s[k]
                          \/ k - m \in 1..n /\ u[k] = t[k - m]
  <2> SUFFICES ASSUME NEW k \in 1..m + n
               PROVE  \/ k \in 1..m /\ u[k] = s[k]
                      \/ k - m \in 1..n /\ u[k] = t[k - m]
    OBVIOUS
  <2>1. CASE k <= m
    <3>1. k \in 1..m
      BY <2>1
    <3>2. u[k] = s[k]
      BY <1>6, <2>1
    <3> QED BY <3>1, <3>2
  <2>2. CASE ~(k <= m)
    <3>1. k - m \in 1..n
      BY <2>2
    <3>2. u[k] = t[k - m]
      BY <1>6, <2>2
    <3> QED BY <3>1, <3>2
  <2> QED BY <2>1, <2>2
<1> QED BY <1>5, <1>7 DEF u

IsStatic(f) == f.tool = "opengrep" /\ f.instances = <<>>

\* No identifier occurs twice in what the normalizers make of any two reports.
LEMMA MergedTells ==
  ASSUME NEW r \in Reports, NEW a \in AlertReports
  PROVE  /\ Mergeable(Static(r) \o Dynamic(a))
         /\ \A k \in DOMAIN (Static(r) \o Dynamic(a)) :
              \/ IsStatic((Static(r) \o Dynamic(a))[k])
              \/ FromZap((Static(r) \o Dynamic(a))[k], a)
<1> DEFINE s == Static(r)
           t == Dynamic(a)
           both == s \o t
<1>1. PICK m \in Nat :
        /\ s = [k \in 1..m |-> s[k]]
        /\ \A k \in 1..m : /\ s[k].tool = "opengrep" /\ s[k].instances = <<>>
                           /\ \E x : s[k].id = <<"opengrep", x>>
        /\ \A k, l \in 1..m : s[k].id = s[l].id => k = l
  BY StaticTells
<1>2. PICK n \in Nat :
        /\ t = [k \in 1..n |-> t[k]]
        /\ \A k \in 1..n : FromZap(t[k], a) /\ \E p : t[k].id = <<"zap", p>>
        /\ \A k, l \in 1..n : t[k].id = t[l].id => k = l
  BY DynamicTells
<1> HIDE DEF s, t
<1>3. /\ DOMAIN both = 1..m + n
      /\ \A k \in 1..m + n : \/ k \in 1..m /\ both[k] = s[k]
                             \/ k - m \in 1..n /\ both[k] = t[k - m]
  BY <1>1, <1>2, Joined
<1> HIDE DEF both
<1>4. \A k \in 1..m, l \in 1..n : s[k].id # t[l].id
  <2> SUFFICES ASSUME NEW k \in 1..m, NEW l \in 1..n, s[k].id = t[l].id PROVE FALSE
    OBVIOUS
  <2>1. PICK x : s[k].id = <<"opengrep", x>>
    BY <1>1
  <2>2. PICK p : t[l].id = <<"zap", p>>
    BY <1>2
  <2>3. <<"opengrep", x>>[1] = <<"zap", p>>[1]
    BY <2>1, <2>2
  <2> QED BY <2>3
<1>5. ASSUME NEW k \in 1..m + n, NEW l \in 1..m + n, both[k].id = both[l].id
      PROVE  k = l
  <2>1. CASE k \in 1..m /\ both[k] = s[k] /\ l \in 1..m /\ both[l] = s[l]
    BY <1>1, <1>5, <2>1
  <2>2. CASE k \in 1..m /\ both[k] = s[k] /\ l - m \in 1..n /\ both[l] = t[l - m]
    BY <1>4, <1>5, <2>2
  <2>3. CASE k - m \in 1..n /\ both[k] = t[k - m] /\ l \in 1..m /\ both[l] = s[l]
    BY <1>4, <1>5, <2>3
  <2>4. CASE k - m \in 1..n /\ both[k] = t[k - m] /\ l - m \in 1..n /\ both[l] = t[l - m]
    <3>1. k - m = l - m
      BY <1>2, <1>5, <2>4
    <3> QED BY <3>1
  <2> QED BY <1>3, <2>1, <2>2, <2>3, <2>4
<1>6. Mergeable(both)
  BY <1>3, <1>5 DEF Mergeable
<1>7. \A k \in DOMAIN both : IsStatic(both[k]) \/ FromZap(both[k], a)
  BY <1>1, <1>2, <1>3 DEF IsStatic
<1> QED BY <1>6, <1>7 DEF both, s, t

-----------------------------------------------------------------------------
(* From the reports to the published record.                               *)

\* The findings are those of OpenGrep, and those that come from the alerts.
ItemsTell ==
  /\ pc \in {"scan", "dast", "normalize"} => items = <<>>
  /\ \A k \in DOMAIN items :
       IsStatic(items[k]) \/ (alerts \in AlertReports /\ FromZap(items[k], alerts))

\* The static findings have evidence, found by comparing paths in some order.
Correlated ==
  \E order \in SetToSeqs(Observed(Traffic)) :
    evidence = [k \in {n \in DOMAIN items : items[n].tool # "zap"} |->
                  EvidenceFor(items[k], items, order)]

EvidenceTells ==
  /\ accessLog \in AccessLogs \cup {Absent}
  /\ pc \in {"scan", "dast", "normalize", "merge", "correlate"} => evidence = <<>>
  /\ alerts = Absent => evidence = <<>>
  /\ evidence = <<>> \/ Correlated
  /\ pc \in {"load", "group"} => alerts = Absent \/ Correlated

\* What is grouped is findings.json.
ItemsLoaded ==
  /\ stage # "idle" => findings = items /\ pc \in {"group", "end"}
  /\ pc = "group" => stage # "idle"

RecordTells ==
  /\ pc # "end" => record = NoClaim
  /\ record # NoClaim =>
       /\ claim \in Claims /\ about \subseteq DOMAIN items
       /\ record = Calibrated(claim, Measured(about))
       /\ alerts = Absent \/ Correlated

LEMMA ItemsTellStep ==
  ASSUME FromReports, ItemsTell, [Next]_vars
  PROVE  ItemsTell'
<1>1. CASE Scan \/ CommandFails \/ NoDast \/ Dast
  <2>1. /\ items' = items /\ pc \in {"scan", "dast", "normalize"}
    BY <1>1 DEF Scan, CommandFails, NoDast, Dast, findingsVars
  <2>2. items' = <<>>
    BY <2>1 DEF ItemsTell
  <2> QED BY <2>2 DEF ItemsTell
<1>2. CASE NormalizeStatic
  <2>1. /\ items' = Static(raw) /\ pc = "normalize" /\ pc' \in {"load", "merge"}
    BY <1>2 DEF NormalizeStatic, GoesOn
  <2>2. raw \in Reports
    BY <2>1 DEF FromReports
  <2>3. \A k \in DOMAIN Static(raw) : IsStatic(Static(raw)[k])
    BY <2>2, StaticTells DEF IsStatic
  <2> QED BY <2>1, <2>3 DEF ItemsTell
<1>3. CASE Merge
  <2>1. /\ pc = "merge" /\ alerts # Malformed /\ alerts' = alerts
        /\ pc' \in {"correlate", "end"}
        /\ items' = items \/ items' = items \o Dynamic(alerts)
    BY <1>3 DEF Merge, GoesOn, Fails, scanVars
  <2>2. CASE items' = items
    BY <2>1, <2>2 DEF ItemsTell
  <2>3. CASE items' = items \o Dynamic(alerts)
    <3>1. alerts \in AlertReports /\ \E r \in Reports : items = Static(r)
      BY <2>1 DEF FromReports, StaticFindings
    <3>2. \A k \in DOMAIN items' : IsStatic(items'[k]) \/ FromZap(items'[k], alerts)
      BY <2>3, <3>1, MergedTells
    <3> QED BY <2>1, <3>1, <3>2 DEF ItemsTell
  <2> QED BY <2>1, <2>2, <2>3
<1>4. CASE MergeBreaks \/ Correlate \/ Load \/ LoadBreaks \/ Group \/ Settle \/ UNCHANGED vars
  <2>1. UNCHANGED <<items, alerts>> /\ (pc' = pc \/ pc' \in {"end", "load", "group"})
    BY <1>4 DEF MergeBreaks, Correlate, Load, LoadBreaks, Group, Settle, vars, scanVars,
                findingsVars, Fails, GoesOn
  <2> QED BY <2>1 DEF ItemsTell
<1> QED BY <1>1, <1>2, <1>3, <1>4 DEF Next

LEMMA CorrelatedKept ==
  ASSUME UNCHANGED <<accessLog, items, evidence>> PROVE Correlated' = Correlated
BY DEF Correlated, Traffic

LEMMA EvidenceTellsStep ==
  ASSUME FromReports, EvidenceTells, [Next]_vars
  PROVE  EvidenceTells'
<1>1. CASE Scan \/ CommandFails \/ NoDast \/ Dast
  <2>1. /\ evidence' = evidence /\ pc \in {"scan", "dast", "normalize"}
        /\ accessLog' \in AccessLogs \cup {Absent} /\ pc' \notin {"load", "group"}
    BY <1>1 DEF Scan, CommandFails, NoDast, Dast, findingsVars, scanVars, EvidenceTells,
                Fails, GoesOn
  <2>2. evidence' = <<>>
    BY <2>1 DEF EvidenceTells
  <2> QED BY <2>1, <2>2 DEF EvidenceTells
<1>2. CASE NormalizeStatic \/ Merge
  <2>1. /\ evidence' = evidence /\ pc \in {"normalize", "merge"}
        /\ UNCHANGED <<accessLog, alerts>>
        /\ pc' = "load" => alerts = Absent
        /\ pc' # "group"
    BY <1>2 DEF NormalizeStatic, Merge, scanVars, Fails, GoesOn
  <2>2. evidence' = <<>>
    BY <2>1 DEF EvidenceTells
  <2> QED BY <2>1, <2>2 DEF EvidenceTells
<1>3. CASE Correlate
  <2>1. /\ UNCHANGED <<accessLog, items, alerts>> /\ pc = "correlate" /\ pc' = "load"
        /\ \E order \in SetToSeqs(Observed(Traffic)) :
             evidence' = [k \in {n \in DOMAIN items : items[n].tool # "zap"} |->
                            EvidenceFor(items[k], items, order)]
    BY <1>3 DEF Correlate, GoesOn, scanVars
  <2>2. Traffic' = Traffic
    BY <2>1 DEF Traffic
  <2>3. Correlated'
    BY <2>1, <2>2 DEF Correlated
  <2>4. alerts # Absent
    BY <2>1 DEF FromReports
  <2> QED BY <2>1, <2>3, <2>4 DEF EvidenceTells
<1>4. CASE MergeBreaks \/ Load \/ LoadBreaks \/ Group \/ Settle \/ UNCHANGED vars
  <2>1. /\ UNCHANGED <<items, evidence, alerts, accessLog>>
        /\ pc' = pc \/ pc' = "end" \/ (pc = "load" /\ pc' = "group")
    BY <1>4 DEF MergeBreaks, Load, LoadBreaks, Group, Settle, vars, scanVars,
                findingsVars, Fails, GoesOn
  <2>2. Correlated' = Correlated
    BY <2>1, CorrelatedKept
  <2> HIDE DEF Correlated
  <2> QED BY <2>1, <2>2 DEF EvidenceTells
<1> QED BY <1>1, <1>2, <1>3, <1>4 DEF Next

LEMMA ItemsLoadedStep ==
  ASSUME ItemsLoaded, [Next]_vars
  PROVE  ItemsLoaded'
<1>1. CASE Load
  <2>1. pc' = "group" /\ stage' = "bucket" /\ findings' = items /\ items' = items
    BY <1>1 DEF Load, GoesOn, Start, findingsVars
  <2> QED BY <2>1 DEF ItemsLoaded
<1>2. CASE Group
  <2>1. UNCHANGED <<pc, items>> /\ stage # "idle" /\ stage' # "idle" /\ findings' = findings
    BY <1>2 DEF Group, findingsVars, GroupingStep, PutInBucket, StartMerging, MergeTwo,
                LeaveApart, NextGroup, EndPass, SortGroups, Looking
  <2> QED BY <2>1 DEF ItemsLoaded
<1>3. CASE Settle \/ UNCHANGED vars
  <2>1. /\ UNCHANGED <<items, stage, findings>>
        /\ pc' = pc \/ (pc = "group" /\ pc' = "end")
    BY <1>3 DEF Settle, vars, findingsVars, groupingVars, GoesOn
  <2> QED BY <2>1 DEF ItemsLoaded
<1>4. CASE Scan \/ CommandFails \/ NoDast \/ Dast \/ NormalizeStatic \/ Merge
            \/ MergeBreaks \/ Correlate \/ LoadBreaks
  <2>1. UNCHANGED <<stage, findings>> /\ pc \notin {"group", "end"} /\ pc' # "group"
    BY <1>4 DEF Scan, CommandFails, NoDast, Dast, NormalizeStatic, Merge, MergeBreaks,
                Correlate, LoadBreaks, groupingVars, GoesOn, Fails
  <2>2. stage' = "idle"
    BY <2>1 DEF ItemsLoaded
  <2> QED BY <2>1, <2>2 DEF ItemsLoaded
<1> QED BY <1>1, <1>2, <1>3, <1>4 DEF Next

LEMMA RecordTellsStep ==
  ASSUME IInv, WellFormed, EvidenceTells, ItemsLoaded, RecordTells, [Next]_vars
  PROVE  RecordTells'
<1>1. CASE Settle
  <2>1. PICK g \in DOMAIN groups, c \in Claims :
          /\ about' = groups[g].members /\ claim' = c
          /\ record' = Calibrated(c, Measured(groups[g].members))
    BY <1>1 DEF Settle
  <2>2. /\ pc = "group" /\ pc' = "end" /\ stage = "done"
        /\ UNCHANGED <<items, evidence, alerts, accessLog>>
    BY <1>1 DEF Settle, GoesOn, scanVars, findingsVars
  <2>3. about' \subseteq DOMAIN items'
    <3>1. groups[g].members \subseteq 1..placed
      BY DEF IInv, Sound, Members
    <3>2. placed = Len(findings) /\ findings = items
      BY <2>2 DEF IInv, Stages, ItemsLoaded
    <3>3. DOMAIN findings = 1..Len(findings)
      BY DEF WellFormed
    <3> QED BY <2>1, <2>2, <3>1, <3>2, <3>3
  <2>4. Measured(groups[g].members) = Measured(about)'
    BY <2>1, <2>2 DEF Measured
  <2>5. record' = Calibrated(claim', Measured(about)')
    BY <2>1, <2>4
  <2>6. record' = Calibrated(claim, Measured(about))'
    BY <2>5 DEF Calibrated, Disposition, Severity, AttackerControl, Reachability
  <2>7. alerts' = Absent \/ Correlated'
    BY <2>2, CorrelatedKept DEF EvidenceTells
  <2> QED BY <2>1, <2>2, <2>3, <2>6, <2>7 DEF RecordTells
<1>2. CASE pc # "end" /\ ~Settle
  <2>1. record' = record
    BY <1>2 DEF Next, vars, Scan, CommandFails, NoDast, Dast, NormalizeStatic, Merge,
                MergeBreaks, Correlate, Load, LoadBreaks, Group, answerVars
  <2> QED BY <1>2, <2>1 DEF RecordTells
<1>3. CASE pc = "end" /\ ~Settle
  <2>1. UNCHANGED <<pc, items, evidence, alerts, accessLog, answerVars>>
    BY <1>3 DEF Next, vars, Scan, CommandFails, NoDast, Dast, NormalizeStatic, Merge,
                MergeBreaks, Correlate, Load, LoadBreaks, Group, Fails, scanVars,
                findingsVars, ItemsLoaded
  <2>2. CASE record = NoClaim
    BY <1>3, <2>1, <2>2 DEF RecordTells, answerVars
  <2>3. CASE record # NoClaim
    <3>1. Measured(about)' = Measured(about)
      BY <2>1 DEF Measured, answerVars
    <3>2. Calibrated(claim, Measured(about))' = Calibrated(claim, Measured(about))
      BY <2>1, <3>1 DEF Calibrated, Disposition, Severity, AttackerControl, Reachability,
                        answerVars
    <3>3. Correlated' = Correlated
      BY <2>1, CorrelatedKept
    <3> HIDE DEF Correlated, Calibrated
    <3> QED BY <1>3, <2>1, <2>3, <3>2, <3>3 DEF RecordTells, answerVars
  <2> QED BY <2>2, <2>3
<1> QED BY <1>1, <1>2, <1>3

\* Everything that the properties of the flow rest on.
IntakeInv ==
  /\ FromReports /\ WellFormed /\ IInv
  /\ ItemsTell /\ EvidenceTells /\ ItemsLoaded /\ RecordTells
  /\ MergeIsNeverRefused

LEMMA MergeStep ==
  ASSUME FromReports, MergeIsNeverRefused, [Next]_vars
  PROVE  MergeIsNeverRefused'
<1>1. CASE Merge
  <2>1. alerts \in AlertReports /\ \E r \in Reports : items = Static(r)
    BY <1>1 DEF Merge, FromReports, StaticFindings
  <2>2. Mergeable(items \o Dynamic(alerts))
    BY <2>1, MergedTells
  <2>3. cause' = cause
    BY <1>1, <2>2 DEF Merge, GoesOn
  <2> QED BY <2>3 DEF MergeIsNeverRefused
<1>2. CASE ~Merge
  BY <1>2 DEF Next, vars, Scan, CommandFails, NoDast, Dast, NormalizeStatic, MergeBreaks,
              Correlate, Load, LoadBreaks, Group, Settle, Fails, GoesOn, MergeIsNeverRefused
<1> QED BY <1>1, <1>2

LEMMA IntakeInit == Init => IntakeInv
<1> SUFFICES ASSUME Init PROVE IntakeInv
  OBVIOUS
<1>1. /\ pc = "scan" /\ cause = "" /\ items = <<>> /\ evidence = <<>>
      /\ accessLog = Absent /\ alerts = Absent /\ record = NoClaim
      /\ stage = "idle" /\ findings = <<>> /\ oldReport \in Reports \cup {Absent}
  BY DEF Init, GroupingInit
<1>2. FromReports /\ ItemsLoaded /\ RecordTells
  BY <1>1 DEF FromReports, ItemsLoaded, RecordTells
<1>3. ItemsTell /\ EvidenceTells
  <2>1. items = <<>>
    BY <1>1
  <2>2. DOMAIN items = {}
    BY <2>1
  <2> QED BY <1>1, <2>2 DEF ItemsTell, EvidenceTells
<1>4. MergeIsNeverRefused
  BY <1>1 DEF MergeIsNeverRefused
<1>5. WellFormed
  <2>1. findings = <<>>
    BY <1>1
  <2>2. Len(findings) = 0 /\ DOMAIN findings = {}
    BY <2>1
  <2> QED BY <2>2 DEF WellFormed
<1> QED BY <1>2, <1>3, <1>4, <1>5, InvInit DEF IntakeInv

LEMMA IntakeStep == IntakeInv /\ [Next]_vars => IntakeInv'
<1> SUFFICES ASSUME IntakeInv, [Next]_vars PROVE IntakeInv'
  OBVIOUS
<1>1. FromReports' /\ WellFormed'
  BY FromReportsStep, WellFormedStep DEF IntakeInv
<1>2. IInv'
  BY <1>1, InvStep DEF IntakeInv
<1>3. ItemsTell' /\ EvidenceTells' /\ ItemsLoaded' /\ RecordTells'
  BY ItemsTellStep, EvidenceTellsStep, ItemsLoadedStep, RecordTellsStep DEF IntakeInv
<1>4. MergeIsNeverRefused'
  BY MergeStep DEF IntakeInv
<1> QED BY <1>1, <1>2, <1>3, <1>4 DEF IntakeInv

\* The invariant of the flow from the reports to the record.
THEOREM IntakeInvariant == Spec => []IntakeInv
BY IntakeInit, IntakeStep, PTL DEF Spec

\* Whatever the two scanners report, the findings of both are merged.
THEOREM MergingSucceeds == Spec => []MergeIsNeverRefused
<1>1. IntakeInv => MergeIsNeverRefused
  BY DEF IntakeInv
<1> QED BY <1>1, IntakeInvariant, PTL

\* Every path that was answered is compared, in whatever order.
LEMMA OrderTells ==
  ASSUME accessLog \in AccessLogs \cup {Absent},
         NEW order \in SetToSeqs(Observed(Traffic))
  PROVE  /\ \E n \in Nat : DOMAIN order = 1..n
         /\ {order[n] : n \in DOMAIN order} = Observed(Traffic)
<1> DEFINE S == Observed(Traffic)
           T == {m \in Traffic : 200 <= m.status /\ m.status < 300}
           pathOf == [l \in T |-> l.path]
           D == 1..Cardinality(S)
<1>1. IsFiniteSet(Traffic)
  BY AccessLogsAssumption, FS_EmptySet DEF Traffic
<1>2. IsFiniteSet(T)
  BY <1>1, FS_Subset
<1>3. pathOf \in Surjection(T, S)
  <2>1. pathOf \in [T -> S] /\ \A p \in S : \E l \in T : pathOf[l] = p
    BY DEF Observed
  <2> HIDE DEF pathOf, S, T
  <2> QED BY <2>1 DEF Surjection
<1>4. IsFiniteSet(S)
  BY <1>2, <1>3, FS_Surjection
<1>5. Cardinality(S) \in Nat
  BY <1>4, FS_CardinalityType
<1>6. order \in [D -> S] /\ \A k, l \in D : k # l => order[k] # order[l]
  BY DEF SetToSeqs
<1> HIDE DEF S, T, pathOf
<1>7. order \in Injection(D, S)
  BY <1>6 DEF Injection, IsInjective
<1>8. IsFiniteSet(D) /\ Cardinality(D) = Cardinality(S)
  BY <1>5, FS_Interval, 1 \in Int
<1>9. order \in Surjection(D, S)
  BY <1>4, <1>7, <1>8, FS_Injection
<1>10. {order[n] : n \in DOMAIN order} = S
  BY <1>6, <1>9 DEF Surjection
<1> QED BY <1>5, <1>6, <1>10 DEF S

Answered(route) == \E l \in Traffic : l.status \in 200..299 /\ RouteMatches(route, l.path)

LEMMA AnsweredTells ==
  ASSUME accessLog \in AccessLogs \cup {Absent}, NEW route
  PROVE  Answered(route) <=> \E p \in Observed(Traffic) : RouteMatches(route, p)
<1>1. \A l \in Traffic : l.status \in Int
  BY AccessLogsAssumption DEF Traffic
<1>2. \A l \in Traffic : l.status \in 200..299 <=> 200 <= l.status /\ l.status < 300
  BY <1>1
<1> QED BY <1>2 DEF Answered, Observed

\* What correlate says of a finding is what the traffic shows, although it looks
\* at the alerts on one path only.
LEMMA EvidenceForTells ==
  ASSUME accessLog \in AccessLogs \cup {Absent},
         NEW order \in SetToSeqs(Observed(Traffic)), NEW f, NEW fs,
         NEW e, e = EvidenceFor(f, fs, order)
  PROVE  /\ e.strength \in {"no_route", "route_known_not_reached", "reachable",
                            "reachable_and_alerted"}
         /\ e.strength = "no_route" <=> RouteOf[f.file] = NoRoute
         /\ e.strength # "no_route" =>
              (e.strength \in {"reachable", "reachable_and_alerted"}
                 <=> Answered(RouteOf[f.file]))
         /\ e.strength \in {"reachable", "reachable_and_alerted"} =>
              /\ RouteMatches(RouteOf[f.file], e.observed)
              /\ e.observed \in Observed(Traffic)
              /\ e.alerts = AlertsAt(fs, e.observed)
              /\ e.strength = "reachable" <=> AlertsAt(fs, e.observed) = {}
<1> DEFINE route   == RouteOf[f.file]
           fitting == {n \in DOMAIN order : RouteMatches(route, order[n])}
           path    == order[Nth(fitting, Ascending(fitting), 1)]
           there   == AlertsAt(fs, path)
<1>1. e = IF route = NoRoute THEN Evidence("no_route", <<>>, {})
          ELSE IF fitting = {} THEN Evidence("route_known_not_reached", <<>>, {})
          ELSE Evidence(IF there = {} THEN "reachable" ELSE "reachable_and_alerted",
                        path, there)
  BY DEF EvidenceFor
<1>2. \A s, o, a : /\ Evidence(s, o, a).strength = s /\ Evidence(s, o, a).alerts = a
                   /\ Evidence(s, o, a).observed = o
  BY DEF Evidence
<1>3. PICK n \in Nat : DOMAIN order = 1..n
  BY OrderTells
<1>4. fitting # {} => RouteMatches(route, path) /\ path \in Observed(Traffic)
  <2> SUFFICES ASSUME fitting # {}
               PROVE  RouteMatches(route, path) /\ path \in Observed(Traffic)
    OBVIOUS
  <2>1. fitting \subseteq 1..n
    BY <1>3
  <2> HIDE DEF route
  <2>2. Nth(fitting, Ascending(fitting), 1) \in fitting
    <3> HIDE DEF fitting
    <3> QED BY <2>1, FirstTells
  <2>3. {order[k] : k \in DOMAIN order} = Observed(Traffic)
    BY OrderTells
  <2> QED BY <2>2, <2>3
<1>5. fitting # {} <=> Answered(route)
  <2>1. fitting # {} <=> \E p \in Observed(Traffic) : RouteMatches(route, p)
    BY OrderTells
  <2> HIDE DEF fitting, route
  <2> QED BY <2>1, AnsweredTells
<1> HIDE DEF fitting, path, there, Evidence
<1>6. CASE route = NoRoute
  <2>1. e.strength = "no_route"
    BY <1>1, <1>2, <1>6
  <2> QED BY <1>6, <2>1
<1>7. CASE route # NoRoute /\ fitting = {}
  <2>1. e.strength = "route_known_not_reached"
    BY <1>1, <1>2, <1>7
  <2> QED BY <1>5, <1>7, <2>1
<1>8. CASE route # NoRoute /\ fitting # {}
  <2>1. /\ e.strength = IF there = {} THEN "reachable" ELSE "reachable_and_alerted"
        /\ e.alerts = there /\ e.observed = path
    BY <1>1, <1>2, <1>8
  <2>2. e.strength = "reachable" <=> there = {}
    BY <2>1
  <2>3. RouteMatches(route, path) /\ path \in Observed(Traffic) /\ Answered(route)
    BY <1>4, <1>5, <1>8
  <2> QED BY <1>8, <2>1, <2>2, <2>3 DEF there
<1> QED BY <1>6, <1>7, <1>8

LEMMA CorrelatedTells ==
  ASSUME Correlated, NEW k \in DOMAIN evidence
  PROVE  /\ k \in DOMAIN items /\ items[k].tool # "zap"
         /\ \E order \in SetToSeqs(Observed(Traffic)) :
              evidence[k] = EvidenceFor(items[k], items, order)
BY DEF Correlated

LEMMA CorrelatedDomain ==
  ASSUME Correlated
  PROVE  DOMAIN evidence = {n \in DOMAIN items : items[n].tool # "zap"}
BY DEF Correlated

\* An alert that is put with a route was raised by ZAP on a path of it.
LEMMA AlertsTell ==
  ASSUME IntakeInv, NEW path, AlertsAt(items, path) # {}
  PROVE  \E a \in Range(alerts) : \E x \in Range(a.instances) :
           /\ WasForwarded(x) /\ x.path = path
           /\ <<"zap", a.plugin>> \in AlertsAt(items, path)
<1>1. PICK f \in Range(items) : /\ \E x \in Range(f.instances) : x.path = path
                                /\ f.id \in AlertsAt(items, path)
  BY DEF AlertsAt
<1>2. PICK x \in Range(f.instances) : x.path = path
  BY <1>1
<1>3. ~IsStatic(f)
  <2> SUFFICES ASSUME IsStatic(f) PROVE FALSE
    OBVIOUS
  <2>1. f.instances = <<>>
    BY DEF IsStatic
  <2>2. DOMAIN f.instances = {}
    BY <2>1
  <2> QED BY <1>2, <2>2 DEF Range
<1>4. alerts \in AlertReports /\ FromZap(f, alerts)
  BY <1>1, <1>3 DEF IntakeInv, ItemsTell, Range
<1>5. PICK p : /\ f.id = <<"zap", p>>
               /\ \A y \in Range(f.instances) :
                    /\ WasForwarded(y)
                    /\ \E n \in DOMAIN alerts : /\ alerts[n].plugin = p
                                                /\ y \in Range(alerts[n].instances)
  BY <1>4 DEF FromZap
<1>6. PICK n \in DOMAIN alerts : alerts[n].plugin = p /\ x \in Range(alerts[n].instances)
  BY <1>2, <1>5
<1>7. alerts[n] \in Range(alerts)
  BY DEF Range
<1>8. WasForwarded(x) /\ <<"zap", alerts[n].plugin>> \in AlertsAt(items, path)
  BY <1>1, <1>2, <1>5, <1>6
<1> QED BY <1>2, <1>6, <1>7, <1>8

\* Without an alert on a path no finding has an instance on it.
LEMMA NoAlertsTell ==
  ASSUME NEW path, AlertsAt(items, path) = {}
  PROVE  \A n \in DOMAIN items : \A x \in Range(items[n].instances) : x.path # path
<1> SUFFICES ASSUME NEW n \in DOMAIN items, NEW x \in Range(items[n].instances),
                    x.path = path
             PROVE  FALSE
  OBVIOUS
<1>1. items[n] \in Range(items)
  BY DEF Range
<1>2. items[n].id \in AlertsAt(items, path)
  BY <1>1 DEF AlertsAt
<1> QED BY <1>2

\* What findings.json says at run time is what the files of the scan show, of the
\* path it names, for any reports, any access log and any routes.
THEOREM EvidenceHolds == Spec => []EvidenceIsObserved
<1>1. IntakeInv => EvidenceIsObserved
  <2> SUFFICES ASSUME IntakeInv, NEW k \in DOMAIN evidence, NEW e, e = evidence[k],
                      NEW route, route = RouteOf[items[k].file]
               PROVE  /\ e.strength = "no_route" <=> route = NoRoute
                      /\ e.strength # "no_route" =>
                           (e.strength \in {"reachable", "reachable_and_alerted"}
                              <=> Reached(k))
                      /\ e.strength \in {"reachable", "reachable_and_alerted"} =>
                           /\ RouteMatches(route, e.observed)
                           /\ \E l \in Traffic : l.path = e.observed /\ l.status \in 200..299
                      /\ e.strength = "reachable" =>
                           \A n \in DOMAIN items : \A x \in Range(items[n].instances) :
                             x.path # e.observed
                      /\ e.strength = "reachable_and_alerted" =>
                           \E a \in Range(alerts) : \E x \in Range(a.instances) :
                             /\ WasForwarded(x) /\ x.path = e.observed
                             /\ <<"zap", a.plugin>> \in e.alerts
    BY DEF EvidenceIsObserved
  <2>1. Correlated
    <3>1. evidence # <<>>
      OBVIOUS
    <3> QED BY <3>1 DEF IntakeInv, EvidenceTells
  <2>2. PICK order \in SetToSeqs(Observed(Traffic)) : e = EvidenceFor(items[k], items, order)
    BY <2>1, CorrelatedTells
  <2>3. accessLog \in AccessLogs \cup {Absent}
    BY DEF IntakeInv, EvidenceTells
  <2>4. /\ e.strength = "no_route" <=> route = NoRoute
        /\ e.strength # "no_route" =>
             (e.strength \in {"reachable", "reachable_and_alerted"} <=> Answered(route))
        /\ e.strength \in {"reachable", "reachable_and_alerted"} =>
             /\ RouteMatches(route, e.observed)
             /\ e.observed \in Observed(Traffic)
             /\ e.alerts = AlertsAt(items, e.observed)
             /\ e.strength = "reachable" <=> AlertsAt(items, e.observed) = {}
    BY <2>2, <2>3, EvidenceForTells
  <2>5. Reached(k) <=> Answered(route)
    BY DEF Reached, Answered
  <2>6. ASSUME e.observed \in Observed(Traffic)
        PROVE  \E l \in Traffic : l.path = e.observed /\ l.status \in 200..299
    <3>1. \A l \in Traffic : l.status \in Int
      BY <2>3, AccessLogsAssumption DEF Traffic
    <3>2. \E l \in Traffic : l.path = e.observed /\ 200 <= l.status /\ l.status < 300
      BY <2>6 DEF Observed
    <3> QED BY <3>1, <3>2
  <2>7. e.strength = "reachable" =>
          \A n \in DOMAIN items : \A x \in Range(items[n].instances) : x.path # e.observed
    BY <2>4, NoAlertsTell
  <2>8. ASSUME e.strength = "reachable_and_alerted"
        PROVE  \E a \in Range(alerts) : \E x \in Range(a.instances) :
                 /\ WasForwarded(x) /\ x.path = e.observed
                 /\ <<"zap", a.plugin>> \in e.alerts
    <3>1. AlertsAt(items, e.observed) # {} /\ e.alerts = AlertsAt(items, e.observed)
      BY <2>4, <2>8
    <3> QED BY <3>1, AlertsTell
  <2> QED BY <2>4, <2>5, <2>6, <2>7, <2>8
<1> QED BY <1>1, IntakeInvariant, PTL

\* What is measured of a group is what the traffic shows of the routes that are
\* known, whichever paths were compared.
LEMMA MeasuredTells ==
  ASSUME IntakeInv, Correlated, NEW members, members \subseteq DOMAIN items,
         NEW routed, routed = Routed(members)
  PROVE  Measured(members) = IF routed = {} THEN NoMeasure
                             ELSE IF \E k \in routed : Reached(k) THEN "proven"
                             ELSE "not_proven"
<1> DEFINE seen == members \cap DOMAIN evidence
           strengths == {evidence[k].strength : k \in seen}
<1>1. accessLog \in AccessLogs \cup {Absent}
  BY DEF IntakeInv, EvidenceTells
<1>2. DOMAIN evidence = {n \in DOMAIN items : items[n].tool # "zap"}
  BY CorrelatedDomain
<1>3. \A k \in seen :
        /\ evidence[k].strength \in {"no_route", "route_known_not_reached", "reachable",
                                     "reachable_and_alerted"}
        /\ evidence[k].strength = "no_route" <=> RouteOf[items[k].file] = NoRoute
        /\ evidence[k].strength # "no_route" =>
             (evidence[k].strength \in {"reachable", "reachable_and_alerted"} <=> Reached(k))
  <2> SUFFICES ASSUME NEW k \in seen
               PROVE  /\ evidence[k].strength \in {"no_route", "route_known_not_reached",
                                                   "reachable", "reachable_and_alerted"}
                      /\ evidence[k].strength = "no_route" <=> RouteOf[items[k].file] = NoRoute
                      /\ evidence[k].strength # "no_route" =>
                           (evidence[k].strength \in {"reachable", "reachable_and_alerted"}
                              <=> Reached(k))
    OBVIOUS
  <2>1. PICK order \in SetToSeqs(Observed(Traffic)) :
          evidence[k] = EvidenceFor(items[k], items, order)
    BY CorrelatedTells
  <2>2. Reached(k) <=> Answered(RouteOf[items[k].file])
    BY DEF Reached, Answered
  <2> QED BY <1>1, <2>1, <2>2, EvidenceForTells
<1>4. routed = {k \in seen : evidence[k].strength # "no_route"}
  BY <1>2, <1>3 DEF Routed
<1>5. Measured(members) =
        IF strengths \cap {"reachable", "reachable_and_alerted"} # {} THEN "proven"
        ELSE IF "route_known_not_reached" \in strengths THEN "not_proven"
        ELSE NoMeasure
  BY DEF Measured
<1>6. strengths \cap {"reachable", "reachable_and_alerted"} # {} <=> \E k \in routed : Reached(k)
  BY <1>3, <1>4
<1>7. "route_known_not_reached" \in strengths <=> \E k \in routed : ~Reached(k)
  BY <1>3, <1>4
<1> HIDE DEF strengths, seen
<1> QED BY <1>5, <1>6, <1>7

\* A published record says of reachability what the traffic shows, where it shows
\* anything, for any claim and any traffic.
THEOREM TrafficDecides == Spec => []MeasurementFollowsTraffic
<1>1. IntakeInv => MeasurementFollowsTraffic
  <2> SUFFICES ASSUME IntakeInv, record # NoClaim,
                      NEW routed, routed = Routed(about)
               PROVE  record.reachability =
                        IF alerts = Absent \/ routed = {} THEN claim.reachability
                        ELSE IF \E k \in routed : Reached(k) THEN "proven" ELSE "not_proven"
    BY DEF MeasurementFollowsTraffic
  <2>1. /\ about \subseteq DOMAIN items
        /\ record = Calibrated(claim, Measured(about))
        /\ alerts = Absent \/ Correlated
    BY DEF IntakeInv, RecordTells
  <2>2. record.reachability = Reachability(claim, Measured(about))
    BY <2>1 DEF Calibrated
  <2>3. CASE alerts = Absent
    <3>1. evidence = <<>>
      BY <2>3 DEF IntakeInv, EvidenceTells
    <3>2. DOMAIN evidence = {}
      BY <3>1
    <3>3. Measured(about) = NoMeasure
      BY <3>2 DEF Measured
    <3> QED BY <2>2, <2>3, <3>3, NoMeasureAssumption DEF Reachability
  <2>4. CASE alerts # Absent
    <3>1. Measured(about) = IF routed = {} THEN NoMeasure
                            ELSE IF \E k \in routed : Reached(k) THEN "proven"
                            ELSE "not_proven"
      BY <2>1, <2>4, MeasuredTells
    <3>2. "proven" \in ProofValues /\ "not_proven" \in ProofValues
      BY DEF ProofValues
    <3> QED BY <2>2, <2>4, <3>1, <3>2, NoMeasureAssumption DEF Reachability
  <2> QED BY <2>3, <2>4
<1> QED BY <1>1, IntakeInvariant, PTL

\* A published record asserts no more than the agent did, but that the group is
\* reachable where the traffic shows it, for any claim and any traffic.
THEOREM OnlyTrafficStrengthens == Spec => []OnlyMeasurementStrengthens
<1>1. IntakeInv /\ MeasurementFollowsTraffic => OnlyMeasurementStrengthens
  <2> DEFINE seen == alerts # Absent /\ \E k \in Routed(about) : Reached(k)
             d == IF seen THEN [claim EXCEPT !.reachability = "proven"] ELSE claim
  <2> SUFFICES ASSUME IntakeInv, MeasurementFollowsTraffic, record # NoClaim
               PROVE  Weaker(record, d)
    BY DEF OnlyMeasurementStrengthens
  <2>1. claim \in Conclusions /\ record = Calibrated(claim, Measured(about))
    BY ClaimsAssumption DEF IntakeInv, RecordTells
  <2>2. record.reachability = Reachability(claim, Measured(about))
    BY <2>1 DEF Calibrated
  <2>3. claim = [disposition     |-> claim.disposition,
                 severity        |-> claim.severity,
                 attackerControl |-> claim.attackerControl,
                 reachability    |-> claim.reachability,
                 denies          |-> claim.denies]
    BY <2>1 DEF Conclusions
  <2>4. d.disposition = claim.disposition /\ d.severity = claim.severity
    BY <2>3
  <2>5. d.reachability = IF seen THEN "proven" ELSE claim.reachability
    BY <2>3
  <2>6. record.reachability = "proven" => seen \/ claim.reachability = "proven"
    BY DEF MeasurementFollowsTraffic
  <2> HIDE DEF d, seen
  <2>7. Reachability(claim, Measured(about)) = "proven" => d.reachability = "proven"
    BY <2>2, <2>5, <2>6
  <2>8. Weaker(Calibrated(claim, Measured(about)), d)
    BY <2>1, <2>4, <2>7, CalibratedIsWeaker
  <2> QED BY <2>1, <2>8
<1> QED BY <1>1, IntakeInvariant, TrafficDecides, PTL

-----------------------------------------------------------------------------
(* Types.                                                                  *)

FlowTypes ==
  /\ threshold \in Thresholds
  /\ raw \in Reports \cup {Absent, Malformed}
  /\ dast \in {"", "done", "skipped"}
  /\ cause # "" => pc = "end"

\* The loops stay within one step of the list.
LoopBounds ==
  /\ merged \in BOOLEAN
  /\ IF stage = "merge" THEN i \in 1..Len(groups) + 1 /\ j \in 2..Len(groups) + 2
                        ELSE i = 1 /\ j = 2

LEMMA FlowTypesStep ==
  ASSUME FromReports, FlowTypes, [Next]_vars
  PROVE  FlowTypes'
<1>1. CASE Scan
  <2>1. raw' \in Reports \cup {Absent, Malformed}
    BY <1>1 DEF Scan, FromReports
  <2>2. pc' = "end" \/ cause' = cause
    BY <1>1 DEF Scan, Fails, GoesOn
  <2> QED BY <1>1, <2>1, <2>2 DEF Scan, FlowTypes, groupingVars
<1>2. CASE NoDast \/ Dast
  <2>1. /\ dast' \in {"done", "skipped"} /\ pc = "dast" /\ cause' = cause
        /\ UNCHANGED <<threshold, raw>>
    BY <1>2 DEF NoDast, Dast, GoesOn, groupingVars
  <2> QED BY <2>1 DEF FlowTypes
<1>3. CASE CommandFails \/ MergeBreaks \/ LoadBreaks
  <2>1. pc' = "end" /\ UNCHANGED <<threshold, raw, dast>>
    BY <1>3 DEF CommandFails, MergeBreaks, LoadBreaks, Fails, groupingVars, scanVars
  <2> QED BY <2>1 DEF FlowTypes
<1>4. CASE NormalizeStatic \/ Merge \/ Correlate \/ Load \/ Settle
  <2>1. /\ UNCHANGED <<threshold, raw, dast>> /\ pc # "end"
        /\ pc' = "end" \/ cause' = cause
    BY <1>4 DEF NormalizeStatic, Merge, Correlate, Load, Settle, Start, Fails, GoesOn,
                groupingVars, scanVars
  <2> QED BY <2>1 DEF FlowTypes
<1>5. CASE Group \/ UNCHANGED vars
  <2>1. UNCHANGED <<pc, cause, threshold, raw, dast>>
    BY <1>5 DEF Group, GroupingStep, PutInBucket, StartMerging, MergeTwo, LeaveApart,
                NextGroup, EndPass, SortGroups, vars, groupingVars, scanVars
  <2> QED BY <2>1 DEF FlowTypes
<1> QED BY <1>1, <1>2, <1>3, <1>4, <1>5 DEF Next

LEMMA LoopBoundsStep ==
  ASSUME IInv, IInv', LoopBounds, [Next]_vars
  PROVE  LoopBounds'
<1> DEFINE n == Len(groups)
<1>1. n \in Nat /\ DOMAIN groups = 1..n
  BY DEF IInv, Sound, IsList
<1>2. Len(groups') \in Nat /\ DOMAIN groups' = 1..Len(groups')
  BY DEF IInv, Sound, IsList
<1>3. CASE stage # "merge" /\ Group
  <2>1. stage' # "idle" /\ UNCHANGED loops
    BY <1>3 DEF Group, GroupingStep, PutInBucket, StartMerging, MergeTwo, LeaveApart,
                NextGroup, EndPass, SortGroups, Looking
  <2>2. i' = 1 /\ j' = 2 /\ merged' \in BOOLEAN
    BY <1>3, <2>1 DEF LoopBounds, loops
  <2> HIDE DEF n
  <2> QED BY <1>2, <2>2 DEF LoopBounds
<1>4. CASE MergeTwo /\ Group
  <2>1. DOMAIN groups' = 1..n - 1 /\ merged' = TRUE /\ i' = i /\ j' = j /\ stage = "merge"
        /\ stage' = stage /\ j <= n /\ i <= n
    BY <1>4 DEF MergeTwo, Looking
  <2>2. n >= 2 /\ i < j
    BY <1>1, <2>1 DEF LoopBounds, IInv, ComparedApart
  <2> HIDE DEF n
  <2>3. Len(groups') = n - 1
    <3>1. n - 1 \in Nat /\ 1..Len(groups') = 1..n - 1
      BY <1>1, <1>2, <2>1, <2>2
    <3>2. Cardinality(1..Len(groups')) = Len(groups')
      BY <1>2, NumbersUpTo
    <3>3. Cardinality(1..n - 1) = n - 1
      BY <3>1, NumbersUpTo
    <3> QED BY <3>1, <3>2, <3>3
  <2>4. i \in 1..n + 1 /\ j \in 2..n + 2
    BY <2>1 DEF LoopBounds, n
  <2>5. i \in 1..n - 1 + 1 /\ j \in 2..n - 1 + 2
    BY <1>1, <2>1, <2>2, <2>4
  <2> QED BY <2>1, <2>3, <2>5 DEF LoopBounds
<1>5. CASE (LeaveApart \/ NextGroup \/ EndPass) /\ Group
  <2>1. /\ groups' = groups /\ stage = "merge" /\ merged' \in BOOLEAN
        /\ stage' \in {"merge", "sort"}
        /\ \/ i <= n /\ j <= n /\ i' = i /\ j' = j + 1 /\ stage' = "merge"
           \/ i <= n /\ i' = i + 1 /\ j' = i + 2 /\ stage' = "merge"
           \/ i' = 1 /\ j' = 2
    BY <1>5 DEF LeaveApart, NextGroup, EndPass, Looking, LoopBounds
  <2>2. i \in 1..n + 1 /\ j \in 2..n + 2
    BY <2>1 DEF LoopBounds
  <2> HIDE DEF n
  <2>3. (i' \in 1..n + 1 /\ j' \in 2..n + 2 /\ stage' = "merge") \/ (i' = 1 /\ j' = 2)
    BY <1>1, <2>1, <2>2
  <2>4. 1 \in 1..n + 1 /\ 2 \in 2..n + 2
    BY <1>1
  <2> QED BY <2>1, <2>3, <2>4 DEF LoopBounds, n
<1>6. CASE ~Group
  <2>1. UNCHANGED loops
    BY <1>6 DEF Next, vars, Scan, CommandFails, NoDast, Dast, NormalizeStatic, Merge,
                MergeBreaks, Correlate, Load, LoadBreaks, Settle, Start, groupingVars
  <2>2. (UNCHANGED <<stage, groups>>) \/ (stage = "idle" /\ stage' = "bucket")
    BY <1>6 DEF Next, vars, Scan, CommandFails, NoDast, Dast, NormalizeStatic, Merge,
                MergeBreaks, Correlate, Load, LoadBreaks, Settle, Start, groupingVars
  <2> QED BY <2>1, <2>2 DEF LoopBounds, loops
<1>7. Group => stage # "merge" \/ MergeTwo \/ LeaveApart \/ NextGroup \/ EndPass
  BY DEF Group, GroupingStep, PutInBucket, StartMerging, SortGroups
<1> QED BY <1>3, <1>4, <1>5, <1>6, <1>7

\* There are no more groups than findings, as each has a lead of its own.
LEMMA FewGroups == ASSUME IInv PROVE Len(groups) <= placed
<1> DEFINE lead == [g \in DOMAIN groups |-> groups[g].lead]
<1>1. /\ DOMAIN groups = 1..Len(groups) /\ Len(groups) \in Nat /\ placed \in Nat
      /\ \A g \in DOMAIN groups : groups[g].lead \in groups[g].members
                                    /\ groups[g].members \subseteq 1..placed
      /\ \A g, h \in DOMAIN groups : g # h => groups[g].members \cap groups[h].members = {}
  BY DEF IInv, Sound, IsList, Members, Disjoint, Stages
<1>2. lead \in [DOMAIN groups -> 1..placed]
  BY <1>1
<1>3. \A g, h \in DOMAIN groups : lead[g] = lead[h] => g = h
  BY <1>1
<1>4. DOMAIN lead = DOMAIN groups
  OBVIOUS
<1> HIDE DEF lead
<1>5. lead \in Injection(DOMAIN groups, 1..placed)
  BY <1>2, <1>3, <1>4 DEF Injection, IsInjective
<1>6. IsFiniteSet(1..placed) /\ Cardinality(1..placed) = placed
  BY <1>1, FS_Interval, 1 \in Int
<1>7. Cardinality(DOMAIN groups) <= placed
  BY <1>5, <1>6, FS_Injection
<1>8. Cardinality(1..Len(groups)) = Len(groups)
  BY <1>1, FS_Interval, 1 \in Int
<1> QED BY <1>1, <1>7, <1>8

LEMMA CalibratedType ==
  ASSUME NEW c \in Conclusions, NEW m
  PROVE  Calibrated(c, m) \in Conclusions
<1>1. /\ c.disposition \in Dispositions /\ c.severity \in DOMAIN SeverityOrder
      /\ c.attackerControl \in ProofValues /\ c.reachability \in ProofValues
      /\ c.denies \in BOOLEAN
  BY DEF Conclusions
<1>2. Disposition(c, m) \in Dispositions
  BY <1>1 DEF Disposition, Dispositions
<1>3. AttackerControl(c) \in ProofValues /\ Reachability(c, m) \in ProofValues
  BY <1>1 DEF AttackerControl, Reachability, ProofValues
<1>4. Severity(c, m) \in DOMAIN SeverityOrder
  <2> DEFINE ceiling == SeverityCeiling[Disposition(c, m)]
             capped == Cap(c.severity, ceiling)
  <2>1. ceiling \in DOMAIN SeverityOrder /\ "medium" \in DOMAIN SeverityOrder
    BY <1>2 DEF Dispositions, SeverityCeiling, SeverityOrder
  <2>2. Severity(c, m) = (IF AttackerControl(c) = "not_proven"
                          THEN Cap(capped, "medium") ELSE capped)
    BY DEF Severity
  <2> HIDE DEF ceiling
  <2>3. capped \in DOMAIN SeverityOrder
    BY <1>1, <2>1, CapLowers
  <2> HIDE DEF capped
  <2>4. Cap(capped, "medium") \in DOMAIN SeverityOrder
    BY <2>1, <2>3, CapLowers
  <2> QED BY <2>2, <2>3, <2>4
<1> QED BY <1>1, <1>2, <1>3, <1>4 DEF Calibrated, Conclusions

\* The types of the variables, with the bounds of the loops and of the list.
THEOREM IntakeTypes == Spec => []TypeOK
<1> DEFINE Inv == IntakeInv /\ FlowTypes /\ LoopBounds
<1>1. Init => Inv
  <2> SUFFICES ASSUME Init PROVE FlowTypes /\ LoopBounds
    BY IntakeInit
  <2>1. FlowTypes
    BY DEF Init, GroupingInit, FlowTypes
  <2>2. LoopBounds
    BY DEF Init, GroupingInit, LoopBounds
  <2> QED BY <2>1, <2>2
<1>2. Inv /\ [Next]_vars => Inv'
  <2> SUFFICES ASSUME Inv, [Next]_vars PROVE Inv'
    OBVIOUS
  <2>1. IntakeInv'
    BY IntakeStep
  <2>2. FlowTypes' /\ LoopBounds'
    BY <2>1, FlowTypesStep, LoopBoundsStep DEF IntakeInv
  <2> QED BY <2>1, <2>2
<1>3. Inv => TypeOK
  <2> SUFFICES ASSUME Inv PROVE TypeOK
    OBVIOUS
  <2>1. /\ stage \in {"idle", "bucket", "merge", "sort", "done"}
        /\ threshold \in Thresholds /\ WellFormed
        /\ \A g \in DOMAIN groups : groups[g].lead \in groups[g].members
        /\ raw \in Reports \cup {Absent, Malformed}
        /\ dast \in {"", "done", "skipped"}
        /\ cause # "" => pc = "end"
    BY DEF IntakeInv, IInv, Stages, Sound, Members, FlowTypes
  <2>2. Len(findings) \in Nat /\ placed \in Nat /\ placed <= Len(findings)
    BY DEF IntakeInv, IInv, Stages, WellFormed
  <2>3. i \in 1..Len(findings) + 1 /\ j \in 2..Len(findings) + 2 /\ merged \in BOOLEAN
    <3>1. Len(groups) \in Nat /\ Len(groups) <= Len(findings)
      BY <2>2, FewGroups DEF IntakeInv, IInv, Sound, IsList
    <3>2. CASE stage = "merge"
      <4>1. i \in 1..Len(groups) + 1 /\ j \in 2..Len(groups) + 2
        BY <3>2 DEF LoopBounds
      <4> QED BY <2>2, <3>1, <4>1 DEF LoopBounds
    <3>3. CASE stage # "merge"
      BY <2>2, <3>3 DEF LoopBounds
    <3> QED BY <3>2, <3>3
  <2>4. DOMAIN evidence \subseteq DOMAIN items
    <3>1. CASE evidence = <<>>
      <4>1. DOMAIN evidence = {}
        BY <3>1
      <4> QED BY <4>1
    <3>2. CASE Correlated
      BY <3>2, CorrelatedDomain
    <3> QED BY <3>1, <3>2 DEF IntakeInv, EvidenceTells
  <2>5. record # NoClaim => record \in Conclusions
    BY ClaimsAssumption, CalibratedType DEF IntakeInv, RecordTells
  <2>6. placed \in 0..Len(findings)
    BY <2>2
  <2> QED BY <2>1, <2>3, <2>4, <2>5, <2>6 DEF TypeOK
<1> HIDE DEF Inv
<1> QED BY <1>1, <1>2, <1>3, PTL DEF Spec

=============================================================================
