---------------------------- MODULE MCProbeFlow ----------------------------
(* An instance of ProbeFlow for TLC: two endpoints of the registry, its     *)
(* templates, and the ways a hand may change them.                          *)
EXTENDS ProbeFlow, TLC

MCQueryPaths == {"/attack?q"}

Login == [id |-> "login", path |-> "/login", methods |-> {"GET"},
          templates |-> <<"login_get">>]

Attack(ids) == [id |-> "attack", path |-> "/attack", methods |-> {"GET", "POST"},
                templates |-> ids]

Get(t) == [id |-> t, method |-> "GET", kind |-> NoPayload]
Post(t, k) == [id |-> t, method |-> "POST", kind |-> k]

File(ids, templates) ==
  [endpoints |-> <<Login, Attack(ids)>>,
   templates |-> <<Get("login_get"), Get("attack_get")>> \o templates]

\* As it is kept; without the long string; with the identifiers of the two
\* payloads exchanged; and with a template named that is not there.
MCRegistries ==
  LET both == <<Post("post_empty", "empty_value"), Post("post_long", "long_string")>>
      all  == <<"attack_get", "post_empty", "post_long">>
  IN {File(all, both),
      File(<<"attack_get", "post_empty">>, both),
      File(all, <<Post("post_empty", "long_string"), Post("post_long", "empty_value")>>),
      File(all, <<Post("post_empty", "empty_value")>>)}

Objective(method, path, kind, declares) ==
  [complete |-> TRUE, method |-> method, path |-> path, kind |-> kind,
   declares |-> declares]

Finding(id, o, names) == [id |-> id, objective |-> o, names |-> names]

Empty(declares) == Objective("POST", "/attack", "empty_value", declares)
Long == Objective("POST", "/attack", "long_string", TRUE)
Unknown == Objective("POST", "/attack", "special_chars", TRUE)
WithQuery == Objective("POST", "/attack?q", "empty_value", TRUE)

MCAnalyses ==
  {<<Finding("a", Unknown, {"/attack"}), Finding("b", Long, {"/attack"})>>,
   <<Finding("a", Long, {"/attack"}), Finding("b", Empty(TRUE), {"/attack"})>>,
   <<Finding("a", NoObjective, {}), Finding("b", Empty(TRUE), {"/login"})>>,
   <<Finding("a", Empty(FALSE), {"/attack"})>>,
   <<Finding("a", WithQuery, {"/attack"})>>,
   <<Finding("a", Unknown, {"/attack"}), Finding("a", Empty(TRUE), {})>>}

MCOverrides == {Long}

MCProbes ==
  {[method |-> "GET", path |-> "/attack", kind |-> NoPayload],
   [method |-> "POST", path |-> "/attack", kind |-> "long_string"],
   [method |-> "POST", path |-> "/attack", kind |-> "no such kind"],
   [method |-> "GET", path |-> "/login", kind |-> "empty_value"]}

=============================================================================
