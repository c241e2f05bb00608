--------------------------- MODULE GatewayPolicy ---------------------------
(***************************************************************************)
(* The two policies a probe has to pass, which share no code: the client   *)
(* reads configs/gateway/endpoint-allowlist.json, and the Gateway enforces *)
(* maps that were copied from such a file into its Nginx template by hand. *)
(*                                                                         *)
(* A registry is what the file says: a sequence of endpoints, each with    *)
(* its methods and the identifiers of its templates, and a sequence of     *)
(* templates.  A body is named by the kind of its payload.                 *)
(***************************************************************************)
EXTENDS Integers, Sequences, Functions

CONSTANT
  QueryPaths   \* the paths with a "?" or a "#" in them

Methods == {"GET", "POST"}

\* PAYLOAD_KIND_TO_TYPE, and the length of {"value": ...} for each kind.
SafeKinds == {"long_string", "special_chars", "empty_value", "wrong_type"}

NoPayload == "none"

BodyLength(kind) ==
  CASE kind = NoPayload -> 0
    [] kind = "empty_value" -> 13
    [] kind = "wrong_type" -> 16
    [] kind = "special_chars" -> 29
    [] kind = "long_string" -> 1037

-----------------------------------------------------------------------------
(* The client: gateway/allowlist.py.                                       *)

Identifiers(s) == {s[i].id : i \in DOMAIN s}

TemplateOf(reg, id) == CHOOSE t \in Range(reg.templates) : t.id = id

\* Allowlist.from_json takes the file: nothing is empty, no identifier occurs
\* twice, methods are known, and every template an endpoint names is there.
Readable(reg) ==
  /\ reg.endpoints # <<>>
  /\ \A s \in {reg.endpoints, reg.templates} :
       \A i, j \in DOMAIN s : s[i].id = s[j].id => i = j
  /\ \A t \in Range(reg.templates) : t.method \in Methods
  /\ \A e \in Range(reg.endpoints) :
       /\ e.methods # {} /\ e.methods \subseteq Methods
       /\ e.templates # <<>>
       /\ Range(e.templates) \subseteq Identifiers(reg.templates)

\* The rules for a method and a path.
Rules(reg, method, path) ==
  {e \in Range(reg.endpoints) : method \in e.methods /\ e.path = path}

\* Faulty variant of Resolved: the template of the method will do, whatever the
\* payload.
ResolvedByMethod(reg, method, path, kind) ==
  {id \in UNION {Range(e.templates) : e \in Rules(reg, method, path)} :
     TemplateOf(reg, id).method = method}

\* The templates named for that method and path that are for that method and
\* that payload.  resolve_template takes the first; any of them will do.
Resolved(reg, method, path, kind) ==
  {id \in UNION {Range(e.templates) : e \in Rules(reg, method, path)} :
     TemplateOf(reg, id).method = method /\ TemplateOf(reg, id).kind = kind}

\* is_allowed without template: some rule has that method and path.
IsAllowed(reg, method, path) ==
  path \notin QueryPaths /\ Rules(reg, method, path) # {}

\* is_allowed with enforce_template.
IsReviewed(reg, method, path, kind) ==
  IsAllowed(reg, method, path) /\ Resolved(reg, method, path, kind) # {}

-----------------------------------------------------------------------------
(* The Gateway: the listener of the probe lane in default.conf.template.   *)
(* The registry its maps were copied from stands for the maps.             *)

Locations(maps, path) == {e \in Range(maps.endpoints) : e.path = path}

\* What the location of the path accepts: its methods, and the map of its
\* templates.
LocationMethods(maps, path) == UNION {e.methods : e \in Locations(maps, path)}

LocationTemplates(maps, path) ==
  UNION {Range(e.templates) : e \in Locations(maps, path)}

\* Faulty variant of LengthFits: any body may follow the name of a template.
LengthUnchecked(maps, request) == TRUE

\* $sentinel_body_len_ok
LengthFits(maps, request) ==
  BodyLength(request.body) = BodyLength(TemplateOf(maps, request.template).kind)

\* The status the rewrite phase answers with, check by check, or "pass".
Screen(maps, keyKnown, request) ==
  IF Locations(maps, request.path) = {} THEN "403"
  ELSE IF ~keyKnown THEN "401"
  ELSE IF request.method \notin LocationMethods(maps, request.path) THEN "405"
  ELSE IF /\ request.template \in LocationTemplates(maps, request.path)
          /\ TemplateOf(maps, request.template).method = request.method
          /\ LengthFits(maps, request)
       THEN "pass" ELSE "403"

\* What the application gets: the canonical body of the template, not the
\* caller's.
Forwarded(maps, request) ==
  [method |-> request.method, path |-> request.path,
   body |-> TemplateOf(maps, request.template).kind]

=============================================================================
