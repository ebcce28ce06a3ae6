------------------------------- MODULE Authz -------------------------------
(***************************************************************************)
(* Who may do what: the matrix of libs/go-shared/authz, the route guard    *)
(* over it, and the scopes that narrow an API key (libs/go-shared/auth).   *)
(* A permission is <<resource, action>>; one that has no row is denied.    *)
(***************************************************************************)
EXTENDS Naturals

Roles == {"viewer", "analyst", "admin", "owner"}

rank(role) ==
  CASE role = "viewer" -> 1 [] role = "analyst" -> 2
    [] role = "admin" -> 3 [] role = "owner" -> 4 [] OTHER -> 0

\* May this actor grant that role to somebody?
RoleAtLeast(actor, want) == rank(actor) >= rank(want) /\ rank(actor) > 0

\* The rows of the matrix, by the least role they ask for.
ViewerRows ==
  ({"project", "scan", "dependency", "finding", "report", "campaign"} \X {"read", "list"})
  \cup ({"tenant", "practices", "repo_connection", "upload", "web_source", "hardware",
         "quantum_device", "vex", "csaf"} \X {"read"})
  \cup ({"comment"} \X {"read", "create", "update", "delete"})
  \cup {<<"engine", "list">>, <<"crypto_asset", "list">>, <<"report", "download">>,
        <<"ai_model", "list">>, <<"ai_model", "read">>}
AnalystRows ==
  ({"project", "campaign"} \X {"create", "update"})
  \cup ({"upload", "web_source", "hardware", "quantum_device", "csaf"} \X {"create"})
  \cup ({"repo_connection"} \X {"create", "delete", "list"})
  \cup ({"practices", "ai_model"} \X {"update"})
  \cup {<<"scan", "run">>, <<"scan", "cancel">>, <<"vex", "triage">>,
        <<"share_link", "share">>, <<"share_link", "delete">>,
        <<"campaign", "delete">>, <<"campaign", "run">>}
AdminRows ==
  ({"member"} \X {"list", "invite", "update", "delete"})
  \cup ({"audit_log"} \X {"list", "read"})
  \cup {<<"project", "delete">>, <<"scan", "delete">>,
        <<"project", "enable_risky_resolution">>, <<"engine", "configure_engines">>}
OwnerRows ==
  ({"tenant"} \X {"update", "delete"}) \cup ({"api_key"} \X {"list", "create", "delete"})

\* The least rank a permission asks for; 5, which nobody has, without a row.
matrix(perm) ==
  CASE perm \in ViewerRows -> 1 [] perm \in AnalystRows -> 2
    [] perm \in AdminRows -> 3 [] perm \in OwnerRows -> 4 [] OTHER -> 5

Allow(role, perm) == role \in Roles /\ rank(role) >= matrix(perm)

\* The permission each scope of an API key stands for.
Permission(scope) ==
  CASE scope = "scan:run" -> <<"scan", "run">>
    [] scope = "scan:read" -> <<"scan", "read">>
    [] scope = "report:read" -> <<"report", "read">>
    [] scope = "report:download" -> <<"report", "download">>
    [] scope = "project:read" -> <<"project", "read">>
    [] scope = "finding:read" -> <<"finding", "read">>
    [] scope = "vex:triage" -> <<"vex", "triage">>

\* Slip: a scope covers its whole resource.
scopePermitsResource(scopes, perm) == \E s \in scopes : Permission(s)[1] = perm[1]

scopePermits(scopes, perm) == \E s \in scopes : Permission(s) = perm

\* The middleware: the role's row, then the key's scopes if it is a key (a
\* request without scopes is a person's).
Authorize(role, scopes, perm) ==
  /\ Allow(role, perm)
  /\ scopes # {} => scopePermits(scopes, perm)
=============================================================================
