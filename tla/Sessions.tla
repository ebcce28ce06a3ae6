------------------------------ MODULE Sessions ------------------------------
(***************************************************************************)
(* services/auth: accounts, tenants, invitations, the refresh-token chains *)
(* and the API keys.                                                       *)
(*                                                                         *)
(* A request is a process: each of its database calls is one step, so what *)
(* it read may be stale when it writes, and it may die between two calls.  *)
(* A user is his e-mail address (auth.users.email is UNIQUE and no code    *)
(* changes it); a session is its place in the table, and the token that    *)
(* names it is presented by whoever holds a copy, as often as he likes.    *)
(***************************************************************************)
EXTENDS Authz, Sequences, FiniteSets

CONSTANTS
  Emails,       \* addresses people sign up, sign in or are invited with
  GitHubIds,    \* numeric GitHub accounts
  Tenants,      \* tenant ids, handed out as 1, 2, ...
  Invites,      \* invitations people write: a set of [tenant, email, role]
  Keys,         \* ids of API keys
  KeyScopes,    \* scopes a key is minted with
  Asked,        \* permissions of the routes a key is tried on
  Requests,     \* requests in flight at once
  None,
  MaxSessions,  \* rows of auth.sessions
  MaxRequests   \* requests, in all

ASSUME ConstantsAssumption ==
  /\ Tenants \in SUBSET Nat /\ MaxSessions \in Nat /\ MaxRequests \in Nat
  /\ \A i \in Invites : i.tenant \in Tenants /\ i.email \in Emails /\ i.role \in Roles
  /\ None \notin Emails \cup GitHubIds \cup Tenants

VARIABLES
  users,     \* auth.users: None, or whether there is a password and the linked GitHub id
  members,   \* auth.memberships: the role of each <<tenant, email>>, or None
  invites,   \* auth.invitations: its state, and how often it was accepted
  sessions,  \* auth.sessions, oldest first
  keys,      \* auth.api_keys
  req,       \* the requests in flight
  \* History: families with two refreshes of one token under way at once;
  \* families caught in reuse while no rotation was under way.
  raced, caught,
  arrived    \* requests so far

tables == <<users, members, invites, sessions, keys>>
vars == <<tables, req, raced, caught, arrived>>

NoUser == [password |-> FALSE, github |-> None, there |-> FALSE]
Idle == [op |-> "none", pc |-> "idle", email |-> None, github |-> None, tenant |-> None,
         role |-> None, of |-> None]

Init ==
  /\ users = [e \in Emails |-> NoUser]
  /\ members = [m \in Tenants \X Emails |-> None]
  /\ invites = [i \in Invites |-> [state |-> "none", uses |-> 0]]
  /\ sessions = << >>
  /\ keys = [k \in Keys |-> [scopes |-> {}, state |-> "none"]]
  /\ req = [q \in Requests |-> Idle]
  /\ raced = {} /\ caught = {} /\ arrived = 0

(***************************************************************************)
(* Store                                                                   *)
(***************************************************************************)
FindUserByEmail(e) == users[e].there
FindUserByGitHubID(g) == {e \in Emails : users[e].github = g}
MembershipsForUser(e) == {t \in Tenants : members[<<t, e>>] # None}

\* slugCandidate, insertTenant: a name that is taken gets another slug.
Founded == {t \in Tenants : \E e \in Emails : members[<<t, e>>] # None}
Live(s) == ~ sessions[s].revoked

\* IssueAccess: the claims of the access token that goes with a session.
Claims(tenant, email, role) == [tenant |-> tenant, email |-> email, role |-> role]

\* rotateRefreshToken: a token of a family, good until it is revoked.
RefreshToken(claims, family) ==
  [tenant |-> claims.tenant, email |-> claims.email, role |-> claims.role,
   family |-> family, revoked |-> FALSE]

\* CreateSession; the row stands for both tokens.
Insert(ss, claims, family) == Append(ss, RefreshToken(claims, family))

Move(q, r) == req' = [req EXCEPT ![q] = r]
Goto(q, label) == Move(q, [req[q] EXCEPT !.pc = label])
Fail(q) == Move(q, Idle)

(***************************************************************************)
(* HTTP handlers: a request arrives                                        *)
(***************************************************************************)
Arrive(q, r) ==
  /\ req[q].pc = "idle" /\ arrived < MaxRequests
  /\ Move(q, r) /\ arrived' = arrived + 1
  /\ UNCHANGED <<tables, raced, caught>>

Register(q, e) == Arrive(q, [Idle EXCEPT !.op = "register", !.pc = "find", !.email = e])
Login(q, e) == Arrive(q, [Idle EXCEPT !.op = "login", !.pc = "find", !.email = e])

\* The state cookie matched and GitHub named the account and a verified address.
GitHubCallback(q, g, e) ==
  Arrive(q, [Idle EXCEPT !.op = "github", !.pc = "findgh", !.github = g, !.email = e])

\* InvitationByTokenHash and Usable: a used or expired token is turned away.
Usable(i) == invites[i].state = "pending"

AcceptInvite(q, i) ==
  /\ Usable(i)
  /\ Arrive(q, [Idle EXCEPT !.op = "accept", !.pc = "find", !.email = i.email,
                            !.tenant = i.tenant, !.role = i.role, !.of = i])

\* Service.CreateInvite, its checks: nobody invites above his own role.
Invitable(i, by) == RoleAtLeast(members[<<i.tenant, by>>], i.role)

\* Handler.CreateInvite and CreateInvitation. (The route in front of it asks for
\* member:create, a row the matrix does not have.)
CreateInvite(i, by) ==
  /\ invites[i].state = "none" /\ Invitable(i, by)
  /\ invites' = [invites EXCEPT ![i].state = "pending"]
  /\ UNCHANGED <<users, members, sessions, keys, req, raced, caught, arrived>>

(***************************************************************************)
(* Service: accounts                                                       *)
(***************************************************************************)
\* Where each flow goes once it has looked for the account.
RegisterNext(found) == IF found THEN "idle" ELSE "create"

LoginNext(found) == IF found THEN "select" ELSE "idle"

AcceptNext(found) == IF found THEN "accept" ELSE "create"

GitHubNext(found) == IF found THEN "link" ELSE "create"

AfterFind(op, found) ==
  CASE op = "register" -> RegisterNext(found) [] op = "login" -> LoginNext(found)
    [] op = "accept" -> AcceptNext(found) [] op = "github" -> GitHubNext(found)

\* A login needs a password that is there.
FindUser(q) ==
  /\ req[q].pc = "find"
  /\ LET e == req[q].email
         found == FindUserByEmail(e) /\ (req[q].op = "login" => users[e].password)
         next == AfterFind(req[q].op, found)
     IN IF next = "idle" THEN Fail(q) ELSE Goto(q, next)
  /\ UNCHANGED <<tables, raced, caught, arrived>>

\* resolveGitHubUser: by the numeric id first, whatever the address is now.
ResolveGitHubUser(q) ==
  /\ req[q].pc = "findgh"
  /\ LET known == FindUserByGitHubID(req[q].github)
     IN IF known = {} THEN Goto(q, "find")
        ELSE \E e \in known : Move(q, [req[q] EXCEPT !.pc = "select", !.email = e])
  /\ UNCHANGED <<tables, raced, caught, arrived>>

\* Slip: the UPDATE without its github_user_id IS NULL OR = $2.
LinkAnyway(q) ==
  /\ req[q].pc = "link"
  /\ users' = [users EXCEPT ![req[q].email].github = req[q].github]
  /\ Goto(q, "select")
  /\ UNCHANGED <<members, invites, sessions, keys, raced, caught, arrived>>

\* LinkGitHubIdentity: not over another link, and not a second account's.
LinkGitHubIdentity(q) ==
  /\ req[q].pc = "link"
  /\ LET e == req[q].email
         g == req[q].github
     IN IF users[e].github \in {None, g} /\ FindUserByGitHubID(g) \subseteq {e}
          THEN users' = [users EXCEPT ![e].github = g] /\ Goto(q, "select")
          ELSE Fail(q) /\ UNCHANGED users
  /\ UNCHANGED <<members, invites, sessions, keys, raced, caught, arrived>>

\* CreateUser: UNIQUE on the address and on the GitHub id.
CreateUser(q) ==
  /\ req[q].pc = "create"
  /\ LET e == req[q].email
         g == req[q].github
     IN IF users[e].there \/ (g # None /\ FindUserByGitHubID(g) # {})
          THEN Fail(q) /\ UNCHANGED users
          ELSE /\ users' = [users EXCEPT ![e] =
                     [password |-> g = None, github |-> g, there |-> TRUE]]
               /\ Goto(q, CASE req[q].op = "register" -> "tenant"
                            [] req[q].op = "accept" -> "accept"
                            [] req[q].op = "github" -> "select")
  /\ UNCHANGED <<members, invites, sessions, keys, raced, caught, arrived>>

Grant(t, e, role) == members' = [members EXCEPT ![<<t, e>>] = role]

\* CreateTenantWithOwner: the tenant and its owner in one transaction. A name
\* that is taken gets another slug, so no sign-up fails over it.
CreateTenantWithOwner(q) ==
  /\ req[q].pc = "tenant"
  /\ \E t \in Tenants :
       /\ t = Cardinality(Founded) + 1
       /\ Grant(t, req[q].email, "owner")
       /\ Move(q, [req[q] EXCEPT !.pc = "issue", !.tenant = t, !.role = "owner"])
  /\ UNCHANGED <<users, invites, sessions, keys, raced, caught, arrived>>

\* selectMembership: the tenant asked for, or the first.
SelectMembership(q) ==
  /\ req[q].pc = "select"
  /\ LET of == MembershipsForUser(req[q].email)
     IN \/ of = {} /\ Fail(q)
        \/ \E t \in of : Move(q, [req[q] EXCEPT !.pc = "issue", !.tenant = t,
                                                !.role = members[<<t, req[q].email>>]])
  /\ UNCHANGED <<tables, raced, caught, arrived>>

\* Slip: the invitation was usable when it was looked up.
AcceptUsable(q) ==
  /\ req[q].pc = "accept"
  /\ Grant(req[q].tenant, req[q].email, req[q].role)
  /\ invites' = [invites EXCEPT ![req[q].of] = [state |-> "accepted", uses |-> @.uses + 1]]
  /\ Goto(q, "issue")
  /\ UNCHANGED <<users, sessions, keys, raced, caught, arrived>>

\* auth.accept_invitation: the row is locked and looked at again; a member who
\* is there already takes the role of the invitation.
AcceptInvitation(q) ==
  /\ req[q].pc = "accept"
  /\ IF Usable(req[q].of)
       THEN /\ Grant(req[q].tenant, req[q].email, req[q].role)
            /\ invites' = [invites EXCEPT ![req[q].of] =
                             [state |-> "accepted", uses |-> @.uses + 1]]
            /\ Goto(q, "issue")
       ELSE Fail(q) /\ UNCHANGED <<members, invites>>
  /\ UNCHANGED <<users, sessions, keys, raced, caught, arrived>>

(***************************************************************************)
(* Service: sessions                                                       *)
(***************************************************************************)
\* issueFor: a session in a family of its own, and an access token over it.
IssueFor(q) ==
  /\ req[q].pc = "issue" /\ Len(sessions) < MaxSessions
  /\ sessions' = Insert(sessions, Claims(req[q].tenant, req[q].email, req[q].role), Len(sessions) + 1)
  /\ Fail(q)
  /\ UNCHANGED <<users, members, invites, keys, raced, caught, arrived>>

Rotating(f) ==
  {q \in Requests : req[q].pc = "rotate" /\ sessions[req[q].of].family = f}

\* SessionByRefreshHash: the session, with the role its membership has now.
SessionByRefreshHash(r, s) ==
  [r EXCEPT !.of = s, !.role = members[<<sessions[s].tenant, sessions[s].email>>]]

\* Service.Refresh: a token that was revoked is reuse. A token that has only
\* expired is an error that changes nothing, like a refresh nobody sends.
RefreshNext(s) == IF Live(s) THEN "rotate" ELSE "reuse"

\* Handler.Refresh.
Refresh(q, s) ==
  /\ req[q].pc = "idle" /\ arrived < MaxRequests /\ arrived' = arrived + 1
  /\ Move(q, SessionByRefreshHash([Idle EXCEPT !.op = "refresh", !.pc = RefreshNext(s)], s))
  /\ raced' = IF Live(s) /\ Rotating(sessions[s].family) # {}
                THEN raced \cup {sessions[s].family} ELSE raced
  /\ UNCHANGED <<tables, caught>>

\* RevokeSessionFamily.
RevokeSessionFamily(q) ==
  /\ req[q].pc = "reuse"
  /\ LET f == sessions[req[q].of].family
     IN /\ sessions' = [s \in DOMAIN sessions |-> [sessions[s] EXCEPT
                          !.revoked = @ \/ sessions[s].family = f]]
        /\ caught' = IF Rotating(f) = {} THEN caught \cup {f} ELSE caught
  /\ Fail(q)
  /\ UNCHANGED <<users, members, invites, keys, raced, arrived>>

\* Slip: the successor is stored and the presented session left as it was.
RotateByInsert(q) ==
  /\ req[q].pc = "rotate" /\ Len(sessions) < MaxSessions
  /\ LET s == sessions[req[q].of]
     IN sessions' = Insert(sessions, Claims(s.tenant, s.email, req[q].role), s.family)
  /\ Fail(q)
  /\ UNCHANGED <<users, members, invites, keys, raced, caught, arrived>>

\* RotateSession: revoke by id, whatever the row says by now, and insert.
RotateSession(q) ==
  /\ req[q].pc = "rotate" /\ Len(sessions) < MaxSessions
  /\ LET s == sessions[req[q].of]
     IN sessions' = Insert([sessions EXCEPT ![req[q].of].revoked = TRUE],
                           Claims(s.tenant, s.email, req[q].role), s.family)
  /\ Fail(q)
  /\ UNCHANGED <<users, members, invites, keys, raced, caught, arrived>>

\* Logout revokes the session its access token names, and that one alone.
Logout(s) ==
  /\ Live(s)
  /\ sessions' = [sessions EXCEPT ![s].revoked = TRUE]
  /\ UNCHANGED <<users, members, invites, keys, req, raced, caught, arrived>>

\* A database call fails or the instance dies; what was committed stays.
Abandon(q) ==
  /\ req[q].pc # "idle"
  /\ Fail(q)
  /\ UNCHANGED <<tables, raced, caught, arrived>>

(***************************************************************************)
(* API keys                                                                *)
(***************************************************************************)
\* Mint: at least one scope, all of them known.
Mint(scopes) == [scopes |-> scopes, state |-> "active"]

CreateAPIKey(k, scopes, role) ==
  /\ Authorize(role, {}, <<"api_key", "create">>)
  /\ keys[k].state = "none" /\ scopes # {}
  /\ keys' = [keys EXCEPT ![k] = Mint(scopes)]
  /\ UNCHANGED <<users, members, invites, sessions, req, raced, caught, arrived>>

\* RevokeAPIKey restamps a revoked key; a key past its TTL verifies no more.
RetireAPIKey(k, role) ==
  /\ Authorize(role, {}, <<"api_key", "delete">>)
  /\ keys[k].state = "active"
  /\ keys' = [keys EXCEPT ![k].state = "retired"]
  /\ UNCHANGED <<users, members, invites, sessions, req, raced, caught, arrived>>

\* lookupAPIKey and Verify: the secret matches the row, which is active.
Verify(k) == keys[k].state = "active"

\* authenticateAPIKey: the role of a key is analyst.
AuthenticateAPIKey(q, k) ==
  /\ Verify(k)
  /\ Arrive(q, [Idle EXCEPT !.op = "key", !.pc = "guard", !.role = "analyst", !.of = k])

\* The route's guard lets the key through to the handler of perm.
KeyPasses(q, perm) ==
  /\ req[q].pc = "guard"
  /\ Authorize(req[q].role, keys[req[q].of].scopes, perm)
  /\ Move(q, [req[q] EXCEPT !.pc = "handler", !.email = perm])
  /\ UNCHANGED <<tables, raced, caught, arrived>>

-----------------------------------------------------------------------------
Step(q) ==
  \/ FindUser(q) \/ ResolveGitHubUser(q) \/ LinkGitHubIdentity(q) \/ CreateUser(q)
  \/ CreateTenantWithOwner(q) \/ SelectMembership(q) \/ AcceptInvitation(q)
  \/ IssueFor(q) \/ RevokeSessionFamily(q) \/ RotateSession(q) \/ Abandon(q)
  \/ \E perm \in Asked : KeyPasses(q, perm)

Next ==
  \/ \E q \in Requests :
       \/ Step(q)
       \/ \E e \in Emails : Register(q, e) \/ Login(q, e)
       \/ \E e \in Emails, g \in GitHubIds : GitHubCallback(q, g, e)
       \/ \E i \in Invites : AcceptInvite(q, i)
       \/ \E s \in DOMAIN sessions : Refresh(q, s)
       \/ \E k \in Keys : AuthenticateAPIKey(q, k)
  \/ \E s \in DOMAIN sessions : Logout(s)
  \/ \E i \in Invites : \E e \in Emails : CreateInvite(i, e)
  \/ \E k \in Keys, role \in Roles :
       RetireAPIKey(k, role) \/ \E scopes \in KeyScopes : CreateAPIKey(k, scopes, role)

Spec == Init /\ [][Next]_vars

(***************************************************************************)
(* Properties                                                              *)
(***************************************************************************)
\* Refresh and RotateSession: a refresh token is spent once. Two tokens of a
\* chain are good at once only after two refreshes of it overlapped.
OneLiveToken ==
  \A s, t \in DOMAIN sessions :
    Live(s) /\ Live(t) /\ sessions[s].family = sessions[t].family /\ s # t
      => sessions[s].family \in raced

\* RevokeSessionFamily: a chain caught in reuse is over, unless a rotation that
\* had read its session before was still to write.
CaughtChainIsDead ==
  \A s \in DOMAIN sessions : Live(s) => sessions[s].family \notin caught

\* A chain of refresh tokens has one living token, and none once reuse was caught
\* (Refresh, RotateSession, RevokeSessionFamily).
ChainIsSound == OneLiveToken /\ CaughtChainIsDead

\* AcceptInvite and auth.accept_invitation: an invitation is good for one
\* acceptance, however many requests found it usable.
InviteIsSpentOnce == \A i \in Invites : invites[i].uses <= 1

\* LinkGitHubIdentity: once an account is linked no later sign-in, whatever it
\* had read, links it to somebody else.
LinkIsPermanent ==
  [][\A e \in Emails : users[e].github # None => users'[e].github = users[e].github]_vars

\* Authorize over AuthenticateAPIKey: a key reaches a handler only through a
\* scope it was minted with, and no handler that manages the tenant.
KeyStaysNarrow ==
  \A q \in Requests : req[q].pc = "handler" =>
    /\ req[q].email \in {Permission(s) : s \in keys[req[q].of].scopes}
    /\ req[q].email \notin AdminRows \cup OwnerRows
=============================================================================
