------------------------------ MODULE Identity ------------------------------
(***************************************************************************)
(* The identity tier: `axebom iam bootstrap` (libs/go-shared/iam) and the  *)
(* self-service signup provision organisations, grants, users and          *)
(* authorizations in ZITADEL; a request's token is then resolved to a      *)
(* local tenant and user by auth.identity_for behind DBResolver's cache.   *)
(*                                                                         *)
(* ZITADEL is its set of objects.  Every object Bootstrap makes is a tuple *)
(* <<kind, ...>> of `have`: a remote call adds one, or answers that it     *)
(* already exists.  A user is the pair <<home organisation, email>>.       *)
(***************************************************************************)
EXTENDS Integers, Sequences, FiniteSets

CONSTANTS
    Orgs,         \* organisation names
    AdminOrg,     \* the one that owns the project, made by ZITADEL's setup
    Emails,       \* addresses
    Tenants,      \* the spec's tenants: a sequence of [org, email, role]
    CrossOrg,     \* the spec's cross-org grants: a sequence of [email, home, target, role]
    Operators,    \* processes that run `iam bootstrap`
    Visitors,     \* people at the signup form
    Wish,         \* what each visitor types: [Visitors -> [org, email]]
    Requests,     \* requests that carry a token
    None,
    MaxFaults,    \* calls that fail, and processes that die
    MaxRuns,      \* bootstraps started, in all
    TrustedDomain, BrandName, \* whether the spec names them
    MaxEdits,     \* role changes made in ZITADEL
    MaxRequests   \* requests, in all

Roles == {"owner", "admin", "analyst", "viewer"}

ASSUME SpecAssumption ==
    /\ Wish \in [Visitors -> [org : Orgs, email : Emails]]
    /\ Tenants \in Seq([org : Orgs, email : Emails, role : Roles])
    /\ CrossOrg \in Seq([email : Emails, home : Orgs, target : Orgs, role : Roles])
    /\ AdminOrg \in Orgs /\ None \notin Orgs \cup Emails \cup (Orgs \X Emails)

VARIABLES
    have,     \* the objects ZITADEL holds
    roleOf,   \* the role of every authorization <<user, org>>
    maker,    \* the process whose AddOrganization made the organisation
    spa,      \* the web application's redirect URIs are those of --public-url
    label,    \* the palette: [draft, live]
    register, \* the login policy still offers self-registration
    keys,     \* machine keys ZITADEL has minted
    keyFile,  \* the key file of the service account: the minted key, or none
    op,       \* per operator: where its Bootstrap stands
    visit,    \* per visitor: where its Signup stands
    tenants,  \* auth.tenants: the organisation linked to each row
    users,    \* auth.users: [email, zid] of each row
    cache,    \* DBResolver's entries
    req,      \* per request: its token and what it was resolved to
    faults, edits, asked, runs

idp  == <<have, roleOf, maker, spa, label, register, keys, keyFile>>
local == <<tenants, users>>
vars == <<idp, op, visit, local, cache, req, faults, edits, asked, runs>>


(***************************************************************************)
(* What Bootstrap will call, in its order.  `how` is the shape of the      *)
(* ensure* function: find, then create what was not found; add, an         *)
(* existing one being fine; the read-modify-write of a policy; the service *)
(* key; the link to the database.                                          *)
(***************************************************************************)
Do(how, obj) == [how |-> how, obj |-> obj, role |-> "none"]

ensureOrg(o) == << Do("find", <<"org", o>>) >>
ensureProject == << Do("find", <<"project">>) >>
ensureRoles == << Do("add", <<"roles">>) >>
ensureSPA == << Do("find", <<"spa">>) >>
ensureTrustedDomain == IF TrustedDomain THEN << Do("add", <<"trusted">>) >> ELSE <<>>
ensureAPI == << Do("find", <<"api">>) >>
ensureHostedLoginTranslation == IF BrandName THEN << Do("set", <<"brand">>) >> ELSE <<>>
ensureProjectGrant(o) == << Do("add", <<"grant", o>>) >>

ensureAuthorization(user, o, r) ==
    << [how |-> "add", obj |-> <<"auth", user, o>>, role |-> r] >>

ensureUser(o, e, r) ==
    << Do("find", <<"user", o, e>>) >> \o ensureAuthorization(<<o, e>>, o, r)

ensureTenant(t) ==
    ensureOrg(t.org) \o ensureProjectGrant(t.org) \o ensureUser(t.org, t.email, t.role)

applyCrossOrgGrant(g) ==
    << Do("need", <<"org", g.target>>), Do("need", <<"user", g.home, g.email>>) >>
        \o ensureAuthorization(<<g.home, g.email>>, g.target, g.role)

ensureServiceUser ==
    << Do("find", <<"machine">>), Do("add", <<"service-auth">>), Do("key", <<"key">>) >>

\* The steps of the members of a list, n each, one member after the other.
Each(ss, n) == [i \in 1 .. n * Len(ss) |-> ss[((i - 1) \div n) + 1][((i - 1) % n) + 1]]

Bootstrap ==
    << Do("need", <<"org", AdminOrg>>) >> \o ensureProject \o ensureRoles \o ensureSPA
    \o ensureTrustedDomain \o ensureAPI \o ensureHostedLoginTranslation
    \o << Do("label", <<"label">>), Do("login", <<"login">>) >>
    \o Each([i \in DOMAIN Tenants |-> ensureTenant(Tenants[i])], 4)
    \o Each([i \in DOMAIN CrossOrg |-> applyCrossOrgGrant(CrossOrg[i])], 3)
    \o ensureServiceUser

Plan ==
    Bootstrap \o Each([i \in DOMAIN Tenants |->
        << Do("link", <<"tenant", Tenants[i].org>>),
           Do("link", <<"person", Tenants[i].org, Tenants[i].email>>) >>], 2)

Idle == [pc |-> 0, phase |-> "start", key |-> 0]

\* A table with one row written.
Put(f, k, v) == [x \in DOMAIN f \cup {k} |-> IF x = k THEN v ELSE f[x]]

Init ==
    /\ have = {<<"org", AdminOrg>>} /\ roleOf = << >> /\ maker = [o \in Orgs |-> None]
    /\ spa = FALSE /\ label = [draft |-> FALSE, live |-> FALSE] /\ register = TRUE
    /\ keys = 0 /\ keyFile = 0
    /\ op = [p \in Operators |-> Idle]
    /\ visit = [v \in Visitors |-> "form"]
    /\ tenants = [i \in {<<"seed", Tenants[k].org>> : k \in DOMAIN Tenants} |-> None]
    /\ users = [i \in {<<"seed", Tenants[k].email>> : k \in DOMAIN Tenants} |-> None]
    /\ cache = << >>
    /\ req = [q \in Requests |-> [at |-> "none"]]
    /\ faults = 0 /\ edits = 0 /\ asked = 0 /\ runs = 0

(***************************************************************************)
(* Bootstrap                                                               *)
(***************************************************************************)
Start(p) ==
    /\ op[p].phase = "start" /\ runs < MaxRuns /\ runs' = runs + 1
    /\ op' = [op EXCEPT ![p] = [Idle EXCEPT !.pc = 1, !.phase = "call"]]
    /\ UNCHANGED <<idp, visit, local, cache, req, faults, edits, asked>>

At(p, hows, phase) ==
    /\ op[p].phase = phase /\ op[p].pc \in DOMAIN Plan
    /\ Plan[op[p].pc].how \in hows

Obj(p) == Plan[op[p].pc].obj

Goto(p, phase) == op' = [op EXCEPT ![p].phase = phase]

Advance(p) == op' = [op EXCEPT ![p] = IF op[p].pc = Len(Plan)
                                      THEN [@ EXCEPT !.phase = "done"]
                                      ELSE [pc |-> @.pc + 1, phase |-> "call", key |-> 0]]

\* An error ends the command; the operator may run it again from the start.
Abort(p) == op' = [op EXCEPT ![p] = Idle]

Zitadel(unchanged) == UNCHANGED <<unchanged, visit, local, cache, req, faults, edits, asked, runs>>

Find(p) ==
    /\ At(p, {"find"}, "call")
    /\ IF Obj(p) \notin have THEN Goto(p, "create")
       ELSE IF Obj(p) = <<"spa">> THEN Goto(p, "reconcile") ELSE Advance(p)
    /\ Zitadel(idp)

\* An object that appeared in the meantime is success, except for the project:
\* ensureProject has no already-exists branch.
Tolerated(obj) == obj # <<"project">>

Create(p) ==
    /\ At(p, {"find"}, "create")
    /\ IF Obj(p) \in have
       THEN /\ IF Tolerated(Obj(p)) THEN Advance(p) ELSE Abort(p)
            /\ UNCHANGED <<have, maker, spa>>
       ELSE /\ have' = have \cup {Obj(p)}
            /\ maker' = IF Obj(p)[1] = "org" THEN [maker EXCEPT ![Obj(p)[2]] = p] ELSE maker
            /\ spa' = (spa \/ Obj(p) = <<"spa">>)
            /\ Advance(p)
    /\ Zitadel(<<roleOf, label, register, keys, keyFile>>)

reconcileSPA(p) ==
    /\ At(p, {"find"}, "reconcile")
    /\ spa' = TRUE /\ Advance(p)
    /\ Zitadel(<<have, roleOf, maker, label, register, keys, keyFile>>)

Authorize(user, org, role) ==
    roleOf' = IF <<user, org>> \in DOMAIN roleOf THEN roleOf
              ELSE Put(roleOf, <<user, org>>, role)

Add(p) ==
    /\ At(p, {"add", "set"}, "call")
    /\ have' = have \cup {Obj(p)}
    /\ IF Obj(p)[1] = "auth" THEN Authorize(Obj(p)[2], Obj(p)[3], Plan[op[p].pc].role)
                             ELSE UNCHANGED roleOf
    /\ Advance(p)
    /\ Zitadel(<<maker, spa, label, register, keys, keyFile>>)

\* applyCrossOrgGrant looks up, and creates nothing it does not find.
Need(p) ==
    /\ At(p, {"need"}, "call")
    /\ IF Obj(p) \in have THEN Advance(p) ELSE Abort(p)
    /\ Zitadel(idp)

\* Slip: the preview is read, and a draft looks like the work done.
LabelDrafted == label.draft

\* GetLabelPolicy answers with the live policy; an update is a draft until
\* ActivateLabelPolicy.
LabelCurrent == label.live

ensureLabelPolicy(p) ==
    /\ \/ At(p, {"label"}, "call") /\ UNCHANGED label
          /\ IF LabelCurrent THEN Advance(p) ELSE Goto(p, "update")
       \/ At(p, {"label"}, "update")
          /\ label' = [label EXCEPT !.draft = TRUE] /\ Goto(p, "activate")
       \/ At(p, {"label"}, "activate")
          /\ label' = [label EXCEPT !.live = label.draft] /\ Advance(p)
    /\ Zitadel(<<have, roleOf, maker, spa, register, keys, keyFile>>)

ensureLoginPolicy(p) ==
    /\ \/ At(p, {"login"}, "call") /\ UNCHANGED register
          /\ IF register THEN Goto(p, "update") ELSE Advance(p)
       \/ At(p, {"login"}, "update") /\ register' = FALSE /\ Advance(p)
    /\ Zitadel(<<have, roleOf, maker, spa, label, keys, keyFile>>)

ensureServiceKey(p) ==
    /\ \/ /\ At(p, {"key"}, "call")
          /\ IF keyFile # 0 THEN Advance(p) ELSE Goto(p, "mint")
          /\ UNCHANGED <<keys, keyFile>>
       \/ /\ At(p, {"key"}, "mint") /\ keys' = keys + 1
          /\ op' = [op EXCEPT ![p] = [@ EXCEPT !.phase = "write", !.key = keys + 1]]
          /\ UNCHANGED keyFile
       \/ /\ At(p, {"key"}, "write") /\ keyFile' = op[p].key /\ UNCHANGED keys
          /\ Advance(p)
    /\ Zitadel(<<have, roleOf, maker, spa, label, register>>)

\* A column that is UNIQUE refuses a value another row already holds.
Free(table, row, value) == \A i \in DOMAIN table : table[i] = value => i = row

\* UPDATE ... WHERE the row is unlinked or linked to the same id.
Linkable(table, row, value) == row \in DOMAIN table /\ table[row] \in {None, value}

linkIdentities(p) ==
    /\ At(p, {"link"}, "call")
    /\ LET obj == Obj(p)
           row == <<"seed", IF obj[1] = "tenant" THEN obj[2] ELSE obj[3]>>
           tbl == IF obj[1] = "tenant" THEN tenants ELSE users
           val == IF obj[1] = "tenant" THEN obj[2] ELSE <<obj[2], obj[3]>>
       IN IF ~Linkable(tbl, row, val) THEN Advance(p) /\ UNCHANGED local
          ELSE IF ~Free(tbl, row, val) THEN Abort(p) /\ UNCHANGED local
          ELSE /\ Advance(p)
               /\ IF obj[1] = "tenant"
                  THEN tenants' = [tenants EXCEPT ![row] = val] /\ UNCHANGED users
                  ELSE users' = [users EXCEPT ![row] = val] /\ UNCHANGED tenants
    /\ UNCHANGED <<idp, visit, cache, req, faults, edits, asked, runs>>

\* A call that fails, a command that is killed: everything done so far stays.
Fail(p) ==
    /\ faults < MaxFaults /\ op[p].phase \notin {"start", "done"}
    /\ faults' = faults + 1 /\ Abort(p)
    /\ UNCHANGED <<idp, visit, local, cache, req, edits, asked, runs>>

(***************************************************************************)
(* Signup: nothing that is already there is adopted.  A signup that fails  *)
(* half-way undoes nothing: it is one that takes no further step.          *)
(***************************************************************************)
Signed(v, to) == visit' = [visit EXCEPT ![v] = to]

Elsewhere == UNCHANGED <<spa, label, register, keys, keyFile, op, local, cache, req, faults, edits, asked, runs>>

SignupFindOrg(v) ==
    /\ visit[v] = "form" /\ <<"project">> \in have
    /\ Signed(v, IF <<"org", Wish[v].org>> \in have THEN "org taken" ELSE "create org")
    /\ UNCHANGED <<have, roleOf, maker>> /\ Elsewhere

\* The created flag of ensureOrg: an organisation that appeared since is taken.
SignupCreateOrg(v) ==
    /\ visit[v] = "create org"
    /\ IF <<"org", Wish[v].org>> \in have
       THEN Signed(v, "org taken") /\ UNCHANGED <<have, maker>>
       ELSE /\ have' = have \cup {<<"org", Wish[v].org>>}
            /\ maker' = [maker EXCEPT ![Wish[v].org] = v]
            /\ Signed(v, "check email")
    /\ UNCHANGED roleOf /\ Elsewhere

SignupCheckEmail(v) ==
    /\ visit[v] = "check email"
    /\ Signed(v, IF \E o \in Orgs : <<"user", o, Wish[v].email>> \in have
                 THEN "email taken" ELSE "grant")
    /\ UNCHANGED <<have, roleOf, maker>> /\ Elsewhere

SignupGrant(v) ==
    /\ visit[v] = "grant"
    /\ have' = have \cup {<<"grant", Wish[v].org>>} /\ Signed(v, "user")
    /\ UNCHANGED <<roleOf, maker>> /\ Elsewhere

SignupUser(v) ==
    /\ visit[v] = "user"
    /\ have' = have \cup {<<"user", Wish[v].org, Wish[v].email>>} /\ Signed(v, "authorize")
    /\ UNCHANGED <<roleOf, maker>> /\ Elsewhere

SignupAuthorize(v) ==
    LET user == <<Wish[v].org, Wish[v].email>> IN
    /\ visit[v] = "authorize"
    /\ have' = have \cup {<<"auth", user, Wish[v].org>>}
    /\ Authorize(user, Wish[v].org, "owner")
    /\ Signed(v, "created")
    /\ UNCHANGED maker /\ Elsewhere

(***************************************************************************)
(* A request.  Its token carries the roles that held when it was minted,   *)
(* and its email claims may be missing; X-AxeBOM-Org may name the          *)
(* organisation.                                                           *)
(***************************************************************************)
Held(user) ==
    {o \in Orgs : <<user, o>> \in DOMAIN roleOf /\ (o = AdminOrg \/ <<"grant", o>> \in have)}

TenantFor(user, preferred) ==
    IF preferred # None THEN IF preferred \in Held(user) THEN preferred ELSE None
    ELSE IF Cardinality(Held(user)) = 1 THEN CHOOSE o \in Held(user) : TRUE
    ELSE IF user[1] \in Held(user) THEN user[1] ELSE None

Refuse(q) == req' = [req EXCEPT ![q] = [at |-> "none"]]

Authenticate(q) ==
    /\ req[q].at \in {"none", "served"} /\ asked < MaxRequests /\ asked' = asked + 1
    /\ \E user \in {a[1] : a \in DOMAIN roleOf}, email \in BOOLEAN, preferred \in Orgs \cup {None} :
          LET o == TenantFor(user, preferred)
          IN IF o = None THEN Refuse(q)
             ELSE req' = [req EXCEPT ![q] = [at |-> "token", user |-> user, org |-> o,
                             role |-> roleOf[<<user, o>>], email |-> email]]
    /\ UNCHANGED <<idp, op, visit, local, cache, faults, edits, runs>>

Demote ==
    /\ edits < MaxEdits /\ edits' = edits + 1
    /\ \E a \in DOMAIN roleOf : roleOf[a] # "viewer" /\ roleOf' = [roleOf EXCEPT ![a] = "viewer"]
    /\ UNCHANGED <<have, maker, spa, label, register, keys, keyFile, op, visit, local, cache, req, faults, asked, runs>>

\* Slip: a cache entry found by the person alone.
KeyOfPerson(t) == <<t.user, t.role>>

Key(t) == <<t.org, t.user, t.role>>

Serve(q, principal) ==
    req' = [req EXCEPT ![q] = [at |-> "served", user |-> @.user, org |-> @.org, role |-> @.role,
                               principal |-> principal]]

CacheHit(q) ==
    /\ req[q].at = "token" /\ Key(req[q]) \in DOMAIN cache
    /\ Serve(q, cache[Key(req[q])])
    /\ UNCHANGED <<idp, op, visit, local, cache, faults, edits, asked, runs>>

CacheExpires ==
    /\ cache # << >>
    /\ \E k \in DOMAIN cache : cache' = [j \in DOMAIN cache \ {k} |-> cache[j]]
    /\ UNCHANGED <<idp, op, visit, local, req, faults, edits, asked, runs>>

Holder(table, value) == {i \in DOMAIN table : table[i] = value}

\* identity_for's first statement; the insert that may follow is in Provision.
SelectTenant(q) ==
    /\ req[q].at = "token" /\ Key(req[q]) \notin DOMAIN cache
    /\ req' = [req EXCEPT ![q] = [at |-> "selected", user |-> @.user, org |-> @.org,
                 role |-> @.role, email |-> @.email, found |-> Holder(tenants, @.org)]]
    /\ UNCHANGED <<idp, op, visit, local, cache, faults, edits, asked, runs>>

\* The row of the subject; else the unlinked row of its verified address; else
\* a new one, which a row of the same address refuses.
UserRow(t) ==
    LET seeded == <<"seed", t.user[2]>> IN
    IF Holder(users, t.user) # {} THEN CHOOSE i \in Holder(users, t.user) : TRUE
    ELSE IF t.email /\ seeded \in DOMAIN users /\ users[seeded] = None THEN seeded
    ELSE IF t.email /\ \E i \in DOMAIN users : i[2] = t.user[2] THEN None
    ELSE IF t.email THEN <<"jit", t.user[2]>> ELSE <<"sub", t.user>>

TenantRow(t) == IF t.found # {} THEN CHOOSE i \in t.found : TRUE
                ELSE IF Holder(tenants, t.org) # {} THEN None ELSE <<"jit", t.org>>

identity_for(q) ==
    /\ req[q].at = "selected"
    /\ LET t == req[q]
           tenant == TenantRow(t)
           user == UserRow(t)
           p == [tenant |-> tenant, user |-> user, role |-> t.role]
       IN IF None \in {tenant, user}
          THEN Refuse(q) /\ UNCHANGED <<local, cache>>
          ELSE /\ tenants' = Put(tenants, tenant, t.org)
               /\ users' = Put(users, user, t.user)
               /\ cache' = Put(cache, Key(t), p)
               /\ Serve(q, p)
    /\ UNCHANGED <<idp, op, visit, faults, edits, asked, runs>>

Next ==
    \/ \E p \in Operators :
          \/ Start(p) \/ Find(p) \/ Create(p) \/ reconcileSPA(p) \/ Add(p) \/ Need(p)
          \/ ensureLabelPolicy(p) \/ ensureLoginPolicy(p) \/ ensureServiceKey(p)
          \/ linkIdentities(p) \/ Fail(p)
    \/ \E v \in Visitors :
          \/ SignupFindOrg(v) \/ SignupCreateOrg(v) \/ SignupCheckEmail(v) \/ SignupGrant(v)
          \/ SignupUser(v) \/ SignupAuthorize(v)
    \/ \E q \in Requests :
          Authenticate(q) \/ CacheHit(q) \/ SelectTenant(q) \/ identity_for(q)
    \/ Demote \/ CacheExpires

Spec == Init /\ [][Next]_vars

(***************************************************************************)
(* Properties                                                              *)
(***************************************************************************)
\* A request acts in the tenant and as the user its token names, with the
\* token's role, whether the resolver answered from its cache, from a row the
\* bootstrap linked, from an adopted one or from one it made; and no
\* organisation is linked to two tenants, nor a person to two users.
PrincipalMatchesToken ==
    /\ \A q \in Requests : req[q].at = "served" =>
          /\ tenants[req[q].principal.tenant] = req[q].org
          /\ users[req[q].principal.user] = req[q].user
          /\ req[q].principal.role = req[q].role
    /\ \A i, j \in DOMAIN tenants : tenants[i] = tenants[j] /\ tenants[i] # None => i = j
    /\ \A i, j \in DOMAIN users : users[i] = users[j] /\ users[i] # None => i = j

\* Whoever holds a role in an organisation is named for it by the bootstrap's
\* specification, or made the organisation by signing up: a visitor whose
\* organisation was made by anybody else in the meantime never joins it.
EveryRoleIsEarned ==
    \A a \in DOMAIN roleOf :
       \/ \E i \in DOMAIN Plan : Plan[i].obj = <<"auth", a[1], a[2]>>
       \/ \E v \in Visitors : /\ maker[a[2]] = v
                               /\ a = << <<Wish[v].org, Wish[v].email>>, Wish[v].org >>

\* A request acts as exactly whom its token names, and nobody's token names more
\* than the bootstrap or a signup of their own gave them (identity_for, Signup).
AccessIsEarned == PrincipalMatchesToken /\ EveryRoleIsEarned

\* A bootstrap that reports success has left everything in place, whatever
\* failed in an earlier run or ran beside it: every object, the redirect URIs,
\* the palette live, self-registration off, a key file that holds a minted
\* key, and every seeded tenant linked to its organisation.
DoneIsProvisioned ==
    (\E p \in Operators : op[p].phase = "done") =>
       /\ \A i \in DOMAIN Plan : Plan[i].how \in {"find", "add", "set"} => Plan[i].obj \in have
       /\ spa /\ label.live /\ ~register /\ keyFile \in 1 .. keys
       /\ \A i \in DOMAIN Tenants : tenants[<<"seed", Tenants[i].org>>] = Tenants[i].org
=============================================================================
