-------------------------- MODULE Sessions_proofs --------------------------
(***************************************************************************)
(* Proofs about Sessions, for any addresses, tenants, invitations, keys    *)
(* and scopes, any number of requests in flight, and any mix of deaths     *)
(* between two database calls.                                             *)
(***************************************************************************)
EXTENDS Sessions, TLAPS

USE ConstantsAssumption

(***************************************************************************)
(* Types                                                                   *)
(***************************************************************************)
Accounts == {"register", "login", "github", "accept"}
Ops == Accounts \cup {"refresh", "key", "none"}
Stages == {"find", "findgh", "create", "link", "tenant", "select", "accept", "issue",
           "rotate", "reuse", "guard", "handler", "idle"}

UserRows == [password : BOOLEAN, github : GitHubIds \cup {None}, there : BOOLEAN]
InviteRows == [state : {"none", "pending", "accepted"}, uses : Nat]
SessionRows == [tenant : Tenants, email : Emails, role : Roles \cup {None},
                family : Nat \ {0}, revoked : BOOLEAN]
KeyRows == [scopes : KeyScopes \cup {{}}, state : {"none", "active", "retired"}]

\* A request in flight; what it is of depends on its kind.
Flights == [op : Ops, pc : Stages,
            email : Emails \cup Asked \cup {None}, github : GitHubIds \cup {None},
            tenant : Tenants \cup {None}, role : Roles \cup {None},
            of : Invites \cup Keys \cup Nat \cup {None}]

\* The steps a request of each kind passes through, and what it knows there.
Sound(r, n) ==
  /\ r.op = "register" => r.pc \in {"find", "create", "tenant", "issue"}
  /\ r.op = "login" => r.pc \in {"find", "select", "issue"}
  /\ r.op = "github" => r.pc \in {"findgh", "find", "link", "create", "select", "issue"}
  /\ r.op = "accept" => r.pc \in {"find", "create", "accept", "issue"}
  /\ r.op = "refresh" => r.pc \in {"rotate", "reuse"}
  /\ r.op = "key" => r.pc \in {"guard", "handler"}
  /\ r.op = "none" => r.pc = "idle"
  /\ r.op \in Accounts => r.email \in Emails
  /\ r.op = "accept" => r.tenant \in Tenants /\ r.role \in Roles /\ r.of \in Invites
  /\ r.op = "refresh" => r.of \in 1..n
  /\ r.op = "key" => r.of \in Keys /\ r.role = "analyst"
  /\ r.pc = "issue" => r.tenant \in Tenants /\ r.role \in Roles

TypeOK ==
  /\ users \in [Emails -> UserRows]
  /\ members \in [Tenants \X Emails -> Roles \cup {None}]
  /\ invites \in [Invites -> InviteRows]
  /\ sessions \in Seq(SessionRows)
  /\ keys \in [Keys -> KeyRows]
  /\ req \in [Requests -> Flights]
  /\ \A q \in Requests : Sound(req[q], Len(sessions))

USE DEF tables, Goto, Fail

LEMMA IdleIsSound ==
  ASSUME NEW n \in Nat
  PROVE  Idle \in Flights /\ Sound(Idle, n)
  BY DEF Idle, Flights, Sound, Accounts, Ops, Stages

\* A table that grew keeps what a request holds of it.
LEMMA SoundGrows ==
  ASSUME NEW r, NEW n \in Nat, NEW m \in Nat, n <= m, Sound(r, n)
  PROVE  Sound(r, m)
  BY DEF Sound

\* A request that moves leaves the others alone.
LEMMA MoveType ==
  ASSUME TypeOK, NEW q \in Requests, NEW r \in Flights, Move(q, r),
         NEW n \in Nat, Len(sessions) <= n, Sound(r, n)
  PROVE  /\ req' \in [Requests -> Flights]
         /\ \A p \in Requests : Sound(req'[p], n)
<1>1. req' \in [Requests -> Flights]
  BY DEF TypeOK, Move
<1>2. Len(sessions) \in Nat
  BY DEF TypeOK
<1>3. ASSUME NEW p \in Requests PROVE Sound(req'[p], n)
  <2>1. CASE p = q
    BY <2>1 DEF TypeOK, Move
  <2>2. CASE p # q
    <3>1. req'[p] = req[p]
      BY <2>2 DEF TypeOK, Move
    <3>2. Sound(req[p], Len(sessions))
      BY DEF TypeOK
    <3> QED BY <1>2, <3>1, <3>2, SoundGrows
  <2> QED BY <2>1, <2>2
<1> QED BY <1>1, <1>3

LEMMA Landing ==
  ASSUME TypeOK, NEW q \in Requests, NEW r, Move(q, r)
  PROVE  req'[q] = r /\ \A p \in Requests \ {q} : req'[p] = req[p]
  BY DEF TypeOK, Move

\* One that goes on to another step keeps what it knows.
LEMMA Passing ==
  ASSUME TypeOK, NEW q \in Requests, NEW label, Goto(q, label)
  PROVE  /\ req'[q].pc = label
         /\ req'[q].op = req[q].op /\ req'[q].email = req[q].email /\ req'[q].of = req[q].of
         /\ \A p \in Requests \ {q} : req'[p] = req[p]
<1>1. req[q] \in Flights
  BY DEF TypeOK
<1> QED BY <1>1, Landing DEF Flights

LEMMA Ending ==
  ASSUME TypeOK, NEW q \in Requests, Fail(q)
  PROVE  /\ req'[q].pc = "idle" /\ req'[q].op = "none"
         /\ \A p \in Requests \ {q} : req'[p] = req[p]
  BY Landing DEF Idle

\* A request moves alone. FindUser alone leads to linking, and a key that passes
\* its route alone to a handler; no step leads into a refresh.
Signing == {"find", "create", "select", "accept", "tenant", "issue", "idle"}

Lands(q) ==
  /\ \A p \in Requests \ {q} : req'[p] = req[p]
  /\ \/ req'[q].pc \in Signing
     \/ req'[q].pc = "link" /\ FindUser(q)
     \/ req'[q].pc = "handler" /\ \E perm \in Asked : KeyPasses(q, perm)

LEMMA StepLands ==
  ASSUME TypeOK, NEW q \in Requests, Step(q)
  PROVE  Lands(q)
<1>0. req[q] \in Flights /\ (req[q].pc = "find" => req[q].op \in Accounts)
  BY DEF TypeOK, Flights, Sound, Ops, Accounts
<1>1. ASSUME NEW r, Move(q, r), r.pc \in Signing PROVE Lands(q)
  BY <1>1, Landing DEF Lands
<1>2. CASE Fail(q)
  BY <1>2, Ending DEF Lands, Signing
<1>3. ASSUME NEW label \in Signing, Goto(q, label) PROVE Lands(q)
  BY <1>3, Passing DEF Lands
<1>4. CASE FindUser(q)
  <2>1. ASSUME NEW found, Goto(q, AfterFind(req[q].op, found)) PROVE Lands(q)
    <3> DEFINE next == AfterFind(req[q].op, found)
    <3>1. next \in Signing \/ next = "link"
      BY <1>0, <1>4 DEF FindUser, Accounts, AfterFind, RegisterNext, LoginNext, AcceptNext,
         GitHubNext, Signing
    <3>2. req'[q].pc = next /\ \A p \in Requests \ {q} : req'[p] = req[p]
      BY <2>1, Passing
    <3> QED BY <1>4, <3>1, <3>2 DEF Lands
  <2> QED BY <1>2, <1>4, <2>1 DEF FindUser
<1>5. CASE ResolveGitHubUser(q)
  <2>1. ASSUME NEW e, Move(q, [req[q] EXCEPT !.pc = "select", !.email = e]) PROVE Lands(q)
    <3>1. [req[q] EXCEPT !.pc = "select", !.email = e].pc = "select"
      BY <1>0 DEF Flights
    <3> QED BY <1>1, <2>1, <3>1 DEF Signing
  <2>2. CASE Goto(q, "find")
    BY <1>3, <2>2 DEF Signing
  <2> QED BY <1>5, <2>1, <2>2 DEF ResolveGitHubUser
<1>6. CASE LinkGitHubIdentity(q)
  BY <1>2, <1>3, <1>6 DEF LinkGitHubIdentity, Signing
<1>7. CASE AcceptInvitation(q)
  BY <1>2, <1>3, <1>7 DEF AcceptInvitation, Signing
<1>8. CASE CreateUser(q)
  <2> DEFINE label == CASE req[q].op = "register" -> "tenant" [] req[q].op = "accept" -> "accept"
                        [] req[q].op = "github" -> "select"
  <2>1. CASE Goto(q, label)
    <3>1. label \in Signing
      BY <1>8 DEF CreateUser, TypeOK, Flights, Sound, Ops, Accounts, Signing
    <3> HIDE DEF label
    <3> QED BY <1>3, <2>1, <3>1
  <2> QED BY <1>2, <1>8, <2>1 DEF CreateUser
<1>9. CASE CreateTenantWithOwner(q) \/ SelectMembership(q)
  <2>1. ASSUME NEW t, NEW role, Move(q, [req[q] EXCEPT !.pc = "issue", !.tenant = t, !.role = role])
        PROVE  Lands(q)
    <3>1. [req[q] EXCEPT !.pc = "issue", !.tenant = t, !.role = role].pc = "issue"
      BY <1>0 DEF Flights
    <3> QED BY <1>1, <2>1, <3>1 DEF Signing
  <2>2. CASE CreateTenantWithOwner(q)
    BY <2>1, <2>2 DEF CreateTenantWithOwner
  <2>3. CASE SelectMembership(q)
    BY <1>2, <2>1, <2>3 DEF SelectMembership
  <2> QED BY <1>9, <2>2, <2>3
<1>10. CASE IssueFor(q) \/ RevokeSessionFamily(q) \/ RotateSession(q) \/ Abandon(q)
  BY <1>2, <1>10 DEF IssueFor, RevokeSessionFamily, RotateSession, Abandon
<1>11. ASSUME NEW perm \in Asked, KeyPasses(q, perm) PROVE Lands(q)
  <2>1. [req[q] EXCEPT !.pc = "handler", !.email = perm].pc = "handler"
    BY <1>0 DEF Flights
  <2>2. req'[q].pc = "handler" /\ \A p \in Requests \ {q} : req'[p] = req[p]
    BY <1>11, <2>1, Landing DEF KeyPasses
  <2> QED BY <1>11, <2>2 DEF Lands
<1> QED BY <1>4, <1>5, <1>6, <1>7, <1>8, <1>9, <1>10, <1>11 DEF Step

\* Where the requests arrive.
Arrivals(q) ==
  \/ \E e \in Emails : Register(q, e) \/ Login(q, e)
  \/ \E e \in Emails, g \in GitHubIds : GitHubCallback(q, g, e)
  \/ \E i \in Invites : AcceptInvite(q, i)

LEMMA SignInArrives ==
  ASSUME NEW q \in Requests, Arrivals(q)
  PROVE  \E r : Move(q, r) /\ r.pc \in {"find", "findgh"}
<1>1. ASSUME NEW r, Arrive(q, r), r.pc \in {"find", "findgh"}
      PROVE  \E f : Move(q, f) /\ f.pc \in {"find", "findgh"}
  BY <1>1 DEF Arrive
<1>2. CASE \E e \in Emails : Register(q, e) \/ Login(q, e)
  BY <1>1, <1>2 DEF Register, Login, Idle
<1>3. CASE \E e \in Emails, g \in GitHubIds : GitHubCallback(q, g, e)
  BY <1>1, <1>3 DEF GitHubCallback, Idle
<1>4. CASE \E i \in Invites : AcceptInvite(q, i)
  BY <1>1, <1>4 DEF AcceptInvite, Idle
<1> QED BY <1>2, <1>3, <1>4 DEF Arrivals

LEMMA KeyArrives ==
  ASSUME TypeOK, NEW q \in Requests, NEW k \in Keys, AuthenticateAPIKey(q, k)
  PROVE  /\ req'[q].pc = "guard" /\ req'[q].of = k
         /\ \A p \in Requests \ {q} : req'[p] = req[p]
<1> DEFINE f == [Idle EXCEPT !.op = "key", !.pc = "guard", !.role = "analyst", !.of = k]
<1>1. Move(q, f)
  BY DEF AuthenticateAPIKey, Arrive
<1>2. f.pc = "guard" /\ f.of = k
  BY DEF Idle
<1> QED BY <1>1, <1>2, Landing

LEMMA RefreshArrives ==
  ASSUME TypeOK, NEW q \in Requests, NEW s \in DOMAIN sessions, Refresh(q, s)
  PROVE  /\ req'[q].pc = RefreshNext(s) /\ req'[q].of = s
         /\ \A p \in Requests \ {q} : req'[p] = req[p]
<1> DEFINE next == RefreshNext(s)
           f(role) == [Idle EXCEPT !.op = "refresh", !.pc = next, !.of = s, !.role = role]
<1>1. PICK role : Move(q, f(role))
  BY DEF Refresh, SessionByRefreshHash, Idle
<1> HIDE DEF next
<1>2. f(role).pc = next /\ f(role).of = s
  BY DEF Idle
<1> QED BY <1>1, <1>2, Landing DEF next

\* A request that moves and writes nothing.
LEMMA TypeFrame ==
  ASSUME TypeOK, NEW q \in Requests, NEW r \in Flights, Move(q, r), Sound(r, Len(sessions)),
         UNCHANGED tables
  PROVE  TypeOK'
<1>1. Len(sessions) \in Nat
  BY DEF TypeOK
<1>2. /\ req' \in [Requests -> Flights]
      /\ \A p \in Requests : Sound(req'[p], Len(sessions))
  BY <1>1, MoveType
<1> QED BY <1>2 DEF TypeOK

LEMMA SequenceOfRows ==
  ASSUME NEW S, NEW n \in Nat, NEW f \in [1..n -> S]
  PROVE  f \in Seq(S) /\ Len(f) = n
  OBVIOUS

LEMMA TypeInit == Init => TypeOK
<1> SUFFICES ASSUME Init PROVE TypeOK
  OBVIOUS
<1>1. sessions \in Seq(SessionRows) /\ Len(sessions) = 0
  BY DEF Init
<1>2. req \in [Requests -> Flights] /\ \A q \in Requests : Sound(req[q], Len(sessions))
  BY <1>1, IdleIsSound DEF Init
<1>3. members \in [Tenants \X Emails -> Roles \cup {None}]
  BY DEF Init
<1>4. users \in [Emails -> UserRows] /\ invites \in [Invites -> InviteRows]
      /\ keys \in [Keys -> KeyRows]
  BY DEF Init, UserRows, InviteRows, KeyRows, NoUser
<1> QED BY <1>1, <1>2, <1>3, <1>4 DEF TypeOK
\* A new request starts where its kind starts.
LEMMA TypeArrivals ==
  ASSUME TypeOK, NEW q \in Requests,
         \/ \E e \in Emails : Register(q, e) \/ Login(q, e)
         \/ \E e \in Emails, g \in GitHubIds : GitHubCallback(q, g, e)
         \/ \E i \in Invites : AcceptInvite(q, i)
         \/ \E k \in Keys : AuthenticateAPIKey(q, k)
  PROVE  TypeOK'
<1>1. PICK r \in Flights : Arrive(q, r) /\ Sound(r, Len(sessions))
  <2>1. ASSUME NEW e \in Emails, Register(q, e)
        PROVE  \E r \in Flights : Arrive(q, r) /\ Sound(r, Len(sessions))
    <3> DEFINE f == [Idle EXCEPT !.op = "register", !.pc = "find", !.email = e]
    <3>1. f \in Flights /\ Sound(f, Len(sessions))
      BY DEF Idle, Flights, Sound, Accounts, Ops, Stages
    <3> QED BY <2>1, <3>1 DEF Register
  <2>2. ASSUME NEW e \in Emails, Login(q, e)
        PROVE  \E r \in Flights : Arrive(q, r) /\ Sound(r, Len(sessions))
    <3> DEFINE f == [Idle EXCEPT !.op = "login", !.pc = "find", !.email = e]
    <3>1. f \in Flights /\ Sound(f, Len(sessions))
      BY DEF Idle, Flights, Sound, Accounts, Ops, Stages
    <3> QED BY <2>2, <3>1 DEF Login
  <2>3. ASSUME NEW e \in Emails, NEW g \in GitHubIds, GitHubCallback(q, g, e)
        PROVE  \E r \in Flights : Arrive(q, r) /\ Sound(r, Len(sessions))
    <3> DEFINE f == [Idle EXCEPT !.op = "github", !.pc = "findgh", !.github = g, !.email = e]
    <3>1. f \in Flights /\ Sound(f, Len(sessions))
      BY DEF Idle, Flights, Sound, Accounts, Ops, Stages
    <3> QED BY <2>3, <3>1 DEF GitHubCallback
  <2>4. ASSUME NEW i \in Invites, AcceptInvite(q, i)
        PROVE  \E r \in Flights : Arrive(q, r) /\ Sound(r, Len(sessions))
    <3> DEFINE f == [Idle EXCEPT !.op = "accept", !.pc = "find", !.email = i.email,
                                  !.tenant = i.tenant, !.role = i.role, !.of = i]
    <3>1. f \in Flights /\ Sound(f, Len(sessions))
      BY DEF Idle, Flights, Sound, Accounts, Ops, Stages
    <3> QED BY <2>4, <3>1 DEF AcceptInvite
  <2>5. ASSUME NEW k \in Keys, AuthenticateAPIKey(q, k)
        PROVE  \E r \in Flights : Arrive(q, r) /\ Sound(r, Len(sessions))
    <3> DEFINE f == [Idle EXCEPT !.op = "key", !.pc = "guard", !.role = "analyst", !.of = k]
    <3>1. f \in Flights /\ Sound(f, Len(sessions))
      BY DEF Idle, Flights, Sound, Accounts, Ops, Stages, Roles
    <3> QED BY <2>5, <3>1 DEF AuthenticateAPIKey
  <2> QED BY <2>1, <2>2, <2>3, <2>4, <2>5
<1>2. Len(sessions) \in Nat
  BY DEF TypeOK
<1>3. /\ req' \in [Requests -> Flights]
      /\ \A p \in Requests : Sound(req'[p], Len(sessions))
  BY <1>1, <1>2, MoveType DEF Arrive
<1> QED BY <1>1, <1>3 DEF Arrive, TypeOK

\* A row the refresh chain adds.
LEMMA RefreshTokenType ==
  ASSUME NEW t \in Tenants, NEW e \in Emails, NEW r \in Roles \cup {None}, NEW f \in Nat \ {0}
  PROVE  RefreshToken(Claims(t, e, r), f) \in SessionRows
  BY DEF RefreshToken, Claims, SessionRows
\* A step of a request that is under way: it moves, and the rows it writes are rows.
LEMMA TypeStepOf ==
  ASSUME TypeOK, NEW q \in Requests, Step(q)
  PROVE  TypeOK'
<1> DEFINE r == req[q]
           n == Len(sessions)
<1>0. r \in Flights /\ Sound(r, n) /\ n \in Nat /\ DOMAIN sessions = 1..n
  BY DEF TypeOK
<1>1. CASE FindUser(q)
  <2>1. PICK f \in Flights : Move(q, f) /\ Sound(f, n)
    BY <1>0, <1>1, IdleIsSound
    DEF FindUser, AfterFind, RegisterNext, LoginNext, AcceptNext, GitHubNext, Flights, Sound,
        Accounts, Ops, Stages
  <2> QED BY <1>0, <1>1, <2>1, MoveType DEF FindUser, TypeOK
<1>2. CASE ResolveGitHubUser(q)
  <2>1. PICK f \in Flights : Move(q, f) /\ Sound(f, n)
    <3>1. r.op = "github"
      BY <1>0, <1>2 DEF ResolveGitHubUser, Flights, Sound, Ops, Accounts
    <3>2. CASE Move(q, [r EXCEPT !.pc = "find"])
      BY <1>0, <3>1, <3>2 DEF Flights, Sound, Accounts, Ops, Stages
    <3>3. ASSUME NEW e \in Emails, Move(q, [r EXCEPT !.pc = "select", !.email = e])
          PROVE  \E f \in Flights : Move(q, f) /\ Sound(f, n)
      <4>1. [r EXCEPT !.pc = "select", !.email = e] \in Flights
            /\ Sound([r EXCEPT !.pc = "select", !.email = e], n)
        BY <1>0, <3>1, ZenonT(60) DEF Flights, Sound, Accounts, Ops, Stages
      <4> QED BY <3>3, <4>1
    <3> QED BY <1>2, <3>2, <3>3 DEF ResolveGitHubUser, FindUserByGitHubID
  <2> QED BY <1>2, <2>1, TypeFrame DEF ResolveGitHubUser
<1>3. CASE LinkGitHubIdentity(q)
  <2>1. PICK f \in Flights : Move(q, f) /\ Sound(f, n)
    BY <1>0, <1>3, IdleIsSound DEF LinkGitHubIdentity, Flights, Sound, Accounts, Ops, Stages
  <2>2. r.email \in Emails /\ r.github \in GitHubIds \cup {None}
    BY <1>0, <1>3 DEF LinkGitHubIdentity, Flights, Sound, Ops, Accounts
  <2>3. users' \in [Emails -> UserRows]
    BY <1>3, <2>2, SMTT(60) DEF LinkGitHubIdentity, TypeOK, UserRows
  <2> QED BY <1>0, <1>3, <2>1, <2>3, MoveType, SMTT(60) DEF LinkGitHubIdentity, TypeOK
<1>4. CASE CreateUser(q)
  <2>1. PICK f \in Flights : Move(q, f) /\ Sound(f, n)
    BY <1>0, <1>4, IdleIsSound DEF CreateUser, Flights, Sound, Accounts, Ops, Stages
  <2>2. r.email \in Emails /\ r.github \in GitHubIds \cup {None}
    BY <1>0, <1>4 DEF CreateUser, Flights, Sound, Ops, Accounts
  <2>3. users' \in [Emails -> UserRows]
    <3> DEFINE pw == r.github = None
               row == [password |-> pw, github |-> r.github, there |-> TRUE]
    <3>1. pw \in BOOLEAN
      OBVIOUS
    <3>2. users' = users \/ users' = [users EXCEPT ![r.email] = row]
      BY <1>4 DEF CreateUser
    <3> HIDE DEF pw
    <3>3. row \in UserRows
      BY <2>2, <3>1 DEF UserRows
    <3> HIDE DEF row
    <3> QED BY <2>2, <3>2, <3>3 DEF TypeOK
  <2> QED BY <1>0, <1>4, <2>1, <2>3, MoveType DEF CreateUser, TypeOK
<1>5. CASE CreateTenantWithOwner(q)
  <2>1. PICK t \in Tenants :
          /\ Grant(t, r.email, "owner")
          /\ Move(q, [r EXCEPT !.pc = "issue", !.tenant = t, !.role = "owner"])
    BY <1>5 DEF CreateTenantWithOwner
  <2>2. [r EXCEPT !.pc = "issue", !.tenant = t, !.role = "owner"] \in Flights
        /\ Sound([r EXCEPT !.pc = "issue", !.tenant = t, !.role = "owner"], n)
        /\ r.email \in Emails
    BY <1>0, <1>5, ZenonT(60) DEF CreateTenantWithOwner, Flights, Sound, Accounts, Ops, Stages, Roles
  <2>3. members' \in [Tenants \X Emails -> Roles \cup {None}]
    BY <2>1, <2>2 DEF Grant, TypeOK, Roles
  <2> QED BY <1>0, <1>5, <2>1, <2>2, <2>3, MoveType, SMTT(60) DEF CreateTenantWithOwner, TypeOK
<1>6. CASE SelectMembership(q)
  <2>1. PICK f \in Flights : Move(q, f) /\ Sound(f, n)
    <3>1. CASE Fail(q)
      BY <1>0, <3>1, IdleIsSound
    <3>2. CASE ~ Fail(q)
      <4>1. PICK t \in MembershipsForUser(r.email) :
              Move(q, [r EXCEPT !.pc = "issue", !.tenant = t, !.role = members[<<t, r.email>>]])
        BY <1>6, <3>2 DEF SelectMembership
      <4>2. r.email \in Emails /\ t \in Tenants /\ members[<<t, r.email>>] \in Roles
        BY <1>0, <1>6, <4>1, ZenonT(60)
        DEF SelectMembership, MembershipsForUser, TypeOK, Sound, Accounts, Flights, Ops
      <4> DEFINE f == [r EXCEPT !.pc = "issue", !.tenant = t, !.role = members[<<t, r.email>>]]
      <4>3. f \in Flights /\ Sound(f, n)
        BY <1>0, <1>6, <4>2, ZenonT(60) DEF SelectMembership, Flights, Sound, Accounts, Ops, Stages
      <4> QED BY <4>1, <4>3
    <3> QED BY <3>1, <3>2
  <2> QED BY <1>6, <2>1, TypeFrame DEF SelectMembership
<1>7. CASE AcceptInvitation(q)
  <2>1. PICK f \in Flights : Move(q, f) /\ Sound(f, n)
    BY <1>0, <1>7, IdleIsSound DEF AcceptInvitation, Flights, Sound, Accounts, Ops, Stages
  <2>2. r.op = "accept"
    BY <1>0, <1>7 DEF AcceptInvitation, Flights, Sound, Ops, Accounts
  <2>3. members' \in [Tenants \X Emails -> Roles \cup {None}]
    BY <1>0, <1>7, <2>2 DEF AcceptInvitation, Grant, TypeOK, Sound, Accounts
  <2>4. invites' \in [Invites -> InviteRows]
    BY <1>0, <1>7, <2>2 DEF AcceptInvitation, TypeOK, Sound, InviteRows
  <2> QED BY <1>0, <1>7, <2>1, <2>3, <2>4, MoveType DEF AcceptInvitation, TypeOK
<1>8. CASE IssueFor(q)
  <2>1. r.tenant \in Tenants /\ r.email \in Emails /\ r.role \in Roles
    BY <1>0, <1>8 DEF IssueFor, Sound, Accounts, Flights, Ops
  <2>2. sessions' \in Seq(SessionRows) /\ Len(sessions') = n + 1
    <3>1. sessions \in Seq(SessionRows) /\ n + 1 \in Nat \ {0}
      BY <1>0 DEF TypeOK
    <3>2. sessions' = Insert(sessions, Claims(r.tenant, r.email, r.role), n + 1)
      BY <1>8 DEF IssueFor
    <3> DEFINE row == RefreshToken(Claims(r.tenant, r.email, r.role), n + 1)
    <3>3. row \in SessionRows
      BY <2>1, <3>1, RefreshTokenType
    <3>4. sessions' = Append(sessions, row)
      BY <3>2 DEF Insert
    <3> HIDE DEF row
    <3> QED BY <3>1, <3>3, <3>4
  <2> QED BY <1>0, <1>8, <2>2, IdleIsSound, MoveType DEF IssueFor, TypeOK
<1>9. CASE RevokeSessionFamily(q)
  <2>1. sessions' \in Seq(SessionRows) /\ Len(sessions') = n
    <3>1. \A s \in 1..n : sessions[s] \in SessionRows
      BY <1>0 DEF TypeOK
    <3>2. sessions' \in [1..n -> SessionRows]
      BY <1>0, <1>9, <3>1, ZenonT(60) DEF RevokeSessionFamily, SessionRows
    <3> QED BY <1>0, <3>2
  <2> QED BY <1>0, <1>9, <2>1, IdleIsSound, MoveType DEF RevokeSessionFamily, TypeOK
<1>10. CASE RotateSession(q)
  <2>1. r.of \in 1..n /\ sessions[r.of] \in SessionRows /\ r.role \in Roles \cup {None}
    BY <1>0, <1>10 DEF RotateSession, Sound, TypeOK, Flights, Ops, Accounts
  <2>2. [sessions EXCEPT ![r.of].revoked = TRUE] \in Seq(SessionRows)
        /\ Len([sessions EXCEPT ![r.of].revoked = TRUE]) = n
    <3>1. \A s \in 1..n : sessions[s] \in SessionRows
      BY <1>0 DEF TypeOK
    <3>2. [sessions EXCEPT ![r.of].revoked = TRUE] \in [1..n -> SessionRows]
      <4>1. [sessions[r.of] EXCEPT !.revoked = TRUE] \in SessionRows
        BY <2>1 DEF SessionRows
      <4> QED BY <1>0, <3>1, <4>1 DEF TypeOK
    <3> DEFINE ss == [sessions EXCEPT ![r.of].revoked = TRUE]
    <3>3. ss \in [1..n -> SessionRows]
      BY <3>2
    <3> HIDE DEF ss, n
    <3>4. ss \in Seq(SessionRows) /\ Len(ss) = n
      BY <1>0, <3>3, SequenceOfRows
    <3> QED BY <3>4 DEF ss
  <2>3. sessions' \in Seq(SessionRows) /\ Len(sessions') = n + 1
    <3> DEFINE s == sessions[r.of]
               ss == [sessions EXCEPT ![r.of].revoked = TRUE]
    <3>1. s.tenant \in Tenants /\ s.email \in Emails /\ s.family \in Nat \ {0}
      BY <2>1 DEF SessionRows
    <3>2. sessions' = Insert(ss, Claims(s.tenant, s.email, r.role), s.family)
      BY <1>10 DEF RotateSession
    <3>3. ss \in Seq(SessionRows) /\ Len(ss) = n
      BY <2>2
    <3> DEFINE row == RefreshToken(Claims(s.tenant, s.email, r.role), s.family)
    <3>4. row \in SessionRows
      BY <2>1, <3>1, RefreshTokenType
    <3>5. sessions' = Append(ss, row)
      BY <3>2 DEF Insert
    <3> HIDE DEF row, ss
    <3> QED BY <3>3, <3>4, <3>5
  <2>4. /\ req' \in [Requests -> Flights]
        /\ \A p \in Requests : Sound(req'[p], n + 1)
    BY <1>0, <1>10, IdleIsSound, MoveType, SMTT(60) DEF RotateSession
  <2> QED BY <1>10, <2>3, <2>4, ZenonT(60) DEF RotateSession, TypeOK
<1>11. CASE Abandon(q)
  BY <1>0, <1>11, IdleIsSound, MoveType DEF Abandon, TypeOK
<1>12. ASSUME NEW perm \in Asked, KeyPasses(q, perm) PROVE TypeOK'
  <2>1. PICK f \in Flights : Move(q, f) /\ Sound(f, n)
    <3> DEFINE f == [r EXCEPT !.pc = "handler", !.email = perm]
    <3>1. r.op = "key"
      BY <1>0, <1>12 DEF KeyPasses, Flights, Sound, Ops, Accounts
    <3>2. f \in Flights /\ Sound(f, n)
      BY <1>0, <3>1, ZenonT(60) DEF Flights, Sound, Accounts, Ops, Stages
    <3> QED BY <1>12, <3>2 DEF KeyPasses
  <2> QED BY <1>12, <2>1, TypeFrame DEF KeyPasses
<1> QED BY <1>1, <1>2, <1>3, <1>4, <1>5, <1>6, <1>7, <1>8, <1>9, <1>10, <1>11, <1>12 DEF Step

\* Handler.Refresh of a session that is there.
LEMMA TypeRefresh ==
  ASSUME TypeOK, NEW q \in Requests, NEW s \in DOMAIN sessions, Refresh(q, s)
  PROVE  TypeOK'
<1> DEFINE next == RefreshNext(s)
           role == members[<<sessions[s].tenant, sessions[s].email>>]
           f == [Idle EXCEPT !.op = "refresh", !.pc = next, !.of = s, !.role = role]
<1>1. Len(sessions) \in Nat /\ s \in 1..Len(sessions) /\ sessions[s] \in SessionRows
  BY DEF TypeOK
<1>2. role \in Roles \cup {None}
  BY <1>1 DEF TypeOK, SessionRows
<1>3. next \in {"rotate", "reuse"}
  BY DEF RefreshNext
<1>4. Move(q, f)
  BY DEF Refresh, SessionByRefreshHash, Idle
<1> HIDE DEF next, role
<1>5. Idle \in Flights
  BY <1>1, IdleIsSound
<1>6. f \in Flights
  <2>1. "refresh" \in Ops /\ next \in Stages /\ s \in Nat
    BY <1>1, <1>3 DEF Ops, Stages
  <2> QED BY <1>2, <1>5, <2>1 DEF Flights
<1>7. f.op = "refresh" /\ f.pc = next /\ f.of = s
  BY <1>5 DEF Flights
<1> HIDE DEF f
<1>8. Sound(f, Len(sessions))
  BY <1>1, <1>3, <1>7 DEF Sound, Accounts
<1> QED BY <1>4, <1>6, <1>8, TypeFrame DEF Refresh

LEMMA TypeStep ==
  ASSUME TypeOK, [Next]_vars
  PROVE  TypeOK'
<1>1. ASSUME NEW q \in Requests, Step(q) PROVE TypeOK'
  BY <1>1, TypeStepOf
<1>2. ASSUME NEW q \in Requests,
             \/ \E e \in Emails : Register(q, e) \/ Login(q, e)
             \/ \E e \in Emails, g \in GitHubIds : GitHubCallback(q, g, e)
             \/ \E i \in Invites : AcceptInvite(q, i)
             \/ \E k \in Keys : AuthenticateAPIKey(q, k)
      PROVE  TypeOK'
  BY <1>2, TypeArrivals
<1>3. ASSUME NEW q \in Requests, NEW s \in DOMAIN sessions, Refresh(q, s) PROVE TypeOK'
  BY <1>3, TypeRefresh
<1>4. ASSUME NEW s \in DOMAIN sessions, Logout(s) PROVE TypeOK'
  <2> DEFINE ss == [sessions EXCEPT ![s].revoked = TRUE]
             n == Len(sessions)
  <2>1. n \in Nat /\ DOMAIN sessions = 1..n /\ \A t \in 1..n : sessions[t] \in SessionRows
    BY DEF TypeOK
  <2>2. [sessions[s] EXCEPT !.revoked = TRUE] \in SessionRows
    BY <2>1 DEF SessionRows
  <2>3. ss \in [1..n -> SessionRows]
    BY <2>1, <2>2 DEF TypeOK
  <2> HIDE DEF ss, n
  <2>4. ss \in Seq(SessionRows) /\ Len(ss) = n
    BY <2>1, <2>3, SequenceOfRows
  <2>5. sessions' = ss /\ UNCHANGED <<users, members, invites, keys, req>>
    BY <1>4 DEF Logout, ss
  <2> QED BY <2>4, <2>5 DEF TypeOK, n
<1>5. ASSUME NEW i \in Invites, NEW e \in Emails, CreateInvite(i, e) PROVE TypeOK'
  BY <1>5, ZenonT(60) DEF CreateInvite, TypeOK, InviteRows
<1>6. ASSUME NEW k \in Keys, NEW role \in Roles, RetireAPIKey(k, role) PROVE TypeOK'
  BY <1>6 DEF RetireAPIKey, TypeOK, KeyRows
<1>7. ASSUME NEW k \in Keys, NEW role \in Roles, NEW scopes \in KeyScopes,
             CreateAPIKey(k, scopes, role)
      PROVE TypeOK'
  BY <1>7 DEF CreateAPIKey, Mint, TypeOK, KeyRows
<1>8. CASE UNCHANGED vars
  BY <1>8 DEF vars, TypeOK
<1> QED BY <1>1, <1>2, <1>3, <1>4, <1>5, <1>6, <1>7, <1>8 DEF Next

\* The tables keep their types, and a request knows at each step what the step
\* relies on: the account it is for, the session it refreshes, the key it uses.
THEOREM TypeCorrect == Spec => []TypeOK
<1> QED BY TypeInit, TypeStep, PTL DEF Spec

(***************************************************************************)
(* Invitations                                                             *)
(***************************************************************************)
\* An invitation was accepted once or not at all, as its state says.
InviteInv ==
  \A i \in Invites : invites[i].uses = IF invites[i].state = "accepted" THEN 1 ELSE 0

\* What a step that writes no invitation does to InviteInv.
LEMMA InviteStep ==
  ASSUME TypeOK, InviteInv, [Next]_vars
  PROVE  InviteInv'
<1>1. ASSUME NEW q \in Requests, AcceptInvitation(q) PROVE InviteInv'
  <2>1. req[q].of \in Invites
    BY <1>1 DEF AcceptInvitation, TypeOK, Flights, Sound, Ops, Accounts
  <2>2. CASE Usable(req[q].of)
    <3> DEFINE i == req[q].of
    <3>1. invites' = [invites EXCEPT ![i] = [state |-> "accepted", uses |-> invites[i].uses + 1]]
      BY <1>1, <2>2 DEF AcceptInvitation
    <3>2. invites[i].uses = 0
      BY <2>1, <2>2 DEF Usable, InviteInv
    <3>3. invites' = [invites EXCEPT ![i] = [state |-> "accepted", uses |-> 1]]
      BY <3>1, <3>2
    <3> HIDE DEF i
    <3> QED BY <3>3 DEF InviteInv, TypeOK
  <2>3. CASE ~ Usable(req[q].of)
    BY <1>1, <2>3 DEF AcceptInvitation, InviteInv
  <2> QED BY <2>2, <2>3
<1>2. ASSUME NEW i \in Invites, NEW e \in Emails, CreateInvite(i, e) PROVE InviteInv'
  BY <1>2, SMTT(60) DEF CreateInvite, InviteInv, TypeOK, InviteRows
<1>3. CASE UNCHANGED invites
  BY <1>3 DEF InviteInv
<1>4. ASSUME NEW q \in Requests, Step(q), ~ AcceptInvitation(q) PROVE UNCHANGED invites
  BY <1>4, ZenonT(60) DEF Step, FindUser, ResolveGitHubUser, LinkGitHubIdentity, CreateUser,
     CreateTenantWithOwner, SelectMembership, IssueFor, RevokeSessionFamily, RotateSession,
     Abandon, KeyPasses
<1>5. ASSUME NEW q \in Requests,
             \/ \E e \in Emails : Register(q, e) \/ Login(q, e)
             \/ \E e \in Emails, g \in GitHubIds : GitHubCallback(q, g, e)
             \/ \E i \in Invites : AcceptInvite(q, i)
             \/ \E s \in DOMAIN sessions : Refresh(q, s)
             \/ \E k \in Keys : AuthenticateAPIKey(q, k)
      PROVE  UNCHANGED invites
  BY <1>5 DEF Register, Login, GitHubCallback, AcceptInvite, Refresh, AuthenticateAPIKey, Arrive
<1>6. CASE \/ \E s \in DOMAIN sessions : Logout(s)
           \/ \E k \in Keys, role \in Roles :
                RetireAPIKey(k, role) \/ \E scopes \in KeyScopes : CreateAPIKey(k, scopes, role)
  BY <1>3, <1>6 DEF Logout, RetireAPIKey, CreateAPIKey
<1> QED BY <1>1, <1>2, <1>3, <1>4, <1>5, <1>6 DEF Next, vars

\* However many requests found an invitation usable, one of them spends it.
THEOREM InvitationIsSpentOnce == Spec => []InviteIsSpentOnce
<1>1. Init => InviteInv
  BY DEF Init, InviteInv
<1>2. InviteInv => InviteIsSpentOnce
  BY DEF InviteInv, InviteIsSpentOnce
<1> QED BY <1>1, <1>2, InviteStep, TypeInit, TypeStep, PTL DEF Spec

(***************************************************************************)
(* Linked GitHub accounts                                                  *)
(***************************************************************************)
\* Only an account that is there is linked, or about to be.
LinkInv ==
  /\ \A e \in Emails : users[e].github # None => users[e].there
  /\ \A q \in Requests : req[q].pc = "link" => users[req[q].email].there

\* The links that are there stay, and so do the accounts.
LinksStay ==
  \A e \in Emails :
    /\ users[e].github # None => users'[e].github = users[e].github
    /\ users[e].there => users'[e].there
    /\ users'[e].github # None => users'[e].there

\* What a step that does not look an account up does to LinkInv.
LEMMA LinkFrame ==
  ASSUME TypeOK, LinkInv, LinksStay,
         \A p \in Requests : req'[p].pc = "link" =>
           req[p].pc = "link" /\ req'[p].email = req[p].email
  PROVE  LinkInv'
<1>1. \A p \in Requests : req[p].pc = "link" => req[p].email \in Emails
  BY DEF TypeOK, Flights, Sound, Ops, Accounts
<1> QED BY <1>1 DEF LinkInv, LinksStay

\* Of the steps, LinkGitHubIdentity and CreateUser write accounts.
LEMMA AccountsWritten ==
  ASSUME TypeOK, LinkInv, [Next]_vars
  PROVE  LinksStay
<1>1. ASSUME NEW q \in Requests, LinkGitHubIdentity(q) PROVE LinksStay
  <2> DEFINE e == req[q].email
             g == req[q].github
  <2>1. e \in Emails /\ users[e].there /\ g \in GitHubIds \cup {None}
    BY <1>1 DEF LinkGitHubIdentity, LinkInv, TypeOK, Flights, Sound, Ops, Accounts
  <2>2. users' = users \/ (users[e].github \in {None, g} /\ users' = [users EXCEPT ![e].github = g])
    BY <1>1 DEF LinkGitHubIdentity
  <2> HIDE DEF e, g
  <2> QED BY <2>1, <2>2, SMTT(60) DEF LinksStay, LinkInv, TypeOK, UserRows
<1>2. ASSUME NEW q \in Requests, CreateUser(q) PROVE LinksStay
  <2> DEFINE e == req[q].email
             row == [password |-> req[q].github = None, github |-> req[q].github, there |-> TRUE]
  <2>1. users' = users \/ (~ users[e].there /\ users' = [users EXCEPT ![e] = row])
    BY <1>2 DEF CreateUser
  <2>2. row.there
    OBVIOUS
  <2> HIDE DEF e, row
  <2> QED BY <2>1, <2>2 DEF LinksStay, LinkInv, TypeOK, UserRows
<1>3. CASE UNCHANGED users
  BY <1>3, SMTT(60) DEF LinksStay, LinkInv
<1>4. ASSUME NEW q \in Requests, Step(q), ~ LinkGitHubIdentity(q), ~ CreateUser(q)
      PROVE  UNCHANGED users
  BY <1>4, ZenonT(60) DEF Step, FindUser, ResolveGitHubUser, AcceptInvitation,
     CreateTenantWithOwner, SelectMembership, IssueFor, RevokeSessionFamily, RotateSession,
     Abandon, KeyPasses
<1>5. ASSUME NEW q \in Requests,
             \/ \E e \in Emails : Register(q, e) \/ Login(q, e)
             \/ \E e \in Emails, g \in GitHubIds : GitHubCallback(q, g, e)
             \/ \E i \in Invites : AcceptInvite(q, i)
             \/ \E s \in DOMAIN sessions : Refresh(q, s)
             \/ \E k \in Keys : AuthenticateAPIKey(q, k)
      PROVE  UNCHANGED users
  BY <1>5 DEF Register, Login, GitHubCallback, AcceptInvite, Refresh, AuthenticateAPIKey, Arrive
<1>6. CASE \/ \E s \in DOMAIN sessions : Logout(s)
           \/ \E i \in Invites : \E e \in Emails : CreateInvite(i, e)
           \/ \E k \in Keys, role \in Roles :
                RetireAPIKey(k, role) \/ \E scopes \in KeyScopes : CreateAPIKey(k, scopes, role)
  BY <1>3, <1>6 DEF Logout, CreateInvite, RetireAPIKey, CreateAPIKey
<1> QED BY <1>1, <1>2, <1>3, <1>4, <1>5, <1>6 DEF Next, vars

LEMMA LinkStep ==
  ASSUME TypeOK, LinkInv, [Next]_vars
  PROVE  LinkInv'
<1>1. ASSUME NEW q \in Requests, FindUser(q) PROVE LinkInv'
  <2>1. users' = users /\ \A p \in Requests \ {q} : req'[p] = req[p]
    BY <1>1, StepLands DEF FindUser, Step, Lands
  <2>2. req'[q].pc = "link" => req'[q].email = req[q].email /\ users[req[q].email].there
    <3>1. CASE Fail(q)
      BY <3>1, Ending
    <3>2. ASSUME NEW found, Goto(q, AfterFind(req[q].op, found)), found => users[req[q].email].there
          PROVE  req'[q].pc = "link" =>
                   req'[q].email = req[q].email /\ users[req[q].email].there
      <4>1. found \/ AfterFind(req[q].op, found) # "link"
        <5>1. req[q].op \in Accounts
          BY <1>1 DEF FindUser, TypeOK, Flights, Sound, Ops, Accounts
        <5> QED BY <5>1 DEF Accounts, AfterFind, RegisterNext, LoginNext, AcceptNext, GitHubNext
      <4> QED BY <3>2, <4>1, Passing
    <3> QED BY <1>1, <3>1, <3>2 DEF FindUser, FindUserByEmail
  <2> QED BY <2>1, <2>2 DEF LinkInv
<1>2. LinksStay
  BY AccountsWritten
<1>3. ASSUME NEW q \in Requests, Step(q), ~ FindUser(q) PROVE LinkInv'
  <2>1. \A p \in Requests \ {q} : req'[p] = req[p]
    BY <1>3, StepLands DEF Lands
  <2>2. req'[q].pc # "link"
    BY <1>3, StepLands DEF Lands, Signing
  <2> QED BY <1>2, <2>1, <2>2, LinkFrame
<1>4. ASSUME NEW q \in Requests,
             \/ Arrivals(q)
             \/ \E s \in DOMAIN sessions : Refresh(q, s)
             \/ \E k \in Keys : AuthenticateAPIKey(q, k)
      PROVE  LinkInv'
  <2>1. req'[q].pc # "link" /\ \A p \in Requests \ {q} : req'[p] = req[p]
    <3>1. CASE Arrivals(q)
      BY <3>1, SignInArrives, Landing
    <3>2. ASSUME NEW s \in DOMAIN sessions, Refresh(q, s)
          PROVE  req'[q].pc # "link" /\ \A p \in Requests \ {q} : req'[p] = req[p]
      BY <3>2, RefreshArrives DEF RefreshNext
    <3> QED BY <1>4, <3>1, <3>2, KeyArrives
  <2> QED BY <1>2, <2>1, LinkFrame
<1>5. CASE \/ \E s \in DOMAIN sessions : Logout(s)
           \/ \E i \in Invites : \E e \in Emails : CreateInvite(i, e)
           \/ \E k \in Keys, role \in Roles :
                RetireAPIKey(k, role) \/ \E scopes \in KeyScopes : CreateAPIKey(k, scopes, role)
  BY <1>2, <1>5, LinkFrame DEF Logout, CreateInvite, RetireAPIKey, CreateAPIKey
<1>6. CASE UNCHANGED vars
  BY <1>2, <1>6, LinkFrame DEF vars
<1> QED BY <1>1, <1>3, <1>4, <1>5, <1>6 DEF Next, Arrivals

\* No sign-in, whatever it had read, moves an account from one GitHub identity
\* to another.
THEOREM LinkStays == Spec => LinkIsPermanent
<1>1. Init => LinkInv
  BY DEF Init, LinkInv, NoUser, Idle
<1>2. ASSUME TypeOK, LinkInv, [Next]_vars
      PROVE  [\A e \in Emails : users[e].github # None => users'[e].github = users[e].github]_vars
  BY <1>2, AccountsWritten DEF LinksStay
<1> QED BY <1>1, <1>2, LinkStep, TypeInit, TypeStep, PTL DEF Spec, LinkIsPermanent

(***************************************************************************)
(* API keys                                                                *)
(***************************************************************************)
\* The rows of the matrix for administrators and owners are theirs alone.
LEMMA RowsAreApart ==
  ASSUME NEW p \in AdminRows \cup OwnerRows
  PROVE  p \notin ViewerRows /\ p \notin AnalystRows
<1>1. CASE p \in AdminRows
  BY <1>1 DEF AdminRows, ViewerRows, AnalystRows
<1>2. CASE p \in OwnerRows
  BY <1>2 DEF OwnerRows, ViewerRows, AnalystRows
<1> QED BY <1>1, <1>2

\* No analyst manages the tenant.
LEMMA AnalystsDoNotManage ==
  ASSUME NEW p, Allow("analyst", p)
  PROVE  p \notin AdminRows \cup OwnerRows
<1> SUFFICES ASSUME p \in AdminRows \cup OwnerRows PROVE FALSE
  OBVIOUS
<1>1. matrix(p) \in {3, 4}
  BY RowsAreApart DEF matrix
<1>2. rank("analyst") = 2
  BY DEF rank
<1> QED BY <1>1, <1>2 DEF Allow

\* A key in use was minted, with the scopes it has now, and passed no route it
\* has no scope for.
KeyInv ==
  /\ \A k \in Keys : keys[k].state # "none" => keys[k].scopes # {}
  /\ \A q \in Requests : req[q].op = "key" =>
       /\ keys[req[q].of].state # "none"
       /\ req[q].pc = "handler" =>
            /\ scopePermits(keys[req[q].of].scopes, req[q].email)
            /\ req[q].email \notin AdminRows \cup OwnerRows

\* A key that exists keeps its scopes.
KeysStay ==
  \A k \in Keys :
    /\ keys'[k].state # "none" => keys'[k].scopes # {}
    /\ keys[k].state # "none" => keys'[k].state # "none" /\ keys'[k].scopes = keys[k].scopes

LEMMA KeysWritten ==
  ASSUME TypeOK, KeyInv, [Next]_vars
  PROVE  KeysStay
<1>1. ASSUME NEW k \in Keys, NEW role \in Roles, RetireAPIKey(k, role) PROVE KeysStay
  BY <1>1 DEF RetireAPIKey, KeysStay, KeyInv, TypeOK, KeyRows
<1>2. ASSUME NEW k \in Keys, NEW role \in Roles, NEW scopes \in KeyScopes,
             CreateAPIKey(k, scopes, role)
      PROVE KeysStay
  BY <1>2 DEF CreateAPIKey, Mint, KeysStay, KeyInv, TypeOK, KeyRows
<1>3. CASE UNCHANGED keys
  BY <1>3, SMTT(60) DEF KeysStay, KeyInv
<1>4. ASSUME NEW q \in Requests, Step(q) PROVE UNCHANGED keys
  BY <1>4, ZenonT(60) DEF Step, FindUser, ResolveGitHubUser, LinkGitHubIdentity, CreateUser,
     AcceptInvitation, CreateTenantWithOwner, SelectMembership, IssueFor, RevokeSessionFamily,
     RotateSession, Abandon, KeyPasses
<1>5. ASSUME NEW q \in Requests,
             \/ \E e \in Emails : Register(q, e) \/ Login(q, e)
             \/ \E e \in Emails, g \in GitHubIds : GitHubCallback(q, g, e)
             \/ \E i \in Invites : AcceptInvite(q, i)
             \/ \E s \in DOMAIN sessions : Refresh(q, s)
             \/ \E k \in Keys : AuthenticateAPIKey(q, k)
      PROVE  UNCHANGED keys
  BY <1>5 DEF Register, Login, GitHubCallback, AcceptInvite, Refresh, AuthenticateAPIKey, Arrive
<1>6. CASE \/ \E s \in DOMAIN sessions : Logout(s)
           \/ \E i \in Invites : \E e \in Emails : CreateInvite(i, e)
  BY <1>3, <1>6 DEF Logout, CreateInvite
<1> QED BY <1>1, <1>2, <1>3, <1>4, <1>5, <1>6 DEF Next, vars

\* What a step that lets no key through does to KeyInv.
LEMMA KeyFrame ==
  ASSUME TypeOK, KeyInv, KeysStay, NEW q \in Requests,
         \A p \in Requests \ {q} : req'[p] = req[p],
         req'[q] = req[q] \/ req'[q].op # "key"
  PROVE  KeyInv'
<1>1. \A p \in Requests : req[p].op = "key" => req[p].of \in Keys
  BY DEF TypeOK, Sound
<1> QED BY <1>1 DEF KeyInv, KeysStay, scopePermits

LEMMA KeyStep ==
  ASSUME TypeOK, KeyInv, [Next]_vars
  PROVE  KeyInv'
<1>0. KeysStay
  BY KeysWritten
<1>1. ASSUME NEW q \in Requests, NEW perm \in Asked, KeyPasses(q, perm) PROVE KeyInv'
  <2> DEFINE k == req[q].of
  <2>1. req[q] \in Flights /\ req[q].op = "key" /\ k \in Keys /\ req[q].role = "analyst"
    BY <1>1 DEF KeyPasses, TypeOK, Flights, Sound, Ops, Accounts
  <2>2. /\ req'[q] = [req[q] EXCEPT !.pc = "handler", !.email = perm]
        /\ \A p \in Requests \ {q} : req'[p] = req[p]
    BY <1>1, Landing DEF KeyPasses
  <2>3. req'[q].of = k /\ req'[q].email = perm
    BY <2>1, <2>2 DEF Flights
  <2>4. keys[k].state # "none" /\ keys[k].scopes # {}
    BY <2>1 DEF KeyInv
  <2>5. Allow("analyst", perm) /\ scopePermits(keys[k].scopes, perm)
    BY <1>1, <2>1, <2>4 DEF KeyPasses, Authorize
  <2>6. perm \notin AdminRows \cup OwnerRows
    BY <2>5, AnalystsDoNotManage
  <2>7. keys' = keys
    BY <1>1 DEF KeyPasses
  <2> HIDE DEF k
  <2> QED BY <2>2, <2>3, <2>4, <2>5, <2>6, <2>7, ZenonT(60) DEF KeyInv, scopePermits
<1>2. ASSUME NEW q \in Requests, Step(q), ~ \E perm \in Asked : KeyPasses(q, perm) PROVE KeyInv'
  <2>1. req'[q].pc \notin {"guard", "handler"} /\ \A p \in Requests \ {q} : req'[p] = req[p]
    BY <1>2, StepLands DEF Lands, Signing
  <2>2. req'[q].op # "key"
    BY <1>2, <2>1, TypeStepOf DEF TypeOK, Sound
  <2> QED BY <1>0, <2>1, <2>2, KeyFrame
<1>3. ASSUME NEW q \in Requests, NEW k \in Keys, AuthenticateAPIKey(q, k) PROVE KeyInv'
  <2>1. keys[k].state = "active" /\ keys' = keys
    BY <1>3 DEF AuthenticateAPIKey, Arrive, Verify
  <2>2. /\ req'[q].of = k /\ req'[q].pc = "guard"
        /\ \A p \in Requests \ {q} : req'[p] = req[p]
    BY <1>3, KeyArrives
  <2> QED BY <2>1, <2>2 DEF KeyInv
<1>4. ASSUME NEW q \in Requests, Arrivals(q) \/ \E s \in DOMAIN sessions : Refresh(q, s)
      PROVE  KeyInv'
  <2>1. /\ req'[q].pc \in {"find", "findgh", "rotate", "reuse"}
        /\ \A p \in Requests \ {q} : req'[p] = req[p]
    <3>1. CASE Arrivals(q)
      BY <3>1, SignInArrives, Landing
    <3>2. ASSUME NEW s \in DOMAIN sessions, Refresh(q, s)
          PROVE  /\ req'[q].pc \in {"find", "findgh", "rotate", "reuse"}
                 /\ \A p \in Requests \ {q} : req'[p] = req[p]
      BY <3>2, RefreshArrives DEF RefreshNext
    <3> QED BY <1>4, <3>1, <3>2
  <2>2. req'[q].op # "key"
    BY <2>1, TypeStep DEF TypeOK, Sound
  <2> QED BY <1>0, <2>1, <2>2, KeyFrame
<1>5. CASE UNCHANGED req
  <2>1. \A p \in Requests : req[p].op = "key" => req[p].of \in Keys
    BY DEF TypeOK, Sound
  <2> QED BY <1>0, <1>5, <2>1 DEF KeyInv, KeysStay, scopePermits
<1>6. CASE \/ \E s \in DOMAIN sessions : Logout(s)
           \/ \E i \in Invites : \E e \in Emails : CreateInvite(i, e)
           \/ \E k \in Keys, role \in Roles :
                RetireAPIKey(k, role) \/ \E scopes \in KeyScopes : CreateAPIKey(k, scopes, role)
  BY <1>5, <1>6 DEF Logout, CreateInvite, RetireAPIKey, CreateAPIKey
<1> QED BY <1>1, <1>2, <1>3, <1>4, <1>5, <1>6 DEF Next, vars, Arrivals

\* A key reaches the handlers its scopes name, and none that manages a tenant.
THEOREM KeysStayNarrow == Spec => []KeyStaysNarrow
<1>1. Init => KeyInv
  BY DEF Init, KeyInv, Idle
<1>2. TypeOK /\ KeyInv => KeyStaysNarrow
  <2> SUFFICES ASSUME TypeOK, KeyInv, NEW q \in Requests, req[q].pc = "handler"
               PROVE  /\ req[q].email \in {Permission(s) : s \in keys[req[q].of].scopes}
                      /\ req[q].email \notin AdminRows \cup OwnerRows
    BY DEF KeyStaysNarrow
  <2>1. req[q].op = "key"
    BY DEF TypeOK, Flights, Sound, Ops, Accounts
  <2>2. scopePermits(keys[req[q].of].scopes, req[q].email)
    BY <2>1 DEF KeyInv
  <2> QED BY <2>1, <2>2 DEF KeyInv, scopePermits
<1> QED BY <1>1, <1>2, KeyStep, TypeInit, TypeStep, PTL DEF Spec

(***************************************************************************)
(* Chains of refresh tokens                                                *)
(***************************************************************************)
FamilyOf(s) == sessions[s].family

Rotates(q) == req[q].pc = "rotate"

\* A chain is named by its first session. While no two of its refreshes have
\* overlapped, the one under way holds its only living token; one caught in
\* reuse has neither a living token nor a rotation under way.
FamiliesAreThere ==
  /\ \A s \in 1..Len(sessions) : FamilyOf(s) \in 1..Len(sessions)
  /\ caught \subseteq 1..Len(sessions)
OneLives ==
  \A s, t \in 1..Len(sessions) :
    Live(s) /\ Live(t) /\ FamilyOf(s) = FamilyOf(t) /\ s # t => FamilyOf(s) \in raced
CaughtAreDead == \A s \in 1..Len(sessions) : Live(s) => FamilyOf(s) \notin caught
CaughtRest == \A q \in Requests : Rotates(q) => FamilyOf(req[q].of) \notin caught
RotatesTheLiving ==
  \A q \in Requests : Rotates(q) /\ FamilyOf(req[q].of) \notin raced =>
    \A t \in 1..Len(sessions) : Live(t) /\ FamilyOf(t) = FamilyOf(req[q].of) => t = req[q].of
RotatesAlone ==
  \A q, p \in Requests :
    Rotates(q) /\ Rotates(p) /\ p # q /\ FamilyOf(req[p].of) = FamilyOf(req[q].of)
      => FamilyOf(req[q].of) \in raced

ChainInv ==
  /\ FamiliesAreThere /\ OneLives /\ CaughtAreDead
  /\ CaughtRest /\ RotatesTheLiving /\ RotatesAlone

LEMMA Indices ==
  ASSUME TypeOK
  PROVE  /\ Len(sessions) \in Nat /\ DOMAIN sessions = 1..Len(sessions)
         /\ \A s \in 1..Len(sessions) : sessions[s] \in SessionRows
         /\ \A q \in Requests : req[q].pc \in {"rotate", "reuse"} => req[q].of \in 1..Len(sessions)
  BY SMTT(60) DEF TypeOK, Flights, Sound, Ops, Accounts

\* What a step that only ends tokens does to ChainInv.
LEMMA ChainFrame ==
  ASSUME TypeOK, ChainInv,
         Len(sessions') = Len(sessions), UNCHANGED <<raced, caught>>,
         \A s \in 1..Len(sessions) :
           sessions'[s].family = sessions[s].family /\ (sessions[s].revoked => sessions'[s].revoked),
         \A q \in Requests : req'[q].pc = "rotate" => req[q].pc = "rotate" /\ req'[q].of = req[q].of
  PROVE  ChainInv'
<1>0. \A q \in Requests : Rotates(q) => req[q].of \in 1..Len(sessions)
  BY Indices DEF Rotates
<1>c1. FamiliesAreThere'
  BY <1>0 DEF ChainInv, FamiliesAreThere, Live, FamilyOf, Rotates
<1>c2. OneLives'
  BY <1>0 DEF ChainInv, OneLives, FamiliesAreThere, RotatesTheLiving, Live, FamilyOf, Rotates
<1>c3. CaughtAreDead'
  BY <1>0 DEF ChainInv, CaughtAreDead, FamiliesAreThere, CaughtRest, Live, FamilyOf, Rotates
<1>c4. CaughtRest'
  BY <1>0 DEF ChainInv, CaughtRest, FamiliesAreThere, CaughtAreDead, Live, FamilyOf, Rotates
<1>c5. RotatesTheLiving'
  BY <1>0
  DEF ChainInv, RotatesTheLiving, OneLives, FamiliesAreThere, RotatesAlone, Live, FamilyOf,
       Rotates
<1>c6. RotatesAlone'
  BY <1>0, SMTT(60) DEF ChainInv, RotatesAlone, RotatesTheLiving, Live, FamilyOf, Rotates
<1> QED BY <1>c1, <1>c2, <1>c3, <1>c4, <1>c5, <1>c6 DEF ChainInv

LEMMA ChainStep ==
  ASSUME TypeOK, ChainInv, [Next]_vars
  PROVE  ChainInv'
<1> DEFINE n == Len(sessions)
<1>0. /\ n \in Nat /\ DOMAIN sessions = 1..n
      /\ \A s \in 1..n : sessions[s] \in SessionRows
      /\ \A q \in Requests : req[q].pc \in {"rotate", "reuse"} => req[q].of \in 1..n
  BY Indices
<1>1. ASSUME NEW q \in Requests, IssueFor(q) PROVE ChainInv'
  <2> DEFINE row == RefreshToken(Claims(req[q].tenant, req[q].email, req[q].role), n + 1)
  <2>1. sessions' = Append(sessions, row) /\ UNCHANGED <<raced, caught>>
    BY <1>1 DEF IssueFor, Insert
  <2>2. row.family = n + 1 /\ row.revoked = FALSE
    BY DEF RefreshToken
  <2>3. \A p \in Requests : req'[p].pc = "rotate" => req[p].pc = "rotate" /\ req'[p].of = req[p].of
    BY <1>1, Ending DEF IssueFor
  <2> HIDE DEF row
  <2>4. /\ Len(sessions') = n + 1 /\ sessions'[n + 1] = row
        /\ \A s \in 1..n : sessions'[s] = sessions[s]
    BY <1>0, <2>1 DEF TypeOK
  <2> HIDE DEF n
  <2>c1. FamiliesAreThere'
    BY <1>0, <2>1, <2>2, <2>3, <2>4 DEF ChainInv, FamiliesAreThere, Live, FamilyOf, Rotates, n
  <2>c2. OneLives'
    BY <1>0, <2>1, <2>2, <2>3, <2>4
    DEF ChainInv, OneLives, FamiliesAreThere, RotatesTheLiving, Live, FamilyOf, Rotates, n
  <2>c3. CaughtAreDead'
    BY <1>0, <2>1, <2>2, <2>3, <2>4
    DEF ChainInv, CaughtAreDead, FamiliesAreThere, CaughtRest, Live, FamilyOf, Rotates, n
  <2>c4. CaughtRest'
    BY <1>0, <2>1, <2>2, <2>3, <2>4
    DEF ChainInv, CaughtRest, FamiliesAreThere, CaughtAreDead, Live, FamilyOf, Rotates, n
  <2>c5. RotatesTheLiving'
    BY <1>0, <2>1, <2>2, <2>3, <2>4
    DEF ChainInv, RotatesTheLiving, OneLives, FamiliesAreThere, RotatesAlone, Live, FamilyOf,
         Rotates, n
  <2>c6. RotatesAlone'
    BY <1>0, <2>1, <2>2, <2>3, <2>4, SMTT(60)
    DEF ChainInv, RotatesAlone, RotatesTheLiving, Live, FamilyOf, Rotates, n
  <2> QED BY <2>c1, <2>c2, <2>c3, <2>c4, <2>c5, <2>c6 DEF ChainInv
<1>2. ASSUME NEW q \in Requests, RevokeSessionFamily(q) PROVE ChainInv'
  <2> DEFINE f == FamilyOf(req[q].of)
  <2>1. /\ sessions' = [s \in DOMAIN sessions |-> [sessions[s] EXCEPT
                         !.revoked = @ \/ sessions[s].family = f]]
        /\ caught' = IF Rotating(f) = {} THEN caught \cup {f} ELSE caught
        /\ raced' = raced /\ req[q].of \in 1..n
    BY <1>0, <1>2 DEF RevokeSessionFamily, FamilyOf
  <2> DEFINE row(s) == [sessions[s] EXCEPT !.revoked = @ \/ sessions[s].family = f]
  <2>2. /\ Len(sessions') = n
        /\ \A s \in 1..n : /\ sessions'[s].family = sessions[s].family
                           /\ sessions[s].revoked \/ sessions[s].family = f => sessions'[s].revoked
    <3>1. \A s \in 1..n : row(s) \in SessionRows /\ row(s).family = sessions[s].family
            /\ (sessions[s].revoked \/ sessions[s].family = f => row(s).revoked)
      BY <1>0, ZenonT(60) DEF SessionRows
    <3>2. sessions' = [s \in 1..n |-> row(s)]
      BY <1>0, <2>1
    <3> HIDE DEF row, f, n
    <3>3. sessions' \in [1..n -> SessionRows]
      BY <3>1, <3>2
    <3>4. Len(sessions') = n
      BY <1>0, <3>3, SequenceOfRows
    <3> QED BY <3>1, <3>2, <3>4
  <2>3. \A p \in Requests : req'[p].pc = "rotate" => req[p].pc = "rotate" /\ req'[p].of = req[p].of
    BY <1>2, Ending DEF RevokeSessionFamily
  <2>4. f \in 1..n
    BY <2>1 DEF ChainInv, FamiliesAreThere, OneLives, CaughtRest, RotatesTheLiving, RotatesAlone
  <2>5. caught' \subseteq caught \cup {f}
        /\ (f \in caught' => f \in caught \/ \A p \in Requests : Rotates(p) => FamilyOf(req[p].of) # f)
    BY <2>1 DEF Rotating, Rotates, FamilyOf
  <2>6. \A s \in 1..n : ~ sessions'[s].revoked => ~ sessions[s].revoked /\ sessions[s].family # f
    BY <2>2
  <2>7. raced' = raced /\ f \in 1..n
    BY <2>1, <2>4
  <2> HIDE DEF f, n
  <2>c1. FamiliesAreThere'
    BY <1>0, <2>2, <2>3, <2>5, <2>6, <2>7
    DEF ChainInv, FamiliesAreThere, Live, FamilyOf, Rotates, n
  <2>c2. OneLives'
    BY <1>0, <2>2, <2>3, <2>5, <2>6, <2>7
    DEF ChainInv, OneLives, FamiliesAreThere, RotatesTheLiving, Live, FamilyOf, Rotates, n
  <2>c3. CaughtAreDead'
    BY <1>0, <2>2, <2>3, <2>5, <2>6, <2>7
    DEF ChainInv, CaughtAreDead, FamiliesAreThere, CaughtRest, Live, FamilyOf, Rotates, n
  <2>c4. CaughtRest'
    BY <1>0, <2>2, <2>3, <2>5, <2>6, <2>7
    DEF ChainInv, CaughtRest, FamiliesAreThere, CaughtAreDead, Live, FamilyOf, Rotates, n
  <2>c5. RotatesTheLiving'
    BY <1>0, <2>2, <2>3, <2>5, <2>6, <2>7, SMTT(60)
    DEF ChainInv, RotatesTheLiving, OneLives, FamiliesAreThere, RotatesAlone, Live, FamilyOf,
         Rotates, n
  <2>c6. RotatesAlone'
    BY <1>0, <2>2, <2>3, <2>5, <2>6, <2>7, SMTT(60)
    DEF ChainInv, RotatesAlone, RotatesTheLiving, Live, FamilyOf, Rotates, n
  <2> QED BY <2>c1, <2>c2, <2>c3, <2>c4, <2>c5, <2>c6 DEF ChainInv
<1>3. ASSUME NEW q \in Requests, RotateSession(q) PROVE ChainInv'
  <2> DEFINE o == req[q].of
             ss == [sessions EXCEPT ![o].revoked = TRUE]
             row == RefreshToken(Claims(sessions[o].tenant, sessions[o].email, req[q].role),
                                 sessions[o].family)
  <2>1. o \in 1..n /\ Rotates(q) /\ sessions' = Append(ss, row) /\ UNCHANGED <<raced, caught>>
    BY <1>0, <1>3 DEF RotateSession, Insert, Rotates
  <2>2. row.family = FamilyOf(o) /\ row.revoked = FALSE
    BY DEF RefreshToken, FamilyOf
  <2>3. req'[q].pc = "idle" /\ \A p \in Requests \ {q} : req'[p] = req[p]
    BY <1>3, Ending DEF RotateSession
  <2> HIDE DEF row
  <2>4. /\ Len(sessions') = n + 1 /\ sessions'[n + 1] = row
        /\ \A s \in 1..n : /\ sessions'[s].family = sessions[s].family
                           /\ sessions'[s].revoked = (sessions[s].revoked \/ s = o)
    <3>1. ss \in [1..n -> SessionRows]
      <4>1. [sessions[o] EXCEPT !.revoked = TRUE] \in SessionRows
        BY <1>0, <2>1, ZenonT(60) DEF SessionRows
      <4> QED BY <1>0, <2>1, <4>1 DEF TypeOK
    <3>2. \A s \in 1..n : /\ ss[s].family = sessions[s].family
                          /\ ss[s].revoked = (sessions[s].revoked \/ s = o)
      BY <1>0, <2>1 DEF SessionRows
    <3> HIDE DEF ss, n
    <3>3. ss \in Seq(SessionRows) /\ Len(ss) = n
      BY <1>0, <3>1, SequenceOfRows
    <3> QED BY <1>0, <2>1, <3>2, <3>3
  <2> HIDE DEF ss
  <2>5. \A s \in 1..n : ~ sessions'[s].revoked => Live(s) /\ s # o
    BY <2>4 DEF Live
  <2>6. FamilyOf(o) \notin raced =>
          \A s \in 1..n : Live(s) /\ FamilyOf(s) = FamilyOf(o) => s = o
    BY <2>1 DEF ChainInv, FamiliesAreThere, OneLives, CaughtRest, RotatesTheLiving, RotatesAlone
  <2>7. FamilyOf(o) \notin caught
    BY <2>1 DEF ChainInv, FamiliesAreThere, OneLives, CaughtRest, RotatesTheLiving, RotatesAlone
  <2>8. \A p \in Requests \ {q} : Rotates(p) /\ FamilyOf(req[p].of) = FamilyOf(o)
          => FamilyOf(o) \in raced
    BY <2>1 DEF ChainInv, FamiliesAreThere, OneLives, CaughtRest, RotatesTheLiving, RotatesAlone
  <2>9. \A p \in Requests : req'[p].pc = "rotate" => p # q /\ Rotates(p) /\ req'[p].of = req[p].of
    BY <2>3 DEF Rotates
  <2>10. /\ sessions'[n + 1].family = FamilyOf(o)
         /\ \A s \in 1..(n + 1) : s = n + 1 \/ s \in 1..n
    BY <1>0, <2>2, <2>4
  <2>11. FamilyOf(o) \in 1..n /\ raced' = raced /\ caught' = caught
    BY <2>1 DEF ChainInv, FamiliesAreThere
  <2> HIDE DEF o, n
  <2>c1. FamiliesAreThere'
    BY <1>0, <2>4, <2>5, <2>6, <2>7, <2>8, <2>9, <2>10, <2>11
    DEF ChainInv, FamiliesAreThere, Live, FamilyOf, Rotates, n
  <2>c2. OneLives'
    BY <1>0, <2>4, <2>5, <2>6, <2>7, <2>8, <2>9, <2>10, <2>11
    DEF ChainInv, OneLives, FamiliesAreThere, RotatesTheLiving, Live, FamilyOf, Rotates, n
  <2>c3. CaughtAreDead'
    BY <1>0, <2>4, <2>5, <2>6, <2>7, <2>8, <2>9, <2>10, <2>11
    DEF ChainInv, CaughtAreDead, FamiliesAreThere, CaughtRest, Live, FamilyOf, Rotates, n
  <2>c4. CaughtRest'
    BY <1>0, <2>4, <2>5, <2>6, <2>7, <2>8, <2>9, <2>10, <2>11
    DEF ChainInv, CaughtRest, FamiliesAreThere, CaughtAreDead, Live, FamilyOf, Rotates, n
  <2>c5. RotatesTheLiving'
    BY <1>0, <2>4, <2>5, <2>6, <2>7, <2>8, <2>9, <2>10, <2>11, SMTT(60)
    DEF ChainInv, RotatesTheLiving, OneLives, FamiliesAreThere, RotatesAlone, Live, FamilyOf,
         Rotates, n
  <2>c6. RotatesAlone'
    BY <1>0, <2>4, <2>5, <2>6, <2>7, <2>8, <2>9, <2>10, <2>11, SMTT(60)
    DEF ChainInv, RotatesAlone, RotatesTheLiving, Live, FamilyOf, Rotates, n
  <2> QED BY <2>c1, <2>c2, <2>c3, <2>c4, <2>c5, <2>c6 DEF ChainInv
<1>4. ASSUME NEW q \in Requests, NEW s \in DOMAIN sessions, Refresh(q, s) PROVE ChainInv'
  <2>1. /\ req'[q].of = s /\ (req'[q].pc = "rotate" => Live(s))
        /\ \A p \in Requests \ {q} : req'[p] = req[p]
    BY <1>4, RefreshArrives DEF RefreshNext
  <2>2. /\ sessions' = sessions /\ caught' = caught /\ req[q].pc = "idle"
        /\ raced' = IF Live(s) /\ Rotating(FamilyOf(s)) # {} THEN raced \cup {FamilyOf(s)} ELSE raced
    BY <1>4 DEF Refresh, FamilyOf
  <2>3. Rotating(FamilyOf(s)) = {} => \A p \in Requests : Rotates(p) => FamilyOf(req[p].of) # FamilyOf(s)
    BY DEF Rotating, Rotates, FamilyOf
  <2>4. CASE ~ Live(s)
    BY <1>0, <2>1, <2>2, <2>4, ChainFrame
  <2>5. CASE Live(s)
    <3>c1. FamiliesAreThere'
      BY <1>0, <2>1, <2>2, <2>3, <2>5 DEF ChainInv, FamiliesAreThere, Live, FamilyOf, Rotates
    <3>c2. OneLives'
      BY <1>0, <2>1, <2>2, <2>3, <2>5
      DEF ChainInv, OneLives, FamiliesAreThere, RotatesTheLiving, Live, FamilyOf, Rotates
    <3>c3. CaughtAreDead'
      BY <1>0, <2>1, <2>2, <2>3, <2>5
      DEF ChainInv, CaughtAreDead, FamiliesAreThere, CaughtRest, Live, FamilyOf, Rotates
    <3>c4. CaughtRest'
      BY <1>0, <2>1, <2>2, <2>3, <2>5
      DEF ChainInv, CaughtRest, FamiliesAreThere, CaughtAreDead, Live, FamilyOf, Rotates
    <3>c5. RotatesTheLiving'
      BY <1>0, <2>1, <2>2, <2>3, <2>5
      DEF ChainInv, RotatesTheLiving, OneLives, FamiliesAreThere, RotatesAlone, Live, FamilyOf,
           Rotates
    <3>c6. RotatesAlone'
      BY <1>0, <2>1, <2>2, <2>3, <2>5, SMTT(60)
      DEF ChainInv, RotatesAlone, RotatesTheLiving, Live, FamilyOf, Rotates
    <3> QED BY <3>c1, <3>c2, <3>c3, <3>c4, <3>c5, <3>c6 DEF ChainInv
  <2> QED BY <2>4, <2>5
<1>5. ASSUME NEW s \in DOMAIN sessions, Logout(s) PROVE ChainInv'
  <2>1. /\ Len(sessions') = n
        /\ \A t \in 1..n : /\ sessions'[t].family = sessions[t].family
                           /\ sessions[t].revoked => sessions'[t].revoked
    BY <1>0, <1>5 DEF Logout, SessionRows, TypeOK
  <2> QED BY <1>5, <2>1, ChainFrame DEF Logout
<1>6. ASSUME NEW q \in Requests, Step(q), ~ IssueFor(q), ~ RevokeSessionFamily(q), ~ RotateSession(q)
      PROVE  ChainInv'
  <2>1. UNCHANGED <<sessions, raced, caught>>
    BY <1>6 DEF Step, FindUser, ResolveGitHubUser, LinkGitHubIdentity, CreateUser,
       AcceptInvitation, CreateTenantWithOwner, SelectMembership, Abandon, KeyPasses
  <2>2. req'[q].pc # "rotate" /\ \A p \in Requests \ {q} : req'[p] = req[p]
    BY <1>6, StepLands, SMTT(60) DEF Lands, Signing
  <2> QED BY <2>1, <2>2, ChainFrame
<1>7. ASSUME NEW q \in Requests, Arrivals(q) \/ \E k \in Keys : AuthenticateAPIKey(q, k)
      PROVE  ChainInv'
  <2>1. UNCHANGED <<sessions, raced, caught>>
    BY <1>7
    DEF Arrivals, Register, Login, GitHubCallback, AcceptInvite, AuthenticateAPIKey, Arrive
  <2>2. req'[q].pc # "rotate" /\ \A p \in Requests \ {q} : req'[p] = req[p]
    <3>1. CASE Arrivals(q)
      BY <3>1, SignInArrives, Landing
    <3> QED BY <1>7, <3>1, KeyArrives
  <2> QED BY <2>1, <2>2, ChainFrame
<1>8. CASE UNCHANGED <<sessions, raced, caught, req>>
  BY <1>8, ChainFrame
<1>9. CASE \/ \E i \in Invites : \E e \in Emails : CreateInvite(i, e)
           \/ \E k \in Keys, role \in Roles :
                RetireAPIKey(k, role) \/ \E scopes \in KeyScopes : CreateAPIKey(k, scopes, role)
  BY <1>8, <1>9 DEF CreateInvite, RetireAPIKey, CreateAPIKey
<1> QED
  BY <1>1, <1>2, <1>3, <1>4, <1>5, <1>6, <1>7, <1>8, <1>9 DEF Next, vars, Arrivals

\* A refresh token is spent once, and a chain caught in reuse is over: what
\* is left of both needs two refreshes of one token under way at once.
THEOREM ChainsAreSound == Spec => []ChainIsSound
<1>1. Init => ChainInv
  <2> SUFFICES ASSUME Init PROVE ChainInv
    OBVIOUS
  <2>1. Len(sessions) = 0 /\ caught = {} /\ \A q \in Requests : req[q].pc = "idle"
    BY DEF Init, Idle
  <2>2. 1..Len(sessions) = {}
    BY <2>1
  <2>3. FamiliesAreThere /\ OneLives /\ CaughtAreDead
    BY <2>1, <2>2, Zenon DEF FamiliesAreThere, OneLives, CaughtAreDead
  <2>4. \A q \in Requests : Rotates(q) = FALSE
    BY <2>1 DEF Rotates
  <2>5. CaughtRest
    BY <2>4 DEF CaughtRest
  <2>6. RotatesTheLiving
    BY <2>4 DEF RotatesTheLiving
  <2>7. RotatesAlone
    BY <2>4 DEF RotatesAlone
  <2> QED BY <2>3, <2>5, <2>6, <2>7 DEF ChainInv
<1>2. TypeOK /\ ChainInv => ChainIsSound
  BY Indices
  DEF ChainInv, OneLives, CaughtAreDead, ChainIsSound, OneLiveToken, CaughtChainIsDead, FamilyOf
<1> QED BY <1>1, <1>2, ChainStep, TypeInit, TypeStep, PTL DEF Spec
=============================================================================
