---------------------------- MODULE Identity_proofs ----------------------------
(***************************************************************************)
(* Proofs about Identity, for any specification of tenants and cross-org   *)
(* grants, any number of operators, visitors and requests, and any number  *)
(* of failures: what a bootstrap that reports success leaves in place, and *)
(* whom a request may act as.                                              *)
(***************************************************************************)
EXTENDS Identity, FiniteSetTheorems, TLAPS

(***************************************************************************)
(* The plan of a bootstrap                                                 *)
(***************************************************************************)
People == Orgs \X Emails
Seeded == {Tenants[k].org : k \in DOMAIN Tenants}

Things == {<<"project">>, <<"roles">>, <<"spa">>, <<"trusted">>, <<"api">>, <<"brand">>,
           <<"label">>, <<"login">>, <<"machine">>, <<"service-auth">>, <<"key">>}
          \cup ({"org", "grant"} \X Orgs) \cup ({"user"} \X Orgs \X Emails)

\* The steps of a plan: a call about an object (of the application only a find),
\* an authorization, a link.
Calls == {c \in [how : {"find", "add", "set", "need", "label", "login", "key"}, obj : Things,
                 role : {"none"}] : c.obj = <<"spa">> => c.how = "find"}
Authorizations == [how : {"add"}, obj : {"auth"} \X People \X Orgs, role : Roles]
Links == [how : {"link"}, obj : ({"tenant"} \X Seeded) \cup ({"person"} \X Orgs \X Emails),
          role : {"none"}]
Steps == Calls \cup Authorizations \cup Links

Has(s, x) == \E i \in DOMAIN s : s[i] = x

LEMMA Concat ==
  ASSUME NEW S, NEW s \in Seq(S), NEW t \in Seq(S)
  PROVE  s \o t \in Seq(S) /\ \A x : Has(s, x) \/ Has(t, x) => Has(s \o t, x)
<1>1. s \o t \in Seq(S) /\ Len(s \o t) = Len(s) + Len(t)
  OBVIOUS
<1>2. ASSUME NEW i \in DOMAIN s PROVE i \in DOMAIN (s \o t) /\ (s \o t)[i] = s[i]
  OBVIOUS
<1>3. ASSUME NEW i \in DOMAIN t
      PROVE  Len(s) + i \in DOMAIN (s \o t) /\ (s \o t)[Len(s) + i] = t[i]
  OBVIOUS
<1> QED BY <1>1, <1>2, <1>3 DEF Has

LEMMA One ==
  ASSUME NEW S, NEW x \in S
  PROVE  <<x>> \in Seq(S) /\ Has(<<x>>, x)
<1>1. <<x>> \in Seq(S) /\ 1 \in DOMAIN <<x>> /\ <<x>>[1] = x
  OBVIOUS
<1> QED BY <1>1 DEF Has

LEMMA Divides ==
  ASSUME NEW n \in {2, 3, 4}, NEW a \in Nat, NEW b \in 0 .. n - 1
  PROVE  (a * n + b) \div n = a /\ (a * n + b) % n = b
<1>1. CASE n = 2 BY <1>1
<1>2. CASE n = 3
  <2>1. (a * 3 + b) \div 3 = a
    BY <1>2
  <2>2. (a * 3 + b) % 3 = b
    BY <1>2
  <2> QED BY <1>2, <2>1, <2>2
<1>3. CASE n = 4 BY <1>3
<1> QED BY <1>1, <1>2, <1>3

\* Each lists every step of every member.
LEMMA EachLists ==
  ASSUME NEW S, NEW n \in {2, 3, 4}, NEW ss, NEW m \in Nat, DOMAIN ss = 1 .. m, Len(ss) = m,
         \A i \in 1 .. m : ss[i] \in Seq(S) /\ Len(ss[i]) = n
  PROVE  /\ Each(ss, n) \in Seq(S)
         /\ \A i \in 1 .. m : \A j \in 1 .. n : Has(Each(ss, n), ss[i][j])
<1> DEFINE e == Each(ss, n)
<1>1. DOMAIN e = 1 .. n * m /\ n * m \in Nat
  BY DEF Each
<1>2. \A i \in 1 .. n * m : e[i] = ss[((i - 1) \div n) + 1][((i - 1) % n) + 1]
  BY DEF Each
<1>3. ASSUME NEW i \in 1 .. n * m
      PROVE  ((i - 1) \div n) + 1 \in 1 .. m /\ ((i - 1) % n) + 1 \in 1 .. n
  <2>1. CASE n = 2 BY <2>1
  <2>2. CASE n = 3 BY <2>2
  <2>3. CASE n = 4 BY <2>3
  <2> QED BY <2>1, <2>2, <2>3
<1>4. ASSUME NEW i \in 1 .. n * m PROVE e[i] \in S
  <2> DEFINE a == ((i - 1) \div n) + 1
             b == ((i - 1) % n) + 1
  <2>1. a \in 1 .. m /\ b \in 1 .. n /\ e[i] = ss[a][b]
    BY <1>2, <1>3
  <2> HIDE DEF a, b, e
  <2> QED BY <2>1
<1>5. e \in Seq(S)
  <2>1. e = [i \in 1 .. n * m |-> e[i]]
    BY DEF Each
  <2> QED BY <1>1, <1>4, <2>1
<1>6. ASSUME NEW i \in 1 .. m, NEW j \in 1 .. n PROVE Has(e, ss[i][j])
  <2> DEFINE k == (i - 1) * n + j
  <2>1. k \in 1 .. n * m /\ ((k - 1) \div n) + 1 = i /\ ((k - 1) % n) + 1 = j
    <3>1. \A a \in Nat : \A b \in 0 .. n - 1 :
            (a * n + b) \div n = a /\ (a * n + b) % n = b
      BY Divides
    <3>2. k - 1 = (i - 1) * n + (j - 1) /\ i - 1 \in 0 .. m - 1 /\ j - 1 \in 0 .. n - 1
      OBVIOUS
    <3>3. k \in 1 .. n * m
      BY <3>2
    <3> QED BY <3>1, <3>2, <3>3, SMTT(60)
  <2> HIDE DEF k
  <2>2. e[k] = ss[i][j]
    BY <1>2, <2>1
  <2> QED BY <1>1, <2>1, <2>2 DEF Has
<1> QED BY <1>5, <1>6

LEMMA CallShapes ==
  /\ \A how \in {"find", "add", "set", "need", "label", "login", "key"}, obj \in Things :
       (obj = <<"spa">> => how = "find") => Do(how, obj) \in Steps
  /\ \A u \in People, o \in Orgs, r \in Roles : ensureAuthorization(u, o, r) \in Seq(Steps)
  /\ \A o \in Seeded : Do("link", <<"tenant", o>>) \in Steps
  /\ \A o \in Orgs, e \in Emails : Do("link", <<"person", o, e>>) \in Steps
<1>1. ASSUME NEW how \in {"find", "add", "set", "need", "label", "login", "key"}, NEW obj \in Things,
             obj = <<"spa">> => how = "find"
      PROVE  Do(how, obj) \in Steps
  <2> DEFINE c == [how |-> how, obj |-> obj, role |-> "none"]
  <2>1. /\ c \in [how : {"find", "add", "set", "need", "label", "login", "key"}, obj : Things,
                  role : {"none"}]
        /\ c.obj = obj /\ c.how = how
    OBVIOUS
  <2> HIDE DEF c
  <2>2. c \in Calls
    BY <1>1, <2>1 DEF Calls
  <2> QED BY <2>2 DEF Do, Steps, c
<1>2. ASSUME NEW u \in People, NEW o \in Orgs, NEW r \in Roles
      PROVE  ensureAuthorization(u, o, r) \in Seq(Steps)
  <2>1. [how |-> "add", obj |-> <<"auth", u, o>>, role |-> r] \in Authorizations
    BY DEF Authorizations
  <2> QED BY <2>1, One DEF ensureAuthorization, Steps
<1>3. ASSUME NEW o \in Seeded PROVE Do("link", <<"tenant", o>>) \in Steps
  BY DEF Do, Steps, Links
<1>4. ASSUME NEW o \in Orgs, NEW e \in Emails PROVE Do("link", <<"person", o, e>>) \in Steps
  BY DEF Do, Steps, Links
<1> QED BY <1>1, <1>2, <1>3, <1>4

LEMMA ThingShapes ==
  /\ \A o \in Orgs : <<"org", o>> \in Things /\ <<"grant", o>> \in Things
  /\ \A o \in Orgs, e \in Emails : <<"user", o, e>> \in Things
<1>1. ASSUME NEW o \in Orgs PROVE <<"org", o>> \in Things /\ <<"grant", o>> \in Things
  BY DEF Things
<1>2. ASSUME NEW o \in Orgs, NEW e \in Emails PROVE <<"user", o, e>> \in Things
  BY DEF Things
<1> QED BY <1>1, <1>2

\* Two calls in a row, two lists in a row, a member of a list.
LEMMA Few ==
  ASSUME NEW S, NEW x \in S, NEW y \in S
  PROVE  <<x, y>> \in Seq(S) /\ Len(<<x, y>>) = 2 /\ <<x, y>>[1] = x
  OBVIOUS

LEMMA Together ==
  ASSUME NEW S, NEW s \in Seq(S), NEW t \in Seq(S)
  PROVE  /\ s \o t \in Seq(S)
         /\ Len(s) = 1 /\ Len(t) = 1 => Len(s \o t) = 2
         /\ Len(s) = 2 /\ Len(t) = 1 => Len(s \o t) = 3
         /\ Len(s) = 2 /\ Len(t) = 2 => Len(s \o t) = 4
<1> DEFINE a == Len(s)
           b == Len(t)
           n == Len(s \o t)
<1>1. s \o t \in Seq(S) /\ n = a + b
  OBVIOUS
<1> HIDE DEF a, b, n
<1>2. (a = 1 /\ b = 1 => n = 2) /\ (a = 2 /\ b = 1 => n = 3) /\ (a = 2 /\ b = 2 => n = 4)
  BY <1>1
<1> QED BY <1>1, <1>2 DEF a, b, n

LEMMA Member ==
  ASSUME NEW S, NEW s \in Seq(S), NEW k \in DOMAIN s
  PROVE  s[k] \in S
  OBVIOUS

LEMMA TenantShapes ==
  ASSUME NEW k \in DOMAIN Tenants
  PROVE  /\ Tenants[k].org \in Orgs \cap Seeded /\ Tenants[k].email \in Emails
         /\ Tenants[k].role \in Roles
<1>1. Tenants \in Seq([org : Orgs, email : Emails, role : Roles])
  BY SpecAssumption
<1>2. Tenants[k] \in [org : Orgs, email : Emails, role : Roles]
  BY <1>1, Member
<1> QED BY <1>2 DEF Seeded

LEMMA TenantSteps ==
  /\ Each([i \in DOMAIN Tenants |-> ensureTenant(Tenants[i])], 4) \in Seq(Steps)
  /\ Each([i \in DOMAIN CrossOrg |-> applyCrossOrgGrant(CrossOrg[i])], 3) \in Seq(Steps)
<1>1. ASSUME NEW k \in DOMAIN Tenants
      PROVE  ensureTenant(Tenants[k]) \in Seq(Steps) /\ Len(ensureTenant(Tenants[k])) = 4
  <2> DEFINE o == Tenants[k].org
             e == Tenants[k].email
             r == Tenants[k].role
  <2>1. o \in Orgs /\ e \in Emails /\ r \in Roles /\ <<o, e>> \in People
    BY TenantShapes DEF People
  <2> HIDE DEF o, e, r
  <2>2. ensureOrg(o) \in Seq(Steps) /\ Len(ensureOrg(o)) = 1
    BY <2>1, CallShapes, ThingShapes, One DEF ensureOrg
  <2>3. ensureProjectGrant(o) \in Seq(Steps) /\ Len(ensureProjectGrant(o)) = 1
    BY <2>1, CallShapes, ThingShapes, One DEF ensureProjectGrant
  <2>4. << Do("find", <<"user", o, e>>) >> \in Seq(Steps)
        /\ Len(<< Do("find", <<"user", o, e>>) >>) = 1
    BY <2>1, CallShapes, ThingShapes, One
  <2>5. ensureAuthorization(<<o, e>>, o, r) \in Seq(Steps)
        /\ Len(ensureAuthorization(<<o, e>>, o, r)) = 1
    BY <2>1, CallShapes DEF ensureAuthorization
  <2>6. ensureUser(o, e, r) \in Seq(Steps) /\ Len(ensureUser(o, e, r)) = 2
    BY <2>4, <2>5, Together DEF ensureUser
  <2>7. (ensureOrg(o) \o ensureProjectGrant(o)) \o ensureUser(o, e, r) \in Seq(Steps)
        /\ Len((ensureOrg(o) \o ensureProjectGrant(o)) \o ensureUser(o, e, r)) = 4
    <3>1. ensureOrg(o) \o ensureProjectGrant(o) \in Seq(Steps)
          /\ Len(ensureOrg(o) \o ensureProjectGrant(o)) = 2
      BY <2>2, <2>3, Together
    <3> QED BY <2>6, <3>1, Together
  <2> QED BY <2>7 DEF ensureTenant, o, e, r
<1>2. ASSUME NEW k \in DOMAIN CrossOrg
      PROVE  /\ applyCrossOrgGrant(CrossOrg[k]) \in Seq(Steps)
             /\ Len(applyCrossOrgGrant(CrossOrg[k])) = 3
  <2> DEFINE g == CrossOrg[k]
  <2>1. /\ g.target \in Orgs /\ g.home \in Orgs /\ g.email \in Emails /\ g.role \in Roles
        /\ <<g.home, g.email>> \in People
    <3>1. CrossOrg \in Seq([email : Emails, home : Orgs, target : Orgs, role : Roles])
      BY SpecAssumption
    <3>2. g \in [email : Emails, home : Orgs, target : Orgs, role : Roles]
      BY <3>1, Member
    <3> QED BY <3>2 DEF People
  <2> HIDE DEF g
  <2>2. /\ Do("need", <<"org", g.target>>) \in Steps
        /\ Do("need", <<"user", g.home, g.email>>) \in Steps
    BY <2>1, CallShapes, ThingShapes
  <2>3. ensureAuthorization(<<g.home, g.email>>, g.target, g.role) \in Seq(Steps)
        /\ Len(ensureAuthorization(<<g.home, g.email>>, g.target, g.role)) = 1
    BY <2>1, CallShapes DEF ensureAuthorization
  <2>4. << Do("need", <<"org", g.target>>), Do("need", <<"user", g.home, g.email>>) >> \in Seq(Steps)
    BY <2>2, Few
  <2>5. applyCrossOrgGrant(g) \in Seq(Steps) /\ Len(applyCrossOrgGrant(g)) = 3
    BY <2>3, <2>4, Together DEF applyCrossOrgGrant
  <2> QED BY <2>5 DEF g
<1>3. DOMAIN Tenants = 1 .. Len(Tenants) /\ Len(Tenants) \in Nat
      /\ DOMAIN CrossOrg = 1 .. Len(CrossOrg) /\ Len(CrossOrg) \in Nat
  BY SpecAssumption
<1>4. Each([i \in DOMAIN Tenants |-> ensureTenant(Tenants[i])], 4) \in Seq(Steps)
  <2> DEFINE ss == [i \in DOMAIN Tenants |-> ensureTenant(Tenants[i])]
  <2>1. DOMAIN ss = 1 .. Len(Tenants) /\ Len(ss) = Len(Tenants)
    BY <1>3
  <2>2. \A i \in 1 .. Len(Tenants) : ss[i] \in Seq(Steps) /\ Len(ss[i]) = 4
    BY <1>1, <1>3
  <2> HIDE DEF ss
  <2>3. Each(ss, 4) \in Seq(Steps)
    BY <1>3, <2>1, <2>2, EachLists
  <2> QED BY <2>3 DEF ss
<1>5. Each([i \in DOMAIN CrossOrg |-> applyCrossOrgGrant(CrossOrg[i])], 3) \in Seq(Steps)
  <2> DEFINE ss == [i \in DOMAIN CrossOrg |-> applyCrossOrgGrant(CrossOrg[i])]
  <2>1. DOMAIN ss = 1 .. Len(CrossOrg) /\ Len(ss) = Len(CrossOrg)
    BY <1>3
  <2>2. \A i \in 1 .. Len(CrossOrg) : ss[i] \in Seq(Steps) /\ Len(ss[i]) = 3
    BY <1>2, <1>3
  <2> HIDE DEF ss
  <2>3. Each(ss, 3) \in Seq(Steps)
    BY <1>3, <2>1, <2>2, EachLists
  <2> QED BY <2>3 DEF ss
<1> QED BY <1>4, <1>5

LEMMA LinkSteps ==
  ASSUME NEW ls, ls = Each([i \in DOMAIN Tenants |->
           << Do("link", <<"tenant", Tenants[i].org>>),
              Do("link", <<"person", Tenants[i].org, Tenants[i].email>>) >>], 2)
  PROVE  ls \in Seq(Steps) /\ \A o \in Seeded : Has(ls, Do("link", <<"tenant", o>>))
<1> DEFINE ss == [i \in DOMAIN Tenants |->
              << Do("link", <<"tenant", Tenants[i].org>>),
                 Do("link", <<"person", Tenants[i].org, Tenants[i].email>>) >>]
<1>1. ASSUME NEW k \in DOMAIN Tenants
      PROVE  /\ ss[k] \in Seq(Steps) /\ Len(ss[k]) = 2
             /\ ss[k][1] = Do("link", <<"tenant", Tenants[k].org>>)
  <2>1. /\ Do("link", <<"tenant", Tenants[k].org>>) \in Steps
        /\ Do("link", <<"person", Tenants[k].org, Tenants[k].email>>) \in Steps
    BY TenantShapes, CallShapes
  <2> QED BY <2>1, Few
<1>2. DOMAIN ss = 1 .. Len(Tenants) /\ Len(ss) = Len(Tenants) /\ Len(Tenants) \in Nat
      /\ DOMAIN Tenants = 1 .. Len(Tenants)
  BY SpecAssumption
<1> HIDE DEF ss
<1>3. ls \in Seq(Steps) /\ \A i \in 1 .. Len(Tenants) : \A j \in 1 .. 2 : Has(ls, ss[i][j])
  <2>1. ls = Each(ss, 2)
    BY DEF ss
  <2>2. \A i \in 1 .. Len(Tenants) : ss[i] \in Seq(Steps) /\ Len(ss[i]) = 2
    BY <1>1, <1>2
  <2> QED BY <1>2, <2>1, <2>2, EachLists
<1>4. ASSUME NEW o \in Seeded PROVE Has(ls, Do("link", <<"tenant", o>>))
  <2>1. PICK k \in DOMAIN Tenants : o = Tenants[k].org
    BY DEF Seeded
  <2>2. ss[k][1] = Do("link", <<"tenant", o>>)
    BY <1>1, <2>1
  <2>3. k \in 1 .. Len(Tenants) /\ 1 \in 1 .. 2
    BY <1>2
  <2>4. Has(ls, ss[k][1])
    BY <1>3, <2>3
  <2> QED BY <2>2, <2>4
<1> QED BY <1>3, <1>4

LEMMA PlanLists ==
  /\ Plan \in Seq(Steps)
  /\ Has(Plan, Do("find", <<"spa">>)) /\ Has(Plan, Do("label", <<"label">>))
  /\ Has(Plan, Do("login", <<"login">>)) /\ Has(Plan, Do("key", <<"key">>))
  /\ \A o \in Seeded : Has(Plan, Do("link", <<"tenant", o>>))
<1> DEFINE admin == << Do("need", <<"org", AdminOrg>>) >>
           b1 == admin \o ensureProject
           b2 == b1 \o ensureRoles
           b3 == b2 \o ensureSPA
           b4 == b3 \o ensureTrustedDomain
           b5 == b4 \o ensureAPI
           b6 == b5 \o ensureHostedLoginTranslation
           policies == << Do("label", <<"label">>), Do("login", <<"login">>) >>
           b7 == b6 \o policies
           b8 == b7 \o Each([i \in DOMAIN Tenants |-> ensureTenant(Tenants[i])], 4)
           b9 == b8 \o Each([i \in DOMAIN CrossOrg |-> applyCrossOrgGrant(CrossOrg[i])], 3)
           ls == Each([i \in DOMAIN Tenants |->
              << Do("link", <<"tenant", Tenants[i].org>>),
                 Do("link", <<"person", Tenants[i].org, Tenants[i].email>>) >>], 2)
<1>1. admin \in Seq(Steps)
  <2>1. <<"org", AdminOrg>> \in Things
    BY SpecAssumption, ThingShapes
  <2> QED BY <2>1, CallShapes, One
<1>2. /\ <<"project">> \in Things /\ <<"roles">> \in Things /\ <<"spa">> \in Things
      /\ <<"trusted">> \in Things /\ <<"api">> \in Things /\ <<"brand">> \in Things
      /\ <<"label">> \in Things /\ <<"login">> \in Things /\ <<"machine">> \in Things
      /\ <<"service-auth">> \in Things /\ <<"key">> \in Things
  BY DEF Things
<1>3. ensureProject \in Seq(Steps) /\ ensureRoles \in Seq(Steps) /\ ensureAPI \in Seq(Steps)
  BY <1>2, CallShapes, One DEF ensureProject, ensureRoles, ensureAPI
<1>4. ensureSPA \in Seq(Steps) /\ Has(ensureSPA, Do("find", <<"spa">>))
  BY <1>2, CallShapes, One DEF ensureSPA
<1>5. ensureTrustedDomain \in Seq(Steps)
  BY <1>2, CallShapes, One DEF ensureTrustedDomain
<1>6. ensureHostedLoginTranslation \in Seq(Steps)
  BY <1>2, CallShapes, One DEF ensureHostedLoginTranslation
<1>7. /\ policies \in Seq(Steps)
      /\ Has(policies, Do("label", <<"label">>)) /\ Has(policies, Do("login", <<"login">>))
  <2>1. Do("label", <<"label">>) \in Steps /\ Do("login", <<"login">>) \in Steps
    BY <1>2, CallShapes
  <2>2. /\ DOMAIN policies = 1 .. 2 /\ policies[1] = Do("label", <<"label">>)
        /\ policies[2] = Do("login", <<"login">>)
    OBVIOUS
  <2> QED BY <2>1, <2>2, Few DEF Has
<1>8. ensureServiceUser \in Seq(Steps) /\ Has(ensureServiceUser, Do("key", <<"key">>))
  <2> DEFINE x == Do("find", <<"machine">>)
             y == Do("add", <<"service-auth">>)
             z == Do("key", <<"key">>)
  <2>1. x \in Steps /\ y \in Steps /\ z \in Steps
    BY <1>2, CallShapes
  <2> HIDE DEF x, y, z
  <2>2. <<x, y, z>> \in Seq(Steps) /\ 3 \in DOMAIN <<x, y, z>> /\ <<x, y, z>>[3] = z
    BY <2>1
  <2> QED BY <2>2 DEF ensureServiceUser, Has, x, y, z
<1>9. ls \in Seq(Steps) /\ \A o \in Seeded : Has(ls, Do("link", <<"tenant", o>>))
  BY LinkSteps
<1> HIDE DEF admin, policies, ls
<1>10. b3 \in Seq(Steps) /\ Has(b3, Do("find", <<"spa">>))
  <2>1. b1 \in Seq(Steps) BY <1>1, <1>3, Concat
  <2> HIDE DEF b1
  <2>2. b2 \in Seq(Steps) BY <1>3, <2>1, Concat
  <2> HIDE DEF b2
  <2> QED BY <1>4, <2>2, Concat
<1> HIDE DEF b3
<1>11. b6 \in Seq(Steps) /\ Has(b6, Do("find", <<"spa">>))
  <2>1. b4 \in Seq(Steps) /\ Has(b4, Do("find", <<"spa">>)) BY <1>5, <1>10, Concat
  <2> HIDE DEF b4
  <2>2. b5 \in Seq(Steps) /\ Has(b5, Do("find", <<"spa">>)) BY <1>3, <2>1, Concat
  <2> HIDE DEF b5
  <2> QED BY <1>6, <2>2, Concat
<1> HIDE DEF b6
<1>12. /\ b7 \in Seq(Steps) /\ Has(b7, Do("find", <<"spa">>))
       /\ Has(b7, Do("label", <<"label">>)) /\ Has(b7, Do("login", <<"login">>))
  BY <1>7, <1>11, Concat
<1> HIDE DEF b7
<1>13. /\ b9 \in Seq(Steps) /\ Has(b9, Do("find", <<"spa">>))
       /\ Has(b9, Do("label", <<"label">>)) /\ Has(b9, Do("login", <<"login">>))
  <2>1. /\ b8 \in Seq(Steps) /\ Has(b8, Do("find", <<"spa">>))
        /\ Has(b8, Do("label", <<"label">>)) /\ Has(b8, Do("login", <<"login">>))
    BY <1>12, TenantSteps, Concat
  <2> HIDE DEF b8
  <2> QED BY <2>1, TenantSteps, Concat
<1> HIDE DEF b9
<1>14. /\ b9 \o ensureServiceUser \in Seq(Steps) /\ Has(b9 \o ensureServiceUser, Do("find", <<"spa">>))
       /\ Has(b9 \o ensureServiceUser, Do("label", <<"label">>))
       /\ Has(b9 \o ensureServiceUser, Do("login", <<"login">>))
       /\ Has(b9 \o ensureServiceUser, Do("key", <<"key">>))
  BY <1>8, <1>13, Concat
<1>15. Bootstrap = b9 \o ensureServiceUser
  BY DEF Bootstrap, b9, b8, b7, b6, b5, b4, b3, b2, b1, admin, policies
<1>16. Plan = Bootstrap \o ls
  BY DEF Plan, ls
<1> QED BY <1>9, <1>14, <1>15, <1>16, Concat, ZenonT(60)

LEMMA StepShapes ==
  ASSUME NEW i \in DOMAIN Plan
  PROVE  /\ Plan[i].obj = <<"spa">> => Plan[i].how = "find"
         /\ Plan[i].obj[1] = "org" /\ Plan[i].how = "find" =>
              Plan[i].obj[2] \in Orgs /\ Plan[i].obj = <<"org", Plan[i].obj[2]>>
         /\ Plan[i].obj[1] = "auth" =>
              /\ Plan[i].obj[2] \in People /\ Plan[i].obj[3] \in Orgs
              /\ Plan[i].obj = <<"auth", Plan[i].obj[2], Plan[i].obj[3]>>
         /\ Plan[i].how = "link" /\ Plan[i].obj[1] = "tenant" => Plan[i].obj[2] \in Seeded
         /\ Plan[i].how = "link" /\ Plan[i].obj[1] # "tenant" =>
              Plan[i].obj[2] \in Orgs /\ Plan[i].obj[3] \in Emails
<1> DEFINE s == Plan[i]
<1>1. s \in Steps
  BY PlanLists, Member
<1> HIDE DEF s
<1>2. CASE s \in Calls
  <2>1. s.obj \in Things /\ s.how # "link"
    BY <1>2 DEF Calls
  <2>2. s.obj[1] # "auth"
    BY <2>1 DEF Things
  <2>3. s.obj[1] = "org" => s.obj[2] \in Orgs /\ s.obj = <<"org", s.obj[2]>>
    BY <2>1 DEF Things
  <2>4. s.obj = <<"spa">> => s.how = "find"
    BY <1>2 DEF Calls
  <2> QED BY <2>1, <2>2, <2>3, <2>4 DEF s
<1>3. CASE s \in Authorizations
  BY <1>3 DEF Authorizations, s
<1>4. CASE s \in Links
  <2>1. s.how = "link" /\ s.obj \in ({"tenant"} \X Seeded) \cup ({"person"} \X Orgs \X Emails)
    BY <1>4 DEF Links
  <2>2. CASE s.obj \in {"tenant"} \X Seeded
    BY <2>1, <2>2 DEF s
  <2>3. CASE s.obj \in {"person"} \X Orgs \X Emails
    BY <2>1, <2>3 DEF s
  <2> QED BY <2>1, <2>2, <2>3
<1> QED BY <1>1, <1>2, <1>3, <1>4 DEF Steps

(***************************************************************************)
(* What a bootstrap has accomplished                                       *)
(***************************************************************************)
Phases == {"start", "call", "create", "reconcile", "update", "activate", "mint", "write", "done"}

\* ZITADEL's side of the types, and what it is never seen without: the web
\* application is created with our redirect URIs, a live palette is the draft,
\* and the key file holds a key that was minted.
IdpInv ==
  /\ spa \in BOOLEAN /\ register \in BOOLEAN /\ label \in [draft : BOOLEAN, live : BOOLEAN]
  /\ keys \in Nat /\ keyFile \in 0 .. keys
  /\ <<"spa">> \in have => spa
  /\ label.live => label.draft

\* What step i of the plan was for is in place.
Accomplished(i) ==
  /\ Plan[i].how \in {"find", "add", "set"} => Plan[i].obj \in have
  /\ Plan[i].how = "label" => label.live
  /\ Plan[i].how = "login" => ~register
  /\ Plan[i].how = "key" => keyFile \in 1 .. keys
  /\ Plan[i].how = "link" /\ Plan[i].obj[1] = "tenant" =>
       tenants[<<"seed", Plan[i].obj[2]>>] = Plan[i].obj[2]

\* Where a bootstrap stands: everything before is in place; a palette to be
\* activated has been drafted, an application to be reconciled is there, a key to be written has been minted.
Standing(s) ==
  /\ s \in [pc : Nat, phase : Phases, key : Nat]
  /\ s.phase # "start" => s.pc \in DOMAIN Plan /\ \A i \in 1 .. s.pc - 1 : Accomplished(i)
  /\ s.phase = "done" => s.pc = Len(Plan) /\ Accomplished(s.pc)
  /\ s.phase = "reconcile" => Plan[s.pc].obj \in have
  /\ s.phase = "activate" => label.draft
  /\ s.phase = "write" => s.key \in 1 .. keys

OpInv == op \in [Operators -> [pc : Nat, phase : Phases, key : Nat]]
         /\ \A p \in Operators : Standing(op[p])

\* A tenant row is linked to one organisation for good, a user row to a person.
TenantsInv ==
  /\ tenants \in [DOMAIN tenants -> Orgs \cup {None}]
  /\ \A o \in Seeded : <<"seed", o>> \in DOMAIN tenants
  /\ \A i \in DOMAIN tenants :
       \/ \E o \in Orgs : i = <<"seed", o>> /\ tenants[i] \in {None, o}
       \/ \E o \in Orgs : i = <<"jit", o>> /\ tenants[i] = o
  /\ \A i, j \in DOMAIN tenants : tenants[i] = tenants[j] /\ tenants[i] # None => i = j

UsersInv ==
  /\ users \in [DOMAIN users -> People \cup {None}]
  /\ \A u \in People : <<"sub", u>> \in DOMAIN users => users[<<"sub", u>>] = u
  /\ \A i, j \in DOMAIN users : users[i] = users[j] /\ users[i] # None => i = j

\* What one step leaves as it was: what ZITADEL holds, and the links.
IdpStays ==
  /\ have \subseteq have' /\ (spa => spa') /\ (register' => register)
  /\ (label.draft => label.draft') /\ (label.live => label.live')
  /\ keys <= keys' /\ (keyFile \in 1 .. keys => keyFile' \in 1 .. keys')

LinksStay ==
  /\ \A i \in DOMAIN tenants : /\ i \in DOMAIN tenants'
                               /\ tenants[i] # None => tenants'[i] = tenants[i]
  /\ \A i \in DOMAIN users : /\ i \in DOMAIN users'
                             /\ users[i] # None => users'[i] = users[i]

LEMMA SeededOrgs == Seeded \subseteq Orgs
<1>1. ASSUME NEW k \in DOMAIN Tenants PROVE Tenants[k].org \in Orgs
  BY TenantShapes
<1> QED BY <1>1 DEF Seeded

\* What is in place stays in place.
LEMMA AccomplishedStays ==
  ASSUME IdpInv, IdpInv', TenantsInv, IdpStays, LinksStay, NEW i \in DOMAIN Plan, Accomplished(i)
  PROVE  Accomplished(i)'
<1>1. Plan[i].how \in {"find", "add", "set"} => Plan[i].obj \in have'
  BY DEF Accomplished, IdpStays
<1>2. Plan[i].how = "label" => (label.live)'
  BY DEF Accomplished, IdpStays
<1>3. Plan[i].how = "login" => ~register'
  BY DEF Accomplished, IdpStays
<1>4. Plan[i].how = "key" => keyFile' \in 1 .. keys'
  BY DEF Accomplished, IdpStays
<1>5. Plan[i].how = "link" /\ Plan[i].obj[1] = "tenant" =>
        tenants'[<<"seed", Plan[i].obj[2]>>] = Plan[i].obj[2]
  <2> SUFFICES ASSUME Plan[i].how = "link", Plan[i].obj[1] = "tenant"
               PROVE  tenants'[<<"seed", Plan[i].obj[2]>>] = Plan[i].obj[2]
    OBVIOUS
  <2> DEFINE o == Plan[i].obj[2]
  <2>1. o \in Seeded /\ o # None
    BY StepShapes, SeededOrgs, SpecAssumption
  <2>2. <<"seed", o>> \in DOMAIN tenants /\ tenants[<<"seed", o>>] = o
    BY <2>1 DEF Accomplished, TenantsInv
  <2> QED BY <2>1, <2>2 DEF LinksStay
<1> QED BY <1>1, <1>2, <1>3, <1>4, <1>5 DEF Accomplished

LEMMA StandingStays ==
  ASSUME IdpInv, IdpInv', TenantsInv, IdpStays, LinksStay, NEW s, Standing(s)
  PROVE  Standing(s)'
<1>1. s \in [pc : Nat, phase : Phases, key : Nat]
  BY DEF Standing
<1>2. s.phase # "start" => s.pc \in DOMAIN Plan /\ \A i \in 1 .. s.pc - 1 : Accomplished(i)'
  <2> SUFFICES ASSUME s.phase # "start", NEW i \in 1 .. s.pc - 1
               PROVE  Accomplished(i)'
    BY DEF Standing
  <2>1. s.pc \in DOMAIN Plan /\ Accomplished(i)
    BY DEF Standing
  <2>2. i \in DOMAIN Plan
    BY <1>1, <2>1, PlanLists
  <2> QED BY <2>1, <2>2, AccomplishedStays
<1>3. s.phase = "done" => s.pc = Len(Plan) /\ Accomplished(s.pc)'
  <2> SUFFICES ASSUME s.phase = "done" PROVE s.pc = Len(Plan) /\ Accomplished(s.pc)'
    OBVIOUS
  <2>1. s.pc = Len(Plan) /\ s.pc \in DOMAIN Plan /\ Accomplished(s.pc)
    BY DEF Standing
  <2> QED BY <2>1, AccomplishedStays
<1>4. s.phase = "activate" => (label.draft)'
  BY DEF Standing, IdpStays
<1>5. s.phase = "write" => s.key \in 1 .. keys'
  BY <1>1 DEF Standing, IdpStays, IdpInv
<1>6. s.phase = "reconcile" => Plan[s.pc].obj \in have'
  BY DEF Standing, IdpStays
<1> QED BY <1>1, <1>2, <1>3, <1>4, <1>5, <1>6 DEF Standing

\* One operator moves, the others stand where they stood.
LEMMA OneMoves ==
  ASSUME IdpInv, IdpInv', TenantsInv, OpInv, IdpStays, LinksStay,
         NEW p \in Operators, NEW r, op' = [op EXCEPT ![p] = r], Standing(r)'
  PROVE  OpInv'
<1>1. op' \in [Operators -> [pc : Nat, phase : Phases, key : Nat]]
  BY DEF OpInv, Standing
<1>2. ASSUME NEW o \in Operators PROVE Standing(op[o])'
  <2>1. CASE o = p
    <3>1. op'[o] = r
      BY <2>1 DEF OpInv
    <3> QED BY <3>1 DEF Standing, Accomplished
  <2>2. CASE o # p
    <3>1. PICK s : s = op[o]
      OBVIOUS
    <3>2. op'[o] = s /\ Standing(s)
      BY <2>2, <3>1 DEF OpInv
    <3>3. Standing(s)'
      BY <3>2, StandingStays
    <3> QED BY <3>2, <3>3, ZenonT(60) DEF Standing, Accomplished
  <2> QED BY <2>1, <2>2
<1> QED BY <1>1, <1>2 DEF OpInv

LEMMA NobodyMoves ==
  ASSUME IdpInv, IdpInv', TenantsInv, OpInv, IdpStays, LinksStay, UNCHANGED op
  PROVE  OpInv'
<1>1. ASSUME NEW o \in Operators PROVE Standing(op[o])'
  <2>1. PICK s : s = op[o]
    OBVIOUS
  <2>2. op'[o] = s /\ Standing(s)
    BY <2>1 DEF OpInv
  <2>3. Standing(s)'
    BY <2>2, StandingStays
  <2> QED BY <2>2, <2>3 DEF Standing, Accomplished
<1> QED BY <1>1 DEF OpInv

LEMMA Goes ==
  ASSUME IdpInv, IdpInv', TenantsInv, OpInv, IdpStays, LinksStay,
         NEW p \in Operators, NEW phase \in {"create", "reconcile", "update", "activate", "mint"},
         op[p].phase # "start", Goto(p, phase), phase = "activate" => (label.draft)',
         phase = "reconcile" => Plan[op[p].pc].obj \in have
  PROVE  OpInv'
<1>1. PICK s : s = op[p]
  OBVIOUS
<1>2. Standing(s) /\ s \in [pc : Nat, phase : Phases, key : Nat] /\ s.phase # "start"
  BY <1>1 DEF OpInv
<1>3. PICK r : r = [s EXCEPT !.phase = phase]
  OBVIOUS
<1>4. r \in [pc : Nat, phase : Phases, key : Nat] /\ r.phase = phase /\ r.pc = s.pc
  BY <1>2, <1>3 DEF Phases
<1>5. Standing(s)'
  BY <1>2, StandingStays
<1>6. Standing(r)'
  BY <1>1, <1>2, <1>4, <1>5 DEF Standing, IdpStays
<1>7. op' = [op EXCEPT ![p] = r]
  BY <1>1, <1>3 DEF Goto
<1> QED BY <1>6, <1>7, OneMoves

LEMMA Advances ==
  ASSUME IdpInv, IdpInv', TenantsInv, OpInv, IdpStays, LinksStay,
         NEW p \in Operators, op[p].phase # "start", Advance(p),
         NEW i, i = op[p].pc, Accomplished(i)'
  PROVE  OpInv'
<1>1. PICK s : s = op[p]
  OBVIOUS
<1>2. Standing(s) /\ s \in [pc : Nat, phase : Phases, key : Nat] /\ s.phase # "start" /\ s.pc = i
  BY <1>1 DEF OpInv
<1>3. Standing(s)'
  BY <1>2, StandingStays
<1>4. i \in DOMAIN Plan /\ Len(Plan) \in Nat /\ DOMAIN Plan = 1 .. Len(Plan)
  BY <1>2, PlanLists DEF Standing
<1>5. \A j \in 1 .. i : Accomplished(j)'
  BY <1>2, <1>3, <1>4 DEF Standing
<1>6. CASE i = Len(Plan)
  <2>1. PICK r : r = [s EXCEPT !.phase = "done"]
    OBVIOUS
  <2>2. r \in [pc : Nat, phase : Phases, key : Nat] /\ r.phase = "done" /\ r.pc = i
    BY <1>2, <2>1 DEF Phases
  <2>3. Standing(r)'
    BY <1>4, <1>5, <1>6, <2>2 DEF Standing
  <2>4. op' = [op EXCEPT ![p] = r]
    BY <1>1, <1>2, <1>6, <2>1 DEF Advance
  <2> QED BY <2>3, <2>4, OneMoves
<1>7. CASE i # Len(Plan)
  <2>1. PICK r : r = [pc |-> i + 1, phase |-> "call", key |-> 0]
    OBVIOUS
  <2>2. /\ r \in [pc : Nat, phase : Phases, key : Nat] /\ r.phase = "call" /\ r.pc = i + 1
        /\ r.pc \in DOMAIN Plan /\ \A j \in 1 .. r.pc - 1 : j \in 1 .. i
    BY <1>4, <1>7, <2>1 DEF Phases
  <2>3. Standing(r)'
    BY <1>5, <2>2 DEF Standing
  <2>4. op' = [op EXCEPT ![p] = r]
    BY <1>1, <1>2, <1>7, <2>1 DEF Advance
  <2> QED BY <2>3, <2>4, OneMoves
<1> QED BY <1>6, <1>7

LEMMA Aborts ==
  ASSUME IdpInv, IdpInv', TenantsInv, OpInv, IdpStays, LinksStay, NEW p \in Operators, Abort(p)
  PROVE  OpInv'
<1>1. Standing(Idle)'
  BY DEF Idle, Standing, Phases
<1> QED BY <1>1, OneMoves DEF Abort

(***************************************************************************)
(* The two tables of links                                                 *)
(***************************************************************************)
LEMMA TenantWritten ==
  ASSUME TenantsInv, NEW row, NEW o \in Orgs, tenants' = Put(tenants, row, o),
         row = <<"seed", o>> \/ row = <<"jit", o>>,
         \A i \in DOMAIN tenants : tenants[i] = o => i = row
  PROVE  /\ TenantsInv' /\ row \in DOMAIN tenants' /\ tenants'[row] = o
         /\ \A i \in DOMAIN tenants : /\ i \in DOMAIN tenants'
                                      /\ tenants[i] # None => tenants'[i] = tenants[i]
<1>1. /\ DOMAIN tenants' = DOMAIN tenants \cup {row} /\ tenants'[row] = o
      /\ \A x \in DOMAIN tenants \ {row} : tenants'[x] = tenants[x]
      /\ tenants' = [x \in DOMAIN tenants \cup {row} |-> tenants'[x]]
  BY DEF Put
<1>2. row \in DOMAIN tenants => tenants[row] \in {None, o}
  BY DEF TenantsInv
<1>3. tenants' \in [DOMAIN tenants' -> Orgs \cup {None}]
  <2>1. \A x \in DOMAIN tenants' : tenants'[x] \in Orgs \cup {None}
    BY <1>1 DEF TenantsInv
  <2> QED BY <1>1, <2>1
<1>4. \A x \in Seeded : <<"seed", x>> \in DOMAIN tenants'
  BY <1>1 DEF TenantsInv
<1>5. ASSUME NEW i \in DOMAIN tenants'
      PROVE  \/ \E x \in Orgs : i = <<"seed", x>> /\ tenants'[i] \in {None, x}
             \/ \E x \in Orgs : i = <<"jit", x>> /\ tenants'[i] = x
  <2>1. CASE i = row
    BY <1>1, <2>1
  <2>2. CASE i # row
    BY <1>1, <2>2 DEF TenantsInv
  <2> QED BY <2>1, <2>2
<1>6. ASSUME NEW i \in DOMAIN tenants', NEW j \in DOMAIN tenants',
             tenants'[i] = tenants'[j], tenants'[i] # None
      PROVE  i = j
  BY <1>1, <1>6 DEF TenantsInv
<1> QED BY <1>1, <1>2, <1>3, <1>4, <1>5, <1>6 DEF TenantsInv

LEMMA UserWritten ==
  ASSUME UsersInv, NEW row, NEW u \in People, users' = Put(users, row, u),
         row \in DOMAIN users => users[row] \in {None, u},
         \A x \in People : row = <<"sub", x>> => x = u,
         \A i \in DOMAIN users : users[i] = u => i = row
  PROVE  /\ UsersInv' /\ row \in DOMAIN users' /\ users'[row] = u
         /\ \A i \in DOMAIN users : /\ i \in DOMAIN users'
                                    /\ users[i] # None => users'[i] = users[i]
<1>1. /\ DOMAIN users' = DOMAIN users \cup {row} /\ users'[row] = u
      /\ \A x \in DOMAIN users \ {row} : users'[x] = users[x]
      /\ users' = [x \in DOMAIN users \cup {row} |-> users'[x]]
  BY DEF Put
<1>2. users' \in [DOMAIN users' -> People \cup {None}]
  <2>1. \A x \in DOMAIN users' : users'[x] \in People \cup {None}
    BY <1>1 DEF UsersInv
  <2> QED BY <1>1, <2>1
<1>3. ASSUME NEW x \in People, <<"sub", x>> \in DOMAIN users'
      PROVE  users'[<<"sub", x>>] = x
  <2>1. CASE row = <<"sub", x>>
    BY <1>1, <2>1
  <2>2. CASE row # <<"sub", x>>
    BY <1>1, <1>3, <2>2 DEF UsersInv
  <2> QED BY <2>1, <2>2
<1>4. ASSUME NEW i \in DOMAIN users', NEW j \in DOMAIN users',
             users'[i] = users'[j], users'[i] # None
      PROVE  i = j
  BY <1>1, <1>4 DEF UsersInv
<1> QED BY <1>1, <1>2, <1>3, <1>4 DEF UsersInv

LEMMA NothingLinked ==
  ASSUME TenantsInv, UsersInv, UNCHANGED local
  PROVE  TenantsInv' /\ UsersInv' /\ LinksStay
  BY DEF local, TenantsInv, UsersInv, LinksStay

\* The bootstrap links a row that is free, and ends when the link is taken.
LEMMA LinkKeeps ==
  ASSUME TenantsInv, UsersInv, OpInv, NEW p \in Operators, linkIdentities(p)
  PROVE  /\ TenantsInv' /\ UsersInv' /\ LinksStay /\ UNCHANGED idp
         /\ op[p].phase = "call" /\ op[p].pc \in DOMAIN Plan
         /\ \/ Abort(p)
            \/ /\ Advance(p) /\ Plan[op[p].pc].how = "link"
               /\ Plan[op[p].pc].obj[1] = "tenant" =>
                    tenants'[<<"seed", Plan[op[p].pc].obj[2]>>] = Plan[op[p].pc].obj[2]
<1> DEFINE obj == Obj(p)
           row == <<"seed", IF obj[1] = "tenant" THEN obj[2] ELSE obj[3]>>
<1>1. /\ op[p].phase = "call" /\ op[p].pc \in DOMAIN Plan /\ Plan[op[p].pc].how = "link"
      /\ UNCHANGED idp /\ obj = Plan[op[p].pc].obj
  BY DEF linkIdentities, At, Obj
<1>2. CASE obj[1] = "tenant"
  <2> DEFINE o == obj[2]
  <2>1. o \in Seeded /\ o \in Orgs /\ o # None
    BY <1>1, <1>2, StepShapes, SeededOrgs, SpecAssumption
  <2>2. row = <<"seed", o>> /\ row \in DOMAIN tenants /\ tenants[row] \in {None, o}
    BY <1>2, <2>1 DEF TenantsInv
  <2>3. Linkable(tenants, row, o)
    BY <2>2 DEF Linkable
  <2>4. \/ Abort(p) /\ UNCHANGED local
        \/ /\ Advance(p) /\ Free(tenants, row, o)
           /\ tenants' = [tenants EXCEPT ![row] = o] /\ UNCHANGED users
    <3> HIDE DEF row
    <3> QED BY <1>2, <2>3 DEF linkIdentities, row
  <2>5. CASE Abort(p) /\ UNCHANGED local
    BY <1>1, <2>5, NothingLinked, SMTT(60)
  <2>6. CASE /\ Advance(p) /\ Free(tenants, row, o)
             /\ tenants' = [tenants EXCEPT ![row] = o] /\ UNCHANGED users
    <3>1. tenants' = Put(tenants, row, o)
      BY <2>2, <2>6 DEF TenantsInv, Put
    <3>2. \A i \in DOMAIN tenants : tenants[i] = o => i = row
      BY <2>6 DEF Free
    <3>3. /\ TenantsInv' /\ tenants'[row] = o
          /\ \A i \in DOMAIN tenants : /\ i \in DOMAIN tenants'
                                       /\ tenants[i] # None => tenants'[i] = tenants[i]
      BY <2>1, <2>2, <3>1, <3>2, TenantWritten
    <3>4. UsersInv'
      BY <2>6 DEF UsersInv
    <3> QED BY <1>1, <2>2, <2>6, <3>3, <3>4 DEF LinksStay
  <2> QED BY <2>4, <2>5, <2>6
<1>3. CASE obj[1] # "tenant"
  <2> DEFINE u == <<obj[2], obj[3]>>
  <2>1. u \in People /\ u # None
    BY <1>1, <1>3, StepShapes, SpecAssumption DEF People
  <2>2. row = <<"seed", obj[3]>>
    BY <1>3
  <2> HIDE DEF row
  <2>3. \/ (Abort(p) \/ Advance(p)) /\ UNCHANGED local
        \/ /\ Advance(p) /\ Free(users, row, u) /\ Linkable(users, row, u)
           /\ users' = [users EXCEPT ![row] = u] /\ UNCHANGED tenants
    BY <1>3 DEF linkIdentities, row
  <2>4. CASE (Abort(p) \/ Advance(p)) /\ UNCHANGED local
    BY <1>1, <1>3, <2>4, NothingLinked
  <2>5. CASE /\ Advance(p) /\ Free(users, row, u) /\ Linkable(users, row, u)
             /\ users' = [users EXCEPT ![row] = u] /\ UNCHANGED tenants
    <3>1. row \in DOMAIN users /\ users[row] \in {None, u}
      BY <2>5 DEF Linkable
    <3>2. users' = Put(users, row, u)
      BY <2>5, <3>1 DEF UsersInv, Put
    <3>3. \A i \in DOMAIN users : users[i] = u => i = row
      BY <2>5 DEF Free
    <3>4. \A x \in People : row # <<"sub", x>>
      BY <2>2
    <3>5. /\ UsersInv'
          /\ \A i \in DOMAIN users : /\ i \in DOMAIN users'
                                     /\ users[i] # None => users'[i] = users[i]
      BY <2>1, <3>1, <3>2, <3>3, <3>4, UserWritten
    <3>6. TenantsInv'
      BY <2>5 DEF TenantsInv
    <3> QED BY <1>1, <1>3, <2>5, <3>5, <3>6 DEF LinksStay
  <2> QED BY <2>3, <2>4, <2>5
<1> QED BY <1>2, <1>3

(***************************************************************************)
(* Requests                                                                *)
(***************************************************************************)
\* The principal p stands for the person u in the organisation o, with role r.
Acts(p, o, u, r) ==
  /\ p.tenant \in DOMAIN tenants /\ tenants[p.tenant] = o
  /\ p.user \in DOMAIN users /\ users[p.user] = u /\ p.role = r

\* A request between its token and its principal: the rows it has found for its
\* organisation are linked to it, and so they stay.
Resolving(t) ==
  /\ t.at # "none" => t.user \in People /\ t.org \in Orgs
  /\ t.at = "selected" => \A i \in t.found : i \in DOMAIN tenants /\ tenants[i] = t.org
  /\ t.at = "served" => Acts(t.principal, t.org, t.user, t.role)

ReqInv == req = [q \in Requests |-> req[q]] /\ \A q \in Requests : Resolving(req[q])

\* An entry of the cache is right about whoever looks it up.
CacheInv == \A k \in DOMAIN cache :
  k[1] \in Orgs /\ k[2] \in People /\ Acts(cache[k], k[1], k[2], k[3])

RoleInv == DOMAIN roleOf \subseteq People \X Orgs

LEMMA NotNone == \A o \in Orgs, u \in People : o # None /\ u # None
  BY SpecAssumption DEF People

LEMMA ActsStays ==
  ASSUME LinksStay, NEW p, NEW o \in Orgs, NEW u \in People, NEW r, Acts(p, o, u, r)
  PROVE  Acts(p, o, u, r)'
  BY NotNone DEF Acts, LinksStay

LEMMA ResolvingStays ==
  ASSUME LinksStay, NEW t, Resolving(t)
  PROVE  Resolving(t)'
<1>1. t.at = "selected" => \A i \in t.found : i \in DOMAIN tenants' /\ tenants'[i] = t.org
  BY NotNone DEF Resolving, LinksStay
<1>2. t.at = "served" => Acts(t.principal, t.org, t.user, t.role)'
  BY ActsStays DEF Resolving
<1> QED BY <1>1, <1>2 DEF Resolving

\* One request moves, the others are as good as before.
LEMMA OneResolves ==
  ASSUME LinksStay, ReqInv, NEW q \in Requests, NEW r, req' = [req EXCEPT ![q] = r], Resolving(r)'
  PROVE  ReqInv'
<1>1. req' = [x \in Requests |-> req'[x]]
  BY DEF ReqInv
<1>2. ASSUME NEW x \in Requests PROVE Resolving(req[x])'
  <2>1. CASE x = q
    <3>1. req'[x] = r
      BY <2>1 DEF ReqInv
    <3> QED BY <3>1 DEF Resolving, Acts
  <2>2. CASE x # q
    <3>1. PICK t : t = req[x]
      OBVIOUS
    <3>2. req'[x] = t /\ Resolving(t)
      BY <2>2, <3>1 DEF ReqInv
    <3>3. Resolving(t)'
      BY <3>2, ResolvingStays
    <3> QED BY <3>2, <3>3 DEF Resolving, Acts
  <2> QED BY <2>1, <2>2
<1> QED BY <1>1, <1>2 DEF ReqInv

LEMMA NobodyResolves ==
  ASSUME LinksStay, ReqInv, UNCHANGED req
  PROVE  ReqInv'
<1>1. ASSUME NEW x \in Requests PROVE Resolving(req[x])'
  <2>1. PICK t : t = req[x]
    OBVIOUS
  <2>2. req'[x] = t /\ Resolving(t)
    BY <2>1 DEF ReqInv
  <2>3. Resolving(t)'
    BY <2>2, ResolvingStays
  <2> QED BY <2>2, <2>3 DEF Resolving, Acts
<1> QED BY <1>1 DEF ReqInv

LEMMA CacheStays ==
  ASSUME LinksStay, CacheInv,
         DOMAIN cache' \subseteq DOMAIN cache, \A k \in DOMAIN cache' : cache'[k] = cache[k]
  PROVE  CacheInv'
<1>1. ASSUME NEW k \in DOMAIN cache'
      PROVE  k[1] \in Orgs /\ k[2] \in People /\ Acts(cache[k], k[1], k[2], k[3])'
  <2>1. PICK c : c = cache[k]
    OBVIOUS
  <2>2. cache'[k] = c /\ k[1] \in Orgs /\ k[2] \in People /\ Acts(c, k[1], k[2], k[3])
    BY <2>1 DEF CacheInv
  <2>3. Acts(c, k[1], k[2], k[3])'
    BY <2>2, ActsStays
  <2> QED BY <2>2, <2>3 DEF Acts
<1> QED BY <1>1 DEF CacheInv

\* identity_for links the token's organisation and person to one row each, or
\* refuses: it never moves a link.
LEMMA IdentityKeeps ==
  ASSUME TenantsInv, UsersInv, ReqInv, CacheInv, NEW q \in Requests, identity_for(q)
  PROVE  TenantsInv' /\ UsersInv' /\ LinksStay /\ ReqInv' /\ CacheInv'
<1> DEFINE tenant == TenantRow(req[q])
           user == UserRow(req[q])
<1>1. PICK t : t = req[q]
  OBVIOUS
<1>2. t.at = "selected" /\ Resolving(t) /\ t.user \in People /\ t.org \in Orgs
  BY <1>1 DEF identity_for, ReqInv, Resolving
<1>3. CASE None \in {tenant, user}
  <2>1. Refuse(q) /\ UNCHANGED <<local, cache>>
    BY <1>3 DEF identity_for
  <2>2. TenantsInv' /\ UsersInv' /\ LinksStay
    BY <2>1, NothingLinked
  <2>3. PICK r : r = [at |-> "none"]
    OBVIOUS
  <2>4. Resolving(r)' /\ req' = [req EXCEPT ![q] = r]
    BY <2>1, <2>3 DEF Refuse, Resolving
  <2>5. CacheInv'
    BY <2>1, <2>2, CacheStays
  <2> QED BY <2>2, <2>4, <2>5, OneResolves
<1>4. CASE None \notin {tenant, user}
  <2>1. PICK p : p = [tenant |-> tenant, user |-> user, role |-> t.role]
    OBVIOUS
  <2>2. /\ tenants' = Put(tenants, tenant, t.org) /\ users' = Put(users, user, t.user)
        /\ cache' = Put(cache, Key(t), p) /\ Serve(q, p)
    BY <1>1, <1>4, <2>1 DEF identity_for
  <2>3. /\ tenant = <<"seed", t.org>> \/ tenant = <<"jit", t.org>>
        /\ \A i \in DOMAIN tenants : tenants[i] = t.org => i = tenant
    <3>1. CASE t.found # {}
      <4>1. tenant \in DOMAIN tenants /\ tenants[tenant] = t.org
        BY <1>1, <1>2, <3>1 DEF TenantRow, Resolving
      <4> HIDE DEF tenant
      <4> QED BY <1>2, <4>1, NotNone DEF TenantsInv
    <3>2. CASE t.found = {}
      <4>1. Holder(tenants, t.org) = {} /\ tenant = <<"jit", t.org>>
        BY <1>1, <1>4, <3>2 DEF TenantRow
      <4> QED BY <4>1 DEF Holder
    <3> QED BY <3>1, <3>2
  <2>4. /\ user \in DOMAIN users => users[user] \in {None, t.user}
        /\ \A x \in People : user = <<"sub", x>> => x = t.user
        /\ \A i \in DOMAIN users : users[i] = t.user => i = user
    <3>1. CASE Holder(users, t.user) # {}
      <4>1. user \in DOMAIN users /\ users[user] = t.user
        BY <1>1, <3>1 DEF UserRow, Holder
      <4> HIDE DEF user
      <4> QED BY <1>2, <4>1, NotNone DEF UsersInv
    <3>2. CASE Holder(users, t.user) = {}
      <4>1. \A i \in DOMAIN users : users[i] # t.user
        BY <3>2 DEF Holder
      <4>2. \/ user = <<"seed", t.user[2]>> /\ users[user] = None
            \/ user = <<"jit", t.user[2]>> /\ ~ \E i \in DOMAIN users : i[2] = t.user[2]
            \/ user = <<"sub", t.user>>
        BY <1>1, <1>4, <3>2 DEF UserRow
      <4> HIDE DEF user
      <4>3. user \in DOMAIN users => users[user] \in {None, t.user}
        BY <1>2, <4>2 DEF UsersInv
      <4> QED BY <4>1, <4>2, <4>3
    <3> QED BY <3>1, <3>2
  <2> HIDE DEF tenant, user
  <2>5. /\ TenantsInv' /\ tenant \in DOMAIN tenants' /\ tenants'[tenant] = t.org
        /\ \A i \in DOMAIN tenants : /\ i \in DOMAIN tenants'
                                     /\ tenants[i] # None => tenants'[i] = tenants[i]
    BY <1>2, <2>2, <2>3, TenantWritten
  <2>6. /\ UsersInv' /\ user \in DOMAIN users' /\ users'[user] = t.user
        /\ \A i \in DOMAIN users : /\ i \in DOMAIN users'
                                   /\ users[i] # None => users'[i] = users[i]
    BY <1>2, <2>2, <2>4, UserWritten
  <2>7. LinksStay
    BY <2>5, <2>6 DEF LinksStay
  <2>8. Acts(p, t.org, t.user, t.role)'
    BY <2>1, <2>5, <2>6 DEF Acts
  <2>9. PICK r : r = [at |-> "served", user |-> t.user, org |-> t.org, role |-> t.role,
                      principal |-> p]
    OBVIOUS
  <2>10. Resolving(r)' /\ req' = [req EXCEPT ![q] = r]
    BY <1>1, <1>2, <2>2, <2>8, <2>9 DEF Resolving, Serve, Acts
  <2>11. CacheInv'
    <3>1. PICK key : key = Key(t)
      OBVIOUS
    <3>2. key[1] = t.org /\ key[2] = t.user /\ key[3] = t.role
      BY <3>1 DEF Key
    <3>3. ASSUME NEW k \in DOMAIN cache'
          PROVE  k[1] \in Orgs /\ k[2] \in People /\ Acts(cache[k], k[1], k[2], k[3])'
      <4>1. CASE k = key
        BY <1>2, <2>2, <2>8, <3>1, <3>2, <4>1 DEF Acts, Put
      <4>2. CASE k # key
        <5>1. PICK c : c = cache[k]
          OBVIOUS
        <5>2. cache'[k] = c /\ k \in DOMAIN cache
          BY <2>2, <3>1, <4>2, <5>1 DEF Put
        <5>3. k[1] \in Orgs /\ k[2] \in People /\ Acts(c, k[1], k[2], k[3])
          BY <5>1, <5>2 DEF CacheInv
        <5>4. Acts(c, k[1], k[2], k[3])'
          BY <2>7, <5>3, ActsStays
        <5> QED BY <5>2, <5>3, <5>4 DEF Acts
      <4> QED BY <4>1, <4>2
    <3> QED BY <3>3 DEF CacheInv
  <2> QED BY <2>5, <2>6, <2>7, <2>10, <2>11, OneResolves
<1> QED BY <1>3, <1>4

LEMMA TenantNamed ==
  ASSUME NEW user, NEW preferred \in Orgs \cup {None}, TenantFor(user, preferred) # None
  PROVE  TenantFor(user, preferred) \in Held(user)
<1>1. CASE preferred # None
  BY <1>1 DEF TenantFor
<1>2. CASE preferred = None /\ Cardinality(Held(user)) = 1
  <2>1. Held(user) # {}
    BY <1>2, FS_EmptySet
  <2>2. TenantFor(user, preferred) = CHOOSE o \in Held(user) : TRUE
    BY <1>2 DEF TenantFor
  <2> HIDE DEF Held
  <2> QED BY <2>1, <2>2
<1>3. CASE preferred = None /\ Cardinality(Held(user)) # 1
  BY <1>3 DEF TenantFor
<1> QED BY <1>1, <1>2, <1>3

LEMMA RequestStep ==
  ASSUME TenantsInv, UsersInv, ReqInv, CacheInv, RoleInv, NEW q \in Requests,
         Authenticate(q) \/ CacheHit(q) \/ SelectTenant(q)
  PROVE  ReqInv' /\ CacheInv' /\ UNCHANGED <<idp, op, visit, local>>
<1>1. UNCHANGED <<idp, op, visit, local, cache>>
  BY DEF Authenticate, CacheHit, SelectTenant
<1>2. LinksStay
  BY <1>1, NothingLinked
<1>3. CacheInv'
  BY <1>1, <1>2, CacheStays
<1>4. PICK t : t = req[q]
  OBVIOUS
<1>5. Resolving(t)
  BY <1>4 DEF ReqInv
<1>6. CASE Authenticate(q)
  <2>1. PICK user \in {a[1] : a \in DOMAIN roleOf}, email \in BOOLEAN, preferred \in Orgs \cup {None} :
          IF TenantFor(user, preferred) = None THEN Refuse(q)
          ELSE req' = [req EXCEPT ![q] = [at |-> "token", user |-> user,
                         org |-> TenantFor(user, preferred),
                         role |-> roleOf[<<user, TenantFor(user, preferred)>>], email |-> email]]
    BY <1>6 DEF Authenticate
  <2>2. user \in People
    BY DEF RoleInv
  <2>3. CASE TenantFor(user, preferred) = None
    <3>1. PICK r : r = [at |-> "none"]
      OBVIOUS
    <3>2. Resolving(r)' /\ req' = [req EXCEPT ![q] = r]
      BY <2>1, <2>3, <3>1 DEF Resolving, Refuse
    <3> QED BY <1>1, <1>2, <1>3, <3>2, OneResolves
  <2>4. CASE TenantFor(user, preferred) # None
    <3>1. TenantFor(user, preferred) \in Orgs
      BY <2>4, TenantNamed DEF Held
    <3>2. PICK r : r = [at |-> "token", user |-> user, org |-> TenantFor(user, preferred),
                        role |-> roleOf[<<user, TenantFor(user, preferred)>>], email |-> email]
      OBVIOUS
    <3>3. Resolving(r)' /\ req' = [req EXCEPT ![q] = r]
      BY <2>1, <2>2, <2>4, <3>1, <3>2 DEF Resolving
    <3> QED BY <1>1, <1>2, <1>3, <3>3, OneResolves
  <2> QED BY <2>3, <2>4
<1>7. CASE CacheHit(q)
  <2>1. PICK p : p = cache[Key(t)]
    OBVIOUS
  <2>2. t.at = "token" /\ Key(t) \in DOMAIN cache /\ Serve(q, p)
    BY <1>4, <1>7, <2>1 DEF CacheHit
  <2>3. Acts(p, t.org, t.user, t.role)
    BY <2>1, <2>2 DEF CacheInv, Key
  <2>4. PICK r : r = [at |-> "served", user |-> t.user, org |-> t.org, role |-> t.role,
                      principal |-> p]
    OBVIOUS
  <2>5. Acts(p, t.org, t.user, t.role)'
    BY <1>2, <1>5, <2>2, <2>3, ActsStays DEF Resolving
  <2>6. Resolving(r)' /\ req' = [req EXCEPT ![q] = r]
    BY <1>4, <1>5, <2>2, <2>4, <2>5 DEF Resolving, Serve, Acts
  <2> QED BY <1>1, <1>2, <1>3, <2>6, OneResolves
<1>8. CASE SelectTenant(q)
  <2>1. PICK r : r = [at |-> "selected", user |-> t.user, org |-> t.org, role |-> t.role,
                      email |-> t.email, found |-> Holder(tenants, t.org)]
    OBVIOUS
  <2>2. t.at = "token" /\ req' = [req EXCEPT ![q] = r] /\ tenants' = tenants
    BY <1>1, <1>4, <1>8, <2>1 DEF SelectTenant, local
  <2>3. Resolving(r)'
    BY <1>5, <2>1, <2>2 DEF Resolving, Holder
  <2> QED BY <1>1, <1>2, <1>3, <2>2, <2>3, OneResolves
<1> QED BY <1>6, <1>7, <1>8

(***************************************************************************)
(* Roles                                                                   *)
(***************************************************************************)
\* How somebody comes by a role, in an organisation that is there to stay.
Earned(a) ==
  \/ \E i \in DOMAIN Plan : Plan[i].obj = <<"auth", a[1], a[2]>>
  \/ \E v \in Visitors : /\ maker[a[2]] = v /\ <<"org", a[2]>> \in have
                         /\ a = << <<Wish[v].org, Wish[v].email>>, Wish[v].org >>

\* A visitor goes on only in an organisation of their own making.
Inside == {"check email", "grant", "user", "authorize"}
VisitInv ==
  /\ visit = [v \in Visitors |-> visit[v]] /\ maker = [o \in Orgs |-> maker[o]]
  /\ \A v \in Visitors : visit[v] \in Inside =>
       <<"org", Wish[v].org>> \in have /\ maker[Wish[v].org] = v

EarnedInv == \A a \in DOMAIN roleOf : Earned(a)

MakersStay == have \subseteq have' /\ \A o \in Orgs : <<"org", o>> \in have => maker'[o] = maker[o]

LEMMA EarnedStays ==
  ASSUME MakersStay, NEW a \in People \X Orgs, Earned(a)
  PROVE  Earned(a)'
  BY DEF MakersStay, Earned

\* Nobody gets a role, and nobody moves on in the signup form.
LEMMA NobodyEarns ==
  ASSUME RoleInv, EarnedInv, MakersStay, DOMAIN roleOf' = DOMAIN roleOf
  PROVE  RoleInv' /\ EarnedInv'
  BY EarnedStays DEF RoleInv, EarnedInv

LEMMA NobodyVisits ==
  ASSUME VisitInv, MakersStay, UNCHANGED visit, maker' = [o \in Orgs |-> maker'[o]]
  PROVE  VisitInv'
<1>1. \A v \in Visitors : Wish[v].org \in Orgs
  BY SpecAssumption
<1> QED BY <1>1 DEF VisitInv, MakersStay

LEMMA Authorized ==
  ASSUME RoleInv, EarnedInv, MakersStay, NEW u \in People, NEW o \in Orgs, NEW r,
         Authorize(u, o, r), Earned(<<u, o>>)'
  PROVE  RoleInv' /\ EarnedInv'
<1>1. DOMAIN roleOf' \subseteq DOMAIN roleOf \cup {<<u, o>>}
  BY DEF Authorize, Put
<1> QED BY <1>1, EarnedStays DEF RoleInv, EarnedInv

(***************************************************************************)
(* The steps of a bootstrap                                                *)
(***************************************************************************)
\* What an operator's step owes: ZITADEL's objects are only added to, the plan
\* has come no further than what is in place, and roles are given by the plan.
Kept == IdpInv' /\ IdpStays /\ OpInv' /\ RoleInv' /\ EarnedInv' /\ VisitInv'

IdentityInv ==
  /\ IdpInv /\ OpInv /\ TenantsInv /\ UsersInv
  /\ ReqInv /\ CacheInv /\ RoleInv /\ EarnedInv /\ VisitInv

LEMMA IdpUntouched ==
  ASSUME IdentityInv, UNCHANGED <<idp, visit>>
  PROVE  IdpInv' /\ IdpStays /\ RoleInv' /\ EarnedInv' /\ VisitInv'
<1>1. IdpInv' /\ IdpStays
  BY DEF IdentityInv, idp, IdpInv, IdpStays
<1>2. MakersStay /\ UNCHANGED <<roleOf, maker, visit>>
  BY DEF MakersStay, idp
<1> QED BY <1>1, <1>2, NobodyEarns, NobodyVisits DEF IdentityInv, VisitInv

LEMMA FindKeeps ==
  ASSUME IdentityInv, NEW p \in Operators, Find(p) \/ Need(p) \/ reconcileSPA(p)
  PROVE  Kept
<1>1. PICK i : i = op[p].pc
  OBVIOUS
<1>2. /\ i \in DOMAIN Plan /\ Obj(p) = Plan[i].obj /\ op[p].phase # "start"
      /\ UNCHANGED <<have, roleOf, maker, label, register, keys, keyFile, visit, local>>
      /\ Plan[i].how \in {"find", "need"}
  BY <1>1 DEF Find, Need, reconcileSPA, At, Obj, Zitadel, idp
<1>3. spa' \in BOOLEAN /\ (spa => spa')
  BY DEF Find, Need, reconcileSPA, Zitadel, idp, IdentityInv, IdpInv
<1>4. IdpInv' /\ IdpStays
  BY <1>2, <1>3 DEF IdentityInv, IdpInv, IdpStays
<1>5. RoleInv' /\ EarnedInv' /\ VisitInv'
  BY <1>2, NobodyEarns, NobodyVisits DEF IdentityInv, VisitInv, MakersStay
<1>6. LinksStay
  BY <1>2, NothingLinked DEF IdentityInv
<1>7. \/ Goto(p, "create") \/ Abort(p)
      \/ Goto(p, "reconcile") /\ Plan[i].obj \in have
      \/ Advance(p) /\ Plan[i].obj \in have'
  <2>1. op[p].phase = "reconcile" => Plan[i].obj \in have
    BY <1>1 DEF IdentityInv, OpInv, Standing
  <2> QED BY <1>2, <2>1 DEF Find, Need, reconcileSPA, At
<1>8. CASE Goto(p, "create") \/ Abort(p) \/ (Goto(p, "reconcile") /\ Plan[i].obj \in have)
  BY <1>1, <1>2, <1>4, <1>5, <1>6, <1>8, Goes, Aborts DEF IdentityInv, Kept
<1>9. CASE Advance(p) /\ Plan[i].obj \in have'
  <2>1. Accomplished(i)'
    BY <1>2, <1>9 DEF Accomplished
  <2> QED BY <1>1, <1>2, <1>4, <1>5, <1>6, <1>9, <2>1, Advances DEF IdentityInv, Kept
<1> QED BY <1>7, <1>8, <1>9

LEMMA CreateKeeps ==
  ASSUME IdentityInv, NEW p \in Operators, Create(p)
  PROVE  Kept
<1>1. PICK i : i = op[p].pc
  OBVIOUS
<1>2. /\ i \in DOMAIN Plan /\ Obj(p) = Plan[i].obj /\ op[p].phase # "start"
      /\ UNCHANGED <<roleOf, label, register, keys, keyFile, visit, local>>
      /\ Plan[i].how = "find"
  BY <1>1 DEF Create, At, Obj, Zitadel
<1>3. LinksStay
  BY <1>2, NothingLinked DEF IdentityInv
<1>4. CASE Plan[i].obj \in have
  <2>1. (Abort(p) \/ Advance(p)) /\ UNCHANGED <<have, maker, spa>>
    BY <1>2, <1>4 DEF Create
  <2>2. IdpInv' /\ IdpStays /\ Accomplished(i)'
    BY <1>2, <1>4, <2>1 DEF IdentityInv, IdpInv, IdpStays, Accomplished
  <2>3. OpInv'
    BY <1>1, <1>2, <1>3, <2>1, <2>2, Aborts, Advances DEF IdentityInv
  <2>4. RoleInv' /\ EarnedInv' /\ VisitInv'
    BY <1>2, <2>1, NobodyEarns, NobodyVisits DEF IdentityInv, VisitInv, MakersStay
  <2> QED BY <2>2, <2>3, <2>4 DEF Kept
<1>5. CASE Plan[i].obj \notin have
  <2>1. /\ Advance(p) /\ have' = have \cup {Plan[i].obj}
        /\ maker' = IF Plan[i].obj[1] = "org" THEN [maker EXCEPT ![Plan[i].obj[2]] = p] ELSE maker
        /\ spa' = (spa \/ Plan[i].obj = <<"spa">>)
    BY <1>2, <1>5 DEF Create
  <2>2. spa' \in BOOLEAN /\ (spa => spa') /\ (<<"spa">> \in have' => spa')
    <3>1. <<"spa">> \in have => spa
      BY DEF IdentityInv, IdpInv
    <3> QED BY <2>1, <3>1
  <2>3. IdpInv' /\ IdpStays /\ Accomplished(i)'
    BY <1>2, <2>1, <2>2 DEF IdentityInv, IdpInv, IdpStays, Accomplished
  <2>4. OpInv'
    BY <1>1, <1>2, <1>3, <2>1, <2>3, Advances DEF IdentityInv
  <2>5. MakersStay
    <3>1. CASE Plan[i].obj[1] = "org"
      <4>1. Plan[i].obj = <<"org", Plan[i].obj[2]>>
        BY <1>2, <3>1, StepShapes
      <4>2. ASSUME NEW o \in Orgs, <<"org", o>> \in have PROVE maker'[o] = maker[o]
        <5>1. o # Plan[i].obj[2]
          BY <1>5, <4>1, <4>2
        <5> QED BY <2>1, <3>1, <5>1 DEF IdentityInv, VisitInv
      <4> QED BY <2>1, <4>2 DEF MakersStay
    <3>2. CASE Plan[i].obj[1] # "org"
      BY <2>1, <3>2 DEF MakersStay
    <3> QED BY <3>1, <3>2
  <2>6. maker' = [o \in Orgs |-> maker'[o]]
    BY <2>1 DEF IdentityInv, VisitInv
  <2>7. RoleInv' /\ EarnedInv' /\ VisitInv'
    BY <1>2, <2>5, <2>6, NobodyEarns, NobodyVisits DEF IdentityInv
  <2> QED BY <2>3, <2>4, <2>7 DEF Kept
<1> QED BY <1>4, <1>5

LEMMA AddKeeps ==
  ASSUME IdentityInv, NEW p \in Operators, Add(p)
  PROVE  Kept
<1>1. PICK i : i = op[p].pc
  OBVIOUS
<1>2. /\ i \in DOMAIN Plan /\ Obj(p) = Plan[i].obj /\ op[p].phase # "start"
      /\ UNCHANGED <<maker, spa, label, register, keys, keyFile, visit, local>>
      /\ Plan[i].how \in {"add", "set"}
      /\ have' = have \cup {Plan[i].obj} /\ Advance(p)
      /\ IF Plan[i].obj[1] = "auth" THEN Authorize(Plan[i].obj[2], Plan[i].obj[3], Plan[i].role)
                                    ELSE UNCHANGED roleOf
  BY <1>1 DEF Add, At, Obj, Zitadel
<1>3. LinksStay
  BY <1>2, NothingLinked DEF IdentityInv
<1>4. Plan[i].obj # <<"spa">>
  BY <1>2, StepShapes
<1>5. IdpInv' /\ IdpStays /\ Accomplished(i)'
  BY <1>2, <1>4 DEF IdentityInv, IdpInv, IdpStays, Accomplished
<1>6. OpInv'
  BY <1>1, <1>2, <1>3, <1>5, Advances DEF IdentityInv
<1>7. MakersStay /\ VisitInv'
  BY <1>2, NobodyVisits DEF IdentityInv, VisitInv, MakersStay
<1>8. RoleInv' /\ EarnedInv'
  <2>1. CASE Plan[i].obj[1] = "auth"
    <3>1. /\ Plan[i].obj[2] \in People /\ Plan[i].obj[3] \in Orgs
          /\ Plan[i].obj = <<"auth", Plan[i].obj[2], Plan[i].obj[3]>>
      BY <1>2, <2>1, StepShapes
    <3>2. Earned(<<Plan[i].obj[2], Plan[i].obj[3]>>)'
      BY <1>2, <3>1 DEF Earned
    <3> QED BY <1>2, <1>7, <2>1, <3>1, <3>2, Authorized DEF IdentityInv
  <2>2. CASE Plan[i].obj[1] # "auth"
    BY <1>2, <1>7, <2>2, NobodyEarns DEF IdentityInv
  <2> QED BY <2>1, <2>2
<1> QED BY <1>5, <1>6, <1>7, <1>8 DEF Kept

LEMMA LabelKeeps ==
  ASSUME IdentityInv, NEW p \in Operators, ensureLabelPolicy(p)
  PROVE  Kept
<1>1. PICK i : i = op[p].pc
  OBVIOUS
<1>2. /\ i \in DOMAIN Plan /\ Plan[i].how = "label" /\ op[p].phase \in {"call", "update", "activate"}
      /\ UNCHANGED <<have, roleOf, maker, spa, register, keys, keyFile, visit, local>>
  BY <1>1 DEF ensureLabelPolicy, At, Zitadel
<1>3. LinksStay /\ MakersStay
  BY <1>2, NothingLinked DEF IdentityInv, MakersStay
<1>4. RoleInv' /\ EarnedInv' /\ VisitInv'
  BY <1>2, <1>3, NobodyEarns, NobodyVisits DEF IdentityInv, VisitInv
<1>5. op[p].phase = "activate" => label.draft
  BY DEF IdentityInv, OpInv, Standing
<1>6. \/ Advance(p) /\ label.live /\ UNCHANGED label
      \/ Goto(p, "update") /\ UNCHANGED label
      \/ Goto(p, "activate") /\ label' = [label EXCEPT !.draft = TRUE]
      \/ Advance(p) /\ label.draft /\ label' = [label EXCEPT !.live = label.draft]
  BY <1>5 DEF ensureLabelPolicy, At, LabelCurrent
<1>7. label \in [draft : BOOLEAN, live : BOOLEAN]
  BY DEF IdentityInv, IdpInv
<1>8. IdpInv' /\ IdpStays
  <2>1. label.live => label.draft
    BY DEF IdentityInv, IdpInv
  <2>2. /\ label' \in [draft : BOOLEAN, live : BOOLEAN]
        /\ (label.draft => label.draft') /\ (label.live => label.live')
        /\ (label.live' => label.draft')
    <3>1. CASE UNCHANGED label
      BY <1>7, <2>1, <3>1
    <3>2. CASE label' = [label EXCEPT !.draft = TRUE]
      <4>1. label'.draft /\ label'.live = label.live
        BY <1>7, <3>2
      <4>2. label' \in [draft : BOOLEAN, live : BOOLEAN]
        BY <1>7, <3>2
      <4> QED BY <4>1, <4>2
    <3>3. CASE label.draft /\ label' = [label EXCEPT !.live = label.draft]
      <4>1. label'.draft = label.draft /\ label'.live = label.draft
        BY <1>7, <3>3
      <4>2. label' \in [draft : BOOLEAN, live : BOOLEAN]
        BY <1>7, <3>3
      <4> QED BY <3>3, <4>1, <4>2
    <3> QED BY <1>6, <3>1, <3>2, <3>3
  <2> QED BY <1>2, <2>2 DEF IdentityInv, IdpInv, IdpStays
<1>9. CASE Advance(p) /\ (label.live)'
  <2>1. Accomplished(i)'
    BY <1>2, <1>9 DEF Accomplished
  <2> QED BY <1>1, <1>2, <1>3, <1>4, <1>8, <1>9, <2>1, Advances DEF IdentityInv, Kept
<1>10. CASE Goto(p, "update") \/ (Goto(p, "activate") /\ (label.draft)')
  BY <1>2, <1>3, <1>4, <1>8, <1>10, Goes DEF IdentityInv, Kept
<1> QED BY <1>6, <1>7, <1>9, <1>10

LEMMA LoginKeeps ==
  ASSUME IdentityInv, NEW p \in Operators, ensureLoginPolicy(p)
  PROVE  Kept
<1>1. PICK i : i = op[p].pc
  OBVIOUS
<1>2. /\ i \in DOMAIN Plan /\ Plan[i].how = "login" /\ op[p].phase # "start"
      /\ UNCHANGED <<have, roleOf, maker, spa, label, keys, keyFile, visit, local>>
  BY <1>1 DEF ensureLoginPolicy, At, Zitadel
<1>3. LinksStay /\ MakersStay
  BY <1>2, NothingLinked DEF IdentityInv, MakersStay
<1>4. RoleInv' /\ EarnedInv' /\ VisitInv'
  BY <1>2, <1>3, NobodyEarns, NobodyVisits DEF IdentityInv, VisitInv
<1>5. /\ Goto(p, "update") \/ (Advance(p) /\ ~register')
      /\ register' \in BOOLEAN /\ (register' => register)
  <2>1. register \in BOOLEAN
    BY DEF IdentityInv, IdpInv
  <2>2. CASE UNCHANGED register /\ IF register THEN Goto(p, "update") ELSE Advance(p)
    <3>1. (register => Goto(p, "update")) /\ (~register => Advance(p))
      BY <2>2
    <3> QED BY <2>1, <2>2, <3>1
  <2>3. CASE register' = FALSE /\ Advance(p)
    BY <2>3
  <2> QED BY <2>2, <2>3 DEF ensureLoginPolicy
<1>6. IdpInv' /\ IdpStays
  BY <1>2, <1>5 DEF IdentityInv, IdpInv, IdpStays
<1>7. CASE Goto(p, "update")
  BY <1>2, <1>3, <1>4, <1>6, <1>7, Goes DEF IdentityInv, Kept
<1>8. CASE Advance(p) /\ ~register'
  <2>1. Accomplished(i)'
    BY <1>2, <1>8 DEF Accomplished
  <2> QED BY <1>1, <1>2, <1>3, <1>4, <1>6, <1>8, <2>1, Advances DEF IdentityInv, Kept
<1> QED BY <1>5, <1>7, <1>8

LEMMA KeyKeeps ==
  ASSUME IdentityInv, NEW p \in Operators, ensureServiceKey(p)
  PROVE  Kept
<1>1. PICK s : s = op[p]
  OBVIOUS
<1>2. /\ s.pc \in DOMAIN Plan /\ Plan[s.pc].how = "key" /\ s.phase # "start"
      /\ UNCHANGED <<have, roleOf, maker, spa, label, register, visit, local>>
  BY <1>1 DEF ensureServiceKey, At, Zitadel
<1>3. LinksStay /\ MakersStay
  BY <1>2, NothingLinked DEF IdentityInv, MakersStay
<1>4. RoleInv' /\ EarnedInv' /\ VisitInv'
  BY <1>2, <1>3, NobodyEarns, NobodyVisits DEF IdentityInv, VisitInv
<1>5. Standing(s) /\ s \in [pc : Nat, phase : Phases, key : Nat]
      /\ keys \in Nat /\ keyFile \in 0 .. keys
  BY <1>1 DEF IdentityInv, OpInv, IdpInv
<1>6. \/ Goto(p, "mint") /\ UNCHANGED <<keys, keyFile>>
      \/ Advance(p) /\ keyFile # 0 /\ UNCHANGED <<keys, keyFile>>
      \/ /\ keys' = keys + 1 /\ UNCHANGED keyFile
         /\ op' = [op EXCEPT ![p] = [@ EXCEPT !.phase = "write", !.key = keys + 1]]
      \/ Advance(p) /\ keyFile' = s.key /\ UNCHANGED keys /\ s.key \in 1 .. keys
  BY <1>1, <1>5 DEF ensureServiceKey, At, Standing
<1>7. keys' \in Nat /\ keyFile' \in 0 .. keys' /\ keys <= keys'
      /\ (keyFile \in 1 .. keys => keyFile' \in 1 .. keys')
  BY <1>5, <1>6
<1>8. IdpInv' /\ IdpStays
  BY <1>2, <1>7 DEF IdentityInv, IdpInv, IdpStays
<1>9. CASE Goto(p, "mint")
  BY <1>1, <1>2, <1>3, <1>4, <1>8, <1>9, Goes DEF IdentityInv, Kept
<1>10. CASE Advance(p) /\ keyFile' \in 1 .. keys'
  <2>1. Accomplished(s.pc)'
    BY <1>2, <1>10 DEF Accomplished
  <2> QED BY <1>1, <1>2, <1>3, <1>4, <1>8, <1>10, <2>1, Advances DEF IdentityInv, Kept
<1>11. CASE /\ keys' = keys + 1
            /\ op' = [op EXCEPT ![p] = [@ EXCEPT !.phase = "write", !.key = keys + 1]]
  <2>1. PICK r : r = [s EXCEPT !.phase = "write", !.key = keys + 1]
    OBVIOUS
  <2>2. /\ r \in [pc : Nat, phase : Phases, key : Nat] /\ r.phase = "write"
        /\ r.pc = s.pc /\ r.key \in 1 .. keys'
    <3>1. keys + 1 \in Nat /\ keys + 1 \in 1 .. keys'
      BY <1>5, <1>11
    <3>2. PICK k \in Nat : k = keys + 1
      BY <3>1
    <3>3. r = [s EXCEPT !.phase = "write", !.key = k]
      BY <2>1, <3>2
    <3>4. /\ r \in [pc : Nat, phase : Phases, key : Nat] /\ r.phase = "write"
          /\ r.pc = s.pc /\ r.key = k
      BY <1>5, <3>3 DEF Phases
    <3> QED BY <3>1, <3>2, <3>4
  <2>3. Standing(s)'
    BY <1>3, <1>5, <1>8, StandingStays DEF IdentityInv
  <2>4. Standing(r)'
    BY <1>2, <2>2, <2>3 DEF Standing
  <2>5. op' = [op EXCEPT ![p] = r]
    BY <1>1, <1>11, <2>1
  <2> QED BY <1>3, <1>4, <1>8, <2>4, <2>5, OneMoves DEF IdentityInv, Kept
<1> QED BY <1>5, <1>6, <1>9, <1>10, <1>11

LEMMA StartKeeps ==
  ASSUME IdentityInv, NEW p \in Operators, Start(p) \/ Fail(p)
  PROVE  Kept /\ UNCHANGED <<local, cache, req>>
<1>1. UNCHANGED <<idp, visit, local, cache, req>>
  BY DEF Start, Fail
<1>2. IdpInv' /\ IdpStays /\ RoleInv' /\ EarnedInv' /\ VisitInv' /\ LinksStay
  BY <1>1, IdpUntouched, NothingLinked DEF IdentityInv
<1>3. CASE Start(p)
  <2>1. PICK r : r = [Idle EXCEPT !.pc = 1, !.phase = "call"]
    OBVIOUS
  <2>2. r \in [pc : Nat, phase : Phases, key : Nat] /\ r.phase = "call" /\ r.pc = 1
    BY <2>1 DEF Idle, Phases
  <2>3. 1 \in DOMAIN Plan
    BY PlanLists DEF Has
  <2>4. Standing(r)'
    BY <2>2, <2>3 DEF Standing
  <2>5. op' = [op EXCEPT ![p] = r]
    BY <1>3, <2>1 DEF Start
  <2> QED BY <1>1, <1>2, <2>4, <2>5, OneMoves DEF IdentityInv, Kept
<1>4. CASE Fail(p)
  BY <1>1, <1>2, <1>4, Aborts DEF IdentityInv, Kept, Fail
<1> QED BY <1>3, <1>4

LEMMA LinkedKeeps ==
  ASSUME IdentityInv, NEW p \in Operators, linkIdentities(p)
  PROVE  Kept /\ TenantsInv' /\ UsersInv' /\ LinksStay
<1>1. PICK i : i = op[p].pc
  OBVIOUS
<1>2. /\ TenantsInv' /\ UsersInv' /\ LinksStay /\ UNCHANGED idp
      /\ op[p].phase = "call" /\ i \in DOMAIN Plan
      /\ \/ Abort(p)
         \/ /\ Advance(p) /\ Plan[i].how = "link"
            /\ Plan[i].obj[1] = "tenant" =>
                 tenants'[<<"seed", Plan[i].obj[2]>>] = Plan[i].obj[2]
  BY <1>1, LinkKeeps DEF IdentityInv
<1>3. IdpInv' /\ IdpStays /\ RoleInv' /\ EarnedInv' /\ VisitInv'
  BY <1>2, IdpUntouched DEF linkIdentities
<1>4. CASE Abort(p)
  BY <1>2, <1>3, <1>4, Aborts DEF IdentityInv, Kept
<1>5. CASE ~Abort(p)
  <2>1. Accomplished(i)'
    BY <1>2, <1>5 DEF Accomplished
  <2> QED BY <1>1, <1>2, <1>3, <1>5, <2>1, Advances DEF IdentityInv, Kept
<1> QED BY <1>4, <1>5

(***************************************************************************)
(* The steps of a signup                                                   *)
(***************************************************************************)
SignupStep(v) ==
  \/ SignupFindOrg(v) \/ SignupCreateOrg(v) \/ SignupCheckEmail(v)
  \/ SignupGrant(v) \/ SignupUser(v) \/ SignupAuthorize(v)

\* A signup adds what it makes, and makes the organisation it goes on with.
LEMMA SignupMoves ==
  ASSUME IdentityInv, NEW v \in Visitors, SignupStep(v)
  PROVE  /\ UNCHANGED <<spa, label, register, keys, keyFile, op, local, cache, req>>
         /\ have \subseteq have' /\ (<<"spa">> \in have' => <<"spa">> \in have)
         /\ \E to : visit' = [visit EXCEPT ![v] = to]
                    /\ (to \in Inside => <<"org", Wish[v].org>> \in have' /\ maker'[Wish[v].org] = v)
         /\ MakersStay /\ maker' = [o \in Orgs |-> maker'[o]]
         /\ \/ UNCHANGED roleOf
            \/ /\ Authorize(<<Wish[v].org, Wish[v].email>>, Wish[v].org, "owner")
               /\ <<"org", Wish[v].org>> \in have' /\ maker'[Wish[v].org] = v
<1> DEFINE o == Wish[v].org
           e == Wish[v].email
<1>1. o \in Orgs
  BY SpecAssumption
<1>2. maker = [x \in Orgs |-> maker[x]]
      /\ (visit[v] \in Inside => <<"org", o>> \in have /\ maker[o] = v)
  BY DEF IdentityInv, VisitInv
<1>3. UNCHANGED <<spa, label, register, keys, keyFile, op, local, cache, req>>
  BY DEF SignupStep, SignupFindOrg, SignupCreateOrg, SignupCheckEmail, SignupGrant, SignupUser,
         SignupAuthorize, Elsewhere
<1>4. CASE SignupFindOrg(v)
  <2>1. UNCHANGED <<have, roleOf, maker>>
    BY <1>4 DEF SignupFindOrg
  <2>2. \E to : visit' = [visit EXCEPT ![v] = to] /\ to \notin Inside
    <3>1. "org taken" \notin Inside /\ "create org" \notin Inside
      BY DEF Inside
    <3>2. \/ visit' = [visit EXCEPT ![v] = "org taken"]
          \/ visit' = [visit EXCEPT ![v] = "create org"]
      BY <1>4 DEF SignupFindOrg, Signed
    <3> QED BY <3>1, <3>2
  <2> QED BY <1>2, <1>3, <2>1, <2>2 DEF MakersStay
<1>5. CASE SignupCreateOrg(v)
  <2>1. CASE <<"org", o>> \in have
    <3>1. UNCHANGED <<have, roleOf, maker>> /\ Signed(v, "org taken")
      BY <1>5, <2>1 DEF SignupCreateOrg
    <3>2. "org taken" \notin Inside
      BY DEF Inside
    <3>3. \E to : visit' = [visit EXCEPT ![v] = to] /\ to \notin Inside
      BY <3>1, <3>2 DEF Signed
    <3> QED BY <1>2, <1>3, <3>1, <3>3 DEF MakersStay
  <2>2. CASE <<"org", o>> \notin have
    <3>1. /\ have' = have \cup {<<"org", o>>} /\ maker' = [maker EXCEPT ![o] = v]
          /\ Signed(v, "check email") /\ UNCHANGED roleOf
      BY <1>5, <2>2 DEF SignupCreateOrg
    <3>2. maker'[o] = v /\ maker' = [x \in Orgs |-> maker'[x]]
          /\ \A x \in Orgs : x # o => maker'[x] = maker[x]
      BY <1>1, <1>2, <3>1
    <3>3. MakersStay
      BY <2>2, <3>1, <3>2 DEF MakersStay
    <3> QED BY <1>3, <3>1, <3>2, <3>3 DEF Signed
  <2> QED BY <2>1, <2>2
<1>6. CASE SignupCheckEmail(v)
  <2>1. UNCHANGED <<have, roleOf, maker>> /\ visit[v] \in Inside
    BY <1>6 DEF SignupCheckEmail, Inside
  <2>2. \E to : visit' = [visit EXCEPT ![v] = to]
    BY <1>6 DEF SignupCheckEmail, Signed
  <2> QED BY <1>2, <1>3, <2>1, <2>2 DEF MakersStay
<1>7. CASE SignupGrant(v) \/ SignupUser(v)
  <2>1. /\ UNCHANGED <<roleOf, maker>> /\ visit[v] \in Inside
        /\ \/ have' = have \cup {<<"grant", o>>}
           \/ have' = have \cup {<<"user", o, e>>}
    BY <1>7 DEF SignupGrant, SignupUser, Inside
  <2>2. \E to : visit' = [visit EXCEPT ![v] = to]
    BY <1>7 DEF SignupGrant, SignupUser, Signed
  <2> QED BY <1>2, <1>3, <2>1, <2>2 DEF MakersStay
<1>8. CASE SignupAuthorize(v)
  <2>1. /\ UNCHANGED maker /\ visit[v] \in Inside
        /\ have' = have \cup {<<"auth", <<o, e>>, o>>}
        /\ Authorize(<<o, e>>, o, "owner")
    BY <1>8 DEF SignupAuthorize, Inside
  <2>2. \E to : visit' = [visit EXCEPT ![v] = to]
    BY <1>8 DEF SignupAuthorize, Signed
  <2> QED BY <1>2, <1>3, <2>1, <2>2 DEF MakersStay
<1> QED BY <1>4, <1>5, <1>6, <1>7, <1>8 DEF SignupStep

LEMMA SignupKeeps ==
  ASSUME IdentityInv, NEW v \in Visitors, SignupStep(v)
  PROVE  IdentityInv' /\ IdpStays /\ LinksStay
<1> DEFINE o == Wish[v].org
           u == <<Wish[v].org, Wish[v].email>>
<1>1. o \in Orgs /\ u \in People
  BY SpecAssumption DEF People
<1>2. /\ UNCHANGED <<spa, label, register, keys, keyFile, op, local, cache, req>>
      /\ have \subseteq have' /\ (<<"spa">> \in have' => <<"spa">> \in have)
      /\ MakersStay /\ maker' = [x \in Orgs |-> maker'[x]]
  BY SignupMoves
<1>3. IdpInv' /\ IdpStays
  BY <1>2 DEF IdentityInv, IdpInv, IdpStays
<1>4. TenantsInv' /\ UsersInv' /\ LinksStay
  BY <1>2, NothingLinked DEF IdentityInv
<1>5. OpInv'
  BY <1>2, <1>3, <1>4, NobodyMoves DEF IdentityInv
<1>6. ReqInv' /\ CacheInv'
  BY <1>2, <1>4, NobodyResolves, CacheStays DEF IdentityInv
<1>7. VisitInv'
  <2>1. PICK to : /\ visit' = [visit EXCEPT ![v] = to]
                  /\ to \in Inside => <<"org", o>> \in have' /\ maker'[o] = v
    BY SignupMoves
  <2>2. \A w \in Visitors : Wish[w].org \in Orgs
    BY SpecAssumption
  <2>3. ASSUME NEW w \in Visitors, visit'[w] \in Inside
        PROVE  <<"org", Wish[w].org>> \in have' /\ maker'[Wish[w].org] = w
    <3>1. CASE w = v
      BY <2>1, <2>3, <3>1 DEF IdentityInv, VisitInv
    <3>2. CASE w # v
      <4>1. visit[w] \in Inside
        BY <2>1, <2>3, <3>2 DEF IdentityInv, VisitInv
      <4> QED BY <1>2, <2>2, <4>1 DEF IdentityInv, VisitInv, MakersStay
    <3> QED BY <3>1, <3>2
  <2>4. visit' = [w \in Visitors |-> visit'[w]]
    BY <2>1 DEF IdentityInv, VisitInv
  <2> QED BY <1>2, <2>3, <2>4 DEF VisitInv
<1>8. RoleInv' /\ EarnedInv'
  <2>1. CASE UNCHANGED roleOf
    BY <1>2, <2>1, NobodyEarns DEF IdentityInv
  <2>2. CASE /\ Authorize(u, o, "owner")
             /\ <<"org", o>> \in have' /\ maker'[o] = v
    <3>1. Earned(<<u, o>>)'
      BY <2>2 DEF Earned
    <3> QED BY <1>1, <1>2, <2>2, <3>1, Authorized DEF IdentityInv
  <2> QED BY <2>1, <2>2, SignupMoves
<1> QED BY <1>3, <1>4, <1>5, <1>6, <1>7, <1>8 DEF IdentityInv

(***************************************************************************)
(* The invariant                                                           *)
(***************************************************************************)
\* A step that leaves the requests and the links alone keeps everything.
LEMMA KeptKeeps ==
  ASSUME IdentityInv, Kept, UNCHANGED <<local, cache, req>>
  PROVE  IdentityInv' /\ IdpStays /\ LinksStay
<1>1. TenantsInv' /\ UsersInv' /\ LinksStay
  BY NothingLinked DEF IdentityInv
<1>2. ReqInv' /\ CacheInv'
  BY <1>1, NobodyResolves, CacheStays DEF IdentityInv
<1> QED BY <1>1, <1>2 DEF IdentityInv, Kept

LEMMA IdentityStep ==
  ASSUME IdentityInv, [Next]_vars
  PROVE  IdentityInv' /\ IdpStays /\ LinksStay
<1>1. ASSUME NEW p \in Operators,
             Find(p) \/ Create(p) \/ reconcileSPA(p) \/ Add(p) \/ Need(p)
               \/ ensureLabelPolicy(p) \/ ensureLoginPolicy(p) \/ ensureServiceKey(p)
      PROVE  IdentityInv' /\ IdpStays /\ LinksStay
  <2>1. Kept
    BY <1>1, FindKeeps, CreateKeeps, AddKeeps, LabelKeeps, LoginKeeps, KeyKeeps
  <2>2. UNCHANGED <<local, cache, req>>
    BY <1>1 DEF Find, Create, reconcileSPA, Add, Need, ensureLabelPolicy, ensureLoginPolicy,
                ensureServiceKey, Zitadel
  <2> QED BY <2>1, <2>2, KeptKeeps
<1>2. ASSUME NEW p \in Operators, Start(p) \/ Fail(p)
      PROVE  IdentityInv' /\ IdpStays /\ LinksStay
  BY <1>2, StartKeeps, KeptKeeps
<1>3. ASSUME NEW p \in Operators, linkIdentities(p)
      PROVE  IdentityInv' /\ IdpStays /\ LinksStay
  <2>1. Kept /\ TenantsInv' /\ UsersInv' /\ LinksStay
    BY <1>3, LinkedKeeps
  <2>2. UNCHANGED <<cache, req>>
    BY <1>3 DEF linkIdentities
  <2>3. ReqInv' /\ CacheInv'
    BY <2>1, <2>2, NobodyResolves, CacheStays DEF IdentityInv
  <2> QED BY <2>1, <2>3 DEF IdentityInv, Kept
<1>4. ASSUME NEW v \in Visitors, SignupStep(v)
      PROVE  IdentityInv' /\ IdpStays /\ LinksStay
  BY <1>4, SignupKeeps
<1>5. ASSUME NEW q \in Requests, Authenticate(q) \/ CacheHit(q) \/ SelectTenant(q)
      PROVE  IdentityInv' /\ IdpStays /\ LinksStay
  <2>1. ReqInv' /\ CacheInv' /\ UNCHANGED <<idp, op, visit, local>>
    BY <1>5, RequestStep DEF IdentityInv
  <2>2. TenantsInv' /\ UsersInv' /\ LinksStay
    BY <2>1, NothingLinked DEF IdentityInv
  <2>3. IdpInv' /\ IdpStays /\ RoleInv' /\ EarnedInv' /\ VisitInv'
    BY <2>1, IdpUntouched
  <2>4. OpInv'
    BY <2>1, <2>2, <2>3, NobodyMoves DEF IdentityInv
  <2> QED BY <2>1, <2>2, <2>3, <2>4 DEF IdentityInv
<1>6. ASSUME NEW q \in Requests, identity_for(q)
      PROVE  IdentityInv' /\ IdpStays /\ LinksStay
  <2>1. TenantsInv' /\ UsersInv' /\ LinksStay /\ ReqInv' /\ CacheInv'
    BY <1>6, IdentityKeeps DEF IdentityInv
  <2>2. UNCHANGED <<idp, op, visit>>
    BY <1>6 DEF identity_for
  <2>3. IdpInv' /\ IdpStays /\ RoleInv' /\ EarnedInv' /\ VisitInv'
    BY <2>2, IdpUntouched
  <2>4. OpInv'
    BY <2>1, <2>2, <2>3, NobodyMoves DEF IdentityInv
  <2> QED BY <2>1, <2>3, <2>4 DEF IdentityInv
<1>7. ASSUME Demote \/ CacheExpires \/ UNCHANGED vars
      PROVE  IdentityInv' /\ IdpStays /\ LinksStay
  <2>1. /\ UNCHANGED <<have, maker, spa, label, register, keys, keyFile, op, visit, local, req>>
        /\ DOMAIN roleOf' = DOMAIN roleOf
        /\ DOMAIN cache' \subseteq DOMAIN cache /\ \A k \in DOMAIN cache' : cache'[k] = cache[k]
    BY <1>7 DEF Demote, CacheExpires, vars, idp
  <2>2. TenantsInv' /\ UsersInv' /\ LinksStay
    BY <2>1, NothingLinked DEF IdentityInv
  <2>3. IdpInv' /\ IdpStays
    BY <2>1 DEF IdentityInv, IdpInv, IdpStays
  <2>4. OpInv'
    BY <2>1, <2>2, <2>3, NobodyMoves DEF IdentityInv
  <2>5. ReqInv' /\ CacheInv'
    BY <2>1, <2>2, NobodyResolves, CacheStays DEF IdentityInv
  <2>6. RoleInv' /\ EarnedInv' /\ VisitInv'
    BY <2>1, NobodyEarns, NobodyVisits DEF IdentityInv, VisitInv, MakersStay
  <2> QED BY <2>2, <2>3, <2>4, <2>5, <2>6 DEF IdentityInv
<1> QED BY <1>1, <1>2, <1>3, <1>4, <1>5, <1>6, <1>7 DEF Next, SignupStep

LEMMA IdentityInit == Init => IdentityInv
<1> SUFFICES ASSUME Init PROVE IdentityInv
  OBVIOUS
<1>1. IdpInv
  <2>1. have = {<<"org", AdminOrg>>} /\ label = [draft |-> FALSE, live |-> FALSE]
        /\ spa = FALSE /\ register = TRUE /\ keys = 0 /\ keyFile = 0
    BY DEF Init
  <2>2. <<"spa">> \notin have
    BY <2>1
  <2>3. label \in [draft : BOOLEAN, live : BOOLEAN] /\ ~label.live
    BY <2>1
  <2>4. spa \in BOOLEAN /\ register \in BOOLEAN
    BY <2>1
  <2>5. keys \in Nat /\ keyFile \in 0 .. keys
    BY <2>1
  <2> QED BY <2>2, <2>3, <2>4, <2>5 DEF IdpInv
<1>2. OpInv
  BY DEF Init, OpInv, Standing, Idle, Phases
<1>3. TenantsInv
  <2>1. DOMAIN tenants = {<<"seed", Tenants[k].org>> : k \in DOMAIN Tenants}
        /\ \A i \in DOMAIN tenants : tenants[i] = None
    BY DEF Init
  <2>6. tenants \in [DOMAIN tenants -> Orgs \cup {None}]
    BY DEF Init
  <2>2. \A i \in DOMAIN tenants : \E o \in Orgs : i = <<"seed", o>>
    BY <2>1, SeededOrgs DEF Seeded
  <2>3. \A o \in Seeded : <<"seed", o>> \in DOMAIN tenants
    BY <2>1 DEF Seeded
  <2>4. \A i \in DOMAIN tenants : \E o \in Orgs : i = <<"seed", o>> /\ tenants[i] \in {None, o}
    BY <2>1, <2>2
  <2>5. \A i, j \in DOMAIN tenants : tenants[i] = tenants[j] /\ tenants[i] # None => i = j
    BY <2>1
  <2> HIDE DEF Seeded
  <2> QED BY <2>3, <2>4, <2>5, <2>6 DEF TenantsInv
<1>4. UsersInv
  <2>1. DOMAIN users = {<<"seed", Tenants[k].email>> : k \in DOMAIN Tenants}
        /\ \A i \in DOMAIN users : users[i] = None
    BY DEF Init
  <2>3. users \in [DOMAIN users -> People \cup {None}]
    BY DEF Init
  <2>2. \A u \in People : <<"sub", u>> \notin DOMAIN users
    BY <2>1
  <2>4. \A i, j \in DOMAIN users : users[i] = users[j] /\ users[i] # None => i = j
    BY <2>1
  <2> QED BY <2>2, <2>3, <2>4 DEF UsersInv
<1>5. ReqInv /\ CacheInv
  BY DEF Init, ReqInv, CacheInv, Resolving
<1>6. RoleInv /\ EarnedInv /\ VisitInv
  BY DEF Init, RoleInv, EarnedInv, VisitInv, Inside
<1> QED BY <1>1, <1>2, <1>3, <1>4, <1>5, <1>6 DEF IdentityInv

LEMMA IdentityHolds == Spec => []IdentityInv
  BY IdentityInit, IdentityStep, PTL DEF Spec

(***************************************************************************)
(* The results                                                             *)
(***************************************************************************)
\* A bootstrap that reports success has left everything it is for in place,
\* whatever failed before, ran beside it or signed up meanwhile (Bootstrap,
\* linkIdentities).
THEOREM SuccessIsProvisioned == Spec => []DoneIsProvisioned
<1>1. ASSUME IdentityInv PROVE DoneIsProvisioned
  <2> SUFFICES ASSUME NEW p \in Operators, op[p].phase = "done"
               PROVE  /\ \A i \in DOMAIN Plan : Plan[i].how \in {"find", "add", "set"} => Plan[i].obj \in have
                      /\ spa /\ label.live /\ ~register /\ keyFile \in 1 .. keys
                      /\ \A i \in DOMAIN Tenants : tenants[<<"seed", Tenants[i].org>>] = Tenants[i].org
    BY DEF DoneIsProvisioned
  <2>1. \A i \in DOMAIN Plan : Accomplished(i)
    <3>1. /\ Standing(op[p]) /\ op[p].pc = Len(Plan) /\ Accomplished(op[p].pc)
          /\ \A i \in 1 .. op[p].pc - 1 : Accomplished(i)
      BY <1>1 DEF IdentityInv, OpInv, Standing
    <3>2. DOMAIN Plan = 1 .. Len(Plan) /\ Len(Plan) \in Nat
      BY PlanLists
    <3> QED BY <3>1, <3>2
  <2>2. \A i \in DOMAIN Plan : Plan[i].how \in {"find", "add", "set"} => Plan[i].obj \in have
    BY <2>1 DEF Accomplished
  <2>3. spa
    <3>1. PICK i \in DOMAIN Plan : Plan[i] = Do("find", <<"spa">>)
      BY PlanLists DEF Has
    <3>2. Plan[i].how = "find" /\ Plan[i].obj = <<"spa">>
      BY <3>1 DEF Do
    <3> QED BY <1>1, <2>2, <3>2 DEF IdentityInv, IdpInv
  <2>4. label.live
    <3>1. PICK i \in DOMAIN Plan : Plan[i] = Do("label", <<"label">>)
      BY PlanLists DEF Has
    <3>2. Plan[i].how = "label"
      BY <3>1 DEF Do
    <3> QED BY <2>1, <3>2 DEF Accomplished
  <2>5. ~register
    <3>1. PICK i \in DOMAIN Plan : Plan[i] = Do("login", <<"login">>)
      BY PlanLists DEF Has
    <3>2. Plan[i].how = "login"
      BY <3>1 DEF Do
    <3> QED BY <2>1, <3>2 DEF Accomplished
  <2>6. keyFile \in 1 .. keys
    <3>1. PICK i \in DOMAIN Plan : Plan[i] = Do("key", <<"key">>)
      BY PlanLists DEF Has
    <3>2. Plan[i].how = "key"
      BY <3>1 DEF Do
    <3> QED BY <2>1, <3>2 DEF Accomplished
  <2>7. ASSUME NEW k \in DOMAIN Tenants
        PROVE  tenants[<<"seed", Tenants[k].org>>] = Tenants[k].org
    <3>1. PICK i \in DOMAIN Plan : Plan[i] = Do("link", <<"tenant", Tenants[k].org>>)
      BY TenantShapes, PlanLists DEF Has
    <3>2. /\ Plan[i].how = "link" /\ Plan[i].obj[1] = "tenant"
          /\ Plan[i].obj[2] = Tenants[k].org
      BY <3>1 DEF Do
    <3>3. Accomplished(i)
      BY <2>1
    <3> QED BY <3>2, <3>3 DEF Accomplished
  <2> QED BY <2>2, <2>3, <2>4, <2>5, <2>6, <2>7
<1> QED BY <1>1, IdentityHolds, PTL

\* A request acts in the tenant, as the user and with the role its token names,
\* however it was resolved, and nobody holds a role that neither the bootstrap's
\* specification nor a signup of their own gave them (identity_for, Signup).
THEOREM AccessIsNamed == Spec => []AccessIsEarned
<1>1. ASSUME IdentityInv PROVE AccessIsEarned
  <2>1. PrincipalMatchesToken
    BY <1>1 DEF IdentityInv, ReqInv, Resolving, Acts, TenantsInv, UsersInv, PrincipalMatchesToken
  <2>2. EveryRoleIsEarned
    BY <1>1 DEF IdentityInv, EarnedInv, Earned, EveryRoleIsEarned
  <2> QED BY <2>1, <2>2 DEF AccessIsEarned
<1> QED BY <1>1, IdentityHolds, PTL

\* No step moves a link: a tenant linked to an organisation, or a user to a
\* person, is never linked to another (linkIdentities, identity_for).
THEOREM LinksAreFinal == Spec => [][LinksStay]_vars
<1>1. ASSUME IdentityInv, [Next]_vars PROVE [LinksStay]_vars
  BY <1>1, IdentityStep
<1> QED BY <1>1, IdentityHolds, PTL DEF Spec

\* A bootstrap that fails undoes nothing, and neither does another one, a signup
\* or a request: what ZITADEL holds stays (Bootstrap's ensure* functions).
THEOREM NothingIsUndone == Spec => [][IdpStays]_vars
<1>1. ASSUME IdentityInv, [Next]_vars PROVE [IdpStays]_vars
  BY <1>1, IdentityStep
<1> QED BY <1>1, IdentityHolds, PTL DEF Spec
=============================================================================
