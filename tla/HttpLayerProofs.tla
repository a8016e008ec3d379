---------------------------- MODULE HttpLayerProofs ----------------------------
(***************************************************************************)
(* What the HTTP layer keeps, for any users, roles in use and lifetimes.   *)
(* The permission tables are finite and are worked out role by role; what  *)
(* JWTs say is followed through time by one invariant, which trades the    *)
(* age of a row against what is left of the JWTs that name it.             *)
(***************************************************************************)
EXTENDS HttpLayer, TLAPS

Refusals == {400, 401, 403, 404, 409, 422, 429}

-----------------------------------------------------------------------------
(* Routes and statuses                                                     *)

\* What the proofs need of the table of routes.
LEMMA RouteTable ==
    /\ routes["login"] = login /\ routes["refresh"] = refresh
    /\ routes["createUser"] = createUser
    /\ routes["editUserRole"] = editUserRole
    /\ routes["editUserStatus"] = editUserStatus
    /\ routes["editUser"] = editUser
    /\ routes["editUserPassword"] = editUserPassword
    /\ routes["findUserById"] = findUserById
BY DEF routes

\* Codes and policies of the routes that change what JWTs or rows say.
LEMMA Policies ==
    /\ routes["login"].code = 200
    /\ routes["refresh"].code = 200
    /\ routes["createUser"].code = 201
    /\ routes["editUserRole"].code = 200
    /\ routes["editUserStatus"].code = 200
    /\ <<"create", "User">> \in routes["createUser"].needs
    /\ <<"update-role", "User">> \in routes["editUserRole"].needs
    /\ <<"activate", "User">> \in routes["editUserStatus"].needs
    /\ ~routes["createUser"].own
    /\ ~routes["editUserRole"].own
    /\ ~routes["editUserStatus"].own
<1>1. login.code = 200
  BY DEF login, Route
<1>2. refresh.code = 200
  BY DEF refresh, Route
<1>3. /\ createUser.code = 201 /\ ~createUser.own
      /\ <<"create", "User">> \in createUser.needs
  BY DEF createUser, Route
<1>4. /\ editUserRole.code = 200 /\ ~editUserRole.own
      /\ <<"update-role", "User">> \in editUserRole.needs
  BY DEF editUserRole, Route
<1>5. /\ editUserStatus.code = 200 /\ ~editUserStatus.own
      /\ <<"activate", "User">> \in editUserStatus.needs
  BY DEF editUserStatus, Route
<1> QED BY <1>1, <1>2, <1>3, <1>4, <1>5, RouteTable

\* Guards, pipes and the error filter answer with refusals only, so a request
\* that is served has passed all of them.
LEMMA ServedIsClean ==
    ASSUME NEW q, Served(q), routes[q.route].code \notin Refusals \union {0}
    PROVE  /\ Permitted(q)
           /\ Error(q) = "none"
<1> DEFINE code == routes[q.route].code
<1>1. Status(q) = code /\ code \notin Refusals \union {0}
  BY DEF Served
<1>2. Guard(q) \in {0, 401, 403, 422, 429}
  BY DEF Guard
<1>3. ParseUuid(q) \in {0, 400} /\ Validate(q) \in {0, 400, 422}
  BY DEF ParseUuid, Validate
<1>4. mapDomainErrorToStatus(Error(q)) \in Refusals
  BY DEF mapDomainErrorToStatus, Refusals
<1>5. Guard(q) = 0 /\ Error(q) = "none"
  BY <1>1, <1>2, <1>3, <1>4 DEF Status, Answer, Refusals
<1>6. Permitted(q)
  BY <1>5 DEF Guard
<1> QED BY <1>5, <1>6

-----------------------------------------------------------------------------
(* Permissions                                                             *)

\* Of the four tables only ADMIN's and MANAGER's allow to create users, to
\* change roles or to change statuses.
LEMMA PrivilegedRoles ==
    ASSUME NEW role \in Roles, NEW sub, NEW target,
           NEW action \in {"create", "update-role", "activate"},
           Allows(role, sub, action, "User", target)
    PROVE  role \in {"ADMIN", "MANAGER"}
<1>1. CASE role = "SUPERVISOR"
  <2>1. permissions[role] = <<Can("read", "User"), Can("list", "User"),
                              CanSelf("update"), Can("manage", "Avatar")>>
    BY <1>1 DEF permissions
  <2> QED BY <2>1 DEF Allows, Matches, Can, CanSelf
<1>2. CASE role = "OPERATOR"
  <2>1. permissions[role] = <<Cannot("read", "User"), Cannot("list", "User"),
                              CanSelf("read"), CanSelf("update"),
                              Can("manage", "Avatar")>>
    BY <1>2 DEF permissions
  <2> QED BY <2>1 DEF Allows, Matches, Can, CanSelf, Cannot
<1> QED BY <1>1, <1>2 DEF Roles

-----------------------------------------------------------------------------
(* What the steps need of the requests they serve                          *)

\* A served login found an active row.
LEMMA LoginFindsActive ==
    ASSUME NEW u \in Users, Served(Ask("login", NoToken, u))
    PROVE  rows[u] # NoRow /\ rows[u].isActive
<1> DEFINE q == Ask("login", NoToken, u)
<1>1. q.route = "login" /\ q.user = u /\ Served(q)
  BY DEF Ask
<1>2. Error(q) = "none"
  <2> HIDE DEF q
  <2> QED BY <1>1, ServedIsClean, Policies DEF Refusals
<1>3. Error(q) = LoginError(q)
  BY <1>1 DEF Error
<1> QED BY <1>1, <1>2, <1>3 DEF LoginError

\* A request that was allowed to write was made with an ADMIN's or a
\* MANAGER's JWT.
LEMMA WriterIsPrivileged ==
    ASSUME NEW t \in Token, NEW u,
           NEW route \in {"createUser", "editUserRole", "editUserStatus"},
           Served(Ask(route, t, u))
    PROVE  t.role \in {"ADMIN", "MANAGER"}
<1> DEFINE q == Ask(route, t, u)
<1>1. q.route = route /\ q.token = t /\ Served(q)
  BY DEF Ask
<1>2. PICK action \in {"create", "update-role", "activate"} :
         <<action, "User">> \in routes[q.route].needs
  BY <1>1, Policies
<1>3. Permitted(q)
  <2> HIDE DEF q
  <2> QED BY <1>1, ServedIsClean, Policies DEF Refusals
<1>4. Allows(t.role, t.sub, action, "User",
             IF routes[q.route].own THEN q.user ELSE AnyTarget)
  <2> HIDE DEF q
  <2> QED BY <1>1, <1>2, <1>3 DEF Permitted
<1>5. t.role \in Roles
  BY DEF Token
<1> QED BY <1>4, <1>5, PrivilegedRoles

-----------------------------------------------------------------------------
(* Types, and what JWTs say                                                *)

\* A JWT names a user there is and a role its row had while active.  If the row
\* says something else by now, the JWT comes from a refresh, or the age of the
\* row and what is left of the JWT are within one lifetime.
Sound(t) == /\ rows[t.sub] # NoRow
            /\ t.role \in held[t.sub]
            /\ Agrees(t) \/ Renewed(t) \/ since[t.sub] + t.left <= JwtLife

IInv == /\ TypeOK
        /\ \A u \in Users : Usable(rows[u]) \subseteq held[u]
        /\ \A t \in tokens : Sound(t)

\* The JWT of a login agrees with the row it read.
LEMMA LoginKeeps ==
    ASSUME IInv, NEW u \in Users, ServeLogin(u)
    PROVE  IInv'
<1> USE HttpAssumption
<1> DEFINE a == [sub |-> u, role |-> rows[u].role, left |-> JwtLife,
                 lineage |-> "old"]
<1>1. rows[u] # NoRow /\ rows[u].isActive
  BY LoginFindsActive DEF ServeLogin
<1>2. rows[u].role \in Roles
  BY <1>1 DEF IInv, TypeOK, Row
<1>3. rows[u].role \in held[u]
  BY <1>1 DEF IInv, Usable
<1>4. /\ tokens' = tokens \union {a}
      /\ rows' = rows /\ since' = since /\ held' = held
  <2>1. /\ GenerateAccessToken(u, rows[u].role, "old") = a
        /\ GenerateRefreshToken(u, rows[u].role) = a
    BY DEF GenerateAccessToken, GenerateRefreshToken, Encrypt
  <2> HIDE DEF a
  <2> QED BY <2>1 DEF ServeLogin, Keep
<1>5. a \in Token
  BY <1>2 DEF Token
<1>6. a.left = JwtLife /\ a.sub = u /\ a.role = rows[u].role
  OBVIOUS
<1> HIDE DEF a
<1>7. TypeOK'
  BY <1>4, <1>5, <1>6 DEF IInv, TypeOK
<1>8. ASSUME NEW t \in tokens'
      PROVE  Sound(t)'
  <2>1. CASE t \in tokens
    BY <1>4, <2>1 DEF IInv, Sound, Renewed, Agrees
  <2>2. CASE t = a
    BY <1>1, <1>3, <1>4, <1>6, <2>2 DEF Sound, Renewed, Agrees
  <2> QED BY <1>4, <1>8, <2>1, <2>2
<1> QED BY <1>4, <1>7, <1>8 DEF IInv, Usable

\* A refresh copies a role that the row had, and is marked as what it is.
LEMMA RefreshKeeps ==
    ASSUME IInv, NEW t \in tokens, ServeRefresh(t)
    PROVE  IInv'
<1> USE HttpAssumption
<1> DEFINE a == [sub |-> t.sub, role |-> t.role, left |-> JwtLife,
                 lineage |-> "renewed"]
<1>1. t \in Token /\ Sound(t)
  BY DEF IInv, TypeOK
<1>2. /\ tokens' = tokens \union {a}
      /\ rows' = rows /\ since' = since /\ held' = held
  <2>1. GenerateAccessToken(t.sub, t.role, "renewed") = a
    BY DEF GenerateAccessToken, Encrypt
  <2> HIDE DEF a
  <2> QED BY <2>1 DEF ServeRefresh, Keep
<1>3. a \in Token
  BY <1>1 DEF Token
<1>4. a.left = JwtLife /\ a.sub = t.sub /\ a.role = t.role /\ Renewed(a)
  BY DEF Renewed
<1> HIDE DEF a
<1>5. TypeOK'
  BY <1>2, <1>3, <1>4 DEF IInv, TypeOK
<1>6. ASSUME NEW x \in tokens'
      PROVE  Sound(x)'
  <2>1. CASE x \in tokens
    BY <1>2, <2>1 DEF IInv, Sound, Renewed, Agrees
  <2>2. CASE x = a
    BY <1>1, <1>2, <1>4, <2>2 DEF Sound, Renewed
  <2> QED BY <1>2, <1>6, <2>1, <2>2
<1> QED BY <1>2, <1>5, <1>6 DEF IInv, Usable

\* A written row starts anew: every JWT of its user fits in one lifetime.
LEMMA StoreKeeps ==
    ASSUME IInv, NEW u \in Users, NEW row \in Row, Store(u, row)
    PROVE  IInv'
<1> USE HttpAssumption
<1> DEFINE seen(t) == IF t.sub = u THEN [t EXCEPT !.lineage = "old"] ELSE t
<1>1. /\ rows' = [rows EXCEPT ![u] = row]
      /\ since' = [since EXCEPT ![u] = 0]
      /\ held' = [held EXCEPT ![u] = @ \union Usable(row)]
      /\ tokens' = {seen(t) : t \in tokens}
  BY DEF Store
<1>2. row # NoRow /\ Usable(row) \subseteq Roles
  BY DEF Row, Usable
<1>3. ASSUME NEW t \in tokens
      PROVE  /\ seen(t) \in Token
             /\ seen(t).left = t.left
             /\ seen(t).sub = t.sub
             /\ seen(t).role = t.role
             /\ t.sub # u => seen(t) = t
  <2>1. t \in Token
    BY DEF IInv, TypeOK
  <2> QED BY <2>1 DEF Token
<1> HIDE DEF seen
<1>4. TypeOK'
  <2>1. tokens' \subseteq Token /\ \A x \in tokens' : x.left <= JwtLife
    BY <1>1, <1>3 DEF IInv, TypeOK
  <2>2. held' \in [Users -> SUBSET Roles]
    BY <1>1, <1>2 DEF IInv, TypeOK
  <2> QED BY <1>1, <2>1, <2>2 DEF IInv, TypeOK, Long
<1>5. \A v \in Users : Usable(rows'[v]) \subseteq held'[v]
  BY <1>1 DEF IInv, TypeOK
<1>6. ASSUME NEW x \in tokens'
      PROVE  Sound(x)'
  <2>1. PICK t \in tokens : x = seen(t)
    BY <1>1
  <2>2. /\ t \in Token /\ t.sub \in Users
        /\ t.left \in Nat /\ t.left <= JwtLife /\ Sound(t)
    BY DEF IInv, TypeOK, Token
  <2>3. x.left = t.left /\ x.sub = t.sub /\ x.role = t.role
    BY <1>3, <2>1
  <2>4. CASE t.sub = u
    <3>1. since'[u] = 0 /\ rows'[u] = row /\ held[u] \subseteq held'[u]
      BY <1>1, <2>2, <2>4 DEF IInv, TypeOK
    <3> QED BY <1>2, <2>2, <2>3, <2>4, <3>1 DEF Sound, Renewed
  <2>5. CASE t.sub # u
    <3>1. /\ since'[t.sub] = since[t.sub] /\ rows'[t.sub] = rows[t.sub]
          /\ held'[t.sub] = held[t.sub]
      BY <1>1, <2>2, <2>5 DEF IInv, TypeOK
    <3>2. x = t
      BY <1>3, <2>1, <2>5
    <3> QED BY <2>2, <3>1, <3>2 DEF Sound, Renewed, Agrees
  <2> QED BY <2>4, <2>5
<1> QED BY <1>4, <1>5, <1>6 DEF IInv, Usable

\* An hour takes from a JWT what it adds to the age of the row.
LEMMA HourKeeps ==
    ASSUME IInv, Hour
    PROVE  IInv'
<1> USE HttpAssumption
<1> DEFINE older(t) == [t EXCEPT !.left = @ - 1]
<1>1. /\ tokens' = {older(t) : t \in {x \in tokens : x.left > 0}}
      /\ rows' = rows /\ held' = held
      /\ since' = [u \in Users |-> IF since[u] < Long THEN since[u] + 1
                                                     ELSE Long]
  BY DEF Hour
<1>2. \A t \in tokens : t \in Token /\ t.left <= JwtLife /\ Sound(t)
  BY DEF IInv, TypeOK
<1>3. ASSUME NEW t \in tokens, t.left > 0
      PROVE  /\ older(t) \in Token
             /\ older(t).left = t.left - 1
             /\ older(t).sub = t.sub
             /\ older(t).role = t.role
             /\ older(t).lineage = t.lineage
  BY <1>2, <1>3 DEF Token
<1> HIDE DEF older
<1>4. tokens' \subseteq Token /\ \A x \in tokens' : x.left <= JwtLife
  BY <1>1, <1>2, <1>3 DEF Token
<1>5. since \in [Users -> 0..Long] /\ Long \in Nat
  BY DEF IInv, TypeOK, Long
<1>6. since' \in [Users -> 0..Long]
  BY <1>1, <1>5
<1>7. ASSUME NEW x \in tokens'
      PROVE  Sound(x)'
  <2>1. PICK t \in tokens : t.left > 0 /\ x = older(t)
    BY <1>1
  <2>2. /\ t.sub \in Users /\ t.left \in Nat /\ x.left = t.left - 1
        /\ x.sub = t.sub /\ x.role = t.role /\ x.lineage = t.lineage
    BY <1>2, <1>3, <2>1 DEF Token
  <2>3. Sound(t)
    BY <1>2
  <2>4. CASE Agrees(t) \/ Renewed(t)
    BY <1>1, <2>2, <2>3, <2>4 DEF Agrees, Sound, Renewed
  <2>5. CASE since[t.sub] + t.left <= JwtLife
    <3>1. since'[x.sub] <= since[t.sub] + 1 /\ since'[x.sub] \in Nat
      BY <1>1, <1>5, <2>2
    <3>2. since[t.sub] \in Nat
      BY <1>5, <2>2
    <3>3. since'[x.sub] + x.left <= JwtLife
      BY <2>2, <2>5, <3>1, <3>2
    <3> QED BY <1>1, <2>2, <2>3, <3>3 DEF Sound, Renewed
  <2> QED BY <2>3, <2>4, <2>5 DEF Sound, Renewed
<1>8. TypeOK'
  BY <1>1, <1>4, <1>6 DEF IInv, TypeOK
<1> QED BY <1>1, <1>7, <1>8 DEF IInv, Usable

THEOREM HttpInvariant == Spec => []IInv
<1> USE HttpAssumption
<1>1. Init => IInv
  <2> SUFFICES ASSUME Init PROVE IInv
    OBVIOUS
  <2>1. \A u \in Users : Usable(rows[u]) \subseteq Roles
    BY DEF Init, InitialRow, Usable
  <2> QED BY <2>1 DEF Init, InitialRow, IInv, TypeOK, Row, Long
<1>2. IInv /\ [Next]_vars => IInv'
  <2> SUFFICES ASSUME IInv, [Next]_vars PROVE IInv'
    OBVIOUS
  <2>1. CASE \E u \in Users : ServeLogin(u)
    BY <2>1, LoginKeeps
  <2>2. CASE \E t \in tokens : ServeRefresh(t)
    BY <2>2, RefreshKeeps
  <2>3. ASSUME NEW t \in tokens, Discard(t) PROVE IInv'
    BY <2>3 DEF Discard, IInv, TypeOK, Sound, Renewed, Agrees, Usable
  <2>4. ASSUME NEW t \in tokens, NEW u \in Users, ServeStatusEdit(t, u)
        PROVE  IInv'
    <3>1. Store(u, [rows[u] EXCEPT !.isActive = ~@])
      BY <2>4 DEF ServeStatusEdit, Write, Ask
    <3>2. [rows[u] EXCEPT !.isActive = ~@] \in Row
      BY <2>4 DEF ServeStatusEdit, IInv, TypeOK, Row
    <3> QED BY <3>1, <3>2, StoreKeeps
  <2>5. ASSUME NEW t \in tokens, NEW u \in Users, NEW role \in RolesInUse,
               ServeCreation(t, u, role)
        PROVE  IInv'
    <3>1. Store(u, [role |-> role, isActive |-> TRUE])
      BY <2>5 DEF ServeCreation, Write, Ask
    <3>2. [role |-> role, isActive |-> TRUE] \in Row
      BY DEF Row
    <3> QED BY <3>1, <3>2, StoreKeeps
  <2>6. ASSUME NEW t \in tokens, NEW u \in Users, NEW role \in RolesInUse,
               ServeRoleEdit(t, u, role)
        PROVE  IInv'
    <3>1. Store(u, [rows[u] EXCEPT !.role = role])
      BY <2>6 DEF ServeRoleEdit, Write, Ask
    <3>2. [rows[u] EXCEPT !.role = role] \in Row
      BY <2>6 DEF ServeRoleEdit, IInv, TypeOK, Row
    <3> QED BY <3>1, <3>2, StoreKeeps
  <2>7. CASE Hour
    BY <2>7, HourKeeps
  <2>8. CASE UNCHANGED vars
    BY <2>8 DEF vars, IInv, TypeOK, Sound, Renewed, Agrees, Usable
  <2> QED BY <2>1, <2>2, <2>3, <2>4, <2>5, <2>6, <2>7, <2>8 DEF Next
<1> QED BY <1>1, <1>2, PTL DEF Spec

\* Types of rows, JWTs and ages: no JWT outlives JwtLife, whatever lifetime its
\* claims asked the encrypter for.
THEOREM TypeCorrect == Spec => []TypeOK
<1>1. IInv => TypeOK
  BY DEF IInv
<1> QED BY <1>1, HttpInvariant, PTL

\* A JWT that says, more than one lifetime after the last change of its user's
\* row, something else than the row is from a refresh made since that change.
THEOREM RenewalKeepsStaleRoles == Spec => []StaleRolesAreRenewed
<1> USE HttpAssumption
<1>1. ASSUME IInv, NEW t \in tokens, since[t.sub] = Long
      PROVE  Agrees(t) \/ Renewed(t)
  <2>1. t.left \in Nat /\ Sound(t)
    BY <1>1 DEF IInv, TypeOK, Token
  <2>2. ~(since[t.sub] + t.left <= JwtLife)
    BY <1>1, <2>1 DEF Long
  <2> QED BY <2>1, <2>2 DEF Sound, Renewed
<1>2. IInv => StaleRolesAreRenewed
  BY <1>1 DEF StaleRolesAreRenewed
<1> QED BY <1>2, HttpInvariant, PTL

-----------------------------------------------------------------------------
(* Who appoints                                                            *)

\* What a request that writes says of the JWT it was made with.
LEMMA WriterWasPrivileged ==
    ASSUME IInv, NEW t \in tokens, NEW u,
           NEW route \in {"createUser", "editUserRole", "editUserStatus"},
           NEW row, Write(Ask(route, t, u), row)
    PROVE  /\ t.role \in {"ADMIN", "MANAGER"} \intersect held[t.sub]
           /\ Agrees(t) \/ Renewed(t) \/ since[t.sub] < Long
<1> USE HttpAssumption
<1>1. t \in Token /\ t.sub \in Users /\ t.left \in Nat
      /\ since[t.sub] \in 0..Long /\ Sound(t)
  BY DEF IInv, TypeOK, Token
<1>2. t.role \in {"ADMIN", "MANAGER"}
  BY <1>1, WriterIsPrivileged DEF Write
<1>3. since[t.sub] + t.left <= JwtLife => since[t.sub] < Long
  BY <1>1 DEF Long
<1> QED BY <1>1, <1>2, <1>3 DEF Sound, Renewed

\* No account is made and no role or status changed but with a JWT of a role
\* that entitles to it and that its user had, either still or until within one
\* JWT lifetime, or by a refresh since.
THEOREM PrivilegedAppoint == Spec => OnlyThePrivilegedAppoint
<1> DEFINE Entitled(t) ==
              /\ t.role \in {"ADMIN", "MANAGER"} \intersect held[t.sub]
              /\ Agrees(t) \/ Renewed(t) \/ since[t.sub] < Long
           A == rows' # rows => \E t \in tokens : Entitled(t)
<1>1. IInv /\ [Next]_vars => [A]_vars
  <2> SUFFICES ASSUME IInv, Next, rows' # rows
               PROVE  \E t \in tokens : Entitled(t)
    BY DEF vars
  <2>1. ASSUME NEW t \in tokens, NEW u \in Users, ServeStatusEdit(t, u)
        PROVE  Entitled(t)
    BY <2>1, WriterWasPrivileged DEF ServeStatusEdit
  <2>2. ASSUME NEW t \in tokens, NEW u \in Users, NEW role \in RolesInUse,
               ServeCreation(t, u, role)
        PROVE  Entitled(t)
    BY <2>2, WriterWasPrivileged DEF ServeCreation
  <2>3. ASSUME NEW t \in tokens, NEW u \in Users, NEW role \in RolesInUse,
               ServeRoleEdit(t, u, role)
        PROVE  Entitled(t)
    BY <2>3, WriterWasPrivileged DEF ServeRoleEdit
  <2>4. \A u \in Users : ServeLogin(u) => rows' = rows
    BY DEF ServeLogin
  <2>5. \A t \in tokens : ServeRefresh(t) \/ Discard(t) => rows' = rows
    BY DEF ServeRefresh, Discard
  <2>6. Hour => rows' = rows
    BY DEF Hour
  <2> HIDE DEF Entitled
  <2> QED BY <2>1, <2>2, <2>3, <2>4, <2>5, <2>6 DEF Next
<1>2. Spec => []IInv
  BY HttpInvariant
<1> QED BY <1>1, <1>2, PTL DEF Spec, OnlyThePrivilegedAppoint

-----------------------------------------------------------------------------
(* Whose profile                                                           *)

\* Every role may update the user whose id is its own, and no other.
LEMMA UpdatesOneself ==
    ASSUME NEW role \in Roles, NEW sub \in Users, NEW target \in Users
    PROVE  Allows(role, sub, "update", "User", target) <=> target = sub
<1> USE HttpAssumption
<1>1. CASE role = "ADMIN"
  <2>1. permissions[role] = <<Can("manage", "all"), Cannot("update", "User"),
                              CanSelf("update")>>
    BY <1>1 DEF permissions
  <2> QED BY <2>1 DEF Allows, Matches, Can, CanSelf, Cannot
<1>2. CASE role = "MANAGER"
  <2>1. permissions[role] =
           <<Can("read", "User"), Can("list", "User"), Can("create", "User"),
             Can("activate", "User"), Can("deactivate", "User"),
             Can("update-role", "User"), CanSelf("update"),
             Can("manage", "Avatar")>>
    BY <1>2 DEF permissions
  <2> QED BY <2>1 DEF Allows, Matches, Can, CanSelf
<1>3. CASE role = "SUPERVISOR"
  <2>1. permissions[role] = <<Can("read", "User"), Can("list", "User"),
                              CanSelf("update"), Can("manage", "Avatar")>>
    BY <1>3 DEF permissions
  <2> QED BY <2>1 DEF Allows, Matches, Can, CanSelf
<1>4. CASE role = "OPERATOR"
  <2>1. permissions[role] = <<Cannot("read", "User"), Cannot("list", "User"),
                              CanSelf("read"), CanSelf("update"),
                              Can("manage", "Avatar")>>
    BY <1>4 DEF permissions
  <2> QED BY <2>1 DEF Allows, Matches, Can, CanSelf, Cannot
<1> QED BY <1>1, <1>2, <1>3, <1>4 DEF Roles

\* Every role may read the user whose id is its own.
LEMMA ReadsOneself ==
    ASSUME NEW role \in Roles, NEW sub \in Users
    PROVE  Allows(role, sub, "read", "User", sub)
<1>1. CASE role = "ADMIN"
  <2>1. permissions[role] = <<Can("manage", "all"), Cannot("update", "User"),
                              CanSelf("update")>>
    BY <1>1 DEF permissions
  <2> QED BY <2>1 DEF Allows, Matches, Can, CanSelf, Cannot
<1>2. CASE role = "MANAGER"
  <2>1. permissions[role] =
           <<Can("read", "User"), Can("list", "User"), Can("create", "User"),
             Can("activate", "User"), Can("deactivate", "User"),
             Can("update-role", "User"), CanSelf("update"),
             Can("manage", "Avatar")>>
    BY <1>2 DEF permissions
  <2> QED BY <2>1 DEF Allows, Matches, Can, CanSelf
<1>3. CASE role = "SUPERVISOR"
  <2>1. permissions[role] = <<Can("read", "User"), Can("list", "User"),
                              CanSelf("update"), Can("manage", "Avatar")>>
    BY <1>3 DEF permissions
  <2> QED BY <2>1 DEF Allows, Matches, Can, CanSelf
<1>4. CASE role = "OPERATOR"
  <2>1. permissions[role] = <<Cannot("read", "User"), Cannot("list", "User"),
                              CanSelf("read"), CanSelf("update"),
                              Can("manage", "Avatar")>>
    BY <1>4 DEF permissions
  <2> QED BY <2>1 DEF Allows, Matches, Can, CanSelf, Cannot
<1> QED BY <1>1, <1>2, <1>3, <1>4 DEF Roles

\* The three routes on one's own profile.
LEMMA ProfileRoutes ==
    /\ ~editUser.public /\ ~editUser.limited /\ ~editUser.csrf /\ editUser.own
    /\ editUser.code = 200 /\ editUser.needs = {<<"update", "User">>}
    /\ ~editUserPassword.public /\ ~editUserPassword.limited
    /\ ~editUserPassword.csrf /\ editUserPassword.own
    /\ editUserPassword.code = 204
    /\ editUserPassword.needs = {<<"update", "User">>}
    /\ ~findUserById.public /\ ~findUserById.limited
    /\ ~findUserById.csrf /\ findUserById.own
    /\ findUserById.code = 200 /\ findUserById.needs = {<<"read", "User">>}
<1>1. /\ ~editUser.public /\ ~editUser.limited /\ ~editUser.csrf /\ editUser.own
      /\ editUser.code = 200 /\ editUser.needs = {<<"update", "User">>}
  BY DEF editUser, Route
<1>2. /\ ~editUserPassword.public /\ ~editUserPassword.limited
      /\ ~editUserPassword.csrf /\ editUserPassword.own
      /\ editUserPassword.code = 204
      /\ editUserPassword.needs = {<<"update", "User">>}
  BY DEF editUserPassword, Route
<1>3. /\ ~findUserById.public /\ ~findUserById.limited
      /\ ~findUserById.csrf /\ findUserById.own
      /\ findUserById.code = 200 /\ findUserById.needs = {<<"read", "User">>}
  BY DEF findUserById, Route
<1> QED BY <1>1, <1>2, <1>3

\* A request without a flaw, of somebody for an existing profile, is served if
\* and only if the policy of its route allows it.
LEMMA ServedIfPermitted ==
    ASSUME NEW t \in Callers, NEW v \in Users,
           rows[t.sub] # NoRow, rows[v] # NoRow,
           NEW route \in {"editUser", "editUserPassword", "findUserById"},
           NEW action, routes[route].needs = {<<action, "User">>}
    PROVE  Served(Ask(route, t, v)) <=> Allows(t.role, t.sub, action, "User", v)
<1> USE HttpAssumption
<1>0. t # NoToken /\ t # ResetToken
  <2>1. t \in [sub : Users, role : Roles, left : Nat,
                 lineage : {"old", "renewed"}]
    BY DEF Callers
  <2> QED BY <2>1
<1> DEFINE q == Ask(route, t, v)
<1>1. /\ q.route = route /\ q.token = t /\ q.user = v /\ q.flaw = "none"
  BY DEF Ask
<1> HIDE DEF q
<1>2. /\ ~routes[route].public /\ ~routes[route].limited
      /\ ~routes[route].csrf /\ routes[route].own
      /\ routes[route].code \in {200, 204}
  BY ProfileRoutes, RouteTable
<1>3. Permitted(q) <=> Allows(t.role, t.sub, action, "User", v)
  <2> DEFINE need == <<action, "User">>
  <2>1. need[1] = action /\ need[2] = "User"
    OBVIOUS
  <2> HIDE DEF need
  <2>2. routes[q.route].needs = {need} /\ routes[q.route].own
    BY <1>1, <1>2 DEF need
  <2>3. Permitted(q) <=> Allows(t.role, t.sub, need[1], need[2], v)
    BY <1>1, <2>2, Zenon DEF Permitted
  <2> QED BY <2>1, <2>3
<1>4. Guard(q) = IF Permitted(q) THEN 0 ELSE 403
  BY <1>0, <1>1, <1>2 DEF Guard
<1>5. ParseUuid(q) = 0 /\ Validate(q) = 0
  BY <1>1 DEF ParseUuid, Validate
<1>6. FindError(q) = "none" /\ PasswordError(q) = "none"
  BY <1>1 DEF FindError, PasswordError
<1>7. Error(q) = "none"
  BY <1>1, <1>6 DEF Error
<1>8. Served(q) <=> Permitted(q)
  BY <1>1, <1>2, <1>4, <1>5, <1>7 DEF Served, Status, Answer
<1> QED BY <1>3, <1>8 DEF q

\* Profiles and passwords are edited by their users and nobody else, and read
\* by their users, whatever their roles and whichever users there are.
THEOREM OwnersAlone == Spec => []ProfilesAreTheirOwners
<1>1. ASSUME NEW t \in Callers, NEW v \in Users,
             rows[t.sub] # NoRow, rows[v] # NoRow
      PROVE  /\ Served(Ask("editUser", t, v)) <=> t.sub = v
             /\ Served(Ask("editUserPassword", t, v)) <=> t.sub = v
             /\ t.sub = v => Served(Ask("findUserById", t, v))
  <2>1. t.role \in Roles /\ t.sub \in Users
    BY DEF Callers
  <2>2. Allows(t.role, t.sub, "update", "User", v) <=> t.sub = v
    BY <2>1, UpdatesOneself
  <2>3. t.sub = v => Allows(t.role, t.sub, "read", "User", v)
    BY <2>1, ReadsOneself
  <2>4. /\ routes["editUser"].needs = {<<"update", "User">>}
        /\ routes["editUserPassword"].needs = {<<"update", "User">>}
        /\ routes["findUserById"].needs = {<<"read", "User">>}
    BY ProfileRoutes, RouteTable
  <2> QED BY <1>1, <2>2, <2>3, <2>4, ServedIfPermitted
<1>2. ProfilesAreTheirOwners
  BY <1>1 DEF ProfilesAreTheirOwners
<1> QED BY <1>2, PTL

-----------------------------------------------------------------------------
(* What the API descriptions list                                          *)

\* Where a status comes from, on a route that is neither public nor limited
\* nor asks for the CSRF header, unless the bearer is a reset link's JWT.
LEMMA StatusComesFrom ==
    ASSUME NEW q, ~routes[q.route].public, ~routes[q.route].limited,
           ~routes[q.route].csrf
    PROVE  \/ Status(q) = 422 /\ q.token = ResetToken
           \/ Status(q) = 401
           \/ Status(q) = 403 /\ routes[q.route].needs # {}
           \/ Status(q) = 400 /\ routes[q.route].id
           \/ Status(q) = 400 /\ routes[q.route].body \in {"zod", "file"}
           \/ /\ Status(q) = 422
              /\ routes[q.route].body \in {"zod", "defaulted", "union"}
           \/ Status(q) = routes[q.route].code
           \/ /\ Error(q) # "none"
              /\ Status(q) = mapDomainErrorToStatus(Error(q))
<1> DEFINE route == routes[q.route]
<1>1. \/ Guard(q) \in {0, 401}
      \/ Guard(q) = 422 /\ q.token = ResetToken
      \/ Guard(q) = 403 /\ ~Permitted(q)
  BY DEF Guard
<1>2. ~Permitted(q) => route.needs # {}
  BY DEF Permitted
<1>3. ParseUuid(q) = 0 \/ (ParseUuid(q) = 400 /\ route.id)
  BY DEF ParseUuid
<1>4. \/ Validate(q) = 0
      \/ Validate(q) = 400 /\ route.body \in {"zod", "file"}
      \/ Validate(q) = 422 /\ route.body \in {"zod", "defaulted", "union"}
  BY DEF Validate
<1>5. \/ Answer(q) = route.code
      \/ Error(q) # "none" /\ Answer(q) = mapDomainErrorToStatus(Error(q))
  BY DEF Answer
<1>6. Status(q) = IF Guard(q) # 0 THEN Guard(q)
                  ELSE IF ParseUuid(q) # 0 THEN ParseUuid(q)
                  ELSE IF Validate(q) # 0 THEN Validate(q) ELSE Answer(q)
  BY DEF Status
<1> HIDE DEF route
<1> QED BY <1>1, <1>2, <1>3, <1>4, <1>5, <1>6 DEF route

\* The routes whose descriptions are complete.
LEMMA DescribedRoutes ==
    ASSUME NEW route \in Described
    PROVE  /\ ~routes[route].public /\ ~routes[route].limited
           /\ ~routes[route].csrf
           /\ {routes[route].code, 401} \subseteq routes[route].describes
           /\ routes[route].needs # {} => 403 \in routes[route].describes
           /\ routes[route].id \/ routes[route].body \in {"zod", "file"}
                 => 400 \in routes[route].describes
           /\ routes[route].body \in {"zod", "defaulted", "union"}
                 => 422 \in routes[route].describes
<1>1. CASE route = "createUser"
  BY <1>1, RouteTable DEF createUser, Route
<1>2. CASE route = "editUser"
  BY <1>2, RouteTable DEF editUser, Route
<1>3. CASE route = "editUserRole"
  BY <1>3, RouteTable DEF editUserRole, Route
<1>4. CASE route = "editUserStatus"
  BY <1>4, RouteTable DEF editUserStatus, Route
<1>5. CASE route = "findUserById"
  BY <1>5, RouteTable DEF findUserById, Route
<1>6. CASE route = "listUsers"
  <2>1. routes["listUsers"] = listUsers
    BY DEF routes
  <2> QED BY <1>6, <2>1 DEF listUsers, Route
<1>7. CASE route = "logout"
  <2>1. routes["logout"] = logout
    BY DEF routes
  <2> QED BY <1>7, <2>1 DEF logout, Route
<1> QED BY <1>1, <1>2, <1>3, <1>4, <1>5, <1>6, <1>7 DEF Described

\* Their use cases' errors are described too.
LEMMA DescribedErrors ==
    ASSUME NEW q, q.route \in Described, Error(q) # "none"
    PROVE  mapDomainErrorToStatus(Error(q)) \in routes[q.route].describes
<1>1. CASE q.route = "createUser"
  <2>1. Error(q) = "UserAlreadyExistsError"
    BY <1>1 DEF Error, CreateError
  <2>2. 409 \in createUser.describes
    BY DEF createUser, Route
  <2> QED BY <1>1, <2>1, <2>2, RouteTable DEF mapDomainErrorToStatus
<1>2. CASE q.route \in {"editUser", "editUserRole", "editUserStatus",
                        "findUserById"}
  <2>1. Error(q) = "UserNotFoundError"
    BY <1>2 DEF Error, FindError
  <2>2. /\ 404 \in editUser.describes /\ 404 \in editUserRole.describes
        /\ 404 \in editUserStatus.describes /\ 404 \in findUserById.describes
    <3>1. 404 \in editUser.describes
      BY DEF editUser, Route
    <3>2. 404 \in editUserRole.describes
      BY DEF editUserRole, Route
    <3>3. 404 \in editUserStatus.describes
      BY DEF editUserStatus, Route
    <3>4. 404 \in findUserById.describes
      BY DEF findUserById, Route
    <3> QED BY <3>1, <3>2, <3>3, <3>4
  <2>3. mapDomainErrorToStatus("UserNotFoundError") = 404
    BY DEF mapDomainErrorToStatus
  <2> QED BY <1>2, <2>1, <2>2, <2>3, RouteTable
<1>3. CASE q.route = "listUsers"
  BY <1>3 DEF Error
<1>4. CASE q.route = "logout"
  <2>1. Error(q) = "UserUnauthorizedError"
    BY <1>4 DEF Error, LogoutError
  <2>2. mapDomainErrorToStatus("UserUnauthorizedError") = 401
    BY DEF mapDomainErrorToStatus
  <2>3. 401 \in routes[q.route].describes
    BY DescribedRoutes
  <2> QED BY <2>1, <2>2, <2>3
<1> QED BY <1>1, <1>2, <1>3, <1>4 DEF Described

\* Whatever is asked of these routes, by whomever and for whomever, is
\* answered with a status their API description lists, but for the 422 of a
\* reset link's JWT.
THEOREM DescriptionsHold == Spec => []AnswersAsDescribed
<1>1. ASSUME NEW q, q.route \in Described
      PROVE  \/ Status(q) \in routes[q.route].describes
             \/ q.token = ResetToken /\ Status(q) = 422
  BY <1>1, StatusComesFrom, DescribedRoutes, DescribedErrors
<1>2. ASSUME NEW route \in Described, NEW token, NEW flaw, NEW user
      PROVE  LET status == Status([route |-> route, token |-> token,
                                   user |-> user, flaw |-> flaw])
             IN  \/ status \in routes[route].describes
                 \/ token = ResetToken /\ status = 422
  <2> DEFINE q == [route |-> route, token |-> token, user |-> user,
                   flaw |-> flaw]
  <2>1. q.route = route /\ q.token = token
    OBVIOUS
  <2> HIDE DEF q
  <2>2. \/ Status(q) \in routes[route].describes
        \/ token = ResetToken /\ Status(q) = 422
    BY <1>1, <2>1
  <2> QED BY <2>2 DEF q
<1>3. AnswersAsDescribed
  BY <1>2 DEF AnswersAsDescribed
<1> QED BY <1>3, PTL
===============================================================================
