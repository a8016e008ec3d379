------------------------------- MODULE HttpLayer -------------------------------
(***************************************************************************)
(* The HTTP layer: what each controller's decorators ask of a request, the *)
(* guards, pipes and error filters that decide its status, and what the    *)
(* served requests do to the users' roles and to the JWTs that carry them. *)
(*                                                                         *)
(* A request is one step here: what happens between its awaits is in       *)
(* UserRequests, UserDetails, Sessions and ExternalCalls.  What is        *)
(* modelled is what outlives it: a JWT keeps the role its user had at the  *)
(* login, and a refresh copies it.  Time is kept as ages, so that there is *)
(* no last hour.                                                           *)
(***************************************************************************)
EXTENDS Permissions, FiniteSets

CONSTANTS
    Users,
    Malformed,   \* an id that is no UUID
    NoRow,
    NoToken,
    ResetToken,  \* the JWT of a reset link: signed alike, without role or jti
    RolesInUse,  \* the roles accounts are given
    JwtLife,     \* hours that a JWT is signed for
    SessionLife, \* hours that a login asks its refresh token to be signed for
    MaxTokens    \* bound on the JWTs clients keep

ASSUME HttpAssumption ==
    /\ RolesInUse \subseteq Roles
    /\ NoRow \notin [role : Roles, isActive : BOOLEAN]
    /\ {NoToken, ResetToken} \intersect
          [sub : Users, role : Roles, left : Nat,
           lineage : {"old", "renewed"}] = {}
    /\ NoToken # ResetToken
    /\ AnyTarget \notin Users /\ Malformed \notin Users
    /\ JwtLife \in Nat /\ SessionLife \in Nat

VARIABLES
    rows,    \* the users table
    tokens,  \* the unexpired JWTs that clients keep
    since,   \* since[u]: for how long u's row is as it is (history variable,
             \* no longer told apart beyond Long)
    held     \* held[u]: the roles u's row had while active (history variable)

vars == <<rows, tokens, since, held>>

Row == [role : Roles, isActive : BOOLEAN]

\* Nothing in a JWT says what it was issued as: any of them is a bearer, and
\* any of them refreshes.  The lineage is no claim but history: a JWT is
\* "renewed" if it comes from a refresh since its user's row last changed.
Token == [sub : Users, role : Roles, left : Nat, lineage : {"old", "renewed"}]

Renewed(t) == t.lineage = "renewed"

\* The first age of a row that no JWT from before can have reached.
Long == JwtLife + 1

-----------------------------------------------------------------------------
(* The controllers: "needs" are the policies, asked of the id in the path   *)
(* if "own"; "describes" are the statuses the API description lists.        *)

Route == [public |-> FALSE, limited |-> FALSE, csrf |-> FALSE, needs |-> {},
          own |-> FALSE, id |-> FALSE, body |-> "none", code |-> 200,
          describes |-> {}]

login == [Route EXCEPT !.public = TRUE, !.limited = TRUE,
          !.body = "zod", !.describes = {200, 400, 401, 403, 422, 500}]

refresh == [Route EXCEPT !.public = TRUE, !.csrf = TRUE,
            !.describes = {200, 400, 401, 500}]

logout == [Route EXCEPT !.code = 204, !.describes = {204, 401, 500}]

forgotPassword == [Route EXCEPT !.public = TRUE, !.limited = TRUE,
                   !.body = "zod", !.code = 204, !.describes = {204}]

resetPassword == [Route EXCEPT !.public = TRUE, !.limited = TRUE,
                  !.body = "zod", !.code = 204, !.describes = {204, 400}]

createUser == [Route EXCEPT !.needs = {<<"create", "User">>}, !.body = "zod",
               !.code = 201,
               !.describes = {201, 400, 401, 403, 409, 422, 500}]

editUser == [Route EXCEPT !.needs = {<<"update", "User">>}, !.own = TRUE,
             !.id = TRUE, !.body = "zod",
             !.describes = {200, 400, 401, 403, 404, 422, 500}]

editUserPassword == [Route EXCEPT !.needs = {<<"update", "User">>},
                     !.own = TRUE, !.body = "zod", !.code = 204,
                     !.describes = {204, 400, 401, 404, 422, 500}]

editUserRole == [Route EXCEPT !.needs = {<<"update-role", "User">>},
                 !.id = TRUE, !.body = "union",
                 !.describes = {200, 400, 401, 403, 404, 422, 500}]

editUserStatus == [Route EXCEPT
                   !.needs = {<<"activate", "User">>, <<"deactivate", "User">>},
                   !.id = TRUE, !.describes = {200, 400, 401, 403, 404, 500}]

findUserById == [Route EXCEPT !.needs = {<<"read", "User">>}, !.own = TRUE,
                 !.id = TRUE, !.describes = {200, 400, 401, 403, 404, 500}]

listUsers == [Route EXCEPT !.needs = {<<"list", "User">>},
              !.body = "defaulted", !.describes = {200, 401, 403, 422, 500}]

uploadAvatar == [Route EXCEPT !.needs = {<<"manage", "Avatar">>},
                 !.body = "file", !.code = 201, !.describes = {201, 403, 500}]

listAuditLogs == [Route EXCEPT !.needs = {<<"list", "AuditLog">>},
                  !.body = "zod", !.describes = {200, 401, 403, 422, 500}]

routes ==
    [login |-> login, refresh |-> refresh, logout |-> logout,
     forgotPassword |-> forgotPassword, resetPassword |-> resetPassword,
     createUser |-> createUser, editUser |-> editUser,
     editUserPassword |-> editUserPassword, editUserRole |-> editUserRole,
     editUserStatus |-> editUserStatus, findUserById |-> findUserById,
     listUsers |-> listUsers, uploadAvatar |-> uploadAvatar,
     listAuditLogs |-> listAuditLogs]

-----------------------------------------------------------------------------
(* From a request to its status                                            *)

\* What may be wrong with a request apart from who makes it: one too many, a
\* field missing or refused, the CSRF header, or what it proves (a password, a
\* live session, a reset token).
Flaws == {"none", "limit", "missing", "invalid", "csrf", "secret"}

Ask(route, token, user) ==
    [route |-> route, token |-> token, user |-> user, flaw |-> "none"]

Permitted(q) ==
    \A need \in routes[q.route].needs :
       Allows(q.token.role, q.token.sub, need[1], need[2],
              IF routes[q.route].own THEN q.user ELSE AnyTarget)

\* The status a guard answers with, 0 if they let the request on.  A JWT that
\* verifies but names no role and no session fails in JwtStrategy.validate,
\* whose ZodError the filter makes a 422.
Guard(q) ==
    LET route == routes[q.route] IN
    IF ~route.public /\ q.token = NoToken THEN 401
    ELSE IF ~route.public /\ q.token = ResetToken THEN 422
    ELSE IF route.limited /\ q.flaw = "limit" THEN 429
    ELSE IF route.csrf /\ q.flaw = "csrf" THEN 403
    ELSE IF ~Permitted(q) THEN 403
    ELSE 0

ParseUuid(q) == IF routes[q.route].id /\ q.user = Malformed THEN 400 ELSE 0

\* ZodValidationPipe and ParseFilePipe.  A field is missing to the first only
\* if the issue says so itself: a role is checked by a union, whose issue is
\* invalid_union.
Validate(q) ==
    LET body == routes[q.route].body IN
    IF q.flaw = "missing" /\ body \in {"zod", "file"} THEN 400
    ELSE IF q.flaw \in {"missing", "invalid"} /\ body = "union" THEN 422
    ELSE IF q.flaw = "invalid" /\ body \in {"zod", "defaulted"} THEN 422
    ELSE IF q.flaw = "invalid" /\ body = "file" THEN 400
    ELSE 0

LoginError(q) ==
    IF rows[q.user] = NoRow THEN "WrongCredentialsError"
    ELSE IF ~rows[q.user].isActive THEN "UserInactiveError"
    ELSE IF q.flaw = "secret" THEN "WrongCredentialsError"
    ELSE "none"

RefreshError(q) ==
    IF q.token \in {NoToken, ResetToken} \/ q.flaw = "secret"
    THEN "UserUnauthorizedError" ELSE "none"

ResetError(q) ==
    IF q.flaw = "secret" THEN "UserUnauthorizedError"
    ELSE IF rows[q.user] = NoRow THEN "UserNotFoundError"
    ELSE "none"

CreateError(q) ==
    IF rows[q.user] # NoRow THEN "UserAlreadyExistsError" ELSE "none"

\* The user is the token's, not the path's.
PasswordError(q) ==
    IF rows[q.token.sub] = NoRow THEN "UserNotFoundError"
    ELSE IF q.flaw = "secret" THEN "WrongCredentialsError"
    ELSE "none"

LogoutError(q) ==
    IF rows[q.token.sub] = NoRow THEN "UserUnauthorizedError" ELSE "none"

FindError(q) == IF rows[q.user] = NoRow THEN "UserNotFoundError" ELSE "none"

\* What the use case of a request throws.
Error(q) ==
    CASE q.route = "login"            -> LoginError(q)
      [] q.route = "refresh"          -> RefreshError(q)
      [] q.route = "resetPassword"    -> ResetError(q)
      [] q.route = "createUser"       -> CreateError(q)
      [] q.route = "editUserPassword" -> PasswordError(q)
      [] q.route = "logout"           -> LogoutError(q)
      [] q.route \in {"editUser", "editUserRole", "editUserStatus",
                      "findUserById"} -> FindError(q)
      [] OTHER -> "none"

\* Mutant: an error without a case falls through to the default.
mapToStatusWithout401(name) ==
    CASE name = "WrongCredentialsError"  -> 401
      [] name = "UserInactiveError"      -> 403
      [] name = "UserNotFoundError"      -> 404
      [] name = "UserAlreadyExistsError" -> 409
      [] OTHER -> 400

mapDomainErrorToStatus(name) ==
    CASE name \in {"UserUnauthorizedError", "WrongCredentialsError"} -> 401
      [] name = "UserInactiveError"      -> 403
      [] name = "UserNotFoundError"      -> 404
      [] name = "UserAlreadyExistsError" -> 409
      [] OTHER -> 400

Answer(q) == IF Error(q) = "none" THEN routes[q.route].code
             ELSE mapDomainErrorToStatus(Error(q))

Status(q) ==
    LET guard == Guard(q)
        pipe  == IF ParseUuid(q) # 0 THEN ParseUuid(q) ELSE Validate(q)
    IN  IF guard # 0 THEN guard ELSE IF pipe # 0 THEN pipe ELSE Answer(q)

Served(q) == Status(q) = routes[q.route].code

-----------------------------------------------------------------------------
(* What requests do.  One that is refused, or served without a change to    *)
(* roles and JWTs, is a stuttering step.                                    *)

InitialRow == [role : RolesInUse, isActive : BOOLEAN]

\* The roles that a row lets its user log in with.
Usable(row) == IF row # NoRow /\ row.isActive THEN {row.role} ELSE {}

Init == /\ rows \in [Users -> InitialRow \union {NoRow}]
        /\ tokens = {}
        /\ since = [u \in Users |-> Long]
        /\ held = [u \in Users |-> Usable(rows[u])]

\* Mutant: the exp of the claims is kept.
EncryptAsAsked(claims) == claims

\* JwtEncrypter signs its own default lifetime over the one in the claims.
Encrypt(claims) == [claims EXCEPT !.left = JwtLife]

GenerateAccessToken(sub, role, lineage) ==
    Encrypt([sub |-> sub, role |-> role, left |-> JwtLife,
             lineage |-> lineage])

\* But for the lifetime it asks for, what GenerateAccessToken signs.
GenerateRefreshToken(sub, role) ==
    Encrypt([sub |-> sub, role |-> role, left |-> SessionLife,
             lineage |-> "old"])

Keep(new) == /\ tokens' = tokens \union new
             /\ Cardinality(tokens') <= MaxTokens

ServeLogin(u) ==
    /\ Served(Ask("login", NoToken, u))
    /\ Keep({GenerateAccessToken(u, rows[u].role, "old"),
             GenerateRefreshToken(u, rows[u].role)})
    /\ UNCHANGED <<rows, since, held>>

\* Neither the row nor its role is read again, nor is it asked whether the
\* JWT was issued to refresh with.
ServeRefresh(t) ==
    /\ Served(Ask("refresh", t, t.sub))
    /\ Keep({GenerateAccessToken(t.sub, t.role, "renewed")})
    /\ UNCHANGED <<rows, since, held>>

\* A written row is a new one: nothing of its user's JWTs is from after it.
Store(u, row) ==
    /\ rows' = [rows EXCEPT ![u] = row]
    /\ since' = [since EXCEPT ![u] = 0]
    /\ held' = [held EXCEPT ![u] = @ \union Usable(row)]
    /\ tokens' = {IF t.sub = u THEN [t EXCEPT !.lineage = "old"] ELSE t :
                    t \in tokens}

\* Mutant: a request with any JWT is served.
WriteUnasked(q, row) == Store(q.user, row)

Write(q, row) == Served(q) /\ Store(q.user, row)

ServeCreation(t, u, role) ==
    Write(Ask("createUser", t, u), [role |-> role, isActive |-> TRUE])

ServeRoleEdit(t, u, role) ==
    /\ rows[u] # NoRow
    /\ Write(Ask("editUserRole", t, u), [rows[u] EXCEPT !.role = role])

ServeStatusEdit(t, u) ==
    /\ rows[u] # NoRow
    /\ Write(Ask("editUserStatus", t, u), [rows[u] EXCEPT !.isActive = ~@])

-----------------------------------------------------------------------------
(* Time and clients                                                        *)

\* A JWT may live into the hour after the one its lifetime counts.
Hour ==
    /\ tokens' = {[t EXCEPT !.left = @ - 1] : t \in {x \in tokens : x.left > 0}}
    /\ since' = [u \in Users |->
                    IF since[u] < Long THEN since[u] + 1 ELSE Long]
    /\ UNCHANGED <<rows, held>>

Discard(t) ==
    /\ tokens' = tokens \ {t}
    /\ UNCHANGED <<rows, since, held>>

Next == \/ \E u \in Users : ServeLogin(u)
        \/ \E t \in tokens :
              \/ ServeRefresh(t) \/ Discard(t)
              \/ \E u \in Users :
                    \/ ServeStatusEdit(t, u)
                    \/ \E role \in RolesInUse :
                          ServeCreation(t, u, role) \/ ServeRoleEdit(t, u, role)
        \/ Hour

Spec == Init /\ [][Next]_vars

-----------------------------------------------------------------------------
TypeOK ==
    /\ rows \in [Users -> Row \union {NoRow}]
    /\ tokens \subseteq Token
    /\ \A t \in tokens : t.left <= JwtLife
    /\ since \in [Users -> 0..Long]
    /\ held \in [Users -> SUBSET Roles]

Agrees(t) == /\ rows[t.sub] # NoRow
             /\ rows[t.sub].isActive /\ rows[t.sub].role = t.role

\* The role in a JWT is read from the row at the login only, so a demoted or
\* deactivated user keeps what the JWTs say.  One JWT lifetime after the change
\* it is gone, unless it was refreshed in the meantime: by refreshing, with
\* whichever JWT, the old role is kept without end.
StaleRolesAreRenewed ==
    \A t \in tokens : since[t.sub] = Long => Agrees(t) \/ Renewed(t)

\* Accounts are made, and roles and statuses changed, with a JWT that names
\* ADMIN or MANAGER, as its user's row did while it was active, and that the
\* row still agrees with, or has ceased to within one JWT lifetime, or that
\* was refreshed since: privilege does not arise where it never was, and
\* nothing but a refresh brings it past the hour after its end.
OnlyThePrivilegedAppoint ==
    [][rows' # rows =>
          \E t \in tokens :
             /\ t.role \in {"ADMIN", "MANAGER"} \intersect held[t.sub]
             /\ Agrees(t) \/ Renewed(t) \/ since[t.sub] < Long]_vars

\* Anybody who could hold a JWT of a login, whatever the roles in use.
Callers == [sub : Users, role : Roles, left : {0},
            lineage : {"old"}]

\* Whatever the role, a user's profile and password are edited by that user
\* and nobody else, and read by that user in any case: ADMIN's "manage all" is
\* taken back for updates and given back for oneself, OPERATOR's reads alike.
ProfilesAreTheirOwners ==
    \A caller \in Callers, v \in Users :
       (rows[caller.sub] # NoRow /\ rows[v] # NoRow) =>
          /\ Served(Ask("editUser", caller, v)) <=> caller.sub = v
          /\ Served(Ask("editUserPassword", caller, v)) <=> caller.sub = v
          /\ caller.sub = v => Served(Ask("findUserById", caller, v))

\* The routes whose API description lists what the guards and pipes answer.
Described == {"createUser", "editUser", "editUserRole", "editUserStatus",
              "findUserById", "listUsers", "logout"}

\* Whoever asks, whichever of these flaws the request has and whichever rows
\* there are, these routes answer with a status their API description lists.
\* The bearer of a reset link's JWT is excepted, whose 422 some leave out.
AnswersAsDescribed ==
    \A route \in Described, flaw \in Flaws,
       token \in Callers \union {NoToken, ResetToken} :
       \A user \in Users \union (IF routes[route].id THEN {Malformed} ELSE {}) :
          LET status == Status([route |-> route, token |-> token,
                                user |-> user, flaw |-> flaw])
          IN  \/ status \in routes[route].describes
              \/ token = ResetToken /\ status = 422
===============================================================================
