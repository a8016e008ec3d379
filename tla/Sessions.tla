------------------------------- MODULE Sessions -------------------------------
(***************************************************************************)
(* Sessions: RefreshTokenService keeps one Redis key refresh_token:{jti}   *)
(* per session; login and refresh create them, logout, a password change   *)
(* and a password reset revoke them, Redis expires them.  The JWTs the     *)
(* clients hold name a session by its jti and are verified without it.     *)
(*                                                                         *)
(* An action is what one awaited call does.  What UserRequests models of   *)
(* the same use cases (the user's row, its cache and events) is one step   *)
(* here: the password is checked, the password is saved.                   *)
(***************************************************************************)
EXTENDS Naturals, FiniteSets

CONSTANTS
    Users,
    Jtis,         \* randomUUID never repeats one
    NoJti,
    Requests,
    Kinds,        \* what requests may ask for
    JwtLife,      \* lifetime of every JWT (an hour)
    SessionLife,  \* TTL of a session's key, and the lifetime refresh tokens
                  \* are advertised with (7 days)
    MaxTime,      \* bound on the clock
    CacheMayFail

ASSUME SessionsAssumption ==
    /\ NoJti \notin Jtis
    /\ Kinds \subseteq {"login", "refresh", "logout", "password", "reset"}
    /\ JwtLife \in Nat /\ SessionLife \in Nat /\ MaxTime \in Nat
    /\ CacheMayFail \in BOOLEAN

VARIABLES
    now,
    sessions,   \* the refresh_token:* keys of Redis
    tokens,     \* the JWTs handed to clients
    pc,         \* pc[r]: the call request r awaits
    ask,        \* ask[r]: what r asks for, by whom, naming which session
    unread,     \* unread[r]: keys r's scan listed and has not read yet
    doomed,     \* doomed[r]: the sessions r will delete
    standing,   \* standing[r]: its user's sessions when r saved the password
                \* (history variable)
    lineage     \* lineage[j]: {the login session j descends from}, {} before
                \* j is stored (history variable)

vars == <<now, sessions, tokens, pc, ask, unread, doomed, standing, lineage>>

Session == [jti : Jtis, user : Users, until : Nat]
Token   == [jti : Jtis, sub : Users, exp : Nat]
Ask     == [kind : Kinds \union {"none"}, user : Users,
            jti : Jtis \union {NoJti}]

Awaiting == {"create", "validate", "save", "keys", "get", "del"}

Live(j)       == \E s \in sessions : s.jti = j
Used(j)       == lineage[j] # {}
SessionsOf(u) == {s.jti : s \in {x \in sessions : x.user = u}}

Init == /\ now = 0
        /\ sessions = {} /\ tokens = {}
        /\ pc = [r \in Requests |-> "idle"]
        /\ \E u \in Users :
              ask = [r \in Requests |->
                        [kind |-> "none", user |-> u, jti |-> NoJti]]
        /\ unread = [r \in Requests |-> {}]
        /\ doomed = [r \in Requests |-> {}]
        /\ standing = [r \in Requests |-> {}]
        /\ lineage = [j \in Jtis |-> {}]

Goto(r, label) == pc' = [pc EXCEPT ![r] = label]

Accept(r, kind, user, jti) ==
    /\ pc[r] = "idle" /\ kind \in Kinds
    /\ ask' = [ask EXCEPT ![r] = [kind |-> kind, user |-> user, jti |-> jti]]

\* jwtService.verify, and the passport strategy: the signature and exp, never
\* the session.
Verifies(t) == now < t.exp

-----------------------------------------------------------------------------
(* Requests arrive *)

\* authenticate-user: the password matches.
CheckPassword(r, u) ==
    /\ Accept(r, "login", u, NoJti)
    /\ Goto(r, "create")
    /\ UNCHANGED <<now, sessions, tokens, unread, doomed, standing, lineage>>

\* refresh-user-token: the JWT is verified before its session is looked up.
\* Nothing in it says what it was issued as: access tokens refresh as well, and
\* refresh tokens are bearers.
PresentRefreshToken(r, t) ==
    /\ Verifies(t)
    /\ Accept(r, "refresh", t.sub, t.jti)
    /\ Goto(r, "validate")
    /\ UNCHANGED <<now, sessions, tokens, unread, doomed, standing, lineage>>

\* logout-user: revoke deletes the key of the bearer's jti.
Logout(r, t) ==
    /\ Verifies(t)
    /\ Accept(r, "logout", t.sub, t.jti)
    /\ doomed' = [doomed EXCEPT ![r] = {t.jti}]
    /\ Goto(r, "del")
    /\ UNCHANGED <<now, sessions, tokens, unread, standing, lineage>>

\* edit-user-password, with the session of the bearer as the current one;
\* reset-password has none.
ChangePassword(r, t) ==
    /\ Verifies(t)
    /\ Accept(r, "password", t.sub, t.jti)
    /\ Goto(r, "save")
    /\ UNCHANGED <<now, sessions, tokens, unread, doomed, standing, lineage>>

ResetPassword(r, u) ==
    /\ Accept(r, "reset", u, NoJti)
    /\ Goto(r, "save")
    /\ UNCHANGED <<now, sessions, tokens, unread, doomed, standing, lineage>>

-----------------------------------------------------------------------------
(* RefreshTokenService.validate and create *)

Validate(r) ==
    /\ pc[r] = "validate"
    /\ Goto(r, IF Live(ask[r].jti) THEN "create" ELSE "refused")
    /\ UNCHANGED <<now, sessions, tokens, ask, unread, doomed, standing,
                   lineage>>

\* Mutant of create: key and value of the set are swapped.
StoreSessionSwapped(r, j) ==
    /\ sessions' = sessions \union
          {[jti |-> ask[r].user, user |-> j, until |-> now + SessionLife]}
    /\ lineage' = [lineage EXCEPT ![j] = {j}]

StoreSession(r, j) ==
    /\ sessions' = sessions \union
          {[jti |-> j, user |-> ask[r].user, until |-> now + SessionLife]}
    /\ lineage' = [lineage EXCEPT ![j] =
          IF ask[r].kind = "login" THEN {j} ELSE lineage[ask[r].jti]]

\* JwtEncrypter.encrypt signs the claims with its own default lifetime over
\* the exp they carry.
Encrypt(claims) == [claims EXCEPT !.exp = now + JwtLife]

\* TokenService: the two kinds of token differ in the expiry put into the
\* claims, which is not the one they are signed with.
Generate(j, u, life) == Encrypt([jti |-> j, sub |-> u, exp |-> now + life])

\* Mutant: a refresh stores the session it was given again.
RenewSession(r, j) ==
    /\ pc[r] = "create"
    /\ IF ask[r].kind = "refresh" THEN j = ask[r].jti ELSE ~Used(j)
    /\ StoreSession(r, j)
    /\ LET u == ask[r].user IN
       tokens' = tokens \union {Generate(j, u, JwtLife)} \union
                    (IF ask[r].kind = "login"
                     THEN {Generate(j, u, SessionLife)} ELSE {})
    /\ Goto(r, "done")
    /\ UNCHANGED <<now, ask, unread, doomed, standing>>

\* A login answers with an access and a refresh token, a refresh with an
\* access token and the refresh token it was given.
CreateSession(r, j) ==
    /\ pc[r] = "create" /\ ~Used(j)
    /\ StoreSession(r, j)
    /\ LET u == ask[r].user IN
       tokens' = tokens \union {Generate(j, u, JwtLife)} \union
                    (IF ask[r].kind = "login"
                     THEN {Generate(j, u, SessionLife)} ELSE {})
    /\ Goto(r, "done")
    /\ UNCHANGED <<now, ask, unread, doomed, standing>>

-----------------------------------------------------------------------------
(* UsersRepository.save, then revokeAllForUser or revokeAllForUserExcept *)

SavePassword(r) ==
    LET u == ask[r].user IN
    /\ pc[r] = "save"
    /\ standing' = [standing EXCEPT ![r] = SessionsOf(u)]
    /\ Goto(r, "keys")
    /\ UNCHANGED <<now, sessions, tokens, ask, unread, doomed, lineage>>

\* The keys of every user.
ListKeys(r) ==
    /\ pc[r] = "keys"
    /\ unread' = [unread EXCEPT ![r] = {s.jti : s \in sessions}]
    /\ Goto(r, "get")
    /\ UNCHANGED <<now, sessions, tokens, ask, doomed, standing, lineage>>

\* Mutant: the owner is not compared.
ToDeleteAnyUser(r, s) == s.jti # ask[r].jti

\* The filter of keysToDelete.
ToDelete(r, s) == s.user = ask[r].user /\ s.jti # ask[r].jti

\* One get of the Promise.all; a key that is gone meanwhile has no user.
ReadOwner(r, j) ==
    /\ pc[r] = "get" /\ j \in unread[r]
    /\ unread' = [unread EXCEPT ![r] = @ \ {j}]
    /\ doomed' = [doomed EXCEPT ![r] = @ \union
          {s.jti : s \in {x \in sessions : x.jti = j /\ ToDelete(r, x)}}]
    /\ UNCHANGED <<now, sessions, tokens, pc, ask, standing, lineage>>

\* Mutant: the gets are not awaited.
AllReadUnawaited(r) ==
    /\ pc[r] = "get"
    /\ Goto(r, IF doomed[r] = {} THEN "done" ELSE "del")
    /\ UNCHANGED <<now, sessions, tokens, ask, unread, doomed, standing,
                   lineage>>

\* All read: nothing to delete ends the request, else one del of all.
AllRead(r) ==
    /\ pc[r] = "get" /\ unread[r] = {}
    /\ Goto(r, IF doomed[r] = {} THEN "done" ELSE "del")
    /\ UNCHANGED <<now, sessions, tokens, ask, unread, doomed, standing,
                   lineage>>

DropDoomed(r) == sessions' = {s \in sessions : s.jti \notin doomed[r]}

DeleteKeys(r) ==
    /\ pc[r] = "del"
    /\ DropDoomed(r)
    /\ Goto(r, "done")
    /\ UNCHANGED <<now, tokens, ask, unread, doomed, standing, lineage>>

-----------------------------------------------------------------------------
(* Rejected calls, and time *)

\* Redis rejects a call, or did it and its answer was lost; the request fails
\* without handing out tokens.
Reject(r) ==
    /\ CacheMayFail
    /\ pc[r] \in Awaiting \ {"save"}
    /\ \/ UNCHANGED <<sessions, lineage>>
       \/ /\ pc[r] = "create"
          /\ \E j \in Jtis : ~Used(j) /\ StoreSession(r, j)
       \/ pc[r] = "del" /\ DropDoomed(r) /\ UNCHANGED lineage
    /\ Goto(r, "failed")
    /\ UNCHANGED <<now, tokens, ask, unread, doomed, standing>>

\* Redis drops the keys whose TTL is over.
Tick ==
    /\ now < MaxTime
    /\ now' = now + 1
    /\ sessions' = {s \in sessions : now' < s.until}
    /\ UNCHANGED <<tokens, pc, ask, unread, doomed, standing, lineage>>

Arrive(r) == \/ \E u \in Users : CheckPassword(r, u) \/ ResetPassword(r, u)
             \/ \E t \in tokens : \/ PresentRefreshToken(r, t)
                                  \/ Logout(r, t)
                                  \/ ChangePassword(r, t)

Next == \/ \E r \in Requests :
              \/ Arrive(r)
              \/ Validate(r) \/ SavePassword(r) \/ ListKeys(r)
              \/ \E j \in Jtis : CreateSession(r, j) \/ ReadOwner(r, j)
              \/ AllRead(r) \/ DeleteKeys(r) \/ Reject(r)
        \/ Tick

Spec == Init /\ [][Next]_vars

-----------------------------------------------------------------------------
TypeOK ==
    /\ now \in 0..MaxTime
    /\ sessions \subseteq Session
    /\ tokens \subseteq Token
    /\ pc \in [Requests -> Awaiting \union {"idle", "done", "refused", "failed"}]
    /\ ask \in [Requests -> Ask]
    /\ unread \in [Requests -> SUBSET Jtis]
    /\ doomed \in [Requests -> SUBSET Jtis]
    /\ standing \in [Requests -> SUBSET Jtis]
    /\ lineage \in [Jtis -> SUBSET Jtis]

Revokes(r) == ask[r].kind \in {"password", "reset"}

\* A session ends by expiring, by its own logout, or by a password change of
\* its own user that does not keep it as the current one: scans over the keys
\* of all users, overlapping each other, never end anybody else's session.
EndedByItsOwner ==
    [][\A s \in sessions \ sessions' :
          \/ now' # now
          \/ \E r \in Requests :
                /\ pc[r] = "del" /\ pc'[r] # "del"
                /\ ask[r].user = s.user
                /\ IF Revokes(r) THEN s.jti # ask[r].jti
                                 ELSE s.jti = ask[r].jti]_vars

\* When a password change is answered, no session its user had when the
\* password was saved is left but the current one, whatever other requests
\* did during the scan.
ChangeEndsStandingSessions ==
    [][\A r \in Requests :
          (Revokes(r) /\ pc[r] # "done" /\ pc'[r] = "done") =>
             \A s \in sessions' : s.jti \in standing[r] => s.jti = ask[r].jti]_vars

\* A session that ended never comes back, though refreshes that validated it
\* before are still on their way.
EndedForGood ==
    [][\A j \in Jtis : (Used(j) /\ ~Live(j)) => ~Live(j)']_vars

\* "should logout user and revoke refresh token": after a logout, the refresh
\* token of that login no longer has a session.
LogoutEndsRefreshToken ==
    \A r \in Requests : (ask[r].kind = "logout" /\ pc[r] = "done") =>
       \A origin \in lineage[ask[r].jti] : ~Live(origin)
===============================================================================
