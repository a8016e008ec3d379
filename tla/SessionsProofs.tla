---------------------------- MODULE SessionsProofs ----------------------------
(***************************************************************************)
(* Sessions, proved for any number of users, sessions and requests, any    *)
(* lifetimes, and with or without Redis rejecting calls.                   *)
(***************************************************************************)
EXTENDS Sessions, TLAPS

\* What anything names was stored once: no name is left for a session that
\* is stored later.
Known ==
    /\ \A s \in sessions : Used(s.jti)
    /\ \A t \in tokens : Used(t.jti)
    /\ \A r \in Requests :
          /\ \A j \in doomed[r] \union standing[r] : Used(j)
          /\ ask[r].jti \in Jtis => Used(ask[r].jti)
          /\ pc[r] \in {"validate", "create"} =>
                ask[r].kind = "login" \/ ask[r].jti \in Jtis

\* All that name a session agree on its owner.
Owned ==
    /\ \A s1, s2 \in sessions : s1.jti = s2.jti => s1.user = s2.user
    /\ \A s \in sessions, t \in tokens : s.jti = t.jti => s.user = t.sub
    /\ \A r \in Requests : \A s \in sessions :
          s.jti \in doomed[r] \union standing[r] => s.user = ask[r].user

\* A revocation spares its current session, a logout dooms no other one.
Chosen ==
    \A r \in Requests :
       /\ pc[r] \in {"save", "keys", "get"} => Revokes(r)
       /\ pc[r] = "idle" => doomed[r] = {}
       /\ IF Revokes(r) THEN ask[r].jti \notin doomed[r]
                        ELSE doomed[r] \subseteq {ask[r].jti}

\* The sessions a revocation found standing and that still live are those it
\* has yet to read, those it will delete, and the current one.
Covered ==
    \A r \in Requests :
       /\ pc[r] \in {"idle", "validate", "create"} => standing[r] = {}
       /\ pc[r] = "get" => \A s \in sessions : s.jti \in standing[r] =>
             s.jti \in unread[r] \union doomed[r] \union {ask[r].jti}
       /\ pc[r] = "del" => \A s \in sessions : s.jti \in standing[r] =>
             s.jti \in doomed[r] \union {ask[r].jti}

IInv == TypeOK /\ Known /\ Owned /\ Chosen /\ Covered

-----------------------------------------------------------------------------
LEMMA InitIInv == Init => IInv
<1> SUFFICES ASSUME Init PROVE IInv
  OBVIOUS
<1>1. TypeOK
  BY SessionsAssumption
  DEF Init, TypeOK, Session, Token, Ask, Awaiting
<1>2. Known /\ Owned /\ Chosen /\ Covered
  BY SessionsAssumption
  DEF Init, Known, Owned, Chosen, Covered, Revokes, Used
<1> QED BY <1>1, <1>2 DEF IInv

\* What storing a session under an unused name does, to the sessions and to
\* what is known of names.
LEMMA Stored ==
    ASSUME IInv, NEW r \in Requests, NEW j \in Jtis,
           pc[r] = "create", ~Used(j), StoreSession(r, j)
    PROVE  /\ sessions' \subseteq Session
           /\ lineage' \in [Jtis -> SUBSET Jtis]
           /\ \A k \in Jtis : k # j => lineage'[k] = lineage[k]
           /\ lineage'[j] # {}
           /\ \A s \in sessions' : s \in sessions \/ (s.jti = j /\ s.user = ask[r].user)
<1>1. /\ ask[r].user \in Users /\ now \in Nat
      /\ ask[r].kind = "login" \/ ask[r].jti \in Jtis
      /\ lineage \in [Jtis -> SUBSET Jtis] /\ sessions \subseteq Session
  BY DEF IInv, TypeOK, Ask, Known
<1>2. sessions' \subseteq Session
  BY <1>1, SessionsAssumption DEF StoreSession, Session
<1>3. lineage' \in [Jtis -> SUBSET Jtis]
  BY <1>1 DEF StoreSession
<1>4. \A k \in Jtis : k # j => lineage'[k] = lineage[k]
  BY <1>1 DEF StoreSession
<1>5. lineage'[j] # {}
  BY <1>1 DEF StoreSession, IInv, Known, Used
<1>6. \A s \in sessions' : s \in sessions \/ (s.jti = j /\ s.user = ask[r].user)
  BY DEF StoreSession
<1> QED BY <1>2, <1>3, <1>4, <1>5, <1>6

-----------------------------------------------------------------------------
\* A request that arrives names no session, or one that a token named.
LEMMA Accepting ==
    ASSUME IInv, NEW r \in Requests, NEW kind, NEW user, NEW jti, NEW label,
           Accept(r, kind, user, jti), Goto(r, label),
           label \in {"create", "validate", "save", "del"},
           label \in {"create", "validate"} => kind = "login" \/ jti \in Jtis,
           label = "save" => kind \in {"password", "reset"},
           label = "del" => kind = "logout",
           doomed' = [doomed EXCEPT ![r] = IF label = "del" THEN {jti} ELSE {}],
           jti \in Jtis => Used(jti) /\ \A s \in sessions :
                                           s.jti = jti => s.user = user,
           label = "del" => jti \in Jtis,
           UNCHANGED <<now, sessions, tokens, unread, standing, lineage>>
    PROVE  Known' /\ Owned' /\ Chosen' /\ Covered'
<1>1. /\ pc \in [Requests -> Awaiting \union {"idle", "done", "refused", "failed"}]
      /\ ask \in [Requests -> Ask]
      /\ doomed \in [Requests -> SUBSET Jtis]
  BY DEF IInv, TypeOK
<1>2. /\ pc[r] = "idle" /\ pc'[r] = label
      /\ ask'[r].kind = kind /\ ask'[r].user = user /\ ask'[r].jti = jti
      /\ doomed'[r] = IF label = "del" THEN {jti} ELSE {}
      /\ standing[r] = {}
  BY <1>1 DEF Accept, Goto, IInv, Covered
<1>3. \A q \in Requests : q # r =>
         pc'[q] = pc[q] /\ ask'[q] = ask[q] /\ doomed'[q] = doomed[q]
  BY <1>1 DEF Accept, Goto
<1>4. Known'
  BY <1>2, <1>3 DEF IInv, Known, Used
<1>5. Owned'
  BY <1>2, <1>3 DEF IInv, Owned
<1>6. Chosen'
  BY <1>2, <1>3 DEF IInv, Chosen, Revokes
<1>7. Covered'
  BY <1>2, <1>3 DEF IInv, Covered
<1> QED BY <1>4, <1>5, <1>6, <1>7

LEMMA Arriving ==
    ASSUME IInv, NEW r \in Requests, Arrive(r)
    PROVE  IInv'
<1>0. /\ doomed \in [Requests -> SUBSET Jtis] /\ NoJti \notin Jtis
      /\ pc[r] = "idle" => doomed[r] = {}
      /\ ask \in [Requests -> Ask]
  BY SessionsAssumption DEF IInv, TypeOK, Chosen
<1>1. ASSUME NEW u \in Users, CheckPassword(r, u) PROVE IInv'
  <2>1. TypeOK'
    BY <1>0, <1>1
    DEF IInv, TypeOK, CheckPassword, Accept, Goto, Ask, Awaiting
  <2>2. doomed' = [doomed EXCEPT ![r] = {}]
    BY <1>0, <1>1 DEF CheckPassword, Accept
  <2>3. Known' /\ Owned' /\ Chosen' /\ Covered'
    BY <1>0, <1>1, <2>2, Accepting DEF CheckPassword
  <2> QED BY <2>1, <2>3 DEF IInv
<1>2. ASSUME NEW u \in Users, ResetPassword(r, u) PROVE IInv'
  <2>1. TypeOK'
    BY <1>0, <1>2
    DEF IInv, TypeOK, ResetPassword, Accept, Goto, Ask, Awaiting
  <2>2. doomed' = [doomed EXCEPT ![r] = {}]
    BY <1>0, <1>2 DEF ResetPassword, Accept
  <2>3. Known' /\ Owned' /\ Chosen' /\ Covered'
    BY <1>0, <1>2, <2>2, Accepting DEF ResetPassword
  <2> QED BY <2>1, <2>3 DEF IInv
<1>3. ASSUME NEW t \in tokens,
             PresentRefreshToken(r, t) \/ Logout(r, t) \/ ChangePassword(r, t)
      PROVE  IInv'
  <2>1. /\ t.jti \in Jtis /\ t.sub \in Users /\ Used(t.jti)
        /\ \A s \in sessions : s.jti = t.jti => s.user = t.sub
    BY DEF IInv, TypeOK, Token, Known, Owned
  <2>2. TypeOK'
    <3>1. CASE PresentRefreshToken(r, t)
      BY <1>0, <2>1, <3>1
      DEF IInv, TypeOK, PresentRefreshToken, Accept, Goto, Ask, Awaiting
    <3>2. CASE Logout(r, t)
      BY <1>0, <2>1, <3>2
      DEF IInv, TypeOK, Logout, Accept, Goto, Ask, Awaiting
    <3>3. CASE ChangePassword(r, t)
      BY <1>0, <2>1, <3>3
      DEF IInv, TypeOK, ChangePassword, Accept, Goto, Ask, Awaiting
    <3> QED BY <1>3, <3>1, <3>2, <3>3
  <2>3. CASE PresentRefreshToken(r, t)
    <3>1. doomed' = [doomed EXCEPT ![r] = {}]
      BY <1>0, <2>3 DEF PresentRefreshToken, Accept
    <3>2. Known' /\ Owned' /\ Chosen' /\ Covered'
      BY <1>0, <2>1, <2>3, <3>1, Accepting DEF PresentRefreshToken
    <3> QED BY <2>2, <3>2 DEF IInv
  <2>4. CASE Logout(r, t)
    <3>1. Known' /\ Owned' /\ Chosen' /\ Covered'
      BY <1>0, <2>1, <2>4, Accepting DEF Logout
    <3> QED BY <2>2, <3>1 DEF IInv
  <2>5. CASE ChangePassword(r, t)
    <3>1. doomed' = [doomed EXCEPT ![r] = {}]
      BY <1>0, <2>5 DEF ChangePassword, Accept
    <3>2. Known' /\ Owned' /\ Chosen' /\ Covered'
      BY <1>0, <2>1, <2>5, <3>1, Accepting DEF ChangePassword
    <3> QED BY <2>2, <3>2 DEF IInv
  <2> QED BY <1>3, <2>3, <2>4, <2>5
<1> QED BY <1>1, <1>2, <1>3 DEF Arrive

-----------------------------------------------------------------------------
\* Tokens are issued for the session that is stored, whose name nothing else
\* has; r then goes on to an answer or fails.
LEMMA Storing ==
    ASSUME IInv, NEW r \in Requests, NEW j \in Jtis, NEW label \in {"done", "failed"},
           pc[r] = "create", ~Used(j), StoreSession(r, j), Goto(r, label),
           tokens' \subseteq Token,
           \A t \in tokens' : t \in tokens \/ (t.jti = j /\ t.sub = ask[r].user),
           UNCHANGED <<now, ask, unread, doomed, standing>>
    PROVE  IInv'
<1>1. /\ sessions' \subseteq Session
      /\ lineage' \in [Jtis -> SUBSET Jtis]
      /\ \A k \in Jtis : k # j => lineage'[k] = lineage[k]
      /\ lineage'[j] # {}
      /\ \A s \in sessions' : s \in sessions \/ (s.jti = j /\ s.user = ask[r].user)
  BY Stored
<1>2. /\ pc \in [Requests -> Awaiting \union {"idle", "done", "refused", "failed"}]
      /\ sessions \subseteq Session /\ tokens \subseteq Token
      /\ doomed \in [Requests -> SUBSET Jtis]
      /\ standing \in [Requests -> SUBSET Jtis]
  BY DEF IInv, TypeOK
<1>3. /\ pc'[r] = label
      /\ \A q \in Requests : q # r => pc'[q] = pc[q]
  BY <1>2 DEF Goto
<1>4. /\ \A s \in sessions : s.jti \in Jtis /\ s.jti # j
      /\ \A t \in tokens : t.jti \in Jtis /\ t.jti # j
      /\ \A q \in Requests : /\ j \notin doomed[q] \union standing[q]
                             /\ ask[q].jti # j
  BY <1>2 DEF IInv, Known, Session, Token
<1>5. \A k \in Jtis : Used(k) => Used(k)'
  BY <1>1 DEF Used
<1>6. TypeOK'
  BY <1>1, <1>2 DEF IInv, TypeOK, Goto
<1>7. Known'
  <2>1. (\A s \in sessions : Used(s.jti))' /\ (\A t \in tokens : Used(t.jti))'
    BY <1>1, <1>4, <1>5 DEF IInv, Known, Used
  <2>2. \A q \in Requests :
           /\ \A k \in doomed[q] \union standing[q] : Used(k)'
           /\ ask[q].jti \in Jtis => (Used(ask[q].jti))'
           /\ pc'[q] \in {"validate", "create"} =>
                 ask[q].kind = "login" \/ ask[q].jti \in Jtis
    BY <1>2, <1>3, <1>5 DEF IInv, Known, Used
  <2> QED BY <2>1, <2>2 DEF Known, Used
<1>8. Owned'
  BY <1>1, <1>4 DEF IInv, Owned
<1>9. Chosen'
  BY <1>3 DEF IInv, Chosen, Revokes
<1>10. Covered'
  BY <1>1, <1>3, <1>4 DEF IInv, Covered
<1> QED BY <1>6, <1>7, <1>8, <1>9, <1>10 DEF IInv

\* Sessions that end, and a request that waits for nothing more or still
\* waits, leave the invariant as it is.
LEMMA Ending ==
    ASSUME IInv, sessions' \subseteq sessions, now' \in 0..MaxTime,
           pc' \in [Requests -> Awaiting \union {"idle", "done", "refused", "failed"}],
           \A q \in Requests : pc'[q] # pc[q] =>
              pc'[q] \in {"done", "refused", "failed"},
           UNCHANGED <<tokens, ask, unread, doomed, standing, lineage>>
    PROVE  IInv'
<1>1. TypeOK'
  BY DEF IInv, TypeOK
<1>2. Known'
  BY DEF IInv, Known, Used
<1>3. Owned'
  BY DEF IInv, Owned
<1>4. Chosen'
  BY DEF IInv, Chosen, Revokes
<1>5. Covered'
  BY DEF IInv, Covered
<1> QED BY <1>1, <1>2, <1>3, <1>4, <1>5 DEF IInv

-----------------------------------------------------------------------------
\* The steps of r after its arrival.
LEMMA Serving ==
    ASSUME IInv, NEW r \in Requests,
           \/ Validate(r) \/ SavePassword(r) \/ ListKeys(r)
           \/ \E j \in Jtis : ReadOwner(r, j)
           \/ AllRead(r)
    PROVE  IInv'
<1>0. /\ pc \in [Requests -> Awaiting \union {"idle", "done", "refused", "failed"}]
      /\ unread \in [Requests -> SUBSET Jtis]
      /\ doomed \in [Requests -> SUBSET Jtis]
      /\ standing \in [Requests -> SUBSET Jtis]
      /\ ask \in [Requests -> Ask]
      /\ sessions \subseteq Session
  BY DEF IInv, TypeOK
<1>1. CASE Validate(r)
  <2>1. /\ pc[r] = "validate" /\ pc'[r] \in {"create", "refused"}
        /\ \A q \in Requests : q # r => pc'[q] = pc[q]
    BY <1>0, <1>1 DEF Validate, Goto
  <2>2. TypeOK'
    BY <1>0, <1>1 DEF IInv, TypeOK, Validate, Goto, Awaiting
  <2>3. Known'
    BY <1>1, <2>1 DEF IInv, Known, Used, Validate
  <2>4. Owned'
    BY <1>1 DEF IInv, Owned, Validate
  <2>5. Chosen'
    BY <1>1, <2>1 DEF IInv, Chosen, Revokes, Validate
  <2>6. Covered'
    BY <1>1, <2>1 DEF IInv, Covered, Validate
  <2> QED BY <2>2, <2>3, <2>4, <2>5, <2>6 DEF IInv
<1>2. CASE SavePassword(r)
  <2>1. /\ pc[r] = "save" /\ pc'[r] = "keys"
        /\ standing'[r] = SessionsOf(ask[r].user)
        /\ \A q \in Requests : q # r =>
              pc'[q] = pc[q] /\ standing'[q] = standing[q]
    BY <1>0, <1>2 DEF SavePassword, Goto
  <2>2. \A s \in sessions : s.jti \in SessionsOf(ask[r].user) =>
                               s.user = ask[r].user
    BY DEF SessionsOf, IInv, Owned
  <2>3. \A k \in SessionsOf(ask[r].user) : k \in Jtis /\ Used(k)
    BY <1>0 DEF SessionsOf, IInv, Known, Session
  <2>4. TypeOK'
    <3>1. standing' \in [Requests -> SUBSET Jtis]
      BY <1>0, <1>2, <2>3 DEF SavePassword
    <3> QED BY <1>0, <1>2, <3>1
      DEF IInv, TypeOK, SavePassword, Goto, Awaiting
  <2>5. Known'
    BY <1>2, <2>1, <2>3 DEF IInv, Known, Used, SavePassword
  <2>6. Owned'
    BY <1>2, <2>1, <2>2 DEF IInv, Owned, SavePassword
  <2>7. Chosen'
    BY <1>2, <2>1 DEF IInv, Chosen, Revokes, SavePassword
  <2>8. Covered'
    BY <1>2, <2>1 DEF IInv, Covered, SavePassword
  <2> QED BY <2>4, <2>5, <2>6, <2>7, <2>8 DEF IInv
<1>3. CASE ListKeys(r)
  <2>1. /\ pc[r] = "keys" /\ pc'[r] = "get"
        /\ unread'[r] = {s.jti : s \in sessions}
        /\ \A q \in Requests : q # r =>
              pc'[q] = pc[q] /\ unread'[q] = unread[q]
    BY <1>0, <1>3 DEF ListKeys, Goto
  <2>2. unread' \in [Requests -> SUBSET Jtis]
    BY <1>0, <1>3 DEF ListKeys, Session
  <2>3. TypeOK'
    BY <1>0, <1>3, <2>2 DEF IInv, TypeOK, ListKeys, Goto, Awaiting
  <2>4. Known'
    BY <1>3, <2>1 DEF IInv, Known, Used, ListKeys
  <2>5. Owned'
    BY <1>3 DEF IInv, Owned, ListKeys
  <2>6. Chosen'
    BY <1>3, <2>1 DEF IInv, Chosen, Revokes, ListKeys
  <2>7. Covered'
    BY <1>3, <2>1 DEF IInv, Covered, ListKeys
  <2> QED BY <2>3, <2>4, <2>5, <2>6, <2>7 DEF IInv
<1>4. ASSUME NEW j \in Jtis, ReadOwner(r, j) PROVE IInv'
  <2> DEFINE Found == {s.jti : s \in {x \in sessions : x.jti = j /\ ToDelete(r, x)}}
  <2>1. /\ pc[r] = "get" /\ pc' = pc
        /\ unread'[r] = unread[r] \ {j} /\ doomed'[r] = doomed[r] \union Found
        /\ \A q \in Requests : q # r =>
              unread'[q] = unread[q] /\ doomed'[q] = doomed[q]
    BY <1>0, <1>4 DEF ReadOwner
  <2>2. /\ Found \subseteq {j} /\ ask[r].jti \notin Found
        /\ Found # {} => Used(j)
        /\ \A s \in sessions : s.jti \in Found => s.user = ask[r].user
    BY DEF ToDelete, IInv, Known, Owned
  <2>3. \A s \in sessions : s.jti = j /\ s.jti \in standing[r] =>
           s.jti \in Found \union {ask[r].jti}
    BY DEF ToDelete, IInv, Owned
  <2> HIDE DEF Found
  <2>4. TypeOK'
    <3>1. /\ unread' \in [Requests -> SUBSET Jtis]
          /\ doomed' \in [Requests -> SUBSET Jtis]
      BY <1>0, <1>4, <2>1, <2>2 DEF ReadOwner
    <3> QED BY <1>4, <3>1 DEF IInv, TypeOK, ReadOwner
  <2>5. Known'
    BY <1>4, <2>1, <2>2 DEF IInv, Known, Used, ReadOwner
  <2>6. Owned'
    BY <1>4, <2>1, <2>2 DEF IInv, Owned, ReadOwner
  <2>7. Chosen'
    BY <1>4, <2>1, <2>2 DEF IInv, Chosen, Revokes, ReadOwner
  <2>8. Covered'
    BY <1>4, <2>1, <2>3 DEF IInv, Covered, ReadOwner
  <2> QED BY <2>4, <2>5, <2>6, <2>7, <2>8 DEF IInv
<1>5. CASE AllRead(r)
  <2>1. /\ pc[r] = "get" /\ unread[r] = {} /\ pc'[r] \in {"done", "del"}
        /\ \A q \in Requests : q # r => pc'[q] = pc[q]
    BY <1>0, <1>5 DEF AllRead, Goto
  <2>2. TypeOK'
    BY <1>0, <1>5 DEF IInv, TypeOK, AllRead, Goto, Awaiting
  <2>3. Known'
    BY <1>5, <2>1 DEF IInv, Known, Used, AllRead
  <2>4. Owned'
    BY <1>5 DEF IInv, Owned, AllRead
  <2>5. Chosen'
    BY <1>5, <2>1 DEF IInv, Chosen, Revokes, AllRead
  <2>6. Covered'
    BY <1>5, <2>1 DEF IInv, Covered, AllRead
  <2> QED BY <2>2, <2>3, <2>4, <2>5, <2>6 DEF IInv
<1> QED BY <1>1, <1>2, <1>3, <1>4, <1>5

-----------------------------------------------------------------------------
LEMMA StepIInv == IInv /\ [Next]_vars => IInv'
<1> SUFFICES ASSUME IInv, [Next]_vars PROVE IInv'
  OBVIOUS
<1>0. /\ pc \in [Requests -> Awaiting \union {"idle", "done", "refused", "failed"}]
      /\ now \in 0..MaxTime /\ now \in Nat
      /\ ask \in [Requests -> Ask] /\ tokens \subseteq Token
  BY SessionsAssumption DEF IInv, TypeOK
<1>1. ASSUME NEW r \in Requests, Arrive(r) PROVE IInv'
  BY <1>1, Arriving
<1>2. ASSUME NEW r \in Requests,
             \/ Validate(r) \/ SavePassword(r) \/ ListKeys(r)
             \/ \E j \in Jtis : ReadOwner(r, j)
             \/ AllRead(r)
      PROVE  IInv'
  BY <1>2, Serving
<1>3. ASSUME NEW r \in Requests, NEW j \in Jtis, CreateSession(r, j)
      PROVE  IInv'
  <2>1. \A life \in {JwtLife, SessionLife} :
           /\ Generate(j, ask[r].user, life) \in Token
           /\ Generate(j, ask[r].user, life).jti = j
           /\ Generate(j, ask[r].user, life).sub = ask[r].user
    BY <1>0, SessionsAssumption DEF Generate, Encrypt, Token, Ask
  <2>2. \A t \in tokens' :
           t \in tokens \/ (t \in Token /\ t.jti = j /\ t.sub = ask[r].user)
    BY <1>3, <2>1 DEF CreateSession
  <2>3. tokens' \subseteq Token
    BY <1>0, <2>2
  <2> QED BY <1>3, <2>2, <2>3, Storing DEF CreateSession
<1>4. ASSUME NEW r \in Requests, DeleteKeys(r) PROVE IInv'
  BY <1>0, <1>4, Ending DEF DeleteKeys, DropDoomed, Goto
<1>5. ASSUME NEW r \in Requests, Reject(r) PROVE IInv'
  <2>1. CASE UNCHANGED <<sessions, lineage>>
    BY <1>0, <1>5, <2>1, Ending DEF Reject, Goto
  <2>2. CASE /\ pc[r] = "create"
             /\ \E j \in Jtis : ~Used(j) /\ StoreSession(r, j)
    BY <1>0, <1>5, <2>2, Storing DEF Reject
  <2>3. CASE pc[r] = "del" /\ DropDoomed(r) /\ UNCHANGED lineage
    BY <1>0, <1>5, <2>3, Ending DEF Reject, Goto, DropDoomed
  <2> QED BY <1>5, <2>1, <2>2, <2>3 DEF Reject
<1>6. CASE Tick
  BY <1>0, <1>6, SessionsAssumption, Ending DEF Tick
<1>7. CASE UNCHANGED vars
  BY <1>0, <1>7, Ending DEF vars
<1> QED BY <1>1, <1>2, <1>3, <1>4, <1>5, <1>6, <1>7 DEF Next

THEOREM SessionsInvariant == Spec => []IInv
BY InitIInv, StepIInv, PTL DEF Spec

\* Every reachable state is typed: in particular keys name sessions and
\* their values name users.
THEOREM SessionTypes == Spec => []TypeOK
<1>1. IInv => TypeOK
  BY DEF IInv
<1> QED BY <1>1, SessionsInvariant, PTL

\* The steps that take a session away are deletions and the clock.
LEMMA WhoDrops ==
    ASSUME TypeOK, [Next]_vars, NEW s \in sessions, s \notin sessions'
    PROVE  \/ now' # now
           \/ \E r \in Requests : /\ pc[r] = "del"
                                  /\ s.jti \in doomed[r]
                                  /\ DeleteKeys(r) \/ Reject(r)
<1>1. CASE Tick
  BY <1>1, SessionsAssumption DEF Tick, TypeOK
<1>2. ASSUME NEW r \in Requests, DeleteKeys(r)
      PROVE  pc[r] = "del" /\ s.jti \in doomed[r]
  BY <1>2 DEF DeleteKeys, DropDoomed
<1>3. ASSUME NEW r \in Requests, Reject(r)
      PROVE  pc[r] = "del" /\ s.jti \in doomed[r]
  BY <1>3 DEF Reject, StoreSession, DropDoomed
<1>4. ASSUME NEW r \in Requests, Arrive(r) PROVE FALSE
  BY <1>4 DEF Arrive, CheckPassword, ResetPassword, PresentRefreshToken,
              Logout, ChangePassword
<1>5. ASSUME NEW r \in Requests,
             \/ Validate(r) \/ SavePassword(r) \/ ListKeys(r)
             \/ \E j \in Jtis : CreateSession(r, j) \/ ReadOwner(r, j)
             \/ AllRead(r)
      PROVE  FALSE
  BY <1>5 DEF Validate, SavePassword, ListKeys, CreateSession, StoreSession,
              ReadOwner, AllRead
<1>6. CASE UNCHANGED vars
  BY <1>6 DEF vars
<1> QED BY <1>1, <1>2, <1>3, <1>4, <1>5, <1>6 DEF Next

\* Only expiry, its own logout and its own user's password changes end a
\* session.
THEOREM SessionsEndByTheirOwner == Spec => EndedByItsOwner
<1>1. ASSUME IInv, [Next]_vars, NEW s \in sessions \ sessions'
      PROVE  \/ now' # now
             \/ \E r \in Requests :
                   /\ pc[r] = "del" /\ pc'[r] # "del"
                   /\ ask[r].user = s.user
                   /\ IF Revokes(r) THEN s.jti # ask[r].jti
                                    ELSE s.jti = ask[r].jti
  <2> SUFFICES ASSUME NEW r \in Requests, pc[r] = "del", s.jti \in doomed[r],
                      DeleteKeys(r) \/ Reject(r)
               PROVE  /\ pc'[r] # "del" /\ ask[r].user = s.user
                      /\ IF Revokes(r) THEN s.jti # ask[r].jti
                                       ELSE s.jti = ask[r].jti
    BY <1>1, WhoDrops DEF IInv
  <2>1. pc'[r] # "del"
    BY <1>1 DEF DeleteKeys, Reject, Goto, IInv, TypeOK
  <2>2. ask[r].user = s.user
    BY <1>1 DEF IInv, Owned
  <2>3. IF Revokes(r) THEN s.jti # ask[r].jti ELSE s.jti = ask[r].jti
    BY <1>1 DEF IInv, Chosen
  <2> QED BY <2>1, <2>2, <2>3
<1>2. IInv /\ [Next]_vars =>
         [\A s \in sessions \ sessions' :
            \/ now' # now
            \/ \E r \in Requests :
                  /\ pc[r] = "del" /\ pc'[r] # "del"
                  /\ ask[r].user = s.user
                  /\ IF Revokes(r) THEN s.jti # ask[r].jti
                                   ELSE s.jti = ask[r].jti]_vars
  BY <1>1
<1> QED BY <1>2, SessionsInvariant, PTL DEF Spec, EndedByItsOwner

\* A request is answered by storing a session, by finding nothing to delete,
\* or by deleting.
LEMMA WhoAnswers ==
    ASSUME IInv, [Next]_vars, NEW r \in Requests,
           pc[r] # "done", pc'[r] = "done"
    PROVE  \/ pc[r] = "create"
           \/ AllRead(r) /\ doomed[r] = {}
           \/ DeleteKeys(r)
<1>0. pc \in [Requests -> Awaiting \union {"idle", "done", "refused", "failed"}]
  BY DEF IInv, TypeOK
<1>1. CASE UNCHANGED vars \/ Tick
  BY <1>1 DEF vars, Tick
<1>2. ASSUME NEW q \in Requests, Arrive(q) PROVE FALSE
  BY <1>0, <1>2 DEF Arrive, CheckPassword, ResetPassword,
                    PresentRefreshToken, Logout, ChangePassword, Goto
<1>3. ASSUME NEW q \in Requests,
             \/ Validate(q) \/ SavePassword(q) \/ ListKeys(q)
             \/ \E j \in Jtis : ReadOwner(q, j)
             \/ Reject(q)
      PROVE  FALSE
  BY <1>0, <1>3 DEF Validate, SavePassword, ListKeys, ReadOwner, Reject, Goto
<1>4. ASSUME NEW q \in Requests, NEW j \in Jtis, CreateSession(q, j)
      PROVE  pc[r] = "create"
  BY <1>0, <1>4 DEF CreateSession, Goto
<1>5. ASSUME NEW q \in Requests, AllRead(q)
      PROVE  AllRead(r) /\ doomed[r] = {}
  <2>1. q = r
    BY <1>0, <1>5 DEF AllRead, Goto
  <2>2. doomed[r] = {}
    BY <1>0, <1>5, <2>1 DEF AllRead, Goto
  <2> QED BY <1>5, <2>1, <2>2
<1>6. ASSUME NEW q \in Requests, DeleteKeys(q)
      PROVE  DeleteKeys(r)
  <2>1. q = r
    BY <1>0, <1>6 DEF DeleteKeys, Goto
  <2> QED BY <1>6, <2>1
<1> QED BY <1>1, <1>2, <1>3, <1>4, <1>5, <1>6 DEF Next

\* An answered password change has ended every session its user had when the
\* password was saved, but the current one.
THEOREM ChangesEndSessions == Spec => ChangeEndsStandingSessions
<1>1. ASSUME IInv, [Next]_vars, NEW r \in Requests,
             Revokes(r), pc[r] # "done", pc'[r] = "done",
             NEW s \in sessions', s.jti \in standing[r]
      PROVE  s.jti = ask[r].jti
  <2>1. CASE pc[r] = "create"
    BY <1>1, <2>1 DEF IInv, Covered
  <2>2. CASE AllRead(r) /\ doomed[r] = {}
    BY <1>1, <2>2 DEF AllRead, IInv, Covered
  <2>3. CASE DeleteKeys(r)
    BY <1>1, <2>3 DEF DeleteKeys, DropDoomed, IInv, Covered
  <2> QED BY <1>1, <2>1, <2>2, <2>3, WhoAnswers
<1>2. IInv /\ [Next]_vars =>
         [\A r \in Requests :
            (Revokes(r) /\ pc[r] # "done" /\ pc'[r] = "done") =>
               \A s \in sessions' : s.jti \in standing[r] => s.jti = ask[r].jti]_vars
  BY <1>1
<1> QED BY <1>2, SessionsInvariant, PTL DEF Spec, ChangeEndsStandingSessions

\* A session that ended never comes back.
THEOREM EndedSessionsStayEnded == Spec => EndedForGood
<1>1. ASSUME [Next]_vars, NEW j \in Jtis, Used(j), ~Live(j)
      PROVE  ~Live(j)'
  <2>1. \A s \in sessions' : s \in sessions \/ ~Used(s.jti)
    <3>1. CASE Tick
      BY <3>1 DEF Tick
    <3>2. ASSUME NEW r \in Requests, Reject(r) \/ DeleteKeys(r)
          PROVE  \A s \in sessions' : s \in sessions \/ ~Used(s.jti)
      BY <3>2 DEF Reject, DeleteKeys, StoreSession, DropDoomed
    <3>3. ASSUME NEW r \in Requests, NEW k \in Jtis, CreateSession(r, k)
          PROVE  \A s \in sessions' : s \in sessions \/ ~Used(s.jti)
      BY <3>3 DEF CreateSession, StoreSession
    <3>4. ASSUME NEW r \in Requests, Arrive(r)
          PROVE  sessions' = sessions
      BY <3>4 DEF Arrive, CheckPassword, ResetPassword, PresentRefreshToken,
                  Logout, ChangePassword
    <3>5. ASSUME NEW r \in Requests,
                 \/ Validate(r) \/ SavePassword(r) \/ ListKeys(r)
                 \/ \E k \in Jtis : ReadOwner(r, k)
                 \/ AllRead(r)
          PROVE  sessions' = sessions
      BY <3>5 DEF Validate, SavePassword, ListKeys, ReadOwner, AllRead
    <3>6. CASE UNCHANGED vars
      BY <3>6 DEF vars
    <3> QED BY <1>1, <3>1, <3>2, <3>3, <3>4, <3>5, <3>6 DEF Next
  <2> QED BY <1>1, <2>1 DEF Live
<1>2. [Next]_vars =>
         [\A j \in Jtis : (Used(j) /\ ~Live(j)) => ~Live(j)']_vars
  BY <1>1
<1> QED BY <1>2, PTL DEF Spec, EndedForGood
===============================================================================
