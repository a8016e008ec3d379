-------------------------- MODULE ExternalCallsProofs --------------------------
(***************************************************************************)
(* ExternalCalls, proved for any number of requests of any kind, any       *)
(* number of attempts and any threshold.                                   *)
(***************************************************************************)
EXTENDS ExternalCalls, TLAPS

\* Which calls a request makes.
Calls ==
    \A r \in Requests :
       /\ op[r] = "send" <=> kind[r] = "mail"
       /\ op[r] = "delete" => kind[r] = "health"
       /\ pc[r] = "insert" => kind[r] = "avatar"

\* Attempts that timed out are attempts of the call that is made, or of the
\* put before it.
Lates ==
    \A r \in Requests :
       /\ pc[r] \in {"idle", "execute", "waiting"} => late[r][op[r]] = 0
       /\ pc[r] = "trying"  => late[r][op[r]] < attempt[r]
       /\ pc[r] = "backoff" => late[r][op[r]] <= attempt[r] /\ attempt[r] < Retries
       /\ op[r] # "delete"  => late[r]["delete"] = 0

\* An upload's object is there from the answer on that its row is made of.
Stored ==
    /\ \A k \in held \union avatars : \E r \in Requests : k = Key(r)
    /\ \A r \in Requests :
          /\ pc[r] = "insert"  => Key(r) \in held
          /\ Key(r) \in avatars => Key(r) \in held /\ kind[r] = "avatar"

\* A half-open breaker's test is being made, and waiting is for a request.
Tests ==
    /\ \A r \in Requests : /\ trial[r] => pc[r] \in Running
                           /\ pc[r] = "waiting" => waitsFor[r] \in Requests
    /\ \A s \in Services : breaker[s].state = "halfOpen" =>
          /\ breaker[s].tester \in Requests
          /\ trial[breaker[s].tester] /\ ServiceOf(breaker[s].tester) = s

IInv == /\ TypeOK /\ Calls /\ Lates /\ Stored /\ Tests
        /\ ClosedBelowThreshold /\ WaitersHaveATest

-----------------------------------------------------------------------------
LEMMA InitIInv == Init => IInv
<1> SUFFICES ASSUME Init PROVE IInv
  OBVIOUS
<1>1. TypeOK
  BY CallsAssumption DEF Init, TypeOK, Breaker, Running, Settled, Services, Ops, Kinds
<1>2. Calls /\ Lates
  BY CallsAssumption DEF Init, Calls, Lates, Ops, Kinds
<1>3. Stored /\ Tests
  BY DEF Init, Stored, Tests
<1>4. ClosedBelowThreshold /\ WaitersHaveATest
  BY CallsAssumption DEF Init, ClosedBelowThreshold, WaitersHaveATest
<1> QED BY <1>1, <1>2, <1>3, <1>4 DEF IInv

\* What the invariant says of types, for use below.
LEMMA Typed ==
    ASSUME IInv
    PROVE  /\ breaker \in [Services -> Breaker]
           /\ pc \in [Requests -> Running \union Settled
                                    \union {"idle", "execute", "waiting", "insert"}]
           /\ op \in [Requests -> Ops] /\ attempt \in [Requests -> 0..Retries]
           /\ trial \in [Requests -> BOOLEAN]
           /\ waitsFor \in [Requests -> Requests \union {NoRequest}]
           /\ late \in [Requests -> [Ops -> 0..Retries]]
           /\ \A r \in Requests : ServiceOf(r) \in Services
           /\ Retries \in Nat \ {0} /\ Threshold \in Nat \ {0}
BY CallsAssumption DEF IInv, TypeOK, ServiceOf, Services

\* An outcome of a call keeps the breaker's type and its threshold.
LEMMA Outcome ==
    ASSUME NEW b \in Breaker, NEW tested \in BOOLEAN,
           b.state = "closed" => b.count < Threshold
    PROVE  LET s == OnSuccess(b, tested)
               f == OnFailure(b, tested) IN
           /\ s \in Breaker /\ f \in Breaker
           /\ s.state = "closed" => s.count < Threshold
           /\ f.state = "closed" => f.count < Threshold
           /\ s.tester = b.tester /\ f.tester = b.tester
           /\ s.state = "halfOpen" => b.state = "halfOpen" /\ ~tested
           /\ f.state = "halfOpen" => b.state = "halfOpen" /\ ~tested
<1>1. /\ b.count \in 0..Threshold /\ 0 \in 0..Threshold
      /\ Threshold \in Nat \ {0}
  BY CallsAssumption DEF Breaker
<1>2. OnSuccess(b, tested) \in Breaker
  <2>1. CASE tested /\ b.state = "halfOpen"
    <3>1. OnSuccess(b, tested) = [b EXCEPT !.count = 0, !.state = "closed"]
      BY <2>1 DEF OnSuccess
    <3> QED BY <1>1, <3>1 DEF Breaker
  <2>2. CASE ~(tested /\ b.state = "halfOpen")
    <3>1. OnSuccess(b, tested) = [b EXCEPT !.count = 0]
      BY <2>2 DEF OnSuccess, Breaker
    <3> QED BY <1>1, <3>1 DEF Breaker
  <2> QED BY <2>1, <2>2
<1>3. OnFailure(b, tested) \in Breaker
  <2> DEFINE count == IF b.count < Threshold THEN b.count + 1 ELSE Threshold
  <2>1. count \in 0..Threshold
    BY <1>1
  <2> HIDE DEF count
  <2>2. \/ OnFailure(b, tested) =
             [b EXCEPT !.state = "open", !.count = count, !.cooled = FALSE]
        \/ OnFailure(b, tested) = [b EXCEPT !.count = count]
    BY DEF OnFailure, count
  <2> QED BY <2>1, <2>2 DEF Breaker
<1>4. /\ OnSuccess(b, tested).count = 0 /\ OnSuccess(b, tested).tester = b.tester
      /\ OnSuccess(b, tested).state = "halfOpen" => b.state = "halfOpen" /\ ~tested
  BY DEF OnSuccess, Breaker
<1>5. /\ OnFailure(b, tested).tester = b.tester
      /\ OnFailure(b, tested).state = "halfOpen" => b.state = "halfOpen" /\ ~tested
      /\ OnFailure(b, tested).state = "closed" => OnFailure(b, tested).count < Threshold
  BY <1>1 DEF OnFailure, Breaker
<1> QED BY <1>1, <1>2, <1>3, <1>4, <1>5

\* A request moves on, and its breaker does not learn of it.
LEMMA Moving ==
    ASSUME IInv, NEW r \in Requests, NEW label, Goto(r, label),
           UNCHANGED <<breaker, trial, waitsFor, op>>,
           pc[r] # "waiting", label # "waiting",
           pc[r] \in Running => label \in Running
    PROVE  Tests' /\ ClosedBelowThreshold' /\ WaitersHaveATest'
<1>1. pc'[r] = label /\ \A q \in Requests : q # r => pc'[q] = pc[q]
  BY Typed DEF Goto
<1>2. \A q : ServiceOf(q)' = ServiceOf(q)
  BY DEF ServiceOf
<1>3. Tests'
  BY <1>1, <1>2 DEF IInv, Tests
<1>4. ClosedBelowThreshold'
  BY DEF IInv, ClosedBelowThreshold
<1>5. WaitersHaveATest'
  <2> SUFFICES ASSUME NEW q \in Requests, pc'[q] = "waiting"
               PROVE  /\ trial[waitsFor[q]] /\ pc'[waitsFor[q]] \in Running
                      /\ ServiceOf(waitsFor[q]) = ServiceOf(q)
    BY <1>2 DEF WaitersHaveATest
  <2>1. /\ trial[waitsFor[q]] /\ pc[waitsFor[q]] \in Running
        /\ ServiceOf(waitsFor[q]) = ServiceOf(q)
    BY <1>1 DEF IInv, WaitersHaveATest
  <2>2. waitsFor[q] \in Requests \union {NoRequest}
    BY Typed
  <2>3. pc'[waitsFor[q]] = pc[waitsFor[q]] \/ pc'[waitsFor[q]] \in Running
    BY <1>1, <2>1, <2>2, Typed DEF Goto
  <2> QED BY <2>1, <2>3
<1> QED BY <1>3, <1>4, <1>5

\* A call is over: its breaker learns the outcome, and those that waited for
\* it go on.
LEMMA Settling ==
    ASSUME IInv, NEW r \in Requests, pc[r] = "trying",
           NEW label \in Settled \union {"execute", "insert"}, Wake(r, label),
           NEW b, b \in {OnSuccess(breaker[ServiceOf(r)], trial[r]),
                         OnFailure(breaker[ServiceOf(r)], trial[r])},
           breaker' = [breaker EXCEPT ![ServiceOf(r)] = b],
           trial' = [trial EXCEPT ![r] = FALSE],
           UNCHANGED waitsFor,
           \A q \in Requests : ServiceOf(q)' = ServiceOf(q)
    PROVE  /\ Tests' /\ ClosedBelowThreshold' /\ WaitersHaveATest'
           /\ breaker' \in [Services -> Breaker]
           /\ trial' \in [Requests -> BOOLEAN]
           /\ pc' \in [Requests -> Running \union Settled
                                    \union {"idle", "execute", "waiting", "insert"}]
           /\ pc'[r] = label
           /\ \A q \in Requests : q # r =>
                 pc'[q] = pc[q] \/ (pc[q] = "waiting" /\ pc'[q] = "execute")
<1> DEFINE s == ServiceOf(r)
<1>1. s \in Services /\ breaker[s] \in Breaker /\ trial[r] \in BOOLEAN
  BY Typed
<1>2. breaker[s].state = "closed" => breaker[s].count < Threshold
  BY <1>1 DEF IInv, ClosedBelowThreshold
<1>3. /\ b \in Breaker /\ b.tester = breaker[s].tester
      /\ b.state = "closed" => b.count < Threshold
      /\ b.state = "halfOpen" => breaker[s].state = "halfOpen" /\ ~trial[r]
  BY <1>1, <1>2, Outcome
<1>4. /\ breaker' \in [Services -> Breaker] /\ breaker'[s] = b
      /\ \A u \in Services : u # s => breaker'[u] = breaker[u]
  BY <1>1, <1>3, Typed
<1>5. /\ trial' \in [Requests -> BOOLEAN]
      /\ ~trial'[r] /\ \A q \in Requests : q # r => trial'[q] = trial[q]
  BY Typed
<1>6. /\ pc' \in [Requests -> Running \union Settled
                               \union {"idle", "execute", "waiting", "insert"}]
      /\ pc'[r] = label
      /\ \A q \in Requests : q # r =>
            IF pc[q] = "waiting" /\ waitsFor[q] = r THEN pc'[q] = "execute"
                                                    ELSE pc'[q] = pc[q]
  BY Typed DEF Wake
<1>7. \A q \in Requests :
         /\ trial'[q] => q # r /\ pc'[q] \in Running
         /\ pc'[q] = "waiting" => waitsFor'[q] \in Requests
  BY <1>5, <1>6 DEF IInv, Tests, Running, Settled
<1>8. Tests'
  <2> SUFFICES ASSUME NEW u \in Services, breaker'[u].state = "halfOpen"
               PROVE  \E t \in Requests : /\ breaker'[u].tester = t
                                          /\ trial'[t] /\ ServiceOf(t)' = u
    BY <1>7 DEF Tests, ServiceOf
  <2>1. breaker[u].state = "halfOpen" /\ breaker'[u].tester = breaker[u].tester
        /\ (u = s => ~trial[r])
    BY <1>3, <1>4
  <2>2. /\ breaker[u].tester \in Requests /\ trial[breaker[u].tester]
        /\ ServiceOf(breaker[u].tester) = u
    BY <2>1 DEF IInv, Tests
  <2>3. breaker[u].tester # r
    BY <2>1, <2>2
  <2> QED BY <2>1, <2>2, <2>3, <1>5
<1>9. ClosedBelowThreshold'
  BY <1>3, <1>4 DEF IInv, ClosedBelowThreshold
<1>10. WaitersHaveATest'
  <2> SUFFICES ASSUME NEW q \in Requests, pc'[q] = "waiting"
               PROVE  /\ trial'[waitsFor[q]] /\ pc'[waitsFor[q]] \in Running
                      /\ ServiceOf(waitsFor[q])' = ServiceOf(q)'
    BY DEF WaitersHaveATest
  <2>1. q # r /\ pc[q] = "waiting" /\ waitsFor[q] # r
    BY <1>6 DEF Settled
  <2>2. /\ trial[waitsFor[q]] /\ pc[waitsFor[q]] \in Running
        /\ ServiceOf(waitsFor[q]) = ServiceOf(q)
    BY <2>1 DEF IInv, WaitersHaveATest
  <2>3. waitsFor[q] \in Requests
    BY <2>1 DEF IInv, Tests
  <2> QED BY <2>1, <2>2, <2>3, <1>5, <1>6 DEF Running
<1> QED BY <1>4, <1>5, <1>6, <1>8, <1>9, <1>10

-----------------------------------------------------------------------------
\* The objects of uploads are not touched by other requests' calls, nor by
\* their own late ones.
LEMMA Storing ==
    ASSUME IInv, NEW r \in Requests, NEW o \in Ops,
           o = "delete" => kind[r] = "health",
           held' \in {held, Performed(r, o)}, UNCHANGED kind,
           avatars' \in {avatars, avatars \union {Key(r)}},
           avatars' # avatars => pc[r] = "insert",
           \A q \in Requests : pc'[q] = "insert" =>
              pc[q] = "insert" \/ (q = r /\ Key(r) \in held')
    PROVE  /\ Stored'
           /\ held' \subseteq Requests
           /\ avatars' \subseteq Requests
<1>1. /\ held \subseteq Requests /\ avatars \subseteq Requests
      /\ Key(r) \in Requests
  BY CallsAssumption DEF IInv, TypeOK, Key
<1>2. \A q \in Requests : Key(q)' = Key(q) /\ (Key(q) = Key(r) => q = r)
  BY DEF Key
<1>3. \A k \in held' : k \in held \/ k = Key(r)
  BY DEF Performed
<1>4. \A k \in held : k \in held' \/ (k = Key(r) /\ kind[r] = "health")
  BY DEF Performed
<1>5. pc[r] = "insert" => Key(r) \in held /\ kind[r] = "avatar"
  BY DEF IInv, Stored, Calls
<1>6. \A k \in held' \union avatars' : \E q \in Requests : k = Key(q)
  BY <1>3 DEF IInv, Stored
<1>7. ASSUME NEW q \in Requests, pc'[q] = "insert" PROVE Key(q) \in held'
  BY <1>7, <1>2, <1>4 DEF IInv, Stored, Calls
<1>8. ASSUME NEW q \in Requests, Key(q) \in avatars'
      PROVE  Key(q) \in held' /\ kind[q] = "avatar"
  <2>1. Key(q) \in held /\ kind[q] = "avatar"
    BY <1>8, <1>2, <1>5 DEF IInv, Stored
  <2> QED BY <2>1, <1>2, <1>4
<1>9. Stored'
  BY <1>2, <1>6, <1>7, <1>8 DEF Stored
<1>10. /\ held' \subseteq Requests
       /\ avatars' \subseteq Requests
  BY <1>1, <1>3
<1> QED BY <1>9, <1>10

\* A call succeeds.
LEMMA Succeeding ==
    ASSUME IInv, NEW r \in Requests, pc[r] = "trying", Succeed(r),
           held' \in {held, Performed(r, op[r])}, UNCHANGED late,
           op[r] # "send" => held' = Performed(r, op[r])
    PROVE  IInv'
<1>1. /\ breaker \in [Services -> Breaker] /\ op \in [Requests -> Ops]
      /\ attempt \in [Requests -> 0..Retries]
      /\ late \in [Requests -> [Ops -> 0..Retries]]
      /\ waitsFor \in [Requests -> Requests \union {NoRequest}]
  BY Typed
<1>2. /\ op[r] = "send" <=> kind[r] = "mail"
      /\ op[r] = "delete" => kind[r] = "health"
      /\ op[r] \in Ops
  BY <1>1 DEF IInv, Calls
<1>3. /\ op' \in [Requests -> Ops] /\ \A q \in Requests : q # r => op'[q] = op[q]
      /\ op'[r] = IF op[r] = "put" /\ kind[r] = "health" THEN "delete" ELSE op[r]
  BY <1>1 DEF Succeed, Ops
<1>4. \A q \in Requests : ServiceOf(q)' = ServiceOf(q)
  BY <1>3 DEF ServiceOf
<1>5. /\ AfterSuccess(r) \in {"insert", "execute", "done"}
      /\ AfterSuccess(r) = "insert" => op[r] = "put" /\ kind[r] = "avatar"
      /\ AfterSuccess(r) = "execute" => op[r] = "put" /\ kind[r] = "health"
  BY DEF AfterSuccess
<1>6. /\ Tests' /\ ClosedBelowThreshold' /\ WaitersHaveATest'
      /\ breaker' \in [Services -> Breaker] /\ trial' \in [Requests -> BOOLEAN]
      /\ pc' \in [Requests -> Running \union Settled
                               \union {"idle", "execute", "waiting", "insert"}]
      /\ pc'[r] = AfterSuccess(r)
      /\ \A q \in Requests : q # r =>
            pc'[q] = pc[q] \/ (pc[q] = "waiting" /\ pc'[q] = "execute")
  <2> DEFINE b == OnSuccess(breaker[ServiceOf(r)], trial[r])
  <2>1. breaker' = [breaker EXCEPT ![ServiceOf(r)] = b]
    BY DEF Succeed
  <2>2. /\ Wake(r, AfterSuccess(r)) /\ trial' = [trial EXCEPT ![r] = FALSE]
        /\ UNCHANGED waitsFor
    BY DEF Succeed
  <2>3. AfterSuccess(r) \in Settled \union {"execute", "insert"}
    BY <1>5 DEF Settled
  <2> HIDE DEF b
  <2>4. b \in {OnSuccess(breaker[ServiceOf(r)], trial[r]),
               OnFailure(breaker[ServiceOf(r)], trial[r])}
    BY DEF b
  <2> QED BY <2>1, <2>2, <2>3, <2>4, <1>4, Settling
<1>7. Calls'
  BY <1>2, <1>3, <1>5, <1>6 DEF IInv, Calls, Succeed
<1>8. Lates'
  BY <1>2, <1>3, <1>5, <1>6 DEF IInv, Lates, Succeed
<1>9. Stored' /\ held' \subseteq Requests
      /\ avatars' \subseteq Requests
  <2>1. pc'[r] = "insert" => Key(r) \in held'
    BY <1>5, <1>6 DEF Performed
  <2>2. UNCHANGED <<kind, avatars>>
    BY DEF Succeed
  <2>3. \A q \in Requests : pc'[q] = "insert" =>
           pc[q] = "insert" \/ (q = r /\ Key(r) \in held')
    BY <2>1, <1>6
  <2> QED BY <1>2, <2>2, <2>3, Storing
<1>10. TypeOK'
  BY <1>1, <1>3, <1>6, <1>9 DEF IInv, TypeOK, Succeed
<1> QED BY <1>6, <1>7, <1>8, <1>9, <1>10 DEF IInv

\* An attempt fails, and may be performed or be on its way.
LEMMA Failing ==
    ASSUME IInv, NEW r \in Requests, pc[r] = "trying", AttemptFails(r),
           held' \in {held, Performed(r, op[r])},
           late' \in {late, [late EXCEPT ![r][op[r]] = @ + 1]}
    PROVE  IInv'
<1>1. /\ breaker \in [Services -> Breaker] /\ op \in [Requests -> Ops]
      /\ attempt \in [Requests -> 0..Retries] /\ trial \in [Requests -> BOOLEAN]
      /\ late \in [Requests -> [Ops -> 0..Retries]]
      /\ waitsFor \in [Requests -> Requests \union {NoRequest}]
      /\ Retries \in Nat
  BY Typed
<1>2. UNCHANGED <<kind, op, attempt, waitsFor, avatars>>
  BY DEF AttemptFails
<1>3. \A q : ServiceOf(q)' = ServiceOf(q)
  BY <1>2 DEF ServiceOf
<1>4. AfterFailure(r, "failed") \in {"done", "failed"}
  BY DEF AfterFailure
<1>5. /\ Tests' /\ ClosedBelowThreshold' /\ WaitersHaveATest'
      /\ breaker' \in [Services -> Breaker] /\ trial' \in [Requests -> BOOLEAN]
      /\ pc' \in [Requests -> Running \union Settled
                               \union {"idle", "execute", "waiting", "insert"}]
      /\ \/ pc'[r] = "backoff" /\ attempt[r] < Retries
         \/ pc'[r] \in {"done", "failed"}
      /\ \A q \in Requests : q # r =>
            pc'[q] = pc[q] \/ (pc[q] = "waiting" /\ pc'[q] = "execute")
  <2>1. CASE attempt[r] < Retries /\ Goto(r, "backoff") /\ UNCHANGED <<breaker, trial>>
    <3>1. Tests' /\ ClosedBelowThreshold' /\ WaitersHaveATest'
      BY <2>1, <1>2, Moving DEF Running
    <3> QED BY <2>1, <3>1, <1>1, Typed DEF Goto, Running
  <2>2. CASE /\ breaker' = [breaker EXCEPT ![ServiceOf(r)] = OnFailure(@, trial[r])]
             /\ Wake(r, AfterFailure(r, "failed"))
             /\ trial' = [trial EXCEPT ![r] = FALSE]
    <3> DEFINE b == OnFailure(breaker[ServiceOf(r)], trial[r])
    <3>1. breaker' = [breaker EXCEPT ![ServiceOf(r)] = b]
      BY <2>2
    <3>2. AfterFailure(r, "failed") \in Settled \union {"execute", "insert"}
      BY <1>4 DEF Settled
    <3> HIDE DEF b
    <3>3. b \in {OnSuccess(breaker[ServiceOf(r)], trial[r]),
                 OnFailure(breaker[ServiceOf(r)], trial[r])}
      BY DEF b
    <3> QED BY <2>2, <3>1, <3>2, <3>3, <1>2, <1>3, <1>4, Settling
  <2> QED BY <2>1, <2>2 DEF AttemptFails
<1>6. Calls'
  BY <1>2, <1>5 DEF IInv, Calls
<1>7. /\ late[r][op[r]] < attempt[r] /\ op[r] \in Ops
      /\ op[r] # "delete" => late[r]["delete"] = 0
  BY <1>1 DEF IInv, Lates
<1>8. /\ late' \in [Requests -> [Ops -> 0..Retries]]
      /\ \A q \in Requests : q # r => late'[q] = late[q]
      /\ late'[r][op[r]] <= attempt[r]
      /\ op[r] # "delete" => late'[r]["delete"] = late[r]["delete"]
  <2>1. late[r][op[r]] + 1 \in 0..Retries /\ late[r][op[r]] + 1 <= attempt[r]
    BY <1>1, <1>7
  <2>2. CASE late' = late
    BY <2>2, <1>1, <1>7
  <2>3. CASE late' = [late EXCEPT ![r][op[r]] = @ + 1]
    <3>1. late' = [late EXCEPT ![r] = [late[r] EXCEPT ![op[r]] = late[r][op[r]] + 1]]
      BY <2>3
    <3>2. [late[r] EXCEPT ![op[r]] = late[r][op[r]] + 1] \in [Ops -> 0..Retries]
      BY <1>1, <1>7, <2>1
    <3> QED BY <3>1, <3>2, <1>1, <1>7, <2>1 DEF Ops
  <2> QED BY <2>2, <2>3
<1>9. Lates'
  BY <1>1, <1>2, <1>5, <1>7, <1>8 DEF IInv, Lates
<1>10. Stored' /\ held' \subseteq Requests
       /\ avatars' \subseteq Requests
  <2>1. op[r] = "delete" => kind[r] = "health"
    BY DEF IInv, Calls
  <2> QED BY <2>1, <1>2, <1>5, <1>7, Storing
<1>11. TypeOK'
  BY <1>1, <1>2, <1>5, <1>8, <1>10 DEF IInv, TypeOK
<1> QED BY <1>5, <1>6, <1>9, <1>10, <1>11 DEF IInv

-----------------------------------------------------------------------------
\* Every step keeps the invariant.
LEMMA StepIInv == IInv /\ [Next]_vars => IInv'
<1> SUFFICES ASSUME IInv, [Next]_vars PROVE IInv'
  OBVIOUS
<1>0. /\ breaker \in [Services -> Breaker] /\ op \in [Requests -> Ops]
      /\ attempt \in [Requests -> 0..Retries] /\ trial \in [Requests -> BOOLEAN]
      /\ late \in [Requests -> [Ops -> 0..Retries]]
      /\ waitsFor \in [Requests -> Requests \union {NoRequest}]
      /\ pc \in [Requests -> Running \union Settled
                              \union {"idle", "execute", "waiting", "insert"}]
      /\ Retries \in Nat \ {0} /\ \A r \in Requests : ServiceOf(r) \in Services
  BY Typed
<1>1. ASSUME NEW r \in Requests, Arrive(r) PROVE IInv'
  <2>1. PICK label \in {"execute", "refused"} : Goto(r, label)
    BY <1>1 DEF Arrive
  <2>2. pc[r] = "idle" /\ UNCHANGED <<breaker, kind, op, attempt, trial, waitsFor,
                                      late, held, avatars>>
    BY <1>1 DEF Arrive
  <2>3. Tests' /\ ClosedBelowThreshold' /\ WaitersHaveATest'
    BY <2>1, <2>2, Moving DEF Running
  <2>4. pc'[r] = label /\ \A q \in Requests : q # r => pc'[q] = pc[q]
    BY <1>0, <2>1 DEF Goto
  <2>5. TypeOK'
    BY <1>0, <2>1, <2>2 DEF IInv, TypeOK, Goto, Settled
  <2>6. Calls' /\ Lates' /\ Stored'
    BY <2>2, <2>4 DEF IInv, Calls, Lates, Stored, Key
  <2> QED BY <2>3, <2>5, <2>6 DEF IInv
<1>2. ASSUME NEW r \in Requests, Execute(r) PROVE IInv'
  <2> DEFINE s == ServiceOf(r)
  <2>1. /\ pc[r] = "execute" /\ ~trial[r] /\ s \in Services
        /\ UNCHANGED <<kind, op, late, held, avatars>>
        /\ late[r][op[r]] = 0
    BY <1>0, <1>2 DEF Execute, IInv, Tests, Running, Lates
  <2>2. \A q : ServiceOf(q)' = ServiceOf(q)
    BY <2>1 DEF ServiceOf
  <2>3. ASSUME NEW label \in Running \union Settled \union {"waiting"}, Goto(r, label),
               label # "backoff", attempt' \in [Requests -> 0..Retries],
               \A q \in Requests : q # r => attempt'[q] = attempt[q],
               label = "trying" => attempt'[r] = 1
        PROVE  /\ Calls' /\ Lates' /\ Stored'
               /\ pc' \in [Requests -> Running \union Settled
                                        \union {"idle", "execute", "waiting", "insert"}]
               /\ pc'[r] = label /\ \A q \in Requests : q # r => pc'[q] = pc[q]
    <3>1. pc'[r] = label /\ \A q \in Requests : q # r => pc'[q] = pc[q]
      BY <1>0, <2>3 DEF Goto
    <3>2. pc' \in [Requests -> Running \union Settled
                                \union {"idle", "execute", "waiting", "insert"}]
      BY <1>0, <2>3 DEF Goto
    <3>3. label # "insert" /\ label # "idle" /\ label # "execute"
      BY DEF Running, Settled
    <3>4. Calls' /\ Stored'
      BY <2>1, <3>1, <3>3 DEF IInv, Calls, Stored, Key
    <3>5. Lates'
      BY <2>1, <2>3, <3>1, <3>3 DEF IInv, Lates
    <3> QED BY <3>1, <3>2, <3>4, <3>5
  <2>4. CASE breaker[s].state = "closed" /\ Admit(r, FALSE) /\ UNCHANGED <<breaker, waitsFor>>
    <3>1. Goto(r, "trying") /\ "trying" \in Running
      BY <2>4 DEF Admit, Running
    <3>2. /\ attempt' \in [Requests -> 0..Retries] /\ attempt'[r] = 1
          /\ \A q \in Requests : q # r => attempt'[q] = attempt[q]
          /\ trial' = trial
      BY <1>0, <2>1, <2>4 DEF Admit
    <3>3. /\ Calls' /\ Lates' /\ Stored'
          /\ pc' \in [Requests -> Running \union Settled
                                   \union {"idle", "execute", "waiting", "insert"}]
      BY <2>3, <3>1, <3>2
    <3>4. Tests' /\ ClosedBelowThreshold' /\ WaitersHaveATest'
      BY <2>1, <2>4, <3>1, <3>2, Moving
    <3>5. TypeOK'
      BY <2>1, <2>4, <3>2, <3>3 DEF IInv, TypeOK
    <3> QED BY <3>3, <3>4, <3>5 DEF IInv
  <2>5. CASE /\ breaker[s].state = "open" /\ Admit(r, TRUE)
             /\ breaker' = [breaker EXCEPT ![s].state = "halfOpen", ![s].tester = r]
             /\ UNCHANGED waitsFor
    <3>1. Goto(r, "trying") /\ "trying" \in Running
      BY <2>5 DEF Admit, Running
    <3>2. /\ attempt' \in [Requests -> 0..Retries] /\ attempt'[r] = 1
          /\ \A q \in Requests : q # r => attempt'[q] = attempt[q]
          /\ trial' \in [Requests -> BOOLEAN] /\ trial'[r]
          /\ \A q \in Requests : q # r => trial'[q] = trial[q]
      BY <1>0, <2>5 DEF Admit
    <3>3. /\ Calls' /\ Lates' /\ Stored'
          /\ pc' \in [Requests -> Running \union Settled
                                   \union {"idle", "execute", "waiting", "insert"}]
          /\ pc'[r] = "trying" /\ \A q \in Requests : q # r => pc'[q] = pc[q]
      BY <2>3, <3>1, <3>2
    <3>4. /\ breaker' \in [Services -> Breaker]
          /\ breaker'[s].state = "halfOpen" /\ breaker'[s].tester = r
          /\ \A u \in Services : u # s => breaker'[u] = breaker[u]
      BY <1>0, <2>1, <2>5 DEF Breaker
    <3>5. Tests'
      <4>1. \A q \in Requests : /\ trial'[q] => pc'[q] \in Running
                                /\ pc'[q] = "waiting" => waitsFor[q] \in Requests
        BY <3>1, <3>2, <3>3 DEF IInv, Tests
      <4>2. ASSUME NEW u \in Services, breaker'[u].state = "halfOpen"
            PROVE  \E t \in Requests : /\ breaker'[u].tester = t
                                       /\ trial'[t] /\ ServiceOf(t)' = u
        <5>1. CASE u = s
          BY <5>1, <2>2, <3>2, <3>4
        <5>2. CASE u # s
          BY <5>2, <4>2, <2>2, <3>2, <3>4 DEF IInv, Tests
        <5> QED BY <5>1, <5>2
      <4> QED BY <4>1, <4>2, <2>5 DEF Tests, ServiceOf
    <3>6. ClosedBelowThreshold'
      BY <3>4 DEF IInv, ClosedBelowThreshold
    <3>7. WaitersHaveATest'
      BY <2>1, <2>2, <2>5, <3>1, <3>2, <3>3 DEF IInv, Tests, WaitersHaveATest
    <3>8. TypeOK'
      BY <2>1, <2>5, <3>2, <3>3, <3>4 DEF IInv, TypeOK
    <3> QED BY <3>3, <3>5, <3>6, <3>7, <3>8 DEF IInv
  <2>6. CASE /\ breaker[s].state = "halfOpen"
             /\ waitsFor' = [waitsFor EXCEPT ![r] = breaker[s].tester]
             /\ Goto(r, "waiting") /\ UNCHANGED <<breaker, attempt, trial>>
    <3>1. /\ Calls' /\ Lates' /\ Stored'
          /\ pc' \in [Requests -> Running \union Settled
                                   \union {"idle", "execute", "waiting", "insert"}]
          /\ pc'[r] = "waiting" /\ \A q \in Requests : q # r => pc'[q] = pc[q]
      BY <1>0, <2>3, <2>6
    <3>2. PICK t \in Requests : t = breaker[s].tester /\ trial[t] /\ ServiceOf(t) = s
      BY <2>1, <2>6 DEF IInv, Tests
    <3>3. /\ waitsFor' \in [Requests -> Requests \union {NoRequest}] /\ waitsFor'[r] = t
          /\ \A q \in Requests : q # r => waitsFor'[q] = waitsFor[q]
      BY <1>0, <2>6, <3>2
    <3>4. pc[t] \in Running /\ t # r
      BY <2>1, <3>2 DEF IInv, Tests
    <3>5. \A q \in Requests : trial[q] => pc'[q] = pc[q] /\ pc[q] \in Running
      BY <2>1, <3>1 DEF IInv, Tests
    <3>6. Tests'
      BY <2>2, <2>6, <3>1, <3>3, <3>5 DEF IInv, Tests
    <3>7. WaitersHaveATest'
      <4> SUFFICES ASSUME NEW q \in Requests, pc'[q] = "waiting"
                   PROVE  \E w \in Requests : /\ waitsFor'[q] = w /\ trial[w]
                                              /\ pc'[w] \in Running
                                              /\ ServiceOf(w) = ServiceOf(q)
        BY <2>1, <2>6 DEF WaitersHaveATest, ServiceOf
      <4>1. CASE q = r
        BY <4>1, <3>2, <3>3, <3>5
      <4>2. CASE q # r
        <5>1. /\ trial[waitsFor[q]] /\ waitsFor[q] \in Requests
              /\ ServiceOf(waitsFor[q]) = ServiceOf(q)
          BY <4>2, <3>1 DEF IInv, Tests, WaitersHaveATest
        <5> QED BY <4>2, <5>1, <3>3, <3>5
      <4> QED BY <4>1, <4>2
    <3>8. ClosedBelowThreshold' /\ TypeOK'
      BY <2>1, <2>6, <3>1, <3>3 DEF IInv, ClosedBelowThreshold, TypeOK
    <3> QED BY <3>1, <3>6, <3>7, <3>8 DEF IInv
  <2>7. CASE /\ Goto(r, AfterFailure(r, "refused"))
             /\ attempt' = [attempt EXCEPT ![r] = 0]
             /\ UNCHANGED <<breaker, trial, waitsFor>>
    <3>1. PICK label \in Settled : Goto(r, label) /\ label \in {"refused", "done"}
      BY <2>7 DEF AfterFailure, Settled
    <3>2. /\ attempt' \in [Requests -> 0..Retries]
          /\ \A q \in Requests : q # r => attempt'[q] = attempt[q]
      BY <1>0, <2>7
    <3>3. /\ Calls' /\ Lates' /\ Stored'
          /\ pc' \in [Requests -> Running \union Settled
                                   \union {"idle", "execute", "waiting", "insert"}]
      BY <2>3, <3>1, <3>2
    <3>4. Tests' /\ ClosedBelowThreshold' /\ WaitersHaveATest'
      BY <2>1, <2>7, <3>1, Moving DEF Running
    <3>5. TypeOK'
      BY <2>1, <2>7, <3>2, <3>3 DEF IInv, TypeOK
    <3> QED BY <3>3, <3>4, <3>5 DEF IInv
  <2> QED BY <1>2, <2>4, <2>5, <2>6, <2>7 DEF Execute
<1>3. ASSUME NEW r \in Requests, RetryAfterBackoff(r) PROVE IInv'
  <2>1. /\ pc[r] = "backoff" /\ Goto(r, "trying")
        /\ attempt' = [attempt EXCEPT ![r] = @ + 1]
        /\ UNCHANGED <<breaker, kind, op, trial, waitsFor, late, held, avatars>>
    BY <1>3 DEF RetryAfterBackoff
  <2>2. Tests' /\ ClosedBelowThreshold' /\ WaitersHaveATest'
    BY <2>1, Moving DEF Running
  <2>3. late[r][op[r]] <= attempt[r] /\ attempt[r] < Retries
    BY <2>1 DEF IInv, Lates
  <2>4. attempt[r] + 1 \in 0..Retries
    BY <1>0, <2>3
  <2>5. /\ pc'[r] = "trying" /\ attempt'[r] = attempt[r] + 1
        /\ attempt' \in [Requests -> 0..Retries]
        /\ \A q \in Requests : q # r => pc'[q] = pc[q] /\ attempt'[q] = attempt[q]
    BY <1>0, <2>1, <2>4 DEF Goto
  <2>6. late[r][op[r]] < attempt'[r]
    BY <1>0, <2>3, <2>5
  <2>7. TypeOK'
    BY <1>0, <2>1, <2>5 DEF IInv, TypeOK, Goto, Running
  <2>8. Calls' /\ Stored'
    BY <2>1, <2>5 DEF IInv, Calls, Stored, Key
  <2>9. Lates'
    BY <2>1, <2>5, <2>6 DEF IInv, Lates
  <2> QED BY <2>2, <2>7, <2>8, <2>9 DEF IInv
<1>4. ASSUME NEW r \in Requests, Answer(r) PROVE IInv'
  BY <1>4, Succeeding DEF Answer
<1>5. ASSUME NEW r \in Requests, AnswerWithError(r) PROVE IInv'
  BY <1>5, Succeeding DEF AnswerWithError
<1>6. ASSUME NEW r \in Requests, Reject(r) PROVE IInv'
  BY <1>6, Failing DEF Reject
<1>7. ASSUME NEW r \in Requests, Timeout(r) PROVE IInv'
  BY <1>7, Failing DEF Timeout
<1>8. ASSUME NEW r \in Requests, InsertAvatar(r) PROVE IInv'
  <2>1. PICK label \in {"done", "failed"} : Goto(r, label)
    BY <1>8 DEF InsertAvatar
  <2>2. /\ pc[r] = "insert" /\ avatars' \in {avatars, avatars \union {Key(r)}}
        /\ UNCHANGED <<breaker, kind, op, attempt, trial, waitsFor, late, held>>
    BY <1>8 DEF InsertAvatar
  <2>3. Tests' /\ ClosedBelowThreshold' /\ WaitersHaveATest'
    BY <2>1, <2>2, Moving DEF Running
  <2>4. pc'[r] = label /\ \A q \in Requests : q # r => pc'[q] = pc[q]
    BY <1>0, <2>1 DEF Goto
  <2>5. Calls' /\ Lates'
    BY <2>2, <2>4 DEF IInv, Calls, Lates
  <2>6. Stored' /\ avatars' \subseteq Requests
    <3>1. "put" \in Ops /\ "put" # "delete"
      BY DEF Ops
    <3> QED BY <2>2, <2>4, <3>1, Storing
  <2>7. TypeOK'
    BY <1>0, <2>1, <2>2, <2>6 DEF IInv, TypeOK, Goto, Settled
  <2> QED BY <2>3, <2>5, <2>6, <2>7 DEF IInv
<1>9. ASSUME NEW r \in Requests, NEW o \in Ops, Land(r, o) PROVE IInv'
  <2>1. /\ late[r][o] > 0 /\ late' = [late EXCEPT ![r][o] = @ - 1]
        /\ held' \in {held, Performed(r, o)}
        /\ UNCHANGED <<breaker, pc, kind, op, attempt, trial, waitsFor, avatars>>
    BY <1>9 DEF Land
  <2>2. o = "delete" => kind[r] = "health"
    BY <2>1 DEF IInv, Lates, Calls
  <2>3. Stored' /\ held' \subseteq Requests
    BY <2>1, <2>2, Storing
  <2>4. /\ late' \in [Requests -> [Ops -> 0..Retries]]
        /\ \A q \in Requests : \A x \in Ops : late'[q][x] <= late[q][x]
    <3>1. late' = [late EXCEPT ![r] = [late[r] EXCEPT ![o] = late[r][o] - 1]]
      BY <2>1
    <3>2. late[r][o] - 1 \in 0..Retries /\ late[r][o] - 1 <= late[r][o]
      BY <1>0, <2>1
    <3>3. [late[r] EXCEPT ![o] = late[r][o] - 1] \in [Ops -> 0..Retries]
      BY <1>0, <3>2
    <3> QED BY <1>0, <3>1, <3>2, <3>3
  <2>5. Lates'
    BY <1>0, <2>1, <2>4 DEF IInv, Lates, Ops
  <2>6. Calls' /\ Tests' /\ ClosedBelowThreshold' /\ WaitersHaveATest'
    BY <2>1 DEF IInv, Calls, Tests, ClosedBelowThreshold, WaitersHaveATest, ServiceOf
  <2>7. TypeOK'
    BY <2>1, <2>3, <2>4 DEF IInv, TypeOK
  <2> QED BY <2>3, <2>5, <2>6, <2>7 DEF IInv
<1>10. ASSUME NEW s \in Services, CoolDown(s) PROVE IInv'
  <2>1. /\ breaker' = [breaker EXCEPT ![s].cooled = TRUE]
        /\ UNCHANGED <<pc, kind, op, attempt, trial, waitsFor, late, held, avatars>>
    BY <1>10 DEF CoolDown
  <2>2. /\ breaker' \in [Services -> Breaker]
        /\ \A u \in Services : /\ breaker'[u].state = breaker[u].state
                               /\ breaker'[u].count = breaker[u].count
                               /\ breaker'[u].tester = breaker[u].tester
    BY <1>0, <2>1 DEF Breaker
  <2>3. Tests' /\ ClosedBelowThreshold' /\ WaitersHaveATest'
    BY <2>1, <2>2 DEF IInv, Tests, ClosedBelowThreshold, WaitersHaveATest, ServiceOf
  <2>4. Calls' /\ Lates' /\ Stored' /\ TypeOK'
    BY <2>1, <2>2 DEF IInv, Calls, Lates, Stored, TypeOK, Key
  <2> QED BY <2>3, <2>4 DEF IInv
<1>11. CASE UNCHANGED vars
  BY <1>11 DEF vars, IInv, TypeOK, Calls, Lates, Stored, Tests, Key, ServiceOf,
               ClosedBelowThreshold, WaitersHaveATest
<1> QED BY <1>1, <1>2, <1>3, <1>4, <1>5, <1>6, <1>7, <1>8, <1>9, <1>10, <1>11
        DEF Next

LEMMA Invariant == Spec => []IInv
BY InitIInv, StepIInv, PTL DEF Spec

\* The variables keep their types: no call is attempted more than Retries times.
THEOREM CallTypes == Spec => []TypeOK
<1>1. IInv => TypeOK
  BY DEF IInv
<1> QED BY <1>1, Invariant, PTL

\* A closed breaker has counted fewer failures in a row than its threshold.
THEOREM BreakersOpen == Spec => []ClosedBelowThreshold
<1>1. IInv => ClosedBelowThreshold
  BY DEF IInv
<1> QED BY <1>1, Invariant, PTL

\* Whoever waits for a half-open breaker waits for a test that is being made.
THEOREM NobodyWaitsInVain == Spec => []WaitersHaveATest
<1>1. IInv => WaitersHaveATest
  BY DEF IInv
<1> QED BY <1>1, Invariant, PTL

\* Rows of the avatars table name objects that are stored.
THEOREM RowsHaveObjects == Spec => []AvatarsAreStored
<1>1. IInv => AvatarsAreStored
  BY DEF IInv, Stored, AvatarsAreStored
<1> QED BY <1>1, Invariant, PTL

-----------------------------------------------------------------------------
(* Every call advances *)

\* How many steps a request has ahead of it at most, if it waits for no test:
\* of the call it makes, and of the delete that follows a health check's put.
CallLength == 2 * Retries + 2
AheadInCall(r) ==
    CASE pc[r] = "execute" -> CallLength
      [] pc[r] = "waiting" -> CallLength - 1
      [] pc[r] = "trying"  -> 2 * (Retries - attempt[r]) + 2
      [] pc[r] = "backoff" -> 2 * (Retries - attempt[r]) + 1
      [] pc[r] = "insert"  -> 1
      [] OTHER -> 0
Ahead(r) ==
    AheadInCall(r) + IF kind[r] = "health" /\ op[r] = "put" /\ pc[r] \notin Settled
                     THEN CallLength + 1 ELSE 0

Steps(r) == \/ Execute(r) \/ RetryAfterBackoff(r) \/ InsertAvatar(r)
            \/ Answer(r) \/ AnswerWithError(r) \/ Reject(r) \/ Timeout(r)

\* The test q makes of a half-open breaker ends.
TestEnds(q) == trial[q] /\ ~trial'[q]

Advances(r) ==
    /\ Ahead(r) \in Nat
    /\ Steps(r) => Ahead(r)' < Ahead(r)
    /\ Ahead(r)' > Ahead(r) => \/ pc[r] = "idle"
                               \/ /\ pc[r] = "waiting" /\ TestEnds(waitsFor[r])
                                  /\ Ahead(r)' = Ahead(r) + 1

\* The count is a number, and an attempt always has two steps to go at least.
LEMMA AheadCounts == ASSUME IInv, NEW r \in Requests
                     PROVE  /\ AheadInCall(r) \in 0..CallLength /\ Ahead(r) \in Nat
                            /\ CallLength \in Nat
                            /\ pc[r] \in {"execute", "trying"} => AheadInCall(r) >= 2
<1>1. /\ attempt[r] \in 0..Retries /\ Retries \in Nat \ {0}
      /\ pc[r] = "backoff" => attempt[r] < Retries
  BY Typed DEF IInv, Lates
<1> QED BY <1>1 DEF Ahead, AheadInCall, CallLength

\* What r's own step does to it.
LEMMA OwnStep ==
    ASSUME IInv, NEW r \in Requests, Steps(r)
    PROVE  Ahead(r)' \in Nat /\ Ahead(r)' < Ahead(r)
<1>1. /\ attempt[r] \in 0..Retries /\ Retries \in Nat \ {0}
      /\ pc[r] = "backoff" => attempt[r] < Retries
      /\ op[r] \in Ops /\ op[r] = "delete" => kind[r] = "health"
  BY Typed DEF IInv, Lates, Calls
<1>2. attempt \in [Requests -> 0..Retries] /\ DOMAIN pc = Requests /\ DOMAIN op = Requests
  BY Typed
<1> USE DEF Ahead, AheadInCall, CallLength, Goto, Settled
<1>3. CASE Execute(r)
  <2>1. UNCHANGED <<kind, op>> /\ pc[r] = "execute"
    BY <1>3 DEF Execute
  <2>2. \/ pc'[r] = "trying" /\ attempt'[r] = 1
        \/ pc'[r] = "waiting"
        \/ pc'[r] \in {"done", "refused"}
    BY <1>2, <1>3 DEF Execute, Admit, AfterFailure
  <2> QED BY <1>1, <2>1, <2>2
<1>4. CASE RetryAfterBackoff(r)
  <2>1. /\ UNCHANGED <<kind, op>> /\ pc[r] = "backoff" /\ pc'[r] = "trying"
        /\ attempt'[r] = attempt[r] + 1
    BY <1>2, <1>4 DEF RetryAfterBackoff
  <2> QED BY <1>1, <2>1
<1>5. CASE InsertAvatar(r)
  <2>1. /\ UNCHANGED <<kind, op>> /\ pc[r] = "insert"
        /\ pc'[r] \in {"done", "failed"}
    BY <1>2, <1>5 DEF InsertAvatar
  <2> QED BY <1>1, <2>1
<1>6. CASE Answer(r) \/ AnswerWithError(r)
  <2>1. /\ pc[r] = "trying" /\ pc'[r] = AfterSuccess(r) /\ UNCHANGED kind
        /\ op'[r] = IF op[r] = "put" /\ kind[r] = "health" THEN "delete" ELSE op[r]
    BY <1>2, <1>6 DEF Answer, AnswerWithError, Succeed, Wake
  <2> QED BY <1>1, <2>1 DEF AfterSuccess
<1>7. CASE Reject(r) \/ Timeout(r)
  <2>1. pc[r] = "trying" /\ UNCHANGED <<kind, op, attempt>>
    BY <1>7 DEF Reject, Timeout, AttemptFails
  <2>2. pc'[r] = "backoff" \/ pc'[r] \in {"done", "failed"}
    BY <1>2, <1>7 DEF Reject, Timeout, AttemptFails, Wake, AfterFailure
  <2> QED BY <1>1, <2>1, <2>2
<1> QED BY <1>3, <1>4, <1>5, <1>6, <1>7 DEF Steps

\* Another's step does nothing to it, unless it ends the test r waits for.
LEMMA OthersStep ==
    ASSUME IInv, NEW r \in Requests, NEW q \in Requests, q # r,
           Steps(q) \/ Arrive(q)
    PROVE  \/ Ahead(r)' = Ahead(r)
           \/ /\ pc[r] = "waiting" /\ TestEnds(waitsFor[r])
              /\ Ahead(r)' = Ahead(r) + 1
<1>1. /\ kind' = kind /\ op'[r] = op[r] /\ attempt'[r] = attempt[r]
  BY Typed DEF Steps, Execute, Admit, RetryAfterBackoff, InsertAvatar, Answer,
     AnswerWithError, Succeed, Reject, Timeout, AttemptFails, Arrive
<1>2. \/ pc'[r] = pc[r]
      \/ /\ pc[r] = "waiting" /\ waitsFor[r] = q /\ pc'[r] = "execute"
         /\ trial' = [trial EXCEPT ![q] = FALSE]
  <2>1. CASE \E label : Goto(q, label)
    BY <2>1, Typed DEF Goto
  <2>2. CASE \E label : Wake(q, label) /\ trial' = [trial EXCEPT ![q] = FALSE]
    BY <2>2, Typed DEF Wake
  <2>3. \/ \E label : Goto(q, label)
        \/ \E label : Wake(q, label) /\ trial' = [trial EXCEPT ![q] = FALSE]
    BY DEF Steps, Execute, Admit, RetryAfterBackoff, InsertAvatar, Answer,
       AnswerWithError, Succeed, Reject, Timeout, AttemptFails, Arrive
  <2> QED BY <2>1, <2>2, <2>3
<1>3. CASE pc'[r] = pc[r]
  BY <1>1, <1>3 DEF Ahead, AheadInCall
<1>4. CASE /\ pc[r] = "waiting" /\ waitsFor[r] = q /\ pc'[r] = "execute"
           /\ trial' = [trial EXCEPT ![q] = FALSE]
  <2>1. TestEnds(waitsFor[r])
    BY <1>4, Typed DEF IInv, WaitersHaveATest, TestEnds
  <2>2. Retries \in Nat
    BY Typed
  <2> QED BY <1>1, <1>4, <2>1, <2>2 DEF Ahead, AheadInCall, CallLength, Settled
<1> QED BY <1>2, <1>3, <1>4

\* Every step of a request takes it nearer its end, whether the service answers,
\* rejects or is silent; only the end of the test it waited for sends it back,
\* one step.  With NobodyWaitsInVain, what fairness needs to settle every call.
THEOREM CallsAdvance == Spec => [][\A r \in Requests : Advances(r)]_vars
<1>1. ASSUME IInv, [Next]_vars, NEW r \in Requests PROVE Advances(r)
  <2>1. Ahead(r) \in Nat
    BY <1>1, AheadCounts
  <2>2. Steps(r) => Ahead(r)' \in Nat /\ Ahead(r)' < Ahead(r)
    BY <1>1, OwnStep
  <2>3. ASSUME NEW q \in Requests, q # r, Steps(q) \/ Arrive(q) PROVE Advances(r)
    BY <1>1, <2>1, <2>2, <2>3, OthersStep DEF Advances
  <2>4. CASE Steps(r)
    BY <2>1, <2>2, <2>4 DEF Advances
  <2>5. CASE Arrive(r)
    BY <2>1, <2>2, <2>5 DEF Advances, Arrive
  <2>6. CASE \/ \E q \in Requests : \E o \in Ops : Land(q, o)
             \/ \E s \in Services : CoolDown(s)
             \/ UNCHANGED vars
    <3>1. UNCHANGED <<pc, kind, op, attempt>>
      BY <2>6 DEF Land, CoolDown, vars
    <3>2. Ahead(r)' = Ahead(r)
      BY <3>1 DEF Ahead, AheadInCall
    <3> QED BY <2>1, <2>2, <3>2 DEF Advances
  <2> QED BY <1>1, <2>3, <2>4, <2>5, <2>6 DEF Next, Steps
<1>2. IInv /\ [Next]_vars => [\A r \in Requests : Advances(r)]_vars
  BY <1>1
<1> QED BY <1>2, Invariant, PTL DEF Spec
================================================================================
