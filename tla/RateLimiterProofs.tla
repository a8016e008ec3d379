--------------------------- MODULE RateLimiterProofs ---------------------------
(***************************************************************************)
(* The limit holds for any routes, options, addresses and windows.  What   *)
(* has passed is bounded together with what the running windows can still  *)
(* let through: an attempt that passes takes one from the spare of the     *)
(* store that judges it, and a window that ends gives at most its points   *)
(* back, for which another window is counted.                              *)
(***************************************************************************)
EXTENDS RateLimiter, TLAPS

\* What a window with n attempts can still let through.
Spare(n, points) == IF n >= points THEN 0 ELSE points - n

Within(k, ip) ==
    passed[k][ip] + Spare(limits.count["redis"][k][ip], k.points)
                  + Spare(limits.count["memory"][k][ip], k.points)
       <= k.points * windows[k][ip]

\* A limiter that is not in the Map has nothing in memory, so making it anew
\* forgets nothing.
IInv == /\ TypeOK
        /\ \A k \in Limiters \ limits.kept, ip \in Ips :
              limits.count["memory"][k][ip] = 0
        /\ \A k \in Limiters, ip \in Ips : Within(k, ip)

\* Every limiter has points.
LEMMA PointsAreNatural == \A k \in Limiters : k.points \in Nat \ {0}
BY LimiterAssumption DEF Limiters

\* One more window allows the points once more.
LEMMA AnotherWindow ==
    ASSUME NEW p \in Nat, NEW w \in Nat
    PROVE  p * (w + 1) = p * w + p /\ p * 2 = p + p /\ p * w \in Nat
OBVIOUS

\* Making a limiter anew changes no count.
LEMMA LimiterOfKeepsCounts ==
    ASSUME IInv, NEW k \in Limiters
    PROVE  /\ LimiterOf(limits, k) \in Limits
           /\ k \in LimiterOf(limits, k).kept
           /\ limits.kept \subseteq LimiterOf(limits, k).kept
           /\ LimiterOf(limits, k).count = limits.count
           /\ LimiterOf(limits, k).store = limits.store
<1>1. limits \in Limits
  BY DEF IInv, TypeOK
<1>2. CASE k \in limits.kept
  BY <1>1, <1>2 DEF LimiterOf
<1>3. CASE k \notin limits.kept
  <2> DEFINE count == [limits.count EXCEPT !["memory"][k] = [ip \in Ips |-> 0]]
  <2>1. limits.count \in [Stores -> Counts]
    BY <1>1 DEF Limits
  <2>2. limits.count["memory"] \in [Limiters -> [Ips -> Nat]]
    BY <2>1 DEF Stores, Counts
  <2>3. limits.count["memory"][k] = [ip \in Ips |-> 0]
    BY <1>3, <2>2 DEF IInv
  <2>4. count = limits.count
    BY <2>1, <2>2, <2>3
  <2>5. LimiterOf(limits, k) =
           [store |-> limits.store, kept |-> limits.kept \union {k},
            count |-> count]
    BY <1>1, <1>3 DEF LimiterOf, Limits
  <2> HIDE DEF count
  <2> QED BY <1>1, <2>4, <2>5 DEF Limits
<1> QED BY <1>2, <1>3

\* A consume raises the counts of one client at the limiter it names.
LEMMA ConsumeCounts ==
    ASSUME NEW l \in Limits, NEW k \in Limiters, NEW ip \in Ips, NEW answer
    PROVE  /\ Consume(l, k, ip, answer) \in Limits
           /\ Consume(l, k, ip, answer).kept = l.kept
           /\ \A s \in Stores, m \in Limiters, jp \in Ips :
                 Consume(l, k, ip, answer).count[s][m][jp] =
                    IF s \in Counting(l, answer) /\ m = k /\ jp = ip
                    THEN Raised(l.count[s][m][jp], k.points)
                    ELSE l.count[s][m][jp]
<1> DEFINE raised(s) == [l.count[s] EXCEPT ![k][ip] = Raised(@, k.points)]
           count == [s \in Stores |-> IF s \in Counting(l, answer)
                                      THEN raised(s) ELSE l.count[s]]
<1>1. l.count \in [Stores -> [Limiters -> [Ips -> Nat]]]
  BY DEF Limits, Counts
<1>2. ASSUME NEW s \in Stores
      PROVE  /\ raised(s) \in [Limiters -> [Ips -> Nat]]
             /\ \A m \in Limiters, jp \in Ips :
                   raised(s)[m][jp] = IF m = k /\ jp = ip
                                      THEN Raised(l.count[s][m][jp], k.points)
                                      ELSE l.count[s][m][jp]
  <2>1. l.count[s] \in [Limiters -> [Ips -> Nat]]
    BY <1>1
  <2>2. Raised(l.count[s][k][ip], k.points) \in Nat
    BY <2>1 DEF Raised
  <2> QED BY <2>1, <2>2
<1> HIDE DEF raised
<1>3. count \in [Stores -> Counts]
  BY <1>1, <1>2 DEF Counts
<1>4. Consume(l, k, ip, answer) =
         [store |-> l.store, kept |-> l.kept, count |-> count]
  BY DEF Consume, Limits, raised
<1>5. \A s \in Stores, m \in Limiters, jp \in Ips :
         count[s][m][jp] =
            IF s \in Counting(l, answer) /\ m = k /\ jp = ip
            THEN Raised(l.count[s][m][jp], k.points)
            ELSE l.count[s][m][jp]
  BY <1>2
<1> HIDE DEF count
<1> QED BY <1>3, <1>4, <1>5 DEF Limits

\* An attempt: what it lets through it takes from the spare.
LEMMA CanActivateKeeps ==
    ASSUME IInv, NEW route \in Routes, NEW ip \in Ips, NEW answer \in Answers,
           CanActivate(route, ip, answer)
    PROVE  IInv'
<1> DEFINE k == Options[route]
           l == LimiterOf(limits, k)
           n == Consume(l, k, ip, answer)
<1>1. k \in Limiters /\ k.points \in Nat \ {0}
  BY PointsAreNatural DEF Limiters
<1>2. /\ limits' = n /\ windows' = windows
      /\ passed' = IF Passes(n, k, ip, answer)
                   THEN [passed EXCEPT ![k][ip] = @ + 1] ELSE passed
  BY DEF CanActivate
<1> HIDE DEF k
<1>3. /\ l \in Limits /\ k \in l.kept /\ limits.kept \subseteq l.kept
      /\ l.count = limits.count
  BY <1>1, LimiterOfKeepsCounts
<1> HIDE DEF l
<1>4. /\ n \in Limits /\ n.kept = l.kept
      /\ \A s \in Stores, m \in Limiters, jp \in Ips :
            n.count[s][m][jp] =
               IF s \in Counting(l, answer) /\ m = k /\ jp = ip
               THEN Raised(limits.count[s][m][jp], k.points)
               ELSE limits.count[s][m][jp]
  BY <1>1, <1>3, ConsumeCounts
<1>5. Judge(n, answer) \in Counting(l, answer) /\ Judge(n, answer) \in Stores
  <2>1. n.store = l.store
    BY DEF n, Consume
  <2>2. l.store \in Stores
    BY <1>3 DEF Limits
  <2> QED BY <2>1, <2>2 DEF Judge, Counting, Stores, Answers
<1> HIDE DEF n
<1>6. passed \in Counts /\ windows \in Counts
  BY DEF IInv, TypeOK
<1>7. limits.count \in [Stores -> Counts]
  BY DEF IInv, TypeOK, Limits
<1>8. passed' \in Counts
  BY <1>1, <1>2, <1>6 DEF Counts
<1>9. TypeOK'
  BY <1>2, <1>4, <1>6, <1>8 DEF TypeOK
<1>10. ASSUME NEW m \in Limiters, m \notin n.kept, NEW jp \in Ips
       PROVE  n.count["memory"][m][jp] = 0
  BY <1>3, <1>4, <1>10 DEF IInv, Stores
<1>11. ASSUME NEW m \in Limiters, NEW jp \in Ips
       PROVE  Within(m, jp)'
  <2> DEFINE r == limits.count["redis"][m][jp]
             y == limits.count["memory"][m][jp]
             rn == n.count["redis"][m][jp]
             yn == n.count["memory"][m][jp]
             bound == m.points * windows[m][jp]
  <2>1. r \in Nat /\ y \in Nat /\ m.points \in Nat \ {0}
    BY <1>7, PointsAreNatural DEF Counts, Stores
  <2>2. passed[m][jp] \in Nat /\ bound \in Nat
    <3>1. passed[m][jp] \in Nat /\ windows[m][jp] \in Nat
      BY <1>6 DEF Counts
    <3> QED BY <2>1, <3>1, AnotherWindow
  <2>3. passed[m][jp] + Spare(r, m.points) + Spare(y, m.points) <= bound
    BY DEF IInv, Within
  <2>4. /\ rn = r \/ (rn = Raised(r, m.points))
        /\ yn = y \/ (yn = Raised(y, m.points))
    BY <1>4 DEF Stores
  <2>5. CASE passed'[m][jp] = passed[m][jp]
    <3>1. /\ Spare(rn, m.points) <= Spare(r, m.points)
          /\ Spare(yn, m.points) <= Spare(y, m.points)
          /\ Spare(rn, m.points) \in Nat /\ Spare(yn, m.points) \in Nat
          /\ Spare(r, m.points) \in Nat /\ Spare(y, m.points) \in Nat
      BY <2>1, <2>4 DEF Spare, Raised
    <3> HIDE DEF r, y, rn, yn, bound
    <3>2. passed'[m][jp] + Spare(rn, m.points) + Spare(yn, m.points) <= bound
      BY <2>2, <2>3, <2>5, <3>1
    <3> QED BY <1>2, <3>2 DEF Within, rn, yn, bound
  <2>6. CASE passed'[m][jp] # passed[m][jp]
    <3>1. Passes(n, k, ip, answer) /\ m = k /\ jp = ip
      BY <1>1, <1>2, <1>6, <2>6 DEF Counts
    <3>2. passed'[m][jp] = passed[m][jp] + 1
      BY <1>1, <1>2, <1>6, <3>1 DEF Counts
    <3>3. n.count[Judge(n, answer)][m][jp] <= m.points
      BY <3>1 DEF Passes
    <3>4. \/ rn = Raised(r, m.points) /\ rn <= m.points
          \/ yn = Raised(y, m.points) /\ yn <= m.points
      BY <1>4, <1>5, <3>1, <3>3 DEF Stores
    <3>5. /\ Spare(rn, m.points) + Spare(yn, m.points) + 1
                <= Spare(r, m.points) + Spare(y, m.points)
          /\ Spare(rn, m.points) \in Nat /\ Spare(yn, m.points) \in Nat
          /\ Spare(r, m.points) \in Nat /\ Spare(y, m.points) \in Nat
      BY <2>1, <2>4, <3>4 DEF Spare, Raised
    <3> HIDE DEF r, y, rn, yn, bound
    <3>6. passed'[m][jp] + Spare(rn, m.points) + Spare(yn, m.points) <= bound
      BY <2>2, <2>3, <3>2, <3>5
    <3> QED BY <1>2, <3>6 DEF Within, rn, yn, bound
  <2> QED BY <2>5, <2>6
<1> QED BY <1>2, <1>9, <1>10, <1>11 DEF IInv

\* The spare of a window is at most its points.
LEMMA SpareIsBounded ==
    ASSUME NEW n \in Nat, NEW p \in Nat
    PROVE  Spare(n, p) \in Nat /\ Spare(n, p) <= p
BY DEF Spare

\* A busy period that starts anew has a window in each store.
LEMMA QuietIsWithin ==
    ASSUME NEW p \in Nat
    PROVE  0 + Spare(0, p) + Spare(0, p) <= p * 2
BY AnotherWindow DEF Spare

\* A window that ends gives its points back.
LEMMA WindowEndsKeeps ==
    ASSUME IInv, NEW s \in Stores, NEW k \in Limiters, NEW ip \in Ips,
           WindowEnds(s, k, ip)
    PROVE  IInv'
<1> DEFINE count == [limits.count EXCEPT ![s][k][ip] = 0]
           l == [limits EXCEPT !.count[s][k][ip] = 0]
<1>1. limits \in Limits /\ passed \in Counts /\ windows \in Counts
  BY DEF IInv, TypeOK
<1>2. limits.count \in [Stores -> [Limiters -> [Ips -> Nat]]]
  BY <1>1 DEF Limits, Counts
<1>3. /\ count \in [Stores -> Counts]
      /\ \A t \in Stores, m \in Limiters, jp \in Ips :
            count[t][m][jp] = IF t = s /\ m = k /\ jp = ip
                              THEN 0 ELSE limits.count[t][m][jp]
  BY <1>2 DEF Counts
<1>4. l = [store |-> limits.store, kept |-> limits.kept, count |-> count]
  BY <1>1 DEF Limits
<1>5. limits' = l
  BY DEF WindowEnds
<1>6. /\ passed' = IF Quiet(l, k, ip) THEN [passed EXCEPT ![k][ip] = 0] ELSE passed
      /\ windows' = [windows EXCEPT ![k][ip] =
                        IF Quiet(l, k, ip) THEN 2 ELSE @ + 1]
  BY DEF WindowEnds
<1> HIDE DEF count
<1>7. l.count = count /\ l.kept = limits.kept /\ l \in Limits
  BY <1>1, <1>3, <1>4 DEF Limits
<1> HIDE DEF l
<1>8. passed' \in Counts /\ windows' \in Counts
  BY <1>1, <1>6 DEF Counts
<1>9. TypeOK'
  BY <1>5, <1>7, <1>8 DEF TypeOK
<1>10. ASSUME NEW m \in Limiters, m \notin l.kept, NEW jp \in Ips
       PROVE  l.count["memory"][m][jp] = 0
  BY <1>3, <1>7, <1>10 DEF IInv, Stores
<1>11. ASSUME NEW m \in Limiters, NEW jp \in Ips
       PROVE  Within(m, jp)'
  <2> DEFINE r == limits.count["redis"][m][jp]
             y == limits.count["memory"][m][jp]
             rn == l.count["redis"][m][jp]
             yn == l.count["memory"][m][jp]
  <2>1. r \in Nat /\ y \in Nat /\ m.points \in Nat
    BY <1>2, PointsAreNatural DEF Stores
  <2>2. passed[m][jp] \in Nat /\ windows[m][jp] \in Nat
    BY <1>1 DEF Counts
  <2>3. passed[m][jp] + Spare(r, m.points) + Spare(y, m.points)
           <= m.points * windows[m][jp]
    BY DEF IInv, Within
  <2>4. CASE ~(m = k /\ jp = ip)
    <3>1. passed'[m][jp] = passed[m][jp] /\ windows'[m][jp] = windows[m][jp]
      BY <1>1, <1>6, <2>4 DEF Counts
    <3>2. rn = r /\ yn = y
      BY <1>3, <1>7, <2>4 DEF Stores
    <3> HIDE DEF r, y, rn, yn
    <3>3. passed'[m][jp] + Spare(rn, m.points) + Spare(yn, m.points)
             <= m.points * windows'[m][jp]
      BY <2>3, <3>1, <3>2
    <3> QED BY <1>5, <3>3 DEF Within, rn, yn
  <2>5. CASE m = k /\ jp = ip /\ Quiet(l, k, ip)
    <3>1. passed'[m][jp] = 0 /\ windows'[m][jp] = 2
      BY <1>1, <1>6, <2>5 DEF Counts
    <3>2. rn = 0 /\ yn = 0
      BY <2>5 DEF Quiet, Stores
    <3> HIDE DEF rn, yn
    <3>3. passed'[m][jp] + Spare(rn, m.points) + Spare(yn, m.points)
             <= m.points * windows'[m][jp]
      BY <2>1, <3>1, <3>2, QuietIsWithin
    <3> QED BY <1>5, <3>3 DEF Within, rn, yn
  <2>6. CASE m = k /\ jp = ip /\ ~Quiet(l, k, ip)
    <3> DEFINE bound == m.points * windows[m][jp]
    <3>1. /\ passed'[m][jp] = passed[m][jp]
          /\ windows'[m][jp] = windows[m][jp] + 1
      BY <1>1, <1>6, <2>6 DEF Counts
    <3>2. \/ rn = r /\ yn = 0
          \/ rn = 0 /\ yn = y
      BY <1>3, <1>7, <2>6 DEF Stores
    <3>3. bound \in Nat /\ m.points * windows'[m][jp] = bound + m.points
      BY <2>1, <2>2, <3>1, AnotherWindow
    <3> HIDE DEF r, y, rn, yn, bound
    <3>4. /\ Spare(r, m.points) \in Nat /\ Spare(y, m.points) \in Nat
          /\ Spare(0, m.points) \in Nat /\ Spare(0, m.points) <= m.points
      BY <2>1, SpareIsBounded
    <3>5. passed[m][jp] + Spare(r, m.points) + Spare(y, m.points) <= bound
      BY <2>3 DEF bound
    <3>6. passed'[m][jp] + Spare(rn, m.points) + Spare(yn, m.points)
             <= m.points * windows'[m][jp]
      BY <2>1, <2>2, <3>1, <3>2, <3>3, <3>4, <3>5
    <3> QED BY <1>5, <3>6 DEF Within, rn, yn
  <2> QED BY <2>4, <2>5, <2>6
<1> QED BY <1>5, <1>9, <1>10, <1>11 DEF IInv

\* A restart ends every window in memory at once.
LEMMA RestartKeeps ==
    ASSUME IInv, NEW store \in Stores, Restart(store)
    PROVE  IInv'
<1> DEFINE l == NewService(store, limits.count["redis"])
<1>1. limits \in Limits /\ passed \in Counts /\ windows \in Counts
  BY DEF IInv, TypeOK
<1>2. limits.count \in [Stores -> Counts]
  BY <1>1 DEF Limits
<1>3. Zero \in Counts
  BY DEF Zero, Counts
<1>4. /\ l \in Limits /\ l.count["redis"] = limits.count["redis"]
      /\ l.count["memory"] = Zero
  BY <1>2, <1>3 DEF NewService, Limits, Stores
<1>5. /\ limits' = l
      /\ passed' = [m \in Limiters |-> [jp \in Ips |->
                       IF Quiet(l, m, jp) THEN 0 ELSE passed[m][jp]]]
      /\ windows' = [m \in Limiters |-> [jp \in Ips |->
                        IF Quiet(l, m, jp) THEN 2 ELSE windows[m][jp] + 1]]
  BY DEF Restart
<1> HIDE DEF l
<1>6. passed' \in Counts /\ windows' \in Counts
  BY <1>1, <1>5 DEF Counts
<1>7. TypeOK'
  BY <1>4, <1>5, <1>6 DEF TypeOK
<1>8. ASSUME NEW m \in Limiters, NEW jp \in Ips
      PROVE  l.count["memory"][m][jp] = 0 /\ Within(m, jp)'
  <2> DEFINE r == limits.count["redis"][m][jp]
             y == limits.count["memory"][m][jp]
             rn == l.count["redis"][m][jp]
             yn == l.count["memory"][m][jp]
  <2>1. r \in Nat /\ y \in Nat /\ m.points \in Nat
    BY <1>2, PointsAreNatural DEF Counts, Stores
  <2>2. passed[m][jp] \in Nat /\ windows[m][jp] \in Nat
    BY <1>1 DEF Counts
  <2>3. rn = r /\ yn = 0
    BY <1>4 DEF Zero
  <2>4. CASE Quiet(l, m, jp)
    <3>1. passed'[m][jp] = 0 /\ windows'[m][jp] = 2
      BY <1>5, <2>4
    <3>2. rn = 0
      BY <2>4 DEF Quiet, Stores
    <3> HIDE DEF rn, yn
    <3>3. passed'[m][jp] + Spare(rn, m.points) + Spare(yn, m.points)
             <= m.points * windows'[m][jp]
      BY <2>1, <2>3, <3>1, <3>2, QuietIsWithin
    <3> QED BY <1>5, <2>3, <3>3 DEF Within, rn, yn
  <2>5. CASE ~Quiet(l, m, jp)
    <3> DEFINE bound == m.points * windows[m][jp]
    <3>1. /\ passed'[m][jp] = passed[m][jp]
          /\ windows'[m][jp] = windows[m][jp] + 1
      BY <1>5, <2>5
    <3>2. bound \in Nat /\ m.points * windows'[m][jp] = bound + m.points
      BY <2>1, <2>2, <3>1, AnotherWindow
    <3>3. passed[m][jp] + Spare(r, m.points) + Spare(y, m.points) <= bound
      BY DEF IInv, Within
    <3> HIDE DEF r, y, rn, yn, bound
    <3>4. /\ Spare(r, m.points) \in Nat /\ Spare(y, m.points) \in Nat
          /\ Spare(0, m.points) \in Nat /\ Spare(0, m.points) <= m.points
      BY <2>1, SpareIsBounded
    <3>5. passed'[m][jp] + Spare(rn, m.points) + Spare(yn, m.points)
             <= m.points * windows'[m][jp]
      BY <2>1, <2>2, <2>3, <3>1, <3>2, <3>3, <3>4
    <3> QED BY <1>5, <2>3, <3>5 DEF Within, rn, yn
  <2> QED BY <2>4, <2>5
<1> QED BY <1>5, <1>7, <1>8 DEF IInv

\* A service that has just been constructed lets nothing through yet.
LEMMA InitIsWithin == Init => IInv
<1> SUFFICES ASSUME Init PROVE IInv
  OBVIOUS
<1>1. Zero \in Counts
  BY DEF Zero, Counts
<1>2. PICK store \in Stores : limits = NewService(store, Zero)
  BY DEF Init
<1>3. /\ limits \in Limits /\ limits.count["redis"] = Zero
      /\ limits.count["memory"] = Zero
  BY <1>1, <1>2 DEF NewService, Limits, Stores
<1>4. passed = Zero /\ windows = [k \in Limiters |-> [ip \in Ips |-> 2]]
  BY DEF Init
<1>5. TypeOK
  BY <1>1, <1>3, <1>4 DEF TypeOK, Counts
<1>6. ASSUME NEW k \in Limiters, NEW ip \in Ips
      PROVE  limits.count["memory"][k][ip] = 0 /\ Within(k, ip)
  <2>1. /\ limits.count["redis"][k][ip] = 0
        /\ limits.count["memory"][k][ip] = 0
        /\ passed[k][ip] = 0 /\ windows[k][ip] = 2
    BY <1>3, <1>4 DEF Zero
  <2>2. k.points \in Nat
    BY PointsAreNatural
  <2> QED BY <2>1, <2>2, QuietIsWithin DEF Within
<1> QED BY <1>5, <1>6 DEF IInv

\* What has passed, and what may still, stays within the windows' points.
THEOREM SpareInvariant == Spec => []IInv
<1>1. IInv /\ [Next]_vars => IInv'
  <2> SUFFICES ASSUME IInv, [Next]_vars PROVE IInv'
    OBVIOUS
  <2>1. CASE \E route \in Routes, ip \in Ips, answer \in Answers :
                CanActivate(route, ip, answer)
    BY <2>1, CanActivateKeeps
  <2>2. CASE \E s \in Stores, k \in Limiters, ip \in Ips : WindowEnds(s, k, ip)
    BY <2>2, WindowEndsKeeps
  <2>3. CASE \E store \in Stores : Restart(store)
    BY <2>3, RestartKeeps
  <2>4. CASE UNCHANGED vars
    BY <2>4 DEF vars, IInv, TypeOK, Within
  <2> QED BY <2>1, <2>2, <2>3, <2>4 DEF Next
<1> QED BY <1>1, InitIsWithin, PTL DEF Spec

\* The counts are natural numbers, for each limiter and address.
THEOREM TypeCorrect == Spec => []TypeOK
<1>1. IInv => TypeOK
  BY DEF IInv
<1> QED BY <1>1, SpareInvariant, PTL

\* RateLimitGuard lets no client pass more often than the points of its route
\* for each window, for any routes that share limiters, any failures of Redis
\* and any restarts.
THEOREM LimitHolds == Spec => []AttemptsAreLimited
<1>1. IInv => AttemptsAreLimited
  <2> SUFFICES ASSUME IInv, NEW k \in Limiters, NEW ip \in Ips
               PROVE  passed[k][ip] <= k.points * windows[k][ip]
    BY DEF AttemptsAreLimited
  <2> DEFINE bound == k.points * windows[k][ip]
             r == Spare(limits.count["redis"][k][ip], k.points)
             y == Spare(limits.count["memory"][k][ip], k.points)
  <2>1. /\ passed[k][ip] \in Nat /\ windows[k][ip] \in Nat
        /\ k.points \in Nat
        /\ limits.count["redis"][k][ip] \in Nat
        /\ limits.count["memory"][k][ip] \in Nat
    BY PointsAreNatural DEF IInv, TypeOK, Limits, Counts, Stores
  <2>2. bound \in Nat /\ r \in Nat /\ y \in Nat
    BY <2>1, AnotherWindow, SpareIsBounded
  <2>3. passed[k][ip] + r + y <= bound
    BY DEF IInv, Within
  <2> HIDE DEF bound, r, y
  <2>4. passed[k][ip] <= bound
    BY <2>1, <2>2, <2>3
  <2> QED BY <2>4 DEF bound
<1> QED BY <1>1, SpareInvariant, PTL
===============================================================================
