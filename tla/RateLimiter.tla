------------------------------ MODULE RateLimiter ------------------------------
(***************************************************************************)
(* RateLimitGuard and RateLimitService: one limiter per (points, duration),*)
(* made when it is first consumed and kept in a Map, so that routes with   *)
(* the same options share it.  A limiter counts attempts per client        *)
(* address in Redis and, when Redis rejects, in the memory of its          *)
(* insurance limiter; or in memory alone if Redis was not ready when the   *)
(* service was constructed.                                                *)
(*                                                                         *)
(* rate-limiter-flexible is external: a consume adds one to the count of   *)
(* the running window and rejects when that exceeds the points; a window   *)
(* begins with its first attempt and ends some time later.                 *)
(***************************************************************************)
EXTENDS Naturals

CONSTANTS
    Ips,
    Routes,      \* the routes with a RateLimit
    Options,     \* Options[route]: the points and duration it asks for
    MaxWindows   \* bound on the windows of one busy period

ASSUME LimiterAssumption ==
    /\ Options \in [Routes -> [points : Nat \ {0}, duration : Nat]]
    /\ MaxWindows \in Nat

VARIABLES
    limits,  \* the limiters and their counts
    passed,  \* passed[k][ip]: attempts let through in this busy period, and
    windows  \* windows[k][ip]: windows it may have drawn on (history variables)

vars == <<limits, passed, windows>>

Limiters == {Options[route] : route \in Routes}
Stores   == {"redis", "memory"}
Answers  == {"counted", "lost", "failed"}  \* what Redis does with a consume;
                                           \* "lost": counted, then rejected
Counts   == [Limiters -> [Ips -> Nat]]
Zero     == [k \in Limiters |-> [ip \in Ips |-> 0]]

Limits == [store : Stores,  \* chosen by the constructor
           kept  : SUBSET Limiters,
           count : [Stores -> Counts]]

NewService(store, redis) ==
    [store |-> store, kept |-> {},
     count |-> [s \in Stores |-> IF s = "redis" THEN redis ELSE Zero]]

\* Mutant: the limiter is not kept in the Map.
LimiterAnew(l, k) == [l EXCEPT !.count["memory"][k] = [ip \in Ips |-> 0]]

LimiterOf(l, k) ==
    IF k \in l.kept THEN l
    ELSE [l EXCEPT !.kept = @ \union {k},
                   !.count["memory"][k] = [ip \in Ips |-> 0]]

\* The stores that count an attempt, and the one that judges it.
Counting(l, answer) ==
    {s \in Stores : IF s = "redis"
                    THEN l.store = "redis" /\ answer # "failed"
                    ELSE l.store = "memory" \/ answer # "counted"}

Judge(l, answer) ==
    IF l.store = "redis" /\ answer = "counted" THEN "redis" ELSE "memory"

\* Counts beyond the points are alike.
Raised(n, points) == IF n > points THEN n ELSE n + 1

Consume(l, k, ip, answer) ==
    [l EXCEPT !.count =
        [s \in Stores |->
            IF s \in Counting(l, answer)
            THEN [l.count[s] EXCEPT ![k][ip] = Raised(@, k.points)]
            ELSE l.count[s]]]

Passes(l, k, ip, answer) == l.count[Judge(l, answer)][k][ip] <= k.points

\* No window is running.
Quiet(l, k, ip) == \A s \in Stores : l.count[s][k][ip] = 0

Init == /\ \E store \in Stores : limits = NewService(store, Zero)
        /\ passed = Zero
        /\ windows = [k \in Limiters |-> [ip \in Ips |-> 2]]

\* Any error of the limiter refuses as well, with the same 429; but Redis's
\* errors do not reach the guard.
CanActivate(route, ip, answer) ==
    LET k == Options[route]
        l == Consume(LimiterOf(limits, k), k, ip, answer)
    IN  /\ limits' = l
        /\ passed' = IF Passes(l, k, ip, answer)
                     THEN [passed EXCEPT ![k][ip] = @ + 1] ELSE passed
        /\ UNCHANGED windows

\* A busy period of a client ends when all its windows have.
WindowEnds(s, k, ip) ==
    LET l == [limits EXCEPT !.count[s][k][ip] = 0] IN
    /\ limits.count[s][k][ip] > 0
    /\ Quiet(l, k, ip) \/ windows[k][ip] < MaxWindows
    /\ limits' = l
    /\ passed' = IF Quiet(l, k, ip) THEN [passed EXCEPT ![k][ip] = 0]
                 ELSE passed
    /\ windows' = [windows EXCEPT ![k][ip] = IF Quiet(l, k, ip) THEN 2 ELSE @ + 1]

\* The counts in Redis outlive the process; those in memory do not.
Restart(store) ==
    LET l == NewService(store, limits.count["redis"]) IN
    /\ \A k \in Limiters, ip \in Ips :
          Quiet(l, k, ip) \/ windows[k][ip] < MaxWindows
    /\ limits' = l
    /\ passed' = [k \in Limiters |-> [ip \in Ips |->
                     IF Quiet(l, k, ip) THEN 0 ELSE passed[k][ip]]]
    /\ windows' = [k \in Limiters |-> [ip \in Ips |->
                      IF Quiet(l, k, ip) THEN 2 ELSE windows[k][ip] + 1]]

Next == \/ \E route \in Routes, ip \in Ips, answer \in Answers :
              CanActivate(route, ip, answer)
        \/ \E s \in Stores, k \in Limiters, ip \in Ips : WindowEnds(s, k, ip)
        \/ \E store \in Stores : Restart(store)

Spec == Init /\ [][Next]_vars

-----------------------------------------------------------------------------
TypeOK ==
    /\ limits \in Limits
    /\ passed \in Counts
    /\ windows \in Counts

\* Whatever Redis does, however windows of the two stores overlap and whenever
\* the process restarts, a client passes no more often than the points for each
\* window: one in each store to begin with, and another for each that ended or
\* was lost while the client stayed busy.
AttemptsAreLimited ==
    \A k \in Limiters, ip \in Ips : passed[k][ip] <= k.points * windows[k][ip]
===============================================================================
