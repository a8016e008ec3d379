---------------------------- MODULE ListingsProofs -----------------------------
(***************************************************************************)
(* The listings keep what they promise for any users, entries, walks and   *)
(* page sizes.  A walk is described by its cursor: what it has been given  *)
(* is no older, and what it has not been given although it was there is    *)
(* either no newer or shares its timestamp with a cursor.                  *)
(***************************************************************************)
EXTENDS Listings, TLAPS, FiniteSetTheorems

WalkType ==
    [at : Step, email : Users \union {Anyone}, actor : Users \union {Anyone},
     cursor : Entries \union {NoEntry}, next : Entries \union {NoEntry},
     page : SUBSET Entries, named : SUBSET Entries, seen : SUBSET Entries,
     standing : SUBSET Entries, cursors : SUBSET Entries,
     twice : SUBSET Entries]

ListerType == [at : Load, page : PageNumbers \union {0},
               users : SUBSET Users, total : Nat, from : Nat]

\* An entry of the trail is stamped, by somebody with an account.
Stamped == /\ arriving \subseteq Entries /\ log \subseteq Entries
           /\ arriving \intersect log = {}
           /\ \A e \in arriving \union log :
                 /\ stamped[e] \in Row
                 /\ \A u \in Users : u = stamped[e].actor => Exists(u)

\* e shares its timestamp with a cursor of the walk.
TiedIn(k, e) == \E c \in k.cursors : Tied(e, c)

\* With c as its cursor, a walk has been given nothing older than c, and only
\* what is no newer is still to come.
Past(k, c) ==
    IF c = NoEntry THEN k.seen = {}
    ELSE /\ \A e \in k.seen : NoOlder(e, c)
         /\ \A e \in k.standing : NoOlder(c, e) \/ e \in k.seen \/ TiedIn(k, e)

\* The page that has been found continues the walk from its cursor to the next.
Continues(k) ==
    /\ k.cursor # NoEntry => \A e \in k.page : NoOlder(k.cursor, e)
    /\ IF k.next = NoEntry
       THEN \A e \in k.standing : e \in k.page \union k.seen \/ TiedIn(k, e)
       ELSE /\ k.next \in k.page
            /\ \A e \in k.page : NoOlder(e, k.next)
            /\ \A e \in k.standing : \/ NoOlder(k.next, e) \/ TiedIn(k, e)
                                     \/ e \in k.page \union k.seen

\* What a walk knows is in the trail, and answers what was asked.
Matches(k) ==
    /\ k.page \subseteq log /\ k.seen \subseteq log /\ k.standing \subseteq log
    /\ k.cursors \subseteq log /\ k.twice \subseteq log
    /\ k.cursor \in k.cursors \union {NoEntry}
    /\ IsFiniteSet(k.page) /\ Cardinality(k.page) <= Limit
    /\ \A e \in k.page \union k.standing : Satisfies(e, k.email)
    /\ k.at = "resolve" => k.email # Anyone
    /\ k.at \in {"find", "name"} => k.actor = k.email
    /\ k.at \in {"idle", "resolve", "find"} => k.page = {}
    /\ k.at \in {"paged", "done"} => k.page \subseteq k.named

\* Where a walk stands.
Stands(k) ==
    /\ \A e \in k.twice : TiedIn(k, e)
    /\ k.at \in Asking => Past(k, k.cursor)
    /\ k.at = "name" => Continues(k)
    /\ k.at = "paged" => k.next \in k.cursors /\ Past(k, k.next)
    /\ k.at = "done" => \A e \in k.standing \ k.seen : TiedIn(k, e)

WalkInv == \A w \in Walks, k \in WalkType :
              k = walk[w] => Matches(k) /\ Stands(k)

\* What a request has read of the users table was so since it began.
ReadSince(q) ==
    /\ q.from <= Len(accounts)
    /\ q.at # "idle" => q.page \in PageNumbers
    /\ q.at \in {"count", "set", "done"} =>
          \E n \in q.from .. Len(accounts) :
             UsersOn(Table(n), q.page, q.users)
    /\ q.at \in {"set", "done"} => q.total \in q.from .. Len(accounts)

ListerInv == \A r \in Listers, q \in ListerType : q = lister[r] => ReadSince(q)

\* The users of the table have been made.
Born == /\ DOMAIN born \subseteq Users /\ born \in [DOMAIN born -> Nat]
        /\ Table(Len(accounts)) \subseteq DOMAIN born

Tables == /\ now \in Nat
          /\ accounts \in Seq(Users) /\ Born
          /\ stamped \in [Entries -> Row \union {NoEntry}]
          /\ walk \in [Walks -> WalkType]
          /\ cached \in [PageNumbers -> (SUBSET Users) \union {NoPage}]
          /\ lister \in [Listers -> ListerType]

IInv == Tables /\ Stamped /\ WalkInv /\ ListerInv

-----------------------------------------------------------------------------
(* Walks                                                                   *)

\* The trail only grows, and what is in it keeps its stamp: where a walk
\* stands depends on nothing else.
LEMMA StandsStill ==
    ASSUME NEW k \in WalkType, Matches(k), Stands(k), log \subseteq log',
           \A e \in log : stamped'[e] = stamped[e]
    PROVE  Matches(k)' /\ Stands(k)'
<1>1. /\ k.page \subseteq log /\ k.seen \subseteq log /\ k.standing \subseteq log
      /\ k.cursors \subseteq log /\ k.twice \subseteq log
      /\ k.cursor \in k.cursors \union {NoEntry}
  BY DEF Matches
<1>2. Matches(k)'
  BY DEF Matches, Satisfies
<1>3. \A e \in log, c \in log : /\ NoOlder(e, c)' <=> NoOlder(e, c)
                                /\ Tied(e, c)' <=> Tied(e, c)
  BY DEF NoOlder, Tied
<1>4. \A e \in log : TiedIn(k, e) => TiedIn(k, e)'
  BY <1>1, <1>3 DEF TiedIn
<1>5. ASSUME NEW c \in log \union {NoEntry}, Past(k, c)
      PROVE  Past(k, c)'
  BY <1>1, <1>3, <1>4, <1>5 DEF Past
<1>6. Continues(k) => Continues(k)'
  BY <1>1, <1>3, <1>4 DEF Continues
<1>7. k.at \in Asking => Past(k, k.cursor)'
  BY <1>1, <1>5 DEF Stands
<1>8. k.at = "paged" => k.next \in k.cursors /\ Past(k, k.next)'
  BY <1>1, <1>5 DEF Stands
<1>9. \A e \in k.twice : TiedIn(k, e)'
  BY <1>1, <1>4 DEF Stands
<1>10. k.at = "done" => \A e \in k.standing \ k.seen : TiedIn(k, e)'
  BY <1>1, <1>4 DEF Stands
<1>11. k.at = "name" => Continues(k)'
  BY <1>6 DEF Stands
<1> QED BY <1>2, <1>7, <1>8, <1>9, <1>10, <1>11 DEF Stands

LEMMA WalksAreKept ==
    ASSUME walk \in [Walks -> WalkType], WalkInv, walk' = walk,
           log \subseteq log', \A e \in log : stamped'[e] = stamped[e]
    PROVE  (walk \in [Walks -> WalkType])' /\ WalkInv'
BY StandsStill DEF WalkInv

\* A step of one walk moves that walk only.
LEMMA WalkSteps ==
    ASSUME walk \in [Walks -> WalkType], WalkInv,
           log' = log, stamped' = stamped, NEW w \in Walks, NEW k \in WalkType,
           Matches(k), Stands(k), walk' = [walk EXCEPT ![w] = k]
    PROVE  (walk \in [Walks -> WalkType])' /\ WalkInv'
<1>1. walk' \in [Walks -> WalkType]
  OBVIOUS
<1>2. ASSUME NEW v \in Walks, NEW j \in WalkType, j = walk'[v]
      PROVE  Matches(j)' /\ Stands(j)'
  <2>1. CASE v = w
    BY <1>2, <2>1, StandsStill
  <2>2. CASE v # w
    <3>1. Matches(j) /\ Stands(j)
      BY <1>2, <2>2 DEF WalkInv
    <3> QED BY <3>1, StandsStill
  <2> QED BY <2>1, <2>2
<1> QED BY <1>1, <1>2 DEF WalkInv

\* No older is a linear order of the trail, up to ties.
LEMMA TrailIsOrdered ==
    ASSUME Stamped
    PROVE  \A e \in log, f \in log :
              /\ NoOlder(e, f) \/ NoOlder(f, e)
              /\ NoOlder(e, f) /\ NoOlder(f, e) => Tied(e, f)
              /\ \A g \in log : NoOlder(e, f) /\ NoOlder(f, g) => NoOlder(e, g)
<1>1. \A e \in log : stamped[e].createdAt \in Nat
  BY DEF Stamped, Row
<1> QED BY <1>1 DEF NoOlder, Tied

\* A client begins with nothing, and all that is asked for still to come.
LEMMA BeginKeeps ==
    ASSUME Tables, Stamped, WalkInv, NEW w \in Walks,
           NEW email \in Users \union {Anyone}, Begin(w, email)
    PROVE  (walk \in [Walks -> WalkType])' /\ WalkInv'
<1>1. PICK k : k = [NewWalk EXCEPT !.at = FirstStep(email), !.email = email,
                       !.standing = {e \in log : Satisfies(e, email)}]
  OBVIOUS
<1>2. /\ k = [at |-> FirstStep(email), email |-> email, actor |-> Anyone,
              cursor |-> NoEntry, next |-> NoEntry, page |-> {}, named |-> {},
              seen |-> {}, standing |-> {e \in log : Satisfies(e, email)},
              cursors |-> {}, twice |-> {}]
  BY <1>1 DEF NewWalk
<1>3. k.at \in {"find", "resolve"} /\ (k.at = "find" <=> email = Anyone)
  BY <1>2 DEF FirstStep
<1>4. k \in WalkType
  BY <1>2, <1>3 DEF WalkType, Step, Stamped
<1>5. Matches(k)
  <2>1. IsFiniteSet(k.page) /\ Cardinality(k.page) <= Limit
    BY <1>2, FS_EmptySet, ListingsAssumption
  <2> QED BY <1>2, <1>3, <2>1 DEF Matches
<1>6. Stands(k)
  BY <1>2, <1>3 DEF Stands, Past, Asking
<1>7. walk' = [walk EXCEPT ![w] = k] /\ log' = log /\ stamped' = stamped
  BY <1>1 DEF Begin
<1> QED BY <1>4, <1>5, <1>6, <1>7, WalkSteps DEF Tables

\* Whoever wrote something that was asked for has an account.
LEMMA ResolveActorKeeps ==
    ASSUME Tables, Stamped, WalkInv, NEW w \in Walks, ResolveActor(w)
    PROVE  (walk \in [Walks -> WalkType])' /\ WalkInv'
<1> DEFINE j == walk[w]
<1>1. j \in WalkType /\ Matches(j) /\ Stands(j) /\ j.at = "resolve"
  BY DEF Tables, WalkInv, ResolveActor
<1>2. log' = log /\ stamped' = stamped
  BY DEF ResolveActor
<1>3. CASE Exists(j.email)
  <2>1. PICK k : k = [j EXCEPT !.at = "find", !.actor = j.email]
    OBVIOUS
  <2>2. walk' = [walk EXCEPT ![w] = k]
    BY <1>3, <2>1 DEF ResolveActor, Tables
  <2> HIDE DEF j
  <2>3. k \in WalkType /\ k.at = "find" /\ k.actor = j.email
        /\ k.email = j.email /\ k.page = j.page /\ k.seen = j.seen
        /\ k.standing = j.standing /\ k.cursors = j.cursors
        /\ k.twice = j.twice /\ k.cursor = j.cursor
    BY <1>1, <2>1 DEF WalkType, Step
  <2>4. Matches(k)
    BY <1>1, <2>3 DEF Matches
  <2>5. Stands(k)
    BY <1>1, <2>3 DEF Stands, Past, TiedIn, Asking
  <2> QED BY <1>2, <2>2, <2>3, <2>4, <2>5, WalkSteps DEF Tables
<1>4. CASE ~Exists(j.email)
  <2>1. PICK k : k = [j EXCEPT !.at = "done"]
    OBVIOUS
  <2>2. walk' = [walk EXCEPT ![w] = k]
    BY <1>4, <2>1 DEF ResolveActor, Tables
  <2> HIDE DEF j
  <2>3. k \in WalkType /\ k.at = "done" /\ k.actor = j.actor
        /\ k.email = j.email /\ k.page = j.page /\ k.seen = j.seen
        /\ k.standing = j.standing /\ k.cursors = j.cursors
        /\ k.twice = j.twice /\ k.cursor = j.cursor
    BY <1>1, <2>1 DEF WalkType, Step
  <2>4. Matches(k)
    BY <1>1, <2>3 DEF Matches
  <2>5. j.standing = {}
    <3> SUFFICES ASSUME NEW e \in j.standing PROVE FALSE
      OBVIOUS
    <3>1. e \in log /\ Satisfies(e, j.email) /\ j.email # Anyone
      BY <1>1 DEF Matches
    <3>2. Exists(stamped[e].actor)
      BY <3>1 DEF Stamped, Row
    <3> QED BY <1>4, <3>1, <3>2 DEF Satisfies
  <2>6. Stands(k)
    BY <1>1, <2>3, <2>5 DEF Stands, TiedIn, Asking
  <2> QED BY <1>2, <2>2, <2>3, <2>4, <2>6, WalkSteps DEF Tables
<1> QED BY <1>3, <1>4

\* What has not been given although it was there comes after the cursor, or is
\* the cursor, or has its timestamp.
LEMMA StandingFollows ==
    ASSUME Stamped, NEW j \in WalkType, Matches(j), Past(j, j.cursor),
           NEW rows, rows = {e \in log : Satisfies(e, j.email)},
           NEW after, Following(rows, j.cursor, after)
    PROVE  \A e \in j.standing : e \in after \union j.seen \/ TiedIn(j, e)
<1> SUFFICES ASSUME NEW e \in j.standing, e \notin j.seen, ~TiedIn(j, e)
             PROVE  e \in after
  OBVIOUS
<1>1. e \in rows /\ e \in log
  BY DEF Matches
<1>2. CASE j.cursor = NoEntry
  BY <1>1, <1>2 DEF Following
<1>3. CASE j.cursor # NoEntry
  <2>1. j.cursor \in j.cursors /\ j.cursor \in log
    BY <1>3 DEF Matches
  <2>2. NoOlder(j.cursor, e)
    BY <1>3 DEF Past
  <2>3. ~Tied(e, j.cursor)
    BY <2>1 DEF TiedIn
  <2>4. ~NoOlder(e, j.cursor)
    BY <1>1, <2>1, <2>2, <2>3, TrailIsOrdered
  <2>5. e # j.cursor
    BY <2>3 DEF Tied
  <2> QED BY <1>1, <1>3, <2>4, <2>5 DEF Following
<1> QED BY <1>2, <1>3

\* The page continues the walk, whichever order the rows come in.
LEMMA FindManyKeeps ==
    ASSUME Tables, Stamped, WalkInv, NEW w \in Walks, FindMany(w)
    PROVE  (walk \in [Walks -> WalkType])' /\ WalkInv'
<1> DEFINE j == walk[w]
<1>1. j \in WalkType /\ Matches(j) /\ Stands(j) /\ j.at = "find"
  BY DEF Tables, WalkInv, FindMany
<1>2. PICK page \in SUBSET log, next \in log \union {NoEntry} :
         /\ Found(w, Limit, page, next)
         /\ walk' = [walk EXCEPT ![w].at = "name", ![w].page = page,
                                 ![w].next = next]
  BY DEF FindMany
<1>3. PICK k : k = [j EXCEPT !.at = "name", !.page = page, !.next = next]
  OBVIOUS
<1>4. walk' = [walk EXCEPT ![w] = k] /\ log' = log /\ stamped' = stamped
  BY <1>2, <1>3 DEF FindMany, Tables
<1>5. PICK rows : rows = {e \in log : Satisfies(e, j.email)}
  OBVIOUS
<1>6. PICK after \in SUBSET rows :
         /\ Following(rows, j.cursor, after)
         /\ First(after, Limit, page)
         /\ IF Cardinality(after) > Limit
            THEN next \in page /\ \A e \in page : NoOlder(e, next)
            ELSE next = NoEntry
  <2>1. j.actor = j.email
    BY <1>1 DEF Matches
  <2> QED BY <1>2, <1>5, <2>1 DEF Found
<1> HIDE DEF j
<1>7. /\ k \in WalkType /\ k.at = "name" /\ k.page = page /\ k.next = next
      /\ k.actor = j.actor /\ k.email = j.email /\ k.seen = j.seen
      /\ k.standing = j.standing /\ k.cursors = j.cursors
      /\ k.twice = j.twice /\ k.cursor = j.cursor
  BY <1>1, <1>3 DEF WalkType, Step, Stamped
<1>8. /\ page \subseteq after /\ after \subseteq log
      /\ \A e \in after : Satisfies(e, j.email)
  BY <1>5, <1>6 DEF First
<1>9. /\ IsFiniteSet(after) /\ Cardinality(after) \in Nat
      /\ IsFiniteSet(page) /\ Cardinality(page) <= Limit
      /\ next = NoEntry => page = after
  <2>1. IsFiniteSet(after) /\ IsFiniteSet(page)
    BY <1>8, FS_Subset, ListingsAssumption DEF Stamped
  <2>2. Cardinality(after) \in Nat /\ Cardinality(page) \in Nat
    BY <2>1, FS_CardinalityType
  <2>3. Cardinality(page) = IF Cardinality(after) < Limit
                            THEN Cardinality(after) ELSE Limit
    BY <1>6 DEF First
  <2>4. Limit \in Nat
    BY ListingsAssumption
  <2>5. next = NoEntry => Cardinality(after) <= Limit
    BY <1>6, <2>2, <2>4, ListingsAssumption DEF Stamped
  <2>6. next = NoEntry => Cardinality(page) = Cardinality(after)
    BY <2>2, <2>3, <2>4, <2>5
  <2>7. next = NoEntry => page = after
    BY <1>8, <2>1, <2>6, FS_Subset
  <2> QED BY <2>1, <2>2, <2>3, <2>4, <2>7
<1>10. Matches(k)
  BY <1>1, <1>7, <1>8, <1>9 DEF Matches
<1>11. \A e \in k.standing : e \in after \union k.seen \/ TiedIn(k, e)
  <2>1. Past(j, j.cursor)
    BY <1>1 DEF Stands, Asking
  <2> QED BY <1>1, <1>5, <1>6, <1>7, <2>1, StandingFollows DEF TiedIn
<1>12. Continues(k)
  <2>1. k.cursor # NoEntry => \A e \in k.page : NoOlder(k.cursor, e)
    BY <1>6, <1>7, <1>8 DEF Following
  <2>2. CASE next = NoEntry
    BY <1>7, <1>9, <1>11, <2>1, <2>2 DEF Continues
  <2>3. CASE next # NoEntry
    <3>1. next \in page /\ \A e \in page : NoOlder(e, next)
      BY <1>6, <2>3
    <3>2. \A e \in after \ page : NoOlder(next, e)
      BY <1>6, <3>1 DEF First
    <3> QED BY <1>7, <1>11, <2>1, <2>3, <3>1, <3>2 DEF Continues
  <2> QED BY <2>2, <2>3
<1>13. Stands(k)
  BY <1>1, <1>7, <1>12 DEF Stands, Past, TiedIn, Asking
<1> QED BY <1>4, <1>7, <1>10, <1>13, WalkSteps DEF Tables

\* An entry comes twice only with the timestamp of the cursor between.
LEMMA NameActorsKeeps ==
    ASSUME Tables, Stamped, WalkInv, NEW w \in Walks, NameActors(w)
    PROVE  (walk \in [Walks -> WalkType])' /\ WalkInv'
<1> DEFINE j == walk[w]
<1>1. j \in WalkType /\ Matches(j) /\ Stands(j) /\ j.at = "name"
  BY DEF Tables, WalkInv, NameActors
<1>2. PICK k : k = [j EXCEPT
          !.at = IF j.next = NoEntry THEN "done" ELSE "paged",
          !.named = {e \in j.page : Exists(stamped[e].actor)},
          !.seen = j.seen \union j.page,
          !.twice = j.twice \union (j.page \intersect j.seen),
          !.cursors = j.cursors \union ({j.next} \ {NoEntry})]
  OBVIOUS
<1>3. walk' = [walk EXCEPT ![w] = k]
  BY <1>1, <1>2 DEF NameActors, Tables, WalkType
<1>4. log' = log /\ stamped' = stamped
  BY DEF NameActors
<1> HIDE DEF j
<1>5. /\ k.at = IF j.next = NoEntry THEN "done" ELSE "paged"
      /\ k.named = {e \in j.page : Exists(stamped[e].actor)}
      /\ k.seen = j.seen \union j.page
      /\ k.twice = j.twice \union (j.page \intersect j.seen)
      /\ k.cursors = j.cursors \union ({j.next} \ {NoEntry})
      /\ k.page = j.page /\ k.next = j.next /\ k.actor = j.actor
      /\ k.email = j.email /\ k.standing = j.standing /\ k.cursor = j.cursor
      /\ k \in WalkType
  BY <1>1, <1>2 DEF WalkType, Step
<1>6. Continues(j) /\ Past(j, j.cursor)
  BY <1>1 DEF Stands, Asking
<1>7. /\ j.page \subseteq log /\ j.seen \subseteq log /\ j.cursors \subseteq log
      /\ j.cursor \in j.cursors \union {NoEntry} /\ j.standing \subseteq log
      /\ j.twice \subseteq log
  BY <1>1 DEF Matches
<1>8. j.next # NoEntry => j.next \in j.page
  BY <1>6 DEF Continues
<1>9. j.page \subseteq k.named
  BY <1>5, <1>7 DEF Stamped, Row
<1>10. Matches(k)
  BY <1>1, <1>5, <1>7, <1>8, <1>9 DEF Matches
<1>11. \A e : TiedIn(j, e) => TiedIn(k, e)
  BY <1>5 DEF TiedIn
<1>12. ASSUME NEW e \in j.page \intersect j.seen
       PROVE  TiedIn(k, e)
  <2>1. j.cursor # NoEntry
    BY <1>6 DEF Past
  <2>2. NoOlder(e, j.cursor) /\ NoOlder(j.cursor, e)
    BY <1>6, <2>1 DEF Past, Continues
  <2>3. Tied(e, j.cursor)
    BY <1>7, <2>1, <2>2, TrailIsOrdered
  <2> QED BY <1>5, <1>7, <2>1, <2>3 DEF TiedIn
<1>13. \A e \in k.twice : TiedIn(k, e)
  BY <1>1, <1>5, <1>11, <1>12 DEF Stands
<1>14. CASE j.next = NoEntry
  <2>1. \A e \in k.standing \ k.seen : TiedIn(k, e)
    BY <1>5, <1>6, <1>11, <1>14 DEF Continues
  <2> QED BY <1>3, <1>4, <1>5, <1>10, <1>13, <1>14, <2>1, WalkSteps
          DEF Tables, Stands, Asking
<1>15. CASE j.next # NoEntry
  <2>1. j.next \in k.cursors /\ j.next \in log
    BY <1>5, <1>7, <1>8, <1>15
  <2>2. ASSUME NEW e \in j.seen
        PROVE  NoOlder(e, j.next)
    <3>1. j.cursor # NoEntry
      BY <1>6 DEF Past
    <3>2. NoOlder(e, j.cursor) /\ NoOlder(j.cursor, j.next)
      BY <1>6, <1>8, <1>15, <3>1 DEF Past, Continues
    <3> QED BY <1>7, <2>1, <3>1, <3>2, TrailIsOrdered
  <2>3. \A e \in j.page : NoOlder(e, j.next)
    BY <1>6, <1>15 DEF Continues
  <2>4. \A e \in k.standing : NoOlder(j.next, e) \/ e \in k.seen \/ TiedIn(k, e)
    BY <1>5, <1>6, <1>11, <1>15 DEF Continues
  <2>5. Past(k, k.next)
    BY <1>5, <1>15, <2>2, <2>3, <2>4 DEF Past
  <2> QED BY <1>3, <1>4, <1>5, <1>10, <1>13, <1>15, <2>1, <2>5, WalkSteps
          DEF Tables, Stands, Asking
<1> QED BY <1>14, <1>15

\* The next cursor becomes the cursor.
LEMMA NextPageKeeps ==
    ASSUME Tables, Stamped, WalkInv, NEW w \in Walks, NextPage(w)
    PROVE  (walk \in [Walks -> WalkType])' /\ WalkInv'
<1> DEFINE j == walk[w]
<1>1. j \in WalkType /\ Matches(j) /\ Stands(j) /\ j.at = "paged"
  BY DEF Tables, WalkInv, NextPage
<1>2. PICK k : k = [j EXCEPT !.at = FirstStep(j.email), !.actor = Anyone,
                       !.cursor = j.next, !.next = NoEntry,
                       !.page = {}, !.named = {}]
  OBVIOUS
<1>3. walk' = [walk EXCEPT ![w] = k] /\ log' = log /\ stamped' = stamped
  BY <1>2 DEF NextPage, Tables
<1> HIDE DEF j
<1>4. k.at \in {"find", "resolve"} /\ (k.at = "find" <=> j.email = Anyone)
  BY <1>1, <1>2 DEF FirstStep, WalkType
<1>5. /\ k \in WalkType /\ k.actor = Anyone /\ k.cursor = j.next
      /\ k.email = j.email /\ k.page = {} /\ k.seen = j.seen
      /\ k.standing = j.standing /\ k.cursors = j.cursors /\ k.twice = j.twice
  BY <1>1, <1>2, <1>4 DEF WalkType, Step, FirstStep
<1>6. IsFiniteSet(k.page) /\ Cardinality(k.page) <= Limit
  BY <1>5, FS_EmptySet, ListingsAssumption
<1>7. j.next \in j.cursors /\ Past(j, j.next)
  BY <1>1 DEF Stands
<1>8. Matches(k)
  BY <1>1, <1>4, <1>5, <1>6, <1>7 DEF Matches
<1>9. Stands(k)
  BY <1>1, <1>4, <1>5, <1>7 DEF Stands, Past, TiedIn, Asking
<1> QED BY <1>3, <1>5, <1>8, <1>9, WalkSteps DEF Tables

\* A page that failed is asked for from the same cursor.
LEMMA RejectWalkKeeps ==
    ASSUME Tables, Stamped, WalkInv, NEW w \in Walks, RejectWalk(w)
    PROVE  (walk \in [Walks -> WalkType])' /\ WalkInv'
<1> DEFINE j == walk[w]
<1>1. j \in WalkType /\ Matches(j) /\ Stands(j) /\ j.at \in Asking
  BY DEF Tables, WalkInv, RejectWalk
<1>2. PICK k : k = [j EXCEPT !.at = FirstStep(j.email), !.actor = Anyone,
                       !.next = NoEntry, !.page = {}]
  OBVIOUS
<1>3. walk' = [walk EXCEPT ![w] = k] /\ log' = log /\ stamped' = stamped
  BY <1>2 DEF RejectWalk, Tables
<1> HIDE DEF j
<1>4. k.at \in {"find", "resolve"} /\ (k.at = "find" <=> j.email = Anyone)
  BY <1>1, <1>2 DEF FirstStep, WalkType
<1>5. /\ k \in WalkType /\ k.actor = Anyone /\ k.cursor = j.cursor
      /\ k.email = j.email /\ k.page = {} /\ k.seen = j.seen
      /\ k.standing = j.standing /\ k.cursors = j.cursors /\ k.twice = j.twice
  BY <1>1, <1>2, <1>4 DEF WalkType, Step, FirstStep
<1>6. IsFiniteSet(k.page) /\ Cardinality(k.page) <= Limit
  BY <1>5, FS_EmptySet, ListingsAssumption
<1>7. Matches(k)
  BY <1>1, <1>4, <1>5, <1>6 DEF Matches
<1>8. Stands(k)
  BY <1>1, <1>4, <1>5 DEF Stands, Past, TiedIn, Asking
<1> QED BY <1>3, <1>5, <1>7, <1>8, WalkSteps DEF Tables

-----------------------------------------------------------------------------
(* The trail                                                               *)

Trail == /\ stamped \in [Entries -> Row \union {NoEntry}]
         /\ Stamped
         /\ accounts \in Seq(Users) /\ now \in Nat

\* The trail after a step keeps what it had.
Kept == log \subseteq log' /\ \A e \in log : stamped'[e] = stamped[e]

\* Accounts are only added.
LEMMA AccountsRemain ==
    ASSUME accounts \in Seq(Users), NEW u \in Users,
           accounts' = Append(accounts, u)
    PROVE  /\ accounts' \in Seq(Users)
           /\ \A v \in Users : Exists(v) => Exists(v)'
BY DEF Exists

\* An entry is stamped when its subscriber runs, with an actor who has an
\* account by then.
LEMMA CreateAuditLogKeeps ==
    ASSUME Trail, NEW e \in Entries, NEW actor \in Users, Exists(actor),
           CreateAuditLog(e, actor), log' = log, now' = now,
           accounts' \in Seq(Users), \A v \in Users : Exists(v) => Exists(v)'
    PROVE  Trail' /\ Kept
<1>1. /\ e \notin arriving \union log
      /\ stamped' = [stamped EXCEPT ![e] = [createdAt |-> now, actor |-> actor]]
      /\ arriving' = arriving \union {e}
  BY DEF CreateAuditLog
<1>2. [createdAt |-> now, actor |-> actor] \in Row
  BY DEF Trail, Row
<1>3. stamped' \in [Entries -> Row \union {NoEntry}]
  BY <1>1, <1>2 DEF Trail
<1>4. Kept
  BY <1>1 DEF Kept, Trail, Stamped
<1>5. ASSUME NEW f \in arriving' \union log'
      PROVE  /\ stamped'[f] \in Row
             /\ \A u \in Users : u = stamped'[f].actor => Exists(u)'
  <2>1. CASE f = e
    <3>1. stamped'[f] = [createdAt |-> now, actor |-> actor]
      BY <1>1, <2>1 DEF Trail
    <3> QED BY <1>2, <3>1
  <2>2. CASE f # e
    <3>1. f \in arriving \union log /\ stamped'[f] = stamped[f]
      BY <1>1, <1>5, <2>2 DEF Trail, Stamped
    <3>2. /\ stamped[f] \in Row
          /\ \A u \in Users : u = stamped[f].actor => Exists(u)
      BY <3>1 DEF Trail, Stamped
    <3> QED BY <3>1, <3>2
  <2> QED BY <2>1, <2>2
<1>6. Stamped'
  <2>1. /\ arriving' \subseteq Entries /\ log' \subseteq Entries
        /\ arriving' \intersect log' = {}
    BY <1>1 DEF Stamped, Trail
  <2> QED BY <1>5, <2>1 DEF Stamped
<1> QED BY <1>3, <1>4, <1>6 DEF Trail

\* A step on the trail leaves it so that the walks stand where they stood.
LEMMA TrailKeeps ==
    ASSUME Trail, NEW e \in Entries,
           \/ \E u, by \in Users : CreateAccount(e, u, by)
           \/ \E u \in Users : Act(e, u)
           \/ Insert(e) \/ RejectInsert(e)
    PROVE  Trail' /\ Kept
<1>1. ASSUME NEW u \in Users, NEW by \in Users, CreateAccount(e, u, by)
      PROVE  Trail' /\ Kept
  <2>1. accounts \in Seq(Users)
    BY DEF Trail
  <2>2. /\ accounts' = Append(accounts, u) /\ Exists(by)
        /\ CreateAuditLog(e, by) /\ log' = log /\ now' = now
    BY <1>1 DEF CreateAccount
  <2>3. accounts' \in Seq(Users) /\ \A v \in Users : Exists(v) => Exists(v)'
    BY <2>1, <2>2, AccountsRemain
  <2> QED BY <2>2, <2>3, CreateAuditLogKeeps
<1>2. ASSUME NEW u \in Users, Act(e, u)
      PROVE  Trail' /\ Kept
  <2>1. /\ Exists(u) /\ CreateAuditLog(e, u) /\ log' = log /\ now' = now
        /\ accounts' = accounts
    BY <1>2 DEF Act
  <2>2. accounts' \in Seq(Users) /\ \A v \in Users : Exists(v) => Exists(v)'
    BY <2>1 DEF Exists, Trail
  <2> QED BY <2>1, <2>2, CreateAuditLogKeeps
<1>3. CASE Insert(e)
  BY <1>3 DEF Insert, Trail, Stamped, Kept, Exists
<1>4. CASE RejectInsert(e)
  <2>1. PICK lost \in SUBSET arriving :
           /\ arriving' = arriving \ lost
           /\ stamped' = [f \in Entries |-> IF f \in lost THEN NoEntry
                                           ELSE stamped[f]]
    BY <1>4 DEF RejectInsert
  <2>2. log' = log /\ accounts' = accounts /\ now' = now
    BY <1>4 DEF RejectInsert
  <2> QED BY <2>1, <2>2 DEF Trail, Stamped, Kept, Exists
<1> QED BY <1>1, <1>2, <1>3, <1>4

-----------------------------------------------------------------------------
(* Listing users                                                           *)

\* A table that may have grown keeps the users it had, where and when they were.
Grown == /\ Len(accounts) <= Len(accounts)'
         /\ \A i \in 1 .. Len(accounts) : accounts'[i] = accounts[i]
         /\ \A u \in Table(Len(accounts)) : born'[u] = born[u]

\* What was a page of the table at some time was that for ever.
LEMMA PagesStay ==
    ASSUME accounts \in Seq(Users), Grown, NEW n \in Nat, n <= Len(accounts),
           NEW page, NEW users, UsersOn(Table(n), page, users)
    PROVE  UsersOn(Table(n), page, users)'
<1>1. Table(n)' = Table(n) /\ Table(n) \subseteq Table(Len(accounts))
  BY DEF Grown, Table
<1>2. PICK skipped \in SUBSET Table(n) :
         /\ users \subseteq Table(n) \ skipped
         /\ Cardinality(skipped) = AtMost((page - 1) * PerPage, Cardinality(Table(n)))
         /\ Cardinality(users) = AtMost(PerPage, Cardinality(Table(n) \ skipped))
         /\ Leading(skipped, Table(n) \ skipped)
         /\ Leading(users, (Table(n) \ skipped) \ users)
  BY DEF UsersOn
<1>3. \A u, v \in Table(n) : (born[u] >= born[v])' <=> born[u] >= born[v]
  BY <1>1 DEF Grown
<1>4. /\ Leading(skipped, Table(n) \ skipped)'
      /\ Leading(users, (Table(n) \ skipped) \ users)'
  BY <1>1, <1>2, <1>3 DEF Leading
<1> QED BY <1>1, <1>2, <1>4 DEF UsersOn

LEMMA GrownAsItWas == ASSUME UNCHANGED <<accounts, born>>, accounts \in Seq(Users)
                      PROVE  Grown
BY DEF Grown

\* Requests are not disturbed by new users and new accounts.
LEMMA ListersAreKept ==
    ASSUME lister \in [Listers -> ListerType], ListerInv, lister' = lister,
           accounts \in Seq(Users), accounts' \in Seq(Users), Grown
    PROVE  (lister \in [Listers -> ListerType])' /\ ListerInv'
<1>1. ASSUME NEW r \in Listers, NEW q \in ListerType, q = lister[r]
      PROVE  ReadSince(q)'
  <2>1. ReadSince(q) /\ q.from \in Nat
    BY <1>1 DEF ListerInv, ListerType
  <2>2. /\ Len(accounts) \in Nat /\ Len(accounts)' \in Nat
        /\ Len(accounts) <= Len(accounts)'
    BY DEF Grown
  <2>3. q.from .. Len(accounts) \subseteq q.from .. Len(accounts)'
    BY <2>1, <2>2
  <2>4. ASSUME q.at \in {"count", "set", "done"}
        PROVE  \E n \in q.from .. Len(accounts)' : UsersOn(Table(n), q.page, q.users)'
    <3>1. PICK n \in q.from .. Len(accounts) : UsersOn(Table(n), q.page, q.users)
      BY <2>1, <2>4 DEF ReadSince
    <3>2. n \in Nat /\ n <= Len(accounts)
      BY <2>1, <2>2
    <3>3. UsersOn(Table(n), q.page, q.users)'
      BY <3>1, <3>2, PagesStay
    <3> QED BY <2>3, <3>1, <3>3
  <2>5. q.from <= Len(accounts)'
    BY <2>1, <2>2 DEF ReadSince
  <2> QED BY <2>1, <2>3, <2>4, <2>5 DEF ReadSince
<1> QED BY <1>1 DEF ListerInv

\* A step of one request moves that request only.
LEMMA ListerSteps ==
    ASSUME lister \in [Listers -> ListerType], ListerInv, accounts \in Seq(Users),
           UNCHANGED <<accounts, born>>,
           NEW r \in Listers, NEW q \in ListerType, ReadSince(q),
           lister' = [lister EXCEPT ![r] = q]
    PROVE  (lister \in [Listers -> ListerType])' /\ ListerInv'
<1>1. ASSUME NEW s \in Listers, NEW p \in ListerType, p = lister'[s]
      PROVE  ReadSince(p)'
  <2>1. ReadSince(p)
    BY <1>1 DEF ListerInv
  <2>2. ASSUME NEW n \in Nat, n <= Len(accounts), UsersOn(Table(n), p.page, p.users)
        PROVE  UsersOn(Table(n), p.page, p.users)'
    BY <2>2, GrownAsItWas, PagesStay
  <2>3. p.from \in Nat /\ Len(accounts) \in Nat
    BY DEF ListerType
  <2> QED BY <2>1, <2>2, <2>3 DEF ReadSince
<1> QED BY <1>1 DEF ListerInv

ListerNext(r) == \/ \E page \in PageNumbers : AskPage(r, page)
                 \/ GetCachedPage(r) \/ SelectPage(r) \/ CountUsers(r)
                 \/ CachePage(r) \/ RejectLister(r)

\* A failed request knows nothing.
LEMMA NewListerKnowsNothing ==
    ASSUME accounts \in Seq(Users)
    PROVE  NewLister \in ListerType /\ ReadSince(NewLister)
BY DEF NewLister, ListerType, ReadSince, Load

\* A new request knows what it asks for and how many users there are.
LEMMA AskedFor ==
    ASSUME NEW page \in PageNumbers, NEW n \in Nat
    PROVE  LET q == [NewLister EXCEPT !.at = "get", !.page = page, !.from = n]
           IN  q \in ListerType /\ q.from = n /\ q.at = "get" /\ q.page = page
<1>1. page \in Nat
  BY ListingsAssumption
<1> QED BY <1>1 DEF NewLister, ListerType, Load

\* What a request reads is what the table holds at that moment.
LEMMA ListerKeeps ==
    ASSUME Tables, ListerInv, NEW r \in Listers, ListerNext(r)
    PROVE  (lister \in [Listers -> ListerType])' /\ ListerInv'
<1> DEFINE p == lister[r]
<1>1. /\ p \in ListerType /\ ReadSince(p) /\ accounts \in Seq(Users)
      /\ UNCHANGED <<accounts, born>> /\ Len(accounts) \in Nat
  <2>1. UNCHANGED <<accounts, born>>
    BY DEF ListerNext, AskPage, GetCachedPage, SelectPage, CountUsers,
           CachePage, RejectLister
  <2>2. accounts \in Seq(Users) /\ p \in ListerType
    BY DEF Tables
  <2>3. ReadSince(p)
    BY <2>2 DEF ListerInv
  <2>4. Len(accounts) \in Nat
    BY <2>2
  <2> QED BY <2>1, <2>2, <2>3, <2>4
<1> DEFINE Done == (lister \in [Listers -> ListerType])' /\ ListerInv'
<1>2. ASSUME NEW q \in ListerType, ReadSince(q),
             lister' = [lister EXCEPT ![r] = q]
      PROVE  Done
  <2>1. /\ lister \in [Listers -> ListerType] /\ UNCHANGED <<accounts, born>>
        /\ accounts \in Seq(Users)
    BY <1>1 DEF Tables
  <2> HIDE DEF p
  <2> QED BY <1>2, <2>1, ListerSteps
<1>3. ASSUME NEW page \in PageNumbers, AskPage(r, page)
      PROVE  Done
  <2> DEFINE q == [NewLister EXCEPT !.at = "get", !.page = page,
                                    !.from = Len(accounts)]
  <2>1. lister' = [lister EXCEPT ![r] = q]
    BY <1>3 DEF AskPage
  <2>2. Len(accounts) \in Nat
    BY <1>1
  <2> HIDE DEF p
  <2>3. /\ q \in ListerType /\ q.from = Len(accounts)
        /\ q.at = "get" /\ q.page = page
    BY <2>2, AskedFor
  <2>4. q \in ListerType /\ ReadSince(q)
    BY <2>2, <2>3 DEF ReadSince
  <2> HIDE DEF q
  <2> QED BY <1>2, <2>1, <2>4
<1>4. CASE RejectLister(r)
  BY <1>1, <1>2, <1>4, NewListerKnowsNothing DEF RejectLister
<1>5. CASE GetCachedPage(r)
  <2>1. CASE lister' = [lister EXCEPT ![r] = NewLister]
    BY <1>1, <1>2, <2>1, NewListerKnowsNothing
  <2>2. CASE lister' = [lister EXCEPT ![r].at = "select"]
    <3> DEFINE q == [p EXCEPT !.at = "select"]
    <3>1. lister' = [lister EXCEPT ![r] = q]
      BY <2>2 DEF Tables
    <3>2. p.at # "idle"
      BY <1>5 DEF GetCachedPage
    <3> HIDE DEF p
    <3>3. q \in ListerType /\ ReadSince(q)
      BY <1>1, <3>2 DEF ListerType, ReadSince, Load
    <3> HIDE DEF q
    <3> QED BY <1>2, <3>1, <3>3
  <2> QED BY <1>5, <2>1, <2>2 DEF GetCachedPage
<1>6. CASE SelectPage(r)
  <2>1. CASE lister' = [lister EXCEPT ![r] = NewLister]
    BY <1>1, <1>2, <2>1, NewListerKnowsNothing
  <2>2. ASSUME NEW users \in SUBSET Table(Len(accounts)),
               UsersOn(Table(Len(accounts)), p.page, users),
               lister' = [lister EXCEPT ![r].at = "count", ![r].users = users]
        PROVE  Done
    <3> DEFINE q == [p EXCEPT !.at = "count", !.users = users]
    <3>1. lister' = [lister EXCEPT ![r] = q]
      BY <2>2 DEF Tables
    <3>2. p.at # "idle"
      BY <1>6 DEF SelectPage
    <3> HIDE DEF p
    <3>3. users \subseteq Users
      BY <1>1 DEF Table
    <3>4. /\ q \in ListerType /\ q.at = "count" /\ q.page = p.page
          /\ q.from = p.from /\ q.users = users
      BY <1>1, <3>3 DEF ListerType, Load
    <3>5. Len(accounts) \in q.from .. Len(accounts)
      BY <1>1, <3>4 DEF ReadSince, ListerType
    <3>6. ReadSince(q)
      BY <1>1, <2>2, <3>2, <3>4, <3>5 DEF ReadSince
    <3> HIDE DEF q
    <3> QED BY <1>2, <3>1, <3>4, <3>6
  <2> QED BY <1>6, <2>1, <2>2 DEF SelectPage
<1>7. CASE CountUsers(r)
  <2> DEFINE q == [p EXCEPT !.at = "set", !.total = Len(accounts)]
  <2>1. lister' = [lister EXCEPT ![r] = q]
    BY <1>7 DEF CountUsers, Tables
  <2>2. p.at = "count"
    BY <1>7 DEF CountUsers
  <2> HIDE DEF p
  <2>3. /\ q \in ListerType /\ q.at = "set" /\ q.page = p.page
        /\ q.from = p.from /\ q.users = p.users /\ q.total = Len(accounts)
    BY <1>1 DEF ListerType, Load
  <2>4. Len(accounts) \in q.from .. Len(accounts)
    BY <1>1, <2>3 DEF ReadSince, ListerType
  <2>5. ReadSince(q)
    BY <1>1, <2>2, <2>3, <2>4 DEF ReadSince
  <2> HIDE DEF q
  <2> QED BY <1>2, <2>1, <2>3, <2>5
<1>8. CASE CachePage(r)
  <2> DEFINE q == [p EXCEPT !.at = "done"]
  <2>1. lister' = [lister EXCEPT ![r] = q]
    BY <1>8 DEF CachePage, Tables
  <2>2. p.at = "set"
    BY <1>8 DEF CachePage
  <2> HIDE DEF p
  <2>3. /\ q \in ListerType /\ q.at = "done" /\ q.page = p.page
        /\ q.from = p.from /\ q.users = p.users /\ q.total = p.total
    BY <1>1 DEF ListerType, Load
  <2>4. ReadSince(q)
    BY <1>1, <2>2, <2>3 DEF ReadSince
  <2> HIDE DEF q
  <2> QED BY <1>2, <2>1, <2>3, <2>4
<1>9. Done
  BY <1>3, <1>4, <1>5, <1>6, <1>7, <1>8 DEF ListerNext
<1> QED BY <1>9 DEF Done

-----------------------------------------------------------------------------
(* The invariant and what it says                                          *)

WalkNext(w) == \/ \E email \in Users \union {Anyone} : Begin(w, email)
               \/ ResolveActor(w) \/ FindMany(w) \/ NameActors(w)
               \/ NextPage(w) \/ RejectWalk(w)

TrailNext(e) == \/ \E u, by \in Users : CreateAccount(e, u, by)
                \/ \E u \in Users : Act(e, u)
                \/ Insert(e) \/ RejectInsert(e)

LEMMA InitKeeps == Init => IInv
<1> SUFFICES ASSUME Init PROVE IInv
  OBVIOUS
<1>1. PICK made \in SUBSET Users :
         \E u \in made :
            accounts = <<u>> /\ born \in [made -> 0..now] /\ now \in Nat
  BY ListingsAssumption DEF Init
<1>2. NewWalk \in WalkType
  BY DEF NewWalk, WalkType, Step
<1>3. NewLister \in ListerType
  BY DEF NewLister, ListerType, Load
<1>4. Tables
  <2>1. Born /\ accounts \in Seq(Users)
    BY <1>1 DEF Born, Table
  <2> QED BY <1>1, <1>2, <1>3, <2>1 DEF Init, Tables
<1>5. Stamped
  BY DEF Init, Stamped
<1>6. Matches(NewWalk) /\ Stands(NewWalk)
  <2>1. IsFiniteSet({}) /\ Cardinality({}) <= Limit
    BY FS_EmptySet, ListingsAssumption
  <2> QED BY <2>1 DEF NewWalk, Matches, Stands, Asking
<1>7. WalkInv
  BY <1>6 DEF WalkInv, Init
<1>8. ListerInv
  BY <1>4, NewListerKnowsNothing DEF ListerInv, Init, Tables
<1> QED BY <1>4, <1>5, <1>7, <1>8 DEF IInv

\* A step of the trail leaves the walks and requests where they are.
LEMMA TrailNextKeeps ==
    ASSUME IInv, NEW e \in Entries, TrailNext(e)
    PROVE  IInv'
<1>1. Trail
  BY DEF IInv, Tables, Trail
<1>2. Trail' /\ Kept
  BY <1>1, TrailKeeps DEF TrailNext
<1>3. /\ walk' = walk /\ cached' = cached /\ lister' = lister /\ born' = born
      /\ \/ accounts' = accounts
         \/ \E u \in DOMAIN born : accounts' = Append(accounts, u)
  BY DEF TrailNext, CreateAccount, Act, Insert, RejectInsert
<1>4. (walk \in [Walks -> WalkType])' /\ WalkInv'
  <2>1. /\ walk \in [Walks -> WalkType] /\ WalkInv /\ walk' = walk
        /\ log \subseteq log' /\ \A f \in log : stamped'[f] = stamped[f]
    BY <1>2, <1>3 DEF IInv, Tables, Kept
  <2> QED BY <2>1, WalksAreKept
<1>5. (lister \in [Listers -> ListerType])' /\ ListerInv' /\ Born'
  <2>1. lister \in [Listers -> ListerType] /\ ListerInv /\ accounts \in Seq(Users)
    BY DEF IInv, Tables
  <2>2. accounts' \in Seq(Users) /\ Grown /\ Born'
    <3>1. Born
      BY DEF IInv, Tables
    <3>2. CASE accounts' = accounts
      BY <1>3, <2>1, <3>1, <3>2 DEF Grown, Born, Table
    <3>3. ASSUME NEW u \in DOMAIN born, accounts' = Append(accounts, u)
          PROVE  accounts' \in Seq(Users) /\ Grown /\ Born'
      <4>1. u \in Users
        BY <3>1 DEF Born
      <4>2. /\ accounts' \in Seq(Users) /\ Len(accounts)' = Len(accounts) + 1
            /\ \A i \in 1 .. Len(accounts) : accounts'[i] = accounts[i]
            /\ accounts'[Len(accounts) + 1] = u
        BY <2>1, <3>3, <4>1
      <4>3. Table(Len(accounts))' = Table(Len(accounts)) \union {u}
        BY <2>1, <4>2 DEF Table
      <4> QED BY <1>3, <2>1, <3>1, <4>2, <4>3 DEF Grown, Born
    <3> QED BY <1>3, <3>2, <3>3
  <2> QED BY <1>3, <2>1, <2>2, ListersAreKept
<1>6. cached' \in [PageNumbers -> (SUBSET Users) \union {NoPage}]
  BY <1>3 DEF IInv, Tables
<1> QED BY <1>2, <1>4, <1>5, <1>6 DEF IInv, Tables, Trail

\* A step of a walk, of a request, of the clock or of the cache leaves the
\* trail and the accounts.
LEMMA ClientsKeep ==
    ASSUME IInv, now' \in Nat,
           cached' \in [PageNumbers -> (SUBSET Users) \union {NoPage}],
           UNCHANGED <<accounts, born, stamped, arriving, log>>,
           (walk \in [Walks -> WalkType])', WalkInv',
           (lister \in [Listers -> ListerType])', ListerInv'
    PROVE  IInv'
BY DEF IInv, Tables, Born, Table, Stamped, Exists

\* What the accounts, the trail, the walks and the listings know of each other.
THEOREM ListingsInvariant == Spec => []IInv
<1>1. IInv /\ [Next]_vars => IInv'
  <2> SUFFICES ASSUME IInv, [Next]_vars PROVE IInv'
    OBVIOUS
  <2>1. /\ Tables /\ Stamped /\ WalkInv /\ ListerInv
        /\ now \in Nat /\ accounts \in Seq(Users)
        /\ walk \in [Walks -> WalkType] /\ lister \in [Listers -> ListerType]
        /\ cached \in [PageNumbers -> (SUBSET Users) \union {NoPage}]
    BY DEF IInv, Tables
  <2>2. ASSUME walk' = walk, log' = log, stamped' = stamped
        PROVE  (walk \in [Walks -> WalkType])' /\ WalkInv'
    BY <2>1, <2>2, WalksAreKept
  <2>3. ASSUME lister' = lister, UNCHANGED <<accounts, born>>
        PROVE  (lister \in [Listers -> ListerType])' /\ ListerInv'
    BY <2>1, <2>3, GrownAsItWas, ListersAreKept
  <2>4. ASSUME NEW e \in Entries, TrailNext(e)
        PROVE  IInv'
    BY <2>4, TrailNextKeeps
  <2>5. ASSUME NEW w \in Walks, WalkNext(w)
        PROVE  IInv'
    <3>1. UNCHANGED <<now, accounts, born, stamped, arriving, log, cached, lister>>
      BY <2>5 DEF WalkNext, Begin, ResolveActor, FindMany, NameActors, NextPage,
                  RejectWalk
    <3>2. (walk \in [Walks -> WalkType])' /\ WalkInv'
      BY <2>1, <2>5, BeginKeeps, ResolveActorKeeps, FindManyKeeps,
         NameActorsKeeps, NextPageKeeps, RejectWalkKeeps DEF WalkNext
    <3> QED BY <2>1, <2>3, <3>1, <3>2, ClientsKeep
  <2>6. ASSUME NEW r \in Listers, ListerNext(r)
        PROVE  IInv'
    <3>1. UNCHANGED <<now, accounts, born, stamped, arriving, log, walk>>
      BY <2>6 DEF ListerNext, AskPage, GetCachedPage, SelectPage, CountUsers,
                  CachePage, RejectLister
    <3>2. cached' \in [PageNumbers -> (SUBSET Users) \union {NoPage}]
      <4>1. lister[r] \in ListerType
        BY <2>1
      <4>2. lister[r].users \in SUBSET Users
        BY <4>1 DEF ListerType
      <4> QED BY <2>1, <2>6, <4>2 DEF ListerNext, AskPage, GetCachedPage,
              SelectPage, CountUsers, CachePage, RejectLister
    <3>3. (lister \in [Listers -> ListerType])' /\ ListerInv'
      BY <2>1, <2>6, ListerKeeps
    <3> QED BY <2>1, <2>2, <3>1, <3>2, <3>3, ClientsKeep
  <2>7. ASSUME NEW page \in PageNumbers, ExpirePage(page)
        PROVE  IInv'
    <3>1. UNCHANGED <<now, accounts, born, stamped, arriving, log, walk, lister>>
      BY <2>7 DEF ExpirePage
    <3>2. cached' \in [PageNumbers -> (SUBSET Users) \union {NoPage}]
      BY <2>1, <2>7 DEF ExpirePage
    <3> QED BY <2>1, <2>2, <2>3, <3>1, <3>2, ClientsKeep
  <2>8. CASE Tick
    <3>1. /\ UNCHANGED <<accounts, born, stamped, arriving, log, walk, cached, lister>>
          /\ now' \in Nat
      BY <2>1, <2>8 DEF Tick
    <3> QED BY <2>1, <2>2, <2>3, <3>1, ClientsKeep
  <2>9. CASE UNCHANGED vars
    <3>1. UNCHANGED <<now, accounts, born, stamped, arriving, log, walk, cached, lister>>
      BY <2>9 DEF vars
    <3> QED BY <2>1, <2>2, <2>3, <3>1, ClientsKeep
  <2>10. ASSUME NEW u \in Users, MakeUser(u)
         PROVE  IInv'
    <3>1. /\ u \notin DOMAIN born /\ Born
          /\ UNCHANGED <<now, accounts, stamped, arriving, log, walk, cached, lister>>
          /\ born' = [v \in DOMAIN born \union {u} |-> IF v = u THEN now ELSE born[v]]
      BY <2>1, <2>10 DEF MakeUser, Tables
    <3>2. Born' /\ Grown
      BY <2>1, <3>1 DEF Born, Grown, Table
    <3>3. ListerInv'
      BY <2>1, <3>1, <3>2, ListersAreKept
    <3>4. Stamped' /\ WalkInv'
      BY <2>1, <2>2, <3>1 DEF Stamped, Exists
    <3> QED BY <2>1, <3>1, <3>2, <3>3, <3>4 DEF IInv, Tables
  <2> QED BY <2>4, <2>5, <2>6, <2>7, <2>8, <2>9, <2>10
          DEF Next, TrailNext, WalkNext, ListerNext
<1> QED BY <1>1, InitKeeps, PTL DEF Spec

\* The tables, the walks and the requests have their types, a page no more
\* rows than the limit, and a cursor is in the trail.
THEOREM TypeCorrect == Spec => []TypeOK
<1>1. IInv => TypeOK
  <2> SUFFICES ASSUME IInv PROVE TypeOK
    OBVIOUS
  <2>1. \A e \in arriving \union log : stamped[e] # NoEntry
    BY ListingsAssumption DEF IInv, Stamped, Row
  <2>2. ASSUME NEW w \in Walks
        PROVE  /\ walk[w].at \in Step
               /\ walk[w].page \subseteq log /\ Cardinality(walk[w].page) <= Limit
               /\ walk[w].cursor \in log \union {NoEntry}
    <3>1. walk[w] \in WalkType /\ Matches(walk[w])
      BY DEF IInv, Tables, WalkInv
    <3> QED BY <3>1 DEF Matches, WalkType
  <2>3. ASSUME NEW r \in Listers
        PROVE  /\ lister[r].at \in Load /\ lister[r].users \subseteq Users
               /\ lister[r].total \in Nat
    <3>1. lister[r] \in ListerType
      BY DEF IInv, Tables
    <3> QED BY <3>1 DEF ListerType
  <2> QED BY <2>1, <2>2, <2>3 DEF IInv, Tables, Born, Stamped, TypeOK
<1> QED BY <1>1, ListingsInvariant, PTL

\* A page of the trail holds what was asked for, with its actors' names, for
\* any interleaving of accounts, audit writes and pages.
THEOREM PagesMatch == Spec => []ListsWhatMatches
<1>1. IInv => ListsWhatMatches
  <2> SUFFICES ASSUME IInv, NEW w \in Walks, walk[w].at \in {"paged", "done"},
                      NEW e \in walk[w].page
               PROVE  Satisfies(e, walk[w].email) /\ e \in walk[w].named
    BY DEF ListsWhatMatches
  <2>1. walk[w] \in WalkType /\ Matches(walk[w])
    BY DEF IInv, Tables, WalkInv
  <2> QED BY <2>1 DEF Matches
<1> QED BY <1>1, ListingsInvariant, PTL

\* Walking by cursor misses and repeats nothing but ties with a cursor, for any
\* number of rows to a page and whatever is written meanwhile.
THEOREM WalksMissOnlyTies == Spec => []WalksAreExactButForTies
<1>1. IInv => WalksAreExactButForTies
  <2> SUFFICES ASSUME IInv, NEW w \in Walks
               PROVE  /\ \A e \in walk[w].twice :
                            \E c \in walk[w].cursors : Tied(e, c)
                      /\ walk[w].at = "done" =>
                            \A e \in walk[w].standing \ walk[w].seen :
                               \E c \in walk[w].cursors : Tied(e, c)
    BY DEF WalksAreExactButForTies
  <2>1. walk[w] \in WalkType /\ Stands(walk[w])
    BY DEF IInv, Tables, WalkInv
  <2> QED BY <2>1 DEF Stands, TiedIn
<1> QED BY <1>1, ListingsInvariant, PTL

\* A page of users is answered as the table had it since it was asked for.
THEOREM PagesAreCurrent == Spec => []ListedAsItIs
<1>1. IInv => ListedAsItIs
  <2> SUFFICES ASSUME IInv, NEW r \in Listers, lister[r].at = "done"
               PROVE  \E n1, n2 \in lister[r].from .. Len(accounts) :
                         /\ UsersOn(Table(n1), lister[r].page, lister[r].users)
                         /\ lister[r].total = n2
    BY DEF ListedAsItIs
  <2>1. lister[r] \in ListerType /\ ReadSince(lister[r])
    BY DEF IInv, Tables, ListerInv
  <2> QED BY <2>1 DEF ReadSince
<1> QED BY <1>1, ListingsInvariant, PTL
===============================================================================
