------------------------------- MODULE Listings -------------------------------
(***************************************************************************)
(* The two listings: the audit trail by cursor, and the users by page with *)
(* a cache, while accounts are created and audit entries are written.      *)
(*                                                                         *)
(* An entry is stamped when the subscriber runs and is visible when its    *)
(* insert has arrived, which nobody awaits; a user is stamped when the     *)
(* request makes it and is in the table when its insert commits, which may *)
(* be in another order.  A walk is a client following nextCursor from page *)
(* to page.  Prisma is external: rows come newest first, ties in an order  *)
(* of its own that may differ from query to query, and a page begins after *)
(* the cursor's row.                                                       *)
(***************************************************************************)
EXTENDS Naturals, FiniteSets, Sequences

CONSTANTS
    Users,
    Entries,       \* the ids of audit rows
    Walks,
    Listers,       \* requests that list users
    Anyone, NoEntry, NoPage,
    Limit,         \* rows to a page of the trail
    PageNumbers,   \* pages of users that are asked for
    PerPage,       \* users to a page
    MaxTime,       \* bound on the clock
    ServicesMayFail

ASSUME ListingsAssumption ==
    /\ Anyone \notin Users /\ NoEntry \notin Entries
    /\ NoEntry \notin [createdAt : Nat, actor : Users]
    /\ IsFiniteSet(Entries)
    /\ Limit \in Nat \ {0} /\ PerPage \in Nat \ {0}
    /\ PageNumbers \subseteq Nat /\ MaxTime \in Nat
    /\ ServicesMayFail \in BOOLEAN

VARIABLES
    now,
    accounts,  \* the users table, in the order of its inserts
    born,      \* born[u]: createdAt of the users that have been made
    stamped,   \* stamped[e]: the audit row e as AuditLog.create made it
    arriving,  \* the entries whose inserts are on their way
    log,       \* the entries of the audit_logs table
    walk,      \* walk[w]: what the client and its request know
    cached,    \* cached[p]: the entry users:page:{p}:{perPage}
    lister     \* lister[r]: a request for a page of users

vars == <<now, accounts, born, stamped, arriving, log, walk, cached, lister>>

Row == [createdAt : Nat, actor : Users]

Exists(u) == \E i \in DOMAIN accounts : accounts[i] = u

-----------------------------------------------------------------------------
(* Events are audited *)

\* A subscriber's handle, up to the await of the insert.  The actor is whoever
\* the event says asked for the change, or else its user.
CreateAuditLog(e, actor) ==
    /\ e \notin arriving \union log
    /\ stamped' = [stamped EXCEPT ![e] = [createdAt |-> now, actor |-> actor]]
    /\ arriving' = arriving \union {e}

\* User.create; a creation that fails afterwards leaves it at this.
MakeUser(u) ==
    /\ u \notin DOMAIN born
    /\ born' = [v \in DOMAIN born \union {u} |-> IF v = u THEN now ELSE born[v]]
    /\ UNCHANGED <<now, accounts, stamped, arriving, log, walk, cached, lister>>

\* The insert commits, and its event is dispatched.
CreateAccount(e, u, by) ==
    /\ u \in DOMAIN born /\ ~Exists(u) /\ Exists(by)
    /\ accounts' = Append(accounts, u)
    /\ CreateAuditLog(e, by)
    /\ UNCHANGED <<now, born, log, walk, cached, lister>>

Act(e, actor) ==
    /\ Exists(actor)
    /\ CreateAuditLog(e, actor)
    /\ UNCHANGED <<now, accounts, born, log, walk, cached, lister>>

Insert(e) ==
    /\ e \in arriving
    /\ arriving' = arriving \ {e}
    /\ log' = log \union {e}
    /\ UNCHANGED <<now, accounts, born, stamped, walk, cached, lister>>

-----------------------------------------------------------------------------
(* Walking the audit trail *)

\* cursors and twice are history: the cursors a walk went by, the entries it
\* was given more than once; standing are those there when it began.
NewWalk == [at |-> "idle", email |-> Anyone, actor |-> Anyone,
            cursor |-> NoEntry, next |-> NoEntry, page |-> {}, named |-> {},
            seen |-> {}, standing |-> {}, cursors |-> {}, twice |-> {}]

\* Actors are asked for by e-mail, which their ids stand for; the other filters
\* are fixed.
Satisfies(e, actor) == actor \in {stamped[e].actor, Anyone}

\* Without an e-mail there is nothing to resolve.
FirstStep(email) == IF email = Anyone THEN "find" ELSE "resolve"

Begin(w, email) ==
    /\ walk[w].at = "idle"
    /\ walk' = [walk EXCEPT ![w] =
          [NewWalk EXCEPT !.at = FirstStep(email), !.email = email,
             !.standing = {e \in log : Satisfies(e, email)}]]
    /\ UNCHANGED <<now, accounts, born, stamped, arriving, log, cached, lister>>

\* Mutant: an e-mail nobody has resolves to no filter.
ResolveToAnyone(w) ==
    /\ walk[w].at = "resolve"
    /\ walk' = [walk EXCEPT ![w].at = "find",
                            ![w].actor = IF Exists(walk[w].email)
                                         THEN walk[w].email ELSE Anyone]
    /\ UNCHANGED <<now, accounts, born, stamped, arriving, log, cached, lister>>

\* An e-mail nobody has is answered with the empty page.
ResolveActor(w) ==
    LET email == walk[w].email IN
    /\ walk[w].at = "resolve"
    /\ walk' = IF Exists(email)
               THEN [walk EXCEPT ![w].at = "find", ![w].actor = email]
               ELSE [walk EXCEPT ![w].at = "done"]
    /\ UNCHANGED <<now, accounts, born, stamped, arriving, log, cached, lister>>

NoOlder(e, f) == stamped[e].createdAt >= stamped[f].createdAt

\* What may follow the cursor in an order of the rows: all older ones, some of
\* those with its timestamp, and not itself.
Following(rows, cursor, after) ==
    IF cursor = NoEntry THEN after = rows
    ELSE /\ after \subseteq rows \ {cursor}
         /\ \A e \in rows \ {cursor} :
               /\ ~NoOlder(e, cursor) => e \in after
               /\ ~NoOlder(cursor, e) => e \notin after

\* The first n of them in an order of the rows.
First(after, n, page) ==
    /\ page \subseteq after
    /\ Cardinality(page) = IF Cardinality(after) < n THEN Cardinality(after) ELSE n
    /\ \A e \in page, f \in after \ page : NoOlder(e, f)

\* Found(w, n, page, next): what findMany may return when it takes n rows.
Found(w, n, page, next) ==
    LET rows == {e \in log : Satisfies(e, walk[w].actor)} IN
    \E after \in SUBSET rows :
       /\ Following(rows, walk[w].cursor, after)
       /\ First(after, n, page)
       /\ IF Cardinality(after) > Limit
          THEN next \in page /\ \A e \in page : NoOlder(e, next)
          ELSE next = NoEntry

\* Mutant: limit rows are asked for, and a full page taken for the last.
FindManyExactly(w) ==
    /\ walk[w].at = "find"
    /\ \E page \in SUBSET log, next \in log \union {NoEntry} :
          /\ Found(w, Limit, page, next)
          /\ walk' = [walk EXCEPT ![w].at = "name", ![w].page = page,
                                  ![w].next = NoEntry]
    /\ UNCHANGED <<now, accounts, born, stamped, arriving, log, cached, lister>>

\* Mutant: the row that tells of a next page is left in this one.
FindManyUncut(w) ==
    /\ walk[w].at = "find"
    /\ \E page \in SUBSET log, next \in log \union {NoEntry} :
          /\ Found(w, Limit + 1, page, next)
          /\ walk' = [walk EXCEPT ![w].at = "name", ![w].page = page,
                                  ![w].next = next]
    /\ UNCHANGED <<now, accounts, born, stamped, arriving, log, cached, lister>>

\* One row more than the limit tells whether there is a next page, whose
\* cursor is the last of this one.
FindMany(w) ==
    /\ walk[w].at = "find"
    /\ \E page \in SUBSET log, next \in log \union {NoEntry} :
          /\ Found(w, Limit, page, next)
          /\ walk' = [walk EXCEPT ![w].at = "name", ![w].page = page,
                                  ![w].next = next]
    /\ UNCHANGED <<now, accounts, born, stamped, arriving, log, cached, lister>>

\* findManyByIds names the actors; the page is answered.
NameActors(w) ==
    LET page == walk[w].page IN
    /\ walk[w].at = "name"
    /\ walk' = [walk EXCEPT
          ![w].at = IF walk[w].next = NoEntry THEN "done" ELSE "paged",
          ![w].named = {e \in page : Exists(stamped[e].actor)},
          ![w].seen = @ \union page,
          ![w].twice = @ \union (page \intersect walk[w].seen),
          ![w].cursors = @ \union ({walk[w].next} \ {NoEntry})]
    /\ UNCHANGED <<now, accounts, born, stamped, arriving, log, cached, lister>>

NextPage(w) ==
    /\ walk[w].at = "paged"
    /\ walk' = [walk EXCEPT ![w].at = FirstStep(walk[w].email),
                            ![w].actor = Anyone,
                            ![w].cursor = walk[w].next, ![w].next = NoEntry,
                            ![w].page = {}, ![w].named = {}]
    /\ UNCHANGED <<now, accounts, born, stamped, arriving, log, cached, lister>>

-----------------------------------------------------------------------------
(* Listing users by page *)

\* None of the rest is younger.
Leading(users, rest) == \A u \in users, v \in rest : born[u] >= born[v]

AtMost(n, m) == IF n < m THEN n ELSE m

\* orderBy createdAt desc, skip (page - 1) * perPage, take perPage: users may
\* be on the page in some order of the table.
UsersOn(table, page, users) ==
    \E skipped \in SUBSET table :
       LET rest == table \ skipped IN
       /\ users \subseteq rest
       /\ Cardinality(skipped) = AtMost((page - 1) * PerPage, Cardinality(table))
       /\ Cardinality(users) = AtMost(PerPage, Cardinality(rest))
       /\ Leading(skipped, rest) /\ Leading(users, rest \ users)

\* The table as it was with its first n users.
Table(n) == {accounts[i] : i \in 1..n}

NewLister == [at |-> "idle", page |-> 0, users |-> {}, total |-> 0, from |-> 0]

AskPage(r, page) ==
    /\ lister[r].at \in {"idle", "done"}
    /\ lister' = [lister EXCEPT ![r] =
          [NewLister EXCEPT !.at = "get", !.page = page, !.from = Len(accounts)]]
    /\ UNCHANGED <<now, accounts, born, stamped, arriving, log, walk, cached>>

\* Mutant: the rows in the cache are answered, with their number for the total.
AnswerFromCache(r) ==
    /\ lister[r].at = "get"
    /\ LET page == cached[lister[r].page] IN
       lister' = IF page # NoPage
                 THEN [lister EXCEPT ![r].at = "done", ![r].users = page,
                                     ![r].total = Cardinality(page)]
                 ELSE [lister EXCEPT ![r].at = "select"]
    /\ UNCHANGED <<now, accounts, born, stamped, arriving, log, walk, cached>>

\* The rows in the cache come back without a total: list answers an array of
\* users for a pair of users and total, which the use case takes apart into
\* the first two users, and listing the first as an array throws.  A request
\* that has failed may be made again.
GetCachedPage(r) ==
    /\ lister[r].at = "get"
    /\ lister' = IF cached[lister[r].page] # NoPage
                 THEN [lister EXCEPT ![r] = NewLister]
                 ELSE [lister EXCEPT ![r].at = "select"]
    /\ UNCHANGED <<now, accounts, born, stamped, arriving, log, walk, cached>>

\* The two statements of the transaction, READ COMMITTED: each sees what is
\* committed when it begins.  A page before the first is refused.
SelectPage(r) ==
    /\ lister[r].at = "select"
    /\ LET page == lister[r].page IN
       IF page < 1 THEN lister' = [lister EXCEPT ![r] = NewLister]
       ELSE \E users \in SUBSET Table(Len(accounts)) :
               /\ UsersOn(Table(Len(accounts)), page, users)
               /\ lister' = [lister EXCEPT ![r].at = "count", ![r].users = users]
    /\ UNCHANGED <<now, accounts, born, stamped, arriving, log, walk, cached>>

CountUsers(r) ==
    /\ lister[r].at = "count"
    /\ lister' = [lister EXCEPT ![r].at = "set", ![r].total = Len(accounts)]
    /\ UNCHANGED <<now, accounts, born, stamped, arriving, log, walk, cached>>

CachePage(r) ==
    /\ lister[r].at = "set"
    /\ cached' = [cached EXCEPT ![lister[r].page] = lister[r].users]
    /\ lister' = [lister EXCEPT ![r].at = "done"]
    /\ UNCHANGED <<now, accounts, born, stamped, arriving, log, walk>>

\* Only its TTL removes a page: create deletes another key.
ExpirePage(page) ==
    /\ cached[page] # NoPage
    /\ cached' = [cached EXCEPT ![page] = NoPage]
    /\ UNCHANGED <<now, accounts, born, stamped, arriving, log, walk, lister>>

-----------------------------------------------------------------------------
(* Failures and time *)

Asking  == {"resolve", "find", "name"}
Calling == {"get", "select", "count", "set"}

\* A page that fails is asked for again.
RejectWalk(w) ==
    /\ ServicesMayFail
    /\ walk[w].at \in Asking
    /\ walk' = [walk EXCEPT ![w].at = FirstStep(walk[w].email),
                            ![w].actor = Anyone, ![w].next = NoEntry,
                            ![w].page = {}]
    /\ UNCHANGED <<now, accounts, born, stamped, arriving, log, cached, lister>>

RejectLister(r) ==
    /\ ServicesMayFail
    /\ lister[r].at \in Calling
    /\ lister' = [lister EXCEPT ![r] = NewLister]
    /\ UNCHANGED <<now, accounts, born, stamped, arriving, log, walk, cached>>

\* A rejected insert ends the process, and with it the other inserts that have
\* not been sent.  Their ids stand for new ones again.
RejectInsert(e) ==
    /\ ServicesMayFail
    /\ e \in arriving
    /\ \E lost \in SUBSET arriving :
          /\ e \in lost
          /\ arriving' = arriving \ lost
          /\ stamped' = [f \in Entries |-> IF f \in lost THEN NoEntry
                                          ELSE stamped[f]]
    /\ UNCHANGED <<now, accounts, born, log, walk, cached, lister>>

Tick == /\ now < MaxTime
        /\ now' = now + 1
        /\ UNCHANGED <<accounts, born, stamped, arriving, log, walk, cached, lister>>

\* There is an account, and others may have been made.
Init == /\ now \in 0..MaxTime
        /\ \E made \in SUBSET Users :
              /\ born \in [made -> 0..now]
              /\ \E u \in made : accounts = <<u>>
        /\ stamped = [e \in Entries |-> NoEntry]
        /\ arriving = {} /\ log = {}
        /\ walk = [w \in Walks |-> NewWalk]
        /\ cached = [p \in PageNumbers |-> NoPage]
        /\ lister = [r \in Listers |-> NewLister]

Next == \/ \E e \in Entries :
              \/ \E u, by \in Users : CreateAccount(e, u, by)
              \/ \E u \in Users : Act(e, u)
              \/ Insert(e) \/ RejectInsert(e)
        \/ \E w \in Walks :
              \/ \E email \in Users \union {Anyone} : Begin(w, email)
              \/ ResolveActor(w) \/ FindMany(w) \/ NameActors(w)
              \/ NextPage(w) \/ RejectWalk(w)
        \/ \E r \in Listers :
              \/ \E page \in PageNumbers : AskPage(r, page)
              \/ GetCachedPage(r) \/ SelectPage(r) \/ CountUsers(r)
              \/ CachePage(r) \/ RejectLister(r)
        \/ \E page \in PageNumbers : ExpirePage(page)
        \/ \E u \in Users : MakeUser(u)
        \/ Tick

Spec == Init /\ [][Next]_vars

-----------------------------------------------------------------------------
Step == {"idle", "resolve", "find", "name", "paged", "done"}
Load == {"idle", "get", "select", "count", "set", "done"}

TypeOK ==
    /\ now \in Nat
    /\ accounts \in Seq(Users)
    /\ DOMAIN born \subseteq Users /\ born \in [DOMAIN born -> Nat]
    /\ stamped \in [Entries -> Row \union {NoEntry}]
    /\ arriving \subseteq Entries /\ log \subseteq Entries
    /\ \A e \in arriving \union log : stamped[e] # NoEntry
    /\ \A w \in Walks :
          /\ walk[w].at \in Step
          /\ walk[w].page \subseteq log /\ Cardinality(walk[w].page) <= Limit
          /\ walk[w].cursor \in log \union {NoEntry}
    /\ cached \in [PageNumbers -> (SUBSET Users) \union {NoPage}]
    /\ \A r \in Listers : /\ lister[r].at \in Load
                          /\ lister[r].users \subseteq Users
                          /\ lister[r].total \in Nat

\* Every entry of an answered page was written by the actor whose e-mail was
\* asked for, and is shown with its actor's name: an e-mail without an account
\* lists nothing, and an account is there before the trail names it, although
\* nobody awaits the trail.
ListsWhatMatches ==
    \A w \in Walks : walk[w].at \in {"paged", "done"} =>
       \A e \in walk[w].page :
          /\ Satisfies(e, walk[w].email)
          /\ e \in walk[w].named

\* Whether c has the timestamp of e.
Tied(e, c) == stamped[e].createdAt = stamped[c].createdAt

\* A walk meets no entry twice, and at its end has met each that was there
\* when it began, except entries made in the millisecond of one of its
\* cursors, whatever is written to the trail meanwhile.
WalksAreExactButForTies ==
    \A w \in Walks :
       /\ \A e \in walk[w].twice : \E c \in walk[w].cursors : Tied(e, c)
       /\ walk[w].at = "done" =>
             \A e \in walk[w].standing \ walk[w].seen :
                \E c \in walk[w].cursors : Tied(e, c)

\* A page of users that is answered is that page of the table as it was at a
\* moment of the request, by createdAt though inserts overlap, with the number
\* of users at a moment of the request; so none is answered from the cache,
\* where a page may have grown old.
ListedAsItIs ==
    \A r \in Listers : lister[r].at = "done" =>
       \E n1, n2 \in lister[r].from .. Len(accounts) :
          /\ UsersOn(Table(n1), lister[r].page, lister[r].users)
          /\ lister[r].total = n2
===============================================================================
