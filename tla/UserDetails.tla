----------------------------- MODULE UserDetails -----------------------------
(***************************************************************************)
(* create-user and edit-user: a user's row and its addresses, written by   *)
(* separate calls.  Addresses are replaced in a transaction that deletes   *)
(* and creates them.  Postgres, which is external, runs it READ COMMITTED: *)
(* the delete sees the rows committed when it begins, takes them row by    *)
(* row, in an order of its own, waits for a row that another transaction   *)
(* is deleting, and fails when transactions wait for each other.           *)
(*                                                                         *)
(* Cache and events of save and create are as in UserRequests, and left    *)
(* out here, as are names and avatars.  A request to create a user is also *)
(* the user's id.                                                          *)
(***************************************************************************)
EXTENDS Naturals, FiniteSets

CONSTANTS
    Requests,
    Kinds,     \* what requests may ask for
    Emails,
    EmailOf,   \* EmailOf[r]: of the user r creates
    Places,    \* what an address says: street, number and the rest
    Lists,     \* the lists of addresses requests send
    MayFail    \* the database may reject calls

ASSUME DetailsAssumption ==
    /\ Kinds \subseteq {"create", "edit", "rename"}
    /\ EmailOf \in [Requests -> Emails]
    /\ IsFiniteSet(Requests)
    /\ IsFiniteSet(Places) /\ Lists \subseteq SUBSET Places /\ {} \in Lists
    /\ MayFail \in BOOLEAN

VARIABLES
    users,    \* rows of the users table
    address,  \* rows of the address table
    pc,       \* pc[r]: the call r awaits
    ask,      \* ask[r]: what r asks for
    deletes,  \* deletes[r]: rows the delete of r has before it
    locked,   \* locked[r]: rows r's transaction has deleted, until its end
    stood     \* stood[r]: addresses of its user when the delete of r began

vars == <<users, address, pc, ask, deletes, locked, stood>>

Row     == [id : Requests, email : Emails]
Address == [user : Requests, by : Requests, place : Places]
Ask     == [kind : Kinds, user : Requests, list : Lists]

Awaiting == {"findByEmail", "insert", "findById", "findMany", "delete", "lock",
             "commit", "save"}

AddressesOf(u) == {a \in address : a.user = u}

\* Mutant of ListOf: one row for the whole list.
ListOfOne(r) == [user : {ask[r].user}, by : {r}, place : {ask[r].list}]

ListOf(r) == [user : {ask[r].user}, by : {r}, place : ask[r].list]

\* Mutant of ToDelete: no where.
ToDeleteAny(r) == address

\* deleteMany({ where: { userId } })
ToDelete(r) == AddressesOf(ask[r].user)

Init == /\ users = {} /\ address = {}
        /\ pc = [r \in Requests |-> "idle"]
        /\ ask \in [Requests -> Ask]
        /\ \A r \in Requests : ask[r].kind = "create" => ask[r].user = r
        /\ \A r \in Requests : ask[r].kind = "rename" => ask[r].list = {}
        /\ deletes = [r \in Requests |-> {}]
        /\ locked = [r \in Requests |-> {}]
        /\ stood = [r \in Requests |-> {}]

Goto(r, label) == pc' = [pc EXCEPT ![r] = label]

Arrive(r) ==
    /\ pc[r] = "idle"
    /\ Goto(r, IF ask[r].kind = "create" THEN "findByEmail" ELSE "findById")
    /\ UNCHANGED <<users, address, ask, deletes, locked, stood>>

-----------------------------------------------------------------------------
(* create-user *)

EmailTaken(r) == \E x \in users : x.email = EmailOf[r]

FindByEmail(r) ==
    /\ pc[r] = "findByEmail"
    /\ Goto(r, IF EmailTaken(r) THEN "refused" ELSE "insert")
    /\ UNCHANGED <<users, address, ask, deletes, locked, stood>>

InsertRow(r) == users' = users \union {[id |-> r, email |-> EmailOf[r]]}

\* Mutant of Insert: the column is not unique.
InsertAnyway(r) ==
    /\ pc[r] = "insert"
    /\ Goto(r, "delete") /\ InsertRow(r)
    /\ UNCHANGED <<address, ask, deletes, locked, stood>>

\* Mutant of Insert: the addresses are not written.
InsertRowOnly(r) ==
    /\ pc[r] = "insert"
    /\ IF EmailTaken(r)
       THEN Goto(r, "failed") /\ UNCHANGED users
       ELSE Goto(r, "done") /\ InsertRow(r)
    /\ UNCHANGED <<address, ask, deletes, locked, stood>>

\* The column email is unique: who lost the race gets an error.
Insert(r) ==
    /\ pc[r] = "insert"
    /\ IF EmailTaken(r)
       THEN Goto(r, "failed") /\ UNCHANGED users
       ELSE Goto(r, "delete") /\ InsertRow(r)
    /\ UNCHANGED <<address, ask, deletes, locked, stood>>

-----------------------------------------------------------------------------
(* edit-user *)

FindById(r) ==
    /\ pc[r] = "findById"
    /\ Goto(r, CASE \A x \in users : x.id # ask[r].user -> "refused"
                 [] ask[r].kind = "rename"              -> "save"
                 [] OTHER                               -> "findMany")
    /\ UNCHANGED <<users, address, ask, deletes, locked, stood>>

\* UserAddressWatcher.hasChanged compares address by address: the order rows
\* come in is anybody's, and an omitted complement differs from a null one.
HasChanged(r) ==
    LET current == AddressesOf(ask[r].user) IN
    CASE Cardinality(current) # Cardinality(ask[r].list)
           \/ {a.place : a \in current} # ask[r].list -> {TRUE}
      [] ask[r].list = {}                             -> {FALSE}
      [] OTHER                                        -> BOOLEAN

FindMany(r) ==
    /\ pc[r] = "findMany"
    /\ \E changed \in HasChanged(r) :
          Goto(r, IF changed THEN "delete" ELSE "save")
    /\ UNCHANGED <<users, address, ask, deletes, locked, stood>>

Save(r) ==
    /\ pc[r] = "save"
    /\ Goto(r, "done")
    /\ UNCHANGED <<users, address, ask, deletes, locked, stood>>

-----------------------------------------------------------------------------
(* upsertManyForUser *)

\* The delete begins, with what is committed now.
Delete(r) ==
    /\ pc[r] = "delete"
    /\ deletes' = [deletes EXCEPT ![r] = ToDelete(r)]
    /\ stood' = [stood EXCEPT ![r] = AddressesOf(ask[r].user)]
    /\ Goto(r, "lock")
    /\ UNCHANGED <<users, address, ask, locked>>

LockedByAnother(r, a) == \E q \in Requests \ {r} : a \in locked[q]

\* The delete is done with the row a.
Pass(r, a) == deletes' = [deletes EXCEPT ![r] = @ \ {a}]

\* Mutant of DeleteRow: a row another transaction has is skipped.
SkipLockedRow(r, a) ==
    /\ pc[r] = "lock" /\ a \in deletes[r]
    /\ Pass(r, a)
    /\ locked' = IF a \notin address \/ LockedByAnother(r, a) THEN locked
                 ELSE [locked EXCEPT ![r] = @ \union {a}]
    /\ UNCHANGED <<users, address, pc, ask, stood>>

\* The delete takes a row that no other transaction has; one that is gone
\* meanwhile it passes over.
DeleteRow(r, a) ==
    /\ pc[r] = "lock" /\ a \in deletes[r] /\ ~LockedByAnother(r, a)
    /\ Pass(r, a)
    /\ locked' = IF a \notin address THEN locked
                 ELSE [locked EXCEPT ![r] = @ \union {a}]
    /\ UNCHANGED <<users, address, pc, ask, stood>>

EndDelete(r) ==
    /\ pc[r] = "lock" /\ deletes[r] = {}
    /\ Goto(r, "commit")
    /\ UNCHANGED <<users, address, ask, deletes, locked, stood>>

\* The transaction ends, and with it its locks.
End(r) == /\ deletes' = [deletes EXCEPT ![r] = {}]
          /\ locked' = [locked EXCEPT ![r] = {}]

\* The next row of r may be one that q has.
WaitsFor(r, q) == /\ pc[r] = "lock" /\ q # r
                  /\ deletes[r] \intersect locked[q] # {}

\* Each of S waits for all the others, by way of one another.
Deadlock(S) ==
    /\ \A q \in S : \E p \in S : WaitsFor(q, p)
    /\ \A T \in (SUBSET S) \ {{}, S} : \E q \in T, p \in S \ T : WaitsFor(q, p)

\* Mutant: nobody looks for deadlocks.
DetectNothing(r) == FALSE

\* Postgres rolls one of the transactions back.
DetectDeadlock(r) ==
    /\ \E S \in SUBSET Requests : r \in S /\ Deadlock(S)
    /\ End(r)
    /\ Goto(r, "failed")
    /\ UNCHANGED <<users, address, ask, stood>>

\* Mutant of Replace: no transaction, a create may fail between two others.
ReplacePartly(r) ==
    /\ \E some \in SUBSET ListOf(r) :
          address' = (address \ locked[r]) \union some
    /\ End(r)

Replace(r) == /\ address' = (address \ locked[r]) \union ListOf(r)
              /\ End(r)

\* The creates follow, unseen until the commit.
Commit(r) ==
    /\ pc[r] = "commit"
    /\ Replace(r)
    /\ Goto(r, IF ask[r].kind = "create" THEN "done" ELSE "save")
    /\ UNCHANGED <<users, ask, stood>>

\* A call is rejected, or its answer is lost; a transaction is rolled back,
\* or was committed.
Fail(r) ==
    /\ MayFail /\ pc[r] \in Awaiting
    /\ \/ UNCHANGED <<users, address>> /\ End(r)
       \/ pc[r] = "insert" /\ ~EmailTaken(r) /\ InsertRow(r)
          /\ UNCHANGED <<address, deletes, locked>>
       \/ pc[r] = "commit" /\ Replace(r) /\ UNCHANGED users
    /\ Goto(r, "failed")
    /\ UNCHANGED <<ask, stood>>

\* What the database answers to a transaction that deletes.
Locking(r) == \/ \E a \in deletes[r] : DeleteRow(r, a)
              \/ EndDelete(r) \/ DetectDeadlock(r)

Next == \E r \in Requests :
           \/ Arrive(r)
           \/ FindByEmail(r) \/ Insert(r)
           \/ FindById(r) \/ FindMany(r) \/ Save(r)
           \/ Delete(r) \/ Locking(r) \/ Commit(r)
           \/ Fail(r)

Spec == Init /\ [][Next]_vars

\* The database answers, and the event loop goes on.
FairSpec == Spec /\ \A r \in Requests :
                      WF_vars(\/ FindByEmail(r) \/ Insert(r) \/ FindById(r)
                              \/ FindMany(r) \/ Save(r) \/ Delete(r)
                              \/ Locking(r) \/ Commit(r))

-----------------------------------------------------------------------------
TypeOK ==
    /\ users \subseteq Row
    /\ address \subseteq Address
    /\ pc \in [Requests -> Awaiting \union {"idle", "done", "refused", "failed"}]
    /\ ask \in [Requests -> Ask]
    /\ deletes \in [Requests -> SUBSET Address]
    /\ locked \in [Requests -> SUBSET Address]
    /\ stood \in [Requests -> SUBSET Address]

\* Of the addresses a request wrote all are there or none, whatever other
\* requests replace meanwhile.
AddressesAreWhole ==
    \A r \in Requests :
       {a.place : a \in {x \in address : x.by = r}} \in {{}, ask[r].list}

\* An address goes only when another request for the same user commits.
ReplacedByItsUser ==
    [][\A a \in address \ address' :
          \E r \in Requests : /\ pc[r] = "commit" /\ pc'[r] # "commit"
                              /\ ask[r].user = a.user /\ r # a.by]_vars

\* A replacement that was answered leaves none of the addresses that stood when
\* its delete began, whether it took them itself or waited for another that
\* took them, or that was rolled back.  What others commit later may stay.
StandingAddressesGo ==
    \A r \in Requests : pc[r] \in {"save", "done"} => stood[r] \intersect address = {}

\* Of the creations of one e-mail one at most is answered, though all of them
\* found it free.
EmailCreatedOnce ==
    \A q, r \in Requests :
       (/\ ask[q].kind = "create" /\ ask[r].kind = "create"
        /\ pc[q] = "done" /\ pc[r] = "done"
        /\ EmailOf[q] = EmailOf[r]) => q = r

\* A user whose creation was answered has its addresses, until an edit of
\* that user replaces them.
CreationIsComplete ==
    \A r \in Requests : (ask[r].kind = "create" /\ pc[r] = "done") =>
       /\ \E x \in users : x.id = r
       /\ \/ ListOf(r) \subseteq address
          \/ \E q \in Requests : /\ ask[q].kind = "edit" /\ ask[q].user = r
                                 /\ pc[q] \in {"save", "done", "failed"}

\* Requests are answered: those that wait for rows another one deletes, too,
\* even when that one waits for theirs.
DetailsSettle ==
    \A r \in Requests :
       pc[r] # "idle" ~> pc[r] \in {"done", "refused", "failed"}
===============================================================================
