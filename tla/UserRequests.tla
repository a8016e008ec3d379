----------------------------- MODULE UserRequests -----------------------------
(***************************************************************************)
(* Requests on users: the use cases of domain/user that load one user,     *)
(* change or note something about it and raise one domain event, over      *)
(* PrismaUsersRepository (a Postgres row and a Redis copy of it kept       *)
(* cache-aside), the domain-event bus and the audit log its subscribers    *)
(* write.                                                                  *)
(*                                                                         *)
(* Node runs each stretch of code between two awaits without interruption, *)
(* so an action is one such stretch; whatever two requests await may be    *)
(* answered in any order.                                                  *)
(***************************************************************************)
EXTENDS UserRow, Naturals, FiniteSets, Sequences, Functions

CONSTANTS
    Users,
    Requests,     \* a request, and the User aggregate it loads
    UserOf,       \* UserOf[r]: the user in r's route, token or body
    Inputs,       \* what requests may ask for
    InitialRow,
    MaxInFlight,  \* requests on one user in flight at a time
    MaxCrashes,   \* bound on process crashes
    MayFail       \* the services whose calls may be rejected

ASSUME RequestsAssumption ==
    /\ UserOf \in [Requests -> Users]
    /\ Inputs \subseteq Input
    /\ InitialRow \in Row
    /\ NoRow \notin Row
    /\ MaxInFlight \in Nat /\ MaxCrashes \in Nat
    /\ MayFail \subseteq {"db", "cache", "mail", "audit"}

VARIABLES
    rows,      \* rows[u]: the users row of u, or NoRow
    cache,     \* cache[u]: the Redis entry user:{u}:details, or NoRow
    pc,        \* pc[r]: what request r awaits
    input,     \* input[r]: what r asks for
    loaded,    \* loaded[r]: the row r's aggregate was built from
    update,    \* update[r]: r's prisma.user.update, a promise
    purge,     \* purge[r]: r's cache.del, a promise
    bus,       \* the domain-event bus; r raises at most one event, also "r"
    written,   \* positions of bus.dispatched whose audit row is inserted
    lost,      \* positions of bus.dispatched whose audit insert is lost
    crashes,
    committed  \* committed[u]: every row u has had (history variable)

vars == <<rows, cache, pc, input, loaded, update, purge, bus, written, lost,
          crashes, committed>>

Bus == INSTANCE DomainEvents
       WITH Aggregates <- Requests, Ids <- Users, IdOf <- UserOf,
            Events <- Requests

-----------------------------------------------------------------------------
InFlightPc == {"get", "select", "set", "selectByEmail", "loaded", "saving"}
Promise    == {"none", "pending", "ok", "rejected"}

InFlight(u) == {r \in Requests : UserOf[r] = u /\ pc[r] \in InFlightPc}

AuditPending == DOMAIN bus.dispatched \ (written \union lost)

Init == /\ rows \in [Users -> {InitialRow, NoRow}]
        /\ cache = [u \in Users |-> NoRow]
        /\ pc = [r \in Requests |-> "idle"]
        /\ input = [r \in Requests |-> [kind |-> "read"]]
        /\ loaded = [r \in Requests |-> NoRow]
        /\ update = [r \in Requests |-> "none"]
        /\ purge = [r \in Requests |-> "none"]
        /\ Bus!Init
        /\ written = {} /\ lost = {} /\ crashes = 0
        /\ committed = [u \in Users |-> {rows[u]} \ {NoRow}]

Goto(r, label) == pc' = [pc EXCEPT ![r] = label]

\* The controller hands the request to its use case, which looks the user up:
\* by e-mail for a login or a forgotten password, by id otherwise.
Start(r, in) ==
    /\ pc[r] = "idle"
    /\ Cardinality(InFlight(UserOf[r])) < MaxInFlight
    /\ input' = [input EXCEPT ![r] = in]
    /\ Goto(r, IF in.kind \in {"login", "forgot"} THEN "selectByEmail"
                                                  ELSE "get")
    /\ UNCHANGED <<rows, cache, loaded, update, purge, bus, written, lost,
                   crashes, committed>>

-----------------------------------------------------------------------------
(* PrismaUsersRepository.findById and findByEmail *)

FindInCache(r) ==
    LET u == UserOf[r] IN
    /\ pc[r] = "get"
    /\ IF cache[u] # NoRow
       THEN Goto(r, "loaded") /\ loaded' = [loaded EXCEPT ![r] = cache[u]]
       ELSE Goto(r, "select") /\ UNCHANGED loaded
    /\ UNCHANGED <<rows, cache, input, update, purge, bus, written, lost,
                   crashes, committed>>

\* A miss reads the row; findByEmail always does.  No row: the use case ends.
SelectRow(r) ==
    LET u == UserOf[r] IN
    /\ pc[r] \in {"select", "selectByEmail"}
    /\ IF rows[u] = NoRow
       THEN Goto(r, "done") /\ UNCHANGED loaded
       ELSE /\ Goto(r, IF pc[r] = "select" THEN "set" ELSE "loaded")
            /\ loaded' = [loaded EXCEPT ![r] = rows[u]]
    /\ UNCHANGED <<rows, cache, input, update, purge, bus, written, lost,
                   crashes, committed>>

FillCache(r) ==
    /\ pc[r] = "set"
    /\ cache' = [cache EXCEPT ![UserOf[r]] = loaded[r]]
    /\ Goto(r, "loaded")
    /\ UNCHANGED <<rows, input, loaded, update, purge, bus, written, lost,
                   crashes, committed>>

\* Mutant: the entry is set without a TTL.
NeverExpire(u) == FALSE /\ UNCHANGED vars

\* Redis drops the entry ten minutes after it was set.
Expire(u) ==
    /\ cache[u] # NoRow
    /\ cache' = [cache EXCEPT ![u] = NoRow]
    /\ UNCHANGED <<rows, pc, input, loaded, update, purge, bus, written, lost,
                   crashes, committed>>

-----------------------------------------------------------------------------
(* The use cases, once they hold the user *)

\* GET /users/:id answers, and the client may come again.
AnswerRead(r) ==
    /\ pc[r] = "loaded" /\ input[r].kind = "read"
    /\ Goto(r, "idle")
    /\ loaded' = [loaded EXCEPT ![r] = NoRow]
    /\ UNCHANGED <<rows, cache, input, update, purge, bus, written, lost,
                   crashes, committed>>

\* Inactive user, or a password that does not match the aggregate's hash.
Refuse(r) ==
    /\ pc[r] = "loaded" /\ ~Permitted(loaded[r], input[r])
    /\ Goto(r, "done")
    /\ UNCHANGED <<rows, cache, input, loaded, update, purge, bus, written,
                   lost, crashes, committed>>

\* The domain method changes the aggregate and raises its event, and save
\* issues the update of the whole row and the cache.del, in one stretch.  An
\* edit that changes nothing raises nothing and is saved all the same.
EditAndSave(r) ==
    /\ pc[r] = "loaded" /\ input[r] \in EditInput
    /\ Permitted(loaded[r], input[r])
    /\ bus' = IF Raises(loaded[r], input[r])
              THEN Bus!AddDomainEvent(bus, r, r) ELSE bus
    /\ update' = [update EXCEPT ![r] = "pending"]
    /\ purge' = [purge EXCEPT ![r] = "pending"]
    /\ Goto(r, "saving")
    /\ UNCHANGED <<rows, cache, input, loaded, written, lost, crashes,
                   committed>>

\* login, logout and requestPasswordReset, followed by repository.dispatchEvent
\* without an await in between.
NoteAndDispatch(r) ==
    /\ pc[r] = "loaded" /\ input[r] \in NoteInput
    /\ Permitted(loaded[r], input[r])
    /\ bus' = Bus!DispatchEventsForAggregate(
                 Bus!AddDomainEvent(bus, r, r), UserOf[r])
    /\ Goto(r, "done")
    /\ UNCHANGED <<rows, cache, input, loaded, update, purge, written, lost,
                   crashes, committed>>

-----------------------------------------------------------------------------
(* PrismaUsersRepository.save: Promise.all of an update and a cache.del *)

Commit(r) ==
    LET u == UserOf[r]
        data == Edited(loaded[r], input[r])   \* PrismaUserMapper.toPrisma
    IN  /\ rows' = [rows EXCEPT ![u] = data]
        /\ committed' = [committed EXCEPT ![u] = @ \union {data}]

UpdateRow(r) ==
    /\ update[r] = "pending"
    /\ Commit(r)
    /\ update' = [update EXCEPT ![r] = "ok"]
    /\ UNCHANGED <<cache, pc, input, loaded, purge, bus, written, lost,
                   crashes>>

\* Mutants of the cache.del: a write of the edited row, before the update is
\* answered; no purge at all.
WriteThrough(r) ==
    /\ purge[r] = "pending"
    /\ cache' = [cache EXCEPT ![UserOf[r]] = Edited(loaded[r], input[r])]
    /\ purge' = [purge EXCEPT ![r] = "ok"]
    /\ UNCHANGED <<rows, pc, input, loaded, update, bus, written, lost,
                   crashes, committed>>
SkipPurge(r) ==
    /\ purge[r] = "pending"
    /\ purge' = [purge EXCEPT ![r] = "ok"]
    /\ UNCHANGED <<rows, cache, pc, input, loaded, update, bus, written, lost,
                   crashes, committed>>

PurgeCache(r) ==
    /\ purge[r] = "pending"
    /\ cache' = [cache EXCEPT ![UserOf[r]] = NoRow]
    /\ purge' = [purge EXCEPT ![r] = "ok"]
    /\ UNCHANGED <<rows, pc, input, loaded, update, bus, written, lost,
                   crashes, committed>>

\* Mutant: the rejection is swallowed and nobody answers the request.
SwallowRejection(r) == UNCHANGED pc

\* Promise.all rejects with the first rejection; the other call goes on.
RejectSave(r) == pc' = [pc EXCEPT ![r] = IF @ = "saving" THEN "failed" ELSE @]

\* The update is rejected; if only its answer was lost, the row is written.
RejectUpdate(r) ==
    /\ "db" \in MayFail /\ update[r] = "pending"
    /\ Commit(r) \/ UNCHANGED <<rows, committed>>
    /\ update' = [update EXCEPT ![r] = "rejected"]
    /\ RejectSave(r)
    /\ UNCHANGED <<cache, input, loaded, purge, bus, written, lost, crashes>>

RejectPurge(r) ==
    /\ "cache" \in MayFail /\ purge[r] = "pending"
    /\ purge' = [purge EXCEPT ![r] = "rejected"]
    /\ RejectSave(r)
    /\ UNCHANGED <<rows, cache, input, loaded, update, bus, written, lost,
                   crashes, committed>>

\* Mutant: the saved aggregate is dispatched itself, marked or not.
CompleteSaveOfObject(r) ==
    /\ pc[r] = "saving" /\ update[r] = "ok" /\ purge[r] = "ok"
    /\ bus' = Bus!DispatchAggregate(bus, r)
    /\ Goto(r, "done")
    /\ UNCHANGED <<rows, cache, input, loaded, update, purge, written, lost,
                   crashes, committed>>

\* Both calls answered: the identity's marked aggregate is dispatched.
CompleteSave(r) ==
    /\ pc[r] = "saving" /\ update[r] = "ok" /\ purge[r] = "ok"
    /\ bus' = Bus!DispatchEventsForAggregate(bus, UserOf[r])
    /\ Goto(r, "done")
    /\ UNCHANGED <<rows, cache, input, loaded, update, purge, written, lost,
                   crashes, committed>>

\* Any other awaited call is rejected: the lookup's, or what login, logout,
\* forgot-password and edit-user await before they raise (refresh token, mail,
\* the tables of avatars and addresses).
Fail(r) ==
    /\ \/ pc[r] \in {"select", "selectByEmail"} /\ "db" \in MayFail
       \/ pc[r] \in {"get", "set"} /\ "cache" \in MayFail
       \/ /\ pc[r] = "loaded" /\ Permitted(loaded[r], input[r])
          /\ \/ input[r].kind \in {"login", "logout"} /\ "cache" \in MayFail
             \/ input[r].kind = "forgot" /\ "mail" \in MayFail
             \/ input[r].kind = "edit" /\ "db" \in MayFail
    /\ Goto(r, "failed")
    /\ UNCHANGED <<rows, cache, input, loaded, update, purge, bus, written,
                   lost, crashes, committed>>

-----------------------------------------------------------------------------
(* The audit subscribers, whose promises nobody awaits, and the process *)

\* Mutant: only the events of saved edits are audited.
InsertAuditRowOfSave(i) ==
    /\ i \in AuditPending /\ update[bus.dispatched[i]] = "ok"
    /\ written' = written \union {i}
    /\ UNCHANGED <<rows, cache, pc, input, loaded, update, purge, bus, lost,
                   crashes, committed>>

InsertAuditRow(i) ==
    /\ i \in AuditPending
    /\ written' = written \union {i}
    /\ UNCHANGED <<rows, cache, pc, input, loaded, update, purge, bus, lost,
                   crashes, committed>>

\* The process ends.  Requests in flight get no answer, the bus is gone; a
\* call already sent may still arrive, or never.
EndProcess(lostAudits) ==
    /\ crashes < MaxCrashes
    /\ crashes' = crashes + 1
    /\ pc' = [r \in Requests |->
                 IF pc[r] \in InFlightPc THEN "failed" ELSE pc[r]]
    /\ bus' = Bus!AfterRestart(bus)
    /\ \E unsent \in SUBSET {r \in Requests : update[r] = "pending"} :
          update' = [r \in Requests |->
                        IF r \in unsent THEN "rejected" ELSE update[r]]
    /\ \E unsent \in SUBSET {r \in Requests : purge[r] = "pending"} :
          purge' = [r \in Requests |->
                       IF r \in unsent THEN "rejected" ELSE purge[r]]
    /\ lost' = lost \union lostAudits
    /\ UNCHANGED <<rows, cache, input, loaded, written, committed>>

Crash == \E lostAudits \in SUBSET AuditPending : EndProcess(lostAudits)

\* A subscriber's rejection is unhandled, which ends a Node 20 process.
RejectAuditInsert(i) ==
    /\ "audit" \in MayFail /\ i \in AuditPending
    /\ \E others \in SUBSET (AuditPending \ {i}) :
          EndProcess(others \union {i})

-----------------------------------------------------------------------------
Serve(r) == \/ FindInCache(r) \/ SelectRow(r) \/ FillCache(r)
            \/ AnswerRead(r) \/ Refuse(r)
            \/ EditAndSave(r) \/ NoteAndDispatch(r)
            \/ UpdateRow(r) \/ PurgeCache(r) \/ CompleteSave(r)

Next == \/ \E r \in Requests, in \in Inputs : Start(r, in)
        \/ \E r \in Requests : Serve(r)
        \/ \E r \in Requests : RejectUpdate(r) \/ RejectPurge(r) \/ Fail(r)
        \/ \E u \in Users : Expire(u)
        \/ \E i \in DOMAIN bus.dispatched :
              InsertAuditRow(i) \/ RejectAuditInsert(i)
        \/ Crash

Spec == Init /\ [][Next]_vars

\* The event loop starves no promise, Redis enforces the TTL and Postgres
\* answers; nothing obliges clients to come or calls to fail.
Fairness == /\ \A r \in Requests :
                  /\ WF_vars(FindInCache(r) \/ SelectRow(r) \/ FillCache(r))
                  /\ WF_vars(AnswerRead(r) \/ Refuse(r) \/ EditAndSave(r)
                                \/ NoteAndDispatch(r))
                  /\ WF_vars(UpdateRow(r))
                  /\ WF_vars(PurgeCache(r))
                  /\ WF_vars(CompleteSave(r))
            /\ \A u \in Users : WF_vars(Expire(u))
            /\ WF_vars(\E i \in DOMAIN bus.dispatched : InsertAuditRow(i))

FairSpec == Spec /\ Fairness

-----------------------------------------------------------------------------
TypeOK ==
    /\ rows \in [Users -> Row \union {NoRow}]
    /\ cache \in [Users -> Row \union {NoRow}]
    /\ pc \in [Requests -> InFlightPc \union {"idle", "done", "failed"}]
    /\ input \in [Requests -> Input]
    /\ loaded \in [Requests -> Row \union {NoRow}]
    /\ update \in [Requests -> Promise]
    /\ purge \in [Requests -> Promise]
    /\ Bus!TypeOK
    /\ written \subseteq Nat /\ lost \subseteq Nat
    /\ crashes \in 0..MaxCrashes
    /\ committed \in [Users -> SUBSET Row]

\* A marked aggregate belongs to a save that is not over or that failed.  A
\* save that completed leaves no mark, whichever of the user's aggregates it
\* dispatched, so the static list grows only by failures.
MarkedIsUnfinished ==
    \A r \in bus.marked : pc[r] \in {"saving", "failed"}

\* An event is dispatched at most once and none raised is forgotten by the
\* aggregate before that: interleaved saves of one user never audit twice.
EventDispatchedOnce == Bus!AtMostOnce

\* The cache entry, and any aggregate built from it, is a row the database
\* really held at some moment: never the data of an update that was rejected
\* or is still on its way.
CacheHoldsCommittedRow ==
    /\ \A u \in Users : cache[u] # NoRow => cache[u] \in committed[u]
    /\ \A r \in Requests : loaded[r] # NoRow => loaded[r] \in committed[UserOf[r]]

\* The composed requests use the bus only through its own operations: they
\* are a behaviour of DomainEvents.
UsesBusProperly == Bus!Spec

\* Every request that started is answered, or fails.
RequestsSettle ==
    \A r \in Requests :
       (pc[r] \in InFlightPc) ~> (pc[r] \in {"idle", "done", "failed"})

\* Whatever races and failures left in the cache, once the edits are over it
\* agrees with the row for good, even while reads go on refilling it.
CacheBecomesFresh ==
    <>[](\A u \in Users : cache[u] \in {NoRow, rows[u]})

\* A dispatched event reaches the audit log unless the process ends first.
DispatchedIsAudited ==
    \A i \in 1..Cardinality(Requests) :
       (i \in DOMAIN bus.dispatched) ~> (i \in written \union lost)

-----------------------------------------------------------------------------
EntryOf(r) ==
    [user |-> UserOf[r], input |-> input[r], before |-> loaded[r],
     after |-> IF input[r] \in EditInput THEN Edited(loaded[r], input[r])
                                         ELSE loaded[r]]

\* What the audit trail holds, and of each user what it has yet to be told.
Trail == [i \in DOMAIN bus.dispatched |-> EntryOf(bus.dispatched[i])]

Untold(r) == pc[r] = "saving" /\ update[r] = "ok" /\ Raises(loaded[r], input[r])

Owed == [u \in Users |->
            {EntryOf(r) : r \in {q \in Requests : UserOf[q] = u /\ Untold(q)}}]

Service == INSTANCE AccountService
           WITH account <- rows, owed <- Owed, trail <- Trail

\* A user's requests come one at a time and what they need of the database and
\* of Redis does not fail; and the process does not end either.
Orderly == MaxInFlight <= 1 /\ MayFail \subseteq {"mail", "audit"}
Serial  == Orderly /\ MaxCrashes = 0

\* If Serial, the cache and the bus are invisible, whatever the mailer does and
\* whatever happens on other users meanwhile: every edit applies to the current
\* row, and the trail is complete and in order.
ActsAsAccountService == Service!Spec

\* If Serial, the audit trail alone tells every user's row: each entry starts from
\* the row the one before it left, and the last one leaves the row that is
\* stored, unless its save is not over.
TrailTellsRows == Service!TrailTellsAccounts

\* Saving a user dispatches its event (the comments of domain-events.spec.ts,
\* the audit tests).
SavedEditIsDispatched ==
    \A r \in Requests :
       (pc[r] = "done" /\ update[r] = "ok" /\ Raises(loaded[r], input[r]))
          => r \in Range(bus.dispatched)
=============================================================================
