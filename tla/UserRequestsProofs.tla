-------------------------- MODULE UserRequestsProofs --------------------------
(***************************************************************************)
(* UserRequests, proved for any number of users, requests, crashes and any *)
(* failures.  The bus lemmas of DomainEventsProofs are used with requests  *)
(* as aggregates.  Then what holds besides when a user's requests come one *)
(* at a time, up to the refinement of AccountService, and why no request   *)
(* is ever stuck.                                                          *)
(***************************************************************************)
EXTENDS UserRequests, FiniteSetTheorems, TLAPS

BusFacts == INSTANCE DomainEventsProofs
            WITH Aggregates <- Requests, Ids <- Users, IdOf <- UserOf,
                 Events <- Requests

Raised == {"saving", "done", "failed"}

\* Types of everything but the bus, and what a request holds where it stands:
\* a request that is saving has an edit to save and a row to save it over.
Types ==
    /\ rows \in [Users -> Row \union {NoRow}]
    /\ cache \in [Users -> Row \union {NoRow}]
    /\ pc \in [Requests -> InFlightPc \union {"idle", "done", "failed"}]
    /\ input \in [Requests -> Input]
    /\ loaded \in [Requests -> Row \union {NoRow}]
    /\ update \in [Requests -> Promise]
    /\ purge \in [Requests -> Promise]
    /\ written \subseteq Nat /\ lost \subseteq Nat
    /\ crashes \in 0..MaxCrashes
    /\ committed \in [Users -> SUBSET Row]

Held ==
    \A r \in Requests :
       /\ pc[r] \in {"set", "loaded"} => loaded[r] \in Row
       /\ update[r] # "none" => /\ pc[r] \in Raised
                                /\ loaded[r] \in Row
                                /\ input[r] \in EditInput

\* The bus is well formed; r raises the event r and no other, not before it
\* saves or notes.
BusUse ==
    /\ BusFacts!BusInv(bus)
    /\ \A r \in Requests : Range(bus.events[r]) \subseteq {r}
    /\ \A r \in Requests : pc[r] \notin Raised =>
          /\ r \notin Range(bus.events[r])
          /\ r \notin Range(bus.dispatched)

Committed ==
    /\ \A u \in Users : rows[u] # NoRow => rows[u] \in committed[u]
    /\ CacheHoldsCommittedRow

IInv == Types /\ Held /\ BusUse /\ MarkedIsUnfinished /\ Committed

-----------------------------------------------------------------------------
\* A domain method turns a row into a row.
LEMMA EditedIsRow ==
    ASSUME NEW row \in Row, NEW in \in EditInput
    PROVE  Edited(row, in) \in Row
BY DEF Edited, Row, EditInput

LEMMA UserOfRequest == ASSUME NEW r \in Requests PROVE UserOf[r] \in Users
BY RequestsAssumption

\* Inputs a client may send are inputs.
LEMMA InputTypes == Inputs \subseteq Input /\ EditInput \subseteq Input
BY RequestsAssumption DEF Input

\* The assumption DomainEvents makes of its constants holds here.
LEMMA BusConstants == UserOf \in [Requests -> Users]
BY RequestsAssumption

-----------------------------------------------------------------------------
(* Types and Held *)

LEMMA TypesInit == Init => Types /\ Held
BY RequestsAssumption
   DEF Init, Types, Held, InFlightPc, Promise, Input, Row

\* Every action keeps the types and what requests hold.
LEMMA TypesStep ==
    ASSUME Types, Held, bus.dispatched \in Seq(Requests), [Next]_vars
    PROVE  Types' /\ Held'
<1> USE UserOfRequest DEF Types, Held, Raised, Goto
<1>1. ASSUME NEW r \in Requests, NEW in \in Inputs, Start(r, in)
      PROVE  Types' /\ Held'
  BY <1>1, InputTypes DEF Start, InFlightPc
<1>2. ASSUME NEW r \in Requests, FindInCache(r) PROVE Types' /\ Held'
  BY <1>2 DEF FindInCache, InFlightPc
<1>3. ASSUME NEW r \in Requests, SelectRow(r) PROVE Types' /\ Held'
  BY <1>3 DEF SelectRow, InFlightPc
<1>4. ASSUME NEW r \in Requests, FillCache(r) PROVE Types' /\ Held'
  BY <1>4 DEF FillCache, InFlightPc
<1>5. ASSUME NEW r \in Requests, AnswerRead(r) PROVE Types' /\ Held'
  BY <1>5 DEF AnswerRead, InFlightPc
<1>6. ASSUME NEW r \in Requests, Refuse(r) PROVE Types' /\ Held'
  BY <1>6 DEF Refuse, InFlightPc
<1>7. ASSUME NEW r \in Requests, EditAndSave(r) PROVE Types' /\ Held'
  BY <1>7 DEF EditAndSave, InFlightPc, Promise
<1>8. ASSUME NEW r \in Requests, NoteAndDispatch(r) PROVE Types' /\ Held'
  BY <1>8 DEF NoteAndDispatch, InFlightPc
<1>9. ASSUME NEW r \in Requests, update[r] = "pending", Commit(r)
      PROVE  /\ rows' \in [Users -> Row \union {NoRow}]
             /\ committed' \in [Users -> SUBSET Row]
  BY <1>9, EditedIsRow DEF Commit
<1>10. ASSUME NEW r \in Requests, UpdateRow(r) PROVE Types' /\ Held'
  BY <1>9, <1>10 DEF UpdateRow, Promise
<1>11. ASSUME NEW r \in Requests, PurgeCache(r) PROVE Types' /\ Held'
  BY <1>11 DEF PurgeCache, Promise
<1>12. ASSUME NEW r \in Requests, CompleteSave(r) PROVE Types' /\ Held'
  BY <1>12 DEF CompleteSave, InFlightPc
<1>13. ASSUME NEW r \in Requests, RejectUpdate(r) PROVE Types' /\ Held'
  BY <1>9, <1>13 DEF RejectUpdate, RejectSave, Promise, InFlightPc
<1>14. ASSUME NEW r \in Requests, RejectPurge(r) PROVE Types' /\ Held'
  BY <1>14 DEF RejectPurge, RejectSave, Promise, InFlightPc
<1>15. ASSUME NEW r \in Requests, Fail(r) PROVE Types' /\ Held'
  BY <1>15 DEF Fail, InFlightPc
<1>16. ASSUME NEW u \in Users, Expire(u) PROVE Types' /\ Held'
  BY <1>16 DEF Expire
<1>17. AuditPending \subseteq Nat
  BY DEF AuditPending
<1>18. ASSUME NEW S, S \subseteq AuditPending, EndProcess(S)
       PROVE  Types' /\ Held'
  <2>1. /\ pc' = [r \in Requests |->
                    IF pc[r] \in InFlightPc THEN "failed" ELSE pc[r]]
        /\ lost' \subseteq Nat
        /\ crashes' \in 0..MaxCrashes
    BY <1>17, <1>18, RequestsAssumption DEF EndProcess
  <2>2. PICK W : update' = [r \in Requests |->
                              IF r \in W THEN "rejected" ELSE update[r]]
                 /\ W \subseteq {r \in Requests : update[r] = "pending"}
    BY <1>18 DEF EndProcess
  <2>3. PICK V : purge' = [r \in Requests |->
                             IF r \in V THEN "rejected" ELSE purge[r]]
    BY <1>18 DEF EndProcess
  <2>4. UNCHANGED <<rows, cache, input, loaded, written, committed>>
    BY <1>18 DEF EndProcess
  <2>5. Types'
    BY <2>1, <2>2, <2>3, <2>4 DEF Promise, InFlightPc
  <2>6. Held'
    BY <2>1, <2>2, <2>4 DEF InFlightPc
  <2> QED BY <2>5, <2>6
<1>19. ASSUME NEW i \in DOMAIN bus.dispatched, InsertAuditRow(i)
       PROVE  Types' /\ Held'
  BY <1>17, <1>19 DEF InsertAuditRow
<1>20. ASSUME NEW i \in DOMAIN bus.dispatched, RejectAuditInsert(i)
       PROVE  Types' /\ Held'
  BY <1>18, <1>20 DEF RejectAuditInsert
<1>21. CASE Crash
  BY <1>18, <1>21 DEF Crash
<1>22. CASE UNCHANGED vars
  BY <1>22 DEF vars
<1> QED
  BY <1>1, <1>2, <1>3, <1>4, <1>5, <1>6, <1>7, <1>8, <1>10, <1>11, <1>12,
     <1>13, <1>14, <1>15, <1>16, <1>19, <1>20, <1>21, <1>22
  DEF Next, Serve

-----------------------------------------------------------------------------
(* The bus *)

\* UserRequests and DomainEventsProofs name the same functions of the bus.
LEMMA SameBus ==
    /\ \A b, a, e : Bus!AddDomainEvent(b, a, e) = BusFacts!AddDomainEvent(b, a, e)
    /\ \A b, id : Bus!DispatchEventsForAggregate(b, id)
                    = BusFacts!DispatchEventsForAggregate(b, id)
    /\ \A b, id : Bus!FindMarked(b, id) = BusFacts!FindMarked(b, id)
    /\ \A b : Bus!AfterRestart(b) = BusFacts!AfterRestart(b)
    /\ \A b, a : Bus!DispatchAggregate(b, a) = BusFacts!DispatchAggregate(b, a)
<1>1. \A b, id : Bus!FindMarked(b, id) = BusFacts!FindMarked(b, id)
  BY DEF Bus!FindMarked, BusFacts!FindMarked
<1>2. \A b, a : Bus!DispatchAggregate(b, a) = BusFacts!DispatchAggregate(b, a)
  BY DEF Bus!DispatchAggregate, BusFacts!DispatchAggregate
<1>3. \A b, a : Bus!MarkAggregateForDispatch(b, a)
                  = BusFacts!MarkAggregateForDispatch(b, a)
  BY <1>1 DEF Bus!MarkAggregateForDispatch, BusFacts!MarkAggregateForDispatch
<1>4. \A b, a, e : Bus!AddDomainEvent(b, a, e) = BusFacts!AddDomainEvent(b, a, e)
  BY <1>3 DEF Bus!AddDomainEvent, BusFacts!AddDomainEvent
<1>5. \A b, id : Bus!DispatchEventsForAggregate(b, id)
                   = BusFacts!DispatchEventsForAggregate(b, id)
  BY DEF Bus!DispatchEventsForAggregate, BusFacts!DispatchEventsForAggregate,
         Bus!FindMarked, BusFacts!FindMarked,
         Bus!DispatchAggregate, BusFacts!DispatchAggregate
<1>6. \A b : Bus!AfterRestart(b) = BusFacts!AfterRestart(b)
  BY DEF Bus!AfterRestart, BusFacts!AfterRestart, Bus!NoEvents,
         BusFacts!NoEvents
<1> QED BY <1>1, <1>2, <1>4, <1>5, <1>6

\* The parts of a well-formed bus the lemmas below use.
BusParts(b) ==
    /\ b = [events |-> b.events, marked |-> b.marked,
            dispatched |-> b.dispatched]
    /\ b.events \in [Requests -> Seq(Requests)]
    /\ b.marked \subseteq Requests
    /\ b.dispatched \in Seq(Requests)
    /\ \A q, r \in b.marked : UserOf[q] = UserOf[r] => q = r

LEMMA SameRange == \A f : BusFacts!Range(f) = Range(f)
BY DEF Range, BusFacts!Range

LEMMA BusPartsOfInv == ASSUME NEW b, BusFacts!BusInv(b) PROVE BusParts(b)
BY DEF BusParts, BusFacts!BusInv, BusFacts!BusType

\* Dispatching an identity leaves no mark on it, adds no mark and no event,
\* and hands over only what was waiting at one of its requests.
LEMMA DispatchFacts ==
    ASSUME NEW b, BusFacts!BusInv(b), NEW u \in Users
    PROVE  LET d == Bus!DispatchEventsForAggregate(b, u) IN
           /\ BusFacts!BusInv(d)
           /\ d.marked = {r \in b.marked : UserOf[r] # u}
           /\ \A r \in Requests : Range(d.events[r]) \subseteq Range(b.events[r])
           /\ \A r \in Requests : r \in Range(d.dispatched) =>
                 \/ r \in Range(b.dispatched)
                 \/ \E q \in Requests : r \in Range(b.events[q])
<1> DEFINE d == Bus!DispatchEventsForAggregate(b, u)
<1>1. BusFacts!BusInv(d)
  BY BusConstants, SameBus, BusFacts!DispatchKeepsBusInv
<1>2. BusParts(b)
  BY BusPartsOfInv
<1>3. CASE Bus!FindMarked(b, u) = {}
  <2>1. d = b
    BY <1>3 DEF Bus!DispatchEventsForAggregate
  <2>2. b.marked = {r \in b.marked : UserOf[r] # u}
    BY <1>3 DEF Bus!FindMarked
  <2> QED BY <1>1, <2>1, <2>2
<1>4. CASE Bus!FindMarked(b, u) # {}
  <2>1. PICK a \in Bus!FindMarked(b, u) : d = Bus!DispatchAggregate(b, a)
    <3>1. (CHOOSE a \in Bus!FindMarked(b, u) : TRUE) \in Bus!FindMarked(b, u)
      BY <1>4
    <3> QED BY <1>4, <3>1 DEF Bus!DispatchEventsForAggregate
  <2> HIDE DEF d
  <2>2. a \in Requests /\ a \in b.marked /\ UserOf[a] = u
    BY <1>2, <2>1 DEF BusParts, Bus!FindMarked
  <2>3. /\ d.events = [b.events EXCEPT ![a] = <<>>]
        /\ d.marked = b.marked \ {a}
        /\ d.dispatched = b.dispatched \o b.events[a]
    BY <2>1 DEF Bus!DispatchAggregate
  <2>4. d.marked = {r \in b.marked : UserOf[r] # u}
    BY <1>2, <2>2, <2>3 DEF BusParts
  <2>5. Range(<<>>) = {}
    BY DEF Range
  <2>6. \A r \in Requests : Range(d.events[r]) \subseteq Range(b.events[r])
    BY <1>2, <2>2, <2>3, <2>5 DEF BusParts
  <2>7. Range(d.dispatched) = Range(b.dispatched) \union Range(b.events[a])
    <3>1. b.dispatched \in Seq(Requests) /\ b.events[a] \in Seq(Requests)
      BY <1>2, <2>2 DEF BusParts
    <3>2. BusFacts!Range(b.dispatched \o b.events[a])
             = BusFacts!Range(b.dispatched) \union BusFacts!Range(b.events[a])
      BY <3>1, BusConstants, BusFacts!ConcatDisjoint
    <3> QED BY <2>3, <3>2, SameRange
  <2> QED BY <1>1, <2>2, <2>4, <2>6, <2>7 DEF d
<1> QED BY <1>3, <1>4

\* Raising an event queues it at its request alone and marks at most that
\* request.
LEMMA AddFacts ==
    ASSUME NEW b, BusFacts!BusInv(b), NEW r \in Requests,
           r \notin Range(b.dispatched),
           \A q \in Requests : r \notin Range(b.events[q])
    PROVE  LET d == Bus!AddDomainEvent(b, r, r) IN
           /\ BusFacts!BusInv(d)
           /\ d.marked \subseteq b.marked \union {r}
           /\ \A q \in Requests :
                 Range(d.events[q]) \subseteq Range(b.events[q])
                    \union (IF q = r THEN {r} ELSE {})
           /\ d.dispatched = b.dispatched
<1> DEFINE d == Bus!AddDomainEvent(b, r, r)
<1>1. BusFacts!FreshIn(b, r)
  BY SameRange DEF BusFacts!FreshIn
<1>2. BusFacts!BusInv(d)
  BY <1>1, BusConstants, SameBus, BusFacts!AddKeepsBusInv
<1>3. BusParts(b)
  BY BusPartsOfInv
<1>4. /\ d.events = [b.events EXCEPT ![r] = Append(@, r)]
      /\ d.dispatched = b.dispatched
      /\ d.marked \subseteq b.marked \union {r}
  BY <1>3 DEF BusParts, Bus!AddDomainEvent, Bus!MarkAggregateForDispatch
<1>5. Range(Append(b.events[r], r)) = Range(b.events[r]) \union {r}
  <2>1. b.events[r] \in Seq(Requests)
    BY <1>3 DEF BusParts
  <2>2. BusFacts!Range(Append(b.events[r], r))
           = BusFacts!Range(b.events[r]) \union {r}
    BY <2>1, BusConstants, BusFacts!AppendFresh
  <2> QED BY <2>2, SameRange
<1>6. \A q \in Requests \ {r} : d.events[q] = b.events[q]
  BY <1>3, <1>4 DEF BusParts
<1>7. d.events[r] = Append(b.events[r], r)
  BY <1>3, <1>4 DEF BusParts
<1> QED BY <1>2, <1>4, <1>5, <1>6, <1>7

-----------------------------------------------------------------------------
(* BusUse and MarkedIsUnfinished *)

\* A step that leaves the bus alone, un-raises no request and completes no
\* save keeps both.
LEMMA BusUntouched ==
    ASSUME BusUse, MarkedIsUnfinished, bus' = bus,
           \A r \in Requests : pc[r] \in Raised => pc'[r] \in Raised,
           \A r \in Requests :
              pc[r] \in {"saving", "failed"} => pc'[r] \in {"saving", "failed"}
    PROVE  BusUse' /\ MarkedIsUnfinished'
<1>1. bus.marked \subseteq Requests
  BY BusPartsOfInv DEF BusUse, BusParts
<1>2. BusFacts!BusInv(bus)'
  BY DEF BusUse, BusFacts!BusInv, BusFacts!BusType
<1> QED BY <1>1, <1>2 DEF BusUse, MarkedIsUnfinished

LEMMA BusUseInit == Init => BusUse /\ MarkedIsUnfinished
<1> SUFFICES ASSUME Init PROVE BusUse /\ MarkedIsUnfinished
  OBVIOUS
<1>1. bus = [events |-> BusFacts!NoEvents, marked |-> {}, dispatched |-> <<>>]
  BY DEF Init, Bus!Init, Bus!NoEvents, BusFacts!NoEvents
<1>2. BusFacts!BusInv(bus)
  BY <1>1, BusConstants, BusFacts!EmptyBus
<1>3. \A r \in Requests : bus.events[r] = <<>>
  BY <1>1 DEF BusFacts!NoEvents
<1>4. bus.marked = {} /\ bus.dispatched = <<>>
  BY <1>1
<1>5. Range(<<>>) = {}
  BY DEF Range
<1> QED BY <1>2, <1>3, <1>4, <1>5 DEF BusUse, MarkedIsUnfinished

\* Every step keeps the bus well used and marks only unfinished requests.
LEMMA BusUseStep ==
    ASSUME Types, Held, BusUse, MarkedIsUnfinished, [Next]_vars
    PROVE  BusUse' /\ MarkedIsUnfinished'
<1> USE UserOfRequest
<1>1. BusFacts!BusInv(bus) /\ BusParts(bus)
  BY BusPartsOfInv DEF BusUse
<1>2. pc \in [Requests -> InFlightPc \union {"idle", "done", "failed"}]
  BY DEF Types
<1>3. ASSUME NEW b, BusFacts!BusInv(b), bus' = b
      PROVE  BusFacts!BusInv(bus)'
  BY <1>3 DEF BusFacts!BusInv, BusFacts!BusType
<1>4. ASSUME NEW r \in Requests, EditAndSave(r)
      PROVE  BusUse' /\ MarkedIsUnfinished'
  <2>1. pc[r] = "loaded" /\ pc' = [pc EXCEPT ![r] = "saving"]
    BY <1>4 DEF EditAndSave, Goto
  <2>2. CASE Raises(loaded[r], input[r])
    <3>1. /\ r \notin Range(bus.dispatched)
          /\ \A q \in Requests : r \notin Range(bus.events[q])
      BY <2>1 DEF BusUse, Raised
    <3>2. bus' = Bus!AddDomainEvent(bus, r, r)
      BY <1>4, <2>2 DEF EditAndSave
    <3>3. /\ BusFacts!BusInv(bus')
          /\ bus'.marked \subseteq bus.marked \union {r}
          /\ \A q \in Requests :
                Range(bus'.events[q]) \subseteq Range(bus.events[q])
                   \union (IF q = r THEN {r} ELSE {})
          /\ bus'.dispatched = bus.dispatched
      BY <1>1, <3>1, <3>2, AddFacts
    <3>4. BusUse'
      BY <1>2, <1>3, <2>1, <3>3 DEF BusUse, Raised
    <3>5. MarkedIsUnfinished'
      BY <1>1, <1>2, <2>1, <3>3 DEF MarkedIsUnfinished, BusParts
    <3> QED BY <3>4, <3>5
  <2>3. CASE ~Raises(loaded[r], input[r])
    <3>1. bus' = bus
      BY <1>4, <2>3 DEF EditAndSave
    <3>2. /\ \A q \in Requests : pc[q] \in Raised => pc'[q] \in Raised
          /\ \A q \in Requests : pc[q] \in {"saving", "failed"}
                => pc'[q] \in {"saving", "failed"}
      BY <1>2, <2>1 DEF Raised
    <3> QED BY <3>1, <3>2, BusUntouched
  <2> QED BY <2>2, <2>3
<1>5. ASSUME NEW r \in Requests, NoteAndDispatch(r)
      PROVE  BusUse' /\ MarkedIsUnfinished'
  <2> DEFINE added == Bus!AddDomainEvent(bus, r, r)
  <2>1. pc[r] = "loaded" /\ pc' = [pc EXCEPT ![r] = "done"]
    BY <1>5 DEF NoteAndDispatch, Goto
  <2>2. /\ r \notin Range(bus.dispatched)
        /\ \A q \in Requests : r \notin Range(bus.events[q])
    BY <2>1 DEF BusUse, Raised
  <2>3. bus' = Bus!DispatchEventsForAggregate(added, UserOf[r])
    BY <1>5 DEF NoteAndDispatch
  <2>4. /\ BusFacts!BusInv(added)
        /\ added.marked \subseteq bus.marked \union {r}
        /\ \A q \in Requests :
              Range(added.events[q]) \subseteq Range(bus.events[q])
                 \union (IF q = r THEN {r} ELSE {})
        /\ added.dispatched = bus.dispatched
    BY <1>1, <2>2, AddFacts
  <2> HIDE DEF added
  <2>5. /\ BusFacts!BusInv(bus')
        /\ bus'.marked = {q \in added.marked : UserOf[q] # UserOf[r]}
        /\ \A q \in Requests :
              Range(bus'.events[q]) \subseteq Range(added.events[q])
        /\ \A q \in Requests : q \in Range(bus'.dispatched) =>
              \/ q \in Range(added.dispatched)
              \/ \E p \in Requests : q \in Range(added.events[p])
    BY <2>3, <2>4, DispatchFacts
  <2>6. BusFacts!BusInv(bus)'
    BY <1>3, <2>5
  <2>7. \A q \in Requests : Range(bus'.events[q]) \subseteq {q}
    BY <2>4, <2>5 DEF BusUse
  <2>8. ASSUME NEW q \in Requests, pc'[q] \notin Raised
        PROVE  q \notin Range(bus'.events[q]) /\ q \notin Range(bus'.dispatched)
    <3>1. q # r /\ pc[q] \notin Raised
      BY <1>2, <2>1, <2>8 DEF Raised
    <3>2. /\ q \notin Range(bus.dispatched)
          /\ \A p \in Requests : q \notin Range(bus.events[p])
      BY <3>1 DEF BusUse
    <3> QED BY <2>4, <2>5, <3>1, <3>2
  <2>9. MarkedIsUnfinished'
    BY <1>1, <1>2, <2>1, <2>4, <2>5 DEF MarkedIsUnfinished, BusParts
  <2> QED BY <2>6, <2>7, <2>8, <2>9 DEF BusUse
<1>6. ASSUME NEW r \in Requests, CompleteSave(r)
      PROVE  BusUse' /\ MarkedIsUnfinished'
  <2>1. pc[r] = "saving" /\ pc' = [pc EXCEPT ![r] = "done"]
    BY <1>6 DEF CompleteSave, Goto
  <2>2. bus' = Bus!DispatchEventsForAggregate(bus, UserOf[r])
    BY <1>6 DEF CompleteSave
  <2>3. /\ BusFacts!BusInv(bus')
        /\ bus'.marked = {q \in bus.marked : UserOf[q] # UserOf[r]}
        /\ \A q \in Requests :
              Range(bus'.events[q]) \subseteq Range(bus.events[q])
        /\ \A q \in Requests : q \in Range(bus'.dispatched) =>
              \/ q \in Range(bus.dispatched)
              \/ \E p \in Requests : q \in Range(bus.events[p])
    <3>1. UserOf[r] \in Users
      OBVIOUS
    <3>2. BusFacts!BusInv(bus)
      BY <1>1
    <3> QED BY <2>2, <3>1, <3>2, DispatchFacts
  <2>4. BusFacts!BusInv(bus)'
    BY <1>3, <2>3
  <2>5. ASSUME NEW q \in Requests, pc'[q] \notin Raised
        PROVE  q \notin Range(bus'.events[q]) /\ q \notin Range(bus'.dispatched)
    <3>1. pc[q] \notin Raised
      BY <1>2, <2>1, <2>5 DEF Raised
    <3> QED BY <2>3, <3>1 DEF BusUse
  <2>6. MarkedIsUnfinished'
    BY <1>1, <1>2, <2>1, <2>3 DEF MarkedIsUnfinished, BusParts
  <2> QED BY <2>3, <2>4, <2>5, <2>6 DEF BusUse
<1>7. ASSUME NEW S, EndProcess(S)
      PROVE  BusUse' /\ MarkedIsUnfinished'
  <2>1. /\ pc' = [r \in Requests |->
                    IF pc[r] \in InFlightPc THEN "failed" ELSE pc[r]]
        /\ bus' = Bus!AfterRestart(bus)
    BY <1>7 DEF EndProcess
  <2>2. BusFacts!BusInv(bus')
    BY <1>1, <2>1, SameBus, BusConstants, BusFacts!RestartKeepsBusInv
  <2>3. /\ bus'.events = [r \in Requests |-> <<>>]
        /\ bus'.marked = {}
        /\ bus'.dispatched = bus.dispatched
    BY <2>1 DEF Bus!AfterRestart, Bus!NoEvents
  <2>4. Range(<<>>) = {}
    BY DEF Range
  <2>5. \A r \in Requests : pc'[r] \notin Raised => pc[r] \notin Raised
    BY <1>2, <2>1 DEF Raised, InFlightPc
  <2>6. \A r \in Requests : bus'.events[r] = <<>>
    BY <2>3
  <2>7. BusUse'
    BY <1>3, <2>2, <2>3, <2>4, <2>5, <2>6 DEF BusUse
  <2> QED BY <2>3, <2>7 DEF MarkedIsUnfinished
<1>8. ASSUME NEW r \in Requests,
             FindInCache(r) \/ SelectRow(r) \/ FillCache(r) \/ AnswerRead(r)
                \/ Refuse(r) \/ UpdateRow(r) \/ PurgeCache(r)
                \/ RejectUpdate(r) \/ RejectPurge(r) \/ Fail(r)
                \/ (\E in \in Inputs : Start(r, in))
      PROVE  BusUse' /\ MarkedIsUnfinished'
  <2>1. bus' = bus
    BY <1>8 DEF FindInCache, SelectRow, FillCache, AnswerRead, Refuse,
       UpdateRow, PurgeCache, RejectUpdate, RejectPurge, Fail, Start
  <2>2. \/ pc' = pc
        \/ /\ pc[r] \notin Raised
           /\ \E label : pc' = [pc EXCEPT ![r] = label]
        \/ pc' = [pc EXCEPT ![r] = IF @ = "saving" THEN "failed" ELSE @]
    BY <1>8, <1>2 DEF FindInCache, SelectRow, FillCache, AnswerRead, Refuse,
       UpdateRow, PurgeCache, RejectUpdate, RejectPurge, RejectSave, Fail,
       Start, Goto, Raised
  <2>3. /\ \A q \in Requests : pc[q] \in Raised => pc'[q] \in Raised
        /\ \A q \in Requests : pc[q] \in {"saving", "failed"}
              => pc'[q] \in {"saving", "failed"}
    BY <1>2, <2>2 DEF Raised
  <2> QED BY <2>1, <2>3, BusUntouched
<1>9. ASSUME NEW u \in Users, Expire(u)
      PROVE  BusUse' /\ MarkedIsUnfinished'
  BY <1>9, BusUntouched DEF Expire
<1>10. ASSUME NEW i, InsertAuditRow(i)
       PROVE  BusUse' /\ MarkedIsUnfinished'
  BY <1>10, BusUntouched DEF InsertAuditRow
<1>11. CASE UNCHANGED vars
  BY <1>11, BusUntouched DEF vars
<1>12. ASSUME NEW i, RejectAuditInsert(i)
       PROVE  BusUse' /\ MarkedIsUnfinished'
  BY <1>7, <1>12 DEF RejectAuditInsert
<1>13. CASE Crash
  BY <1>7, <1>13 DEF Crash
<1> QED BY <1>4, <1>5, <1>6, <1>8, <1>9, <1>10, <1>11, <1>12, <1>13
        DEF Next, Serve

-----------------------------------------------------------------------------
(* Committed *)

\* Initially the row is all there is.
LEMMA CommittedInit == Init => Committed
BY UserOfRequest DEF Init, Committed, CacheHoldsCommittedRow

\* A row only ever travels from the database: through a lookup into an
\* aggregate, and from there into the cache.
LEMMA CommittedStep ==
    ASSUME Types, Committed, [Next]_vars
    PROVE  Committed'
<1> USE UserOfRequest DEF Types, Committed, CacheHoldsCommittedRow, Goto
<1>1. ASSUME NEW r \in Requests, SelectRow(r) PROVE Committed'
  BY <1>1 DEF SelectRow
<1>2. ASSUME NEW r \in Requests, FindInCache(r) PROVE Committed'
  BY <1>2 DEF FindInCache
<1>3. ASSUME NEW r \in Requests, FillCache(r) PROVE Committed'
  BY <1>3 DEF FillCache
<1>4. ASSUME NEW r \in Requests, AnswerRead(r) PROVE Committed'
  BY <1>4 DEF AnswerRead
<1>5. ASSUME NEW r \in Requests, Commit(r), UNCHANGED <<cache, loaded>>
      PROVE  Committed'
  <2>1. PICK data : /\ rows' = [rows EXCEPT ![UserOf[r]] = data]
                    /\ committed' = [committed EXCEPT
                                        ![UserOf[r]] = @ \union {data}]
    BY <1>5 DEF Commit
  <2>2. \A u \in Users : committed[u] \subseteq committed'[u]
    BY <2>1
  <2>3. \A u \in Users : rows'[u] # NoRow => rows'[u] \in committed'[u]
    BY <2>1
  <2> QED BY <1>5, <2>2, <2>3
<1>6. ASSUME NEW r \in Requests, UpdateRow(r) PROVE Committed'
  BY <1>5, <1>6 DEF UpdateRow
<1>7. ASSUME NEW r \in Requests, RejectUpdate(r) PROVE Committed'
  BY <1>5, <1>7 DEF RejectUpdate
<1>8. ASSUME NEW r \in Requests, PurgeCache(r) PROVE Committed'
  BY <1>8 DEF PurgeCache
<1>9. ASSUME NEW u \in Users, Expire(u) PROVE Committed'
  BY <1>9 DEF Expire
<1>10. ASSUME UNCHANGED <<rows, cache, loaded, committed>> PROVE Committed'
  BY <1>10
<1>11. ASSUME NEW r \in Requests,
              Refuse(r) \/ EditAndSave(r) \/ NoteAndDispatch(r)
                 \/ CompleteSave(r) \/ RejectPurge(r) \/ Fail(r)
                 \/ (\E in \in Inputs : Start(r, in))
       PROVE  Committed'
  BY <1>10, <1>11 DEF Refuse, EditAndSave, NoteAndDispatch, CompleteSave,
     RejectPurge, Fail, Start
<1>12. ASSUME NEW i, InsertAuditRow(i) \/ RejectAuditInsert(i) PROVE Committed'
  BY <1>10, <1>12 DEF InsertAuditRow, RejectAuditInsert, EndProcess
<1>13. CASE Crash
  BY <1>10, <1>13 DEF Crash, EndProcess
<1>14. CASE UNCHANGED vars
  BY <1>10, <1>14 DEF vars
<1> QED BY <1>1, <1>2, <1>3, <1>4, <1>6, <1>7, <1>8, <1>9, <1>11, <1>12,
           <1>13, <1>14
        DEF Next, Serve

-----------------------------------------------------------------------------
\* The inductive invariant of the composed requests.
THEOREM RequestsInvariant == Spec => []IInv
<1>1. Init => IInv
  BY TypesInit, BusUseInit, CommittedInit DEF IInv
<1>2. IInv /\ [Next]_vars => IInv'
  <2> SUFFICES ASSUME IInv, [Next]_vars PROVE IInv'
    OBVIOUS
  <2>1. bus.dispatched \in Seq(Requests)
    BY BusPartsOfInv DEF IInv, BusUse, BusParts
  <2>2. Types' /\ Held'
    BY <2>1, TypesStep DEF IInv
  <2>3. BusUse' /\ MarkedIsUnfinished'
    BY BusUseStep DEF IInv
  <2>4. Committed'
    BY CommittedStep DEF IInv
  <2> QED BY <2>2, <2>3, <2>4 DEF IInv
<1> QED BY <1>1, <1>2, PTL DEF Spec

\* Rows, cache, promises and the shared bus keep their types.
THEOREM RequestTypes == Spec => []TypeOK
<1>1. IInv => TypeOK
  BY DEF IInv, Types, TypeOK, BusUse, BusFacts!BusInv, BusFacts!BusType,
         Bus!TypeOK
<1> QED BY <1>1, RequestsInvariant, PTL

\* Only a save under way or a failed one has a mark on the static list, for
\* any number of concurrent requests on one user, failures and crashes.
THEOREM MarksAreUnfinished == Spec => []MarkedIsUnfinished
<1>1. IInv => MarkedIsUnfinished
  BY DEF IInv
<1> QED BY <1>1, RequestsInvariant, PTL

\* No interleaving of requests audits one event twice.
THEOREM EventsDispatchedOnce == Spec => []EventDispatchedOnce
<1>1. \A f : BusFacts!IsInjective(f) <=> Bus!IsInjective(f)
  BY DEF BusFacts!IsInjective, Bus!IsInjective
<1>2. \A f : BusFacts!Range(f) = Bus!Range(f)
  BY DEF BusFacts!Range, Bus!Range
<1>3. IInv => EventDispatchedOnce
  BY <1>1, <1>2 DEF IInv, BusUse, BusFacts!BusInv, EventDispatchedOnce,
                    Bus!AtMostOnce
<1> QED BY <1>3, RequestsInvariant, PTL

\* The cache and the aggregates hold rows the database really had.
THEOREM CacheIsCommitted == Spec => []CacheHoldsCommittedRow
<1>1. IInv => CacheHoldsCommittedRow
  BY DEF IInv, Committed
<1> QED BY <1>1, RequestsInvariant, PTL

\* The requests drive the bus as DomainEvents describes it, so everything
\* proved of that module's behaviours holds of the bus they share.
THEOREM BusUsedProperly == Spec => UsesBusProperly
<1>1. Init => Bus!Init
  BY DEF Init
<1>2. ASSUME IInv, [Next]_vars PROVE [Bus!Next]_bus
  <2> USE UserOfRequest
  <2>1. ASSUME NEW r \in Requests, pc[r] = "loaded" PROVE Bus!Fresh(r)
    <3>1. \A f : Range(f) = Bus!Range(f)
      BY DEF Range, Bus!Range
    <3>2. /\ r \notin Range(bus.dispatched)
          /\ \A q \in Requests : r \notin Range(bus.events[q])
      BY <2>1, <1>2 DEF IInv, BusUse, Raised
    <3> QED BY <3>1, <3>2 DEF Bus!Fresh
  <2>2. ASSUME NEW r \in Requests, EditAndSave(r)
        PROVE  Bus!Raise(r, r) \/ UNCHANGED bus
    BY <2>1, <2>2 DEF EditAndSave, Bus!Raise
  <2>3. ASSUME NEW r \in Requests, NoteAndDispatch(r)
        PROVE  Bus!RaiseAndDispatch(r, r)
    BY <2>1, <2>3 DEF NoteAndDispatch, Bus!RaiseAndDispatch
  <2>4. ASSUME NEW r \in Requests, CompleteSave(r)
        PROVE  Bus!Dispatch(UserOf[r])
    BY <2>4 DEF CompleteSave, Bus!Dispatch
  <2>5. ASSUME NEW S, EndProcess(S) PROVE Bus!Restart
    BY <2>5 DEF EndProcess, Bus!Restart
  <2>6. ASSUME NEW r \in Requests,
               FindInCache(r) \/ SelectRow(r) \/ FillCache(r) \/ AnswerRead(r)
                  \/ Refuse(r) \/ UpdateRow(r) \/ PurgeCache(r)
                  \/ RejectUpdate(r) \/ RejectPurge(r) \/ Fail(r)
                  \/ (\E in \in Inputs : Start(r, in))
        PROVE  UNCHANGED bus
    BY <2>6 DEF FindInCache, SelectRow, FillCache, AnswerRead, Refuse,
       UpdateRow, PurgeCache, RejectUpdate, RejectPurge, Fail, Start
  <2>7. CASE \/ \E r \in Requests : EditAndSave(r) \/ NoteAndDispatch(r)
                                       \/ CompleteSave(r)
             \/ \E S : EndProcess(S)
    BY <2>2, <2>3, <2>4, <2>5, <2>7 DEF Bus!Next
  <2>8. CASE \/ \E u \in Users : Expire(u)
             \/ \E i \in DOMAIN bus.dispatched : InsertAuditRow(i)
             \/ UNCHANGED vars
    BY <2>8 DEF Expire, InsertAuditRow, vars
  <2> QED BY <1>2, <2>6, <2>7, <2>8
          DEF Next, Serve, Crash, RejectAuditInsert
<1> QED BY <1>1, <1>2, RequestsInvariant, PTL DEF Spec, UsesBusProperly, Bus!Spec

\* What the bus promises by itself it promises the requests: what is raised on
\* an aggregate is dispatched in order, and only a marked aggregate of the same
\* user keeps another's event waiting.
THEOREM RequestsKeepBusOrder ==
    Spec => BusFacts!DeliversInOrder /\ BusFacts!OrphanedOnlyBehindItsTwin
<1>1. \A f : Bus!Range(f) = BusFacts!Range(f)
  BY DEF Bus!Range, BusFacts!Range
<1>2. Bus!Next => BusFacts!Next
  BY <1>1, SameBus
     DEF Bus!Next, Bus!Raise, Bus!Fresh, Bus!Dispatch, Bus!RaiseAndDispatch,
         Bus!Restart, BusFacts!Next, BusFacts!Raise, BusFacts!Fresh,
         BusFacts!Dispatch, BusFacts!RaiseAndDispatch, BusFacts!Restart
<1>3. Bus!Init => BusFacts!Init
  BY DEF Bus!Init, BusFacts!Init, Bus!NoEvents, BusFacts!NoEvents
<1>4. Bus!Spec => BusFacts!Spec
  BY <1>2, <1>3, PTL DEF Bus!Spec, BusFacts!Spec
<1> QED BY <1>4, BusUsedProperly, BusConstants, BusFacts!BusDelivers,
           BusFacts!OrphansHaveATwin, PTL DEF UsesBusProperly

-----------------------------------------------------------------------------
(* A user's requests one at a time (Orderly), the process alive (Serial).    *)
(* What then holds between the steps: each conjunct is one reason why the    *)
(* cache and the bus cannot be told from a plain row and a plain trail.      *)

\* A save under way has made its two calls, no other request has one under way,
\* and none was rejected.
Calm ==
    \A r \in Requests :
       /\ update[r] # "rejected" /\ purge[r] # "rejected"
       /\ (update[r] = "pending" \/ purge[r] = "pending") => pc[r] = "saving"
       /\ pc[r] = "saving" => update[r] # "none" /\ purge[r] # "none"

\* A user has at most one request in flight.
OneAtATime ==
    \A q, r \in Requests :
       (UserOf[q] = UserOf[r] /\ pc[q] \in InFlightPc /\ pc[r] \in InFlightPc)
          => q = r

\* A request asks for what a client may ask, and saves what it may.
Asked ==
    \A r \in Requests :
       /\ pc[r] # "idle" => input[r] \in Inputs
       /\ pc[r] = "saving" => Permitted(loaded[r], input[r])

\* Whoever holds a row holds the current one, or has just written its edit.
Current ==
    \A r \in Requests :
       /\ pc[r] \in {"set", "loaded"} => loaded[r] = rows[UserOf[r]]
       /\ pc[r] = "saving" =>
             rows[UserOf[r]] = IF update[r] = "pending" THEN loaded[r]
                               ELSE Edited(loaded[r], input[r])

\* A cached row is the current one, or about to be purged.
Purging(u) == \E r \in Requests : /\ UserOf[r] = u /\ pc[r] = "saving"
                                  /\ purge[r] = "pending"
CacheIsCurrent ==
    /\ \A u \in Users : cache[u] \in {NoRow, rows[u]} \/ Purging(u)
    /\ \A r \in Requests : (pc[r] = "saving" /\ purge[r] = "ok") =>
          cache[UserOf[r]] = NoRow

\* The bus holds the events of saves under way, and marks those who raised.
AwaitsDispatch(r) == pc[r] = "saving" /\ Raises(loaded[r], input[r])
OwnEvent ==
    /\ \A r \in Requests :
          bus.events[r] = IF AwaitsDispatch(r) THEN <<r>> ELSE <<>>
    /\ bus.marked = {r \in Requests : AwaitsDispatch(r)}

SerialInv == /\ Calm /\ OneAtATime /\ Asked /\ Current /\ CacheIsCurrent
             /\ OwnEvent

-----------------------------------------------------------------------------
\* What may happen when requests come one at a time and nothing they need fails.
LEMMA OrderlySteps ==
    ASSUME Orderly, [Next]_vars
    PROVE  \/ \E r \in Requests, in \in Inputs : Start(r, in)
           \/ \E r \in Requests : Serve(r)
           \/ \E r \in Requests : Fail(r) /\ pc[r] = "loaded"
           \/ \E u \in Users : Expire(u)
           \/ \E i \in DOMAIN bus.dispatched : InsertAuditRow(i)
           \/ \E S \in SUBSET AuditPending : EndProcess(S)
           \/ UNCHANGED vars
<1>1. "db" \notin MayFail /\ "cache" \notin MayFail
  BY DEF Orderly
<1>2. ASSUME NEW r \in Requests, RejectUpdate(r) \/ RejectPurge(r) PROVE FALSE
  BY <1>1, <1>2 DEF RejectUpdate, RejectPurge
<1>3. ASSUME NEW r \in Requests, Fail(r) PROVE pc[r] = "loaded"
  BY <1>1, <1>3 DEF Fail
<1>4. ASSUME NEW i \in DOMAIN bus.dispatched, RejectAuditInsert(i)
      PROVE  \E S \in SUBSET AuditPending : EndProcess(S)
  BY <1>4 DEF RejectAuditInsert
<1> QED BY <1>2, <1>3, <1>4 DEF Next, Crash

\* Without crashes the process does not end either.
LEMMA SerialSteps ==
    ASSUME Serial, Types, [Next]_vars
    PROVE  \/ \E r \in Requests, in \in Inputs : Start(r, in)
           \/ \E r \in Requests : Serve(r)
           \/ \E r \in Requests : Fail(r) /\ pc[r] = "loaded"
           \/ \E u \in Users : Expire(u)
           \/ \E i \in DOMAIN bus.dispatched : InsertAuditRow(i)
           \/ UNCHANGED vars
<1>1. ASSUME NEW S, EndProcess(S) PROVE FALSE
  <2>1. crashes \in 0..0 /\ crashes < 0
    BY <1>1 DEF Serial, Types, EndProcess
  <2> QED BY <2>1
<1> QED BY <1>1, OrderlySteps DEF Serial

\* Calls are made by save, answered, and never rejected.
LEMMA CalmStep ==
    ASSUME Serial, Types, Held, Calm, [Next]_vars PROVE Calm'
<1> USE DEF Types, Held, Calm, Goto, InFlightPc, Promise, Raised
<1>1. ASSUME NEW r \in Requests, NEW in \in Inputs, Start(r, in) PROVE Calm'
  BY <1>1 DEF Start
<1>2. ASSUME NEW r \in Requests, FindInCache(r) \/ SelectRow(r) \/ FillCache(r)
                                    \/ AnswerRead(r)
      PROVE  Calm'
  BY <1>2 DEF FindInCache, SelectRow, FillCache, AnswerRead
<1>3. ASSUME NEW r \in Requests, Refuse(r) \/ NoteAndDispatch(r)
                                    \/ (Fail(r) /\ pc[r] = "loaded")
      PROVE  Calm'
  BY <1>3 DEF Refuse, NoteAndDispatch, Fail
<1>4. ASSUME NEW r \in Requests, EditAndSave(r) PROVE Calm'
  BY <1>4 DEF EditAndSave
<1>5. ASSUME NEW r \in Requests, UpdateRow(r) PROVE Calm'
  BY <1>5 DEF UpdateRow
<1>6. ASSUME NEW r \in Requests, PurgeCache(r) PROVE Calm'
  BY <1>6 DEF PurgeCache
<1>7. ASSUME NEW r \in Requests, CompleteSave(r) PROVE Calm'
  BY <1>7 DEF CompleteSave
<1>8. ASSUME UNCHANGED <<pc, update, purge>> PROVE Calm'
  BY <1>8
<1>9. ASSUME \/ \E u \in Users : Expire(u)
             \/ \E i \in DOMAIN bus.dispatched : InsertAuditRow(i)
             \/ UNCHANGED vars
      PROVE  Calm'
  BY <1>8, <1>9 DEF Expire, InsertAuditRow, vars
<1> QED BY <1>1, <1>2, <1>3, <1>4, <1>5, <1>6, <1>7, <1>9, SerialSteps DEF Serve

\* Start waits until the user has no request in flight.
LEMMA OneAtATimeStep ==
    ASSUME Orderly, Types, OneAtATime, [Next]_vars PROVE OneAtATime'
<1> USE DEF Types, OneAtATime, Goto
<1>1. ASSUME NEW r \in Requests, NEW in \in Inputs, Start(r, in)
      PROVE  OneAtATime'
  <2>1. ASSUME NEW q \in Requests, UserOf[q] = UserOf[r], pc[q] \in InFlightPc
        PROVE  FALSE
    <3>1. InFlight(UserOf[r]) = {q}
      BY <2>1 DEF InFlight
    <3>2. Cardinality(InFlight(UserOf[r])) = 1
      BY <3>1, FS_Singleton
    <3> QED BY <1>1, <3>2, RequestsAssumption DEF Start, Orderly
  <2>2. \E label : pc' = [pc EXCEPT ![r] = label]
    BY <1>1 DEF Start
  <2> QED BY <2>1, <2>2
<1>2. ASSUME NEW r \in Requests, pc[r] \in InFlightPc,
             NEW label, pc' = [pc EXCEPT ![r] = label]
      PROVE  OneAtATime'
  BY <1>2
<1>3. ASSUME NEW r \in Requests, Serve(r), pc' # pc PROVE OneAtATime'
  <2>1. pc[r] \in InFlightPc /\ \E label : pc' = [pc EXCEPT ![r] = label]
    BY <1>3 DEF Serve, FindInCache, SelectRow, FillCache, AnswerRead, Refuse,
       EditAndSave, NoteAndDispatch, UpdateRow, PurgeCache, CompleteSave,
       InFlightPc
  <2> QED BY <1>2, <2>1
<1>4. ASSUME NEW r \in Requests, Fail(r), pc[r] = "loaded" PROVE OneAtATime'
  BY <1>2, <1>4 DEF Fail, InFlightPc
<1>5. ASSUME UNCHANGED pc PROVE OneAtATime'
  BY <1>5
<1>6. ASSUME \/ \E u \in Users : Expire(u)
             \/ \E i \in DOMAIN bus.dispatched : InsertAuditRow(i)
             \/ UNCHANGED vars
      PROVE  OneAtATime'
  BY <1>5, <1>6 DEF Expire, InsertAuditRow, vars
<1>7. ASSUME NEW S, EndProcess(S) PROVE OneAtATime'
  <2>1. \A r \in Requests : pc'[r] \notin InFlightPc
    BY <1>7 DEF EndProcess, InFlightPc
  <2> QED BY <2>1
<1> QED BY <1>1, <1>3, <1>4, <1>5, <1>6, <1>7, OrderlySteps

\* A request saves only what it asked for and the loaded row permits.
LEMMA AskedStep ==
    ASSUME Serial, Types, Asked, [Next]_vars PROVE Asked'
<1> USE DEF Types, Asked, Goto
<1>1. ASSUME NEW r \in Requests, NEW in \in Inputs, Start(r, in) PROVE Asked'
  BY <1>1 DEF Start
<1>2. ASSUME NEW r \in Requests, NEW label,
             pc[r] \notin {"idle", "saving"}, label # "saving",
             pc' = [pc EXCEPT ![r] = label], UNCHANGED input,
             \E row : loaded' = [loaded EXCEPT ![r] = row]
      PROVE  Asked'
  BY <1>2
<1>3. ASSUME NEW r \in Requests, FindInCache(r) \/ SelectRow(r) \/ FillCache(r)
                \/ AnswerRead(r) \/ Refuse(r) \/ NoteAndDispatch(r)
                \/ (Fail(r) /\ pc[r] = "loaded")
      PROVE  Asked'
  <2>1. /\ pc[r] \notin {"idle", "saving"} /\ UNCHANGED input
        /\ \E label : label # "saving" /\ pc' = [pc EXCEPT ![r] = label]
    BY <1>3 DEF FindInCache, SelectRow, FillCache, AnswerRead, Refuse,
       NoteAndDispatch, Fail
  <2>2. \E row : loaded' = [loaded EXCEPT ![r] = row]
    <3>1. loaded = [loaded EXCEPT ![r] = loaded[r]]
      OBVIOUS
    <3> QED BY <1>3, <3>1 DEF FindInCache, SelectRow, FillCache, AnswerRead,
       Refuse, NoteAndDispatch, Fail
  <2> QED BY <1>2, <2>1, <2>2
<1>4. ASSUME NEW r \in Requests, EditAndSave(r) PROVE Asked'
  BY <1>4 DEF EditAndSave
<1>5. ASSUME NEW r \in Requests, CompleteSave(r) PROVE Asked'
  BY <1>5 DEF CompleteSave
<1>6. ASSUME UNCHANGED <<pc, input, loaded>> PROVE Asked'
  BY <1>6
<1>7. ASSUME NEW r \in Requests, UpdateRow(r) \/ PurgeCache(r) PROVE Asked'
  BY <1>6, <1>7 DEF UpdateRow, PurgeCache
<1>8. ASSUME \/ \E u \in Users : Expire(u)
             \/ \E i \in DOMAIN bus.dispatched : InsertAuditRow(i)
             \/ UNCHANGED vars
      PROVE  Asked'
  BY <1>6, <1>8 DEF Expire, InsertAuditRow, vars
<1> QED BY <1>1, <1>3, <1>4, <1>5, <1>7, <1>8, SerialSteps DEF Serve

\* While r is in flight no other request on its user is.
LEMMA Alone ==
    ASSUME OneAtATime, NEW r \in Requests, pc[r] \in InFlightPc,
           NEW q \in Requests, UserOf[q] = UserOf[r], q # r
    PROVE  pc[q] \notin InFlightPc
BY DEF OneAtATime

\* A lookup returns the current row, cached or not, and only the request's own
\* update changes it before the request is over.
LEMMA CurrentStep ==
    ASSUME Serial, Types, Calm, OneAtATime, Current, CacheIsCurrent, [Next]_vars
    PROVE  Current'
<1> USE UserOfRequest DEF Types, Goto
<1>1. ASSUME NEW r \in Requests, NEW label, label \notin {"set", "loaded", "saving"},
             pc' = [pc EXCEPT ![r] = label],
             UNCHANGED <<rows, input, update>>,
             \E row : loaded' = [loaded EXCEPT ![r] = row]
      PROVE  Current'
  BY <1>1 DEF Current
<1>2. ASSUME NEW r \in Requests, UNCHANGED <<rows, input, update>>,
             pc' = [pc EXCEPT ![r] = "loaded"] \/ pc' = [pc EXCEPT ![r] = "set"],
             loaded' = [loaded EXCEPT ![r] = rows[UserOf[r]]]
      PROVE  Current'
  BY <1>2 DEF Current
<1>3. ASSUME UNCHANGED <<rows, pc, input, loaded, update>> PROVE Current'
  BY <1>3 DEF Current
<1>4. ASSUME NEW r \in Requests, NEW in \in Inputs, Start(r, in) PROVE Current'
  BY <1>4 DEF Start, Current
<1>5. ASSUME NEW r \in Requests, FindInCache(r) PROVE Current'
  <2>1. ~Purging(UserOf[r])
    BY <1>5, Alone DEF FindInCache, Purging, InFlightPc
  <2>2. cache[UserOf[r]] \in {NoRow, rows[UserOf[r]]}
    BY <2>1 DEF CacheIsCurrent
  <2>3. CASE cache[UserOf[r]] = NoRow
    BY <1>5, <2>3 DEF FindInCache, Current
  <2>4. CASE cache[UserOf[r]] # NoRow
    BY <1>2, <1>5, <2>2, <2>4 DEF FindInCache
  <2> QED BY <2>3, <2>4
<1>6. ASSUME NEW r \in Requests, SelectRow(r) PROVE Current'
  BY <1>6 DEF SelectRow, Current
<1>7. ASSUME NEW r \in Requests, FillCache(r) PROVE Current'
  BY <1>7 DEF FillCache, Current
<1>8. ASSUME NEW r \in Requests, AnswerRead(r) PROVE Current'
  BY <1>1, <1>8 DEF AnswerRead
<1>9. ASSUME NEW r \in Requests, Refuse(r) \/ NoteAndDispatch(r)
                \/ CompleteSave(r) \/ (Fail(r) /\ pc[r] = "loaded")
      PROVE  Current'
  BY <1>9 DEF Refuse, NoteAndDispatch, CompleteSave, Fail, Current
<1>10. ASSUME NEW r \in Requests, EditAndSave(r) PROVE Current'
  BY <1>10 DEF EditAndSave, Current
<1>11. ASSUME NEW r \in Requests, UpdateRow(r) PROVE Current'
  <2>1. pc[r] = "saving"
    BY <1>11 DEF UpdateRow, Calm
  <2>2. /\ rows' = [rows EXCEPT ![UserOf[r]] = Edited(loaded[r], input[r])]
        /\ update' = [update EXCEPT ![r] = "ok"]
        /\ UNCHANGED <<pc, input, loaded>>
    BY <1>11 DEF UpdateRow, Commit
  <2>3. ASSUME NEW q \in Requests, q # r, pc[q] \in {"set", "loaded", "saving"}
        PROVE  UserOf[q] # UserOf[r]
    BY <2>1, <2>3, Alone DEF InFlightPc
  <2> QED BY <2>1, <2>2, <2>3 DEF Current
<1>12. ASSUME \/ \E r \in Requests : PurgeCache(r)
              \/ \E u \in Users : Expire(u)
              \/ \E i \in DOMAIN bus.dispatched : InsertAuditRow(i)
              \/ UNCHANGED vars
       PROVE  Current'
  BY <1>3, <1>12 DEF PurgeCache, Expire, InsertAuditRow, vars
<1> QED BY <1>4, <1>5, <1>6, <1>7, <1>8, <1>9, <1>10, <1>11, <1>12, SerialSteps
        DEF Serve

\* A miss fills the cache with the current row; whoever makes it old is about to
\* purge it.
LEMMA CacheStep ==
    ASSUME Serial, Types, Calm, OneAtATime, Current, CacheIsCurrent, [Next]_vars
    PROVE  CacheIsCurrent'
<1> USE UserOfRequest DEF Types, Goto
<1>1. ASSUME NEW r \in Requests, pc[r] # "saving",
             NEW label, label # "saving", pc' = [pc EXCEPT ![r] = label],
             UNCHANGED <<rows, cache, purge>>
      PROVE  CacheIsCurrent'
  BY <1>1 DEF CacheIsCurrent, Purging
<1>2. ASSUME UNCHANGED <<rows, cache, pc, purge>> PROVE CacheIsCurrent'
  BY <1>2 DEF CacheIsCurrent, Purging
<1>3. ASSUME NEW r \in Requests,
             FindInCache(r) \/ SelectRow(r) \/ AnswerRead(r) \/ Refuse(r)
                \/ NoteAndDispatch(r) \/ (Fail(r) /\ pc[r] = "loaded")
                \/ (\E in \in Inputs : Start(r, in))
      PROVE  CacheIsCurrent'
  BY <1>1, <1>3 DEF FindInCache, SelectRow, AnswerRead, Refuse,
     NoteAndDispatch, Fail, Start
<1>4. ASSUME NEW r \in Requests, FillCache(r) PROVE CacheIsCurrent'
  <2>1. /\ pc[r] = "set" /\ pc' = [pc EXCEPT ![r] = "loaded"]
        /\ cache' = [cache EXCEPT ![UserOf[r]] = rows[UserOf[r]]]
        /\ UNCHANGED <<rows, purge>>
    BY <1>4 DEF FillCache, Current
  <2>2. \A q \in Requests : pc[q] = "saving" => UserOf[q] # UserOf[r]
    BY <2>1, Alone DEF InFlightPc
  <2> QED BY <2>1, <2>2 DEF CacheIsCurrent, Purging
<1>5. ASSUME NEW r \in Requests, EditAndSave(r) PROVE CacheIsCurrent'
  BY <1>5 DEF EditAndSave, CacheIsCurrent, Purging
<1>6. ASSUME NEW r \in Requests, UpdateRow(r) PROVE CacheIsCurrent'
  <2>1. /\ pc[r] = "saving" /\ purge[r] \in {"pending", "ok"}
        /\ \E row : rows' = [rows EXCEPT ![UserOf[r]] = row]
        /\ UNCHANGED <<cache, pc, purge>>
    BY <1>6 DEF UpdateRow, Calm, Commit, Promise
  <2> QED BY <2>1 DEF CacheIsCurrent, Purging
<1>7. ASSUME NEW r \in Requests, PurgeCache(r) PROVE CacheIsCurrent'
  BY <1>7 DEF PurgeCache, CacheIsCurrent, Purging
<1>8. ASSUME NEW r \in Requests, CompleteSave(r) PROVE CacheIsCurrent'
  BY <1>8 DEF CompleteSave, CacheIsCurrent, Purging
<1>9. ASSUME NEW u \in Users, Expire(u) PROVE CacheIsCurrent'
  BY <1>9 DEF Expire, CacheIsCurrent, Purging
<1>10. ASSUME \/ \E i \in DOMAIN bus.dispatched : InsertAuditRow(i)
              \/ UNCHANGED vars
       PROVE  CacheIsCurrent'
  BY <1>2, <1>10 DEF InsertAuditRow, vars
<1> QED BY <1>3, <1>4, <1>5, <1>6, <1>7, <1>8, <1>9, <1>10, SerialSteps
        DEF Serve

\* What the two calls of the bus do for a request alone on its user: raising
\* queues and marks, dispatching empties, unmarks and hands over.
LEMMA RaiseAlone ==
    ASSUME NEW b, BusParts(b), NEW r \in Requests, b.events[r] = <<>>,
           \A q \in b.marked : UserOf[q] # UserOf[r]
    PROVE  LET d == Bus!AddDomainEvent(b, r, r) IN
           /\ d.events = [b.events EXCEPT ![r] = <<r>>]
           /\ d.marked = b.marked \union {r}
           /\ d.dispatched = b.dispatched
<1>1. b.events[r] \in Seq(Requests) /\ Append(b.events[r], r) = <<r>>
  BY DEF BusParts
<1>2. Bus!FindMarked([b EXCEPT !.events[r] = Append(@, r)], UserOf[r]) = {}
  BY DEF BusParts, Bus!FindMarked
<1> QED BY <1>1, <1>2
        DEF BusParts, Bus!AddDomainEvent, Bus!MarkAggregateForDispatch

\* (dispatching, the marked aggregate)
LEMMA DispatchAlone ==
    ASSUME NEW b, NEW r \in b.marked,
           \A q \in b.marked : UserOf[q] = UserOf[r] => q = r
    PROVE  LET d == Bus!DispatchEventsForAggregate(b, UserOf[r]) IN
           /\ d.events = [b.events EXCEPT ![r] = <<>>]
           /\ d.marked = b.marked \ {r}
           /\ d.dispatched = b.dispatched \o b.events[r]
<1>1. Bus!FindMarked(b, UserOf[r]) = {r}
  BY DEF Bus!FindMarked
<1>2. (CHOOSE a \in {r} : TRUE) = r
  OBVIOUS
<1> QED BY <1>1, <1>2 DEF Bus!DispatchEventsForAggregate, Bus!DispatchAggregate

\* (dispatching, nobody marked)
LEMMA DispatchNobody ==
    ASSUME NEW b, NEW u, \A q \in b.marked : UserOf[q] # u
    PROVE  Bus!DispatchEventsForAggregate(b, u) = b
BY DEF Bus!DispatchEventsForAggregate, Bus!FindMarked

\* What a request's save or note does to the bus, when it is alone.
LEMMA BusSteps ==
    ASSUME BusParts(bus), OneAtATime, OwnEvent, NEW r \in Requests
    PROVE  /\ EditAndSave(r) /\ Raises(loaded[r], input[r]) =>
                 /\ bus'.events = [bus.events EXCEPT ![r] = <<r>>]
                 /\ bus'.marked = bus.marked \union {r}
                 /\ bus'.dispatched = bus.dispatched
           /\ NoteAndDispatch(r) =>
                 /\ bus'.events = bus.events
                 /\ bus'.marked = bus.marked
                 /\ bus'.dispatched = Append(bus.dispatched, r)
           /\ CompleteSave(r) /\ Raises(loaded[r], input[r]) =>
                 /\ bus'.events = [bus.events EXCEPT ![r] = <<>>]
                 /\ bus'.marked = bus.marked \ {r}
                 /\ bus'.dispatched = Append(bus.dispatched, r)
           /\ CompleteSave(r) /\ ~Raises(loaded[r], input[r]) => bus' = bus
<1>1. ASSUME pc[r] = "loaded"
      PROVE  bus.events[r] = <<>> /\ \A q \in bus.marked : UserOf[q] # UserOf[r]
  <2>1. ASSUME NEW q \in bus.marked PROVE UserOf[q] # UserOf[r]
    <3>1. q \in Requests /\ pc[q] = "saving"
      BY DEF OwnEvent, AwaitsDispatch
    <3> QED BY <1>1, <3>1, Alone DEF InFlightPc
  <2> QED BY <1>1, <2>1 DEF OwnEvent, AwaitsDispatch
<1>2. ASSUME pc[r] = "saving"
      PROVE  \A q \in bus.marked : UserOf[q] = UserOf[r] => q = r
  <2> SUFFICES ASSUME NEW q \in bus.marked, UserOf[q] = UserOf[r] PROVE q = r
    OBVIOUS
  <2>1. q \in Requests /\ pc[q] = "saving"
    BY DEF OwnEvent, AwaitsDispatch
  <2> QED BY <1>2, <2>1, Alone DEF InFlightPc
<1>3. bus.events \in [Requests -> Seq(Requests)] /\ bus.dispatched \in Seq(Requests)
  BY DEF BusParts
<1>4. bus.dispatched \o <<r>> = Append(bus.dispatched, r)
  BY <1>3
<1>5. ASSUME EditAndSave(r), Raises(loaded[r], input[r])
      PROVE  /\ bus'.events = [bus.events EXCEPT ![r] = <<r>>]
             /\ bus'.marked = bus.marked \union {r}
             /\ bus'.dispatched = bus.dispatched
  BY <1>1, <1>5, RaiseAlone DEF EditAndSave
<1>6. ASSUME NoteAndDispatch(r)
      PROVE  /\ bus'.events = bus.events
             /\ bus'.marked = bus.marked
             /\ bus'.dispatched = Append(bus.dispatched, r)
  <2> DEFINE d == Bus!AddDomainEvent(bus, r, r)
  <2>1. /\ bus.events[r] = <<>> /\ \A q \in bus.marked : UserOf[q] # UserOf[r]
        /\ bus' = Bus!DispatchEventsForAggregate(d, UserOf[r])
    BY <1>1, <1>6 DEF NoteAndDispatch
  <2>2. /\ d.events = [bus.events EXCEPT ![r] = <<r>>]
        /\ d.marked = bus.marked \union {r}
        /\ d.dispatched = bus.dispatched
    BY <2>1, RaiseAlone
  <2> HIDE DEF d
  <2>3. /\ bus'.events = [d.events EXCEPT ![r] = <<>>]
        /\ bus'.marked = d.marked \ {r}
        /\ bus'.dispatched = d.dispatched \o d.events[r]
    <3>1. r \in d.marked /\ \A q \in d.marked : UserOf[q] = UserOf[r] => q = r
      BY <2>1, <2>2
    <3>2. bus' = Bus!DispatchEventsForAggregate(d, UserOf[r])
      BY <2>1
    <3> QED BY <3>1, <3>2, DispatchAlone
  <2>4. d.events[r] = <<r>> /\ bus'.events = bus.events
    BY <1>3, <2>1, <2>2, <2>3
  <2>5. r \notin bus.marked
    BY <2>1
  <2> QED BY <1>4, <2>2, <2>3, <2>4, <2>5
<1>7. ASSUME CompleteSave(r), Raises(loaded[r], input[r])
      PROVE  /\ bus'.events = [bus.events EXCEPT ![r] = <<>>]
             /\ bus'.marked = bus.marked \ {r}
             /\ bus'.dispatched = Append(bus.dispatched, r)
  <2>1. /\ pc[r] = "saving" /\ r \in bus.marked /\ bus.events[r] = <<r>>
        /\ bus' = Bus!DispatchEventsForAggregate(bus, UserOf[r])
    BY <1>7 DEF CompleteSave, OwnEvent, AwaitsDispatch
  <2> QED BY <1>2, <1>4, <2>1, DispatchAlone
<1>8. ASSUME CompleteSave(r), ~Raises(loaded[r], input[r]) PROVE bus' = bus
  <2>1. /\ pc[r] = "saving" /\ r \notin bus.marked
        /\ bus' = Bus!DispatchEventsForAggregate(bus, UserOf[r])
    BY <1>8 DEF CompleteSave, OwnEvent, AwaitsDispatch
  <2> QED BY <1>2, <2>1, DispatchNobody
<1> QED BY <1>5, <1>6, <1>7, <1>8

\* A save raises its own event, its completion hands it over, and a restart
\* leaves neither a save nor an event.
LEMMA OwnEventStep ==
    ASSUME Orderly, Types, BusParts(bus), OneAtATime, OwnEvent, [Next]_vars
    PROVE  OwnEvent'
<1> USE DEF Types, OwnEvent, AwaitsDispatch, Goto, BusParts
<1>1. ASSUME NEW r \in Requests, bus' = bus,
             pc[r] # "saving",
             NEW label, label # "saving", pc' = [pc EXCEPT ![r] = label],
             NEW in, input' = [input EXCEPT ![r] = in],
             NEW row, loaded' = [loaded EXCEPT ![r] = row]
      PROVE  OwnEvent'
  BY <1>1
<1>2. ASSUME UNCHANGED <<bus, pc, input, loaded>> PROVE OwnEvent'
  BY <1>2
<1>3. ASSUME NEW r \in Requests,
             FindInCache(r) \/ SelectRow(r) \/ FillCache(r) \/ AnswerRead(r)
                \/ Refuse(r) \/ (Fail(r) /\ pc[r] = "loaded")
                \/ (\E in \in Inputs : Start(r, in))
      PROVE  OwnEvent'
  <2>1. /\ bus' = bus /\ pc[r] # "saving"
        /\ \E label : label # "saving" /\ pc' = [pc EXCEPT ![r] = label]
    BY <1>3 DEF FindInCache, SelectRow, FillCache, AnswerRead, Refuse, Fail, Start
  <2>2. input = [input EXCEPT ![r] = input[r]] /\ loaded = [loaded EXCEPT ![r] = loaded[r]]
    OBVIOUS
  <2>3. \E in : input' = [input EXCEPT ![r] = in]
    BY <1>3, <2>2 DEF FindInCache, SelectRow, FillCache, AnswerRead, Refuse,
       Fail, Start
  <2>4. \E row : loaded' = [loaded EXCEPT ![r] = row]
    BY <1>3, <2>2 DEF FindInCache, SelectRow, FillCache, AnswerRead, Refuse,
       Fail, Start
  <2> QED BY <1>1, <2>1, <2>3, <2>4
<1>4. ASSUME NEW r \in Requests, EditAndSave(r) PROVE OwnEvent'
  <2>1. /\ pc[r] = "loaded" /\ pc' = [pc EXCEPT ![r] = "saving"]
        /\ UNCHANGED <<input, loaded>>
    BY <1>4 DEF EditAndSave
  <2>2. CASE Raises(loaded[r], input[r])
    <3>1. /\ bus'.events = [bus.events EXCEPT ![r] = <<r>>]
          /\ bus'.marked = bus.marked \union {r}
      BY <1>4, <2>2, BusSteps
    <3> QED BY <2>1, <2>2, <3>1
  <2>3. CASE ~Raises(loaded[r], input[r])
    <3>1. bus' = bus
      BY <1>4, <2>3 DEF EditAndSave
    <3> QED BY <2>1, <2>3, <3>1
  <2> QED BY <2>2, <2>3
<1>5. ASSUME NEW r \in Requests, NoteAndDispatch(r) PROVE OwnEvent'
  <2>1. /\ pc[r] = "loaded" /\ pc' = [pc EXCEPT ![r] = "done"]
        /\ UNCHANGED <<input, loaded>>
    BY <1>5 DEF NoteAndDispatch
  <2>2. bus'.events = bus.events /\ bus'.marked = bus.marked
    BY <1>5, BusSteps
  <2> QED BY <2>1, <2>2
<1>6. ASSUME NEW r \in Requests, CompleteSave(r) PROVE OwnEvent'
  <2>1. /\ pc[r] = "saving" /\ pc' = [pc EXCEPT ![r] = "done"]
        /\ UNCHANGED <<input, loaded>>
    BY <1>6 DEF CompleteSave
  <2>2. CASE Raises(loaded[r], input[r])
    <3>1. /\ bus'.events = [bus.events EXCEPT ![r] = <<>>]
          /\ bus'.marked = bus.marked \ {r}
      BY <1>6, <2>2, BusSteps
    <3> QED BY <2>1, <2>2, <3>1
  <2>3. CASE ~Raises(loaded[r], input[r])
    <3>1. bus' = bus
      BY <1>6, <2>3, BusSteps
    <3> QED BY <2>1, <2>3, <3>1
  <2> QED BY <2>2, <2>3
<1>7. ASSUME \/ \E r \in Requests : UpdateRow(r) \/ PurgeCache(r)
             \/ \E u \in Users : Expire(u)
             \/ \E i \in DOMAIN bus.dispatched : InsertAuditRow(i)
             \/ UNCHANGED vars
      PROVE  OwnEvent'
  BY <1>2, <1>7 DEF UpdateRow, PurgeCache, Expire, InsertAuditRow, vars
<1>8. ASSUME NEW S, EndProcess(S) PROVE OwnEvent'
  <2>1. bus' = Bus!AfterRestart(bus) /\ \A r \in Requests : pc'[r] # "saving"
    BY <1>8 DEF EndProcess, InFlightPc
  <2>2. /\ \A r \in Requests : bus'.events[r] = <<>>
        /\ bus'.marked = {}
    BY <2>1 DEF Bus!AfterRestart, Bus!NoEvents
  <2> QED BY <2>1, <2>2
<1> QED BY <1>3, <1>4, <1>5, <1>6, <1>7, <1>8, OrderlySteps DEF Serve

\* Nothing is in flight at the start.
LEMMA SerialInit == Init => SerialInv
<1> SUFFICES ASSUME Init PROVE SerialInv
  OBVIOUS
<1>1. \A r \in Requests : pc[r] = "idle" /\ update[r] = "none" /\ purge[r] = "none"
  BY DEF Init
<1>2. Calm /\ OneAtATime /\ Asked /\ Current
  BY <1>1 DEF Calm, OneAtATime, Asked, Current, InFlightPc
<1>3. CacheIsCurrent
  BY <1>1 DEF Init, CacheIsCurrent
<1>4. OwnEvent
  BY <1>1 DEF Init, OwnEvent, AwaitsDispatch, Bus!Init, Bus!NoEvents
<1> QED BY <1>2, <1>3, <1>4 DEF SerialInv

\* A request alone on its user loads the current row and saves over it, the
\* cache holds that row or is about to be purged, and the bus holds the event of
\* the save under way: prisma-users-repository.ts and domain-events.ts without
\* an overlap, for any number of users and requests.
THEOREM SerialInvariant == ASSUME Serial PROVE Spec => []SerialInv
<1>1. IInv /\ SerialInv /\ [Next]_vars => SerialInv'
  <2> SUFFICES ASSUME IInv, SerialInv, [Next]_vars PROVE SerialInv'
    OBVIOUS
  <2>1. BusParts(bus)
    BY BusPartsOfInv DEF IInv, BusUse
  <2>2. Calm' /\ OneAtATime' /\ Asked'
    BY CalmStep, OneAtATimeStep, AskedStep DEF IInv, SerialInv, Serial
  <2>3. Current' /\ CacheIsCurrent'
    BY CurrentStep, CacheStep DEF IInv, SerialInv
  <2>4. OwnEvent'
    BY <2>1, OwnEventStep DEF IInv, SerialInv, Serial
  <2> QED BY <2>2, <2>3, <2>4 DEF SerialInv
<1> QED BY <1>1, SerialInit, RequestsInvariant, PTL DEF Spec

-----------------------------------------------------------------------------
(* The refinement of AccountService *)

\* AccountService and UserRequests mean the same rows and edits.
LEMMA SameRows ==
    /\ Service!NoRow = NoRow
    /\ Service!EditInput = EditInput /\ Service!NoteInput = NoteInput
    /\ \A row, in : /\ Service!Edited(row, in) = Edited(row, in)
                    /\ Service!Raises(row, in) <=> Raises(row, in)
                    /\ Service!Permitted(row, in) <=> Permitted(row, in)
BY DEF Service!NoRow, NoRow, Service!EditInput, EditInput, Service!NoteInput,
       NoteInput, Service!Edited, Edited, Service!Raises, Raises,
       Service!Permitted, Permitted

\* What a request asked for and works on stays, once it has raised its event.
LEMMA EntriesStand ==
    ASSUME Types, [Next]_vars, NEW r \in Requests, pc[r] \in Raised
    PROVE  /\ input'[r] = input[r] /\ loaded'[r] = loaded[r]
           /\ EntryOf(r)' = EntryOf(r)
<1> USE DEF Types, Raised
<1>1. ASSUME NEW q \in Requests, NEW in \in Inputs, Start(q, in)
      PROVE  input'[r] = input[r] /\ loaded'[r] = loaded[r]
  BY <1>1 DEF Start
<1>2. ASSUME NEW q \in Requests, Serve(q)
      PROVE  input'[r] = input[r] /\ loaded'[r] = loaded[r]
  BY <1>2 DEF Serve, FindInCache, SelectRow, FillCache, AnswerRead, Refuse,
     EditAndSave, NoteAndDispatch, UpdateRow, PurgeCache, CompleteSave
<1>3. ASSUME \/ \E q \in Requests : RejectUpdate(q) \/ RejectPurge(q) \/ Fail(q)
             \/ \E u \in Users : Expire(u)
             \/ \E i \in DOMAIN bus.dispatched :
                   InsertAuditRow(i) \/ RejectAuditInsert(i)
             \/ Crash
             \/ UNCHANGED vars
      PROVE  input'[r] = input[r] /\ loaded'[r] = loaded[r]
  BY <1>3 DEF RejectUpdate, RejectPurge, Fail, Expire, InsertAuditRow,
     RejectAuditInsert, Crash, EndProcess, vars
<1>4. input'[r] = input[r] /\ loaded'[r] = loaded[r]
  BY <1>1, <1>2, <1>3 DEF Next
<1> QED BY <1>4 DEF EntryOf

\* A dispatched event is of a request that has raised it.
LEMMA DispatchedRaised ==
    ASSUME BusUse, BusParts(bus), NEW i \in DOMAIN bus.dispatched
    PROVE  bus.dispatched[i] \in Requests /\ pc[bus.dispatched[i]] \in Raised
<1>1. bus.dispatched[i] \in Requests
  BY DEF BusParts
<1>2. bus.dispatched[i] \in Range(bus.dispatched)
  BY DEF Range
<1> QED BY <1>1, <1>2 DEF BusUse

\* Without a dispatch the trail stays.
LEMMA TrailStands ==
    ASSUME Types, BusUse, BusParts(bus), [Next]_vars,
           bus'.dispatched = bus.dispatched
    PROVE  Trail' = Trail
<1>1. \A i \in DOMAIN bus.dispatched :
         EntryOf(bus.dispatched[i])' = EntryOf(bus.dispatched[i])
  BY DispatchedRaised, EntriesStand DEF EntryOf
<1> QED BY <1>1 DEF Trail, EntryOf

\* A dispatch of the event of r adds the entry of r.
LEMMA TrailGrows ==
    ASSUME Types, BusUse, BusParts(bus), [Next]_vars, NEW r \in Requests,
           bus'.dispatched = Append(bus.dispatched, r),
           UNCHANGED <<input, loaded>>
    PROVE  Trail' = Append(Trail, EntryOf(r))
<1>1. bus.dispatched \in Seq(Requests)
  BY DEF BusParts
<1>2. \A q : EntryOf(q)' = EntryOf(q)
  BY DEF EntryOf
<1>3. Trail' = [i \in 1..(Len(bus.dispatched) + 1) |->
                  EntryOf(Append(bus.dispatched, r)[i])]
  BY <1>1, <1>2 DEF Trail, EntryOf
<1>4. Trail = [i \in 1..Len(bus.dispatched) |-> EntryOf(bus.dispatched[i])]
  BY <1>1 DEF Trail
<1> HIDE DEF Trail
<1>5. Len(Trail) = Len(bus.dispatched)
  BY <1>1, <1>4
<1>6. Append(Trail, EntryOf(r)) = [i \in 1..(Len(Trail) + 1) |->
                         IF i = Len(Trail) + 1 THEN EntryOf(r) ELSE Trail[i]]
  BY <1>1, <1>4, <1>5
<1> QED BY <1>1, <1>3, <1>4, <1>5, <1>6

\* What is owed stays while the same requests owe it.
LEMMA OwedStands ==
    ASSUME Types, [Next]_vars,
           \A q \in Requests : Untold(q)' <=> Untold(q)
    PROVE  Owed' = Owed
<1>1. \A q \in Requests : Untold(q) => EntryOf(q)' = EntryOf(q)
  BY EntriesStand DEF Untold, Raised
<1>2. \A u \in Users :
         {EntryOf(r) : r \in {q \in Requests : UserOf[q] = u /\ Untold(q)}}'
           = {EntryOf(r) : r \in {q \in Requests : UserOf[q] = u /\ Untold(q)}}
  BY <1>1
<1> QED BY <1>2 DEF Owed

\* A step that makes no request's edit known, nor a known one told, is nothing
\* to a client.
LEMMA Stuttering ==
    ASSUME Types, BusUse, BusParts(bus), [Next]_vars, rows' = rows,
           bus'.dispatched = bus.dispatched,
           \A q \in Requests : Untold(q)' <=> Untold(q)
    PROVE  UNCHANGED Service!serviceVars
BY TrailStands, OwedStands DEF Service!serviceVars

\* The service owes nothing about the user of a request that is alone and has
\* not written its edit.
LEMMA NothingOwed ==
    ASSUME OneAtATime, NEW r \in Requests, pc[r] \in InFlightPc, ~Untold(r)
    PROVE  Owed[UserOf[r]] = {}
<1>1. ASSUME NEW q \in Requests, UserOf[q] = UserOf[r] PROVE ~Untold(q)
  BY <1>1, Alone DEF Untold, InFlightPc
<1> QED BY <1>1, UserOfRequest DEF Owed

\* It owes the edit of a request that has written it, and no other.
LEMMA OnlyOwn ==
    ASSUME OneAtATime, NEW r \in Requests, Untold(r)
    PROVE  Owed[UserOf[r]] = {EntryOf(r)}
<1>1. ASSUME NEW q \in Requests, UserOf[q] = UserOf[r], Untold(q) PROVE q = r
  BY <1>1, Alone DEF Untold, InFlightPc
<1>2. {q \in Requests : UserOf[q] = UserOf[r] /\ Untold(q)} = {r}
  BY <1>1
<1> QED BY <1>2, UserOfRequest DEF Owed

\* What is owed about the users of other requests stays owed.
LEMMA OthersOwed ==
    ASSUME Types, [Next]_vars, NEW r \in Requests,
           \A q \in Requests \ {r} : Untold(q)' <=> Untold(q)
    PROVE  Owed' = [Owed EXCEPT ![UserOf[r]] = Owed'[UserOf[r]]]
<1>1. ASSUME NEW u \in Users, u # UserOf[r] PROVE Owed'[u] = Owed[u]
  <2>1. \A q \in Requests : Untold(q) => EntryOf(q)' = EntryOf(q)
    BY EntriesStand DEF Untold, Raised
  <2>2. {EntryOf(q) : q \in {p \in Requests : UserOf[p] = u /\ Untold(p)}}'
           = {EntryOf(q) : q \in {p \in Requests : UserOf[p] = u /\ Untold(p)}}
    BY <1>1, <2>1
  <2> QED BY <2>2 DEF Owed
<1> QED BY <1>1 DEF Owed

\* Of a step of the update, the client's view is an edit of the current row.
LEMMA UpdateEdits ==
    ASSUME IInv, SerialInv, [Next]_vars, NEW r \in Requests, UpdateRow(r)
    PROVE  Service!Edit(UserOf[r], input[r]) /\ input[r] \in Inputs \intersect EditInput
<1> DEFINE u == UserOf[r]
<1>1. /\ update[r] = "pending" /\ pc[r] = "saving"
      /\ update' = [update EXCEPT ![r] = "ok"]
      /\ rows' = [rows EXCEPT ![u] = Edited(loaded[r], input[r])]
      /\ UNCHANGED <<pc, input, loaded, bus>>
  BY DEF UpdateRow, Commit, SerialInv, Calm
<1>2. /\ loaded[r] = rows[u] /\ Permitted(rows[u], input[r])
      /\ input[r] \in Inputs \intersect EditInput /\ rows[u] \in Row
  BY <1>1 DEF SerialInv, Current, Asked, IInv, Held
<1>3. u \in Users /\ rows[u] # NoRow
  BY <1>2, UserOfRequest, RequestsAssumption
<1>4. Owed[u] = {}
  BY <1>1, NothingOwed DEF SerialInv, InFlightPc, Untold
<1>5. BusParts(bus) /\ Types /\ BusUse
  BY BusPartsOfInv DEF IInv, BusUse
<1>6. Trail' = Trail
  BY <1>1, <1>5, TrailStands
<1>7. \A q \in Requests \ {r} : Untold(q)' <=> Untold(q)
  BY <1>1, <1>5 DEF Untold, Types
<1>8. Owed' = [Owed EXCEPT ![u] = Owed'[u]]
  BY <1>5, <1>7, OthersOwed
<1>9. Owed'[u] = IF Raises(rows[u], input[r])
                 THEN {EntryOf(r)} ELSE {}
  <2>1. \A q \in Requests : UserOf[q] = u /\ q # r => ~Untold(q)
    BY <1>1, Alone DEF SerialInv, Untold, InFlightPc
  <2>2. Untold(r)' <=> Raises(rows[u], input[r])
    BY <1>1, <1>2, <1>5 DEF Untold, Types
  <2>3. {q \in Requests : UserOf[q] = u /\ Untold(q)}'
           = IF Raises(rows[u], input[r]) THEN {r} ELSE {}
    BY <1>7, <2>1, <2>2
  <2>4. EntryOf(r)' = EntryOf(r)
    BY <1>1 DEF EntryOf
  <2> QED BY <1>3, <2>3, <2>4 DEF Owed
<1>10. EntryOf(r) = Service!Entry(u, input[r], rows[u], Edited(rows[u], input[r]))
  BY <1>2 DEF EntryOf, Service!Entry
<1>11. rows' = [rows EXCEPT ![u] = Edited(@, input[r])]
  BY <1>1, <1>2
<1> QED BY <1>2, <1>3, <1>4, <1>6, <1>8, <1>9, <1>10, <1>11, SameRows
        DEF Service!Edit

\* A save that is over records what it owed, if it raised an event.
LEMMA CompletionRecords ==
    ASSUME IInv, SerialInv, [Next]_vars, NEW r \in Requests, CompleteSave(r)
    PROVE  Service!Record(UserOf[r]) \/ UNCHANGED Service!serviceVars
<1> DEFINE u == UserOf[r]
<1>1. /\ pc[r] = "saving" /\ update[r] = "ok" /\ pc' = [pc EXCEPT ![r] = "done"]
      /\ UNCHANGED <<rows, input, loaded, update>>
  BY DEF CompleteSave, Goto
<1>2. BusParts(bus) /\ Types /\ BusUse
  BY BusPartsOfInv DEF IInv, BusUse
<1>3. /\ \A q \in Requests \ {r} : Untold(q)' <=> Untold(q)
      /\ ~Untold(r)'
  BY <1>1, <1>2 DEF Untold, Types
<1>4. CASE Raises(loaded[r], input[r])
  <2>1. Untold(r) /\ Owed[u] = {EntryOf(r)}
    BY <1>1, <1>4, OnlyOwn DEF Untold, SerialInv
  <2>2. bus'.dispatched = Append(bus.dispatched, r)
    BY <1>2, <1>4, BusSteps DEF SerialInv
  <2>3. Trail' = Append(Trail, EntryOf(r))
    BY <1>1, <1>2, <2>2, TrailGrows
  <2>4. \A q \in Requests : UserOf[q] = u => ~Untold(q)'
    BY <1>1, <1>3, Alone DEF SerialInv, Untold, InFlightPc
  <2>5. Owed'[u] = {}
    BY <2>4, UserOfRequest DEF Owed
  <2>6. Owed' = [Owed EXCEPT ![u] = {}]
    BY <1>2, <1>3, <2>5, OthersOwed
  <2> QED BY <1>1, <2>1, <2>3, <2>6 DEF Service!Record
<1>5. CASE ~Raises(loaded[r], input[r])
  <2>1. bus' = bus
    BY <1>2, <1>5, BusSteps DEF SerialInv
  <2>2. ~Untold(r)
    BY <1>5 DEF Untold
  <2> QED BY <1>1, <1>2, <1>3, <2>1, <2>2, Stuttering
<1> QED BY <1>4, <1>5

\* A login, logout or forgotten password is a note about the current row.
LEMMA NotesAreNotes ==
    ASSUME IInv, SerialInv, [Next]_vars, NEW r \in Requests, NoteAndDispatch(r)
    PROVE  Service!Note(UserOf[r], input[r]) /\ input[r] \in Inputs \intersect NoteInput
<1> DEFINE u == UserOf[r]
<1>1. /\ pc[r] = "loaded" /\ pc' = [pc EXCEPT ![r] = "done"]
      /\ Permitted(loaded[r], input[r]) /\ input[r] \in NoteInput
      /\ UNCHANGED <<rows, input, loaded, update>>
  BY DEF NoteAndDispatch, Goto
<1>2. BusParts(bus) /\ Types /\ BusUse
  BY BusPartsOfInv DEF IInv, BusUse
<1>3. /\ loaded[r] = rows[u] /\ rows[u] \in Row /\ input[r] \in Inputs
  BY <1>1 DEF SerialInv, Current, Asked, IInv, Held
<1>4. rows[u] # NoRow
  BY <1>3, RequestsAssumption
<1>5. Owed[u] = {}
  BY <1>1, NothingOwed DEF SerialInv, InFlightPc, Untold
<1>6. bus'.dispatched = Append(bus.dispatched, r)
  BY <1>2, BusSteps DEF SerialInv
<1>7. Trail' = Append(Trail, EntryOf(r))
  BY <1>1, <1>2, <1>6, TrailGrows
<1>8. Owed' = Owed
  <2>1. \A q \in Requests : Untold(q)' <=> Untold(q)
    BY <1>1, <1>2 DEF Untold, Types
  <2> QED BY <1>2, <2>1, OwedStands
<1>9. input[r] \notin EditInput
  BY <1>1 DEF NoteInput, EditInput
<1>10. EntryOf(r) = Service!Entry(u, input[r], rows[u], rows[u])
  BY <1>3, <1>9 DEF EntryOf, Service!Entry
<1> QED BY <1>1, <1>3, <1>4, <1>5, <1>7, <1>8, <1>10, SameRows
        DEF Service!Note

\* Every other step is nothing to a client.
LEMMA ServiceStep ==
    ASSUME Serial, IInv, SerialInv, [Next]_vars
    PROVE  [Service!Next]_(Service!serviceVars)
<1>1. BusParts(bus) /\ Types /\ BusUse
  BY BusPartsOfInv DEF IInv, BusUse
<1>2. ASSUME NEW r \in Requests, UpdateRow(r) PROVE Service!Next
  BY <1>2, UpdateEdits, UserOfRequest, SameRows DEF Service!Next
<1>3. ASSUME NEW r \in Requests, CompleteSave(r)
      PROVE  Service!Next \/ UNCHANGED Service!serviceVars
  BY <1>3, CompletionRecords, UserOfRequest DEF Service!Next
<1>4. ASSUME NEW r \in Requests, NoteAndDispatch(r) PROVE Service!Next
  BY <1>4, NotesAreNotes, UserOfRequest, SameRows DEF Service!Next
<1>5. ASSUME NEW r \in Requests,
             FindInCache(r) \/ SelectRow(r) \/ FillCache(r) \/ AnswerRead(r)
                \/ Refuse(r) \/ (Fail(r) /\ pc[r] = "loaded")
                \/ (\E in \in Inputs : Start(r, in))
      PROVE  UNCHANGED Service!serviceVars
  <2>1. /\ UNCHANGED <<rows, bus, update>> /\ pc[r] # "saving"
        /\ \E label : label # "saving" /\ pc' = [pc EXCEPT ![r] = label]
    BY <1>5 DEF FindInCache, SelectRow, FillCache, AnswerRead, Refuse, Fail,
       Start, Goto
  <2>2. \A q \in Requests : pc'[q] = "saving" <=> pc[q] = "saving"
    BY <1>1, <2>1 DEF Types
  <2>3. \A q \in Requests : pc[q] = "saving" =>
           input'[q] = input[q] /\ loaded'[q] = loaded[q]
    BY <1>1, EntriesStand DEF Raised
  <2>4. \A q \in Requests : Untold(q)' <=> Untold(q)
    BY <2>1, <2>2, <2>3 DEF Untold
  <2> QED BY <1>1, <2>1, <2>4, Stuttering
<1>6. ASSUME NEW r \in Requests, EditAndSave(r)
      PROVE  UNCHANGED Service!serviceVars
  <2>1. /\ pc[r] = "loaded" /\ update' = [update EXCEPT ![r] = "pending"]
        /\ pc' = [pc EXCEPT ![r] = "saving"]
        /\ UNCHANGED <<rows, input, loaded>>
    BY <1>6 DEF EditAndSave, Goto
  <2>2. bus'.dispatched = bus.dispatched
    BY <1>1, <1>6, BusSteps DEF SerialInv, EditAndSave
  <2>3. \A q \in Requests : Untold(q)' <=> Untold(q)
    BY <1>1, <2>1 DEF Untold, Types
  <2> QED BY <1>1, <2>1, <2>2, <2>3, Stuttering
<1>7. ASSUME \/ \E r \in Requests : PurgeCache(r)
             \/ \E u \in Users : Expire(u)
             \/ \E i \in DOMAIN bus.dispatched : InsertAuditRow(i)
             \/ UNCHANGED vars
      PROVE  UNCHANGED Service!serviceVars
  <2>1. UNCHANGED <<rows, bus, pc, update, input, loaded>>
    BY <1>7 DEF PurgeCache, Expire, InsertAuditRow, vars
  <2>2. \A q \in Requests : Untold(q)' <=> Untold(q)
    BY <2>1 DEF Untold
  <2> QED BY <1>1, <2>1, <2>2, Stuttering
<1> QED BY <1>1, <1>2, <1>3, <1>4, <1>5, <1>6, <1>7, SerialSteps DEF Serve

\* A client sees accounts, nothing owed and no trail yet.
LEMMA ServiceInit == Init => Service!Init
<1> SUFFICES ASSUME Init PROVE Service!Init
  OBVIOUS
<1>1. \A q \in Requests : ~Untold(q)
  BY DEF Init, Untold
<1>2. Owed = [u \in Users |-> {}]
  BY <1>1 DEF Owed
<1>3. bus.dispatched = <<>>
  BY DEF Init, Bus!Init
<1>4. Trail = <<>>
  BY <1>3 DEF Trail
<1> QED BY <1>2, <1>4, SameRows DEF Init, Service!Init

\* Every request is then one step of AccountService, or none: an edit of the
\* current row where the update arrives, its entry where the save is dispatched.
THEOREM SerialRequestsServe == ASSUME Serial PROVE Spec => ActsAsAccountService
<1>1. Init => Service!Init
  BY ServiceInit
<1>2. IInv /\ SerialInv /\ [Next]_vars => [Service!Next]_(Service!serviceVars)
  BY ServiceStep
<1> QED BY <1>1, <1>2, RequestsInvariant, SerialInvariant, PTL
        DEF Spec, ActsAsAccountService, Service!Spec

-----------------------------------------------------------------------------
(* The trail of AccountService tells its accounts *)

\* An entry more changes nothing about what earlier ones left, or about other
\* users; its own user it leaves with its after.
LEMMA LeavesAppended ==
    ASSUME NEW S, NEW t \in Seq(S), NEW e \in S
    PROVE  LET a == Append(t, e) IN
           /\ \A u, row : \A n \in 0..Len(t) :
                 Service!Leaves(a, u, n, row) <=> Service!Leaves(t, u, n, row)
           /\ Service!Leaves(a, e.user, Len(t) + 1, e.after)
           /\ \A u, row : u # e.user /\ Service!Leaves(t, u, Len(t), row)
                 => Service!Leaves(a, u, Len(t) + 1, row)
<1> DEFINE a == Append(t, e)
<1>1. /\ Len(t) \in Nat /\ a[Len(t) + 1] = e
      /\ \A i \in 1..Len(t) : a[i] = t[i]
  OBVIOUS
<1> HIDE DEF a
<1>2. ASSUME NEW u, NEW row, NEW n \in 0..Len(t)
      PROVE  Service!Leaves(a, u, n, row) <=> Service!Leaves(t, u, n, row)
  <2>1. \A i \in 1..n : i \in 1..Len(t)
    BY <1>1
  <2>2. \A i \in 1..n : a[i] = t[i] /\ \A j \in i+1..n : j \in 1..n
    BY <1>1, <2>1
  <2> QED BY <2>2 DEF Service!Leaves
<1>3. Service!Leaves(a, e.user, Len(t) + 1, e.after)
  <2>1. Len(t) + 1 \in 1..(Len(t) + 1) /\ (Len(t)+1)+1..Len(t)+1 = {}
    BY <1>1
  <2> QED BY <1>1, <2>1 DEF Service!Leaves
<1>4. ASSUME NEW u, NEW row, u # e.user, Service!Leaves(t, u, Len(t), row)
      PROVE  Service!Leaves(a, u, Len(t) + 1, row)
  <2>1. \A i \in 1..(Len(t) + 1) : i \in 1..Len(t) \/ i = Len(t) + 1
    BY <1>1
  <2>2. CASE row = InitialRow /\ \A i \in 1..Len(t) : t[i].user # u
    BY <1>1, <1>4, <2>1, <2>2 DEF Service!Leaves
  <2>3. CASE \E i \in 1..Len(t) : /\ t[i].user = u /\ t[i].after = row
                                  /\ \A j \in i+1..Len(t) : t[j].user # u
    <3>1. PICK i \in 1..Len(t) : /\ t[i].user = u /\ t[i].after = row
                                 /\ \A j \in i+1..Len(t) : t[j].user # u
      BY <2>3
    <3>2. \A j \in i+1..(Len(t) + 1) : a[j].user # u
      <4>1. \A j \in i+1..(Len(t) + 1) :
               j = Len(t) + 1 \/ (j \in i+1..Len(t) /\ j \in 1..Len(t))
        BY <1>1
      <4> QED BY <1>1, <1>4, <3>1, <4>1
    <3>3. i \in 1..(Len(t) + 1) /\ a[i] = t[i]
      BY <1>1
    <3> QED BY <3>1, <3>2, <3>3 DEF Service!Leaves
  <2> QED BY <1>4, <2>2, <2>3 DEF Service!Leaves
<1> QED BY <1>2, <1>3, <1>4 DEF a

\* The trail is a sequence, one entry for each dispatched event.
LEMMA TrailType ==
    ASSUME BusParts(bus)
    PROVE  Trail \in Seq({EntryOf(r) : r \in Requests})
BY DEF BusParts, Trail

\* The trail of the service goes on telling its accounts.
LEMMA TellingInit == Service!Init => Service!TrailTellsAccounts
<1> SUFFICES ASSUME Service!Init PROVE Service!TrailTellsAccounts
  OBVIOUS
<1>1. Trail = <<>> /\ Len(Trail) = 0
  BY DEF Service!Init
<1>2. \A u \in Users : Owed[u] = {} /\ rows[u] \in {InitialRow, Service!NoRow}
  BY DEF Service!Init
<1>3. \A u : Service!Leaves(Trail, u, 0, InitialRow)
  BY DEF Service!Leaves
<1> QED BY <1>1, <1>2, <1>3 DEF Service!TrailTellsAccounts, Service!Tells

\* What TrailTellsAccounts says of the next state, without a prime to move.
LEMMA TellingNext ==
    ASSUME \A i \in 1..Len(Trail') :
              /\ Service!Truthful(Trail'[i])
              /\ Service!Leaves(Trail', Trail'[i].user, i - 1, Trail'[i].before),
           \A u \in Users : Service!Tells(Trail', u, rows'[u], Owed'[u])
    PROVE  Service!TrailTellsAccounts'
BY DEF Service!TrailTellsAccounts, Service!Tells, Service!Leaves,
       Service!Truthful, Service!Permitted, Service!Edited, Service!EditInput,
       Service!NoRow

\* An edit of an account tells on: what it owes starts from the row the trail
\* leaves, and an edit that raises no event leaves the row as it was.
LEMMA TellingEdit ==
    ASSUME Types, Service!TrailTellsAccounts, NEW u \in Users,
           NEW in \in Inputs \intersect Service!EditInput, Service!Edit(u, in)
    PROVE  Service!TrailTellsAccounts'
<1>1. /\ rows[u] # Service!NoRow /\ Owed[u] = {}
      /\ Service!Permitted(rows[u], in)
      /\ rows' = [rows EXCEPT ![u] = Service!Edited(@, in)]
      /\ Owed' = [Owed EXCEPT ![u] =
                    IF Service!Raises(rows[u], in)
                    THEN {Service!Entry(u, in, rows[u], Service!Edited(rows[u], in))}
                    ELSE {}]
      /\ Trail' = Trail
  BY DEF Service!Edit
<1>2. rows \in [Users -> Row \union {NoRow}] /\ DOMAIN Owed = Users
  BY DEF Types, Owed
<1> HIDE DEF Owed, Trail
<1>3. Service!Leaves(Trail, u, Len(Trail), rows[u])
  BY <1>1 DEF Service!TrailTellsAccounts, Service!Tells
<1>4. Service!Tells(Trail', u, rows'[u], Owed'[u])
  <2>1. CASE Service!Raises(rows[u], in)
    <3> DEFINE e == Service!Entry(u, in, rows[u], Service!Edited(rows[u], in))
    <3>1. /\ e.user = u /\ e.input = in /\ e.before = rows[u]
          /\ e.after = Service!Edited(rows[u], in)
      BY DEF Service!Entry
    <3>2. Owed'[u] = {e} /\ rows'[u] = e.after
      BY <1>1, <1>2, <2>1, <3>1
    <3> HIDE DEF e
    <3>3. Service!Truthful(e)
      BY <1>1, <3>1 DEF Service!Truthful
    <3> QED BY <1>1, <1>3, <3>1, <3>2, <3>3 DEF Service!Tells
  <2>2. CASE ~Service!Raises(rows[u], in)
    <3>1. Service!Edited(rows[u], in) = rows[u]
      <4>1. rows[u] \in Row
        BY <1>1, <1>2, SameRows
      <4>2. in.kind = "edit" /\ rows[u].name = in.name
        BY <2>2 DEF Service!Raises
      <4>3. [rows[u] EXCEPT !.name = in.name] = rows[u]
        BY <4>1, <4>2 DEF Row
      <4> QED BY <4>2, <4>3 DEF Service!Edited
    <3>2. Owed'[u] = {} /\ rows'[u] = rows[u]
      BY <1>1, <1>2, <2>2, <3>1
    <3> QED BY <1>1, <1>3, <3>2 DEF Service!Tells
  <2> QED BY <2>1, <2>2
<1>5. ASSUME NEW v \in Users PROVE Service!Tells(Trail', v, rows'[v], Owed'[v])
  <2>1. v # u => rows'[v] = rows[v] /\ Owed'[v] = Owed[v]
    BY <1>1, <1>2
  <2>2. Service!Tells(Trail, v, rows[v], Owed[v])
    BY DEF Service!TrailTellsAccounts
  <2> QED BY <1>1, <1>4, <2>1, <2>2
<1>6. ASSUME NEW i \in 1..Len(Trail')
      PROVE  /\ Service!Truthful(Trail'[i])
             /\ Service!Leaves(Trail', Trail'[i].user, i - 1, Trail'[i].before)
  BY <1>1 DEF Service!TrailTellsAccounts
<1> QED BY <1>5, <1>6, TellingNext

\* So does an entry that starts from the row the trail leaves and leaves the
\* row that is stored.
LEMMA TellingAppend ==
    ASSUME BusParts(bus), Service!TrailTellsAccounts, NEW e,
           e.user \in Users, Service!Truthful(e),
           Service!Leaves(Trail, e.user, Len(Trail), e.before),
           e.after = rows[e.user], rows' = rows,
           Trail' = Append(Trail, e),
           Owed' = [Owed EXCEPT ![e.user] = {}]
    PROVE  Service!TrailTellsAccounts'
<1> DEFINE S == {EntryOf(r) : r \in Requests} \union {e}
<1>1. Trail \in Seq(S) /\ e \in S
  BY TrailType
<1> HIDE DEF S, Trail
<1>2. DOMAIN Owed = Users
  BY DEF Owed
<1> HIDE DEF Owed
<1> DEFINE a == Append(Trail, e)
<1>3. /\ \A u, row : \A n \in 0..Len(Trail) :
             Service!Leaves(a, u, n, row) <=> Service!Leaves(Trail, u, n, row)
      /\ Service!Leaves(a, e.user, Len(Trail) + 1, e.after)
      /\ \A u, row : u # e.user /\ Service!Leaves(Trail, u, Len(Trail), row)
            => Service!Leaves(a, u, Len(Trail) + 1, row)
  BY <1>1, LeavesAppended
<1>4. /\ Len(Trail) \in Nat /\ Len(a) = Len(Trail) + 1 /\ a[Len(Trail) + 1] = e
      /\ \A i \in 1..Len(Trail) : a[i] = Trail[i]
  BY <1>1
<1>5. Trail' = a
  OBVIOUS
<1> HIDE DEF a
<1>6. ASSUME NEW i \in 1..Len(a)
      PROVE  /\ Service!Truthful(a[i])
             /\ Service!Leaves(a, a[i].user, i - 1, a[i].before)
  <2>1. CASE i \in 1..Len(Trail)
    <3>1. Service!Truthful(a[i]) /\ Service!Leaves(Trail, a[i].user, i - 1, a[i].before)
      BY <1>4, <2>1 DEF Service!TrailTellsAccounts
    <3>2. i - 1 \in 0..Len(Trail)
      BY <1>4, <2>1
    <3> QED BY <1>3, <3>1, <3>2
  <2>2. CASE i = Len(Trail) + 1
    <3>1. i - 1 = Len(Trail) /\ Len(Trail) \in 0..Len(Trail) /\ a[i] = e
      BY <1>4, <2>2
    <3> QED BY <1>3, <3>1
  <2> QED BY <1>4, <2>1, <2>2
<1>7. ASSUME NEW v \in Users PROVE Service!Tells(a, v, rows'[v], Owed'[v])
  <2>1. CASE v = e.user
    <3>1. Owed'[v] = {} /\ Service!Leaves(a, v, Len(a), rows'[v])
      BY <1>2, <1>3, <1>4, <2>1
    <3> QED BY <3>1 DEF Service!Tells
  <2>2. CASE v # e.user
    <3>1. Service!Tells(Trail, v, rows[v], Owed[v])
      BY DEF Service!TrailTellsAccounts
    <3>2. Owed'[v] = Owed[v] /\ rows'[v] = rows[v]
      BY <1>2, <2>2
    <3>3. ASSUME NEW row, Service!Leaves(Trail, v, Len(Trail), row)
          PROVE  Service!Leaves(a, v, Len(a), row)
      BY <1>3, <1>4, <2>2, <3>3
    <3> QED BY <3>1, <3>2, <3>3 DEF Service!Tells
  <2> QED BY <2>1, <2>2
<1> QED BY <1>5, <1>6, <1>7, TellingNext

\* So every step of the service goes on telling.
LEMMA TellingStep ==
    ASSUME Types, BusParts(bus), Service!TrailTellsAccounts,
           [Service!Next]_(Service!serviceVars)
    PROVE  Service!TrailTellsAccounts'
<1>1. ASSUME NEW u \in Users, Service!Record(u)
      PROVE  Service!TrailTellsAccounts'
  <2>1. PICK e \in Owed[u] : Trail' = Append(Trail, e)
    BY <1>1 DEF Service!Record
  <2>2. rows' = rows /\ Owed' = [Owed EXCEPT ![u] = {}]
    BY <1>1 DEF Service!Record
  <2>3. Service!Tells(Trail, u, rows[u], Owed[u])
    BY DEF Service!TrailTellsAccounts
  <2>4. /\ e.user = u /\ Service!Truthful(e) /\ e.after = rows[u]
        /\ Service!Leaves(Trail, u, Len(Trail), e.before)
    BY <2>1, <2>3 DEF Service!Tells
  <2> QED BY <2>1, <2>2, <2>4, TellingAppend
<1>2. ASSUME NEW u \in Users, NEW in \in Inputs \intersect Service!NoteInput,
             Service!Note(u, in)
      PROVE  Service!TrailTellsAccounts'
  <2> DEFINE e == Service!Entry(u, in, rows[u], rows[u])
  <2>1. /\ rows[u] # Service!NoRow /\ Owed[u] = {}
        /\ Service!Permitted(rows[u], in)
        /\ Trail' = Append(Trail, e) /\ rows' = rows /\ Owed' = Owed
    BY <1>2 DEF Service!Note
  <2>2. /\ e.user = u /\ e.input = in /\ e.before = rows[u] /\ e.after = rows[u]
    BY DEF Service!Entry
  <2>3. Owed' = [Owed EXCEPT ![u] = {}]
    BY <2>1 DEF Owed
  <2> HIDE DEF e
  <2>4. Service!Leaves(Trail, u, Len(Trail), rows[u])
    BY <2>1 DEF Service!TrailTellsAccounts, Service!Tells
  <2>5. in \notin Service!EditInput
    BY DEF Service!EditInput, Service!NoteInput
  <2>6. Service!Truthful(e)
    BY <2>1, <2>2, <2>5 DEF Service!Truthful
  <2> QED BY <2>1, <2>2, <2>3, <2>4, <2>6, TellingAppend
<1>3. ASSUME UNCHANGED Service!serviceVars PROVE Service!TrailTellsAccounts'
  <2>1. Trail' = Trail /\ rows' = rows /\ Owed' = Owed
    BY <1>3 DEF Service!serviceVars
  <2> HIDE DEF Trail, Owed
  <2> QED BY <2>1, TellingNext DEF Service!TrailTellsAccounts
<1> QED BY <1>1, <1>2, <1>3, TellingEdit DEF Service!Next

\* With a user's requests one at a time, neither the database nor Redis failing
\* and the process alive, the audit trail tells every user's row, for any number
\* of users and requests.
THEOREM TrailsTellRows == ASSUME Serial PROVE Spec => []TrailTellsRows
<1>1. Init => TrailTellsRows
  BY ServiceInit, TellingInit DEF TrailTellsRows
<1>2. IInv /\ SerialInv /\ TrailTellsRows /\ [Next]_vars => TrailTellsRows'
  <2> SUFFICES ASSUME IInv, SerialInv, TrailTellsRows, [Next]_vars
               PROVE  TrailTellsRows'
    OBVIOUS
  <2>1. Types /\ BusParts(bus) /\ [Service!Next]_(Service!serviceVars)
    BY BusPartsOfInv, ServiceStep DEF IInv, BusUse
  <2> QED BY <2>1, TellingStep DEF TrailTellsRows
<1> QED BY <1>1, <1>2, RequestsInvariant, SerialInvariant, PTL DEF Spec

-----------------------------------------------------------------------------
(* Crashes allowed: what overlap and rejected calls alone can lose *)

\* A call that may still arrive is of a save under way or of one that failed.
PendingIsOpen ==
    \A r \in Requests : update[r] = "pending" => pc[r] \in {"saving", "failed"}

OrderlyInv == /\ OneAtATime /\ OwnEvent
              /\ PendingIsOpen /\ SavedEditIsDispatched

\* Only a completed save is done, and it hands its event over.
LEMMA DispatchedStep ==
    ASSUME Orderly, Types, Held, BusParts(bus), OneAtATime, OwnEvent,
           PendingIsOpen, SavedEditIsDispatched, [Next]_vars
    PROVE  PendingIsOpen' /\ SavedEditIsDispatched'
<1> USE DEF Types, PendingIsOpen, SavedEditIsDispatched, Goto
<1> DEFINE Goal == PendingIsOpen' /\ SavedEditIsDispatched'
           Kept == Range(bus.dispatched) \subseteq Range(bus'.dispatched)
<1>1. ASSUME NEW e, bus'.dispatched = Append(bus.dispatched, e)
      PROVE  Kept /\ e \in Range(bus'.dispatched)
  <2>1. bus.dispatched \in Seq(Requests)
    BY DEF BusParts
  <2>2. /\ \A i \in DOMAIN bus.dispatched :
              i \in DOMAIN bus'.dispatched /\ bus'.dispatched[i] = bus.dispatched[i]
        /\ Len(bus.dispatched) + 1 \in DOMAIN bus'.dispatched
        /\ bus'.dispatched[Len(bus.dispatched) + 1] = e
    BY <1>1, <2>1
  <2> QED BY <2>2 DEF Range
<1>2. ASSUME NEW r \in Requests, update[r] = "none", UNCHANGED update, Kept,
             NEW label, pc' = [pc EXCEPT ![r] = label],
             NEW in, input' = [input EXCEPT ![r] = in],
             NEW row, loaded' = [loaded EXCEPT ![r] = row]
      PROVE  Goal
  BY <1>2
<1>3. ASSUME NEW r \in Requests,
             FindInCache(r) \/ SelectRow(r) \/ FillCache(r) \/ AnswerRead(r)
                \/ Refuse(r) \/ (Fail(r) /\ pc[r] = "loaded")
                \/ NoteAndDispatch(r) \/ (\E in \in Inputs : Start(r, in))
      PROVE  Goal
  <2>1. /\ pc[r] \notin Raised /\ UNCHANGED update
        /\ \E label : pc' = [pc EXCEPT ![r] = label]
    BY <1>3 DEF FindInCache, SelectRow, FillCache, AnswerRead, Refuse, Fail,
       NoteAndDispatch, Start, Raised
  <2>2. update[r] = "none"
    BY <2>1 DEF Held
  <2>3. Kept
    <3>1. CASE NoteAndDispatch(r)
      BY <1>1, <3>1, BusSteps
    <3>2. CASE ~NoteAndDispatch(r)
      <4>1. bus' = bus
        BY <1>3, <3>2 DEF FindInCache, SelectRow, FillCache, AnswerRead,
           Refuse, Fail, Start
      <4> QED BY <4>1
    <3> QED BY <3>1, <3>2
  <2>4. input = [input EXCEPT ![r] = input[r]] /\ loaded = [loaded EXCEPT ![r] = loaded[r]]
    OBVIOUS
  <2>5. \E in : input' = [input EXCEPT ![r] = in]
    BY <1>3, <2>4 DEF FindInCache, SelectRow, FillCache, AnswerRead, Refuse,
       Fail, NoteAndDispatch, Start
  <2>6. \E row : loaded' = [loaded EXCEPT ![r] = row]
    BY <1>3, <2>4 DEF FindInCache, SelectRow, FillCache, AnswerRead, Refuse,
       Fail, NoteAndDispatch, Start
  <2> HIDE DEF Goal
  <2> QED BY <1>2, <2>1, <2>2, <2>3, <2>5, <2>6
<1>4. ASSUME NEW r \in Requests, EditAndSave(r) PROVE Goal
  <2>1. bus'.dispatched = bus.dispatched
    BY <1>4, BusSteps DEF EditAndSave
  <2> QED BY <1>4, <2>1 DEF EditAndSave
<1>5. ASSUME NEW r \in Requests, UpdateRow(r) PROVE Goal
  BY <1>5 DEF UpdateRow
<1>6. ASSUME NEW r \in Requests, CompleteSave(r) PROVE Goal
  <2>1. /\ Kept /\ UNCHANGED <<input, loaded, update>>
        /\ update[r] = "ok" /\ pc' = [pc EXCEPT ![r] = "done"]
        /\ Raises(loaded[r], input[r]) => r \in Range(bus'.dispatched)
    BY <1>1, <1>6, BusSteps DEF CompleteSave
  <2> QED BY <2>1
<1>7. ASSUME UNCHANGED <<bus, pc, input, loaded, update>> PROVE Goal
  BY <1>7
<1>8. ASSUME \/ \E r \in Requests : PurgeCache(r)
             \/ \E u \in Users : Expire(u)
             \/ \E i \in DOMAIN bus.dispatched : InsertAuditRow(i)
             \/ UNCHANGED vars
      PROVE  Goal
  BY <1>7, <1>8 DEF PurgeCache, Expire, InsertAuditRow, vars
<1>9. ASSUME NEW S, EndProcess(S) PROVE Goal
  <2>1. bus'.dispatched = bus.dispatched /\ UNCHANGED <<input, loaded>>
    BY <1>9 DEF EndProcess, Bus!AfterRestart
  <2>2. \A r \in Requests :
           /\ pc'[r] = IF pc[r] \in InFlightPc THEN "failed" ELSE pc[r]
           /\ update'[r] \in {update[r], "rejected"}
    BY <1>9 DEF EndProcess
  <2> QED BY <2>1, <2>2 DEF InFlightPc
<1> HIDE DEF Goal
<1>10. Goal
  BY <1>3, <1>4, <1>5, <1>6, <1>8, <1>9, OrderlySteps DEF Serve
<1> QED BY <1>10 DEF Goal

\* When a user's requests come one at a time and neither the database nor Redis
\* rejects a call, a saved edit is dispatched, however often the process ends:
\* of what may lose an event, only overlap and rejected calls do.
THEOREM OrderlySavesAreDispatched ==
    ASSUME Orderly PROVE Spec => []SavedEditIsDispatched
<1>1. Init => OrderlyInv
  BY SerialInit DEF SerialInv, OrderlyInv, PendingIsOpen,
     SavedEditIsDispatched, Init
<1>2. IInv /\ OrderlyInv /\ [Next]_vars => OrderlyInv'
  <2> SUFFICES ASSUME IInv, OrderlyInv, [Next]_vars PROVE OrderlyInv'
    OBVIOUS
  <2>1. BusParts(bus)
    BY BusPartsOfInv DEF IInv, BusUse
  <2> QED BY <2>1, OneAtATimeStep, OwnEventStep, DispatchedStep
          DEF IInv, OrderlyInv
<1>3. OrderlyInv => SavedEditIsDispatched
  BY DEF OrderlyInv
<1> QED BY <1>1, <1>2, <1>3, RequestsInvariant, PTL DEF Spec

\* When besides the process does not end, the cache never serves an old row:
\* between a user's saves the entry is the row that is stored, or absent.
THEOREM SerialCacheIsFresh ==
    ASSUME Serial
    PROVE  Spec => [](\A u \in Users :
                         \/ cache[u] \in {NoRow, rows[u]}
                         \/ \E r \in Requests : UserOf[r] = u /\ pc[r] = "saving")
<1>1. SerialInv => \A u \in Users :
                      \/ cache[u] \in {NoRow, rows[u]}
                      \/ \E r \in Requests : UserOf[r] = u /\ pc[r] = "saving"
  BY DEF SerialInv, CacheIsCurrent, Purging
<1> QED BY <1>1, SerialInvariant, PTL

-----------------------------------------------------------------------------
(* Progress, without any hypothesis: no request waits for nothing *)

\* A save makes both calls, and one that is under way has none rejected.
SavesCall ==
    \A r \in Requests :
       /\ pc[r] = "saving" => /\ update[r] \in {"pending", "ok"}
                              /\ purge[r] \in {"pending", "ok"}
       /\ update[r] = "none" => purge[r] = "none"

\* The first rejection ends the save.
LEMMA SavesCallStep ==
    ASSUME Types, Held, SavesCall, [Next]_vars PROVE SavesCall'
<1> USE DEF Types, SavesCall, Goto
<1>1. ASSUME NEW r \in Requests, UNCHANGED <<update, purge>>,
             NEW label, label # "saving", pc' = [pc EXCEPT ![r] = label]
      PROVE  SavesCall'
  BY <1>1
<1>2. ASSUME NEW r \in Requests,
             FindInCache(r) \/ SelectRow(r) \/ FillCache(r) \/ AnswerRead(r)
                \/ Refuse(r) \/ NoteAndDispatch(r) \/ CompleteSave(r) \/ Fail(r)
                \/ (\E in \in Inputs : Start(r, in))
      PROVE  SavesCall'
  <2>1. UNCHANGED <<update, purge>>
    BY <1>2 DEF FindInCache, SelectRow, FillCache, AnswerRead, Refuse,
       NoteAndDispatch, CompleteSave, Fail, Start
  <2>2. \E label : label # "saving" /\ pc' = [pc EXCEPT ![r] = label]
    BY <1>2 DEF FindInCache, SelectRow, FillCache, AnswerRead, Refuse,
       NoteAndDispatch, CompleteSave, Fail, Start
  <2> QED BY <1>1, <2>1, <2>2
<1>3. ASSUME NEW r \in Requests, EditAndSave(r) PROVE SavesCall'
  BY <1>3 DEF EditAndSave
<1>4. ASSUME NEW r \in Requests, UpdateRow(r) \/ PurgeCache(r) PROVE SavesCall'
  BY <1>4 DEF UpdateRow, PurgeCache
<1>5. ASSUME NEW r \in Requests, RejectUpdate(r) \/ RejectPurge(r)
      PROVE  SavesCall'
  BY <1>5 DEF RejectUpdate, RejectPurge, RejectSave
<1>6. ASSUME NEW S, EndProcess(S) PROVE SavesCall'
  <2>1. \A r \in Requests : pc'[r] # "saving"
    BY <1>6 DEF EndProcess, InFlightPc
  <2>2. \A r \in Requests : update'[r] \in {update[r], "rejected"}
    BY <1>6 DEF EndProcess
  <2>3. \A r \in Requests : purge[r] = "none" => purge'[r] = "none"
    BY <1>6 DEF EndProcess
  <2> QED BY <2>1, <2>2, <2>3
<1>7. ASSUME \/ \E u \in Users : Expire(u)
             \/ \E i \in DOMAIN bus.dispatched : InsertAuditRow(i)
             \/ UNCHANGED vars
      PROVE  SavesCall'
  BY <1>7 DEF Expire, InsertAuditRow, vars
<1> QED BY <1>2, <1>3, <1>4, <1>5, <1>6, <1>7
        DEF Next, Serve, Crash, RejectAuditInsert

\* So it is whatever overlaps and fails.
LEMMA SavesMakeCalls == Spec => []SavesCall
<1>1. Init => SavesCall
  BY DEF Init, SavesCall
<1>2. IInv /\ SavesCall /\ [Next]_vars => SavesCall'
  BY SavesCallStep DEF IInv
<1> QED BY <1>1, <1>2, RequestsInvariant, PTL DEF Spec

\* The guards of Serve(r): a read, refusal, edit or note for whoever holds the
\* user, and for a save a call to answer or both answers to go on with.
Served(r) ==
    \/ pc[r] \in {"get", "select", "selectByEmail", "set"}
    \/ pc[r] = "loaded" /\ \/ input[r].kind = "read"
                           \/ ~Permitted(loaded[r], input[r])
                           \/ input[r] \in EditInput \union NoteInput
    \/ update[r] = "pending" \/ purge[r] = "pending"
    \/ pc[r] = "saving" /\ update[r] = "ok" /\ purge[r] = "ok"

\* Whatever was rejected and however requests overlap, a request in flight has a
\* step to take; only starting waits for another request.
THEOREM NobodyIsStuck ==
    Spec => [](\A r \in Requests : pc[r] \in InFlightPc => Served(r))
<1>1. IInv /\ SavesCall => \A r \in Requests : pc[r] \in InFlightPc => Served(r)
  <2> SUFFICES ASSUME IInv, SavesCall, NEW r \in Requests, pc[r] \in InFlightPc
               PROVE  Served(r)
    OBVIOUS
  <2>1. input[r] \in Input
    BY DEF IInv, Types
  <2>2. input[r].kind = "read" \/ input[r] \in EditInput \union NoteInput
    BY <2>1 DEF Input
  <2> QED BY <2>2 DEF SavesCall, Served, InFlightPc
<1> QED BY <1>1, RequestsInvariant, SavesMakeCalls, PTL

\* How many steps a request has ahead of it at most.
Ahead(r) ==
    CASE pc[r] = "get"    -> 7
      [] pc[r] \in {"select", "selectByEmail"} -> 6
      [] pc[r] = "set"    -> 5
      [] pc[r] = "loaded" -> 4
      [] pc[r] = "saving" -> 1 + (IF update[r] = "pending" THEN 1 ELSE 0)
                               + (IF purge[r] = "pending" THEN 1 ELSE 0)
      [] OTHER -> 0

\* Every step of a request, answered or rejected, takes it nearer its end, and
\* nothing another request, the cache's TTL, the audit subscribers or a crash
\* does takes it back: with NobodyIsStuck, what fairness needs to end it.
THEOREM RequestsAdvance ==
    Spec => [][\A r \in Requests : pc[r] \in InFlightPc =>
                  /\ Ahead(r) \in 1..7
                  /\ Ahead(r)' <= Ahead(r)
                  /\ Serve(r) \/ RejectUpdate(r) \/ RejectPurge(r) \/ Fail(r)
                        => Ahead(r)' < Ahead(r)]_vars
<1> DEFINE Advances(r) == /\ Ahead(r) \in 1..7
                          /\ Ahead(r)' <= Ahead(r)
                          /\ Serve(r) \/ RejectUpdate(r) \/ RejectPurge(r) \/ Fail(r)
                                => Ahead(r)' < Ahead(r)
<1>1. ASSUME IInv, SavesCall, [Next]_vars,
             NEW r \in Requests, pc[r] \in InFlightPc
      PROVE  Advances(r)
  <2> USE DEF Goto
  <2>1. Types
    BY <1>1 DEF IInv
  <2>2. Ahead(r) \in 1..7
    BY <1>1 DEF Ahead, InFlightPc
  <2>3. ASSUME Serve(r) \/ RejectUpdate(r) \/ RejectPurge(r) \/ Fail(r)
        PROVE  Ahead(r)' < Ahead(r)
    <3>1. CASE FindInCache(r) \/ SelectRow(r) \/ FillCache(r)
      BY <2>1, <3>1 DEF FindInCache, SelectRow, FillCache, Ahead, Types
    <3>2. CASE AnswerRead(r) \/ Refuse(r) \/ NoteAndDispatch(r)
      BY <2>1, <3>2 DEF AnswerRead, Refuse, NoteAndDispatch, Ahead, Types
    <3>3. CASE EditAndSave(r)
      BY <2>1, <3>3 DEF EditAndSave, Ahead, Types
    <3>4. ASSUME update[r] = "pending" \/ purge[r] = "pending"
          PROVE  pc[r] = "saving"
      BY <1>1, <2>1, <3>4 DEF IInv, SavesCall, Held, Raised,
         InFlightPc
    <3>5. CASE UpdateRow(r)
      BY <2>1, <3>4, <3>5 DEF UpdateRow, Ahead, Types
    <3>6. CASE PurgeCache(r)
      BY <2>1, <3>4, <3>6 DEF PurgeCache, Ahead, Types
    <3>7. CASE CompleteSave(r)
      BY <2>1, <3>7 DEF CompleteSave, Ahead, Types
    <3>8. CASE RejectUpdate(r) \/ RejectPurge(r)
      BY <2>1, <3>4, <3>8 DEF RejectUpdate, RejectPurge, RejectSave, Ahead, Types
    <3>9. CASE Fail(r)
      BY <2>1, <3>9 DEF Fail, Ahead, Types
    <3> QED BY <2>3, <3>1, <3>2, <3>3, <3>5, <3>6, <3>7, <3>8, <3>9 DEF Serve
  <2>4. ASSUME NEW q \in Requests, q # r,
               Serve(q) \/ RejectUpdate(q) \/ RejectPurge(q) \/ Fail(q)
                  \/ (\E in \in Inputs : Start(q, in))
        PROVE  Ahead(r)' = Ahead(r)
    <3>1. pc'[r] = pc[r] /\ update'[r] = update[r] /\ purge'[r] = purge[r]
      BY <2>1, <2>4 DEF Types, Serve, FindInCache, SelectRow, FillCache,
         AnswerRead, Refuse, EditAndSave, NoteAndDispatch, UpdateRow,
         PurgeCache, CompleteSave, RejectUpdate, RejectPurge, RejectSave,
         Fail, Start
    <3> QED BY <3>1 DEF Ahead
  <2>5. ASSUME \/ \E u \in Users : Expire(u)
               \/ \E i \in DOMAIN bus.dispatched : InsertAuditRow(i)
               \/ UNCHANGED vars
        PROVE  Ahead(r)' = Ahead(r)
    <3>1. UNCHANGED <<pc, update, purge>>
      BY <2>5 DEF Expire, InsertAuditRow, vars
    <3> QED BY <3>1 DEF Ahead
  <2>6. ASSUME NEW S, EndProcess(S) PROVE Ahead(r)' = 0
    <3>1. pc'[r] = "failed"
      BY <1>1, <2>6 DEF EndProcess
    <3> QED BY <3>1 DEF Ahead
  <2>7. ~\E in \in Inputs : Start(r, in)
    BY <1>1 DEF Start, InFlightPc
  <2>8. Ahead(r)' <= Ahead(r)
    <3>1. Ahead(r)' \in Nat
      BY DEF Ahead
    <3>2. \/ Ahead(r)' = Ahead(r) \/ Ahead(r)' = 0
          \/ Ahead(r)' < Ahead(r)
      BY <1>1, <2>3, <2>4, <2>5, <2>6, <2>7
         DEF Next, Crash, RejectAuditInsert
    <3> QED BY <2>2, <3>1, <3>2
  <2> QED BY <2>2, <2>3, <2>8
<1> HIDE DEF Advances
<1>2. IInv /\ SavesCall /\ [Next]_vars =>
         \A r \in Requests : pc[r] \in InFlightPc => Advances(r)
  BY <1>1
<1>3. IInv /\ SavesCall /\ [Next]_vars =>
         [\A r \in Requests : pc[r] \in InFlightPc => Advances(r)]_vars
  BY <1>2
<1> QED BY <1>3, RequestsInvariant, SavesMakeCalls, PTL DEF Spec, Advances

-----------------------------------------------------------------------------
(* What is audited, whatever overlaps and fails *)

\* The event of r is waiting or was handed over.
Told(r) == r \in Range(bus.events[r]) \/ r \in Range(bus.dispatched)

\* An event told is of an edit its request was permitted to make.
EventsArePermitted ==
    \A r \in Requests : Told(r) => /\ Permitted(loaded[r], input[r])
                                   /\ loaded[r] # NoRow

\* Only the request itself raises its event.
LEMMA RaisedByItself ==
    ASSUME IInv, [Next]_vars, NEW q \in Requests, Told(q)'
    PROVE  Told(q) \/ EditAndSave(q) \/ NoteAndDispatch(q)
<1>1. BusFacts!BusInv(bus) /\ BusUse
  BY DEF IInv, BusUse
<1>2. CASE UNCHANGED bus
  BY <1>2 DEF Told
<1>3. ASSUME NEW r \in Requests, pc[r] = "loaded"
      PROVE  /\ r \notin Range(bus.dispatched)
             /\ \A p \in Requests : r \notin Range(bus.events[p])
  BY <1>1, <1>3 DEF BusUse, Raised
<1>4. ASSUME NEW r \in Requests, EditAndSave(r), bus' # bus
      PROVE  Told(q) \/ q = r
  <2>1. pc[r] = "loaded" /\ bus' = Bus!AddDomainEvent(bus, r, r)
    BY <1>4 DEF EditAndSave
  <2>2. /\ Range(bus'.events[q]) \subseteq Range(bus.events[q])
              \union (IF q = r THEN {r} ELSE {})
        /\ bus'.dispatched = bus.dispatched
    BY <1>1, <1>3, <2>1, AddFacts
  <2> QED BY <2>2 DEF Told
<1>5. ASSUME NEW r \in Requests, NoteAndDispatch(r)
      PROVE  Told(q) \/ q = r
  <2> DEFINE b == Bus!AddDomainEvent(bus, r, r)
  <2>1. pc[r] = "loaded" /\ bus' = Bus!DispatchEventsForAggregate(b, UserOf[r])
    BY <1>5 DEF NoteAndDispatch
  <2>2. /\ BusFacts!BusInv(b) /\ b.dispatched = bus.dispatched
        /\ \A p \in Requests : Range(b.events[p]) \subseteq Range(bus.events[p])
              \union (IF p = r THEN {r} ELSE {})
    BY <1>1, <1>3, <2>1, AddFacts
  <2> HIDE DEF b
  <2>3. /\ \A p \in Requests : Range(bus'.events[p]) \subseteq Range(b.events[p])
        /\ q \in Range(bus'.dispatched) =>
              \/ q \in Range(b.dispatched)
              \/ \E p \in Requests : q \in Range(b.events[p])
    BY <2>1, <2>2, DispatchFacts, UserOfRequest
  <2>4. \A p \in Requests : q \in Range(bus.events[p]) => p = q
    BY <1>1 DEF BusUse
  <2> QED BY <2>2, <2>3, <2>4 DEF Told
<1>6. ASSUME NEW r \in Requests, CompleteSave(r) PROVE Told(q)
  <2>1. bus' = Bus!DispatchEventsForAggregate(bus, UserOf[r])
    BY <1>6 DEF CompleteSave
  <2>2. /\ Range(bus'.events[q]) \subseteq Range(bus.events[q])
        /\ q \in Range(bus'.dispatched) =>
              \/ q \in Range(bus.dispatched)
              \/ \E p \in Requests : q \in Range(bus.events[p])
    BY <1>1, <2>1, DispatchFacts, UserOfRequest
  <2>3. \A p \in Requests : q \in Range(bus.events[p]) => p = q
    BY <1>1 DEF BusUse
  <2> QED BY <2>2, <2>3 DEF Told
<1>7. ASSUME NEW S, EndProcess(S) PROVE Told(q)
  <2>1. bus'.events[q] = <<>> /\ bus'.dispatched = bus.dispatched
    BY <1>7 DEF EndProcess, Bus!AfterRestart, Bus!NoEvents
  <2>2. Range(<<>>) = {}
    BY DEF Range
  <2> QED BY <2>1, <2>2 DEF Told
<1>8. ASSUME NEW r \in Requests,
             FindInCache(r) \/ SelectRow(r) \/ FillCache(r) \/ AnswerRead(r)
                \/ Refuse(r) \/ UpdateRow(r) \/ PurgeCache(r)
                \/ RejectUpdate(r) \/ RejectPurge(r) \/ Fail(r)
                \/ (\E in \in Inputs : Start(r, in))
      PROVE  UNCHANGED bus
  BY <1>8 DEF FindInCache, SelectRow, FillCache, AnswerRead, Refuse,
     UpdateRow, PurgeCache, RejectUpdate, RejectPurge, Fail, Start
<1>9. ASSUME \/ \E u \in Users : Expire(u)
             \/ \E i \in DOMAIN bus.dispatched : InsertAuditRow(i)
             \/ UNCHANGED vars
      PROVE  UNCHANGED bus
  BY <1>9 DEF Expire, InsertAuditRow, vars
<1> QED BY <1>2, <1>4, <1>5, <1>6, <1>7, <1>8, <1>9
        DEF Next, Serve, Crash, RejectAuditInsert

\* However requests overlap, fail and crash, and whichever save hands the event
\* over: what is audited is what a request that was permitted it made of a row
\* the database had held.
THEOREM AuditedWasPermitted ==
    Spec => [](\A i \in DOMAIN Trail :
                  /\ Service!Truthful(Trail[i])
                  /\ Trail[i].before \in committed[Trail[i].user])
<1>1. Init => EventsArePermitted
  <2>1. Range(<<>>) = {}
    BY DEF Range
  <2> QED BY <2>1 DEF Init, Bus!Init, Bus!NoEvents, EventsArePermitted, Told
<1>2. ASSUME IInv, EventsArePermitted, [Next]_vars PROVE EventsArePermitted'
  <2> SUFFICES ASSUME NEW q \in Requests, Told(q)'
               PROVE  (Permitted(loaded[q], input[q]) /\ loaded[q] # NoRow)'
    BY DEF EventsArePermitted
  <2>1. CASE Told(q)
    <3>1. pc[q] \in Raised /\ Types
      BY <1>2, <2>1 DEF IInv, BusUse, Told
    <3>2. input'[q] = input[q] /\ loaded'[q] = loaded[q]
      BY <1>2, <3>1, EntriesStand
    <3> QED BY <1>2, <2>1, <3>2 DEF EventsArePermitted, Permitted
  <2>2. CASE EditAndSave(q) \/ NoteAndDispatch(q)
    <3>1. /\ pc[q] = "loaded" /\ Permitted(loaded[q], input[q])
          /\ UNCHANGED <<input, loaded>>
      BY <2>2 DEF EditAndSave, NoteAndDispatch
    <3>2. loaded[q] # NoRow
      BY <1>2, <3>1, RequestsAssumption DEF IInv, Held
    <3> QED BY <3>1, <3>2 DEF Permitted
  <2> QED BY <1>2, <2>1, <2>2, RaisedByItself
<1>3. ASSUME IInv, EventsArePermitted, NEW i \in DOMAIN Trail
      PROVE  /\ Service!Truthful(Trail[i])
             /\ Trail[i].before \in committed[Trail[i].user]
  <2> DEFINE r == bus.dispatched[i]
  <2>1. i \in DOMAIN bus.dispatched /\ Trail[i] = EntryOf(r)
    BY <1>3 DEF Trail
  <2>2. r \in Requests /\ Told(r)
    <3>1. BusParts(bus)
      BY <1>3, BusPartsOfInv DEF IInv, BusUse
    <3> QED BY <2>1, <3>1 DEF BusParts, Told, Range
  <2> HIDE DEF r
  <2>3. /\ Permitted(loaded[r], input[r])
        /\ loaded[r] \in committed[UserOf[r]]
    BY <1>3, <2>2 DEF EventsArePermitted, IInv, Committed, CacheHoldsCommittedRow
  <2> QED BY <2>1, <2>3, SameRows DEF EntryOf, Service!Truthful
<1>4. IInv /\ EventsArePermitted /\ [Next]_vars => EventsArePermitted'
  BY <1>2
<1>5. IInv /\ EventsArePermitted =>
         \A i \in DOMAIN Trail : /\ Service!Truthful(Trail[i])
                                 /\ Trail[i].before \in committed[Trail[i].user]
  BY <1>3
<1> QED BY <1>1, <1>4, <1>5, RequestsInvariant, PTL DEF Spec
=============================================================================
