----------------------------- MODULE DomainEvents -----------------------------
(***************************************************************************)
(* The in-process domain-event bus: core/events/domain-events.ts and the   *)
(* event list of core/entities/aggregate-root.ts.                          *)
(*                                                                         *)
(* The bus is one static object shared by every request, so its state is   *)
(* one record and each static method a function from bus to bus; that lets *)
(* a module that composes it run two calls in one step, as one synchronous *)
(* stretch of JavaScript does.  An aggregate is an OBJECT: two requests    *)
(* that load the same user hold two aggregates with the same identity.     *)
(***************************************************************************)
EXTENDS Sequences, Functions

CONSTANTS Aggregates,  \* aggregate objects
          Ids,         \* identities (UniqueEntityID values)
          IdOf,        \* IdOf[a]: the identity of aggregate a
          Events       \* event objects; each is constructed once

ASSUME IdOfAssumption == IdOf \in [Aggregates -> Ids]

VARIABLE bus
    \* bus.events[a]  : _domainEvents of aggregate a
    \* bus.marked     : markedAggregates; the array's order is left out, since
    \*                  an identity is in it at most once (UniqueMark)
    \* bus.dispatched : the events handed to the subscribers, in call order

-----------------------------------------------------------------------------
\* An aggregate starts with no events (_domainEvents = []).
NoEvents == [a \in Aggregates |-> <<>>]

\* findMarkedAggregateByID: the marked aggregates with this identity.
FindMarked(b, id) == {a \in b.marked : IdOf[a] = id}

\* Mutant of markAggregateForDispatch: mark without looking for the identity.
MarkUnconditionally(b, a) == [b EXCEPT !.marked = @ \union {a}]

\* markAggregateForDispatch: an identity that is already marked is not marked
\* again, even if the marked object is another one.
MarkAggregateForDispatch(b, a) ==
    IF FindMarked(b, IdOf[a]) = {}
    THEN [b EXCEPT !.marked = @ \union {a}]
    ELSE b

\* Mutant of addDomainEvent: unshift for push.
UnshiftDomainEvent(b, a, e) ==
    MarkAggregateForDispatch([b EXCEPT !.events[a] = <<e>> \o @], a)

\* AggregateRoot.addDomainEvent: queue the event, then mark the aggregate.
AddDomainEvent(b, a, e) ==
    MarkAggregateForDispatch([b EXCEPT !.events[a] = Append(@, e)], a)

\* Mutants of dispatching an aggregate: it keeps its mark; it keeps its
\* events; every mark is dropped instead of its own.
DispatchKeepingMark(b, a) ==
    [b EXCEPT !.events[a] = <<>>, !.dispatched = @ \o b.events[a]]
DispatchKeepingEvents(b, a) ==
    [b EXCEPT !.marked = @ \ {a}, !.dispatched = @ \o b.events[a]]
DispatchDroppingMarks(b, a) ==
    [b EXCEPT !.events[a] = <<>>, !.marked = {},
              !.dispatched = @ \o b.events[a]]

\* dispatchAggregateEvents, clearEvents, removeAggregateFromMarkedDispatchList.
DispatchAggregate(b, a) ==
    [events     |-> [b.events EXCEPT ![a] = <<>>],
     marked     |-> b.marked \ {a},
     dispatched |-> b.dispatched \o b.events[a]]

\* dispatchEventsForAggregate: finds by identity, and does nothing when no
\* aggregate with that identity is marked.
DispatchEventsForAggregate(b, id) ==
    IF FindMarked(b, id) = {}
    THEN b
    ELSE DispatchAggregate(b, CHOOSE a \in FindMarked(b, id) : TRUE)

\* The process restarts: the static fields are gone, the calls already made
\* to subscribers remain made.
AfterRestart(b) ==
    [events |-> NoEvents, marked |-> {}, dispatched |-> b.dispatched]

\* The event object has not been constructed yet.
Fresh(e) == /\ e \notin Range(bus.dispatched)
            /\ \A a \in Aggregates : e \notin Range(bus.events[a])

-----------------------------------------------------------------------------
Init == bus = [events |-> NoEvents, marked |-> {}, dispatched |-> <<>>]

\* A domain method of the aggregate (updateRole, toggleActive, ...) raises e.
Raise(a, e) == /\ Fresh(e)
               /\ bus' = AddDomainEvent(bus, a, e)

\* A repository's save or create, once its writes are done.
Dispatch(id) == bus' = DispatchEventsForAggregate(bus, id)

\* login, logout and requestPasswordReset raise their event and dispatch it
\* with no await in between.
RaiseAndDispatch(a, e) ==
    /\ Fresh(e)
    /\ bus' = DispatchEventsForAggregate(AddDomainEvent(bus, a, e), IdOf[a])

Restart == bus' = AfterRestart(bus)

Next == \/ \E a \in Aggregates, e \in Events : Raise(a, e)
        \/ \E id \in Ids : Dispatch(id)
        \/ \E a \in Aggregates, e \in Events : RaiseAndDispatch(a, e)
        \/ Restart

Spec == Init /\ [][Next]_bus

-----------------------------------------------------------------------------
\* Types: the bus holds one event list per aggregate, a set of marked
\* aggregates and the list of subscriber calls.
TypeOK == bus \in [events     : [Aggregates -> Seq(Events)],
                   marked     : SUBSET Aggregates,
                   dispatched : Seq(Events)]

\* At most one aggregate object per identity is marked (the guard of
\* markAggregateForDispatch), so `find` has at most one answer and a save can
\* never hand over two objects' events or leave a second one behind.
UniqueMark == \A a, b \in bus.marked : IdOf[a] = IdOf[b] => a = b

\* Only an aggregate with events to hand over is marked, so a dispatch that
\* finds a mark always calls a subscriber.
MarkedHasEvents == \A a \in bus.marked : bus.events[a] # <<>>

\* clearEvents after dispatchAggregateEvents: no event reaches the subscribers
\* twice, however raises, dispatches on other objects of the same identity and
\* restarts interleave.
AtMostOnce ==
    /\ IsInjective(bus.dispatched)
    /\ \A a \in Aggregates :
          Range(bus.events[a]) \cap Range(bus.dispatched) = {}

Orphaned(a) == bus.events[a] # <<>> /\ a \notin bus.marked

\* An aggregate whose events nobody will look for becomes so in one way only:
\* it raised an event while ANOTHER object of its own identity was marked.  In
\* particular a dispatch never strands an aggregate, its own identity's or
\* another's.
OrphanedOnlyBehindItsTwin ==
    [][\A a \in Aggregates :
          (Orphaned(a)' /\ ~Orphaned(a)) =>
             \E b \in bus.marked \ {a} : IdOf[b] = IdOf[a]]_bus

\* The bus keeps the promise of EventDelivery: marking only decides WHICH
\* aggregate is handed over.
Delivery == INSTANCE EventDelivery
            WITH waiting <- bus.events, delivered <- bus.dispatched
DeliversInOrder == Delivery!Spec
=============================================================================
