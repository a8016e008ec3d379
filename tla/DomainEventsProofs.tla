-------------------------- MODULE DomainEventsProofs --------------------------
(***************************************************************************)
(* The bus is proved correct for every set of aggregates, identities and   *)
(* events.  The two lemmas on bus functions carry everything: a step of    *)
(* Next, and a step of a module that composes the bus, is one or two of    *)
(* those functions.                                                        *)
(***************************************************************************)
EXTENDS DomainEvents, SequenceTheorems, TLAPS

BusType == [events     : [Aggregates -> Seq(Events)],
            marked     : SUBSET Aggregates,
            dispatched : Seq(Events)]

FreshIn(b, e) == /\ e \notin Range(b.dispatched)
                 /\ \A a \in Aggregates : e \notin Range(b.events[a])

\* What the bus keeps.  AtMostOnce alone is not inductive: handing over a list
\* with a repeated event, or two lists that share one, would break it.
BusInv(b) ==
    /\ b \in BusType
    /\ \A a, c \in b.marked : IdOf[a] = IdOf[c] => a = c
    /\ \A a \in b.marked : b.events[a] # <<>>
    /\ IsInjective(b.dispatched)
    /\ \A a \in Aggregates : Range(b.events[a]) \cap Range(b.dispatched) = {}
    /\ \A a \in Aggregates : IsInjective(b.events[a])
    /\ \A a, c \in Aggregates :
          a # c => Range(b.events[a]) \cap Range(b.events[c]) = {}

-----------------------------------------------------------------------------
\* Appending an event that is not in the list keeps the list free of repeats.
LEMMA AppendFresh ==
    ASSUME NEW S, NEW s \in Seq(S), NEW e \in S
    PROVE  /\ Append(s, e) \in Seq(S)
           /\ Append(s, e) # <<>>
           /\ Range(Append(s, e)) = Range(s) \union {e}
           /\ IsInjective(s) /\ e \notin Range(s) => IsInjective(Append(s, e))
<1>1. /\ Append(s, e) \in Seq(S)
      /\ Append(s, e) # <<>>
      /\ Len(Append(s, e)) = Len(s) + 1
      /\ \A i \in 1..Len(s) : Append(s, e)[i] = s[i]
      /\ Append(s, e)[Len(s) + 1] = e
      /\ DOMAIN s = 1..Len(s)
      /\ DOMAIN Append(s, e) = 1..(Len(s) + 1)
      /\ Len(s) \in Nat
  BY AppendProperties, LenProperties
<1>2. Range(Append(s, e)) = Range(s) \union {e}
  BY <1>1 DEF Range
<1>3. IsInjective(s) /\ e \notin Range(s) => IsInjective(Append(s, e))
  BY <1>1 DEF IsInjective, Range
<1> QED BY <1>1, <1>2, <1>3

\* Joining two lists that share no event keeps them free of repeats.
LEMMA ConcatDisjoint ==
    ASSUME NEW S, NEW s \in Seq(S), NEW t \in Seq(S)
    PROVE  /\ s \o t \in Seq(S)
           /\ Range(s \o t) = Range(s) \union Range(t)
           /\ IsInjective(s) /\ IsInjective(t) /\ Range(s) \cap Range(t) = {}
                 => IsInjective(s \o t)
<1>1. /\ s \o t \in Seq(S)
      /\ Len(s \o t) = Len(s) + Len(t)
      /\ \A i \in 1..(Len(s) + Len(t)) :
            (s \o t)[i] = IF i <= Len(s) THEN s[i] ELSE t[i - Len(s)]
      /\ DOMAIN s = 1..Len(s) /\ DOMAIN t = 1..Len(t)
      /\ DOMAIN (s \o t) = 1..(Len(s) + Len(t))
      /\ Len(s) \in Nat /\ Len(t) \in Nat
  BY ConcatProperties, LenProperties
<1>2. Range(s \o t) = Range(s) \union Range(t)
  BY RangeConcatenation
<1>3. ASSUME IsInjective(s), IsInjective(t), Range(s) \cap Range(t) = {},
             NEW i \in DOMAIN (s \o t), NEW j \in DOMAIN (s \o t),
             (s \o t)[i] = (s \o t)[j]
      PROVE  i = j
  <2>1. CASE i <= Len(s) /\ j <= Len(s)
    BY <1>1, <1>3, <2>1 DEF IsInjective
  <2>2. CASE i > Len(s) /\ j > Len(s)
    <3>1. t[i - Len(s)] = t[j - Len(s)]
      BY <1>1, <1>3, <2>2
    <3>2. i - Len(s) \in DOMAIN t /\ j - Len(s) \in DOMAIN t
      BY <1>1, <2>2
    <3> QED BY <1>1, <1>3, <3>1, <3>2 DEF IsInjective
  <2>3. ASSUME NEW m \in 1..(Len(s) + Len(t)), NEW n \in 1..(Len(s) + Len(t)),
               m <= Len(s), n > Len(s), (s \o t)[m] = (s \o t)[n]
        PROVE  FALSE
    <3>1. (s \o t)[m] = s[m] /\ m \in DOMAIN s
      BY <1>1, <2>3
    <3>2. (s \o t)[n] = t[n - Len(s)] /\ n - Len(s) \in DOMAIN t
      BY <1>1, <2>3
    <3>3. (s \o t)[m] \in Range(s) /\ (s \o t)[n] \in Range(t)
      BY <3>1, <3>2 DEF Range
    <3> QED BY <1>3, <2>3, <3>3
  <2> QED BY <1>1, <1>3, <2>1, <2>2, <2>3
<1> QED BY <1>1, <1>2, <1>3 DEF IsInjective

-----------------------------------------------------------------------------
\* Raising a new event keeps the bus well formed.
LEMMA AddKeepsBusInv ==
    ASSUME NEW b, BusInv(b), NEW a \in Aggregates, NEW e \in Events,
           FreshIn(b, e)
    PROVE  BusInv(AddDomainEvent(b, a, e))
<1> DEFINE q == Append(b.events[a], e)
           ev == [b.events EXCEPT ![a] = q]
           mk == AddDomainEvent(b, a, e).marked
<1>1. /\ b.events[a] \in Seq(Events)
      /\ b.events \in [Aggregates -> Seq(Events)]
      /\ b.marked \subseteq Aggregates
      /\ b.dispatched \in Seq(Events)
  BY DEF BusInv, BusType
<1>2. /\ q \in Seq(Events)
      /\ q # <<>>
      /\ Range(q) = Range(b.events[a]) \union {e}
      /\ IsInjective(q)
  BY <1>1, AppendFresh DEF BusInv, FreshIn
<1>3. AddDomainEvent(b, a, e) =
         [events |-> ev, marked |-> mk, dispatched |-> b.dispatched]
  BY DEF AddDomainEvent, MarkAggregateForDispatch, FindMarked, BusInv, BusType
<1>4. mk = IF \E c \in b.marked : IdOf[c] = IdOf[a]
           THEN b.marked ELSE b.marked \union {a}
  BY DEF AddDomainEvent, MarkAggregateForDispatch, FindMarked, BusInv, BusType
<1>5. ev \in [Aggregates -> Seq(Events)]
  BY <1>1, <1>2
<1>6. /\ ev[a] = q
      /\ \A c \in Aggregates \ {a} : ev[c] = b.events[c]
  BY <1>1
<1> HIDE DEF q, ev, mk
<1>7. \A c, d \in mk : IdOf[c] = IdOf[d] => c = d
  BY <1>4 DEF BusInv
<1>8. \A c \in mk : ev[c] # <<>>
  BY <1>1, <1>2, <1>4, <1>6 DEF BusInv
<1>9. \A c \in Aggregates : Range(ev[c]) \cap Range(b.dispatched) = {}
  BY <1>2, <1>6 DEF BusInv, FreshIn
<1>10. \A c \in Aggregates : IsInjective(ev[c])
  BY <1>2, <1>6 DEF BusInv
<1>11. \A c, d \in Aggregates : c # d => Range(ev[c]) \cap Range(ev[d]) = {}
  BY <1>2, <1>6 DEF BusInv, FreshIn
<1>12. mk \subseteq Aggregates
  BY <1>1, <1>4
<1> QED BY <1>1, <1>3, <1>5, <1>7, <1>8, <1>9, <1>10, <1>11, <1>12
        DEF BusInv, BusType

\* Dispatching an identity keeps the bus well formed.
LEMMA DispatchKeepsBusInv ==
    ASSUME NEW b, BusInv(b), NEW id
    PROVE  BusInv(DispatchEventsForAggregate(b, id))
<1>1. CASE FindMarked(b, id) = {}
  BY <1>1 DEF DispatchEventsForAggregate
<1>2. CASE FindMarked(b, id) # {}
  <2> DEFINE a  == CHOOSE c \in FindMarked(b, id) : TRUE
             ev == [b.events EXCEPT ![a] = <<>>]
             ds == b.dispatched \o b.events[a]
  <2>1. a \in Aggregates
    BY <1>2 DEF FindMarked, BusInv, BusType
  <2>2. DispatchEventsForAggregate(b, id) =
           [events |-> ev, marked |-> b.marked \ {a}, dispatched |-> ds]
    BY <1>2 DEF DispatchEventsForAggregate, DispatchAggregate
  <2> HIDE DEF a
  <2>3. /\ b.events \in [Aggregates -> Seq(Events)]
        /\ b.events[a] \in Seq(Events)
        /\ b.marked \subseteq Aggregates
        /\ b.dispatched \in Seq(Events)
    BY <2>1 DEF BusInv, BusType
  <2>4. /\ ds \in Seq(Events)
        /\ Range(ds) = Range(b.dispatched) \union Range(b.events[a])
        /\ IsInjective(ds)
    BY <2>1, <2>3, ConcatDisjoint DEF BusInv
  <2>5. /\ ev \in [Aggregates -> Seq(Events)]
        /\ ev[a] = <<>>
        /\ \A c \in Aggregates \ {a} : ev[c] = b.events[c]
    BY <2>1, <2>3
  <2>6. Range(<<>>) = {} /\ IsInjective(<<>>)
    BY DEF Range, IsInjective
  <2> HIDE DEF ev, ds
  <2>7. \A c \in Aggregates : Range(ev[c]) \cap Range(ds) = {}
    BY <2>1, <2>4, <2>5, <2>6 DEF BusInv
  <2>8. \A c \in Aggregates : IsInjective(ev[c])
    BY <2>5, <2>6 DEF BusInv
  <2>9. \A c, d \in Aggregates : c # d => Range(ev[c]) \cap Range(ev[d]) = {}
    BY <2>5, <2>6 DEF BusInv
  <2>10. \A c \in b.marked \ {a} : ev[c] # <<>>
    BY <2>3, <2>5 DEF BusInv
  <2>11. \A c, d \in b.marked \ {a} : IdOf[c] = IdOf[d] => c = d
    BY DEF BusInv
  <2> QED BY <2>2, <2>3, <2>4, <2>5, <2>7, <2>8, <2>9, <2>10, <2>11
          DEF BusInv, BusType
<1> QED BY <1>1, <1>2

\* The bus of a process that just started is well formed.
LEMMA EmptyBus ==
    BusInv([events |-> NoEvents, marked |-> {}, dispatched |-> <<>>])
<1>1. Range(<<>>) = {} /\ IsInjective(<<>>)
  BY DEF Range, IsInjective
<1> QED BY <1>1 DEF NoEvents, BusInv, BusType

\* A new process starts with an empty bus; what was dispatched stays so.
LEMMA RestartKeepsBusInv ==
    ASSUME NEW b, BusInv(b)
    PROVE  BusInv(AfterRestart(b))
<1>1. Range(<<>>) = {} /\ IsInjective(<<>>)
  BY DEF Range, IsInjective
<1> QED BY <1>1 DEF BusInv, BusType, AfterRestart, NoEvents

-----------------------------------------------------------------------------
\* The bus invariant holds in every reachable state.
THEOREM BusInvariant == Spec => []BusInv(bus)
<1>1. Init => BusInv(bus)
  BY EmptyBus DEF Init
<1>2. BusInv(bus) /\ [Next]_bus => BusInv(bus)'
  <2> SUFFICES ASSUME BusInv(bus), [Next]_bus PROVE BusInv(bus')
    BY DEF BusInv, BusType
  <2>1. ASSUME NEW a \in Aggregates, NEW e \in Events, Raise(a, e)
        PROVE  BusInv(bus')
    BY <2>1, AddKeepsBusInv DEF Raise, Fresh, FreshIn
  <2>2. ASSUME NEW id \in Ids, Dispatch(id)
        PROVE  BusInv(bus')
    BY <2>2, DispatchKeepsBusInv DEF Dispatch
  <2>3. ASSUME NEW a \in Aggregates, NEW e \in Events, RaiseAndDispatch(a, e)
        PROVE  BusInv(bus')
    <3>1. BusInv(AddDomainEvent(bus, a, e))
      BY <2>3, AddKeepsBusInv DEF RaiseAndDispatch, Fresh, FreshIn
    <3> QED BY <2>3, <3>1, DispatchKeepsBusInv DEF RaiseAndDispatch
  <2>4. CASE Restart
    BY <2>4, RestartKeepsBusInv DEF Restart
  <2>5. CASE UNCHANGED bus
    BY <2>5
  <2> QED BY <2>1, <2>2, <2>3, <2>4, <2>5 DEF Next
<1> QED BY <1>1, <1>2, PTL DEF Spec

\* Types hold: event lists, marks and the dispatch log keep their shape.
THEOREM TypeCorrect == Spec => []TypeOK
<1>1. BusInv(bus) => TypeOK
  BY DEF BusInv, BusType, TypeOK
<1> QED BY <1>1, BusInvariant, PTL

\* At most one object per identity is marked, for any number of requests.
THEOREM OneMarkPerIdentity == Spec => []UniqueMark
<1>1. BusInv(bus) => UniqueMark
  BY DEF BusInv, UniqueMark
<1> QED BY <1>1, BusInvariant, PTL

\* A mark always stands for events: the dispatchEventsForAggregate that finds
\* it never comes away with nothing to hand over.
THEOREM MarksHaveEvents == Spec => []MarkedHasEvents
<1>1. BusInv(bus) => MarkedHasEvents
  BY DEF BusInv, MarkedHasEvents
<1> QED BY <1>1, BusInvariant, PTL

\* No subscriber is called twice for one event.
THEOREM DispatchedAtMostOnce == Spec => []AtMostOnce
<1>1. BusInv(bus) => AtMostOnce
  BY DEF BusInv, AtMostOnce
<1> QED BY <1>1, BusInvariant, PTL

-----------------------------------------------------------------------------
\* What dispatching does when something is marked: one marked object of that
\* identity is emptied and unmarked, every other one is left alone.
LEMMA DispatchEffect ==
    ASSUME NEW b, BusInv(b), NEW id, FindMarked(b, id) # {}
    PROVE  \E a \in FindMarked(b, id) :
              /\ a \in Aggregates
              /\ DispatchEventsForAggregate(b, id) = DispatchAggregate(b, a)
<1>1. (CHOOSE c \in FindMarked(b, id) : TRUE) \in FindMarked(b, id)
  OBVIOUS
<1>2. FindMarked(b, id) \subseteq Aggregates
  BY DEF FindMarked, BusInv, BusType
<1> QED BY <1>1, <1>2 DEF DispatchEventsForAggregate

\* Emptying one aggregate strands no aggregate.
LEMMA DispatchOrphansNone ==
    ASSUME NEW b, BusInv(b), NEW id, NEW a \in Aggregates,
           a \notin DispatchEventsForAggregate(b, id).marked,
           DispatchEventsForAggregate(b, id).events[a] # <<>>
    PROVE  a \notin b.marked /\ b.events[a] # <<>>
<1>1. CASE FindMarked(b, id) = {}
  BY <1>1 DEF DispatchEventsForAggregate
<1>2. CASE FindMarked(b, id) # {}
  <2>1. PICK c \in Aggregates :
           DispatchEventsForAggregate(b, id) = DispatchAggregate(b, c)
    BY <1>2, DispatchEffect
  <2>2. b.events \in [Aggregates -> Seq(Events)]
    BY DEF BusInv, BusType
  <2> QED BY <2>1, <2>2 DEF DispatchAggregate
<1> QED BY <1>1, <1>2

\* Raising an event strands its own aggregate only, and only behind a marked
\* object of the same identity.
LEMMA AddOrphansBehindTwin ==
    ASSUME NEW b, BusInv(b), NEW a \in Aggregates, NEW e, NEW c \in Aggregates,
           c \notin AddDomainEvent(b, a, e).marked,
           AddDomainEvent(b, a, e).events[c] # <<>>,
           b.events[c] = <<>> \/ c \in b.marked
    PROVE  \E d \in b.marked \ {c} : IdOf[d] = IdOf[c]
<1>1. b.events \in [Aggregates -> Seq(Events)]
  BY DEF BusInv, BusType
<1>2. b.marked \subseteq AddDomainEvent(b, a, e).marked
  BY DEF AddDomainEvent, MarkAggregateForDispatch, FindMarked, BusInv, BusType
<1>3. c = a
  BY <1>1, <1>2 DEF AddDomainEvent, MarkAggregateForDispatch, BusInv, BusType
<1>4. FindMarked(b, IdOf[a]) # {}
  BY <1>3 DEF AddDomainEvent, MarkAggregateForDispatch, FindMarked, BusInv, BusType
<1>5. c \notin b.marked
  BY <1>2
<1> QED BY <1>3, <1>4, <1>5 DEF FindMarked

\* An aggregate is stranded only by raising behind its own twin.
THEOREM OrphansHaveATwin == Spec => OrphanedOnlyBehindItsTwin
<1> DEFINE Stranding(a) == /\ bus'.events[a] # <<>> /\ a \notin bus'.marked
                          /\ (bus.events[a] = <<>> \/ a \in bus.marked)
           Behind(a)    == \E d \in bus.marked \ {a} : IdOf[d] = IdOf[a]
<1>1. ASSUME BusInv(bus), [Next]_bus, NEW a \in Aggregates, Stranding(a)
      PROVE  Behind(a)
  <2>1. CASE \E c \in Aggregates, e \in Events : Raise(c, e)
    BY <1>1, <2>1, AddOrphansBehindTwin DEF Raise
  <2>2. CASE \E id \in Ids : Dispatch(id)
    BY <1>1, <2>2, DispatchOrphansNone DEF Dispatch
  <2>3. ASSUME NEW c \in Aggregates, NEW e \in Events, RaiseAndDispatch(c, e)
        PROVE  Behind(a)
    <3>1. BusInv(AddDomainEvent(bus, c, e))
      BY <1>1, <2>3, AddKeepsBusInv DEF RaiseAndDispatch, Fresh, FreshIn
    <3>2. /\ a \notin AddDomainEvent(bus, c, e).marked
          /\ AddDomainEvent(bus, c, e).events[a] # <<>>
      BY <1>1, <2>3, <3>1, DispatchOrphansNone DEF RaiseAndDispatch
    <3> QED BY <1>1, <2>3, <3>2, AddOrphansBehindTwin
  <2>4. CASE Restart
    BY <1>1, <2>4 DEF Restart, AfterRestart, NoEvents
  <2>5. CASE UNCHANGED bus
    BY <1>1, <2>5
  <2> QED BY <1>1, <2>1, <2>2, <2>3, <2>4, <2>5 DEF Next
<1>2. BusInv(bus) /\ [Next]_bus =>
         [\A a \in Aggregates : (Orphaned(a)' /\ ~Orphaned(a)) =>
             \E b \in bus.marked \ {a} : IdOf[b] = IdOf[a]]_bus
  BY <1>1 DEF Orphaned
<1> QED BY <1>2, BusInvariant, PTL DEF Spec, OrphanedOnlyBehindItsTwin

-----------------------------------------------------------------------------
\* AddDomainEvent, seen without the marks.
LEMMA AddEffect ==
    ASSUME NEW b, BusInv(b), NEW a, NEW e
    PROVE  /\ AddDomainEvent(b, a, e).events
                 = [b.events EXCEPT ![a] = Append(@, e)]
           /\ AddDomainEvent(b, a, e).dispatched = b.dispatched
BY DEF AddDomainEvent, MarkAggregateForDispatch, BusInv, BusType

\* Whatever is marked, the bus only ever does what EventDelivery allows.
THEOREM BusDelivers == Spec => DeliversInOrder
<1>1. Init => Delivery!Init
  BY DEF Init, NoEvents, Delivery!Init
<1>2. ASSUME BusInv(bus), [Next]_bus
      PROVE  [Delivery!Next]_(Delivery!deliveryVars)
  <2>1. ASSUME NEW a \in Aggregates, NEW e \in Events, Raise(a, e)
        PROVE  Delivery!Raise(a, e)
    <3>1. Delivery!Unseen(e)
      BY <2>1 DEF Raise, Fresh, Delivery!Unseen, Range, Delivery!Range
    <3>2. bus' = AddDomainEvent(bus, a, e)
      BY <2>1 DEF Raise
    <3>3. /\ bus'.events = [bus.events EXCEPT ![a] = Append(@, e)]
          /\ bus'.dispatched = bus.dispatched
      BY <1>2, <3>2, AddEffect
    <3> QED BY <3>1, <3>3 DEF Delivery!Raise
  <2>2. ASSUME NEW id \in Ids, Dispatch(id)
        PROVE  \/ \E a \in Aggregates : Delivery!HandOver(a)
               \/ UNCHANGED Delivery!deliveryVars
    <3>1. CASE FindMarked(bus, id) = {}
      BY <2>2, <3>1 DEF Dispatch, DispatchEventsForAggregate,
                        Delivery!deliveryVars
    <3>2. CASE FindMarked(bus, id) # {}
      <4>1. PICK a \in Aggregates : bus' = DispatchAggregate(bus, a)
        BY <1>2, <2>2, <3>2, DispatchEffect DEF Dispatch
      <4> QED BY <4>1 DEF DispatchAggregate, Delivery!HandOver
    <3> QED BY <3>1, <3>2
  <2>3. ASSUME NEW a \in Aggregates, NEW e \in Events, RaiseAndDispatch(a, e)
        PROVE  \E c \in Aggregates : Delivery!RaiseAndHandOver(a, e, c)
    <3> DEFINE added == AddDomainEvent(bus, a, e)
    <3>1. BusInv(added)
      BY <1>2, <2>3, AddKeepsBusInv DEF RaiseAndDispatch, Fresh, FreshIn
    <3>2. FindMarked(added, IdOf[a]) # {}
      BY <1>2 DEF AddDomainEvent, MarkAggregateForDispatch, FindMarked,
                  BusInv, BusType
    <3> HIDE DEF added
    <3>3. PICK c \in Aggregates : bus' = DispatchAggregate(added, c)
      BY <2>3, <3>1, <3>2, DispatchEffect DEF RaiseAndDispatch, added
    <3>4. /\ added.events = [bus.events EXCEPT ![a] = Append(@, e)]
          /\ added.dispatched = bus.dispatched
      BY <1>2, AddEffect DEF added
    <3>5. Delivery!Unseen(e)
      BY <2>3 DEF RaiseAndDispatch, Fresh, Delivery!Unseen, Range,
                  Delivery!Range
    <3>6. /\ bus'.events = [added.events EXCEPT ![c] = <<>>]
          /\ bus'.dispatched = added.dispatched \o added.events[c]
      BY <3>3 DEF DispatchAggregate
    <3>7. Delivery!RaiseAndHandOver(a, e, c)
      BY <3>4, <3>5, <3>6 DEF Delivery!RaiseAndHandOver
    <3> QED BY <3>7
  <2>4. CASE Restart
    BY <2>4 DEF Restart, AfterRestart, NoEvents, Delivery!Forget,
                Delivery!Next
  <2>5. CASE UNCHANGED bus
    BY <2>5 DEF Delivery!deliveryVars
  <2> QED BY <1>2, <2>1, <2>2, <2>3, <2>4, <2>5 DEF Next, Delivery!Next
<1>3. BusInv(bus) /\ [Next]_bus => [Delivery!Next]_(Delivery!deliveryVars)
  BY <1>2
<1> QED BY <1>1, <1>3, BusInvariant, PTL
        DEF Spec, DeliversInOrder, Delivery!Spec
=============================================================================
