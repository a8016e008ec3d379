---------------------------- MODULE EventDelivery ----------------------------
(***************************************************************************)
(* What the domain-event bus promises, whatever bookkeeping it uses: the   *)
(* events an aggregate raises wait in the order they were raised, and all  *)
(* those waiting at one aggregate are handed over together, in that order, *)
(* and are never handed over again.  Nothing here says that a waiting      *)
(* event IS handed over: the bus of core/events does not promise it.       *)
(***************************************************************************)
EXTENDS Sequences, Functions

CONSTANTS Aggregates,  \* aggregate objects (instances, not identities)
          Events       \* event objects

VARIABLES waiting,     \* waiting[a]: events raised by a, not yet handed over
          delivered    \* events handed to the subscribers, oldest first

deliveryVars == <<waiting, delivered>>

Unseen(e) == /\ e \notin Range(delivered)
             /\ \A a \in Aggregates : e \notin Range(waiting[a])

Init == /\ waiting = [a \in Aggregates |-> <<>>]
        /\ delivered = <<>>

Raise(a, e) == /\ Unseen(e)
               /\ waiting' = [waiting EXCEPT ![a] = Append(@, e)]
               /\ UNCHANGED delivered

HandOver(a) == /\ delivered' = delivered \o waiting[a]
               /\ waiting' = [waiting EXCEPT ![a] = <<>>]

\* `a` raises e and, in the same turn of the event loop, b is handed over:
\* b is `a` itself, or an aggregate that was waiting before it.
RaiseAndHandOver(a, e, b) ==
    LET raised == [waiting EXCEPT ![a] = Append(@, e)]
    IN  /\ Unseen(e)
        /\ delivered' = delivered \o raised[b]
        /\ waiting' = [raised EXCEPT ![b] = <<>>]

\* A restart of the process forgets what was waiting.
Forget == /\ waiting' = [a \in Aggregates |-> <<>>]
          /\ UNCHANGED delivered

Next == \/ \E a \in Aggregates, e \in Events : Raise(a, e)
        \/ \E a \in Aggregates : HandOver(a)
        \/ \E a, b \in Aggregates, e \in Events : RaiseAndHandOver(a, e, b)
        \/ Forget

Spec == Init /\ [][Next]_deliveryVars
=============================================================================
