---- MODULE MCDomainEvents ----
(* Two objects of one user and one of another, three events. *)
EXTENDS DomainEvents, TLC

CONSTANTS a1, a2, b1, alice, bob

MCIdOf == a1 :> alice @@ a2 :> alice @@ b1 :> bob
====
