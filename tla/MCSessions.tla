---- MODULE MCSessions ----
(* Two users, a few requests, an hour for JWTs and two for sessions. *)
EXTENDS Sessions, TLC

CONSTANTS q1, q2, q3, q4, j1, j2, j3, alice, bob

AllKinds   == {"login", "refresh", "logout", "password", "reset"}
LogoutKinds == {"login", "refresh", "logout"}

\* Nothing depends on which request, jti or user is which.
Symmetry == Permutations(Requests) \union Permutations(Jtis) \union Permutations(Users)
====
