---- MODULE MCHttpLayer ----
(* Two users, two of the roles for accounts (all four for callers), JWTs of an
   hour where the login asks for two. *)
EXTENDS HttpLayer, TLC

CONSTANTS alice, bob

MCRoles    == {"ADMIN", "OPERATOR"}

\* Nothing depends on which user is which.
Symmetry == Permutations(Users)
====
