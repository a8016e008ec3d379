---- MODULE MCListings ----
(* A trail of three entries read a row at a time, and pages of one user. *)
EXTENDS Listings, TLC

CONSTANTS alice, bob, e1, e2, e3, auditor, reader

\* Ids are only compared.
Symmetry == Permutations(Entries) \union Permutations(Users)
====
