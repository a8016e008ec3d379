---- MODULE MCUserDetails ----
(* Three requests: two may create users with one e-mail, the third another. *)
EXTENDS UserDetails, TLC

CONSTANTS r1, r2, r3, home, work, e1, e2

AllKinds   == {"create", "edit", "rename"}
EmailOfRequest == r1 :> e1 @@ r2 :> e1 @@ r3 :> e2
NoneOrBoth == {{}, {home, work}}
====
