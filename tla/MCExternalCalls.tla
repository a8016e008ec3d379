---- MODULE MCExternalCalls ----
(* Three requests that share the storage breaker, or two services. *)
EXTENDS ExternalCalls, TLC

CONSTANTS r1, r2, r3

MCMixes == {r1 :> "avatar" @@ r2 :> "avatar" @@ r3 :> "health",
            r1 :> "avatar" @@ r2 :> "mail"   @@ r3 :> "mail"}
====
