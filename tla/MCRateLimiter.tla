---- MODULE MCRateLimiter ----
(* The three limited routes, two of which share their options, with fewer
   points. *)
EXTENDS RateLimiter

MCOptions == [login          |-> [points |-> 2, duration |-> 60],
              forgotPassword |-> [points |-> 1, duration |-> 60],
              resetPassword  |-> [points |-> 1, duration |-> 60]]
====
