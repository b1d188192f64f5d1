---- MODULE MCLogin ----
(* Two login processes with a client each, of the same account or without one. *)
EXTENDS Login, TLC

CONSTANTS p1, p2, s1, s2

MCHome == s1 :> p1 @@ s2 :> p2
====
