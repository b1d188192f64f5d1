---- MODULE MCPlayerManager ----
(* PlayerManager with two sessions and two users. *)
EXTENDS PlayerManager

====
