---- MODULE MCClient ----
(* Client with a bounded number of calls by its user. *)
EXTENDS Client

====
