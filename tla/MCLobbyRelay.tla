---- MODULE MCLobbyRelay ----
(* The relay with two sessions, whose requests meet on the loops. *)
EXTENDS LobbyRelay

====
