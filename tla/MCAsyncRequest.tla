---- MODULE MCAsyncRequest ----
(* AsyncRequest on a small instance: two requests, one with its callback on *)
(* the session's loop and one on a foreign loop, one plain message between  *)
(* them, and a peer that may answer each message twice.                     *)
EXTENDS AsyncRequest

====
