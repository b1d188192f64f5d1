---- MODULE MCTcpServer ----
(* TcpServer on small instances: session a shares the manager's loop in the *)
(* configurations that say so, session b never does.                        *)
EXTENDS TcpServer

====
