-------------------------------- MODULE MCServer --------------------------------
(* A server whose event table has room for two clients.                      *)
EXTENDS EventServer
===============================================================================
