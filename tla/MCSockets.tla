------------------------------ MODULE MCSockets ------------------------------
(***************************************************************************)
(* Sockets for TLC.  Two processes, "p1" and "p2", have inherited sockets   *)
(* from a common parent and closed those they do not need.                  *)
(***************************************************************************)
EXTENDS Sockets

\* A server and a process with all the clients.
ServerAndClients ==
    [p \in Process |-> IF p = "p1" THEN {Server} ELSE Client]

\* Two servers, one of which has kept the clients.
SharedServer ==
    [p \in Process |-> IF p = "p1" THEN {Server} \cup Client ELSE {Server}]
=============================================================================
