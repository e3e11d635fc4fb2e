---------------------------- MODULE MCAcpServer -----------------------------
(* Two clients, who can wait for, kill and release each other's terminal. *)
EXTENDS AcpServer

CONSTANTS c1, c2

MCClients == {c1, c2}
=============================================================================
