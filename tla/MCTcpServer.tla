---------------------------- MODULE MCTcpServer -----------------------------
(* The values of TcpServer's constants for TLC.                             *)
EXTENDS TcpServer
=============================================================================
