------------------------------ MODULE MCTcpServer ------------------------------
(* The instance of TcpServer for TLC: its constant is given in the cfg. *)
EXTENDS TcpServer
==============================================================================
