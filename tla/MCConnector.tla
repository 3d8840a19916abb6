------------------------------ MODULE MCConnector ------------------------------
(* The instance of Connector for TLC: its constants are given in the cfg. *)
EXTENDS Connector
==============================================================================
