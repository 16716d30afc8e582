------------------------------ MODULE MCConnector ------------------------------
(* A small instance of Connector: three objects for two hosts. *)
EXTENDS Connector

CONSTANTS c1, c2, c3
===============================================================================
