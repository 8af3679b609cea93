---------------------------- MODULE MCCollector ----------------------------
(* Collector on one agent host with an old and a new connection, and an     *)
(* operator.                                                                *)
EXTENDS Collector

CONSTANT h1

MCConnHost == [c \in Conns |-> h1]
=============================================================================
