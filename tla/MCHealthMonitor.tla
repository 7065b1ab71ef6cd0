-------------------------- MODULE MCHealthMonitor --------------------------
(***************************************************************************)
(* HealthMonitor with two controllers: one that is registered and one that *)
(* a creation over it has left running.                                    *)
(***************************************************************************)
EXTENDS HealthMonitor

CONSTANTS c1, c2
=============================================================================
