---------------------------- MODULE MCSimulation ----------------------------
(* Constants for TLC. *)
EXTENDS SimulationRun

Two == {2}
OneOrTwo == {1, 2}
=============================================================================
