------------------------------ MODULE MCNetwork ------------------------------
(* Constants for TLC: the values of the program for the frame times. *)
EXTENDS Network, TLC

CONSTANTS a, b, c

TwoNodes == {a, b}
ThreeNodes == {a, b, c}
Payload == {1500}                \* PAYLOAD
Symmetric == Permutations(Nodes)
=============================================================================
