------------------------------ MODULE MCPackets ------------------------------
(* Constants for TLC: the values of the program for the frame times. *)
EXTENDS PacketMemory

CONSTANTS a, b

TwoNodes == {a, b}
Payload == {1500}                \* PAYLOAD
=============================================================================
