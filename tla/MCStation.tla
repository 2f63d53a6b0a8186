------------------------------ MODULE MCStation ------------------------------
(* Constants for TLC: the values of the program for the frame times. *)
EXTENDS Station

CONSTANTS a, b, c

MCNodes == {a, b, c}
MCPeers == {b}
MCDestinations == {b, Broadcast}
MCUnicast == {b}
MCSizes == {1500}
MCGaps == {0, 15, 300}
=============================================================================
