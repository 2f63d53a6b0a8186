------------------------------ MODULE MacFrames ------------------------------
(***************************************************************************)
(* The frames of the 802.11 MAC (mac-802_11.h) and their air times.  Time  *)
(* is in microseconds: every duration of the program, all of them doubles  *)
(* in seconds, is a whole number of them.  A frame keeps the header fields *)
(* the program reads; the payload, the FCS and the fields of frame_control *)
(* that are never read (retry, to_ds, ...) are left out.                   *)
(***************************************************************************)
EXTENDS Integers

CONSTANTS
    Nodes,               \* the MAC addresses (Mac802_11::index_)
    Broadcast,           \* MAC_BROADCAST
    SlotTime,            \* SLOTTIME
    SIFS,                \* SIFS
    HeaderDuration,      \* PHYHEADERDURATION
    MaxPropagationDelay, \* DSSS_MaxPropagationDelay
    RTSThreshold,        \* MAC_MIB: frames longer than this use RTS/CTS
    SeqMod,              \* 2^16 in the program: range of dh_scontrol
    Sizes,               \* payload sizes the upper layer hands down
    Destinations         \* addresses the upper layer sends to

\* BASICRATE and DATARATE are both 1.0e6 bit/s: a byte takes 8 microseconds.
ByteTime == 8

\* sizeof of the frame structs; HdrLen11 counts the FCS.
RTSlen == 20
CTSlen == 14
ACKlen == 14
HdrLen11 == 28

\* Mac802_11::txtime(double psz, double drt).
TxTime(len) == HeaderDuration + ByteTime * len

\* Mac802_11::usec: conversion to the u_int16_t duration fields (the
\* fractional rounding has nothing to round here).
Usec(t) == t % 65536

\* difs_ and eifs_ as the constructor of Mac802_11 computes them.
DIFS == SIFS + 2 * SlotTime
EIFS == SIFS + DIFS + TxTime(ACKlen)

\* Faulty variant: the air time of the ACK is left out.
ACKTimeout_short == SIFS + MaxPropagationDelay

\* Delays of the two response timers (TXC::handleTXConfirm).
CTSTimeout == SIFS + TxTime(CTSlen) + MaxPropagationDelay
ACKTimeout == SIFS + TxTime(ACKlen) + MaxPropagationDelay

Kinds == {"DATA", "RTS", "CTS", "ACK"}
Addresses == Nodes \cup {Broadcast}

\* The null pointer to a packet.
NoFrame == [kind |-> "none", src |-> Broadcast, dst |-> Broadcast,
            seq |-> 0, dur |-> 0, len |-> 0, bad |-> FALSE]

\* src of a CTS or an ACK only tags the transmission, the header has no such
\* field; bad says the bit error draw of the channel hit the frame.
Frame == {NoFrame} \cup
         [kind : Kinds, src : Nodes, dst : Addresses,
          seq : 0 .. SeqMod - 1, dur : Nat, len : Nat, bad : BOOLEAN]

\* hdr_cmn::propagationDelay_: Traffic::genPacket sets it, the control frames
\* are allocated with a zeroed header.
PropagationDelay(f) == IF f.kind = "DATA" THEN MaxPropagationDelay ELSE 0

\* The NAV a unicast DATA frame announces: SIFS and the ACK (prepareMPDU).
AckDuration == Usec(TxTime(ACKlen) + SIFS)

\* TXC::prepareMPDU, the header of an MSDU of the upper layer.
DataFrame(src, dst, size, seq) ==
    [kind |-> "DATA", src |-> src, dst |-> dst, seq |-> seq,
     dur |-> IF dst = Broadcast THEN 0 ELSE AckDuration,
     len |-> size + HdrLen11, bad |-> FALSE]

\* TXC::generateRTSFrame for the data frame p.
RTSFrame(src, p) ==
    [kind |-> "RTS", src |-> src, dst |-> p.dst, seq |-> 0,
     dur |-> Usec(SIFS + TxTime(CTSlen) + SIFS + TxTime(p.len)
                  + SIFS + TxTime(ACKlen)),
     len |-> RTSlen, bad |-> FALSE]

\* RXC::generateCTSFrame, answering the RTS frame p.
CTSFrame(src, p) ==
    [kind |-> "CTS", src |-> src, dst |-> p.src, seq |-> 0,
     dur |-> Usec(p.dur - SIFS - TxTime(CTSlen)),
     len |-> CTSlen, bad |-> FALSE]

\* RXC::generateACKFrame, answering the DATA frame p.
ACKFrame(src, p) ==
    [kind |-> "ACK", src |-> src, dst |-> p.src, seq |-> 0, dur |-> 0,
     len |-> ACKlen, bad |-> FALSE]

\* The test of handleMsgFromUp and handleTACKtimeout: unicast and too long to
\* go without RTS/CTS.
NeedsRTS(p) == p.dst # Broadcast /\ p.len > RTSThreshold

ASSUME TimingAssumption ==
    /\ SlotTime \in Nat \ {0} /\ SIFS \in Nat \ {0}
    /\ HeaderDuration \in Nat /\ HeaderDuration > SIFS
    /\ MaxPropagationDelay \in Nat
ASSUME AddressAssumption == Broadcast \notin Nodes /\ Destinations \subseteq Addresses
ASSUME SizeAssumption ==
    Sizes \subseteq Nat /\ RTSThreshold \in Nat /\ SeqMod \in Nat \ {0, 1}
=============================================================================
