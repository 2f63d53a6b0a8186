---------------------------- MODULE ReliableLink ----------------------------
(***************************************************************************)
(* What the MAC promises the layer above it about unicast packets: a       *)
(* packet in service reaches its receiver at most once, and its service    *)
(* ends as acknowledged only if it did.                                    *)
(***************************************************************************)
EXTENDS Naturals

CONSTANT Senders

VARIABLES
    busy,      \* the sender serves a packet
    got,       \* how often the receiver got the packet in service
    verdict    \* how the last service ended, until that is forgotten

linkVars == <<busy, got, verdict>>

Init ==
    /\ busy = [n \in Senders |-> FALSE]
    /\ got = [n \in Senders |-> 0]
    /\ verdict = [n \in Senders |-> "none"]

\* The upper layer hands down a packet.
Offer(n) ==
    /\ ~busy[n]
    /\ busy' = [busy EXCEPT ![n] = TRUE]
    /\ UNCHANGED <<got, verdict>>

\* The receiver passes the packet up.
Deliver(n) ==
    /\ busy[n] /\ got[n] = 0
    /\ got' = [got EXCEPT ![n] = 1]
    /\ UNCHANGED <<busy, verdict>>

\* The service ends; the next packet may begin in the same step.
Finish(n) ==
    /\ busy[n]
    /\ \E v \in {"acked", "dropped"} :
         /\ v = "acked" => got[n] = 1
         /\ verdict' = [verdict EXCEPT ![n] = v]
    /\ got' = [got EXCEPT ![n] = 0]
    /\ \E more \in BOOLEAN : busy' = [busy EXCEPT ![n] = more]

Forget(n) ==
    /\ verdict' = [verdict EXCEPT ![n] = "none"]
    /\ UNCHANGED <<busy, got>>

Next == \E n \in Senders : Offer(n) \/ Deliver(n) \/ Finish(n) \/ Forget(n)

Spec == Init /\ [][Next]_linkVars
=============================================================================
