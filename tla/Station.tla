------------------------------- MODULE Station -------------------------------
(***************************************************************************)
(* One station in an arbitrary environment: its own timers expire in the   *)
(* order the scheduler dispatches them, its Traffic source is started and  *)
(* stopped, and any frame a station can send may arrive from the channel   *)
(* at any time, whether or not a real medium would deliver it then.  What  *)
(* holds here holds of a station in every network.                         *)
(***************************************************************************)
EXTENDS RxCoordination

CONSTANTS
    Self,          \* the station
    Peers,         \* the stations whose transmissions reach it
    MaxDraw,       \* bound of the random integers
    Gaps,          \* times an arrival may come after the last event
    MaxArrivals    \* bound of the number of arrivals

ASSUME StationAssumption ==
    /\ Self \in Nodes /\ Peers \subseteq Nodes \ {Self} /\ MaxDraw \in Nat /\ Gaps \subseteq Nat
    /\ MaxArrivals \in Nat

VARIABLES
    sta,        \* the station
    running,    \* Node::run has been called
    arrivals    \* number of frames that arrived

vars == <<sta, running, arrivals>>

-----------------------------------------------------------------------------
(* The frames another station may send *)

Sent(m, k) ==
    {[DataFrame(m, d, z, q) EXCEPT !.bad = b] :
        d \in k, z \in Sizes, q \in 0 .. SeqMod - 1, b \in BOOLEAN}
SentRTS(m, k) == {RTSFrame(m, p) : p \in {q \in Sent(m, k) : NeedsRTS(q)}}
SentCTS(m) == {CTSFrame(m, p) : p \in UNION {SentRTS(k, {m}) : k \in Nodes \ {m}}}
SentACK(m) == {ACKFrame(m, p) : p \in UNION {Sent(k, {m}) : k \in Nodes \ {m}}}
Heard ==
    UNION { Sent(m, Addresses \ {m}) \cup SentRTS(m, Nodes \ {m})
              \cup SentCTS(m) \cup SentACK(m) : m \in Peers }

-----------------------------------------------------------------------------
Init ==
    /\ sta = InitStation(Self)
    /\ running = FALSE
    /\ arrivals = 0

\* Node::run: Traffic::start of this station.
Start ==
    /\ ~running
    /\ running' = TRUE
    /\ \E in \in Inputs(MaxDraw) :
         /\ in.dst # Self
         /\ sta' = TrafficStart(sta, in)
    /\ UNCHANGED arrivals

\* Simulator::stopSimulation reaches Traffic::stop.
Stop ==
    /\ running /\ sta.active /\ sta.fault # "exit"
    /\ sta' = TrafficStop(sta)
    /\ UNCHANGED <<running, arrivals>>

\* No pending timer is due before dt has passed.
NotDueBefore(s, dt) == \A t \in Timers : Pending(s, t) => dt <= s.timer[t]

\* Scheduler::run dispatches timer t: one of the earliest, as times that are
\* equal here may differ by a rounding of the doubles in either direction.
Dispatch(t) ==
    /\ running /\ sta.fault # "exit"
    /\ Pending(sta, t) /\ NotDueBefore(sta, sta.timer[t])
    /\ \E in \in Inputs(MaxDraw) :
         /\ in.dst # Self
         /\ sta' = HandleTimer(Elapse(sta, sta.timer[t]), t, in)
    /\ UNCHANGED <<running, arrivals>>

\* A frame arrives: the channel's event calls WirelessPhy::recv, sendUp,
\* which draws no number and serves no packet.
Arrive ==
    /\ running /\ sta.fault # "exit"
    /\ arrivals < MaxArrivals
    /\ arrivals' = arrivals + 1
    /\ \E f \in Heard, dt \in Gaps, in \in Inputs(0) :
         /\ NotDueBefore(sta, dt)
         /\ sta' = Recv([Elapse(sta, dt) EXCEPT !.out = NoFrame, !.up = NoFrame,
                                                !.done = "none", !.fault = "none"],
                        f, in)
    /\ UNCHANGED running

Next ==
    \/ Start
    \/ Stop
    \/ Arrive
    \/ \E t \in Timers : Dispatch(t)

Spec == Init /\ [][Next]_vars

-----------------------------------------------------------------------------
(* Properties *)

\* Type invariant of the station's record and of the two counters around it.
TypeOK ==
    /\ sta \in Station /\ sta.id = Self
    /\ \A t \in Timers : sta.timer[t] >= TimerIdle
    /\ running \in BOOLEAN
    /\ arrivals \in 0 .. MaxArrivals

\* wireless-phy.h:68: the MAC never issues a transmit command while the PHY
\* is transmitting; nor is a timer scheduled twice, cancelled when it is not
\* pending, a handler called in a state it does not expect, or a null packet
\* used: no call of exit or abort is reached, whatever arrives and whenever.
NeverHalts == sta.fault # "exit"

\* Each module waits in a state exactly as long as the timer that will move
\* it on is pending: no wait without a wake-up, no timer left over that
\* would fire in a state that does not expect it.
TimersMatchStates ==
    /\ Pending(sta, "tX")      <=> sta.phy = "TXing"
    /\ Pending(sta, "rX")      <=> sta.phy = "RXing"
    /\ Pending(sta, "preRX")   <=> sta.phy = "PreRXing"
    /\ Pending(sta, "ifs")     <=> sta.ch = "WIFS"
    /\ Pending(sta, "nav")     <=> sta.ch \in {"noCSNAV", "CSNAV"}
    /\ Pending(sta, "bk")      <=> sta.bk = "BackoffRunning"
    /\ Pending(sta, "txcCTS")  <=> sta.txc = "wait_CTS"
    /\ Pending(sta, "txcACK")  <=> sta.txc = "wait_ACK"
    /\ Pending(sta, "txcSIFS") <=> sta.txc = "wait_SIFS"
    /\ Pending(sta, "rxcSIFS") <=> sta.rxc = "wait_SIFS"

\* The channel state follows the PHY: physical carrier sense is reported
\* exactly while the PHY is not searching (the class comment at
\* mac-802_11.h:217, without the power monitor the code does not have).
CarrierSenseFollowsPhy ==
    sta.phy = "SEARCHING" <=> sta.ch \in {"noCSnoNAV", "noCSNAV", "WIFS"}

\* The backoff counts down exactly while the channel is idle, physically and
\* virtually and past the IFS: it is neither left running over a busy
\* channel nor left paused over an idle one.
BackoffFollowsChannel ==
    /\ sta.bk = "BackoffRunning" => sta.ch = "noCSnoNAV"
    /\ sta.bk = "BackoffPause" => sta.ch # "noCSnoNAV"

\* A frame that waits for the medium always has a backoff that will end in
\* its transmission, and no backoff ends while the coordination waits for
\* something else (TXC::handleBKDone would lose it).
PendingFrameHasBackoff ==
    /\ sta.txc \in {"RTS_pending", "DATA_pending"} => sta.bk # "noBackoff"
    /\ sta.bk # "noBackoff" => sta.txc \in {"Idle", "RTS_pending", "DATA_pending"}

\* The packets a module holds are the ones its state is about: none leaks
\* into the next service, none is missing when the state will send it.
PacketsMatchStates ==
    /\ sta.pDATA # NoFrame <=> sta.txc # "Idle"
    /\ sta.pRTS # NoFrame <=> sta.txc \in {"RTS_pending", "wait_RTSsent", "wait_CTS"}
    /\ sta.pCTRL # NoFrame <=> sta.rxc # "Idle"
    /\ sta.pktRX # NoFrame <=> sta.phy \in {"PreRXing", "RXing"}

\* Between two transmissions the retry counters are below their limits, and
\* a station without a packet has fresh counters and the initial contention
\* window: a packet never inherits those of the one before it.
FreshAfterService ==
    /\ sta.short < ShortRetryLimit /\ sta.long < LongRetryLimit
    /\ sta.cw \in CWMin .. CWMax
    /\ sta.txc = "Idle" => sta.short = 0 /\ sta.long = 0 /\ sta.cw = CWMin

\* A response is never overtaken by the station's own contention: while RXC
\* waits its SIFS the channel cannot become idle before the response is out.
ResponseBeforeContention ==
    Pending(sta, "rxcSIFS") =>
        /\ sta.ch # "noCSnoNAV"
        /\ sta.ch = "WIFS" => sta.timer["rxcSIFS"] < sta.timer["ifs"]
        /\ sta.phy \in {"SEARCHING", "PreRXing"}

\* A station transmits data or an RTS only from an idle channel, or, after a
\* CTS, as the SIFS wait of TXC ends: the first frame of an exchange is never
\* sent over a frame it is receiving or a NAV it has set.
AccessRespectsChannel ==
    [][sta'.out.kind \in {"RTS", "DATA"} /\ sta'.out # sta.out =>
         \/ sta.txc = "wait_SIFS" /\ sta'.txc = "wait_PDUsent"
         \/ sta.phy = "SEARCHING" /\ sta.ch \in {"noCSnoNAV", "WIFS"}]_vars
=============================================================================
