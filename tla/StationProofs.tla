---------------------------- MODULE StationProofs ----------------------------
(***************************************************************************)
(* Theorems about one station in an arbitrary environment, for every value *)
(* of the constants: every invariant of module Station, and that a frame   *)
(* that opens an exchange goes out from an idle channel only.  The         *)
(* inductive invariant is Good of StationHandlers, with the fact that TXC  *)
(* is idle until Node::run has been called.                                *)
(***************************************************************************)
EXTENDS Station, StationHandlers

\* The inductive invariant.
Inv ==
    /\ sta \in Good(Self, {})
    /\ running \in BOOLEAN
    /\ ~running => sta.txc = "Idle"
    /\ arrivals \in 0 .. MaxArrivals

-----------------------------------------------------------------------------
\* Whatever the other stations send is a frame.
LEMMA HeardType == Heard \subseteq Frame
<1>1. ASSUME NEW m \in Nodes, NEW k \in SUBSET Addresses
      PROVE  Sent(m, k) \subseteq Frame
  <2>1. ASSUME NEW d \in k, NEW z \in Sizes, NEW q \in 0 .. SeqMod - 1, NEW b \in BOOLEAN
        PROVE  [DataFrame(m, d, z, q) EXCEPT !.bad = b] \in Frame
    BY <1>1, <2>1, DataFrameType, FramesAreSome, DamagedType
  <2> QED BY <2>1 DEF Sent
<1>2. ASSUME NEW m \in Nodes, NEW k \in SUBSET Nodes
      PROVE  SentRTS(m, k) \subseteq Frame
  <2>1. k \in SUBSET Addresses
    BY <1>2 DEF Addresses
  <2> QED BY <1>1, <2>1, RTSFrameType DEF SentRTS
<1>3. Peers \subseteq Nodes /\ Self \in Nodes
  BY StationAssumption
<1>4. ASSUME NEW m \in Nodes
      PROVE  SentCTS(m) \subseteq Frame
  <2>1. {m} \in SUBSET Nodes
    BY <1>4
  <2> QED BY <1>2, <1>4, <2>1, CTSFrameType DEF SentCTS
<1>5. ASSUME NEW m \in Nodes
      PROVE  SentACK(m) \subseteq Frame
  <2>1. {m} \in SUBSET Addresses
    BY <1>5 DEF Addresses
  <2> QED BY <1>1, <1>5, <2>1, ACKFrameType DEF SentACK
<1>6. ASSUME NEW m \in Peers
      PROVE  Sent(m, Addresses \ {m}) \cup SentRTS(m, Nodes \ {m})
               \cup SentCTS(m) \cup SentACK(m) \subseteq Frame
  <2>1. m \in Nodes /\ Addresses \ {m} \in SUBSET Addresses /\ Nodes \ {m} \in SUBSET Nodes
    BY <1>3
  <2>2. Sent(m, Addresses \ {m}) \subseteq Frame /\ SentRTS(m, Nodes \ {m}) \subseteq Frame
    BY <1>1, <1>2, <2>1
  <2>3. SentCTS(m) \subseteq Frame /\ SentACK(m) \subseteq Frame
    BY <1>4, <1>5, <2>1
  <2> QED BY <2>2, <2>3
<1> QED BY <1>6 DEF Heard

\* None of them is the frame that stands for no frame.
LEMMA HeardIsSome == \A f \in Heard : f # NoFrame
<1>1. ASSUME NEW a, NEW b, NEW c, NEW d, NEW e
      PROVE  [DataFrame(a, b, c, d) EXCEPT !.bad = e].kind = "DATA"
  BY DEF DataFrame
<1>2. \A m, k : \A f \in Sent(m, k) : f.kind = "DATA"
  <2> SUFFICES ASSUME NEW m, NEW k, NEW f \in Sent(m, k) PROVE f.kind = "DATA"
    OBVIOUS
  <2>1. PICK d \in k, z \in Sizes, q \in 0 .. SeqMod - 1, b \in BOOLEAN :
          f = [DataFrame(m, d, z, q) EXCEPT !.bad = b]
    BY DEF Sent
  <2> QED BY <1>1, <2>1
<1>3. \A m, k : \A f \in SentRTS(m, k) : f.kind = "RTS"
  BY DEF SentRTS, RTSFrame
<1>4. \A m : (\A f \in SentCTS(m) : f.kind = "CTS") /\ (\A f \in SentACK(m) : f.kind = "ACK")
  BY DEF SentCTS, SentACK, CTSFrame, ACKFrame
<1>5. \A f \in Heard : f.kind \in {"DATA", "RTS", "CTS", "ACK"}
  BY <1>2, <1>3, <1>4 DEF Heard
<1> QED BY <1>5 DEF NoFrame

-----------------------------------------------------------------------------
\* The constructors establish it.
LEMMA InvInit == Init => Inv
<1> SUFFICES ASSUME Init PROVE Inv
  OBVIOUS
<1>1. sta \in Good(Self, {}) /\ sta.txc = "Idle"
  BY InitGood, StationAssumption DEF Init, InitStation
<1>2. arrivals \in 0 .. MaxArrivals
  BY StationAssumption DEF Init
<1> QED BY <1>1, <1>2 DEF Init, Inv

\* A timer that is dispatched is due then.
LEMMA DispatchDue ==
  ASSUME NEW s \in Good(Self, {}), NEW t \in Timers, Pending(s, t), NotDueBefore(s, s.timer[t])
  PROVE  LET e == Elapse(s, s.timer[t])
         IN  /\ e \in Good(Self, {}) /\ e.timer[t] = 0
             /\ e.phy = s.phy /\ e.ch = s.ch /\ e.txc = s.txc
<1> DEFINE d == s.timer[t]
           e == Elapse(s, d)
<1>1. d \in Int /\ d >= 0
  BY TimerValues DEF Good, Steady, Pending
<1>2. \A k \in Timers : Pending(s, k) => d <= s.timer[k]
  BY DEF NotDueBefore
<1>3. /\ e \in Good(Self, {}) /\ Touches(s, e, {"calls"}, Timers)
      /\ \A k \in Timers : e.timer[k] = IF Pending(s, k) THEN s.timer[k] - d ELSE s.timer[k]
  <2> HIDE DEF d
  <2> QED BY <1>1, <1>2, ElapseGood
<1>4. e.timer[t] = 0
  BY <1>1, <1>3
<1> HIDE DEF e
<1> QED BY <1>3, <1>4 DEF Touches, Fields, e

\* Every action preserves it, and sends what it may send.
LEMMA InvNext == Inv /\ [Next]_vars => Inv' /\ (sta' = sta \/ sta'.out = NoFrame \/ Access(sta, sta'))
<1> DEFINE Step == sta' = sta \/ sta'.out = NoFrame \/ Access(sta, sta')
<1> SUFFICES ASSUME Inv, [Next]_vars PROVE Inv' /\ Step
  OBVIOUS
<1>0. /\ Self \in Nodes /\ Inputs(MaxDraw) \subseteq AnyInput /\ Inputs(0) \subseteq AnyInput
      /\ sta \in Good(Self, {})
  BY StationAssumption, InputsType DEF Inv
<1>1. CASE Start
  <2>1. PICK in \in Inputs(MaxDraw) : sta' = TrafficStart(sta, in)
    BY <1>1 DEF Start
  <2>2. sta.txc = "Idle"
    BY <1>1 DEF Start, Inv
  <2>3. sta' \in Good(Self, {}) /\ Access(sta, sta')
    BY <1>0, <2>1, <2>2, TrafficStartGood
  <2> QED BY <1>1, <2>3 DEF Start, Inv
<1>2. CASE Stop
  <2>1. sta' \in Good(Self, {}) /\ sta'.out = sta.out
    BY <1>0, <1>2, TrafficStopGood DEF Stop
  <2> QED BY <1>2, <2>1 DEF Stop, Inv, Access
<1>3. CASE Arrive
  <2>1. PICK f \in Heard, dt \in Gaps, in \in Inputs(0) :
          /\ NotDueBefore(sta, dt)
          /\ sta' = Recv([Elapse(sta, dt) EXCEPT !.out = NoFrame, !.up = NoFrame,
                                                 !.done = "none", !.fault = "none"],
                           f, in)
    BY <1>3 DEF Arrive
  <2> DEFINE e == Elapse(sta, dt)
             g == [e EXCEPT !.out = NoFrame, !.up = NoFrame, !.done = "none", !.fault = "none"]
  <2>2. dt \in Int /\ dt >= 0
    BY StationAssumption
  <2>3. e \in Good(Self, {})
    BY <1>0, <2>1, <2>2, ElapseGood DEF NotDueBefore
  <2> HIDE DEF e
  <2>4. e \in Station
    BY <2>3 DEF Good, Steady, Sound
  <2>5. /\ Touches(e, g, {"out", "up", "done", "fault"}, {})
        /\ g.out = NoFrame /\ g.fault = "none"
    BY <2>4, NoFrameType DEF Touches, Fields, Station
  <2> HIDE DEF g
  <2>6. g \in Good(Self, {})
    BY <2>3, <2>5, ForgetGood
  <2>7. f \in Frame /\ f # NoFrame
    BY HeardType, HeardIsSome
  <2>8. sta' = Recv(g, f, in)
    BY <2>1 DEF g, e
  <2>9. sta' \in Good(Self, {}) /\ sta'.out = NoFrame
    BY <2>5, <2>6, <2>7, <2>8, RecvGood
  <2> QED BY <1>3, <2>9, StationAssumption DEF Arrive, Inv
<1>4. ASSUME NEW t \in Timers, Dispatch(t) PROVE Inv' /\ Step
  <2> DEFINE e == Elapse(sta, sta.timer[t])
             b == BeginExpire(e, t)
  <2>1. PICK in \in Inputs(MaxDraw) : sta' = HandleTimer(e, t, in)
    BY <1>4 DEF Dispatch
  <2>2. /\ e \in Good(Self, {}) /\ e.timer[t] = 0
        /\ e.phy = sta.phy /\ e.ch = sta.ch /\ e.txc = sta.txc
    BY <1>0, <1>4, DispatchDue DEF Dispatch
  <2> HIDE DEF e
  <2>3. sta' \in Good(Self, {}) /\ Access(b, sta')
    BY <1>0, <2>1, <2>2, HandleTimerGood
  <2>4. Touches(e, b, {"out", "up", "done", "fault"}, {t}) /\ b.out = NoFrame
    BY <2>2, BeginEffect DEF Good, Steady
  <2> HIDE DEF b
  <2>5. b.phy = sta.phy /\ b.ch = sta.ch /\ b.txc = sta.txc
    BY <2>2, <2>4 DEF Touches, Fields
  <2>6. Step
    BY <2>3, <2>4, <2>5 DEF Access
  <2>7. Inv'
    BY <1>4, <2>3 DEF Dispatch, Inv
  <2> QED BY <2>6, <2>7
<1>5. CASE UNCHANGED vars
  BY <1>5 DEF Inv, vars
<1> QED BY <1>1, <1>2, <1>3, <1>4, <1>5 DEF Next

\* It always holds.
LEMMA Invariance == Spec => []Inv
<1>1. Inv /\ [Next]_vars => Inv'
  BY InvNext
<1> QED BY <1>1, InvInit, PTL DEF Spec

-----------------------------------------------------------------------------
\* The state of the station always has its type, and no timer is left in the
\* status TIMER_HANDLING or scheduled into the past.
THEOREM TypeCorrect == Spec => []TypeOK
<1>1. Inv => TypeOK
  BY DEF Inv, Good, Steady, Sound, TypeOK
<1> QED BY <1>1, Invariance, PTL

\* Whatever arrives and whenever, ChannelStateMgr reports physical carrier
\* sense exactly while WirelessPhy is not searching.
THEOREM CarrierSense == Spec => []CarrierSenseFollowsPhy
<1>1. Inv => CarrierSenseFollowsPhy
  BY DEF Inv, Good, Steady, Sound, CarrierSenseFollowsPhy
<1> QED BY <1>1, Invariance, PTL

\* Whatever arrives and whenever, BackoffMgr counts down only on an idle
\* channel, and is not left paused on one.
THEOREM Backoff == Spec => []BackoffFollowsChannel
<1>1. Inv => BackoffFollowsChannel
  BY DEF Inv, Good, Steady, Sound, BackoffFollowsChannel
<1> QED BY <1>1, Invariance, PTL

\* Whatever arrives and whenever, no call of exit or abort of WirelessPhy,
\* Mac802_11 or TimerHandler is reached.
THEOREM NoHalt == Spec => []NeverHalts
<1>1. Inv => NeverHalts
  BY DEF Inv, Good, Steady, NeverHalts
<1> QED BY <1>1, Invariance, PTL

\* Every state that waits has the timer that ends the wait pending, and no
\* other timer is.
THEOREM TimersMatch == Spec => []TimersMatchStates
<1>1. Inv => TimersMatchStates
  BY DEF Inv, Good, Steady, PhyTimed, ChannelTimed, ResponseTimed, TimersMatchStates
<1> QED BY <1>1, Invariance, PTL

\* An answer of RXC is out before ChannelStateMgr lets the station contend.
THEOREM ResponseFirst == Spec => []ResponseBeforeContention
<1>1. Inv => ResponseBeforeContention
  <2> SUFFICES ASSUME Inv, Pending(sta, "rxcSIFS") PROVE ResponseBeforeContention
    BY DEF ResponseBeforeContention
  <2>1. sta \in Sound(Self, {}) /\ sta.rxc = "wait_SIFS" /\ Undisturbed(sta)
    BY DEF Inv, Good, Steady, ResponseTimed
  <2>2. \A t \in Timers : sta.timer[t] \in Int
    BY <2>1, TimerValues
  <2> QED BY <2>1, <2>2, TimerNames DEF Undisturbed, ResponseBeforeContention
<1> QED BY <1>1, Invariance, PTL

\* TXC never waits for the medium without a backoff that ends in its
\* transmission, and no backoff ends while it waits for something else.
THEOREM PendingBackoff == Spec => []PendingFrameHasBackoff
<1>1. Inv => PendingFrameHasBackoff
  BY DEF Inv, Good, Steady, TxcOK, PendingStates, PendingFrameHasBackoff
<1> QED BY <1>1, Invariance, PTL

\* pDATA, pRTS, pCTRL and pkt_RX are null exactly in the states of TXC, RXC
\* and WirelessPhy that are about no packet.
THEOREM PacketsMatch == Spec => []PacketsMatchStates
<1>1. Inv => PacketsMatchStates
  <2> SUFFICES ASSUME Inv PROVE PacketsMatchStates
    OBVIOUS
  <2>1. TxcOK(sta) /\ RxcOK(sta) /\ Receives(sta)
    BY DEF Inv, Good, Steady
  <2>2. sta.rxc # "Idle" => sta.pCTRL # NoFrame
    BY <2>1 DEF RxcOK, NoFrame
  <2> QED BY <2>1, <2>2 DEF TxcOK, RxcOK, Receives, PacketsMatchStates
<1> QED BY <1>1, Invariance, PTL

\* Between two events the retry counters are below their limits, and TXC is
\* idle with fresh counters and the initial contention window only.
THEOREM FreshStart == Spec => []FreshAfterService
<1>1. Inv => FreshAfterService
  <2> SUFFICES ASSUME Inv PROVE FreshAfterService
    OBVIOUS
  <2>1. TxcOK(sta)
    BY DEF Inv, Good, Steady
  <2>2. sta.txc = "Idle" => sta.pDATA.dst = Broadcast
    BY <2>1 DEF TxcOK, NoFrame
  <2> QED BY <2>1, <2>2 DEF TxcOK, Fresh, FreshAfterService
<1> QED BY <1>1, Invariance, PTL

\* No step puts an RTS or a data frame on the air but from an idle channel,
\* or at the end of the SIFS after a CTS.
THEOREM ChannelAccessed == Spec => AccessRespectsChannel
<1> DEFINE Rule == sta'.out.kind \in {"RTS", "DATA"} /\ sta'.out # sta.out =>
                     \/ sta.txc = "wait_SIFS" /\ sta'.txc = "wait_PDUsent"
                     \/ sta.phy = "SEARCHING" /\ sta.ch \in {"noCSnoNAV", "WIFS"}
<1>1. Inv /\ [Next]_vars => [Rule]_vars
  <2> SUFFICES ASSUME Inv, [Next]_vars PROVE Rule
    OBVIOUS
  <2>1. sta' = sta \/ sta'.out = NoFrame \/ Access(sta, sta')
    BY InvNext
  <2> QED BY <2>1 DEF Access, NoFrame
<1> QED BY <1>1, Invariance, PTL DEF Spec, AccessRespectsChannel
=============================================================================
