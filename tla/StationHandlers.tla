--------------------------- MODULE StationHandlers ---------------------------
(***************************************************************************)
(* The inductive invariant of a station, Good, and that every event keeps  *)
(* it: the expiry of each of the ten timers, the arrival of any frame, the *)
(* start and the stop of the source.  For use about a station alone and    *)
(* about a network of them.                                                *)
(*                                                                         *)
(* Good has a parameter for the timers being handled, as a handler runs    *)
(* with its own timer neither pending nor idle.                            *)
(***************************************************************************)
EXTENDS StationLemmas

\* The states of TXC that wait for the end of its own transmission.
Senders == {"wait_RTSsent", "wait_PDUsent"}

\* The response timers of TXC and RXC but those in h run exactly in the states
\* that wait for them; a SIFS is never exceeded.
ResponseTimed(s, h) ==
    /\ "txcCTS" \notin h => (Pending(s, "txcCTS") <=> s.txc = "wait_CTS")
    /\ "txcACK" \notin h => (Pending(s, "txcACK") <=> s.txc = "wait_ACK")
    /\ "txcSIFS" \notin h => (Pending(s, "txcSIFS") <=> s.txc = "wait_SIFS")
    /\ "rxcSIFS" \notin h => (Pending(s, "rxcSIFS") <=> s.rxc = "wait_SIFS")
    /\ s.timer["txcSIFS"] <= SIFS /\ s.timer["rxcSIFS"] <= SIFS

\* RXC holds an answer exactly while it has one to send.
RxcOK(s) ==
    IF s.rxc = "Idle" THEN s.pCTRL = NoFrame ELSE s.pCTRL.kind \in {"CTS", "ACK"}

\* The PHY transmits for one of the two coordinations, which waits for the end
\* of it; the other one waits for nothing that could make it transmit.
Confirms(s) ==
    /\ s.phy = "TXing" =>
         \/ s.confirm = "TXC" /\ s.txc \in Senders /\ s.rxc = "Idle"
         \/ s.confirm = "RXC" /\ s.rxc = "wait_sent" /\ s.txc \notin Senders \cup {"wait_SIFS"}
    /\ s.txc \in Senders \/ s.rxc = "wait_sent" => s.phy = "TXing"
    /\ s.txc = "wait_SIFS" => s.rxc # "wait_SIFS"

\* While a SIFS is waited for, no reception is past its header, as that takes
\* longer, and the channel does not become idle before an answer is out.
Undisturbed(s) ==
    /\ s.txc = "wait_SIFS" =>
         \/ s.phy = "SEARCHING"
         \/ s.phy = "PreRXing" /\ s.timer["preRX"] > s.timer["txcSIFS"]
    /\ s.rxc = "wait_SIFS" =>
         /\ \/ s.phy = "SEARCHING"
            \/ s.phy = "PreRXing" /\ s.timer["preRX"] > s.timer["rxcSIFS"]
         /\ s.ch # "noCSnoNAV"
         /\ s.ch = "WIFS" => s.timer["ifs"] > s.timer["rxcSIFS"]

\* The states of station n in the handler of the timers h, but for the packet
\* the PHY holds.
Steady(n, h) ==
    { s \in Sound(n, h) :
        /\ s.fault # "exit"
        /\ PhyTimed(s, h) /\ ChannelTimed(s, h) /\ ResponseTimed(s, h)
        /\ TxcOK(s) /\ RxcOK(s)
        /\ Confirms(s) /\ Undisturbed(s) }

\* The states of station n between two events (h is empty), or in the handler
\* of the timers h.
Good(n, h) == { s \in Steady(n, h) : Receives(s) }

\* The timers a station waits for.
Awaited(s) ==
    { t \in Timers :
        \/ t = "tX" /\ s.phy = "TXing"
        \/ t = "rX" /\ s.phy = "RXing"
        \/ t = "preRX" /\ s.phy = "PreRXing"
        \/ t = "ifs" /\ s.ch = "WIFS"
        \/ t = "nav" /\ s.ch \in {"noCSNAV", "CSNAV"}
        \/ t = "bk" /\ s.bk = "BackoffRunning"
        \/ t = "txcCTS" /\ s.txc = "wait_CTS"
        \/ t = "txcACK" /\ s.txc = "wait_ACK"
        \/ t = "txcSIFS" /\ s.txc = "wait_SIFS"
        \/ t = "rxcSIFS" /\ s.rxc = "wait_SIFS" }

\* RTS and DATA frames go out from an idle channel, or after a CTS.
Access(s, u) ==
    \/ u.out = s.out
    \/ u.out.kind \in {"CTS", "ACK"}
    \/ s.txc = "wait_SIFS" /\ u.txc = "wait_PDUsent"
    \/ s.phy = "SEARCHING" /\ s.ch \in {"noCSnoNAV", "WIFS"}

-----------------------------------------------------------------------------
\* The names of the timers.
LEMMA TimerNames ==
  /\ Timers = {"tX", "rX", "preRX", "ifs", "nav", "bk", "txcCTS", "txcSIFS", "txcACK", "rxcSIFS"}
  /\ PhyTimers = {"tX", "rX", "preRX"}
BY DEF Timers, PhyTimers, MacTimers

\* Timers have integers as their values.
LEMMA TimerValues ==
  ASSUME NEW n, NEW h, NEW s \in Sound(n, h)
  PROVE  s \in Station /\ \A t \in Timers : s.timer[t] \in Int
BY DEF Sound, Station

\* The constructors leave a good station.
LEMMA InitGood ==
  ASSUME NEW n \in Nodes
  PROVE  InitStation(n) \in Good(n, {})
<1> DEFINE s == InitStation(n)
<1>1. s \in Sound(n, {})
  BY InitSound
<1>2. /\ s.fault = "none" /\ s.phy = "SEARCHING" /\ s.ch = "noCSnoNAV" /\ s.bk = "noBackoff"
      /\ s.txc = "Idle" /\ s.rxc = "Idle" /\ s.ifsValue = EIFS
  BY DEF InitStation
<1>3. /\ s.pktRX = NoFrame /\ s.pRTS = NoFrame /\ s.pDATA = NoFrame /\ s.pCTRL = NoFrame
      /\ s.short = 0 /\ s.long = 0 /\ s.cw = CWMin
  BY DEF InitStation
<1>4. \A t \in Timers : s.timer[t] = TimerIdle
  BY DEF InitStation
<1> HIDE DEF s
<1>5. EIFS >= DIFS
  BY AirTime, TimingAssumption DEF EIFS, DIFS, ACKlen
<1>6. PhyTimed(s, {}) /\ ResponseTimed(s, {})
  BY <1>2, <1>4, TimerNames, TimingAssumption DEF PhyTimed, ResponseTimed, Pending, TimerIdle
<1>7. ChannelTimed(s, {})
  BY <1>2, <1>4, <1>5, TimerNames DEF ChannelTimed, Pending, TimerIdle
<1>8. Fresh(s) /\ TxcOK(s) /\ RxcOK(s) /\ Receives(s)
  BY <1>2, <1>3, FreshCounters DEF Fresh, TxcOK, RxcOK, Receives, Unicast, PendingStates
<1>9. Confirms(s) /\ Undisturbed(s)
  BY <1>2 DEF Confirms, Undisturbed, Senders
<1> QED BY <1>1, <1>2, <1>6, <1>7, <1>8, <1>9 DEF Good, Steady, s

\* The clock moves on to an event, no timer is due before.
LEMMA ElapseGood ==
  ASSUME NEW n, NEW s \in Good(n, {}), NEW dt \in Int, dt >= 0,
         \A t \in Timers : Pending(s, t) => dt <= s.timer[t]
  PROVE  LET u == Elapse(s, dt)
         IN  /\ u \in Good(n, {}) /\ Touches(s, u, {"calls"}, Timers)
             /\ \A t \in Timers : u.timer[t] = IF Pending(s, t) THEN s.timer[t] - dt ELSE s.timer[t]
<1> DEFINE u == Elapse(s, dt)
<1>0. s \in Sound(n, {})
  BY DEF Good, Steady
<1>1. u \in Sound(n, {})
  BY <1>0, ElapseSound
<1>2. \A f \in Fields \ {"calls"} : u[f] = s[f]
  BY <1>0 DEF Elapse, Sound, Station, Fields
<1>3. \A t \in Timers : u.timer[t] = IF Pending(s, t) THEN s.timer[t] - dt ELSE s.timer[t]
  BY <1>0 DEF Elapse, Sound, Station, Pending
<1> HIDE DEF u
<1>4. Touches(s, u, {"calls"}, Timers)
  BY <1>1, <1>2 DEF Touches, Sound
<1>5. \A t \in Timers : Pending(u, t) <=> Pending(s, t)
  BY <1>0, <1>3, TimerValues DEF Pending
<1>6. /\ u.phy = s.phy /\ u.ch = s.ch /\ u.bk = s.bk /\ u.txc = s.txc /\ u.rxc = s.rxc
      /\ u.fault = s.fault /\ u.confirm = s.confirm /\ u.started = s.started
      /\ u.ifsValue = s.ifsValue
  BY <1>2 DEF Fields
<1>7. /\ u.pktRX = s.pktRX /\ u.pRTS = s.pRTS /\ u.pDATA = s.pDATA /\ u.pCTRL = s.pCTRL
      /\ u.short = s.short /\ u.long = s.long /\ u.cw = s.cw
  BY <1>2 DEF Fields
<1>8. PhyTimed(u, {}) /\ ChannelTimed(u, {})
  BY <1>5, <1>6, TimerNames DEF Good, Steady, PhyTimed, ChannelTimed
<1>9. ResponseTimed(u, {})
  <2>1. u.timer["txcSIFS"] <= SIFS /\ u.timer["rxcSIFS"] <= SIFS
    BY <1>0, <1>3, TimerNames, TimerValues, TimingAssumption DEF Good, Steady, ResponseTimed, Pending
  <2> QED BY <1>5, <1>6, <2>1, TimerNames DEF Good, Steady, ResponseTimed
<1>10. Receives(u) /\ TxcOK(u) /\ RxcOK(u) /\ Confirms(u)
  BY <1>6, <1>7 DEF Good, Steady, Receives, TxcOK, RxcOK, Confirms, Fresh
<1>11. Undisturbed(u)
  <2>1. /\ s.txc = "wait_SIFS" => Pending(s, "txcSIFS")
        /\ s.rxc = "wait_SIFS" => Pending(s, "rxcSIFS")
        /\ s.phy = "PreRXing" => Pending(s, "preRX")
        /\ s.ch = "WIFS" => Pending(s, "ifs")
    BY DEF Good, Steady, PhyTimed, ChannelTimed, ResponseTimed
  <2>2. /\ s.txc = "wait_SIFS" => u.timer["txcSIFS"] = s.timer["txcSIFS"] - dt
        /\ s.rxc = "wait_SIFS" => u.timer["rxcSIFS"] = s.timer["rxcSIFS"] - dt
        /\ s.phy = "PreRXing" => u.timer["preRX"] = s.timer["preRX"] - dt
        /\ s.ch = "WIFS" => u.timer["ifs"] = s.timer["ifs"] - dt
    BY <1>3, <2>1, TimerNames
  <2> QED BY <1>0, <1>6, <2>2, TimerNames, TimerValues DEF Good, Steady, Undisturbed
<1> QED BY <1>1, <1>3, <1>4, <1>6, <1>8, <1>9, <1>10, <1>11 DEF Good, Steady, u

-----------------------------------------------------------------------------
(* From state to state *)

\* The fields the invariant does not speak of, and the packet of the PHY.
Aside == {"rxError", "seqno", "cache", "callback", "active", "out", "up", "done", "calls",
          "pktRX", "fault"}

\* A change of those leaves a steady state.
LEMMA SteadyKept ==
  ASSUME NEW n, NEW h, NEW s \in Steady(n, h), NEW u, NEW F, Touches(s, u, F, {}),
         F \subseteq Aside, u.fault # "exit"
  PROVE  u \in Steady(n, h)
<1>0. s \in Sound(n, h)
  BY DEF Steady
<1>1. F \cap {"id", "phy", "ch", "bk", "slots", "started"} = {}
  BY DEF Aside
<1>2. u \in Sound(n, h)
  BY <1>0, <1>1, SoundKept
<1>3. \A t \in Timers : u.timer[t] = s.timer[t]
  BY DEF Touches
<1>4. \A f \in Fields \ Aside : u[f] = s[f]
  BY DEF Touches
<1>6. /\ u.phy = s.phy /\ u.ch = s.ch /\ u.bk = s.bk /\ u.txc = s.txc /\ u.rxc = s.rxc
      /\ u.confirm = s.confirm /\ u.started = s.started /\ u.ifsValue = s.ifsValue
  BY <1>4 DEF Fields, Aside
<1>7. /\ u.pRTS = s.pRTS /\ u.pDATA = s.pDATA /\ u.pCTRL = s.pCTRL
      /\ u.short = s.short /\ u.long = s.long /\ u.cw = s.cw
  BY <1>4 DEF Fields, Aside
<1>8. PhyTimed(u, h) /\ ChannelTimed(u, h) /\ ResponseTimed(u, h)
  BY <1>3, <1>6, TimerNames DEF Steady, PhyTimed, ChannelTimed, ResponseTimed, Pending
<1>9. TxcOK(u) /\ RxcOK(u) /\ Confirms(u)
  BY <1>6, <1>7 DEF Steady, TxcOK, RxcOK, Confirms, Fresh
<1>10. Undisturbed(u)
  BY <1>3, <1>6, TimerNames DEF Steady, Undisturbed
<1> QED BY <1>2, <1>8, <1>9, <1>10 DEF Steady

\* The timers of TXC, none of which runs while it sends or contends.
TxcTimers == {"txcCTS", "txcSIFS", "txcACK"}

\* The states in which TXC may proceed, whatever it waited for: it is RXC, if
\* any, that transmits, and PHY, channel and RXC agree.
Ready(n, h) ==
    { s \in Sound(n, h) :
        /\ s.fault # "exit"
        /\ PhyTimed(s, h) /\ RxcOK(s)
        /\ \A t \in TxcTimers \ h : ~Pending(s, t)
        /\ "rxcSIFS" \notin h => (Pending(s, "rxcSIFS") <=> s.rxc = "wait_SIFS")
        /\ s.timer["txcSIFS"] <= SIFS /\ s.timer["rxcSIFS"] <= SIFS
        /\ s.phy = "TXing" <=> s.rxc = "wait_sent"
        /\ s.phy = "TXing" => s.confirm = "RXC"
        /\ s.rxc = "wait_SIFS" =>
             /\ \/ s.phy = "SEARCHING"
                \/ s.phy = "PreRXing" /\ s.timer["preRX"] > s.timer["rxcSIFS"]
             /\ s.ch # "noCSnoNAV"
             /\ s.ch = "WIFS" => s.timer["ifs"] > s.timer["rxcSIFS"] }

\* Where TXC proceeds to is a steady state.
LEMMA ProceedsSteady ==
  ASSUME NEW n, NEW h, NEW s \in Ready(n, h), NEW u \in Sound(n, h), Proceeds(s, u, h)
  PROVE  /\ u \in Steady(n, h)
         /\ Receives(s) => Receives(u)
         /\ Access(s, u)
         /\ u.txc \notin {"wait_CTS", "wait_ACK", "wait_SIFS"}
         /\ \A t \in MacTimers \ {"bk", "ifs"} : u.timer[t] = s.timer[t]
<1>0. s \in Station /\ u \in Station /\ TxcOK(u) /\ s \in Sound(n, h)
  BY DEF Ready, Sound, Proceeds
<1>n. /\ MacTimers \subseteq Timers
      /\ MacTimers = {"ifs", "nav", "bk", "txcCTS", "txcSIFS", "txcACK", "rxcSIFS"}
  BY DEF Timers, MacTimers
<1>1. CASE Waits(s, u, h)
  <2>1. /\ u.phy = s.phy /\ u.ch = s.ch /\ u.rxc = s.rxc /\ u.confirm = s.confirm
        /\ u.fault = s.fault /\ u.pCTRL = s.pCTRL /\ u.pktRX = s.pktRX /\ u.out = s.out
    BY <1>1 DEF Waits, Touches, TxcFields, TxcOwn, Fields
  <2>2. \A t \in Timers \ {"bk"} : u.timer[t] = s.timer[t]
    BY <1>1 DEF Waits, Touches
  <2>3. u.txc = "Idle" \/ u.txc \in PendingStates
    BY <1>1 DEF Waits
  <2>4. PhyTimed(u, h) /\ ChannelTimed(u, h)
    BY <1>1, <2>1, <2>2, TimerNames DEF Waits, Ready, PhyTimed, Pending
  <2>5. ResponseTimed(u, h)
    BY <2>1, <2>2, <2>3, TimerNames DEF Ready, ResponseTimed, Pending, TxcTimers, PendingStates
  <2>6. RxcOK(u) /\ Confirms(u)
    BY <2>1, <2>3 DEF Ready, RxcOK, Confirms, PendingStates, Senders
  <2>7. Undisturbed(u)
    BY <2>1, <2>2, <2>3, TimerNames DEF Ready, Undisturbed, PendingStates
  <2>8. Access(s, u) /\ (Receives(s) => Receives(u)) /\ u.fault # "exit"
    BY <2>1 DEF Access, Receives, Ready
  <2> QED BY <1>0, <1>n, <2>2, <2>3, <2>4, <2>5, <2>6, <2>7, <2>8 DEF Steady, PendingStates
<1>2. CASE Goes(s, u, h)
  <2>1. /\ u.rxc = s.rxc /\ u.fault = s.fault /\ u.pCTRL = s.pCTRL
    BY <1>2 DEF Goes, TxcSends, Touches, TxcFields, TxcOwn, AirFields, Fields
  <2>2. \A t \in Timers \ AirTimers : u.timer[t] = s.timer[t]
    BY <1>2 DEF Goes, TxcSends, Touches
  <2>3. u.txc \in Senders /\ s.ch = "noCSnoNAV" /\ u.confirm = "TXC" /\ Sends(u, h, u.out)
    BY <1>2 DEF Goes, TxcSends, Senders
  <2>4. s.phy = "SEARCHING" /\ s.rxc = "Idle"
    <3>1. s.phy = "SEARCHING"
      BY <1>0, <2>3 DEF Sound
    <3>2. s.rxc \in RXCStates
      BY <1>0 DEF Station
    <3> QED BY <2>3, <3>1, <3>2 DEF Ready, RXCStates
  <2>5. PhyTimed(u, h) /\ ChannelTimed(u, h) /\ u.phy = "TXing" /\ u.pktRX = NoFrame
    BY <2>3 DEF Sends
  <2>6. ResponseTimed(u, h)
    BY <2>1, <2>2, <2>3, TimerNames DEF Ready, ResponseTimed, Pending, TxcTimers, Senders, AirTimers
  <2>7. RxcOK(u) /\ Confirms(u) /\ Undisturbed(u)
    BY <2>1, <2>3, <2>4, <2>5 DEF Ready, RxcOK, Confirms, Senders, Undisturbed
  <2>8. Access(s, u) /\ Receives(u) /\ u.fault # "exit"
    BY <2>1, <2>3, <2>4, <2>5 DEF Access, Receives, Ready
  <2> QED BY <1>0, <1>n, <2>2, <2>3, <2>5, <2>6, <2>7, <2>8 DEF Steady, Senders, AirTimers
<1> QED BY <1>1, <1>2 DEF Proceeds

\* TXC may proceed where it neither transmits nor waits for a response, or
\* where the timer of that wait has expired.
LEMMA SteadyReady ==
  ASSUME NEW n, NEW h, NEW s \in Steady(n, h),
         s.txc \notin Senders \cup {"wait_SIFS"},
         s.txc = "wait_CTS" => "txcCTS" \in h, s.txc = "wait_ACK" => "txcACK" \in h
  PROVE  s \in Ready(n, h)
<1>1. \A t \in TxcTimers \ h : ~Pending(s, t)
  BY DEF Steady, ResponseTimed, TxcTimers
<1>2. (s.phy = "TXing" <=> s.rxc = "wait_sent") /\ (s.phy = "TXing" => s.confirm = "RXC")
  BY DEF Steady, Confirms, Senders
<1> QED BY <1>1, <1>2 DEF Steady, Ready, ResponseTimed, Undisturbed

\* An idle channel may be sent to.
LEMMA GoodMaySend ==
  ASSUME NEW n, NEW h, NEW s \in Good(n, h), s.phy # "TXing", h \cap PhyTimers = {},
         "ifs" \in h => s.ch # "WIFS"
  PROVE  MaySend(s, h)
BY DEF Good, Steady, MaySend

\* On the idle channel the PHY searches.
LEMMA IdleSearches ==
  ASSUME NEW n, NEW h, NEW s \in Sound(n, h), s.ch \in {"noCSnoNAV", "WIFS", "noCSNAV"}
  PROVE  s.phy = "SEARCHING"
BY DEF Sound

-----------------------------------------------------------------------------
(* The frame around a handler *)

\* A timer that is pending is one the station waits for.
LEMMA PendingAwaited ==
  ASSUME NEW n, NEW s \in Good(n, {}), NEW t \in Timers
  PROVE  Pending(s, t) <=> t \in Awaited(s)
BY TimerNames DEF Good, Steady, PhyTimed, ChannelTimed, ResponseTimed, Awaited

\* TimerHandler::handle up to the call of expire.
LEMMA BeginEffect ==
  ASSUME NEW n, NEW s \in Sound(n, {}), NEW t \in Timers
  PROVE  LET b == BeginExpire(s, t)
         IN  /\ Touches(s, b, {"out", "up", "done", "fault"}, {t})
             /\ b \in Sound(n, {t}) /\ b.timer[t] = TimerHandling
             /\ b.out = NoFrame /\ b.fault = "none"
<1> DEFINE b == BeginExpire(s, t)
<1>1. b \in Sound(n, {t}) /\ b.timer[t] = TimerHandling
  BY BeginSound
<1>2. /\ \A f \in Fields \ {"out", "up", "done", "fault"} : b[f] = s[f]
      /\ \A k \in Timers \ {t} : b.timer[k] = s.timer[k]
      /\ b.out = NoFrame /\ b.fault = "none"
  BY DEF BeginExpire, Sound, Station, Fields
<1> HIDE DEF b
<1>3. b \in Station
  BY <1>1 DEF Sound
<1> QED BY <1>1, <1>2, <1>3 DEF Touches, b

\* A timer but the backoff's expires in a good state, from which on it is not
\* waited for.
LEMMA BeginGood ==
  ASSUME NEW n, NEW s \in Good(n, {}), NEW t \in Timers \ {"bk"}, s.timer[t] = 0
  PROVE  BeginExpire(s, t) \in Good(n, {t}) /\ t \in Awaited(BeginExpire(s, t))
<1> DEFINE b == BeginExpire(s, t)
<1>0. s \in Sound(n, {})
  BY DEF Good, Steady
<1>1. /\ Touches(s, b, {"out", "up", "done", "fault"}, {t})
      /\ b \in Sound(n, {t}) /\ b.timer[t] = TimerHandling /\ b.fault = "none"
  BY <1>0, BeginEffect
<1> HIDE DEF b
<1>2. \A k \in Timers \ {t} : b.timer[k] = s.timer[k] /\ (Pending(b, k) <=> Pending(s, k))
  BY <1>1 DEF Touches, Pending
<1>3. /\ b.phy = s.phy /\ b.ch = s.ch /\ b.bk = s.bk /\ b.txc = s.txc /\ b.rxc = s.rxc
      /\ b.confirm = s.confirm /\ b.started = s.started /\ b.ifsValue = s.ifsValue
  BY <1>1 DEF Touches, Fields
<1>4. /\ b.pRTS = s.pRTS /\ b.pDATA = s.pDATA /\ b.pCTRL = s.pCTRL /\ b.pktRX = s.pktRX
      /\ b.short = s.short /\ b.long = s.long /\ b.cw = s.cw
  BY <1>1 DEF Touches, Fields
<1>5. t \in Awaited(b)
  <2>1. Pending(s, t)
    BY DEF Pending
  <2> QED BY <2>1, <1>3, PendingAwaited DEF Awaited
<1>6. PhyTimed(b, {t}) /\ ChannelTimed(b, {t})
  BY <1>2, <1>3, TimerNames DEF Good, Steady, PhyTimed, ChannelTimed
<1>7. ResponseTimed(b, {t})
  <2>1. b.timer["txcSIFS"] <= SIFS /\ b.timer["rxcSIFS"] <= SIFS
    BY <1>1, <1>2, TimerNames, TimingAssumption DEF Good, Steady, ResponseTimed, TimerHandling
  <2> QED BY <1>2, <1>3, <2>1, TimerNames DEF Good, Steady, ResponseTimed
<1>8. TxcOK(b) /\ RxcOK(b) /\ Confirms(b) /\ Receives(b)
  BY <1>3, <1>4 DEF Good, Steady, TxcOK, RxcOK, Confirms, Receives, Fresh
<1>9. Undisturbed(b)
  <2>1. /\ s.txc = "wait_SIFS" => s.timer["txcSIFS"] >= 0
        /\ s.rxc = "wait_SIFS" => s.timer["rxcSIFS"] >= 0
    BY DEF Good, Steady, ResponseTimed, Pending
  <2>2. \A k \in Timers : s.timer[k] \in Int /\ b.timer[k] \in Int
    BY <1>0, <1>1, TimerValues
  <2>3. s.txc = "wait_SIFS" => t # "preRX" \/ s.phy = "SEARCHING"
    BY <2>1, <2>2, TimerNames DEF Good, Steady, Undisturbed
  <2>4. s.rxc = "wait_SIFS" => (t # "preRX" \/ s.phy = "SEARCHING") /\ (t # "ifs" \/ s.ch # "WIFS")
    BY <2>1, <2>2, TimerNames DEF Good, Steady, Undisturbed
  <2>5. /\ s.txc = "wait_SIFS" => b.timer["txcSIFS"] <= s.timer["txcSIFS"]
        /\ s.rxc = "wait_SIFS" => b.timer["rxcSIFS"] <= s.timer["rxcSIFS"]
    BY <1>1, <1>2, <2>1, <2>2, TimerNames DEF TimerHandling
  <2>6. /\ t # "preRX" => b.timer["preRX"] = s.timer["preRX"]
        /\ t # "ifs" => b.timer["ifs"] = s.timer["ifs"]
    BY <1>2, TimerNames
  <2>7. s.txc = "wait_SIFS" =>
          \/ b.phy = "SEARCHING"
          \/ b.phy = "PreRXing" /\ b.timer["preRX"] > b.timer["txcSIFS"]
    BY <1>3, <2>2, <2>3, <2>5, <2>6, TimerNames DEF Good, Steady, Undisturbed
  <2>8. s.rxc = "wait_SIFS" =>
          /\ \/ b.phy = "SEARCHING"
             \/ b.phy = "PreRXing" /\ b.timer["preRX"] > b.timer["rxcSIFS"]
          /\ b.ch # "noCSnoNAV"
          /\ b.ch = "WIFS" => b.timer["ifs"] > b.timer["rxcSIFS"]
    BY <1>3, <2>2, <2>4, <2>5, <2>6, TimerNames DEF Good, Steady, Undisturbed
  <2> QED BY <1>3, <2>7, <2>8 DEF Undisturbed
<1> QED BY <1>1, <1>5, <1>6, <1>7, <1>8, <1>9 DEF Good, Steady, b

\* TimerHandler::handle after the call of expire: the timer becomes idle, and
\* nothing waits for it.
LEMMA EndGood ==
  ASSUME NEW n, NEW t \in Timers, NEW s \in Good(n, {t}), t \notin Awaited(s),
         ~Pending(s, t)
  PROVE  EndExpire(s, t) \in Good(n, {}) /\ Touches(s, EndExpire(s, t), {}, {t})
<1> DEFINE e == EndExpire(s, t)
<1>0. s \in Sound(n, {t}) /\ s \in Station /\ \A k \in Timers : s.timer[k] \in Int
  BY TimerValues DEF Good, Steady
<1>1. e \in Sound(n, {})
  BY <1>0, EndSound
<1>2. Touches(s, e, {}, {t}) /\ e.timer[t] = TimerIdle
  <2>1. CASE s.timer[t] = TimerHandling
    BY <1>0, <2>1, TimerEffect DEF EndExpire, TimerIdle
  <2>2. CASE s.timer[t] # TimerHandling
    <3>1. s.timer[t] = TimerIdle
      BY <1>0, <2>2 DEF Sound, Pending, TimerIdle
    <3> QED BY <1>0, <2>2, <3>1 DEF EndExpire, Touches
  <2> QED BY <2>1, <2>2
<1> HIDE DEF e
<1>3. /\ \A k \in Timers \ {t} : e.timer[k] = s.timer[k] /\ (Pending(e, k) <=> Pending(s, k))
      /\ ~Pending(e, t)
  BY <1>2 DEF Touches, Pending, TimerIdle
<1>4. /\ e.phy = s.phy /\ e.ch = s.ch /\ e.bk = s.bk /\ e.txc = s.txc /\ e.rxc = s.rxc
      /\ e.confirm = s.confirm /\ e.started = s.started /\ e.ifsValue = s.ifsValue
      /\ e.fault = s.fault
  BY <1>2 DEF Touches, Fields
<1>5. /\ e.pRTS = s.pRTS /\ e.pDATA = s.pDATA /\ e.pCTRL = s.pCTRL /\ e.pktRX = s.pktRX
      /\ e.short = s.short /\ e.long = s.long /\ e.cw = s.cw
  BY <1>2 DEF Touches, Fields
<1>6. PhyTimed(e, {}) /\ ChannelTimed(e, {})
  BY <1>3, <1>4, TimerNames DEF Good, Steady, PhyTimed, ChannelTimed, Awaited
<1>7. ResponseTimed(e, {})
  <2>1. e.timer["txcSIFS"] <= SIFS /\ e.timer["rxcSIFS"] <= SIFS
    BY <1>2, <1>3, TimerNames, TimingAssumption DEF Good, Steady, ResponseTimed, TimerIdle
  <2> QED BY <1>3, <1>4, <2>1, TimerNames DEF Good, Steady, ResponseTimed, Awaited
<1>8. TxcOK(e) /\ RxcOK(e) /\ Confirms(e) /\ Receives(e)
  BY <1>4, <1>5 DEF Good, Steady, TxcOK, RxcOK, Confirms, Receives, Fresh
<1>9. Undisturbed(e)
  <2>1. /\ s.txc = "wait_SIFS" => t # "txcSIFS"
        /\ s.rxc = "wait_SIFS" => t # "rxcSIFS"
        /\ s.phy = "PreRXing" => t # "preRX"
        /\ s.ch = "WIFS" => t # "ifs"
    BY DEF Awaited
  <2>2. /\ s.txc = "wait_SIFS" => e.timer["txcSIFS"] = s.timer["txcSIFS"]
        /\ s.rxc = "wait_SIFS" => e.timer["rxcSIFS"] = s.timer["rxcSIFS"]
        /\ s.phy = "PreRXing" => e.timer["preRX"] = s.timer["preRX"]
        /\ s.ch = "WIFS" => e.timer["ifs"] = s.timer["ifs"]
    BY <1>3, <2>1, TimerNames
  <2> QED BY <1>4, <2>2 DEF Good, Steady, Undisturbed
<1> QED BY <1>1, <1>2, <1>4, <1>6, <1>7, <1>8, <1>9 DEF Good, Steady, e
-----------------------------------------------------------------------------
(* The handlers of TXC *)

\* inc_cw stays in its range.
LEMMA IncCWEffect ==
  ASSUME NEW s \in Station, s.cw \in CWMin .. CWMax
  PROVE  LET u == IncCW(s)
         IN  Touches(s, u, {"cw"}, {}) /\ u.cw \in CWMin .. CWMax
<1> DEFINE c == IF 2 * s.cw + 1 > CWMax THEN CWMax ELSE 2 * s.cw + 1
           u == [s EXCEPT !.cw = c]
<1>1. c \in CWMin .. CWMax
  BY MibAssumption
<1>2. c \in Nat
  BY <1>1, MibAssumption
<1> HIDE DEF c
<1>3. u \in Station
  BY <1>2 DEF Station
<1>4. u.cw = c /\ \A f \in Fields \ {"cw"} : u[f] = s[f]
  BY DEF Station, Fields
<1>5. \A t \in Timers : u.timer[t] = s.timer[t]
  BY DEF Station
<1>6. u = IncCW(s)
  BY DEF c, IncCW
<1> HIDE DEF u
<1> QED BY <1>1, <1>3, <1>4, <1>5, <1>6 DEF Touches

\* One more try of a frame without RTS, or of the RTS.
LEMMA ShortEffect ==
  ASSUME NEW s \in Station, NEW k \in Nat
  PROVE  LET u == [s EXCEPT !.short = k]
         IN  Touches(s, u, {"short"}, {}) /\ u.short = k
<1> DEFINE u == [s EXCEPT !.short = k]
<1>1. u \in Station
  BY DEF Station
<1>2. u.short = k /\ \A f \in Fields \ {"short"} : u[f] = s[f]
  BY DEF Station, Fields
<1>3. \A t \in Timers : u.timer[t] = s.timer[t]
  BY DEF Station
<1> HIDE DEF u
<1> QED BY <1>1, <1>2, <1>3 DEF Touches, u

\* One more try of a long frame.
LEMMA LongEffect ==
  ASSUME NEW s \in Station, NEW k \in Nat
  PROVE  LET u == [s EXCEPT !.long = k]
         IN  Touches(s, u, {"long"}, {}) /\ u.long = k
<1> DEFINE u == [s EXCEPT !.long = k]
<1>1. u \in Station
  BY DEF Station
<1>2. u.long = k /\ \A f \in Fields \ {"long"} : u[f] = s[f]
  BY DEF Station, Fields
<1>3. \A t \in Timers : u.timer[t] = s.timer[t]
  BY DEF Station
<1> HIDE DEF u
<1> QED BY <1>1, <1>2, <1>3 DEF Touches, u

\* A transmission TXC has to try again, or give up: what the two timeouts
\* leave of the state they found.
Retries(s, t) ==
    /\ Touches(s, t, {"short", "long", "cw"}, {})
    /\ t.cw \in CWMin .. CWMax
    /\ t.short \in {s.short, s.short + 1} /\ t.long \in {s.long, s.long + 1}

\* A failed try of an RTS or of a short frame.
LEMMA ShortRetry ==
  ASSUME NEW s \in Station, s.cw \in CWMin .. CWMax
  PROVE  LET t == IncCW([s EXCEPT !.short = @ + 1])
         IN  Retries(s, t) /\ t.short = s.short + 1 /\ t.long = s.long
<1> DEFINE v == [s EXCEPT !.short = s.short + 1]
           t == IncCW(v)
<1>1. s.short \in Nat /\ s.short + 1 \in Nat
  BY DEF Station
<1>2. Touches(s, v, {"short"}, {}) /\ v.short = s.short + 1
  BY <1>1, ShortEffect
<1> HIDE DEF v
<1>3. v \in Station /\ v.cw = s.cw /\ v.long = s.long
  BY <1>2 DEF Touches, Fields
<1>4. Touches(v, t, {"cw"}, {}) /\ t.cw \in CWMin .. CWMax
  BY <1>3, IncCWEffect
<1> HIDE DEF t
<1>5. t.short = v.short /\ t.long = v.long
  BY <1>4 DEF Touches, Fields
<1>6. Touches(s, t, {"short", "long", "cw"}, {})
  BY <1>2, <1>4 DEF Touches
<1> QED BY <1>2, <1>3, <1>4, <1>5, <1>6 DEF Retries, t, v

\* A failed try of a long frame.
LEMMA LongRetry ==
  ASSUME NEW s \in Station, s.cw \in CWMin .. CWMax
  PROVE  LET t == IncCW([s EXCEPT !.long = @ + 1])
         IN  Retries(s, t) /\ t.long = s.long + 1 /\ t.short = s.short
<1> DEFINE v == [s EXCEPT !.long = s.long + 1]
           t == IncCW(v)
<1>1. s.long \in Nat /\ s.long + 1 \in Nat
  BY DEF Station
<1>2. Touches(s, v, {"long"}, {}) /\ v.long = s.long + 1
  BY <1>1, LongEffect
<1> HIDE DEF v
<1>3. v \in Station /\ v.cw = s.cw /\ v.short = s.short
  BY <1>2 DEF Touches, Fields
<1>4. Touches(v, t, {"cw"}, {}) /\ t.cw \in CWMin .. CWMax
  BY <1>3, IncCWEffect
<1> HIDE DEF t
<1>5. t.short = v.short /\ t.long = v.long
  BY <1>4 DEF Touches, Fields
<1>6. Touches(s, t, {"short", "long", "cw"}, {})
  BY <1>2, <1>4 DEF Touches
<1> QED BY <1>2, <1>3, <1>4, <1>5, <1>6 DEF Retries, t, v

\* RTS or DATA is given up: the RTS, if there is one, is freed.
LEMMA DropRTS ==
  ASSUME NEW s \in Station
  PROVE  LET u == [Free(s, "pRTS") EXCEPT !.pRTS = NoFrame]
         IN  Touches(s, u, {"pRTS", "calls"}, {}) /\ u.pRTS = NoFrame
<1>1. Touches(s, Free(s, "pRTS"), {"calls"}, {}) /\ Free(s, "pRTS") \in Station
  BY FreeEffect, SlotsType DEF Touches
<1>2. LET u == [Free(s, "pRTS") EXCEPT !.pRTS = NoFrame]
      IN  Touches(Free(s, "pRTS"), u, {"pRTS"}, {}) /\ u.pRTS = NoFrame
  BY <1>1, RTSEffect, NoFrameType
<1> QED BY <1>1, <1>2, TouchesThen, TouchesMore

\* Whatever TXC does to its own fields, it may proceed from there.
LEMMA OwnChange ==
  ASSUME NEW n, NEW h, NEW s \in Good(n, h), NEW e, Touches(s, e, TxcOwn, {}),
         h \cap PhyTimers = {}, "ifs" \notin h
  PROVE  /\ e \in Sound(n, h) /\ ChannelTimed(e, h) /\ Touches(s, e, TxcFields, {"bk"})
         /\ e.ch = s.ch /\ e.phy = s.phy
         /\ e.ch = "noCSnoNAV" => MaySend(e, h)
<1>1. s \in Sound(n, h) /\ ChannelTimed(s, h)
  BY DEF Good, Steady
<1>2. TxcOwn \cap {"id", "phy", "ch", "bk", "slots", "started"} = {}
  BY DEF TxcOwn
<1>3. e \in Sound(n, h)
  BY <1>1, <1>2, SoundKept
<1>4. ChannelTimed(e, h)
  BY <1>1, ChannelKept
<1>5. Touches(s, e, TxcFields, {"bk"}) /\ e.ch = s.ch /\ e.phy = s.phy
  BY DEF Touches, TxcFields, TxcOwn, Fields
<1>6. e.ch = "noCSnoNAV" => MaySend(e, h)
  <2> SUFFICES ASSUME e.ch = "noCSnoNAV" PROVE MaySend(e, h)
    OBVIOUS
  <2>1. s.phy # "TXing"
    BY <1>1, <1>5, IdleSearches
  <2>2. MaySend(s, h)
    BY <2>1, GoodMaySend
  <2> QED BY <1>4, <1>5, <2>2, MaySendKept
<1> QED BY <1>3, <1>4, <1>5, <1>6

\* A response timeout from which TXC proceeds ends in a good state.
LEMMA TimeoutGood ==
  ASSUME NEW n, NEW t \in {"txcCTS", "txcACK"}, NEW s \in Good(n, {t}),
         s.txc = IF t = "txcCTS" THEN "wait_CTS" ELSE "wait_ACK",
         NEW u \in Sound(n, {t}), Proceeds(s, u, {t})
  PROVE  u \in Good(n, {t}) /\ t \notin Awaited(u) /\ u.timer[t] = s.timer[t] /\ Access(s, u)
<1>1. s \in Steady(n, {t}) /\ Receives(s)
  BY DEF Good
<1>2. s \in Ready(n, {t})
  BY <1>1, SteadyReady DEF Senders
<1>3. /\ u \in Steady(n, {t}) /\ (Receives(s) => Receives(u)) /\ Access(s, u)
      /\ u.txc \notin {"wait_CTS", "wait_ACK", "wait_SIFS"}
      /\ \A k \in MacTimers \ {"bk", "ifs"} : u.timer[k] = s.timer[k]
  BY <1>2, ProceedsSteady
<1>4. u.timer[t] = s.timer[t]
  BY <1>3 DEF MacTimers
<1>5. t \notin Awaited(u)
  BY <1>3 DEF Awaited
<1> QED BY <1>1, <1>3, <1>4, <1>5 DEF Good

\* handleTCTStimeout.
LEMMA TCTSTimeoutGood ==
  ASSUME NEW n \in Nodes, NEW s \in Good(n, {"txcCTS"}), "txcCTS" \in Awaited(s),
         NEW in \in AnyInput
  PROVE  LET u == HandleTCTStimeout(s, in)
         IN  /\ u \in Good(n, {"txcCTS"}) /\ "txcCTS" \notin Awaited(u)
             /\ u.timer["txcCTS"] = s.timer["txcCTS"] /\ Access(s, u)
<1> DEFINE h == {"txcCTS"}
           t == IncCW([s EXCEPT !.short = @ + 1])
           u == HandleTCTStimeout(s, in)
<1>0. s \in Sound(n, h) /\ s \in Station /\ TxcOK(s)
  BY DEF Good, Steady, Sound
<1>1. s.txc = "wait_CTS"
  BY DEF Awaited
<1>2. s.pDATA # NoFrame /\ s.pRTS # NoFrame /\ s.pDATA.dst # Broadcast
  BY <1>0, <1>1 DEF TxcOK, Unicast
<1>3. Retries(s, t) /\ t.long = s.long
  BY <1>0, ShortRetry DEF TxcOK
<1>4. h \cap PhyTimers = {} /\ "ifs" \notin h /\ "bk" \notin h
  BY TimerNames
<1>5. u \in Sound(n, h)
  BY <1>0, TCTSTimeoutSound
<1>6. u = IF t.short >= ShortRetryLimit
          THEN FinishPacket([Free(t, "pRTS") EXCEPT !.pRTS = NoFrame], "dropped", in)
          ELSE HandleBKStart([t EXCEPT !.txc = "RTS_pending"], in)
  BY <1>1 DEF HandleTCTStimeout
<1> HIDE DEF t, u, h
<1>7. t \in Station /\ t.pDATA = s.pDATA /\ t.pRTS = s.pRTS /\ t.txc = s.txc
  BY <1>3 DEF Retries, Touches, Fields
<1>8. Proceeds(s, u, h)
  <2>1. CASE t.short >= ShortRetryLimit
    <3> DEFINE e == [Free(t, "pRTS") EXCEPT !.pRTS = NoFrame]
    <3>1. Touches(t, e, {"pRTS", "calls"}, {}) /\ e.pRTS = NoFrame
      BY <1>7, DropRTS
    <3> HIDE DEF e
    <3>2. Touches(s, e, TxcOwn, {}) /\ e.pDATA = s.pDATA /\ e.txc = s.txc
      BY <1>3, <1>7, <3>1 DEF Retries, Touches, TxcOwn, Fields
    <3>3. /\ e \in Sound(n, h) /\ ChannelTimed(e, h) /\ Touches(s, e, TxcFields, {"bk"})
          /\ e.ch = "noCSnoNAV" => MaySend(e, h)
      BY <1>4, <3>2, OwnChange DEF h
    <3>4. Proceeds(e, FinishPacket(e, "dropped", in), h)
      BY <1>1, <1>2, <1>4, <3>1, <3>2, <3>3, FinishEffect
    <3> QED BY <1>6, <2>1, <3>3, <3>4, ProceedsFrom DEF e
  <2>2. CASE ~(t.short >= ShortRetryLimit)
    <3> DEFINE e == [t EXCEPT !.txc = "RTS_pending"]
    <3>1. Touches(t, e, {"txc"}, {}) /\ e.txc = "RTS_pending"
      BY <1>7, TxcEffect DEF TXCStates
    <3> HIDE DEF e
    <3>2. /\ Touches(s, e, TxcOwn, {}) /\ e.pDATA = s.pDATA /\ e.pRTS = s.pRTS
          /\ e.short = t.short /\ e.long = s.long /\ e.cw = t.cw
      BY <1>3, <1>7, <3>1 DEF Retries, Touches, TxcOwn, Fields
    <3>3. /\ e \in Sound(n, h) /\ ChannelTimed(e, h) /\ Touches(s, e, TxcFields, {"bk"})
          /\ e.ch = "noCSnoNAV" => MaySend(e, h)
      BY <1>4, <3>2, OwnChange DEF h
    <3>4. InService(e) /\ e.txc = PendingOf(e)
      <4>1. t.short < ShortRetryLimit
        BY <1>7, <2>2, MibAssumption DEF Station
      <4> QED BY <1>0, <1>2, <1>3, <3>1, <3>2, <4>1 DEF InService, PendingOf, TxcOK, Retries
    <3>5. Proceeds(e, HandleBKStart(e, in), h)
      BY <1>4, <3>3, <3>4, RetryEffect
    <3> QED BY <1>6, <2>2, <3>3, <3>5, ProceedsFrom DEF e
  <2> QED BY <2>1, <2>2
<1> QED BY <1>1, <1>5, <1>8, TimeoutGood DEF h, u

\* handleTACKtimeout.
LEMMA TACKTimeoutGood ==
  ASSUME NEW n \in Nodes, NEW s \in Good(n, {"txcACK"}), "txcACK" \in Awaited(s),
         NEW in \in AnyInput
  PROVE  LET u == HandleTACKtimeout(s, in)
         IN  /\ u \in Good(n, {"txcACK"}) /\ "txcACK" \notin Awaited(u)
             /\ u.timer["txcACK"] = s.timer["txcACK"] /\ Access(s, u)
<1> DEFINE h == {"txcACK"}
           long == s.pDATA.len > RTSThreshold
           t == IncCW(IF long THEN [s EXCEPT !.long = @ + 1] ELSE [s EXCEPT !.short = @ + 1])
           spent == IF long THEN t.long >= LongRetryLimit ELSE t.short >= ShortRetryLimit
           r == IF NeedsRTS(s.pDATA)
                THEN [Alloc(t, "pRTS") EXCEPT !.pRTS = RTSFrame(s.id, s.pDATA),
                                              !.txc = "RTS_pending"]
                ELSE [t EXCEPT !.txc = "DATA_pending"]
           u == HandleTACKtimeout(s, in)
<1>0. s \in Sound(n, h) /\ s \in Station /\ TxcOK(s)
  BY DEF Good, Steady, Sound
<1>1. s.txc = "wait_ACK"
  BY DEF Awaited
<1>2. s.pDATA # NoFrame /\ s.pRTS = NoFrame /\ s.pDATA.dst # Broadcast
  BY <1>0, <1>1 DEF TxcOK, Unicast
<1>3. /\ Retries(s, t)
      /\ IF long THEN t.short = s.short ELSE t.long = s.long
  BY <1>0, ShortRetry, LongRetry DEF TxcOK
<1>4. h \cap PhyTimers = {} /\ "ifs" \notin h /\ "bk" \notin h
  BY TimerNames
<1>5. u \in Sound(n, h)
  BY <1>0, TACKTimeoutSound
<1>6. u = IF spent THEN FinishPacket(t, "dropped", in) ELSE HandleBKStart(r, in)
  BY <1>1 DEF HandleTACKtimeout
<1> HIDE DEF t, u, h, r
<1>7. t \in Station /\ t.pDATA = s.pDATA /\ t.pRTS = s.pRTS /\ t.txc = s.txc
  BY <1>3 DEF Retries, Touches, Fields
<1>8. Proceeds(s, u, h)
  <2>1. CASE spent
    <3>1. Touches(s, t, TxcOwn, {})
      BY <1>3 DEF Retries, Touches, TxcOwn
    <3>2. /\ t \in Sound(n, h) /\ ChannelTimed(t, h) /\ Touches(s, t, TxcFields, {"bk"})
          /\ t.ch = "noCSnoNAV" => MaySend(t, h)
      BY <1>4, <3>1, OwnChange DEF h
    <3>3. Proceeds(t, FinishPacket(t, "dropped", in), h)
      BY <1>1, <1>2, <1>4, <1>7, <3>2, FinishEffect
    <3> QED BY <1>6, <2>1, <3>2, <3>3, ProceedsFrom
  <2>2. CASE ~spent
    <3>1. /\ Touches(t, r, {"txc", "pRTS", "calls"}, {})
          /\ r.txc = PendingOf(r)
      <4>1. CASE NeedsRTS(s.pDATA)
        <5> DEFINE p == RTSFrame(s.id, s.pDATA)
                   a == Alloc(t, "pRTS")
                   b == [a EXCEPT !.pRTS = p]
                   c == [b EXCEPT !.txc = "RTS_pending"]
        <5>a. s.id \in Nodes /\ s.pDATA \in Frame
          BY <1>0 DEF Station
        <5>b. RTSFrame(s.id, s.pDATA) \in Frame
          BY <5>a, RTSFrameType
        <5>1. p \in Frame /\ p # NoFrame
          BY <5>b, FramesAreSome
        <5>2. Touches(t, a, {"calls"}, {}) /\ a \in Station
          BY <1>7, FreeEffect, SlotsType DEF Touches
        <5>3. r = c
          BY <4>1, <5>2 DEF r, Station
        <5> HIDE DEF p, a
        <5>4. Touches(a, b, {"pRTS"}, {}) /\ b.pRTS = p
          BY <5>1, <5>2, RTSEffect
        <5>5. b \in Station
          BY <5>4 DEF Touches
        <5> HIDE DEF b
        <5>6. Touches(b, c, {"txc"}, {}) /\ c.txc = "RTS_pending"
          BY <5>5, TxcEffect DEF TXCStates
        <5> HIDE DEF c
        <5>7. c.pRTS = p
          BY <5>4, <5>6 DEF Touches, Fields
        <5>8. Touches(t, c, {"txc", "pRTS", "calls"}, {})
          BY <5>2, <5>4, <5>6 DEF Touches
        <5> QED BY <5>1, <5>3, <5>6, <5>7, <5>8 DEF PendingOf
      <4>2. CASE ~NeedsRTS(s.pDATA)
        <5>1. Touches(t, r, {"txc"}, {}) /\ r.txc = "DATA_pending"
          BY <1>7, <4>2, TxcEffect DEF TXCStates, r
        <5>2. r.pRTS = NoFrame
          BY <1>2, <1>7, <5>1 DEF Touches, Fields
        <5> QED BY <5>1, <5>2 DEF Touches, PendingOf
      <4> QED BY <4>1, <4>2
    <3>2. /\ Touches(s, r, TxcOwn, {}) /\ r.pDATA = s.pDATA
          /\ r.short = t.short /\ r.long = t.long /\ r.cw = t.cw
      BY <1>3, <1>7, <3>1 DEF Retries, Touches, TxcOwn, Fields
    <3>3. /\ r \in Sound(n, h) /\ ChannelTimed(r, h) /\ Touches(s, r, TxcFields, {"bk"})
          /\ r.ch = "noCSnoNAV" => MaySend(r, h)
      BY <1>4, <3>2, OwnChange DEF h
    <3>4. InService(r)
      <4>1. t.short < ShortRetryLimit /\ t.long < LongRetryLimit
        <5>1. t.short \in Nat /\ t.long \in Nat
          BY <1>7 DEF Station
        <5>2. s.short < ShortRetryLimit /\ s.long < LongRetryLimit
          BY <1>0 DEF TxcOK
        <5> QED BY <1>3, <2>2, <5>1, <5>2, MibAssumption
      <4> QED BY <1>2, <1>3, <3>2, <4>1 DEF InService, Retries
    <3>5. Proceeds(r, HandleBKStart(r, in), h)
      BY <1>4, <3>1, <3>3, <3>4, RetryEffect
    <3> QED BY <1>6, <2>2, <3>3, <3>5, ProceedsFrom
  <2> QED BY <2>1, <2>2
<1> QED BY <1>1, <1>5, <1>8, TimeoutGood DEF h, u

\* handleSIFStimeout of TXC: the data frame goes out after its CTS.
LEMMA TXCSIFSGood ==
  ASSUME NEW n, NEW s \in Good(n, {"txcSIFS"}), "txcSIFS" \in Awaited(s), NEW in
  PROVE  LET u == HandleTXCSIFStimeout(s, in)
         IN  /\ u \in Good(n, {"txcSIFS"}) /\ "txcSIFS" \notin Awaited(u)
             /\ u.timer["txcSIFS"] = s.timer["txcSIFS"] /\ Access(s, u)
<1> DEFINE h == {"txcSIFS"}
           u == HandleTXCSIFStimeout(s, in)
<1>0. s \in Sound(n, h) /\ s \in Station /\ TxcOK(s) /\ s.fault # "exit"
  BY DEF Good, Steady, Sound
<1>1. s.txc = "wait_SIFS"
  BY DEF Awaited
<1>2. s.pDATA # NoFrame /\ s.pRTS = NoFrame /\ s.pDATA.dst # Broadcast /\ s.bk = "noBackoff"
  BY <1>0, <1>1 DEF TxcOK, PendingStates, Unicast
<1>3. s.phy # "TXing" /\ s.rxc = "Idle"
  <2>1. s.phy # "TXing" /\ s.rxc # "wait_SIFS" /\ s.rxc # "wait_sent"
    BY <1>1 DEF Good, Steady, Confirms, Senders
  <2> QED BY <1>0, <2>1 DEF Station, RXCStates
<1>4. h \cap PhyTimers = {} /\ "ifs" \notin h
  BY TimerNames
<1>5. MaySend(s, h)
  BY <1>3, <1>4, GoodMaySend
<1>6. s.pDATA \in Frame /\ "wait_PDUsent" \in TXCStates
  BY <1>0 DEF Station, TXCStates
<1>7. TxcSends(s, u, h, {}) /\ u.txc = "wait_PDUsent"
  BY <1>0, <1>1, <1>2, <1>5, <1>6, SendHeldEffect DEF HandleTXCSIFStimeout
<1>8. u \in Sound(n, h)
  BY <1>0, TXCSIFSSound
<1> HIDE DEF u
<1>9. /\ u.rxc = s.rxc /\ u.pCTRL = s.pCTRL /\ u.pDATA = s.pDATA /\ u.pRTS = s.pRTS
      /\ u.short = s.short /\ u.long = s.long /\ u.cw = s.cw /\ u.fault = s.fault
  BY <1>7 DEF TxcSends, Touches, AirFields, Fields
<1>10. \A t \in {"txcCTS", "txcSIFS", "txcACK", "rxcSIFS"} : u.timer[t] = s.timer[t]
  BY <1>7, TimerNames DEF TxcSends, Touches, AirTimers
<1>11. PhyTimed(u, h) /\ ChannelTimed(u, h) /\ Receives(u) /\ u.phy = "TXing"
  BY <1>7 DEF TxcSends, Sends, Receives
<1>12. ResponseTimed(u, h)
  BY <1>1, <1>3, <1>7, <1>9, <1>10, TimerNames DEF Good, Steady, ResponseTimed, Pending
<1>13. TxcOK(u) /\ RxcOK(u)
  BY <1>0, <1>1, <1>2, <1>7, <1>9 DEF Good, Steady, TxcOK, RxcOK, TxcSends, Unicast,
     PendingStates, Fresh
<1>14. Confirms(u) /\ Undisturbed(u)
  BY <1>3, <1>7, <1>9, <1>11 DEF Confirms, Undisturbed, TxcSends, Senders
<1>15. "txcSIFS" \notin Awaited(u) /\ Access(s, u)
  BY <1>1, <1>7 DEF Awaited, Access
<1> QED BY <1>0, <1>8, <1>9, <1>10, <1>11, <1>12, <1>13, <1>14, <1>15 DEF Good, Steady, u, h

\* The state of RXC is set.
LEMMA RxcEffect ==
  ASSUME NEW s \in Station, NEW c \in RXCStates
  PROVE  LET u == [s EXCEPT !.rxc = c]
         IN  Touches(s, u, {"rxc"}, {}) /\ u.rxc = c
<1> DEFINE u == [s EXCEPT !.rxc = c]
<1>1. u \in Station
  BY DEF Station
<1>2. u.rxc = c /\ \A f \in Fields \ {"rxc"} : u[f] = s[f]
  BY DEF Station, Fields
<1>3. \A t \in Timers : u.timer[t] = s.timer[t]
  BY DEF Station
<1> HIDE DEF u
<1> QED BY <1>1, <1>2, <1>3 DEF Touches, u

\* handleSIFStimeout of RXC: the answer goes out whatever the channel does.
LEMMA RXCSIFSGood ==
  ASSUME NEW n, NEW s \in Good(n, {"rxcSIFS"}), "rxcSIFS" \in Awaited(s), NEW in
  PROVE  LET u == HandleRXCSIFStimeout(s, in)
         IN  /\ u \in Good(n, {"rxcSIFS"}) /\ "rxcSIFS" \notin Awaited(u)
             /\ u.timer["rxcSIFS"] = s.timer["rxcSIFS"] /\ Access(s, u)
<1> DEFINE h == {"rxcSIFS"}
           v == Transmit(s, s.pCTRL, "RXC", in)
           u == HandleRXCSIFStimeout(s, in)
<1>0. s \in Sound(n, h) /\ s \in Station /\ TxcOK(s) /\ s.fault # "exit"
  BY DEF Good, Steady, Sound
<1>1. s.rxc = "wait_SIFS"
  BY DEF Awaited
<1>2. s.pCTRL.kind \in {"CTS", "ACK"} /\ s.pCTRL # NoFrame
  BY <1>1 DEF Good, Steady, RxcOK, NoFrame
<1>3. s.phy # "TXing" /\ s.txc \notin Senders \cup {"wait_SIFS"}
  BY <1>1 DEF Good, Steady, Confirms, Senders
<1>4. h \cap PhyTimers = {} /\ "ifs" \notin h
  BY TimerNames
<1>5. MaySend(s, h)
  BY <1>3, <1>4, GoodMaySend
<1>6. s.pCTRL \in Frame
  BY <1>0 DEF Station
<1>7. /\ Touches(s, v, AirFields \cup {"confirm"}, AirTimers)
      /\ Sends(v, h, s.pCTRL) /\ v.confirm = "RXC"
      /\ v.bk = "noBackoff" <=> s.bk = "noBackoff"
  BY <1>0, <1>2, <1>5, <1>6, TransmitEffect
<1>8. u \in Sound(n, h)
  BY <1>0, RXCSIFSSound
<1>9. u = [v EXCEPT !.rxc = "wait_sent"]
  BY <1>2 DEF HandleRXCSIFStimeout
<1> HIDE DEF u, v
<1>10. v \in Station
  BY <1>7 DEF Touches
<1>11. Touches(v, u, {"rxc"}, {}) /\ u.rxc = "wait_sent"
  BY <1>9, <1>10, RxcEffect DEF RXCStates
<1>12. /\ u.txc = s.txc /\ u.pCTRL = s.pCTRL /\ u.pDATA = s.pDATA /\ u.pRTS = s.pRTS
       /\ u.short = s.short /\ u.long = s.long /\ u.cw = s.cw /\ u.fault = s.fault
  BY <1>7, <1>11 DEF Touches, AirFields, Fields
<1>13. \A t \in {"txcCTS", "txcSIFS", "txcACK", "rxcSIFS"} : u.timer[t] = s.timer[t]
  BY <1>7, <1>11, TimerNames DEF Touches, AirTimers
<1>14. /\ u.phy = v.phy /\ u.ch = v.ch /\ u.bk = v.bk /\ u.started = v.started
       /\ u.confirm = v.confirm /\ u.ifsValue = v.ifsValue /\ u.pktRX = v.pktRX /\ u.out = v.out
       /\ \A t \in Timers : u.timer[t] = v.timer[t]
  BY <1>11 DEF Touches, Fields
<1>15. PhyTimed(u, h) /\ ChannelTimed(u, h) /\ Receives(u) /\ u.phy = "TXing"
  BY <1>7, <1>14, TimerNames DEF Sends, Receives, PhyTimed, ChannelTimed, Pending
<1>16. ResponseTimed(u, h)
  BY <1>12, <1>13 DEF Good, Steady, ResponseTimed, Pending
<1>17. TxcOK(u) /\ RxcOK(u)
  BY <1>0, <1>2, <1>7, <1>11, <1>12, <1>14 DEF TxcOK, RxcOK, Fresh
<1>18. Confirms(u) /\ Undisturbed(u)
  BY <1>3, <1>7, <1>11, <1>12, <1>14, <1>15 DEF Confirms, Undisturbed, Senders
<1>19. "rxcSIFS" \notin Awaited(u) /\ Access(s, u)
  BY <1>2, <1>7, <1>11, <1>14 DEF Awaited, Access, Sends
<1> QED BY <1>0, <1>8, <1>12, <1>13, <1>15, <1>16, <1>17, <1>18, <1>19 DEF Good, Steady, u, h
-----------------------------------------------------------------------------
(* The end of a transmission *)

\* What handleTXConfirm leaves, for the PHY to become idle: TXC waits for a
\* response or has proceeded, nothing was sent.
Confirmed(s, u, h) ==
    /\ Touches(s, u, TxcFields, {"bk", "txcACK", "txcCTS"})
    /\ ChannelTimed(u, h) /\ ResponseTimed(u, h) /\ TxcOK(u)
    /\ u.txc \notin Senders \cup {"wait_SIFS"}

\* A response is waited for.
LEMMA AwaitResponse ==
  ASSUME NEW n, NEW h, NEW s \in Steady(n, h), NEW d \in Nat,
         s.txc \in Senders, s.pDATA.dst # Broadcast,
         "txcACK" \notin h, "txcCTS" \notin h,
         NEW t, NEW c, <<t, c>> = IF s.txc = "wait_PDUsent" THEN <<"txcACK", "wait_ACK">>
                                                            ELSE <<"txcCTS", "wait_CTS">>
  PROVE  Confirmed(s, [Sched(s, t, d) EXCEPT !.txc = c], h)
<1> DEFINE v == Sched(s, t, d)
           u == [v EXCEPT !.txc = c]
<1>0. s \in Sound(n, h) /\ s \in Station /\ TxcOK(s)
  BY DEF Steady, Sound
<1>1. t \in Timers \ h /\ c \in TXCStates /\ d \in Int
  BY TimerNames DEF TXCStates
<1>2. ~Pending(s, t)
  BY DEF Steady, ResponseTimed, Senders
<1>3. s.timer[t] = TimerIdle
  BY <1>0, <1>1, <1>2, NotPending
<1>4. Touches(s, v, {}, {t}) /\ v.timer[t] = d
  BY <1>0, <1>1, <1>3, SchedEffect
<1> HIDE DEF v
<1>5. v \in Station
  BY <1>4 DEF Touches
<1>6. Touches(v, u, {"txc"}, {}) /\ u.txc = c
  BY <1>1, <1>5, TxcEffect
<1> HIDE DEF u
<1>7. Touches(s, u, TxcFields, {"bk", "txcACK", "txcCTS"})
  BY <1>4, <1>6 DEF Touches, TxcFields, TxcOwn
<1>8. /\ \A k \in Timers \ {t} : u.timer[k] = s.timer[k] /\ (Pending(u, k) <=> Pending(s, k))
      /\ Pending(u, t)
  <2>1. \A k \in Timers : u.timer[k] = v.timer[k]
    BY <1>6 DEF Touches
  <2>2. \A k \in Timers \ {t} : v.timer[k] = s.timer[k]
    BY <1>4 DEF Touches
  <2> QED BY <1>1, <1>4, <2>1, <2>2 DEF Pending
<1>9. /\ u.ch = s.ch /\ u.bk = s.bk /\ u.started = s.started /\ u.ifsValue = s.ifsValue
      /\ u.rxc = s.rxc /\ u.pDATA = s.pDATA /\ u.pRTS = s.pRTS
      /\ u.short = s.short /\ u.long = s.long /\ u.cw = s.cw
  BY <1>4, <1>6 DEF Touches, Fields
<1>10. ChannelTimed(u, h)
  BY <1>8, <1>9, TimerNames DEF Steady, ChannelTimed
<1>11. ResponseTimed(u, h)
  BY <1>6, <1>8, <1>9, TimerNames DEF Steady, ResponseTimed, Senders
<1>12. TxcOK(u)
  BY <1>0, <1>6, <1>9 DEF TxcOK, Fresh, Senders, PendingStates, Unicast
<1> QED BY <1>6, <1>7, <1>10, <1>11, <1>12 DEF Confirmed, Senders, u, v

\* A broadcast that is sent is done with.
LEMMA SentEffect ==
  ASSUME NEW s \in Station
  PROVE  LET u == [Free(s, "pDATA") EXCEPT !.pDATA = NoFrame, !.done = "sent"]
         IN  Touches(s, u, {"pDATA", "done", "calls"}, {}) /\ u.pDATA = NoFrame
<1> DEFINE f == Free(s, "pDATA")
           u == [f EXCEPT !.pDATA = NoFrame, !.done = "sent"]
<1>1. Touches(s, f, {"calls"}, {}) /\ f \in Station
  BY FreeEffect, SlotsType DEF Touches
<1> HIDE DEF f
<1>2. u \in Station
  BY <1>1, NoFrameType DEF Station
<1>3. u.pDATA = NoFrame /\ \A k \in Fields \ {"pDATA", "done"} : u[k] = f[k]
  BY <1>1 DEF Station, Fields
<1>4. \A t \in Timers : u.timer[t] = f.timer[t]
  BY <1>1 DEF Station
<1> HIDE DEF u
<1> QED BY <1>1, <1>2, <1>3, <1>4 DEF Touches, u, f

\* A broadcast is over: a post backoff, and the next packet.
LEMMA BroadcastSent ==
  ASSUME NEW n \in Nodes, NEW h, NEW s \in Steady(n, h), NEW in \in AnyInput,
         s.txc = "wait_PDUsent", s.pDATA.dst = Broadcast, s.ch # "noCSnoNAV", "bk" \notin h
  PROVE  Confirmed(s, CheckQueue(HandleBKStart([Free(s, "pDATA") EXCEPT
                         !.pDATA = NoFrame, !.done = "sent"], in), in), h)
<1> DEFINE e == [Free(s, "pDATA") EXCEPT !.pDATA = NoFrame, !.done = "sent"]
           b == HandleBKStart(e, in)
           u == CheckQueue(b, in)
<1>0. s \in Sound(n, h) /\ s \in Station /\ TxcOK(s) /\ ChannelTimed(s, h)
  BY DEF Steady, Sound
<1>1. Fresh(s) /\ s.pRTS = NoFrame
  BY <1>0 DEF TxcOK
<1>2. Touches(s, e, {"pDATA", "done", "calls"}, {}) /\ e.pDATA = NoFrame
  BY <1>0, SentEffect
<1> HIDE DEF e
<1>3. e \in Sound(n, h)
  BY <1>0, <1>2, SoundKept
<1>4. Touches(s, e, TxcOwn, {}) /\ e.ch = s.ch /\ e.pRTS = NoFrame
  BY <1>1, <1>2 DEF Touches, TxcOwn, Fields
<1>5. Fresh(e)
  BY <1>1, <1>2 DEF Touches, Fresh, Fields
<1>6. ChannelTimed(e, h)
  BY <1>0, <1>4, ChannelKept
<1>7. Contends(e, b, h)
  BY <1>3, <1>4, <1>6, PostBackoffEffect
<1>8. b \in Sound(n, h)
  BY <1>3, BKStartSound
<1> HIDE DEF b
<1>9. /\ b.pDATA = NoFrame /\ b.pRTS = NoFrame /\ b.ch # "noCSnoNAV"
      /\ b.short = e.short /\ b.long = e.long /\ b.cw = e.cw
  BY <1>2, <1>4, <1>7 DEF Contends, Touches, Fields
<1>10. Fresh(b) /\ ChannelTimed(b, h)
  BY <1>5, <1>7, <1>9 DEF Contends, Fresh
<1>11. Proceeds(b, u, h)
  BY <1>8, <1>9, <1>10, CheckQueueEffect
<1> HIDE DEF u
<1>12. Waits(b, u, h) /\ TxcOK(u)
  BY <1>9, <1>11 DEF Proceeds, Goes
<1>13. Touches(s, u, TxcFields, {"bk"}) /\ u.rxc = s.rxc
  BY <1>4, <1>7, <1>12 DEF Contends, Waits, Touches, TxcFields, TxcOwn, Fields
<1>14. \A k \in {"txcCTS", "txcACK", "txcSIFS", "rxcSIFS"} :
         u.timer[k] = s.timer[k] /\ (Pending(u, k) <=> Pending(s, k))
  BY <1>13, TimerNames DEF Touches, Pending
<1>15. ResponseTimed(u, h)
  BY <1>12, <1>13, <1>14 DEF Steady, ResponseTimed, Waits, PendingStates
<1>16. u.txc \notin Senders \cup {"wait_SIFS"} /\ ChannelTimed(u, h)
  BY <1>12 DEF Waits, Senders, PendingStates
<1>17. Touches(s, u, TxcFields, {"bk", "txcACK", "txcCTS"})
  BY <1>13 DEF Touches
<1> QED BY <1>12, <1>15, <1>16, <1>17 DEF Confirmed, e, b, u

\* handleTXConfirm of TXC, called while the channel is still busy.
LEMMA TXConfirmEffect ==
  ASSUME NEW n \in Nodes, NEW h, NEW s \in Steady(n, h), NEW in \in AnyInput,
         s.txc \in Senders, s.ch # "noCSnoNAV", h \cap MacTimers = {}
  PROVE  Confirmed(s, HandleTXConfirm(s, in), h)
<1>0. TxcOK(s) /\ ACKTimeout \in Nat /\ CTSTimeout \in Nat
  BY TimeoutType DEF Steady
<1>1. s.pDATA # NoFrame /\ (s.txc = "wait_RTSsent" => s.pDATA.dst # Broadcast)
  BY <1>0 DEF TxcOK, Senders, Unicast
<1>2. "txcACK" \notin h /\ "txcCTS" \notin h /\ "bk" \notin h
  BY DEF MacTimers
<1>3. CASE s.txc = "wait_PDUsent" /\ s.pDATA.dst # Broadcast
  <2>1. HandleTXConfirm(s, in) = [Sched(s, "txcACK", ACKTimeout) EXCEPT !.txc = "wait_ACK"]
    BY <1>1, <1>3 DEF HandleTXConfirm
  <2> QED BY <1>0, <1>2, <1>3, <2>1, AwaitResponse
<1>4. CASE s.txc = "wait_PDUsent" /\ s.pDATA.dst = Broadcast
  <2>1. HandleTXConfirm(s, in)
          = CheckQueue(HandleBKStart([Free(s, "pDATA") EXCEPT
                         !.pDATA = NoFrame, !.done = "sent"], in), in)
    BY <1>1, <1>4 DEF HandleTXConfirm
  <2> QED BY <1>2, <1>4, <2>1, BroadcastSent
<1>5. CASE s.txc = "wait_RTSsent"
  <2>1. HandleTXConfirm(s, in) = [Sched(s, "txcCTS", CTSTimeout) EXCEPT !.txc = "wait_CTS"]
    BY <1>1, <1>5 DEF HandleTXConfirm
  <2> QED BY <1>0, <1>1, <1>2, <1>5, <2>1, AwaitResponse
<1> QED BY <1>3, <1>4, <1>5 DEF Senders

\* handleTXConfirm of RXC: the answer is freed.
LEMMA RXCTXConfirmEffect ==
  ASSUME NEW s \in Station, s.pCTRL # NoFrame
  PROVE  LET u == HandleRXCTXConfirm(s)
         IN  Touches(s, u, {"pCTRL", "rxc", "calls"}, {}) /\ u.pCTRL = NoFrame /\ u.rxc = "Idle"
<1> DEFINE f == Free(s, "pCTRL")
           u == [f EXCEPT !.pCTRL = NoFrame, !.rxc = "Idle"]
<1>1. Touches(s, f, {"calls"}, {}) /\ f \in Station
  BY FreeEffect, SlotsType DEF Touches
<1>2. u = HandleRXCTXConfirm(s)
  BY DEF HandleRXCTXConfirm
<1> HIDE DEF f
<1>3. u \in Station
  BY <1>1, NoFrameType DEF Station, RXCStates
<1>4. /\ u.pCTRL = NoFrame /\ u.rxc = "Idle"
      /\ \A k \in Fields \ {"pCTRL", "rxc"} : u[k] = f[k]
  BY <1>1 DEF Station, Fields
<1>5. \A t \in Timers : u.timer[t] = f.timer[t]
  BY <1>1 DEF Station
<1> HIDE DEF u
<1> QED BY <1>1, <1>2, <1>3, <1>4, <1>5 DEF Touches

\* When the MAC's part of the end of a transmission is done, TXC does not
\* send and RXC is idle.
TransmissionOver(s, v, h) ==
    /\ \A f \in {"fault", "phy", "pktRX", "out"} : v[f] = s[f]
    /\ \A t \in PhyTimers : v.timer[t] = s.timer[t]
    /\ v \in Sound(s.id, h)
    /\ ChannelTimed(v, h) /\ ResponseTimed(v, h) /\ TxcOK(v) /\ RxcOK(v)
    /\ v.txc \notin Senders \cup {"wait_SIFS"} /\ v.rxc = "Idle"

\* Mac802_11::handleTXEndIndication, whoever is to confirm.
LEMMA TXEndEffect ==
  ASSUME NEW n \in Nodes, NEW s \in Good(n, {"tX"}), NEW in \in AnyInput, s.phy = "TXing"
  PROVE  TransmissionOver(s, IF s.confirm = "TXC" THEN HandleTXConfirm(s, in)
                                                  ELSE HandleRXCTXConfirm(s), {"tX"})
<1> DEFINE h == {"tX"}
           v == IF s.confirm = "TXC" THEN HandleTXConfirm(s, in) ELSE HandleRXCTXConfirm(s)
<1>0. s \in Steady(n, h) /\ s \in Sound(n, h) /\ s \in Station /\ s.id = n
  BY DEF Good, Steady, Sound
<1>1. s.ch # "noCSnoNAV" /\ h \cap MacTimers = {} /\ PhyTimers \subseteq Timers
  BY <1>0, IdleSearches DEF MacTimers, Timers
<1>2. CASE s.confirm = "TXC"
  <2>1. s.txc \in Senders /\ s.rxc = "Idle"
    BY <1>2 DEF Good, Steady, Confirms
  <2>2. Confirmed(s, v, h)
    BY <1>0, <1>1, <1>2, <2>1, TXConfirmEffect
  <2>3. v \in Sound(n, h)
    BY <1>0, <1>2, TXConfirmSound
  <2> HIDE DEF v
  <2>4. /\ \A f \in {"fault", "phy", "pktRX", "out"} : v[f] = s[f]
        /\ v.rxc = s.rxc /\ v.pCTRL = s.pCTRL
    BY <2>2 DEF Confirmed, Touches, TxcFields, TxcOwn, Fields
  <2>5. \A t \in PhyTimers : v.timer[t] = s.timer[t]
    BY <1>1, <2>2, TimerNames DEF Confirmed, Touches
  <2>6. RxcOK(v)
    BY <1>0, <2>4 DEF Steady, RxcOK
  <2> QED BY <1>0, <2>1, <2>2, <2>3, <2>4, <2>5, <2>6 DEF TransmissionOver, Confirmed, h, v
<1>3. CASE s.confirm # "TXC"
  <2>1. s.rxc = "wait_sent" /\ s.txc \notin Senders \cup {"wait_SIFS"}
    BY <1>3 DEF Good, Steady, Confirms
  <2>2. s.pCTRL # NoFrame
    BY <1>0, <2>1 DEF Steady, RxcOK, NoFrame
  <2>3. Touches(s, v, {"pCTRL", "rxc", "calls"}, {}) /\ v.pCTRL = NoFrame /\ v.rxc = "Idle"
    BY <1>0, <1>3, <2>2, RXCTXConfirmEffect
  <2>4. v \in Sound(n, h)
    BY <1>0, <1>3, RXCTXConfirmSound
  <2> HIDE DEF v
  <2>5. /\ \A f \in {"fault", "phy", "pktRX", "out"} : v[f] = s[f]
        /\ \A t \in Timers : v.timer[t] = s.timer[t]
    BY <2>3 DEF Touches, Fields
  <2>6. /\ v.ch = s.ch /\ v.bk = s.bk /\ v.started = s.started /\ v.ifsValue = s.ifsValue
        /\ v.txc = s.txc /\ v.pDATA = s.pDATA /\ v.pRTS = s.pRTS
        /\ v.short = s.short /\ v.long = s.long /\ v.cw = s.cw
    BY <2>3 DEF Touches, Fields
  <2>7. ChannelTimed(v, h) /\ TxcOK(v)
    BY <1>0, <2>5, <2>6, TimerNames DEF Steady, ChannelTimed, TxcOK, Fresh, Pending
  <2>8. ResponseTimed(v, h) /\ RxcOK(v)
    BY <1>0, <2>1, <2>3, <2>5, <2>6, TimerNames DEF Steady, ResponseTimed, RxcOK, Pending
  <2> QED BY <1>0, <1>1, <2>1, <2>3, <2>4, <2>5, <2>6, <2>7, <2>8 DEF TransmissionOver, h, v
<1> QED BY <1>2, <1>3

\* handle_TXtimeout.
LEMMA TXtimeoutGood ==
  ASSUME NEW n \in Nodes, NEW s \in Good(n, {"tX"}), "tX" \in Awaited(s), NEW in \in AnyInput
  PROVE  LET u == HandleTXtimeout(s, in)
         IN  /\ u \in Good(n, {"tX"}) /\ "tX" \notin Awaited(u)
             /\ u.timer["tX"] = s.timer["tX"] /\ Access(s, u)
<1> DEFINE h == {"tX"}
           v == IF s.confirm = "TXC" THEN HandleTXConfirm(s, in) ELSE HandleRXCTXConfirm(s)
           u == HandleTXtimeout(s, in)
<1>0. s \in Sound(n, h) /\ s.id = n /\ s.fault # "exit" /\ Receives(s) /\ PhyTimed(s, h)
  BY DEF Good, Steady, Sound
<1>1. s.phy = "TXing"
  BY DEF Awaited
<1>2. TransmissionOver(s, v, h)
  BY <1>1, TXEndEffect
<1>3. u = SetState(v, "SEARCHING", in)
  BY <1>1 DEF HandleTXtimeout
<1> HIDE DEF u, v
<1>4. /\ v.phy = "TXing" /\ v.fault = s.fault /\ v.pktRX = s.pktRX /\ v.out = s.out
      /\ v \in Sound(n, h)
  BY <1>0, <1>1, <1>2 DEF TransmissionOver
<1>5. /\ Touches(v, u, {"phy", "ch"}, {"ifs"})
      /\ u \in Sound(n, h) /\ u.phy = "SEARCHING" /\ ChannelTimed(u, h)
  BY <1>2, <1>3, <1>4, IdleEffect DEF TransmissionOver
<1>6. /\ u.fault = s.fault /\ u.pktRX = s.pktRX /\ u.out = s.out /\ u.txc = v.txc
      /\ u.rxc = v.rxc /\ u.pCTRL = v.pCTRL /\ u.pDATA = v.pDATA /\ u.pRTS = v.pRTS
      /\ u.short = v.short /\ u.long = v.long /\ u.cw = v.cw /\ u.bk = v.bk
  BY <1>4, <1>5 DEF Touches, Fields
<1>7. \A t \in Timers \ {"ifs"} : u.timer[t] = v.timer[t] /\ (Pending(u, t) <=> Pending(v, t))
  BY <1>5 DEF Touches, Pending
<1>8. \A t \in PhyTimers : u.timer[t] = s.timer[t] /\ (Pending(u, t) <=> Pending(s, t))
  BY <1>2, <1>7, TimerNames DEF TransmissionOver, Pending
<1>9. PhyTimed(u, h)
  BY <1>0, <1>1, <1>5, <1>8, TimerNames DEF PhyTimed
<1>10. ResponseTimed(u, h)
  BY <1>2, <1>6, <1>7, TimerNames DEF TransmissionOver, ResponseTimed
<1>11. TxcOK(u) /\ RxcOK(u)
  BY <1>2, <1>6 DEF TransmissionOver, TxcOK, RxcOK, Fresh
<1>12. Confirms(u) /\ Undisturbed(u)
  BY <1>2, <1>5, <1>6 DEF TransmissionOver, Confirms, Undisturbed
<1>13. Receives(u)
  BY <1>0, <1>1, <1>5, <1>6 DEF Receives
<1>14. "tX" \notin Awaited(u) /\ Access(s, u) /\ u.timer["tX"] = s.timer["tX"]
  BY <1>5, <1>6, <1>8, TimerNames DEF Awaited, Access
<1> QED BY <1>0, <1>5, <1>6, <1>9, <1>10, <1>11, <1>12, <1>13, <1>14 DEF Good, Steady, h, u
-----------------------------------------------------------------------------
(* The end of a reception *)

\* The PHY just became idle at the end of a reception; the two coordinations
\* neither transmit nor are about to.
Listening(n) ==
    { s \in Steady(n, {"rX"}) :
        /\ s.phy = "SEARCHING" /\ s.ch \in {"WIFS", "noCSNAV"}
        /\ s.rxc = "Idle" /\ s.txc \notin Senders \cup {"wait_SIFS"} }

\* What is done about the frame starts no transmission.
Processed(n, s, u) ==
    /\ u \in Steady(n, {"rX"}) /\ u.phy = "SEARCHING"
    /\ u.out = s.out /\ u.timer["rX"] = s.timer["rX"]

\* A state is listening as long as only such fields change.
LEMMA ListeningKept ==
  ASSUME NEW n, NEW s \in Listening(n), NEW u, NEW F, Touches(s, u, F, {}),
         F \subseteq Aside, u.fault # "exit"
  PROVE  u \in Listening(n)
<1>1. u \in Steady(n, {"rX"})
  BY SteadyKept DEF Listening
<1>2. u.phy = s.phy /\ u.ch = s.ch /\ u.rxc = s.rxc /\ u.txc = s.txc
  BY DEF Touches, Aside, Fields
<1> QED BY <1>1, <1>2 DEF Listening

\* A call of the packet pool is such a change.
LEMMA ListeningFree ==
  ASSUME NEW n, NEW s \in Listening(n), NEW slot \in Slots
  PROVE  /\ Free(s, slot) \in Listening(n)
         /\ Free(s, slot).out = s.out /\ \A t \in Timers : Free(s, slot).timer[t] = s.timer[t]
         /\ Free(s, slot).id = s.id /\ Free(s, slot).ch = s.ch
<1>1. s \in Station /\ s.fault # "exit"
  BY DEF Listening, Steady, Sound
<1>2. Touches(s, Free(s, slot), {"calls"}, {})
  BY <1>1, FreeEffect
<1>3. /\ Free(s, slot).fault = s.fault /\ Free(s, slot).out = s.out
      /\ Free(s, slot).id = s.id /\ Free(s, slot).ch = s.ch
      /\ \A t \in Timers : Free(s, slot).timer[t] = s.timer[t]
  BY <1>2 DEF Touches, Fields
<1> QED BY <1>1, <1>2, <1>3, ListeningKept DEF Aside

\* setIFS.
LEMMA ListeningIFS ==
  ASSUME NEW n, NEW s \in Listening(n), NEW d \in Nat, d >= DIFS
  PROVE  LET u == SetIFS(s, d)
         IN  /\ u \in Listening(n) /\ u.out = s.out /\ u.id = s.id
             /\ u.ch = "WIFS" => u.timer["ifs"] = d
             /\ \A t \in Timers \ {"ifs"} : u.timer[t] = s.timer[t]
<1> DEFINE u == SetIFS(s, d)
           h == {"rX"}
<1>0. s \in Steady(n, h) /\ s \in Sound(n, h) /\ ChannelTimed(s, h) /\ "ifs" \notin h
  BY DEF Listening, Steady
<1>1. /\ Touches(s, u, {"ifsValue"}, {"ifs"}) /\ ChannelTimed(u, h)
      /\ u.ch = "WIFS" => u.timer["ifs"] = d
  BY <1>0, SetIFSEffect
<1>2. u \in Sound(n, h)
  BY <1>0, SetIFSSound
<1> HIDE DEF u
<1>3. /\ u.phy = s.phy /\ u.ch = s.ch /\ u.bk = s.bk /\ u.txc = s.txc /\ u.rxc = s.rxc
      /\ u.confirm = s.confirm /\ u.fault = s.fault /\ u.out = s.out /\ u.id = s.id
      /\ u.pRTS = s.pRTS /\ u.pDATA = s.pDATA /\ u.pCTRL = s.pCTRL
      /\ u.short = s.short /\ u.long = s.long /\ u.cw = s.cw
  BY <1>1 DEF Touches, Fields
<1>4. \A t \in Timers \ {"ifs"} : u.timer[t] = s.timer[t] /\ (Pending(u, t) <=> Pending(s, t))
  BY <1>1 DEF Touches, Pending
<1>5. PhyTimed(u, h) /\ ResponseTimed(u, h)
  BY <1>0, <1>3, <1>4, TimerNames DEF Steady, PhyTimed, ResponseTimed
<1>6. TxcOK(u) /\ RxcOK(u) /\ Confirms(u) /\ Undisturbed(u)
  BY <1>0, <1>3 DEF Listening, Steady, TxcOK, RxcOK, Confirms, Undisturbed, Fresh
<1> QED BY <1>0, <1>1, <1>2, <1>3, <1>4, <1>5, <1>6 DEF Listening, Steady, u, h

\* A frame for another station sets the NAV.
LEMMA ProcessNAV ==
  ASSUME NEW n, NEW s \in Listening(n), NEW d \in Nat, NEW in
  PROVE  LET u == Free(HandleSetNAV(s, d, in), "pktRX") IN Processed(n, s, u)
<1> DEFINE v == HandleSetNAV(s, d, in)
           h == {"rX"}
<1>0. s \in Steady(n, h) /\ s \in Sound(n, h) /\ ChannelTimed(s, h)
  BY DEF Listening, Steady
<1>1. Touches(s, v, {"ch"}, {"ifs", "nav"}) /\ v.ch = "noCSNAV" /\ ChannelTimed(v, h)
  BY <1>0, NAVEffect DEF Listening
<1>2. v \in Sound(n, h)
  BY <1>0, SetNAVSound
<1> HIDE DEF v
<1>3. /\ v.phy = s.phy /\ v.bk = s.bk /\ v.txc = s.txc /\ v.rxc = s.rxc
      /\ v.confirm = s.confirm /\ v.fault = s.fault /\ v.out = s.out
      /\ v.pRTS = s.pRTS /\ v.pDATA = s.pDATA /\ v.pCTRL = s.pCTRL
      /\ v.short = s.short /\ v.long = s.long /\ v.cw = s.cw
  BY <1>1 DEF Touches, Fields
<1>4. \A t \in Timers \ {"ifs", "nav"} :
        v.timer[t] = s.timer[t] /\ (Pending(v, t) <=> Pending(s, t))
  BY <1>1 DEF Touches, Pending
<1>5. PhyTimed(v, h) /\ ResponseTimed(v, h)
  BY <1>0, <1>3, <1>4, TimerNames DEF Steady, PhyTimed, ResponseTimed
<1>6. TxcOK(v) /\ RxcOK(v) /\ Confirms(v) /\ Undisturbed(v)
  BY <1>0, <1>3 DEF Listening, Steady, TxcOK, RxcOK, Confirms, Undisturbed, Fresh
<1>7. v \in Listening(n)
  BY <1>0, <1>1, <1>2, <1>3, <1>5, <1>6 DEF Listening, Steady
<1>8. v.timer["rX"] = s.timer["rX"]
  BY <1>4, TimerNames
<1> DEFINE u == Free(v, "pktRX")
<1>9. u \in Listening(n) /\ u.out = v.out /\ u.timer["rX"] = v.timer["rX"]
  BY <1>7, ListeningFree, SlotsType, TimerNames
<1> HIDE DEF u
<1>10. Processed(n, s, u)
  BY <1>3, <1>8, <1>9 DEF Processed, Listening
<1> QED BY <1>10 DEF u, v

\* At the end of handleMsgFromBelow a listening RXC is idle, as it was.
LEMMA RxcStaysIdle ==
  ASSUME NEW n, NEW s, NEW v, Processed(n, s, v), v.rxc = "Idle"
  PROVE  LET u == [Free(v, "pktRX") EXCEPT !.rxc = "Idle"] IN Processed(n, s, u)
<1> DEFINE f == Free(v, "pktRX")
           u == [f EXCEPT !.rxc = "Idle"]
<1>0. v \in Steady(n, {"rX"}) /\ v \in Station /\ v.fault # "exit"
  BY DEF Processed, Steady, Sound
<1>1. Touches(v, f, {"calls"}, {})
  BY <1>0, FreeEffect, SlotsType
<1> HIDE DEF f
<1>2. f \in Station /\ f.rxc = "Idle" /\ f.out = v.out /\ f.phy = v.phy /\ f.fault = v.fault
      /\ \A t \in Timers : f.timer[t] = v.timer[t]
  BY <1>1 DEF Touches, Fields
<1>3. u = f
  BY <1>2 DEF Station
<1>4. f \in Steady(n, {"rX"})
  BY <1>0, <1>1, <1>2, SteadyKept DEF Aside
<1> QED BY <1>2, <1>3, <1>4, TimerNames DEF Processed, f

\* A logic error is printed and survived.
LEMMA LogicErrorEffect ==
  ASSUME NEW s \in Station, s.fault # "exit"
  PROVE  Touches(s, LogicError(s), {"fault"}, {}) /\ LogicError(s).fault = "logic"
<1> DEFINE u == LogicError(s)
<1>1. u \in Station
  BY DEF LogicError, Station
<1>2. u.fault = "logic" /\ \A f \in Fields \ {"fault"} : u[f] = s[f]
  BY DEF LogicError, Station, Fields
<1>3. \A t \in Timers : u.timer[t] = s.timer[t]
  BY DEF LogicError, Station
<1> HIDE DEF u
<1> QED BY <1>1, <1>2, <1>3 DEF Touches, u

\* An unexpected response is a logic error, which changes nothing else.
LEMMA ProcessError ==
  ASSUME NEW n, NEW s \in Listening(n)
  PROVE  Processed(n, s, LogicError(s)) /\ LogicError(s).rxc = "Idle"
<1>1. s \in Station /\ s.fault # "exit" /\ s.rxc = "Idle"
  BY DEF Listening, Steady, Sound
<1>2. Touches(s, LogicError(s), {"fault"}, {}) /\ LogicError(s).fault = "logic"
  BY <1>1, LogicErrorEffect
<1>3. LogicError(s) \in Listening(n)
  BY <1>2, ListeningKept DEF Aside
<1>4. LogicError(s).out = s.out /\ \A t \in Timers : LogicError(s).timer[t] = s.timer[t]
  BY <1>2 DEF Touches, Fields
<1> QED BY <1>3, <1>4, TimerNames DEF Processed, Listening

\* An ACK ends the service of the packet; on the channel that just became
\* idle the next one waits.
LEMMA ProcessACK ==
  ASSUME NEW n \in Nodes, NEW s \in Listening(n), NEW in \in AnyInput
  PROVE  LET v == HandleACKIndication(s, in) IN Processed(n, s, v) /\ v.rxc = "Idle"
<1> DEFINE h == {"rX"}
           c == Cancel(s, "txcACK")
           v == FinishPacket(c, "acked", in)
<1>0. /\ s \in Steady(n, h) /\ s \in Sound(n, h) /\ s \in Station /\ TxcOK(s)
      /\ "txcACK" \notin h /\ "bk" \notin h
  BY DEF Listening, Steady, Sound
<1>1. CASE s.txc = "wait_ACK"
  <2>1. Pending(s, "txcACK")
    BY <1>0, <1>1 DEF Steady, ResponseTimed
  <2>2. Touches(s, c, {}, {"txcACK"}) /\ c.timer["txcACK"] = TimerIdle
    BY <1>0, <2>1, TimerNames, CancelEffect
  <2>3. c \in Sound(n, h)
    BY <1>0, TimerNames, CancelSound
  <2>4. HandleACKIndication(s, in) = v
    BY <1>1 DEF HandleACKIndication
  <2> HIDE DEF c, v
  <2>5. \A f \in Fields : c[f] = s[f]
    BY <2>2 DEF Touches
  <2>6. /\ c.phy = s.phy /\ c.ch = s.ch /\ c.bk = s.bk /\ c.txc = s.txc /\ c.rxc = s.rxc
        /\ c.confirm = s.confirm /\ c.fault = s.fault /\ c.started = s.started
        /\ c.ifsValue = s.ifsValue /\ c.pRTS = s.pRTS /\ c.pDATA = s.pDATA
        /\ c.pCTRL = s.pCTRL /\ c.out = s.out
    BY <2>5 DEF Fields
  <2>7. \A t \in Timers \ {"txcACK"} :
          c.timer[t] = s.timer[t] /\ (Pending(c, t) <=> Pending(s, t))
    BY <2>2 DEF Touches, Pending
  <2>8. ChannelTimed(c, h) /\ PhyTimed(c, h)
    BY <1>0, <2>6, <2>7, TimerNames DEF Steady, ChannelTimed, PhyTimed
  <2>9. c \in Ready(n, h)
    <3>1. \A t \in TxcTimers \ h : ~Pending(c, t)
      BY <1>0, <1>1, <2>2, <2>7, TimerNames DEF Steady, ResponseTimed, TxcTimers, Pending,
         TimerIdle
    <3>2. /\ "rxcSIFS" \notin h => (Pending(c, "rxcSIFS") <=> c.rxc = "wait_SIFS")
          /\ c.timer["txcSIFS"] <= SIFS /\ c.timer["rxcSIFS"] <= SIFS
      BY <1>0, <2>6, <2>7, TimerNames DEF Steady, ResponseTimed
    <3>3. RxcOK(c) /\ c.fault # "exit" /\ c.phy = "SEARCHING" /\ c.rxc = "Idle"
      BY <1>0, <2>6 DEF Listening, Steady, RxcOK
    <3> QED BY <2>3, <2>8, <3>1, <3>2, <3>3 DEF Ready
  <2>10. c.pDATA # NoFrame /\ c.pRTS = NoFrame /\ c.ch # "noCSnoNAV"
    BY <1>0, <1>1, <2>6 DEF TxcOK, Listening
  <2>11. Proceeds(c, v, h)
    BY <1>0, <1>1, <2>3, <2>6, <2>8, <2>10, FinishEffect DEF v
  <2>12. v \in Sound(n, h)
    BY <2>3, FinishSound DEF v
  <2>13. v \in Steady(n, h)
    BY <2>9, <2>11, <2>12, ProceedsSteady
  <2>14. /\ v.phy = c.phy /\ v.out = c.out /\ v.rxc = c.rxc
         /\ v.timer["rX"] = c.timer["rX"]
    BY <2>10, <2>11, TimerNames DEF Proceeds, Waits, Goes, Touches, TxcFields, TxcOwn, Fields
  <2> QED BY <2>4, <2>6, <2>7, <2>13, <2>14, TimerNames DEF Processed, Listening
<1>2. CASE s.txc # "wait_ACK"
  BY <1>2, ProcessError DEF HandleACKIndication
<1> QED BY <1>1, <1>2

\* The fields TXC sets when its CTS arrives.
LEMMA ClearedEffect ==
  ASSUME NEW s \in Station
  PROVE  LET u == [s EXCEPT !.pRTS = NoFrame, !.short = 0, !.txc = "wait_SIFS"]
         IN  /\ Touches(s, u, {"pRTS", "short", "txc"}, {})
             /\ u.pRTS = NoFrame /\ u.short = 0 /\ u.txc = "wait_SIFS"
<1> DEFINE u == [s EXCEPT !.pRTS = NoFrame, !.short = 0, !.txc = "wait_SIFS"]
<1>1. u \in Station
  BY NoFrameType DEF Station, TXCStates
<1>2. /\ u.pRTS = NoFrame /\ u.short = 0 /\ u.txc = "wait_SIFS"
      /\ \A f \in Fields \ {"pRTS", "short", "txc"} : u[f] = s[f]
  BY DEF Station, Fields
<1>3. \A t \in Timers : u.timer[t] = s.timer[t]
  BY DEF Station
<1> HIDE DEF u
<1> QED BY <1>1, <1>2, <1>3 DEF Touches, u

\* After a CTS the data frame is a SIFS away.
LEMMA ProcessCTS ==
  ASSUME NEW n, NEW s \in Listening(n)
  PROVE  LET v == HandleCTSIndication(s) IN Processed(n, s, v) /\ v.rxc = "Idle"
<1> DEFINE h == {"rX"}
           f == Free(s, "pRTS")
           c == Cancel(f, "txcCTS")
           e == [c EXCEPT !.pRTS = NoFrame, !.short = 0, !.txc = "wait_SIFS"]
           v == Sched(e, "txcSIFS", SIFS)
<1>0. /\ s \in Steady(n, h) /\ s \in Sound(n, h) /\ s \in Station /\ TxcOK(s)
      /\ "txcCTS" \notin h /\ "txcSIFS" \notin h
  BY DEF Listening, Steady, Sound
<1>1. CASE s.txc = "wait_CTS"
  <2>1. Pending(s, "txcCTS") /\ ~Pending(s, "txcSIFS")
    BY <1>0, <1>1 DEF Steady, ResponseTimed
  <2>2. Touches(s, f, {"calls"}, {}) /\ f \in Station
    BY <1>0, FreeEffect, SlotsType DEF Touches
  <2>3. Pending(f, "txcCTS")
    BY <2>1, <2>2, TimerNames DEF Touches, Pending
  <2> HIDE DEF f
  <2>4. Touches(f, c, {}, {"txcCTS"}) /\ c.timer["txcCTS"] = TimerIdle
    BY <2>2, <2>3, TimerNames, CancelEffect
  <2>5. c \in Station
    BY <2>4 DEF Touches
  <2> HIDE DEF c
  <2>6. /\ Touches(c, e, {"pRTS", "short", "txc"}, {})
        /\ e.pRTS = NoFrame /\ e.short = 0 /\ e.txc = "wait_SIFS"
    BY <2>5, ClearedEffect
  <2>7. e \in Station
    BY <2>6 DEF Touches
  <2>8. s.timer["txcSIFS"] = TimerIdle
    BY <1>0, <2>1, TimerNames, NotPending
  <2> HIDE DEF e
  <2>9. e.timer["txcSIFS"] = TimerIdle
    BY <2>2, <2>4, <2>6, <2>8, TimerNames DEF Touches
  <2>10. Touches(e, v, {}, {"txcSIFS"}) /\ v.timer["txcSIFS"] = SIFS
    BY <2>7, <2>9, TimerNames, TimingAssumption, SchedEffect
  <2>11. v = HandleCTSIndication(s)
    BY <1>1 DEF HandleCTSIndication, v, e, c, f
  <2>12. v \in Sound(n, h)
    BY <1>0, <2>11, CTSIndicationSound
  <2> HIDE DEF v
  <2>13. /\ v.phy = s.phy /\ v.ch = s.ch /\ v.bk = s.bk /\ v.rxc = s.rxc
         /\ v.confirm = s.confirm /\ v.fault = s.fault /\ v.started = s.started
         /\ v.ifsValue = s.ifsValue /\ v.pDATA = s.pDATA /\ v.pCTRL = s.pCTRL
         /\ v.long = s.long /\ v.cw = s.cw /\ v.out = s.out
    BY <2>2, <2>4, <2>6, <2>10 DEF Touches, Fields
  <2>14. v.pRTS = NoFrame /\ v.short = 0 /\ v.txc = "wait_SIFS"
    BY <2>6, <2>10 DEF Touches, Fields
  <2>15. /\ \A t \in Timers \ {"txcCTS", "txcSIFS"} :
              v.timer[t] = s.timer[t] /\ (Pending(v, t) <=> Pending(s, t))
         /\ v.timer["txcCTS"] = TimerIdle
    BY <2>2, <2>4, <2>6, <2>10, TimerNames DEF Touches, Pending
  <2>16. ChannelTimed(v, h) /\ PhyTimed(v, h)
    BY <1>0, <2>13, <2>15, TimerNames DEF Steady, ChannelTimed, PhyTimed
  <2>17. ResponseTimed(v, h)
    <3>1. ~Pending(v, "txcCTS") /\ Pending(v, "txcSIFS") /\ v.timer["txcSIFS"] <= SIFS
      BY <2>10, <2>15, TimingAssumption DEF Pending, TimerIdle
    <3> QED BY <1>0, <1>1, <2>13, <2>14, <2>15, <3>1, TimerNames DEF Steady, ResponseTimed
  <2>18. TxcOK(v) /\ RxcOK(v)
    BY <1>0, <1>1, <2>13, <2>14, MibAssumption DEF Steady, TxcOK, RxcOK, Unicast, PendingStates
  <2>19. Confirms(v) /\ Undisturbed(v)
    BY <2>13, <2>14 DEF Listening, Confirms, Undisturbed, Senders
  <2> QED BY <1>0, <2>11, <2>12, <2>13, <2>15, <2>16, <2>17, <2>18, <2>19, TimerNames
          DEF Processed, Listening, Steady
<1>2. CASE s.txc # "wait_CTS"
  BY <1>2, ProcessError DEF HandleCTSIndication
<1> QED BY <1>1, <1>2

\* An answer is prepared for a SIFS from now.
LEMMA AnswerEffect ==
  ASSUME NEW s \in Station, NEW p \in Frame
  PROVE  LET u == [Alloc(s, "pCTRL") EXCEPT !.pCTRL = p]
         IN  Touches(s, u, {"pCTRL", "calls"}, {}) /\ u.pCTRL = p
<1> DEFINE a == Alloc(s, "pCTRL")
           u == [a EXCEPT !.pCTRL = p]
<1>1. Touches(s, a, {"calls"}, {}) /\ a \in Station
  BY FreeEffect, SlotsType DEF Touches
<1> HIDE DEF a
<1>2. u \in Station
  BY <1>1 DEF Station
<1>3. u.pCTRL = p /\ \A k \in Fields \ {"pCTRL"} : u[k] = a[k]
  BY <1>1 DEF Station, Fields
<1>4. \A t \in Timers : u.timer[t] = a.timer[t]
  BY <1>1 DEF Station
<1> HIDE DEF u
<1> QED BY <1>1, <1>2, <1>3, <1>4 DEF Touches, u, a

\* A listening station that will answer is steady: the IFS it waits for, if
\* any, is longer than the SIFS.
LEMMA Answers ==
  ASSUME NEW n, NEW s \in Listening(n), s.ch = "WIFS" => s.timer["ifs"] = DIFS,
         NEW u \in Sound(n, {"rX"}),
         Touches(s, u, {"pCTRL", "rxc", "calls", "up", "cache"}, {"rxcSIFS"}),
         u.timer["rxcSIFS"] = SIFS, u.rxc = "wait_SIFS", u.pCTRL.kind \in {"CTS", "ACK"}
  PROVE  Processed(n, s, u)
<1> DEFINE h == {"rX"}
<1>0. s \in Steady(n, h)
  BY DEF Listening
<1>1. /\ u.phy = s.phy /\ u.ch = s.ch /\ u.bk = s.bk /\ u.txc = s.txc
      /\ u.confirm = s.confirm /\ u.fault = s.fault /\ u.started = s.started
      /\ u.ifsValue = s.ifsValue /\ u.pDATA = s.pDATA /\ u.pRTS = s.pRTS
      /\ u.short = s.short /\ u.long = s.long /\ u.cw = s.cw /\ u.out = s.out
  BY DEF Touches, Fields
<1>2. \A t \in Timers \ {"rxcSIFS"} :
        u.timer[t] = s.timer[t] /\ (Pending(u, t) <=> Pending(s, t))
  BY DEF Touches, Pending
<1>3. ChannelTimed(u, h) /\ PhyTimed(u, h)
  BY <1>0, <1>1, <1>2, TimerNames DEF Steady, ChannelTimed, PhyTimed
<1>4. ResponseTimed(u, h)
  <2>1. Pending(u, "rxcSIFS") /\ u.timer["rxcSIFS"] <= SIFS
    BY TimingAssumption DEF Pending
  <2> QED BY <1>0, <1>1, <1>2, <2>1, TimerNames DEF Steady, ResponseTimed
<1>5. TxcOK(u) /\ RxcOK(u)
  BY <1>0, <1>1 DEF Steady, TxcOK, RxcOK, Fresh
<1>6. Confirms(u)
  BY <1>1 DEF Listening, Confirms, Senders
<1>7. Undisturbed(u)
  <2>1. DIFS > SIFS
    BY TimingAssumption DEF DIFS
  <2> QED BY <1>1, <1>2, <2>1, TimerNames DEF Listening, Undisturbed
<1> QED BY <1>0, <1>1, <1>2, <1>3, <1>4, <1>5, <1>6, <1>7, TimerNames
        DEF Processed, Listening, Steady

\* recvDATA.
LEMMA RecvDATAEffect ==
  ASSUME NEW n, NEW h, NEW s \in Sound(n, h), NEW p \in Frame
  PROVE  Touches(s, RecvDATA(s, p), {"calls", "up", "cache"}, {})
<1> DEFINE f == Free(s, "pktRX")
           u == RecvDATA(s, p)
<1>0. s \in Station
  BY DEF Sound
<1>1. Touches(s, f, {"calls"}, {}) /\ f \in Station
  BY <1>0, FreeEffect, SlotsType DEF Touches
<1>2. u \in Station
  BY RecvDATASound DEF Sound
<1> HIDE DEF f
<1>3. \/ u = f
      \/ u = [f EXCEPT !.up = p,
                       !.cache = IF p.dst = Broadcast THEN @ ELSE [@ EXCEPT ![p.src] = p.seq]]
  BY DEF RecvDATA, f
<1> HIDE DEF u
<1>4. /\ \A k \in Fields \ {"up", "cache"} : u[k] = f[k]
      /\ \A t \in Timers : u.timer[t] = f.timer[t]
  BY <1>1, <1>3 DEF Station, Fields
<1> QED BY <1>1, <1>2, <1>4 DEF Touches, u

\* An RTS is answered unless a NAV is set.
LEMMA ProcessRTS ==
  ASSUME NEW n, NEW s \in Listening(n), NEW p \in Frame,
         s.ch = "WIFS" => s.timer["ifs"] = DIFS
  PROVE  Processed(n, s, ReceiveRTS(s, p))
<1> DEFINE h == {"rX"}
           a == [Alloc(s, "pCTRL") EXCEPT !.pCTRL = CTSFrame(s.id, p)]
           f == Free(a, "pktRX")
           t == Sched(f, "rxcSIFS", SIFS)
           u == [t EXCEPT !.rxc = "wait_SIFS"]
<1>0. s \in Steady(n, h) /\ s \in Sound(n, h) /\ s \in Station /\ "rxcSIFS" \notin h
  BY DEF Listening, Steady, Sound
<1>1. CASE s.ch \in {"CSNAV", "noCSNAV"}
  <2>1. ReceiveRTS(s, p) = [Free(s, "pktRX") EXCEPT !.rxc = "Idle"]
    BY <1>1 DEF ReceiveRTS
  <2>2. Processed(n, s, s) /\ s.rxc = "Idle"
    BY DEF Processed, Listening
  <2> QED BY <2>1, <2>2, RxcStaysIdle
<1>2. CASE s.ch \notin {"CSNAV", "noCSNAV"}
  <2>1. ReceiveRTS(s, p) = u
    BY <1>2 DEF ReceiveRTS
  <2>2. s.id \in Nodes
    BY <1>0 DEF Station
  <2>3. CTSFrame(s.id, p) \in Frame /\ CTSFrame(s.id, p).kind = "CTS"
    BY <2>2, CTSFrameType DEF CTSFrame
  <2>4. t \in Sound(n, h)
    BY <1>0, <2>3, AnswerSound
  <2>5. Touches(s, a, {"pCTRL", "calls"}, {}) /\ a.pCTRL = CTSFrame(s.id, p)
    BY <1>0, <2>3, AnswerEffect
  <2>6. a \in Station
    BY <2>5 DEF Touches
  <2> HIDE DEF a
  <2>7. Touches(a, f, {"calls"}, {}) /\ f \in Station
    BY <2>6, FreeEffect, SlotsType DEF Touches
  <2>8. s.timer["rxcSIFS"] = TimerIdle
    <3>1. ~Pending(s, "rxcSIFS")
      BY <1>0 DEF Listening, Steady, ResponseTimed
    <3> QED BY <1>0, <3>1, TimerNames, NotPending
  <2> HIDE DEF f
  <2>9. f.timer["rxcSIFS"] = TimerIdle
    BY <2>5, <2>7, <2>8, TimerNames DEF Touches
  <2>10. Touches(f, t, {}, {"rxcSIFS"}) /\ t.timer["rxcSIFS"] = SIFS
    BY <2>7, <2>9, TimerNames, TimingAssumption, SchedEffect
  <2>11. t \in Station
    BY <2>10 DEF Touches
  <2> HIDE DEF t
  <2>12. Touches(t, u, {"rxc"}, {}) /\ u.rxc = "wait_SIFS"
    BY <2>11, RxcEffect DEF RXCStates
  <2>13. u \in Sound(n, h)
    BY <2>4, RxcSound DEF RXCStates
  <2> HIDE DEF u
  <2>14. Touches(s, u, {"pCTRL", "rxc", "calls", "up", "cache"}, {"rxcSIFS"})
    BY <2>5, <2>7, <2>10, <2>12 DEF Touches
  <2>15. u.pCTRL = a.pCTRL /\ u.timer["rxcSIFS"] = SIFS
    BY <2>7, <2>10, <2>12, TimerNames DEF Touches, Fields
  <2>16. u.pCTRL.kind = "CTS"
    BY <2>3, <2>5, <2>15
  <2> QED BY <2>1, <2>12, <2>13, <2>14, <2>15, <2>16, Answers
<1> QED BY <1>1, <1>2

\* A data frame for this station is answered; it may be passed on.
LEMMA ProcessDATA ==
  ASSUME NEW n, NEW s \in Listening(n), NEW p \in Frame,
         s.ch = "WIFS" => s.timer["ifs"] = DIFS
  PROVE  Processed(n, s, ReceiveDATA(s, p))
<1> DEFINE h == {"rX"}
           a == [Alloc(s, "pCTRL") EXCEPT !.pCTRL = ACKFrame(s.id, p)]
           t == Sched(a, "rxcSIFS", SIFS)
           r == RecvDATA(t, p)
           u == [r EXCEPT !.rxc = "wait_SIFS"]
<1>0. s \in Steady(n, h) /\ s \in Sound(n, h) /\ s \in Station /\ "rxcSIFS" \notin h
  BY DEF Listening, Steady, Sound
<1>1. CASE p.dst # s.id
  <2> DEFINE v == RecvDATA(s, p)
             w == [v EXCEPT !.rxc = "Idle"]
  <2>1. ReceiveDATA(s, p) = w
    BY <1>1 DEF ReceiveDATA
  <2>2. Touches(s, v, {"calls", "up", "cache"}, {})
    BY <1>0, RecvDATAEffect
  <2> HIDE DEF v
  <2>3. v \in Station /\ v.rxc = s.rxc /\ v.fault = s.fault /\ v.out = s.out
        /\ \A k \in Timers : v.timer[k] = s.timer[k]
    BY <2>2 DEF Touches, Fields
  <2>4. w = v
    BY <2>3 DEF Listening, Station
  <2>5. v \in Listening(n)
    BY <1>0, <2>2, <2>3, ListeningKept DEF Aside, Steady
  <2> QED BY <2>1, <2>3, <2>4, <2>5, TimerNames DEF Processed, Listening
<1>2. CASE p.dst = s.id
  <2>1. ReceiveDATA(s, p) = u
    BY <1>2 DEF ReceiveDATA
  <2>2. s.id \in Nodes
    BY <1>0 DEF Station
  <2>3. ACKFrame(s.id, p) \in Frame /\ ACKFrame(s.id, p).kind = "ACK"
    BY <2>2, ACKFrameType DEF ACKFrame
  <2>4. t \in Sound(n, h)
    BY <1>0, <2>3, AnswerSound
  <2>5. Touches(s, a, {"pCTRL", "calls"}, {}) /\ a.pCTRL = ACKFrame(s.id, p)
    BY <1>0, <2>3, AnswerEffect
  <2>6. a \in Station
    BY <2>5 DEF Touches
  <2>7. s.timer["rxcSIFS"] = TimerIdle
    <3>1. ~Pending(s, "rxcSIFS")
      BY <1>0 DEF Listening, Steady, ResponseTimed
    <3> QED BY <1>0, <3>1, TimerNames, NotPending
  <2> HIDE DEF a
  <2>8. a.timer["rxcSIFS"] = TimerIdle
    BY <2>5, <2>7, TimerNames DEF Touches
  <2>9. Touches(a, t, {}, {"rxcSIFS"}) /\ t.timer["rxcSIFS"] = SIFS
    BY <2>6, <2>8, TimerNames, TimingAssumption, SchedEffect
  <2> HIDE DEF t
  <2>10. Touches(t, r, {"calls", "up", "cache"}, {}) /\ r \in Sound(n, h)
    BY <2>4, RecvDATAEffect, RecvDATASound
  <2>11. r \in Station
    BY <2>10 DEF Touches
  <2> HIDE DEF r
  <2>12. Touches(r, u, {"rxc"}, {}) /\ u.rxc = "wait_SIFS"
    BY <2>11, RxcEffect DEF RXCStates
  <2>13. u \in Sound(n, h)
    BY <2>10, RxcSound DEF RXCStates
  <2> HIDE DEF u
  <2>14. Touches(s, u, {"pCTRL", "rxc", "calls", "up", "cache"}, {"rxcSIFS"})
    BY <2>5, <2>9, <2>10, <2>12 DEF Touches
  <2>15. u.pCTRL = a.pCTRL /\ u.timer["rxcSIFS"] = SIFS
    BY <2>9, <2>10, <2>12, TimerNames DEF Touches, Fields
  <2>16. u.pCTRL.kind = "ACK"
    BY <2>3, <2>5, <2>15
  <2> QED BY <2>1, <2>12, <2>13, <2>14, <2>15, <2>16, Answers
<1> QED BY <1>1, <1>2

\* handleMsgFromBelow, with the IFS just set to a DIFS.
LEMMA MsgFromBelowEffect ==
  ASSUME NEW n \in Nodes, NEW s \in Listening(n), NEW p \in Frame, NEW in \in AnyInput,
         s.ch = "WIFS" => s.timer["ifs"] = DIFS
  PROVE  Processed(n, s, HandleMsgFromBelow(s, p, in))
<1>1. CASE p.kind = "ACK"
  BY <1>1, ProcessACK, RxcStaysIdle DEF HandleMsgFromBelow
<1>2. CASE p.kind = "CTS"
  BY <1>2, ProcessCTS, RxcStaysIdle DEF HandleMsgFromBelow
<1>3. CASE p.kind = "RTS"
  BY <1>3, ProcessRTS DEF HandleMsgFromBelow
<1>4. CASE p.kind = "DATA"
  BY <1>4, ProcessDATA DEF HandleMsgFromBelow
<1>5. CASE p.kind \notin {"ACK", "CTS", "RTS", "DATA"}
  BY <1>5, ProcessError DEF HandleMsgFromBelow
<1> QED BY <1>1, <1>2, <1>3, <1>4, <1>5

\* handleRXEndIndication.
LEMMA RXEndEffect ==
  ASSUME NEW n \in Nodes, NEW s \in Listening(n), NEW p \in Frame, NEW error \in BOOLEAN,
         NEW in \in AnyInput
  PROVE  Processed(n, s, HandleRXEndIndication(s, p, error, in))
<1> DEFINE t == SetIFS(s, DIFS)
           u == HandleRXEndIndication(s, p, error, in)
<1>1. DIFS \in Nat /\ EIFS \in Nat /\ EIFS >= DIFS /\ DIFS >= DIFS
  BY IfsType, AirTime, TimingAssumption DEF EIFS, DIFS, ACKlen
<1>2. /\ t \in Listening(n) /\ t.out = s.out /\ t.id = s.id
      /\ t.ch = "WIFS" => t.timer["ifs"] = DIFS
      /\ t.timer["rX"] = s.timer["rX"]
  BY <1>1, TimerNames, ListeningIFS
<1>3. u = IF error THEN SetIFS(s, EIFS)
          ELSE IF p.kind = "DATA" /\ p.bad THEN SetIFS(Free(t, "pktRX"), EIFS)
          ELSE IF p.dst \in {s.id, Broadcast} THEN HandleMsgFromBelow(t, p, in)
          ELSE Free(HandleSetNAV(t, p.dur, in), "pktRX")
  BY DEF HandleRXEndIndication
<1> HIDE DEF t, u
<1>4. CASE error
  BY <1>1, <1>3, <1>4, TimerNames, ListeningIFS DEF Processed, Listening, u
<1>5. CASE ~error /\ p.kind = "DATA" /\ p.bad
  <2> DEFINE f == Free(t, "pktRX")
             v == SetIFS(f, EIFS)
  <2>1. f \in Listening(n) /\ f.out = t.out /\ f.timer["rX"] = t.timer["rX"]
    BY <1>2, ListeningFree, SlotsType, TimerNames
  <2> HIDE DEF f
  <2>2. v \in Listening(n) /\ v.out = f.out /\ v.timer["rX"] = f.timer["rX"]
    BY <1>1, <2>1, ListeningIFS, TimerNames
  <2>3. u = v
    BY <1>3, <1>5 DEF v, f
  <2> HIDE DEF v
  <2> QED BY <1>2, <2>1, <2>2, <2>3 DEF Processed, Listening, u
<1>6. CASE ~error /\ ~(p.kind = "DATA" /\ p.bad) /\ p.dst \in {s.id, Broadcast}
  <2>1. Processed(n, t, u)
    BY <1>2, <1>3, <1>6, MsgFromBelowEffect
  <2> QED BY <1>2, <2>1 DEF Processed, u
<1>7. CASE ~error /\ ~(p.kind = "DATA" /\ p.bad) /\ p.dst \notin {s.id, Broadcast}
  <2>1. p.dur \in Nat
    BY FrameFields
  <2>2. Processed(n, t, u)
    BY <1>2, <1>3, <1>7, <2>1, ProcessNAV
  <2> QED BY <1>2, <2>2 DEF Processed, u
<1> QED BY <1>4, <1>5, <1>6, <1>7

\* The PHY gives the packet away.
LEMMA ReleaseEffect ==
  ASSUME NEW s \in Station
  PROVE  LET u == [s EXCEPT !.pktRX = NoFrame, !.rxError = FALSE]
         IN  Touches(s, u, {"pktRX", "rxError"}, {}) /\ u.pktRX = NoFrame
BY NoFrameType, HeldEffect

\* The PHY is idle again after a reception.
LEMMA IdleListens ==
  ASSUME NEW n, NEW s \in Good(n, {"rX"}), s.phy = "RXing", NEW in
  PROVE  LET i == SetState(s, "SEARCHING", in)
         IN  i \in Listening(n) /\ i.out = s.out /\ i.timer["rX"] = s.timer["rX"]
<1> DEFINE h == {"rX"}
           i == SetState(s, "SEARCHING", in)
<1>0. /\ s \in Sound(n, h) /\ s \in Station /\ s \in Steady(n, h)
      /\ ChannelTimed(s, h) /\ "ifs" \notin h
  BY DEF Good, Steady, Sound
<1>1. s.rxc = "Idle" /\ s.txc \notin Senders \cup {"wait_SIFS"}
  <2>1. s.rxc # "wait_SIFS" /\ s.rxc # "wait_sent"
    BY <1>0 DEF Steady, Undisturbed, Confirms
  <2>2. s.txc \notin Senders \cup {"wait_SIFS"}
    BY <1>0 DEF Steady, Undisturbed, Confirms
  <2> QED BY <1>0, <2>1, <2>2 DEF Station, RXCStates
<1>2. /\ Touches(s, i, {"phy", "ch"}, {"ifs"})
      /\ i \in Sound(n, h) /\ i.phy = "SEARCHING" /\ ChannelTimed(i, h)
      /\ i.ch \in {"WIFS", "noCSNAV"}
  BY <1>0, IdleEffect
<1> HIDE DEF i
<1>3. /\ i.bk = s.bk /\ i.txc = s.txc /\ i.rxc = s.rxc /\ i.fault = s.fault /\ i.out = s.out
      /\ i.pRTS = s.pRTS /\ i.pDATA = s.pDATA /\ i.pCTRL = s.pCTRL
      /\ i.short = s.short /\ i.long = s.long /\ i.cw = s.cw
  BY <1>2 DEF Touches, Fields
<1>4. \A t \in Timers \ {"ifs"} : i.timer[t] = s.timer[t] /\ (Pending(i, t) <=> Pending(s, t))
  BY <1>2 DEF Touches, Pending
<1>5. PhyTimed(i, h) /\ ResponseTimed(i, h)
  BY <1>0, <1>2, <1>3, <1>4, TimerNames DEF Steady, PhyTimed, ResponseTimed
<1>6. TxcOK(i) /\ RxcOK(i) /\ Confirms(i) /\ Undisturbed(i)
  BY <1>0, <1>1, <1>2, <1>3 DEF Steady, TxcOK, RxcOK, Confirms, Undisturbed, Fresh
<1> QED BY <1>0, <1>1, <1>2, <1>3, <1>4, <1>5, <1>6, TimerNames DEF Listening, Steady, i

\* handle_RXtimeout.
LEMMA RXtimeoutGood ==
  ASSUME NEW n \in Nodes, NEW s \in Good(n, {"rX"}), "rX" \in Awaited(s), NEW in \in AnyInput
  PROVE  LET u == HandleRXtimeout(s, in)
         IN  /\ u \in Good(n, {"rX"}) /\ "rX" \notin Awaited(u)
             /\ u.timer["rX"] = s.timer["rX"] /\ Access(s, u)
<1> DEFINE i == SetState(s, "SEARCHING", in)
           j == IF s.rxError THEN Free(i, "pktRX") ELSE i
           v == HandleRXEndIndication(j, s.pktRX, s.rxError, in)
           u == [v EXCEPT !.pktRX = NoFrame, !.rxError = FALSE]
<1>0. s \in Station
  BY DEF Good, Steady, Sound
<1>1. s.phy = "RXing"
  BY DEF Awaited
<1>2. i \in Listening(n) /\ i.out = s.out /\ i.timer["rX"] = s.timer["rX"]
  BY <1>1, IdleListens
<1>3. HandleRXtimeout(s, in) = u
  BY <1>1 DEF HandleRXtimeout
<1> HIDE DEF i
<1>4. j \in Listening(n) /\ j.out = s.out /\ j.timer["rX"] = s.timer["rX"]
  <2>1. "pktRX" \in Slots /\ "rX" \in Timers
    BY SlotsType, TimerNames
  <2>2. /\ Free(i, "pktRX") \in Listening(n) /\ Free(i, "pktRX").out = i.out
        /\ Free(i, "pktRX").timer["rX"] = i.timer["rX"]
    BY <1>2, <2>1, ListeningFree
  <2> QED BY <1>2, <2>2
<1> HIDE DEF j
<1>5. s.pktRX \in Frame /\ s.rxError \in BOOLEAN
  BY <1>0 DEF Station
<1>6. Processed(n, j, v)
  BY <1>4, <1>5, RXEndEffect
<1> HIDE DEF v
<1>7. v \in Steady(n, {"rX"}) /\ v \in Station /\ v.fault # "exit"
  BY <1>6 DEF Processed, Steady, Sound
<1>8. Touches(v, u, {"pktRX", "rxError"}, {}) /\ u.pktRX = NoFrame
  BY <1>7, ReleaseEffect
<1> HIDE DEF u
<1>9. /\ u.phy = v.phy /\ u.out = v.out /\ u.fault = v.fault
      /\ u.timer["rX"] = v.timer["rX"]
  BY <1>8, TimerNames DEF Touches, Fields
<1>10. u \in Steady(n, {"rX"})
  BY <1>7, <1>8, <1>9, SteadyKept DEF Aside
<1>11. u \in Good(n, {"rX"})
  BY <1>6, <1>8, <1>9, <1>10 DEF Good, Receives, Processed
<1>12. "rX" \notin Awaited(u) /\ Access(s, u) /\ u.timer["rX"] = s.timer["rX"]
  BY <1>4, <1>6, <1>9 DEF Processed, Awaited, Access
<1> QED BY <1>3, <1>11, <1>12
-----------------------------------------------------------------------------
(* Carrier sense and backoff *)

\* handle_PreRXtimeout.
LEMMA PreRXGood ==
  ASSUME NEW n, NEW s \in Good(n, {"preRX"}), "preRX" \in Awaited(s),
         s.timer["preRX"] = TimerHandling, NEW in
  PROVE  LET u == HandlePreRXtimeout(s, in)
         IN  /\ u \in Good(n, {"preRX"}) /\ "preRX" \notin Awaited(u)
             /\ u.timer["preRX"] = s.timer["preRX"] /\ Access(s, u)
<1> DEFINE h == {"preRX"}
           u == HandlePreRXtimeout(s, in)
<1>0. /\ s \in Sound(n, h) /\ s \in Steady(n, h) /\ Receives(s) /\ ChannelTimed(s, h)
      /\ PhyTimed(s, h) /\ s.fault # "exit" /\ s.phy = "PreRXing"
  BY DEF Good, Steady, Awaited
<1>1. /\ Touches(s, u, {"phy", "ch", "slots", "started", "bk"}, {"bk", "ifs", "rX"})
      /\ PhyTimed(u, h) /\ ChannelTimed(u, h) /\ Receives(u) /\ u.phy = "RXing"
      /\ u.bk = "noBackoff" <=> s.bk = "noBackoff"
  BY <1>0, PreRXEffect
<1>2. u \in Sound(n, h)
  BY <1>0, PreRXSound
<1> HIDE DEF u
<1>3. /\ u.txc = s.txc /\ u.rxc = s.rxc /\ u.fault = s.fault /\ u.out = s.out
      /\ u.confirm = s.confirm /\ u.pRTS = s.pRTS /\ u.pDATA = s.pDATA /\ u.pCTRL = s.pCTRL
      /\ u.short = s.short /\ u.long = s.long /\ u.cw = s.cw
  BY <1>1 DEF Touches, Fields
<1>4. \A t \in {"txcCTS", "txcACK", "txcSIFS", "rxcSIFS", "preRX"} :
        u.timer[t] = s.timer[t] /\ (Pending(u, t) <=> Pending(s, t))
  BY <1>1, TimerNames DEF Touches, Pending
<1>5. ResponseTimed(u, h)
  BY <1>0, <1>3, <1>4 DEF Steady, ResponseTimed
<1>6. TxcOK(u) /\ RxcOK(u)
  BY <1>0, <1>1, <1>3 DEF Steady, TxcOK, RxcOK, Fresh
<1>7. s.txc # "wait_SIFS" /\ s.rxc # "wait_SIFS"
  <2>1. /\ s.txc = "wait_SIFS" => s.timer["txcSIFS"] >= 0
        /\ s.rxc = "wait_SIFS" => s.timer["rxcSIFS"] >= 0
    BY <1>0 DEF Steady, ResponseTimed, Pending
  <2>2. s.timer["txcSIFS"] \in Int /\ s.timer["rxcSIFS"] \in Int
    BY <1>0, TimerValues, TimerNames
  <2> QED BY <1>0, <2>1, <2>2 DEF Steady, Undisturbed, TimerHandling
<1>8. Confirms(u) /\ Undisturbed(u)
  BY <1>0, <1>1, <1>3, <1>7 DEF Steady, Confirms, Undisturbed, Senders
<1>9. "preRX" \notin Awaited(u) /\ Access(s, u)
  BY <1>1, <1>3 DEF Awaited, Access
<1> QED BY <1>0, <1>1, <1>2, <1>3, <1>4, <1>5, <1>6, <1>8, <1>9 DEF Good, Steady, u, h

\* handleNAVTimer: the IFS that follows is longer than a SIFS.
LEMMA NAVTimerGood ==
  ASSUME NEW n, NEW s \in Good(n, {"nav"}), "nav" \in Awaited(s)
  PROVE  LET u == HandleNAVTimer(s)
         IN  /\ u \in Good(n, {"nav"}) /\ "nav" \notin Awaited(u)
             /\ u.timer["nav"] = s.timer["nav"] /\ Access(s, u)
<1> DEFINE h == {"nav"}
           u == HandleNAVTimer(s)
<1>0. /\ s \in Sound(n, h) /\ s \in Station /\ s \in Steady(n, h) /\ Receives(s)
      /\ s.fault # "exit" /\ s.ch \in {"noCSNAV", "CSNAV"} /\ s.ifsValue \in Nat
      /\ s.ifsValue >= DIFS
  BY DEF Good, Steady, Awaited, Sound, Station, ChannelTimed
<1>1. /\ Touches(s, u, {"ch"}, {"ifs"})
      /\ \/ s.ch = "noCSNAV" /\ u.ch = "WIFS" /\ u.timer["ifs"] = s.ifsValue
         \/ s.ch = "CSNAV" /\ u.ch = "CSnoNAV" /\ u.timer["ifs"] = s.timer["ifs"]
  <2>1. CASE s.ch = "noCSNAV"
    <3> DEFINE v == Sched(s, "ifs", s.ifsValue)
               w == [v EXCEPT !.ch = "WIFS"]
    <3>1. ~Pending(s, "ifs") /\ "ifs" \in Timers \ h
      BY <1>0, <2>1, TimerNames DEF Steady, ChannelTimed
    <3>2. s.timer["ifs"] = TimerIdle
      BY <1>0, <3>1, NotPending
    <3>3. Touches(s, v, {}, {"ifs"}) /\ v.timer["ifs"] = s.ifsValue
      BY <1>0, <3>1, <3>2, SchedEffect
    <3>4. u = w
      BY <2>1 DEF HandleNAVTimer
    <3> HIDE DEF v
    <3>5. v \in Station
      BY <3>3 DEF Touches
    <3>6. Touches(v, w, {"ch"}, {}) /\ w.ch = "WIFS"
      BY <3>5, ChEffect DEF ChannelStates
    <3> HIDE DEF w, u
    <3> QED BY <2>1, <3>3, <3>4, <3>6, TimerNames DEF Touches
  <2>2. CASE s.ch = "CSNAV"
    <3> DEFINE w == [s EXCEPT !.ch = "CSnoNAV"]
    <3>1. Touches(s, w, {"ch"}, {}) /\ w.ch = "CSnoNAV"
      BY <1>0, ChEffect DEF ChannelStates
    <3>2. u = w
      BY <2>2 DEF HandleNAVTimer
    <3> HIDE DEF w, u
    <3> QED BY <2>2, <3>1, <3>2, TimerNames DEF Touches
  <2> QED BY <1>0, <2>1, <2>2
<1>2. u \in Sound(n, h)
  BY <1>0, NAVTimerSound
<1> HIDE DEF u
<1>3. /\ u.phy = s.phy /\ u.txc = s.txc /\ u.rxc = s.rxc /\ u.fault = s.fault /\ u.out = s.out
      /\ u.bk = s.bk /\ u.started = s.started /\ u.ifsValue = s.ifsValue /\ u.pktRX = s.pktRX
      /\ u.confirm = s.confirm /\ u.pRTS = s.pRTS /\ u.pDATA = s.pDATA /\ u.pCTRL = s.pCTRL
      /\ u.short = s.short /\ u.long = s.long /\ u.cw = s.cw
  BY <1>1 DEF Touches, Fields
<1>4. \A t \in Timers \ {"ifs"} : u.timer[t] = s.timer[t] /\ (Pending(u, t) <=> Pending(s, t))
  BY <1>1 DEF Touches, Pending
<1>5. Pending(u, "ifs") <=> u.ch = "WIFS"
  BY <1>0, <1>1 DEF Steady, ChannelTimed, Pending
<1>6. PhyTimed(u, h) /\ ChannelTimed(u, h) /\ ResponseTimed(u, h)
  BY <1>0, <1>3, <1>4, <1>5, TimerNames DEF Steady, PhyTimed, ChannelTimed, ResponseTimed
<1>7. TxcOK(u) /\ RxcOK(u) /\ Confirms(u) /\ Receives(u)
  BY <1>0, <1>3 DEF Steady, TxcOK, RxcOK, Confirms, Receives, Fresh
<1>8. Undisturbed(u)
  <2>1. DIFS > SIFS /\ DIFS \in Nat /\ SIFS \in Nat
    BY TimingAssumption DEF DIFS
  <2>2. s.timer["rxcSIFS"] <= SIFS /\ s.timer["rxcSIFS"] \in Int
    BY <1>0, TimerValues, TimerNames DEF Steady, ResponseTimed
  <2>3. u.ch = "WIFS" => u.timer["ifs"] > u.timer["rxcSIFS"]
    BY <1>0, <1>1, <1>4, <2>1, <2>2, TimerNames
  <2> QED BY <1>0, <1>1, <1>3, <1>4, <2>3, TimerNames DEF Steady, Undisturbed
<1>9. "nav" \notin Awaited(u) /\ Access(s, u)
  BY <1>1, <1>3 DEF Awaited, Access
<1> QED BY <1>0, <1>2, <1>3, <1>4, <1>6, <1>7, <1>8, <1>9, TimerNames DEF Good, Steady, u, h

\* From a backoff that is over TXC proceeds: it held a frame, or it was idle.
LEMMA BackoffOver ==
  ASSUME NEW n, NEW h, NEW c \in Sound(n, h), NEW in, MaySend(c, h),
         c.bk = "noBackoff", c.ch = "noCSnoNAV",
         NEW s, TxcOK(s), s.bk # "noBackoff",
         NEW F, NEW T, F \subseteq {"bk", "slots", "started", "ch", "out", "up", "done", "fault"},
         Touches(s, c, F, T)
  PROVE  Proceeds(c, HandleBKDone(c, in), h)
<1> DEFINE u == HandleBKDone(c, in)
<1>1. /\ c.txc = s.txc /\ c.pDATA = s.pDATA /\ c.pRTS = s.pRTS
      /\ c.short = s.short /\ c.long = s.long /\ c.cw = s.cw
  BY DEF Touches, Fields
<1>2. CASE c.txc = "Idle"
  <2>1. u = c
    BY <1>2 DEF HandleBKDone
  <2>2. TxcOK(c)
    BY <1>1, <1>2 DEF TxcOK, PendingStates, Unicast, Fresh
  <2>3. Waits(c, c, h)
    BY <1>2 DEF Waits, Touches, MaySend, Sound
  <2> QED BY <2>1, <2>2, <2>3 DEF Proceeds
<1>3. CASE c.txc \in PendingStates
  <2>1. /\ c.pDATA # NoFrame /\ HeldFrame(c) # NoFrame
        /\ c.pRTS # NoFrame <=> c.txc = "RTS_pending"
        /\ c.pRTS # NoFrame => c.pDATA.dst # Broadcast
    BY <1>1, <1>3 DEF TxcOK, HeldFrame, PendingStates, Unicast
  <2>2. TxcSends(c, u, h, {}) /\ u.txc = Sending(c.txc)
    BY <1>3, <2>1, BKDoneEffect
  <2> HIDE DEF u
  <2>3. u.txc = IF c.pRTS # NoFrame THEN "wait_RTSsent" ELSE "wait_PDUsent"
    BY <2>1, <2>2 DEF Sending
  <2>4. /\ c.short < ShortRetryLimit /\ c.long < LongRetryLimit /\ c.cw \in CWMin .. CWMax
        /\ c.pDATA.dst = Broadcast => Fresh(c)
    BY <1>1 DEF TxcOK, Fresh
  <2>5. TxcOK(u)
    BY <2>1, <2>2, <2>3, <2>4, SentOK
  <2>6. TxcSends(c, u, h, TxcFields)
    BY <2>2 DEF TxcSends, Touches
  <2> QED BY <2>3, <2>5, <2>6 DEF Proceeds, Goes, u
<1> QED BY <1>1, <1>2, <1>3 DEF TxcOK

\* The number of slots is set.
LEMMA SlotsOnly ==
  ASSUME NEW s \in Station, NEW k \in Int
  PROVE  Touches(s, [s EXCEPT !.slots = k], {"slots"}, {})
<1> DEFINE d == [s EXCEPT !.slots = k]
<1>1. d \in Station
  BY DEF Station
<1>2. \A f \in Fields \ {"slots"} : d[f] = s[f]
  BY DEF Station, Fields
<1>3. \A t \in Timers : d.timer[t] = s.timer[t]
  BY DEF Station
<1> HIDE DEF d
<1> QED BY <1>1, <1>2, <1>3 DEF Touches, d

\* No slots are left, the backoff is over.
LEMMA OverEffect ==
  ASSUME NEW s \in Station
  PROVE  LET c == [[s EXCEPT !.slots = -1] EXCEPT !.bk = "noBackoff"]
         IN  Touches(s, c, {"bk", "slots"}, {}) /\ c.bk = "noBackoff"
<1> DEFINE d == [s EXCEPT !.slots = -1]
           c == [d EXCEPT !.bk = "noBackoff"]
<1>1. Touches(s, d, {"slots"}, {})
  BY SlotsOnly
<1> HIDE DEF d
<1>2. d \in Station
  BY <1>1 DEF Touches
<1>3. Touches(d, c, {"bk"}, {}) /\ c.bk = "noBackoff"
  BY <1>2, BkEffect DEF BackoffStates
<1> HIDE DEF c
<1> QED BY <1>1, <1>3 DEF Touches, c, d

\* The backoff timer expires.
LEMMA BackoffExpireGood ==
  ASSUME NEW n, NEW s \in Good(n, {}), s.timer["bk"] = 0, NEW in
  PROVE  LET b == BeginExpire(s, "bk")
             u == BackoffTimerExpire(b, in)
         IN  /\ u \in Good(n, {"bk"}) /\ "bk" \notin Awaited(u) /\ ~Pending(u, "bk")
             /\ Access(b, u)
<1> DEFINE h == {"bk"}
           b == BeginExpire(s, "bk")
           c == [[b EXCEPT !.slots = -1] EXCEPT !.bk = "noBackoff"]
           u == BackoffTimerExpire(b, in)
<1>0. /\ s \in Sound(n, {}) /\ s \in Steady(n, {}) /\ "bk" \in Timers /\ TxcOK(s)
      /\ Receives(s) /\ PhyTimed(s, {}) /\ ChannelTimed(s, {}) /\ ResponseTimed(s, {})
  BY TimerNames DEF Good, Steady
<1>1. s.bk = "BackoffRunning" /\ s.ch = "noCSnoNAV" /\ s.phy = "SEARCHING"
  BY <1>0 DEF ChannelTimed, Pending, Sound
<1>2. /\ Touches(s, b, {"out", "up", "done", "fault"}, h)
      /\ b \in Sound(n, h) /\ b.timer["bk"] = TimerHandling /\ b.fault = "none"
  BY <1>0, BeginEffect
<1> HIDE DEF b
<1>3. ~Pending(b, "bk") /\ b.bk = "BackoffRunning" /\ b \in Station
  BY <1>1, <1>2 DEF Pending, TimerHandling, Touches, Fields
<1>4. c \in Sound(n, h) /\ [b EXCEPT !.slots = -1].bk = "BackoffRunning"
  BY <1>2, <1>3, NoSlotsSound
<1>5. u = HandleBKDone(c, in)
  BY <1>4 DEF BackoffTimerExpire, HandleBackoffTimer
<1>6. /\ c.bk = "noBackoff" /\ \A f \in Fields \ {"bk", "slots"} : c[f] = b[f]
      /\ \A t \in Timers : c.timer[t] = b.timer[t]
  <2>1. Touches(b, c, {"bk", "slots"}, {}) /\ c.bk = "noBackoff"
    BY <1>3, OverEffect
  <2> HIDE DEF c
  <2> QED BY <2>1 DEF Touches
<1>7. u \in Sound(n, h)
  BY <1>2, <1>3, BackoffExpireSound
<1> HIDE DEF c, u
<1>8. Touches(s, c, {"bk", "slots", "out", "up", "done", "fault"}, h)
  BY <1>2, <1>4, <1>6 DEF Touches, Sound
<1>9. /\ c.phy = s.phy /\ c.ch = s.ch /\ c.txc = s.txc /\ c.rxc = s.rxc
      /\ c.confirm = s.confirm /\ c.ifsValue = s.ifsValue /\ c.pktRX = s.pktRX
      /\ c.pCTRL = s.pCTRL /\ c.fault = "none" /\ c.out = b.out
  BY <1>2, <1>6, <1>8 DEF Touches, Fields
<1>10. \A t \in Timers \ h : c.timer[t] = s.timer[t] /\ (Pending(c, t) <=> Pending(s, t))
  BY <1>8 DEF Touches, Pending
<1>11. PhyTimed(c, h) /\ ChannelTimed(c, h) /\ Receives(c)
  BY <1>0, <1>6, <1>9, <1>10, TimerNames DEF PhyTimed, ChannelTimed, Receives
<1>12. MaySend(c, h)
  BY <1>1, <1>9, <1>11, TimerNames DEF MaySend
<1>13. Proceeds(c, u, h)
  BY <1>0, <1>1, <1>4, <1>5, <1>6, <1>8, <1>9, <1>12, BackoffOver
<1>14. c \in Ready(n, h)
  <2>1. s.rxc = "Idle" /\ (s.txc = "Idle" \/ s.txc \in PendingStates)
    <3>1. s.rxc # "wait_SIFS" /\ s.rxc # "wait_sent"
      BY <1>0, <1>1 DEF Steady, Undisturbed, Confirms
    <3>2. s.rxc \in RXCStates
      BY <1>0 DEF Sound, Station
    <3> QED BY <1>0, <1>1, <3>1, <3>2 DEF RXCStates, TxcOK
  <2>2. RxcOK(c)
    BY <1>0, <1>9 DEF Steady, RxcOK
  <2>3. \A t \in TxcTimers \ h : ~Pending(c, t)
    BY <1>0, <1>10, <2>1, TimerNames DEF ResponseTimed, TxcTimers, PendingStates
  <2>4. /\ Pending(c, "rxcSIFS") <=> c.rxc = "wait_SIFS"
        /\ c.timer["txcSIFS"] <= SIFS /\ c.timer["rxcSIFS"] <= SIFS
    BY <1>0, <1>9, <1>10, TimerNames DEF ResponseTimed
  <2> QED BY <1>1, <1>4, <1>9, <1>11, <2>1, <2>2, <2>3, <2>4 DEF Ready
<1>15. u \in Steady(n, h) /\ Receives(u) /\ Access(c, u)
  BY <1>7, <1>11, <1>13, <1>14, ProceedsSteady
<1>16. Access(b, u)
  <2>1. b.txc = c.txc /\ b.phy = c.phy /\ b.ch = c.ch /\ b.out = c.out
    BY <1>6 DEF Fields
  <2> QED BY <1>15, <2>1 DEF Access
<1>17. "bk" \notin Awaited(u) /\ ~Pending(u, "bk")
  BY <1>15 DEF Steady, ChannelTimed, Awaited, Sound
<1> QED BY <1>15, <1>16, <1>17 DEF Good, h, b, u

\* A transmission from the idle channel has no IFS wait to stop.
LEMMA TransmitSpares ==
  ASSUME NEW s \in Station, NEW p \in Frame, p # NoFrame, NEW who \in {"TXC", "RXC"}, NEW in,
         s.phy = "SEARCHING", s.ch = "noCSnoNAV", s.bk = "noBackoff"
  PROVE  Transmit(s, p, who, in).timer["ifs"] = s.timer["ifs"]
<1> DEFINE a == [s EXCEPT !.confirm = who]
           b == Alloc(a, "sent")
           d == TxTime(p.len) + PropagationDelay(p)
           c == [b EXCEPT !.ch = "CSnoNAV"]
           e == [c EXCEPT !.phy = "TXing"]
           f == Sched(e, "tX", d)
           g == PoolCall(f, "send", "sent")
<1>1. Touches(s, a, {"confirm"}, {}) /\ a \in Station
  <2>1. Touches(s, a, {"confirm"}, {})
    BY ConfirmEffect
  <2> QED BY <2>1 DEF Touches
<1> HIDE DEF a
<1>2. Touches(a, b, {"calls"}, {}) /\ b \in Station
  BY <1>1, FreeEffect, SlotsType DEF Touches
<1> HIDE DEF b
<1>3. /\ b.phy = "SEARCHING" /\ b.ch = "noCSnoNAV" /\ b.bk = "noBackoff"
      /\ b.timer["ifs"] = s.timer["ifs"]
  BY <1>1, <1>2, TimerNames DEF Touches, Fields
<1>4. Transmit(s, p, who, in) = SendDown(b, p, in)
  BY DEF Transmit, a, b
<1>5. SetState(AbortReception(b), "TXing", in) = e
  BY <1>3 DEF AbortReception, SetState, HandlePHYBusyIndication, HandleCSBUSY
<1>6. SendDown(b, p, in) = [g EXCEPT !.out = p]
  BY <1>3, <1>5 DEF SendDown
<1>7. Touches(b, c, {"ch"}, {}) /\ c \in Station
  BY <1>2, ChEffect DEF ChannelStates, Touches
<1> HIDE DEF c
<1>8. Touches(c, e, {"phy"}, {}) /\ e \in Station
  BY <1>7, PhyEffect DEF PhyStates, Touches
<1> HIDE DEF e
<1>9. d \in Nat
  <2>1. TxTime(p.len) \in Nat
    BY AirTime, FrameFields
  <2>2. PropagationDelay(p) \in Nat
    BY DelayType
  <2> QED BY <2>1, <2>2
<1> HIDE DEF d
<1>10. f \in Station /\ f.timer["ifs"] = e.timer["ifs"]
  <2>1. CASE e.timer["tX"] = TimerIdle
    BY <1>8, <1>9, <2>1, TimerNames, SchedEffect DEF Touches
  <2>2. CASE e.timer["tX"] # TimerIdle
    BY <1>8, <2>2 DEF Sched, Exit, Station
  <2> QED BY <2>1, <2>2
<1> HIDE DEF f
<1>11. Touches(f, g, {"calls"}, {}) /\ g \in Station
  BY <1>10, PoolEffect, SlotsType DEF Touches
<1> HIDE DEF g
<1>12. Touches(g, [g EXCEPT !.out = p], {"out"}, {})
  BY <1>11, OutEffect
<1> QED BY <1>3, <1>4, <1>6, <1>7, <1>8, <1>10, <1>11, <1>12, TimerNames DEF Touches

\* Nor has the end of a backoff on the idle channel.
LEMMA BKDoneSpares ==
  ASSUME NEW s \in Station, NEW in, s.phy = "SEARCHING", s.ch = "noCSnoNAV",
         s.bk = "noBackoff", s.txc = "Idle" \/ s.txc \in PendingStates,
         s.txc \in PendingStates => HeldFrame(s) # NoFrame
  PROVE  HandleBKDone(s, in).timer["ifs"] = s.timer["ifs"]
<1>1. CASE s.txc = "Idle"
  BY <1>1 DEF HandleBKDone
<1>2. CASE s.txc \in PendingStates
  <2> DEFINE v == Transmit(s, HeldFrame(s), "TXC", in)
             c == Sending(s.txc)
             u == [v EXCEPT !.txc = c]
  <2>1. HeldFrame(s) \in Frame
    BY DEF HeldFrame, Station
  <2>2. v.timer["ifs"] = s.timer["ifs"]
    BY <1>2, <2>1, TransmitSpares
  <2>3. HandleBKDone(s, in) = u
    BY <1>2 DEF HandleBKDone, HeldFrame, Sending, PendingStates
  <2> HIDE DEF v
  <2>4. u.timer = v.timer
    OBVIOUS
  <2> QED BY <2>2, <2>3, <2>4
<1> QED BY <1>1, <1>2

\* The channel state becomes idle, and the backoff, if any, is to go on.
Resumed(s) == [[s EXCEPT !.ch = "noCSnoNAV"] EXCEPT !.bk = "BackoffRunning"]

\* These two assignments.
LEMMA ResumedEffect ==
  ASSUME NEW s \in Station
  PROVE  /\ Touches(s, Resumed(s), {"ch", "bk"}, {})
         /\ Resumed(s).ch = "noCSnoNAV" /\ Resumed(s).bk = "BackoffRunning"
<1> DEFINE a == [s EXCEPT !.ch = "noCSnoNAV"]
           r == [a EXCEPT !.bk = "BackoffRunning"]
<1>1. Touches(s, a, {"ch"}, {}) /\ a.ch = "noCSnoNAV"
  BY ChEffect DEF ChannelStates
<1> HIDE DEF a
<1>2. a \in Station
  BY <1>1 DEF Touches
<1>3. Touches(a, r, {"bk"}, {}) /\ r.bk = "BackoffRunning"
  BY <1>2, BkEffect DEF BackoffStates
<1>4. r = Resumed(s)
  BY DEF Resumed, a
<1> HIDE DEF r
<1> QED BY <1>1, <1>3, <1>4 DEF Touches, Fields

\* A station in its IFS neither transmits nor waits to answer.
LEMMA InIFS ==
  ASSUME NEW n, NEW s \in Good(n, {"ifs"}), s.ch = "WIFS", s.timer["ifs"] = TimerHandling
  PROVE  /\ s.phy = "SEARCHING" /\ s.rxc = "Idle" /\ s.txc \notin Senders
         /\ s.bk # "BackoffRunning" /\ ~Pending(s, "bk")
<1>0. s \in Sound(n, {"ifs"}) /\ s \in Steady(n, {"ifs"}) /\ s.rxc \in RXCStates
  BY DEF Good, Steady, Sound, Station
<1>1. s.phy = "SEARCHING" /\ s.bk # "BackoffRunning" /\ ~Pending(s, "bk")
  BY <1>0 DEF Sound
<1>2. s.txc \notin Senders /\ s.rxc # "wait_sent"
  BY <1>0, <1>1 DEF Steady, Confirms
<1>3. s.rxc # "wait_SIFS"
  <2>1. s.rxc = "wait_SIFS" => s.timer["rxcSIFS"] >= 0
    BY <1>0 DEF Steady, ResponseTimed, Pending
  <2>2. s.timer["rxcSIFS"] \in Int
    BY <1>0, TimerValues, TimerNames
  <2> QED BY <1>0, <2>1, <2>2 DEF Steady, Undisturbed, TimerHandling
<1> QED BY <1>0, <1>1, <1>2, <1>3 DEF RXCStates

\* Where the IFS ends without a transmission, only the backoff may go on.
LEMMA IFSOver ==
  ASSUME NEW n, NEW s \in Good(n, {"ifs"}), s.ch = "WIFS", s.timer["ifs"] = TimerHandling,
         NEW u \in Sound(n, {"ifs"}), Touches(s, u, {"ch", "bk", "started"}, {"bk"}),
         u.ch = "noCSnoNAV", u.bk = "noBackoff" <=> s.bk = "noBackoff",
         Pending(u, "bk") <=> u.bk = "BackoffRunning", u.bk = "BackoffRunning" => u.started
  PROVE  /\ u \in Good(n, {"ifs"}) /\ "ifs" \notin Awaited(u) /\ ~Pending(u, "ifs")
         /\ Access(s, u)
<1> DEFINE h == {"ifs"}
<1>0. s \in Steady(n, h) /\ Receives(s)
  BY DEF Good
<1>1. s.phy = "SEARCHING" /\ s.rxc = "Idle" /\ s.txc \notin Senders
  BY InIFS
<1>2. /\ u.phy = s.phy /\ u.txc = s.txc /\ u.rxc = s.rxc /\ u.fault = s.fault /\ u.out = s.out
      /\ u.ifsValue = s.ifsValue /\ u.pktRX = s.pktRX
      /\ u.pRTS = s.pRTS /\ u.pDATA = s.pDATA /\ u.pCTRL = s.pCTRL
      /\ u.short = s.short /\ u.long = s.long /\ u.cw = s.cw
  BY DEF Touches, Fields
<1>3. \A t \in Timers \ {"bk"} : u.timer[t] = s.timer[t] /\ (Pending(u, t) <=> Pending(s, t))
  BY DEF Touches, Pending
<1>4. PhyTimed(u, h) /\ ChannelTimed(u, h) /\ ResponseTimed(u, h)
  BY <1>0, <1>2, <1>3, TimerNames DEF Steady, PhyTimed, ChannelTimed, ResponseTimed
<1>5. TxcOK(u) /\ RxcOK(u) /\ Receives(u)
  BY <1>0, <1>2 DEF Steady, TxcOK, RxcOK, Receives, Fresh
<1>6. Confirms(u) /\ Undisturbed(u)
  BY <1>1, <1>2 DEF Confirms, Undisturbed
<1>7. ~Pending(u, "ifs")
  BY <1>3, TimerNames DEF Pending, TimerHandling
<1> QED BY <1>0, <1>2, <1>4, <1>5, <1>6, <1>7 DEF Good, Steady, Awaited, Access

\* The paused backoff had no slots left: it is over.
LEMMA IFSBackoffOver ==
  ASSUME NEW n, NEW s \in Good(n, {"ifs"}), s.ch = "WIFS", s.timer["ifs"] = TimerHandling,
         s.bk = "BackoffPause", NEW in, HandleIFSTimer(s, in) \in Sound(n, {"ifs"}),
         HandleIFSTimer(s, in)
           = HandleBKDone([[Resumed(s) EXCEPT !.slots = -1] EXCEPT !.bk = "noBackoff"], in)
  PROVE  LET u == HandleIFSTimer(s, in)
         IN  /\ u \in Good(n, {"ifs"}) /\ "ifs" \notin Awaited(u) /\ ~Pending(u, "ifs")
             /\ Access(s, u)
<1> DEFINE h == {"ifs"}
           r == Resumed(s)
           c == [[r EXCEPT !.slots = -1] EXCEPT !.bk = "noBackoff"]
           u == HandleIFSTimer(s, in)
<1>0. s \in Sound(n, h) /\ s \in Station /\ s \in Steady(n, h) /\ TxcOK(s) /\ Receives(s)
  BY DEF Good, Steady, Sound
<1>1. /\ s.phy = "SEARCHING" /\ s.rxc = "Idle" /\ s.txc \notin Senders
      /\ ~Pending(s, "bk")
  BY InIFS
<1>2. s.txc = "Idle" \/ s.txc \in PendingStates
  BY <1>0 DEF TxcOK
<1>3. Touches(s, r, {"ch", "bk"}, {}) /\ r.ch = "noCSnoNAV"
  BY <1>0, ResumedEffect
<1> HIDE DEF r
<1>4. r \in Station
  BY <1>3 DEF Touches
<1>5. Touches(r, c, {"bk", "slots"}, {}) /\ c.bk = "noBackoff"
  BY <1>4, OverEffect
<1>6. u = HandleBKDone(c, in)
  BY DEF r
<1> HIDE DEF c, u
<1>7. /\ Touches(s, c, {"ch", "bk", "slots"}, {}) /\ c.ch = "noCSnoNAV"
      /\ c \in Station /\ \A t \in Timers : c.timer[t] = s.timer[t]
  BY <1>3, <1>5 DEF Touches, Fields
<1>8. /\ c.id = s.id /\ c.phy = s.phy /\ c.txc = s.txc /\ c.rxc = s.rxc /\ c.fault = s.fault
      /\ c.out = s.out /\ c.confirm = s.confirm /\ c.ifsValue = s.ifsValue
      /\ c.pktRX = s.pktRX /\ c.pCTRL = s.pCTRL /\ c.pDATA = s.pDATA /\ c.pRTS = s.pRTS
  BY <1>7 DEF Touches, Fields
<1>9. \A t \in Timers : Pending(c, t) <=> Pending(s, t)
  BY <1>7 DEF Pending
<1>10. c \in Sound(n, h)
  <2>1. ~Pending(c, "bk")
    BY <1>1, <1>9, TimerNames
  <2> QED BY <1>0, <1>1, <1>5, <1>7, <1>8, <2>1 DEF Sound
<1>11. PhyTimed(c, h) /\ ChannelTimed(c, h) /\ Receives(c)
  BY <1>0, <1>1, <1>5, <1>7, <1>8, <1>9, TimerNames
     DEF Steady, PhyTimed, ChannelTimed, Receives
<1>12. MaySend(c, h)
  BY <1>1, <1>7, <1>8, <1>11, TimerNames DEF MaySend
<1>13. Proceeds(c, u, h)
  BY <1>0, <1>5, <1>6, <1>7, <1>10, <1>12, BackoffOver
<1>14. c \in Ready(n, h)
  <2>1. RxcOK(c)
    BY <1>0, <1>8 DEF Steady, RxcOK
  <2>2. \A t \in TxcTimers \ h : ~Pending(c, t)
    BY <1>0, <1>2, <1>9, TimerNames DEF Steady, ResponseTimed, TxcTimers, PendingStates
  <2>3. /\ Pending(c, "rxcSIFS") <=> c.rxc = "wait_SIFS"
        /\ c.timer["txcSIFS"] <= SIFS /\ c.timer["rxcSIFS"] <= SIFS
    BY <1>0, <1>7, <1>8, <1>9, TimerNames DEF Steady, ResponseTimed
  <2> QED BY <1>0, <1>1, <1>8, <1>10, <1>11, <2>1, <2>2, <2>3 DEF Ready, Steady
<1>15. u \in Steady(n, h) /\ Receives(u) /\ Access(c, u)
  BY <1>11, <1>13, <1>14, ProceedsSteady DEF u
<1>16. Access(s, u)
  BY <1>1, <1>8, <1>15 DEF Access
<1>17. u.timer["ifs"] = c.timer["ifs"]
  <2>1. c.txc \in PendingStates => HeldFrame(c) # NoFrame
    BY <1>0, <1>8 DEF TxcOK, HeldFrame, PendingStates
  <2> QED BY <1>1, <1>2, <1>5, <1>6, <1>7, <1>8, <2>1, BKDoneSpares
<1>18. ~Pending(u, "ifs")
  BY <1>7, <1>17, TimerNames DEF Pending, TimerHandling
<1>19. "ifs" \notin Awaited(u)
  <2>1. u.ch # "WIFS"
    BY <1>7, <1>13 DEF Proceeds, Waits, Goes, TxcSends, Sends, Touches, TxcFields, TxcOwn,
       Fields
  <2> QED BY <2>1 DEF Awaited
<1> QED BY <1>15, <1>16, <1>18, <1>19 DEF Good, h, u

\* A paused backoff goes on as its timer does.
LEMMA ResumedRuns ==
  ASSUME NEW s \in Station, NEW in, s.ch = "WIFS", s.bk = "BackoffPause"
  PROVE  HandleIFSTimer(s, in) = BackoffTimerRun(Resumed(s), in)
<1> DEFINE a == [s EXCEPT !.ch = "noCSnoNAV"]
<1>1. a.bk = "BackoffPause"
  BY DEF Station
<1>2. HandleIFSTimer(s, in) = HandleCSIDLE(a, in)
  BY DEF HandleIFSTimer
<1>3. Resumed(s) = [a EXCEPT !.bk = "BackoffRunning"]
  BY DEF Resumed
<1> HIDE DEF a
<1>4. HandleCSIDLE(a, in) = BackoffTimerRun([a EXCEPT !.bk = "BackoffRunning"], in)
  BY <1>1 DEF HandleCSIDLE
<1> QED BY <1>2, <1>3, <1>4

\* ChannelStateMgr::handleIFSTimer: the channel is idle.
LEMMA IFSTimerGood ==
  ASSUME NEW n, NEW s \in Good(n, {"ifs"}), "ifs" \in Awaited(s),
         s.timer["ifs"] = TimerHandling, NEW in
  PROVE  LET u == HandleIFSTimer(s, in)
         IN  /\ u \in Good(n, {"ifs"}) /\ "ifs" \notin Awaited(u) /\ ~Pending(u, "ifs")
             /\ Access(s, u)
<1> DEFINE h == {"ifs"}
           r == Resumed(s)
           u == HandleIFSTimer(s, in)
<1>0. s \in Sound(n, h) /\ s \in Station /\ s.ch = "WIFS"
  BY DEF Good, Steady, Sound, Awaited
<1>1. s.bk # "BackoffRunning" /\ ~Pending(s, "bk")
  BY <1>0, InIFS
<1>2. u \in Sound(n, h)
  BY <1>0, IFSTimerSound
<1>3. Touches(s, r, {"ch", "bk"}, {}) /\ r.ch = "noCSnoNAV" /\ r.bk = "BackoffRunning"
  BY <1>0, ResumedEffect
<1>4. CASE s.bk = "noBackoff"
  <2> DEFINE a == [s EXCEPT !.ch = "noCSnoNAV"]
  <2>1. Touches(s, a, {"ch"}, {}) /\ a.ch = "noCSnoNAV"
    BY <1>0, ChEffect DEF ChannelStates
  <2>2. a.bk = s.bk /\ (Pending(a, "bk") <=> Pending(s, "bk"))
    BY <2>1, TimerNames DEF Touches, Fields, Pending
  <2>3. u = a
    BY <1>0, <1>4, <2>2 DEF HandleIFSTimer, HandleCSIDLE
  <2> HIDE DEF a, u
  <2>4. Touches(s, u, {"ch", "bk", "started"}, {"bk"})
    BY <2>1, <2>3 DEF Touches
  <2> QED BY <1>0, <1>1, <1>2, <1>4, <2>1, <2>2, <2>3, <2>4, IFSOver DEF u
<1>5. CASE s.bk = "BackoffPause" /\ s.slots = 0
  <2>1. u = BackoffTimerRun(r, in)
    BY <1>0, <1>5, ResumedRuns
  <2> HIDE DEF r
  <2>2. r.slots = 0 /\ [r EXCEPT !.slots = -1].bk = "BackoffRunning"
    <3>1. r.slots = s.slots /\ r \in Station
      BY <1>3 DEF Touches, Fields
    <3>2. [r EXCEPT !.slots = -1].bk = r.bk
      BY <3>1 DEF Station
    <3> QED BY <1>3, <1>5, <3>1, <3>2
  <2>3. u = HandleBKDone([[r EXCEPT !.slots = -1] EXCEPT !.bk = "noBackoff"], in)
    BY <2>1, <2>2 DEF BackoffTimerRun, HandleBackoffTimer
  <2> QED BY <1>0, <1>2, <1>5, <2>3, IFSBackoffOver DEF r
<1>6. CASE s.bk = "BackoffPause" /\ s.slots # 0
  <2>1. u = BackoffTimerRun(r, in)
    BY <1>0, <1>6, ResumedRuns
  <2> HIDE DEF r, u
  <2>2. r \in Station /\ r.slots = s.slots /\ r.timer["bk"] = s.timer["bk"]
    BY <1>3, TimerNames DEF Touches, Fields
  <2>3. r.slots \in Nat \ {0}
    BY <1>0, <1>6, <2>2 DEF Sound, Station
  <2>4. r.timer["bk"] = TimerIdle
    BY <1>0, <1>1, <2>2, TimerNames, NotPending
  <2>5. Touches(r, u, {"started"}, {"bk"}) /\ u.started /\ Pending(u, "bk")
    BY <2>1, <2>2, <2>3, <2>4, RunEffect
  <2>6. u.ch = "noCSnoNAV" /\ u.bk = "BackoffRunning"
    BY <1>3, <2>5 DEF Touches, Fields
  <2>7. Touches(s, u, {"ch", "bk", "started"}, {"bk"})
    BY <1>3, <2>5 DEF Touches
  <2> QED BY <1>0, <1>2, <1>6, <2>5, <2>6, <2>7, IFSOver DEF u
<1>7. s.bk \in BackoffStates
  BY <1>0 DEF Station
<1> QED BY <1>1, <1>4, <1>5, <1>6, <1>7 DEF BackoffStates
-----------------------------------------------------------------------------
(* The events of a station *)

\* The expire function of every timer but the backoff's.
LEMMA ExpireGood ==
  ASSUME NEW n \in Nodes, NEW t \in Timers \ {"bk"}, NEW s \in Good(n, {t}), t \in Awaited(s),
         s.timer[t] = TimerHandling, NEW in \in AnyInput
  PROVE  LET u == Expire(s, t, in)
         IN  u \in Good(n, {t}) /\ t \notin Awaited(u) /\ ~Pending(u, t) /\ Access(s, u)
<1> DEFINE u == Expire(s, t, in)
<1>1. CASE t = "ifs"
  BY <1>1, IFSTimerGood DEF Expire
<1>2. CASE t = "tX"
  BY <1>2, TXtimeoutGood DEF Expire, Pending, TimerHandling
<1>3. CASE t = "rX"
  BY <1>3, RXtimeoutGood DEF Expire, Pending, TimerHandling
<1>4. CASE t = "preRX"
  BY <1>4, PreRXGood DEF Expire, Pending, TimerHandling
<1>5. CASE t = "nav"
  BY <1>5, NAVTimerGood DEF Expire, Pending, TimerHandling
<1>6. CASE t = "txcCTS"
  BY <1>6, TCTSTimeoutGood DEF Expire, Pending, TimerHandling
<1>7. CASE t = "txcSIFS"
  BY <1>7, TXCSIFSGood DEF Expire, Pending, TimerHandling
<1>8. CASE t = "txcACK"
  BY <1>8, TACKTimeoutGood DEF Expire, Pending, TimerHandling
<1>9. CASE t = "rxcSIFS"
  BY <1>9, RXCSIFSGood DEF Expire, Pending, TimerHandling
<1> QED BY <1>1, <1>2, <1>3, <1>4, <1>5, <1>6, <1>7, <1>8, <1>9, TimerNames

\* TimerHandler::handle: a timer that is due expires.
LEMMA HandleTimerGood ==
  ASSUME NEW n \in Nodes, NEW s \in Good(n, {}), NEW t \in Timers, s.timer[t] = 0,
         NEW in \in AnyInput
  PROVE  LET u == HandleTimer(s, t, in)
         IN  u \in Good(n, {}) /\ Access(BeginExpire(s, t), u)
<1> DEFINE b == BeginExpire(s, t)
           e == Expire(b, t, in)
           u == EndExpire(e, t)
<1>0. s \in Sound(n, {}) /\ HandleTimer(s, t, in) = u
  BY DEF Good, Steady, HandleTimer
<1>1. b.timer[t] = TimerHandling
  BY <1>0, BeginEffect
<1>2. e \in Good(n, {t}) /\ t \notin Awaited(e) /\ ~Pending(e, t) /\ Access(b, e)
  <2>1. CASE t = "bk"
    <3>1. e = BackoffTimerExpire(b, in)
      BY <2>1 DEF Expire
    <3> QED BY <2>1, <3>1, BackoffExpireGood
  <2>2. CASE t # "bk"
    <3>1. b \in Good(n, {t}) /\ t \in Awaited(b)
      BY <2>2, BeginGood
    <3> HIDE DEF b
    <3> QED BY <1>1, <2>2, <3>1, ExpireGood
  <2> QED BY <2>1, <2>2
<1> HIDE DEF b, e
<1>3. u \in Good(n, {}) /\ Touches(e, u, {}, {t})
  BY <1>2, EndGood
<1> HIDE DEF u
<1>4. u.out = e.out /\ u.txc = e.txc
  BY <1>3 DEF Touches, Fields
<1>5. Access(b, u)
  BY <1>2, <1>4 DEF Access
<1> QED BY <1>0, <1>3, <1>5 DEF b

\* What an event handed out is forgotten.
LEMMA ForgetGood ==
  ASSUME NEW n, NEW s \in Good(n, {}), NEW u, Touches(s, u, {"out", "up", "done", "fault"}, {}),
         u.fault # "exit"
  PROVE  u \in Good(n, {})
<1>1. u \in Steady(n, {})
  BY SteadyKept DEF Good, Aside
<1>2. u.pktRX = s.pktRX /\ u.phy = s.phy
  BY DEF Touches, Fields
<1> QED BY <1>1, <1>2 DEF Good, Receives

\* WirelessPhy::recv of a frame: it is received, or lost.
LEMMA RecvGood ==
  ASSUME NEW n, NEW s \in Good(n, {}), NEW p \in Frame, p # NoFrame, NEW in
  PROVE  LET u == Recv(s, p, in)
         IN  u \in Good(n, {}) /\ u.out = s.out
<1> DEFINE u == Recv(s, p, in)
<1>0. /\ s \in Sound(n, {}) /\ s \in Steady(n, {}) /\ Receives(s) /\ s.fault # "exit"
      /\ PhyTimed(s, {}) /\ ChannelTimed(s, {})
  BY DEF Good, Steady
<1>1. u \in Sound(n, {})
  BY <1>0, RecvSound
<1>2. CASE s.phy # "SEARCHING" /\ Touches(s, u, {"rxError", "calls"}, {})
  <2> HIDE DEF u
  <2>1. u.fault = s.fault /\ u.pktRX = s.pktRX /\ u.phy = s.phy /\ u.out = s.out
    BY <1>2 DEF Touches, Fields
  <2>2. u \in Steady(n, {})
    BY <1>0, <1>2, <2>1, SteadyKept DEF Aside
  <2> QED BY <1>0, <2>1, <2>2 DEF Good, Receives, u
<1>3. CASE /\ s.phy = "SEARCHING"
           /\ Touches(s, u, {"phy", "ch", "slots", "started", "bk", "pktRX", "rxError", "calls"},
                         {"bk", "ifs", "preRX"})
           /\ PhyTimed(u, {}) /\ ChannelTimed(u, {}) /\ Receives(u)
           /\ u.phy = "PreRXing" /\ u.timer["preRX"] = HeaderDuration
           /\ u.ch \in {"CSnoNAV", "CSNAV"}
           /\ u.bk = "noBackoff" <=> s.bk = "noBackoff"
  <2> HIDE DEF u
  <2>1. /\ u.fault = s.fault /\ u.txc = s.txc /\ u.rxc = s.rxc /\ u.out = s.out
        /\ u.confirm = s.confirm /\ u.pRTS = s.pRTS /\ u.pDATA = s.pDATA /\ u.pCTRL = s.pCTRL
        /\ u.short = s.short /\ u.long = s.long /\ u.cw = s.cw
    BY <1>3 DEF Touches, Fields
  <2>2. \A t \in Timers \ {"bk", "ifs", "preRX"} :
          u.timer[t] = s.timer[t] /\ (Pending(u, t) <=> Pending(s, t))
    BY <1>3 DEF Touches, Pending
  <2>3. ResponseTimed(u, {})
    BY <1>0, <2>1, <2>2, TimerNames DEF Steady, ResponseTimed
  <2>4. TxcOK(u) /\ RxcOK(u)
    BY <1>0, <1>3, <2>1 DEF Steady, TxcOK, RxcOK, Fresh
  <2>5. Confirms(u)
    BY <1>0, <1>3, <2>1 DEF Steady, Confirms
  <2>6. Undisturbed(u)
    <3>1. /\ s.timer["txcSIFS"] <= SIFS /\ s.timer["rxcSIFS"] <= SIFS
          /\ s.timer["txcSIFS"] \in Int /\ s.timer["rxcSIFS"] \in Int
      BY <1>0, TimerValues, TimerNames DEF Steady, ResponseTimed
    <3>2. HeaderDuration > SIFS /\ HeaderDuration \in Int /\ SIFS \in Int
      BY TimingAssumption
    <3>3. u.timer["preRX"] > u.timer["txcSIFS"] /\ u.timer["preRX"] > u.timer["rxcSIFS"]
      BY <1>3, <2>2, <3>1, <3>2, TimerNames
    <3> QED BY <1>3, <3>3 DEF Undisturbed
  <2> QED BY <1>0, <1>1, <1>3, <2>1, <2>3, <2>4, <2>5, <2>6 DEF Good, Steady, u
<1> QED BY <1>0, <1>2, <1>3, RecvEffect

\* Traffic::start hands the first packet to an idle TXC.
LEMMA TrafficStartGood ==
  ASSUME NEW n \in Nodes, NEW s \in Good(n, {}), s.txc = "Idle", NEW in \in AnyInput
  PROVE  LET u == TrafficStart(s, in)
         IN  u \in Good(n, {}) /\ Access(s, u)
<1> DEFINE a == [s EXCEPT !.active = TRUE]
           u == TrafficStart(s, in)
<1>0. s \in Station /\ Receives(s) /\ TxcOK(s) /\ s.fault # "exit"
  BY DEF Good, Steady, Sound
<1>1. Touches(s, a, {"active"}, {})
  BY <1>0 DEF Touches, Fields, Station
<1>2. u = HandleMsgFromUp(a, in)
  BY DEF TrafficStart
<1>3. u \in Sound(n, {})
  BY TrafficSound DEF Good, Steady
<1> HIDE DEF a, u
<1>4. /\ a.fault = s.fault /\ a.pktRX = s.pktRX /\ a.phy = s.phy /\ a.txc = s.txc
      /\ a.ch = s.ch /\ a.out = s.out
  BY <1>1 DEF Touches, Fields
<1>5. a \in Steady(n, {}) /\ Receives(a)
  <2>1. a \in Steady(n, {})
    BY <1>0, <1>1, <1>4, SteadyKept DEF Aside, Good
  <2> QED BY <1>0, <1>4, <2>1 DEF Receives
<1>6. a \in Good(n, {})
  BY <1>5 DEF Good
<1>7. a \in Ready(n, {})
  BY <1>4, <1>5, SteadyReady DEF Senders
<1>8. a.ch = "noCSnoNAV" => MaySend(a, {})
  <2>1. a.ch = "noCSnoNAV" => a.phy = "SEARCHING"
    BY <1>5, IdleSearches DEF Steady
  <2> QED BY <1>6, <2>1, GoodMaySend
<1>9. Fresh(a) /\ a.pRTS = NoFrame
  BY <1>4, <1>5 DEF Steady, TxcOK, Fresh, NoFrame
<1>10. Proceeds(a, u, {})
  <2>1. a \in Sound(n, {}) /\ ChannelTimed(a, {})
    BY <1>5 DEF Steady
  <2> QED BY <1>2, <1>8, <1>9, <2>1, MsgFromUpEffect
<1>11. u \in Steady(n, {}) /\ Receives(u) /\ Access(a, u)
  BY <1>3, <1>5, <1>7, <1>10, ProceedsSteady
<1> QED BY <1>4, <1>11 DEF Good, Access, u

\* Traffic::stop.
LEMMA TrafficStopGood ==
  ASSUME NEW n, NEW s \in Good(n, {})
  PROVE  LET u == TrafficStop(s)
         IN  u \in Good(n, {}) /\ u.out = s.out /\ u.txc = s.txc
<1> DEFINE a == [s EXCEPT !.active = FALSE]
<1>0. s \in Station /\ Receives(s) /\ s.fault # "exit" /\ s \in Steady(n, {})
  BY DEF Good, Steady, Sound
<1>1. Touches(s, a, {"active"}, {})
  BY <1>0 DEF Touches, Fields, Station
<1> HIDE DEF a
<1>2. a.fault = s.fault /\ a.pktRX = s.pktRX /\ a.phy = s.phy /\ a.out = s.out /\ a.txc = s.txc
  BY <1>1 DEF Touches, Fields
<1>3. a \in Steady(n, {})
  BY <1>0, <1>1, <1>2, SteadyKept DEF Aside
<1> QED BY <1>0, <1>2, <1>3 DEF Good, Receives, TrafficStop, a

====
