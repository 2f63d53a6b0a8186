--------------------------- MODULE TxCoordination ---------------------------
(***************************************************************************)
(* The transmission side of mac-802_11.cc: TXC, and the part of the        *)
(* BackoffMgr that ends in it.  A backoff that is over starts the pending  *)
(* transmission in the same call; a packet that is served makes checkQueue *)
(* call the Traffic source, which hands down the next one in the same      *)
(* call.                                                                   *)
(***************************************************************************)
EXTENDS WirelessPhy

\* Mac802_11::transmit: whose end of transmission it is is noted first.  A
\* null packet is a crash.  A copy goes down, the packet is kept for a retry.
Transmit(s, p, who, in) ==
    IF p = NoFrame THEN Exit(s)
    ELSE SendDown(Alloc([s EXCEPT !.confirm = who], "sent"), p, in)

-----------------------------------------------------------------------------
(* Backoff *)

\* TXC::handleBKDone, reached through BackoffMgr::BKDone.
HandleBKDone(s, in) ==
    CASE s.txc = "RTS_pending" ->
            [Transmit(s, s.pRTS, "TXC", in) EXCEPT !.txc = "wait_RTSsent"]
      [] s.txc = "DATA_pending" ->
            [Transmit(s, s.pDATA, "TXC", in) EXCEPT !.txc = "wait_PDUsent"]
      [] s.txc \in {"Idle", "wait_CTS", "wait_ACK"} -> s
      [] OTHER -> LogicError(s)

\* BackoffMgr::handleBackoffTimer.
HandleBackoffTimer(s, in) ==
    IF s.bk = "BackoffRunning"
    THEN HandleBKDone([s EXCEPT !.bk = "noBackoff"], in)
    ELSE Exit(s)

\* BackoffTimer_t::expire.
BackoffTimerExpire(s, in) == HandleBackoffTimer([s EXCEPT !.slots = -1], in)

\* BackoffTimer_t::run.
BackoffTimerRun(s, in) ==
    IF s.slots = 0
    THEN HandleBackoffTimer([s EXCEPT !.slots = -1], in)
    ELSE Sched([s EXCEPT !.started = TRUE], "bk", s.slots * SlotTime)

\* BackoffMgr::handleCSIDLE.
HandleCSIDLE(s, in) ==
    CASE s.bk = "BackoffPause" ->
            BackoffTimerRun([s EXCEPT !.bk = "BackoffRunning"], in)
      [] s.bk = "noBackoff" -> s
      [] OTHER -> Exit(s)

\* ChannelStateMgr::handleIFSTimer.
HandleIFSTimer(s, in) ==
    IF s.ch = "WIFS" THEN HandleCSIDLE([s EXCEPT !.ch = "noCSnoNAV"], in)
    ELSE Exit(s)

\* BackoffTimer_t::init: Random::integer(CW + 1).
BackoffTimerInit(s, in) ==
    [s EXCEPT !.slots = in.draw % (s.cw + 1), !.started = FALSE]

\* Faulty variant: the backoff starts without a look at the channel.
HandleBKStart_ignoresChannel(s, in) ==
    LET t == BackoffTimerInit(s, in)
    IN  IF s.bk # "noBackoff" THEN s
        ELSE BackoffTimerRun([t EXCEPT !.bk = "BackoffRunning"], in)

\* BackoffMgr::handleBKStart, always called with cw_.
HandleBKStart(s, in) ==
    LET t == BackoffTimerInit(s, in)
    IN  IF s.bk # "noBackoff" THEN s
        ELSE IF s.ch # "noCSnoNAV" THEN [t EXCEPT !.bk = "BackoffPause"]
        ELSE IF t.slots = 0 THEN HandleBKDone(t, in)
        ELSE BackoffTimerRun([t EXCEPT !.bk = "BackoffRunning"], in)

-----------------------------------------------------------------------------
(* Packets from the upper layer *)

\* TXC::prepareMPDU of the packet Traffic::genPacket made; sta_seqno_ is a
\* u_int16_t.
PrepareMPDU(s, in) ==
    [Alloc(s, "pDATA") EXCEPT !.pDATA = DataFrame(s.id, in.dst, in.size, s.seqno),
                              !.seqno = (@ + 1) % SeqMod]

\* The end of TXC::handleMsgFromUp: transmit at once, or wait for a backoff.
StartService(s, in) ==
    LET pending == IF s.pRTS # NoFrame THEN "RTS_pending" ELSE "DATA_pending"
    IN  IF s.bk = "noBackoff" /\ s.ch = "noCSnoNAV"
        THEN IF s.pRTS # NoFrame
             THEN [Transmit(s, s.pRTS, "TXC", in) EXCEPT !.txc = "wait_RTSsent"]
             ELSE [Transmit(s, s.pDATA, "TXC", in) EXCEPT !.txc = "wait_PDUsent"]
        ELSE IF s.bk = "noBackoff"
        THEN HandleBKStart([s EXCEPT !.txc = pending], in)
        ELSE [s EXCEPT !.txc = pending]

\* TXC::handleMsgFromUp, called by Mac802_11::recv, which keeps the handler.
HandleMsgFromUp(s, in) ==
    LET p == PrepareMPDU([s EXCEPT !.callback = TRUE], in)
    IN  StartService(IF NeedsRTS(p.pDATA)
                     THEN [Alloc(p, "pRTS") EXCEPT !.pRTS = RTSFrame(p.id, p.pDATA)]
                     ELSE p, in)

\* Faulty variant: the callback is forgotten before it is looked at.
CheckQueue_forgets(s, in) ==
    LET idle == [s EXCEPT !.txc = "Idle", !.callback = FALSE]
    IN  IF idle.callback /\ s.active THEN HandleMsgFromUp(idle, in) ELSE idle

\* TXC::checkQueue and the callback, Traffic::recv(0): a stopped source has
\* no further packet.
CheckQueue(s, in) ==
    LET idle == [s EXCEPT !.txc = "Idle", !.callback = FALSE]
    IN  IF s.callback /\ s.active THEN HandleMsgFromUp(idle, in) ELSE idle

\* Traffic::start and Traffic::stop.
TrafficStart(s, in) == HandleMsgFromUp([s EXCEPT !.active = TRUE], in)
TrafficStop(s) == [s EXCEPT !.active = FALSE]

-----------------------------------------------------------------------------
(* The handlers of TXC *)

\* Mac802_11::inc_cw.
IncCW(s) ==
    [s EXCEPT !.cw = IF 2 * @ + 1 > CWMax THEN CWMax ELSE 2 * @ + 1]

\* TXC::handleTXConfirm, which reads the header of pDATA first.
HandleTXConfirm(s, in) ==
    CASE s.pDATA = NoFrame -> Exit(s)
      [] s.txc = "wait_PDUsent" /\ s.pDATA.dst # Broadcast ->
            [Sched(s, "txcACK", ACKTimeout) EXCEPT !.txc = "wait_ACK"]
      [] s.txc = "wait_PDUsent" /\ s.pDATA.dst = Broadcast ->
            CheckQueue(HandleBKStart([Free(s, "pDATA") EXCEPT !.pDATA = NoFrame,
                                                              !.done = "sent"], in), in)
      [] s.txc = "wait_RTSsent" ->
            [Sched(s, "txcCTS", CTSTimeout) EXCEPT !.txc = "wait_CTS"]
      [] OTHER -> LogicError(s)

\* Faulty variant: the RTS is kept.
HandleCTSIndication_keepsRTS(s) ==
    IF s.txc = "wait_CTS"
    THEN Sched([Cancel(s, "txcCTS") EXCEPT !.short = 0, !.txc = "wait_SIFS"],
               "txcSIFS", SIFS)
    ELSE LogicError(s)

\* Faulty variant: the CTS timer is not cancelled.
HandleCTSIndication_timerRuns(s) ==
    IF s.txc = "wait_CTS"
    THEN Sched([s EXCEPT !.pRTS = NoFrame, !.short = 0, !.txc = "wait_SIFS"],
               "txcSIFS", SIFS)
    ELSE LogicError(s)

\* TXC::handleCTSIndication.
HandleCTSIndication(s) ==
    IF s.txc = "wait_CTS"
    THEN Sched([Cancel(Free(s, "pRTS"), "txcCTS") EXCEPT
                   !.pRTS = NoFrame, !.short = 0, !.txc = "wait_SIFS"],
               "txcSIFS", SIFS)
    ELSE LogicError(s)

\* Faulty variant: the contention window is not reset.
FinishPacket_keepsCW(s, how, in) ==
    CheckQueue(HandleBKStart([s EXCEPT !.pDATA = NoFrame, !.short = 0, !.long = 0,
                                       !.done = how], in), in)

\* The common end of a packet that is acknowledged or given up: counters and
\* contention window start afresh, a post backoff, the next packet.
FinishPacket(s, how, in) ==
    IF s.pDATA = NoFrame THEN Exit(s)
    ELSE CheckQueue(HandleBKStart([Free(s, "pDATA") EXCEPT
                                       !.pDATA = NoFrame, !.short = 0,
                                       !.long = 0, !.cw = CWMin,
                                       !.done = how], in), in)

\* Faulty variant: a retry does not ask for a backoff.
HandleTCTStimeout_noBackoff(s, in) ==
    LET t == IncCW([s EXCEPT !.short = @ + 1])
    IN  IF s.txc # "wait_CTS" THEN LogicError(s)
        ELSE IF t.short >= ShortRetryLimit
        THEN FinishPacket([t EXCEPT !.pRTS = NoFrame], "dropped", in)
        ELSE [t EXCEPT !.txc = "RTS_pending"]

\* TXC::handleTCTStimeout.
HandleTCTStimeout(s, in) ==
    LET t == IncCW([s EXCEPT !.short = @ + 1])
    IN  IF s.txc # "wait_CTS" THEN LogicError(s)
        ELSE IF t.short >= ShortRetryLimit
        THEN FinishPacket([Free(t, "pRTS") EXCEPT !.pRTS = NoFrame], "dropped", in)
        ELSE HandleBKStart([t EXCEPT !.txc = "RTS_pending"], in)

\* TXC::handleSIFStimeout.
HandleTXCSIFStimeout(s, in) ==
    IF s.txc = "wait_SIFS"
    THEN [Transmit(s, s.pDATA, "TXC", in) EXCEPT !.txc = "wait_PDUsent"]
    ELSE LogicError(s)

\* Faulty variant: the retry is not counted.
HandleTACKtimeout_uncounted(s, in) ==
    IF s.txc # "wait_ACK" THEN LogicError(s)
    ELSE HandleBKStart([IncCW(s) EXCEPT !.txc = "DATA_pending"], in)

\* TXC::handleTACKtimeout: frames up to the RTS threshold count against the
\* short limit, longer ones against the long limit.
HandleTACKtimeout(s, in) ==
    LET long  == s.pDATA.len > RTSThreshold
        t     == IncCW(IF long THEN [s EXCEPT !.long = @ + 1]
                               ELSE [s EXCEPT !.short = @ + 1])
        spent == IF long THEN t.long >= LongRetryLimit
                         ELSE t.short >= ShortRetryLimit
    IN  IF s.txc # "wait_ACK" THEN LogicError(s)
        ELSE IF spent THEN FinishPacket(t, "dropped", in)
        ELSE HandleBKStart(
                IF NeedsRTS(s.pDATA)
                THEN [Alloc(t, "pRTS") EXCEPT !.pRTS = RTSFrame(s.id, s.pDATA),
                                              !.txc = "RTS_pending"]
                ELSE [t EXCEPT !.txc = "DATA_pending"], in)

\* Faulty variant: the ACK timer is not cancelled.
HandleACKIndication_timerRuns(s, in) ==
    IF s.txc = "wait_ACK" THEN FinishPacket(s, "acked", in) ELSE LogicError(s)

\* TXC::handleACKIndication.
HandleACKIndication(s, in) ==
    IF s.txc = "wait_ACK" THEN FinishPacket(Cancel(s, "txcACK"), "acked", in)
    ELSE LogicError(s)
=============================================================================
