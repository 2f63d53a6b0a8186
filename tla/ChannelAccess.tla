---------------------------- MODULE ChannelAccess ----------------------------
(***************************************************************************)
(* Carrier sense: the ChannelStateMgr of mac-802_11.cc, and the part of    *)
(* the BackoffMgr it calls when the channel turns busy.  (The part it      *)
(* calls when the channel turns idle can start a transmission: it is in    *)
(* TxCoordination.)                                                        *)
(***************************************************************************)
EXTENDS StationState

\* What one event leaves open: the value Random::uniform_positive_int
\* returns, the packet genPacket would make, and whether the double quotient
\* in pause comes out just below a whole number.
Inputs(maxDraw) ==
    [draw : 0 .. maxDraw, dst : Destinations, size : Sizes, below : BOOLEAN]

\* BackoffTimer_t::pause.  The time since run() is what the timer has used
\* up of remainingSlots_ * tSlot.  That of a timer which is not pending is
\* not kept: such a pause counts as a halt, so that NeverHalts excludes it.
BackoffTimerPause(s, in) ==
    LET elapsed == s.slots * SlotTime - s.timer["bk"]
        whole   == elapsed \div SlotTime
        used    == IF elapsed % SlotTime = 0 /\ elapsed > 0 /\ in.below
                   THEN whole - 1 ELSE whole
    IN  IF ~s.started \/ ~Pending(s, "bk") THEN Exit(s)
        ELSE Cancel([s EXCEPT !.slots = @ - used, !.started = FALSE], "bk")

\* BackoffMgr::handleCSBUSY.
HandleCSBUSY(s, in) ==
    IF s.bk = "BackoffRunning"
    THEN [BackoffTimerPause(s, in) EXCEPT !.bk = "BackoffPause"]
    ELSE s

\* ChannelStateMgr::setIFS: a running IFS wait restarts with the new value.
SetIFS(s, tifs) ==
    IF Pending(s, "ifs")
    THEN Sched(Cancel([s EXCEPT !.ifsValue = tifs], "ifs"), "ifs", tifs)
    ELSE [s EXCEPT !.ifsValue = tifs]

\* ifsTimer_ is cancelled only when it is pending.
StopIFS(s) == IF Pending(s, "ifs") THEN Cancel(s, "ifs") ELSE s

\* Faulty variant: the IFS wait goes on over a busy channel.
HandlePHYBusyIndication_ifsRuns(s, in) ==
    CASE s.ch = "noCSnoNAV" -> [HandleCSBUSY(s, in) EXCEPT !.ch = "CSnoNAV"]
      [] s.ch = "noCSNAV"   -> [s EXCEPT !.ch = "CSNAV"]
      [] s.ch = "WIFS"      -> [s EXCEPT !.ch = "CSnoNAV"]
      [] OTHER              -> s

\* Faulty variant: the backoff is not told.
HandlePHYBusyIndication_silent(s, in) ==
    CASE s.ch = "noCSnoNAV" -> [s EXCEPT !.ch = "CSnoNAV"]
      [] s.ch = "noCSNAV"   -> [s EXCEPT !.ch = "CSNAV"]
      [] s.ch = "WIFS"      -> [StopIFS(s) EXCEPT !.ch = "CSnoNAV"]
      [] OTHER              -> s

\* ChannelStateMgr::handlePHYBusyIndication.
HandlePHYBusyIndication(s, in) ==
    CASE s.ch = "noCSnoNAV" -> [HandleCSBUSY(s, in) EXCEPT !.ch = "CSnoNAV"]
      [] s.ch = "noCSNAV"   -> [s EXCEPT !.ch = "CSNAV"]
      [] s.ch = "WIFS"      -> [StopIFS(s) EXCEPT !.ch = "CSnoNAV"]
      [] OTHER              -> s

\* ChannelStateMgr::handlePHYIdleIndication.
HandlePHYIdleIndication(s) ==
    CASE s.ch = "CSnoNAV" -> [Sched(s, "ifs", s.ifsValue) EXCEPT !.ch = "WIFS"]
      [] s.ch = "CSNAV"   -> [s EXCEPT !.ch = "noCSNAV"]
      [] OTHER            -> s

\* Faulty variant: the IFS wait goes on under a NAV.
HandleSetNAV_ifsRuns(s, t, in) ==
    CASE s.ch = "noCSnoNAV" ->
            [HandleCSBUSY(Sched(s, "nav", t), in) EXCEPT !.ch = "noCSNAV"]
      [] s.ch = "CSnoNAV" -> [Sched(s, "nav", t) EXCEPT !.ch = "CSNAV"]
      [] s.ch \in {"noCSNAV", "CSNAV"} ->
            IF t > s.timer["nav"] THEN Sched(Cancel(s, "nav"), "nav", t) ELSE s
      [] s.ch = "WIFS" -> [Sched(s, "nav", t) EXCEPT !.ch = "noCSNAV"]

\* Faulty variant: the duration is added to what is left of the NAV.
HandleSetNAV_adds(s, t, in) ==
    CASE s.ch = "noCSnoNAV" ->
            [HandleCSBUSY(Sched(s, "nav", t), in) EXCEPT !.ch = "noCSNAV"]
      [] s.ch = "CSnoNAV" -> [Sched(s, "nav", t) EXCEPT !.ch = "CSNAV"]
      [] s.ch \in {"noCSNAV", "CSNAV"} -> Sched(Cancel(s, "nav"), "nav", t + s.timer["nav"])
      [] s.ch = "WIFS" ->
            [StopIFS(Sched(s, "nav", t)) EXCEPT !.ch = "noCSNAV"]

\* ChannelStateMgr::handleSetNAV.  NAVTimer::remaining is the time left on
\* navTimer_.
HandleSetNAV(s, t, in) ==
    CASE s.ch = "noCSnoNAV" ->
            [HandleCSBUSY(Sched(s, "nav", t), in) EXCEPT !.ch = "noCSNAV"]
      [] s.ch = "CSnoNAV" -> [Sched(s, "nav", t) EXCEPT !.ch = "CSNAV"]
      [] s.ch \in {"noCSNAV", "CSNAV"} ->
            IF t > s.timer["nav"] THEN Sched(Cancel(s, "nav"), "nav", t) ELSE s
      [] s.ch = "WIFS" ->
            [StopIFS(Sched(s, "nav", t)) EXCEPT !.ch = "noCSNAV"]

\* Faulty variant: the end of the NAV forgets that the PHY is busy.
HandleNAVTimer_forgetsCS(s) ==
    IF s.ch \in {"noCSNAV", "CSNAV"}
    THEN [Sched(s, "ifs", s.ifsValue) EXCEPT !.ch = "WIFS"] ELSE Exit(s)

\* ChannelStateMgr::handleNAVTimer.
HandleNAVTimer(s) ==
    CASE s.ch = "noCSNAV" -> [Sched(s, "ifs", s.ifsValue) EXCEPT !.ch = "WIFS"]
      [] s.ch = "CSNAV"   -> [s EXCEPT !.ch = "CSnoNAV"]
      [] OTHER            -> Exit(s)
=============================================================================
