----------------------------- MODULE WirelessPhy -----------------------------
(***************************************************************************)
(* wireless-phy.cc: the four-state radio.  The two timeouts that call into *)
(* the MAC's transmission and reception modules, handle_TXtimeout and      *)
(* handle_RXtimeout, are in module RxCoordination.                         *)
(***************************************************************************)
EXTENDS ChannelAccess

\* WirelessPhy::setState: the MAC hears of the change before it is made.
SetState(s, new, in) ==
    IF s.phy = "SEARCHING" /\ new # "SEARCHING"
    THEN [HandlePHYBusyIndication(s, in) EXCEPT !.phy = new]
    ELSE IF s.phy # "SEARCHING" /\ new = "SEARCHING"
    THEN [HandlePHYIdleIndication(s) EXCEPT !.phy = new]
    ELSE [s EXCEPT !.phy = new]

\* Faulty variant: the reception goes on under a transmission.
AbortReception_keepsTimers(s) == [s EXCEPT !.pktRX = NoFrame]

\* The switch at the head of sendDown: a reception is given up.
AbortReception(s) ==
    CASE s.phy = "RXing"    -> [Free(Cancel(s, "rX"), "pktRX") EXCEPT !.pktRX = NoFrame]
      [] s.phy = "PreRXing" -> [Free(Cancel(s, "preRX"), "pktRX") EXCEPT !.pktRX = NoFrame]
      [] OTHER              -> s

\* WirelessPhy::sendDown: the frame goes to the channel at once, the end of
\* the transmission is the PHY's own timer.
SendDown(s, p, in) ==
    IF s.phy = "TXing"
    THEN Exit(s)
    ELSE [PoolCall(Sched(SetState(AbortReception(s), "TXing", in),
                         "tX", TxTime(p.len) + PropagationDelay(p)),
                   "send", "sent")
          EXCEPT !.out = p]

\* Faulty variant: a collision in the header sends the PHY back to SEARCHING.
SendUp_searchesAgain(s, p, in) ==
    CASE s.phy = "TXing" -> s
      [] s.phy = "SEARCHING" ->
            Sched(SetState([s EXCEPT !.pktRX = p, !.rxError = FALSE],
                           "PreRXing", in),
                  "preRX", HeaderDuration)
      [] s.phy = "PreRXing" -> SetState(Cancel(s, "preRX"), "SEARCHING", in)
      [] s.phy = "RXing" -> [s EXCEPT !.rxError = TRUE]

\* WirelessPhy::sendUp: only the frame found while searching is received, from
\* a copy of its packet; a frame on top of it marks it as damaged and is
\* discarded.
SendUp(s, p, in) ==
    CASE s.phy = "TXing" -> Free(s, "arrived")
      [] s.phy = "SEARCHING" ->
            Sched(SetState([Alloc(s, "pktRX") EXCEPT !.pktRX = p, !.rxError = FALSE],
                           "PreRXing", in),
                  "preRX", HeaderDuration)
      [] s.phy \in {"PreRXing", "RXing"} ->
            Free([s EXCEPT !.rxError = TRUE], "arrived")

\* Faulty variant: the packet sendUp looked at is not freed.
Recv_keeps(s, p, in) == SendUp(s, p, in)

\* WirelessPhy::recv, case UP: sendUp always returns 0, so the packet is freed
\* here too, the second time if sendUp has discarded it.
Recv(s, p, in) == Free(SendUp(s, p, in), "arrived")

\* WirelessPhy::handle_PreRXtimeout.
HandlePreRXtimeout(s, in) ==
    IF s.phy # "PreRXing" \/ s.pktRX = NoFrame
    THEN Exit(s)
    ELSE Sched(SetState(s, "RXing", in), "rX", TxTime(s.pktRX.len) - HeaderDuration)
=============================================================================
