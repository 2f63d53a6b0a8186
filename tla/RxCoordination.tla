--------------------------- MODULE RxCoordination ---------------------------
(***************************************************************************)
(* The reception side of mac-802_11.cc: RXC, the duplicate filter, and the *)
(* two PHY timeouts that end a transmission and a reception.               *)
(***************************************************************************)
EXTENDS TxCoordination

\* Faulty variant: no duplicate detection.
RecvDATA_noFilter(s, p) == [s EXCEPT !.up = p]

\* Faulty variant: the cache is written before it is compared.
RecvDATA_writesFirst(s, p) == [s EXCEPT !.cache[p.src] = p.seq]

\* Mac802_11::recvDATA.  A cache entry of 0 means "nothing received yet".  A
\* duplicate is discarded here, any other packet by Traffic::recv.  The branch
\* of a sender beyond the cache (mac-802_11.cc:533), which only logs, is left
\* out: the cache has an entry for every address (EveryAddressIsAStation).
RecvDATA(s, p) ==
    IF p.dst # Broadcast /\ s.cache[p.src] # 0 /\ s.cache[p.src] = p.seq
    THEN Free(s, "pktRX")
    ELSE [Free(s, "pktRX") EXCEPT
            !.up = p,
            !.cache = IF p.dst = Broadcast THEN @ ELSE [@ EXCEPT ![p.src] = p.seq]]

\* RXC::handleMsgFromBelow, case RTS: no answer while a NAV is set.  mac_log
\* frees the packet.
ReceiveRTS(s, p) ==
    IF s.ch \in {"CSNAV", "noCSNAV"}
    THEN [Free(s, "pktRX") EXCEPT !.rxc = "Idle"]
    ELSE [Sched(Free([Alloc(s, "pCTRL") EXCEPT !.pCTRL = CTSFrame(s.id, p)], "pktRX"),
                "rxcSIFS", SIFS)
          EXCEPT !.rxc = "wait_SIFS"]

\* Faulty variant: the ACK waits an EIFS.
ReceiveDATA_late(s, p) ==
    IF p.dst = s.id
    THEN [RecvDATA(Sched([s EXCEPT !.pCTRL = ACKFrame(s.id, p)], "rxcSIFS", EIFS), p)
          EXCEPT !.rxc = "wait_SIFS"]
    ELSE [RecvDATA(s, p) EXCEPT !.rxc = "Idle"]

\* RXC::handleMsgFromBelow, case DATA: the ACK is prepared before the frame
\* is looked up as a duplicate.
ReceiveDATA(s, p) ==
    IF p.dst = s.id
    THEN [RecvDATA(Sched([Alloc(s, "pCTRL") EXCEPT !.pCTRL = ACKFrame(s.id, p)], "rxcSIFS", SIFS), p)
          EXCEPT !.rxc = "wait_SIFS"]
    ELSE [RecvDATA(s, p) EXCEPT !.rxc = "Idle"]

\* RXC::handleMsgFromBelow.
HandleMsgFromBelow(s, p, in) ==
    CASE p.kind = "ACK"  -> [Free(HandleACKIndication(s, in), "pktRX") EXCEPT !.rxc = "Idle"]
      [] p.kind = "CTS"  -> [Free(HandleCTSIndication(s), "pktRX") EXCEPT !.rxc = "Idle"]
      [] p.kind = "RTS"  -> ReceiveRTS(s, p)
      [] p.kind = "DATA" -> ReceiveDATA(s, p)
      [] OTHER -> LogicError(s)

\* RXC::handleSIFStimeout: the answer goes out whatever the channel does.
HandleRXCSIFStimeout(s, in) ==
    [IF s.pCTRL # NoFrame THEN Transmit(s, s.pCTRL, "RXC", in) ELSE s
     EXCEPT !.rxc = "wait_sent"]

\* RXC::handleTXConfirm.  Packet::free of a null pointer crashes.
HandleRXCTXConfirm(s) ==
    IF s.pCTRL = NoFrame THEN Exit(s)
    ELSE [Free(s, "pCTRL") EXCEPT !.pCTRL = NoFrame, !.rxc = "Idle"]

\* Mac802_11::handleRXEndIndication.  No packet (a collision) and a frame
\* with bit errors make the next IFS an EIFS; a frame for another station
\* sets the NAV.  Only DATA frames have bit errors.
HandleRXEndIndication(s, p, error, in) ==
    LET t == SetIFS(s, DIFS)
    IN  IF error THEN SetIFS(s, EIFS)
        ELSE IF p.kind = "DATA" /\ p.bad THEN SetIFS(Free(t, "pktRX"), EIFS)
        ELSE IF p.dst \in {s.id, Broadcast} THEN HandleMsgFromBelow(t, p, in)
        ELSE Free(HandleSetNAV(t, p.dur, in), "pktRX")

\* WirelessPhy::handle_RXtimeout: the MAC hears of the idle channel first,
\* of the frame second.  A damaged packet is discarded before that.
HandleRXtimeout(s, in) ==
    IF s.phy # "RXing" THEN Exit(s)
    ELSE [LET idle == SetState(s, "SEARCHING", in)
          IN  HandleRXEndIndication(IF s.rxError THEN Free(idle, "pktRX") ELSE idle,
                                    s.pktRX, s.rxError, in)
          EXCEPT !.pktRX = NoFrame, !.rxError = FALSE]

\* WirelessPhy::handle_TXtimeout with Mac802_11::handleTXEndIndication: the
\* other way round, the MAC's handler runs while the PHY is still TXing.
HandleTXtimeout(s, in) ==
    IF s.phy # "TXing" THEN Exit(s)
    ELSE SetState(IF s.confirm = "TXC" THEN HandleTXConfirm(s, in)
                                       ELSE HandleRXCTXConfirm(s),
                  "SEARCHING", in)

\* The expire function of each timer.
Expire(s, t, in) ==
    CASE t = "tX"      -> HandleTXtimeout(s, in)
      [] t = "rX"      -> HandleRXtimeout(s, in)
      [] t = "preRX"   -> HandlePreRXtimeout(s, in)
      [] t = "ifs"     -> HandleIFSTimer(s, in)
      [] t = "nav"     -> HandleNAVTimer(s)
      [] t = "bk"      -> BackoffTimerExpire(s, in)
      [] t = "txcCTS"  -> HandleTCTStimeout(s, in)
      [] t = "txcSIFS" -> HandleTXCSIFStimeout(s, in)
      [] t = "txcACK"  -> HandleTACKtimeout(s, in)
      [] t = "rxcSIFS" -> HandleRXCSIFStimeout(s, in)

\* TimerHandler::handle around it.
HandleTimer(s, t, in) == EndExpire(Expire(BeginExpire(s, t), t, in), t)
=============================================================================
