---------------------------- MODULE StationState ----------------------------
(***************************************************************************)
(* The state of one station - WirelessPhy, Mac802_11 with its four         *)
(* modules, and the Traffic source above it - as one record, and the       *)
(* TimerHandler operations on its ten timers.                              *)
(*                                                                         *)
(* Every C++ member function is an operator from the record before the     *)
(* call to the record after it, so that a chain of synchronous calls       *)
(* (a timer's expire down to Channel::recv and back) is one step, with     *)
(* the order of its assignments kept.                                      *)
(***************************************************************************)
EXTENDS MacFrames, Sequences

CONSTANTS CWMin, CWMax, ShortRetryLimit, LongRetryLimit   \* MAC_MIB

ASSUME MibAssumption ==
    /\ CWMin \in Nat /\ CWMax \in Nat /\ CWMin <= CWMax
    /\ ShortRetryLimit \in Nat \ {0} /\ LongRetryLimit \in Nat \ {0}

PhyTimers == {"tX", "rX", "preRX"}
MacTimers == {"ifs", "nav", "bk", "txcCTS", "txcSIFS", "txcACK", "rxcSIFS"}
Timers == PhyTimers \cup MacTimers

\* A timer is idle, being handled, or pending: then its value is the time
\* left until it expires.
TimerIdle == -1
TimerHandling == -2

PhyStates == {"SEARCHING", "PreRXing", "RXing", "TXing"}
ChannelStates == {"noCSnoNAV", "noCSNAV", "CSnoNAV", "CSNAV", "WIFS"}
BackoffStates == {"noBackoff", "BackoffRunning", "BackoffPause"}
TXCStates == {"Idle", "wait_RTSsent", "wait_PDUsent", "RTS_pending",
              "DATA_pending", "wait_CTS", "wait_SIFS", "wait_ACK"}
RXCStates == {"Idle", "wait_SIFS", "wait_sent"}

\* The packet pool (packet.cc): the pointers that own a packet - the four of
\* the station's modules, the copy transmit hands down, the packet whose
\* arrival is dispatched - and the calls that are made for them: alloc (or
\* copy), free, and send, the call of Channel::recv.
Slots == {"pDATA", "pRTS", "pCTRL", "pktRX", "sent", "arrived"}
PoolCalls == {"alloc", "free", "send"} \X Slots

\* fault "exit" is a call of exit or abort, which ends the program, "logic" a
\* logic error that is printed and survived.  out, up and done record what
\* the last step handed to the channel, to the upper layer, and how it ended
\* the service of a packet; the program keeps none of the three.
Station ==
    [ id       : Nodes,
      phy      : PhyStates,      \* WirelessPhy::state
      pktRX    : Frame,          \* WirelessPhy::pkt_RX
      rxError  : BOOLEAN,        \* hdr_cmn::error_ of pkt_RX
      ch       : ChannelStates,  \* ChannelStateMgr::channel_state_
      ifsValue : Nat,            \* ChannelStateMgr::ifs_value_
      bk       : BackoffStates,  \* BackoffMgr::bk_state_
      slots    : Int,            \* BackoffTimer_t::remainingSlots_
      started  : BOOLEAN,        \* BackoffTimer_t::startTime # -1.0
      txc      : TXCStates,      \* TXC::txc_state_
      pRTS     : Frame,          \* TXC::pRTS
      pDATA    : Frame,          \* TXC::pDATA
      short    : Nat,            \* TXC::shortretrycounter
      long     : Nat,            \* TXC::longretrycounter
      rxc      : RXCStates,      \* RXC::rxc_state_
      pCTRL    : Frame,          \* RXC::pCTRL
      confirm  : {"TXC", "RXC"}, \* Mac802_11::txConfirmCallback_
      cw       : Nat,            \* Mac802_11::cw_
      seqno    : 0 .. SeqMod - 1,             \* Mac802_11::sta_seqno_
      cache    : [Nodes -> 0 .. SeqMod - 1],  \* Mac802_11::cache_
      callback : BOOLEAN,        \* Mac802_11::callback_ # 0
      active   : BOOLEAN,        \* Traffic::active_
      timer    : [Timers -> Int],
      out      : Frame,
      up       : Frame,
      done     : {"none", "acked", "dropped", "sent"},
      calls    : Seq(PoolCalls),
      fault    : {"none", "logic", "exit"} ]

\* The constructors of WirelessPhy, Mac802_11 and its modules.
InitStation(n) ==
    [ id |-> n, phy |-> "SEARCHING", pktRX |-> NoFrame, rxError |-> FALSE,
      ch |-> "noCSnoNAV", ifsValue |-> EIFS,
      bk |-> "noBackoff", slots |-> -1, started |-> FALSE,
      txc |-> "Idle", pRTS |-> NoFrame, pDATA |-> NoFrame,
      short |-> 0, long |-> 0,
      rxc |-> "Idle", pCTRL |-> NoFrame, confirm |-> "TXC", cw |-> CWMin,
      seqno |-> 1, cache |-> [m \in Nodes |-> 0],
      callback |-> FALSE, active |-> FALSE,
      timer |-> [t \in Timers |-> TimerIdle],
      out |-> NoFrame, up |-> NoFrame, done |-> "none",
      calls |-> <<>>, fault |-> "none" ]

\* exit(1), exit(-1), abort() and failed assertions.
Exit(s) == [s EXCEPT !.fault = "exit"]

\* "logic error at ..." on stdout, and the handler returns.
LogicError(s) == [s EXCEPT !.fault = IF @ = "exit" THEN @ ELSE "logic"]

\* A call of the packet pool on behalf of a pointer.
PoolCall(s, op, slot) == [s EXCEPT !.calls = Append(@, <<op, slot>>)]
Alloc(s, slot) == PoolCall(s, "alloc", slot)
Free(s, slot) == PoolCall(s, "free", slot)

Pending(s, t) == s.timer[t] >= 0

\* TimerHandler::sched.
Sched(s, t, delay) ==
    IF s.timer[t] = TimerIdle THEN [s EXCEPT !.timer[t] = delay] ELSE Exit(s)

\* TimerHandler::cancel.
Cancel(s, t) ==
    IF Pending(s, t) THEN [s EXCEPT !.timer[t] = TimerIdle] ELSE Exit(s)

\* TimerHandler::handle, before and after the call of expire.  What the last
\* step handed out is forgotten.
BeginExpire(s, t) ==
    [s EXCEPT !.timer[t] = TimerHandling, !.out = NoFrame, !.up = NoFrame,
              !.done = "none", !.fault = "none"]
EndExpire_stays(s, t) == s   \* Faulty variant: the status stays TIMER_HANDLING.
EndExpire(s, t) ==
    IF s.timer[t] = TimerHandling THEN [s EXCEPT !.timer[t] = TimerIdle] ELSE s

\* The scheduler's clock moves on by dt: every pending timer is dt nearer.  The
\* calls of the step before are over.
Elapse(s, dt) ==
    [s EXCEPT !.timer = [t \in Timers |-> IF @[t] >= 0 THEN @[t] - dt ELSE @[t]],
              !.calls = <<>>]
=============================================================================
