---------------------------- MODULE StationLemmas ----------------------------
(***************************************************************************)
(* What every member function of a station preserves, whatever state calls *)
(* it: the types, the range of the timers, and the agreement of PHY,       *)
(* channel state and backoff.  One lemma per operator, in the order of the *)
(* calls, for use about a station alone and about a network of them.       *)
(***************************************************************************)
EXTENDS RxCoordination, TLAPS

\* The states of station n in which h is the set of timers being handled: the
\* inductive strengthening of TypeOK, CarrierSenseFollowsPhy and
\* BackoffFollowsChannel.  The last two conjuncts are what it adds: without
\* them a pause could leave a negative number of slots, and a later run would
\* schedule the backoff timer into the past.
Sound(n, h) ==
    { s \in Station :
        /\ s.id = n
        /\ \A t \in Timers : \/ s.timer[t] >= TimerIdle
                             \/ t \in h /\ s.timer[t] = TimerHandling
        /\ s.phy = "SEARCHING" <=> s.ch \in {"noCSnoNAV", "noCSNAV", "WIFS"}
        /\ s.bk = "BackoffRunning" => s.ch = "noCSnoNAV"
        /\ s.bk = "BackoffPause" => s.ch # "noCSnoNAV"
        /\ s.bk # "noBackoff" => s.slots >= 0
        /\ Pending(s, "bk") => s.bk = "BackoffRunning" /\ s.started }

\* The states between two assignments in which no backoff runs, whatever PHY
\* and channel state say.
Calm(n, h) ==
    { s \in Station :
        /\ s.id = n
        /\ \A t \in Timers : \/ s.timer[t] >= TimerIdle
                             \/ t \in h /\ s.timer[t] = TimerHandling
        /\ s.bk # "BackoffRunning" /\ ~Pending(s, "bk")
        /\ s.bk # "noBackoff" => s.slots >= 0 }

-----------------------------------------------------------------------------
(* Frames *)

\* DIFS and EIFS are durations.
LEMMA IfsType == DIFS \in Nat /\ EIFS \in Nat
BY TimingAssumption DEF DIFS, EIFS, TxTime, ACKlen, ByteTime

\* An air time is a duration that reaches past the header.
LEMMA AirTime ==
  ASSUME NEW len \in Nat
  PROVE  TxTime(len) \in Nat /\ TxTime(len) - HeaderDuration \in Nat
BY TimingAssumption DEF TxTime, ByteTime

\* The response timers wait for durations.
LEMMA TimeoutType == CTSTimeout \in Nat /\ ACKTimeout \in Nat
BY AirTime, TimingAssumption DEF CTSTimeout, ACKTimeout, CTSlen, ACKlen

\* The conversion to a duration field yields a natural number.
LEMMA UsecType ==
  ASSUME NEW t \in Int
  PROVE  Usec(t) \in Nat
BY DEF Usec

\* The delay of a frame is a duration.
LEMMA DelayType ==
  ASSUME NEW p \in Frame
  PROVE  PropagationDelay(p) \in Nat
BY TimingAssumption DEF PropagationDelay

\* NoFrame is a frame.
LEMMA NoFrameType == NoFrame \in Frame
BY DEF Frame

\* The fields of a frame, the one that stands for no frame included.
LEMMA FrameFields ==
  ASSUME NEW p \in Frame
  PROVE  /\ p.src \in Addresses /\ p.dst \in Addresses /\ p.seq \in 0 .. SeqMod - 1
         /\ p.dur \in Nat /\ p.len \in Nat /\ p.bad \in BOOLEAN
         /\ p.kind \in Kinds <=> p # NoFrame
         /\ p.kind = "none" <=> p = NoFrame
<1>1. CASE p = NoFrame
  <2>1. /\ p.kind = "none" /\ p.src = Broadcast /\ p.dst = Broadcast
        /\ p.seq = 0 /\ p.dur = 0 /\ p.len = 0 /\ p.bad = FALSE
    BY <1>1 DEF NoFrame
  <2>2. 0 \in 0 .. SeqMod - 1 /\ "none" \notin Kinds
    BY SizeAssumption DEF Kinds
  <2>3. Broadcast \in Addresses
    BY DEF Addresses
  <2>4. p.seq \in 0 .. SeqMod - 1 /\ p.dur \in Nat /\ p.len \in Nat
    BY <2>1, <2>2
  <2> QED BY <1>1, <2>1, <2>2, <2>3, <2>4
<1>2. CASE p # NoFrame
  <2>1. p \in [kind : Kinds, src : Nodes, dst : Addresses,
               seq : 0 .. SeqMod - 1, dur : Nat, len : Nat, bad : BOOLEAN]
    BY <1>2 DEF Frame
  <2>2. "none" \notin Kinds
    BY DEF Kinds
  <2> QED BY <1>2, <2>1, <2>2 DEF Addresses
<1> QED BY <1>1, <1>2

\* The draw of a bit error leaves a frame a frame.
LEMMA DamagedType ==
  ASSUME NEW p \in Frame, p # NoFrame, NEW b \in BOOLEAN
  PROVE  [p EXCEPT !.bad = b] \in Frame /\ [p EXCEPT !.bad = b] # NoFrame
<1> DEFINE q == [p EXCEPT !.bad = b]
<1>1. p \in [kind : Kinds, src : Nodes, dst : Addresses,
             seq : 0 .. SeqMod - 1, dur : Nat, len : Nat, bad : BOOLEAN]
  BY DEF Frame
<1>2. q \in [kind : Kinds, src : Nodes, dst : Addresses,
             seq : 0 .. SeqMod - 1, dur : Nat, len : Nat, bad : BOOLEAN]
  BY <1>1
<1> HIDE DEF q
<1>3. q.kind # "none"
  BY <1>2 DEF Kinds
<1> QED BY <1>2, <1>3, FrameFields DEF Frame, q

\* prepareMPDU and the three generate functions build frames.
LEMMA DataFrameType ==
  ASSUME NEW src \in Nodes, NEW dst \in Addresses, NEW size \in Sizes,
         NEW seq \in 0 .. SeqMod - 1
  PROVE  DataFrame(src, dst, size, seq) \in Frame
<1>1. AckDuration \in Nat
  BY AirTime, UsecType, TimingAssumption DEF AckDuration, ACKlen
<1>2. size + HdrLen11 \in Nat
  BY SizeAssumption DEF HdrLen11
<1> QED BY <1>1, <1>2 DEF DataFrame, Frame, Kinds, Addresses

\* generateRTSFrame builds a frame.
LEMMA RTSFrameType ==
  ASSUME NEW src \in Nodes, NEW p \in Frame
  PROVE  RTSFrame(src, p) \in Frame
<1>1. p.len \in Nat /\ p.dst \in Addresses
  BY FrameFields
<1>2. SIFS + TxTime(CTSlen) + SIFS + TxTime(p.len) + SIFS + TxTime(ACKlen) \in Int
  BY <1>1, AirTime, TimingAssumption DEF CTSlen, ACKlen
<1>3. 0 \in 0 .. SeqMod - 1 /\ RTSlen \in Nat
  BY SizeAssumption DEF RTSlen
<1> QED BY <1>1, <1>2, <1>3, UsecType DEF RTSFrame, Frame, Kinds, Addresses

\* generateCTSFrame builds a frame.
LEMMA CTSFrameType ==
  ASSUME NEW src \in Nodes, NEW p \in Frame
  PROVE  CTSFrame(src, p) \in Frame
<1>1. p.dur \in Nat /\ p.src \in Addresses
  BY FrameFields
<1>2. p.dur - SIFS - TxTime(CTSlen) \in Int
  BY <1>1, AirTime, TimingAssumption DEF CTSlen
<1>3. 0 \in 0 .. SeqMod - 1 /\ CTSlen \in Nat
  BY SizeAssumption DEF CTSlen
<1> QED BY <1>1, <1>2, <1>3, UsecType DEF CTSFrame, Frame, Kinds, Addresses

\* generateACKFrame builds a frame.
LEMMA ACKFrameType ==
  ASSUME NEW src \in Nodes, NEW p \in Frame
  PROVE  ACKFrame(src, p) \in Frame
<1>1. p.src \in Addresses /\ 0 \in 0 .. SeqMod - 1 /\ ACKlen \in Nat
  BY FrameFields, SizeAssumption DEF ACKlen
<1> QED BY <1>1 DEF ACKFrame, Frame, Kinds, Addresses

-----------------------------------------------------------------------------
(* Timers *)

\* A call of exit changes nothing that matters here.
LEMMA ExitSound ==
  ASSUME NEW n, NEW h, NEW s \in Sound(n, h)
  PROVE  Exit(s) \in Sound(n, h)
BY ZenonT(60) DEF Exit, Sound, Station, Pending

\* Nor does a logic error that is printed and survived.
LEMMA LogicErrorSound ==
  ASSUME NEW n, NEW h, NEW s \in Sound(n, h)
  PROVE  LogicError(s) \in Sound(n, h)
<1> DEFINE f == IF s.fault = "exit" THEN s.fault ELSE "logic"
<1>1. s \in Station /\ f \in {"none", "logic", "exit"}
  BY DEF Sound, Station
<1>2. LogicError(s) = [s EXCEPT !.fault = f]
  BY <1>1 DEF LogicError
<1>3. [s EXCEPT !.fault = f] \in Sound(n, h)
  <2> HIDE DEF f
  <2> QED BY <1>1, ZenonT(60) DEF Sound, Station, Pending
<1> QED BY <1>2, <1>3

\* Nor does a call of the packet pool.
LEMMA PoolCallSound ==
  ASSUME NEW n, NEW h, NEW s \in Sound(n, h),
         NEW op \in {"alloc", "free", "send"}, NEW slot \in Slots
  PROVE  /\ PoolCall(s, op, slot) \in Sound(n, h)
         /\ PoolCall(s, op, slot).id = s.id
<1> DEFINE q == Append(s.calls, <<op, slot>>)
           u == [s EXCEPT !.calls = q]
<1>1. s \in Station /\ s.calls \in Seq(PoolCalls) /\ <<op, slot>> \in PoolCalls
  BY DEF Sound, Station, PoolCalls
<1>2. q \in Seq(PoolCalls)
  BY <1>1
<1>3. PoolCall(s, op, slot) = u
  BY <1>1 DEF PoolCall
<1> HIDE DEF q
<1>4. u \in Sound(n, h)
  BY <1>2, ZenonT(60) DEF Sound, Station, Pending
<1>5. u.id = s.id
  BY <1>1 DEF Station
<1> QED BY <1>3, <1>4, <1>5

\* The two calls by name.
LEMMA AllocFreeSound ==
  ASSUME NEW n, NEW h, NEW s \in Sound(n, h), NEW slot \in Slots
  PROVE  /\ Alloc(s, slot) \in Sound(n, h) /\ Alloc(s, slot).id = s.id
         /\ Free(s, slot) \in Sound(n, h) /\ Free(s, slot).id = s.id
BY PoolCallSound DEF Alloc, Free

\* The owners of packets.
LEMMA SlotsType ==
  /\ "pDATA" \in Slots /\ "pRTS" \in Slots /\ "pCTRL" \in Slots
  /\ "pktRX" \in Slots /\ "sent" \in Slots /\ "arrived" \in Slots
BY DEF Slots

\* An update of one timer leaves everything else as it is.
LEMMA TimerUpdate ==
  ASSUME NEW s \in Station, NEW t \in Timers, NEW d \in Int
  PROVE  LET u == [s EXCEPT !.timer[t] = d]
         IN  /\ u \in Station
             /\ \A k \in Timers : u.timer[k] = IF k = t THEN d ELSE s.timer[k]
             /\ u.id = s.id /\ u.phy = s.phy /\ u.ch = s.ch /\ u.bk = s.bk
             /\ u.slots = s.slots /\ u.started = s.started
<1> DEFINE u == [s EXCEPT !.timer[t] = d]
<1>2. u \in Station
  BY DEF Station
<1>3. \A k \in Timers : u.timer[k] = IF k = t THEN d ELSE s.timer[k]
  BY DEF Station
<1>4. /\ u.id = s.id /\ u.phy = s.phy /\ u.ch = s.ch /\ u.bk = s.bk
      /\ u.slots = s.slots /\ u.started = s.started
  BY DEF Station
<1> QED BY <1>2, <1>3, <1>4

\* A timer other than the backoff's may be given any value it may have, the
\* backoff's may be made idle.
LEMMA PutTimer ==
  ASSUME NEW n, NEW h, NEW s \in Sound(n, h), NEW t \in Timers, NEW d \in Int,
         d >= TimerIdle, t = "bk" => d = TimerIdle
  PROVE  [s EXCEPT !.timer[t] = d] \in Sound(n, h)
<1> DEFINE u == [s EXCEPT !.timer[t] = d]
<1>1. /\ u \in Station
      /\ \A k \in Timers : u.timer[k] = IF k = t THEN d ELSE s.timer[k]
      /\ u.id = s.id /\ u.phy = s.phy /\ u.ch = s.ch /\ u.bk = s.bk
      /\ u.slots = s.slots /\ u.started = s.started
  BY TimerUpdate DEF Sound
<1>2. "bk" \in Timers
  BY DEF Timers, MacTimers
<1>3. u \in Sound(n, h)
  <2> HIDE DEF u
  <2> QED BY <1>1, <1>2 DEF Sound, Pending, TimerIdle
<1> QED BY <1>3

\* TimerHandler::sched, of any timer but the backoff's.
LEMMA SchedSound ==
  ASSUME NEW n, NEW h, NEW s \in Sound(n, h),
         NEW t \in Timers \ {"bk"}, NEW d \in Nat
  PROVE  Sched(s, t, d) \in Sound(n, h)
BY PutTimer, ExitSound DEF Sched, TimerIdle

\* TimerHandler::cancel.
LEMMA CancelSound ==
  ASSUME NEW n, NEW h, NEW s \in Sound(n, h), NEW t \in Timers
  PROVE  Cancel(s, t) \in Sound(n, h)
BY PutTimer, ExitSound DEF Cancel, TimerIdle

-----------------------------------------------------------------------------
(* Carrier sense *)

\* The number of slots that are left when the timer is paused is not
\* negative: what elapsed is at most what the timer was set to.
LEMMA SlotsLeft ==
  ASSUME NEW n \in Nat, NEW left \in Nat, NEW slot \in Nat \ {0}
  PROVE  /\ (n * slot - left) \div slot \in Int
         /\ (n * slot - left) \div slot <= n
<1> DEFINE e == n * slot - left
           q == e \div slot
<1>1. e \in Int /\ e <= n * slot
  OBVIOUS
<1>2. q \in Int /\ q * slot <= e
  <2> HIDE DEF e
  <2> QED BY <1>1
<1>3. q <= n
  <2>1. ~(q >= n + 1)
    <3> HIDE DEF q, e
    <3> SUFFICES ASSUME q >= n + 1 PROVE FALSE
      OBVIOUS
    <3>1. q * slot >= (n + 1) * slot
      BY <1>2
    <3>2. (n + 1) * slot = n * slot + slot
      OBVIOUS
    <3> QED BY <1>1, <1>2, <3>1, <3>2
  <2> QED BY <2>1, <1>2
<1> QED BY <1>2, <1>3

\* The backoff timer is paused with k slots left.
Paused(s, k) ==
    Cancel([s EXCEPT !.slots = k, !.started = FALSE], "bk")

\* What the two assignments of pause leave alone.
LEMMA SlotsUpdate ==
  ASSUME NEW s \in Station, NEW k \in Int
  PROVE  LET r == [s EXCEPT !.slots = k, !.started = FALSE]
         IN  /\ r \in Station /\ r.id = s.id /\ r.phy = s.phy /\ r.ch = s.ch
             /\ r.bk = s.bk /\ r.slots = k /\ r.started = FALSE /\ r.timer = s.timer
<1> DEFINE r == [s EXCEPT !.slots = k, !.started = FALSE]
<1>1. r \in Station
  BY DEF Station
<1>2. /\ r.id = s.id /\ r.phy = s.phy /\ r.ch = s.ch
      /\ r.bk = s.bk /\ r.slots = k /\ r.started = FALSE /\ r.timer = s.timer
  BY DEF Station
<1> QED BY <1>1, <1>2

\* What a pause of the pending backoff timer leaves alone.
LEMMA PausedFields ==
  ASSUME NEW s \in Station, NEW k \in Nat, Pending(s, "bk")
  PROVE  LET q == Paused(s, k)
         IN  /\ q \in Station /\ q.id = s.id /\ q.phy = s.phy /\ q.ch = s.ch
             /\ q.bk = s.bk /\ q.slots = k
             /\ \A t \in Timers : q.timer[t] = IF t = "bk" THEN TimerIdle ELSE s.timer[t]
<1> DEFINE r == [s EXCEPT !.slots = k, !.started = FALSE]
           q == [r EXCEPT !.timer["bk"] = TimerIdle]
<1>1. /\ r \in Station /\ r.id = s.id /\ r.phy = s.phy /\ r.ch = s.ch
      /\ r.bk = s.bk /\ r.slots = k /\ r.timer = s.timer
  <2>1. k \in Int
    OBVIOUS
  <2> QED BY <2>1, SlotsUpdate, Zenon
<1>2. Paused(s, k) = Cancel(r, "bk")
  BY DEF Paused
<1>3. "bk" \in Timers /\ TimerIdle \in Int
  BY DEF Timers, MacTimers, TimerIdle
<1> HIDE DEF r
<1>4. Paused(s, k) = q
  BY <1>1, <1>2 DEF Cancel, Pending
<1>5. /\ q \in Station
      /\ \A t \in Timers : q.timer[t] = IF t = "bk" THEN TimerIdle ELSE r.timer[t]
      /\ q.id = r.id /\ q.phy = r.phy /\ q.ch = r.ch /\ q.bk = r.bk
      /\ q.slots = r.slots
  BY <1>1, <1>3, TimerUpdate
<1> HIDE DEF q
<1> QED BY <1>1, <1>4, <1>5

\* A pause ends the backoff timer and leaves a natural number of slots.
LEMMA PauseSound ==
  ASSUME NEW n, NEW h, NEW s \in Sound(n, h), NEW in, s.bk = "BackoffRunning"
  PROVE  \/ BackoffTimerPause(s, in) = Exit(s) /\ ~Pending(s, "bk")
         \/ Pending(s, "bk") /\ \E k \in Nat : BackoffTimerPause(s, in) = Paused(s, k)
<1> DEFINE elapsed == s.slots * SlotTime - s.timer["bk"]
           whole   == elapsed \div SlotTime
           used    == IF elapsed % SlotTime = 0 /\ elapsed > 0 /\ in.below
                      THEN whole - 1 ELSE whole
<1>1. s.slots \in Nat /\ "bk" \in Timers /\ s.timer["bk"] \in Int
  BY DEF Sound, Station, Timers, MacTimers
<1>2. CASE ~Pending(s, "bk")
  BY <1>2 DEF BackoffTimerPause
<1>3. CASE Pending(s, "bk")
  <2>1. s.started /\ s.timer["bk"] \in Nat
    BY <1>1, <1>3 DEF Sound, Pending
  <2>2. whole \in Int /\ whole <= s.slots
    BY <1>1, <2>1, SlotsLeft, TimingAssumption
  <2>3. s.slots - used \in Nat
    <3> HIDE DEF whole
    <3> QED BY <1>1, <2>2
  <2>4. BackoffTimerPause(s, in) = Paused(s, s.slots - used)
    BY <1>3, <2>1 DEF BackoffTimerPause, Paused
  <2> HIDE DEF used
  <2> QED BY <1>3, <2>3, <2>4
<1> QED BY <1>2, <1>3

\* After handleCSBUSY no backoff runs, and PHY and channel state are as before.
LEMMA CSBusyCalm ==
  ASSUME NEW n, NEW h, NEW s \in Sound(n, h), NEW in
  PROVE  LET r == HandleCSBUSY(s, in)
         IN  r \in Calm(n, h) /\ r.phy = s.phy /\ r.ch = s.ch
<1>0. s \in Station /\ "bk" \in Timers
  BY DEF Sound, Timers, MacTimers
<1>1. CASE s.bk # "BackoffRunning"
  BY <1>1 DEF HandleCSBUSY, Sound, Calm
<1>2. CASE s.bk = "BackoffRunning" /\ BackoffTimerPause(s, in) = Exit(s) /\ ~Pending(s, "bk")
  <2> DEFINE r == [s EXCEPT !.fault = "exit", !.bk = "BackoffPause"]
  <2>1. HandleCSBUSY(s, in) = r
    BY <1>0, <1>2 DEF HandleCSBUSY, Exit, Station
  <2>2. r \in Station
    BY <1>0 DEF Station, BackoffStates
  <2>3. /\ r.id = s.id /\ r.phy = s.phy /\ r.ch = s.ch /\ r.bk = "BackoffPause"
        /\ r.slots = s.slots /\ r.timer = s.timer
    BY <1>0 DEF Station
  <2> HIDE DEF r
  <2> QED BY <1>0, <1>2, <2>1, <2>2, <2>3 DEF Sound, Calm, Pending
<1>3. CASE /\ s.bk = "BackoffRunning" /\ Pending(s, "bk")
          /\ \E k \in Nat : BackoffTimerPause(s, in) = Paused(s, k)
  <2>1. PICK k \in Nat : BackoffTimerPause(s, in) = Paused(s, k)
    BY <1>3
  <2> DEFINE q == Paused(s, k)
             r == [q EXCEPT !.bk = "BackoffPause"]
  <2>2. HandleCSBUSY(s, in) = r
    BY <1>3, <2>1 DEF HandleCSBUSY
  <2>4. /\ q \in Station
        /\ q.id = s.id /\ q.phy = s.phy /\ q.ch = s.ch /\ q.slots = k
        /\ \A t \in Timers : q.timer[t] = IF t = "bk" THEN TimerIdle ELSE s.timer[t]
    BY <1>0, <1>3, PausedFields
  <2> HIDE DEF q
  <2>6. /\ r \in Station /\ r.bk = "BackoffPause"
        /\ r.id = q.id /\ r.phy = q.phy /\ r.ch = q.ch /\ r.slots = q.slots
        /\ r.timer = q.timer
    BY <2>4 DEF Station, BackoffStates
  <2> HIDE DEF r
  <2> QED BY <1>0, <2>2, <2>4, <2>6 DEF Sound, Calm, Pending, TimerIdle
<1> QED BY <1>1, <1>2, <1>3, PauseSound

\* Where no backoff runs, PHY and channel state may take any two values that
\* agree, but for the idle channel.
LEMMA CalmUpdate ==
  ASSUME NEW n, NEW h, NEW r \in Calm(n, h),
         NEW c \in ChannelStates \ {"noCSnoNAV"}, NEW p \in PhyStates
  PROVE  /\ [r EXCEPT !.ch = c] \in Calm(n, h)
         /\ [r EXCEPT !.ch = c].phy = r.phy
         /\ (r.phy = "SEARCHING" <=> c \in {"noCSNAV", "WIFS"}) =>
               [r EXCEPT !.ch = c] \in Sound(n, h)
         /\ (p = "SEARCHING" <=> c \in {"noCSNAV", "WIFS"}) =>
               [[r EXCEPT !.ch = c] EXCEPT !.phy = p] \in Sound(n, h)
<1> DEFINE u == [r EXCEPT !.ch = c]
           v == [u EXCEPT !.phy = p]
<1>0. r \in Station
  BY DEF Calm
<1>1. u \in Station
  BY <1>0 DEF Station
<1>2. /\ u.id = r.id /\ u.phy = r.phy /\ u.ch = c /\ u.bk = r.bk
      /\ u.slots = r.slots /\ u.timer = r.timer
  BY <1>0 DEF Station
<1> HIDE DEF u
<1>3. v \in Station
  BY <1>1 DEF Station
<1>4. /\ v.id = u.id /\ v.phy = p /\ v.ch = u.ch /\ v.bk = u.bk
      /\ v.slots = u.slots /\ v.timer = u.timer
  BY <1>1 DEF Station
<1>5. u \in Calm(n, h)
  BY <1>1, <1>2 DEF Calm, Pending
<1>6. (r.phy = "SEARCHING" <=> c \in {"noCSNAV", "WIFS"}) => u \in Sound(n, h)
  BY <1>1, <1>2 DEF Calm, Sound, Pending
<1> HIDE DEF v
<1>7. (p = "SEARCHING" <=> c \in {"noCSNAV", "WIFS"}) => v \in Sound(n, h)
  BY <1>2, <1>3, <1>4 DEF Calm, Sound, Pending
<1> QED BY <1>2, <1>5, <1>6, <1>7 DEF u, v

\* Channel state and PHY state are assigned one after the other.
Tuned(r, c, p) == [[r EXCEPT !.ch = c] EXCEPT !.phy = p]

\* A station without a running backoff may turn busy.
LEMMA RetuneBusy ==
  ASSUME NEW n, NEW h, NEW r \in Calm(n, h), NEW p \in PhyStates, p # "SEARCHING"
  PROVE  /\ Tuned(r, "CSnoNAV", p) \in Sound(n, h)
         /\ Tuned(r, "CSNAV", p) \in Sound(n, h)
<1>1. "CSnoNAV" \in ChannelStates \ {"noCSnoNAV"} /\ "CSNAV" \in ChannelStates \ {"noCSnoNAV"}
  BY DEF ChannelStates
<1>2. /\ p = "SEARCHING" <=> "CSnoNAV" \in {"noCSNAV", "WIFS"}
      /\ p = "SEARCHING" <=> "CSNAV" \in {"noCSNAV", "WIFS"}
  OBVIOUS
<1> QED BY <1>1, <1>2, CalmUpdate, Zenon DEF Tuned

\* A station without a running backoff may turn idle, up to the IFS or NAV.
LEMMA RetuneIdle ==
  ASSUME NEW n, NEW h, NEW r \in Calm(n, h)
  PROVE  /\ Tuned(r, "WIFS", "SEARCHING") \in Sound(n, h)
         /\ Tuned(r, "noCSNAV", "SEARCHING") \in Sound(n, h)
<1>1. /\ "WIFS" \in ChannelStates \ {"noCSnoNAV"} /\ "noCSNAV" \in ChannelStates \ {"noCSnoNAV"}
      /\ "SEARCHING" \in PhyStates
  BY DEF ChannelStates, PhyStates
<1>2. /\ "SEARCHING" = "SEARCHING" <=> "WIFS" \in {"noCSNAV", "WIFS"}
      /\ "SEARCHING" = "SEARCHING" <=> "noCSNAV" \in {"noCSNAV", "WIFS"}
  OBVIOUS
<1> QED BY <1>1, <1>2, CalmUpdate, Zenon DEF Tuned

\* Off the idle channel no backoff runs.
LEMMA SoundCalm ==
  ASSUME NEW n, NEW h, NEW s \in Sound(n, h), s.ch # "noCSnoNAV"
  PROVE  s \in Calm(n, h)
BY DEF Sound, Calm

\* A timer operation leaves PHY, channel state and backoff as they are.
LEMMA TimerKeeps ==
  ASSUME NEW s \in Station, NEW t \in Timers, NEW d \in Nat
  PROVE  /\ Sched(s, t, d).phy = s.phy /\ Sched(s, t, d).ch = s.ch
         /\ Cancel(s, t).phy = s.phy /\ Cancel(s, t).ch = s.ch
<1>1. TimerIdle \in Int /\ d \in Int
  BY DEF TimerIdle
<1>2. /\ [s EXCEPT !.timer[t] = d].phy = s.phy
      /\ [s EXCEPT !.timer[t] = d].ch = s.ch
  BY DEF Station
<1>3. /\ [s EXCEPT !.timer[t] = TimerIdle].phy = s.phy
      /\ [s EXCEPT !.timer[t] = TimerIdle].ch = s.ch
  BY DEF Station
<1>4. Exit(s).phy = s.phy /\ Exit(s).ch = s.ch
  BY DEF Exit, Station
<1> QED BY <1>2, <1>3, <1>4 DEF Sched, Cancel

\* ChannelStateMgr::setIFS.
LEMMA SetIFSSound ==
  ASSUME NEW n, NEW h, NEW s \in Sound(n, h), NEW d \in Nat
  PROVE  SetIFS(s, d) \in Sound(n, h)
<1>1. [s EXCEPT !.ifsValue = d] \in Sound(n, h)
  BY ZenonT(60) DEF Sound, Station, Pending
<1>2. "ifs" \in Timers \ {"bk"}
  BY DEF Timers, MacTimers
<1>3. Sched(Cancel([s EXCEPT !.ifsValue = d], "ifs"), "ifs", d) \in Sound(n, h)
  BY <1>1, <1>2, CancelSound, SchedSound, Zenon
<1> QED BY <1>1, <1>3 DEF SetIFS

\* WirelessPhy::setState, with the indications it gives the MAC first.
LEMMA SetStateSound ==
  ASSUME NEW n, NEW h, NEW s \in Sound(n, h), NEW new \in PhyStates, NEW in
  PROVE  SetState(s, new, in) \in Sound(n, h)
<1>0. /\ s \in Station /\ s.ch \in ChannelStates /\ s.ifsValue \in Nat
      /\ "ifs" \in Timers \ {"bk"}
  BY DEF Sound, Station, Timers, MacTimers
<1>1. CASE s.phy = "SEARCHING" /\ new # "SEARCHING"
  <2>1. CASE s.ch = "noCSnoNAV"
    <3>1. SetState(s, new, in) =
            Tuned(HandleCSBUSY(s, in), "CSnoNAV", new)
      BY <1>1, <2>1 DEF SetState, HandlePHYBusyIndication, Tuned
    <3>2. HandleCSBUSY(s, in) \in Calm(n, h)
      BY CSBusyCalm
    <3> QED BY <1>1, <3>1, <3>2, RetuneBusy
  <2>2. CASE s.ch = "noCSNAV"
    <3>1. SetState(s, new, in) = Tuned(s, "CSNAV", new)
      BY <1>1, <2>2 DEF SetState, HandlePHYBusyIndication, Tuned
    <3>2. s \in Calm(n, h)
      BY <2>2, SoundCalm
    <3> QED BY <1>1, <3>1, <3>2, RetuneBusy
  <2>3. CASE s.ch = "WIFS"
    <3>1. SetState(s, new, in) = Tuned(StopIFS(s), "CSnoNAV", new)
      BY <1>1, <2>3 DEF SetState, HandlePHYBusyIndication, Tuned
    <3>2. StopIFS(s) \in Sound(n, h) /\ StopIFS(s).ch = "WIFS"
      BY <1>0, <2>3, CancelSound, TimerKeeps DEF StopIFS
    <3>3. StopIFS(s) \in Calm(n, h)
      BY <3>2, SoundCalm
    <3> QED BY <1>1, <3>1, <3>3, RetuneBusy
  <2> QED BY <1>1, <2>1, <2>2, <2>3 DEF Sound
<1>2. CASE s.phy # "SEARCHING" /\ new = "SEARCHING"
  <2>1. CASE s.ch = "CSnoNAV"
    <3>1. SetState(s, new, in) =
            Tuned(Sched(s, "ifs", s.ifsValue), "WIFS", new)
      BY <1>2, <2>1 DEF SetState, HandlePHYIdleIndication, Tuned
    <3>2. /\ Sched(s, "ifs", s.ifsValue) \in Sound(n, h)
          /\ Sched(s, "ifs", s.ifsValue).ch = "CSnoNAV"
      BY <1>0, <2>1, SchedSound, TimerKeeps
    <3>3. Sched(s, "ifs", s.ifsValue) \in Calm(n, h)
      BY <3>2, SoundCalm
    <3> QED BY <1>2, <3>1, <3>3, RetuneIdle
  <2>2. CASE s.ch = "CSNAV"
    <3>1. SetState(s, new, in) = Tuned(s, "noCSNAV", new)
      BY <1>2, <2>2 DEF SetState, HandlePHYIdleIndication, Tuned
    <3>2. s \in Calm(n, h)
      BY <2>2, SoundCalm
    <3> QED BY <1>2, <3>1, <3>2, RetuneIdle
  <2> QED BY <1>0, <1>2, <2>1, <2>2 DEF Sound, ChannelStates
<1>3. CASE ~(s.phy = "SEARCHING" /\ new # "SEARCHING") /\ ~(s.phy # "SEARCHING" /\ new = "SEARCHING")
  <2>1. SetState(s, new, in) = [s EXCEPT !.phy = new]
    BY <1>3 DEF SetState
  <2>2. [s EXCEPT !.phy = new] \in Sound(n, h)
    BY <1>3, ZenonT(60) DEF Sound, Station, Pending
  <2> QED BY <2>1, <2>2
<1> QED BY <1>1, <1>2, <1>3

\* Only the channel state is assigned.
ChTo(r, c) == [r EXCEPT !.ch = c]

\* A new channel state is sound when it agrees with the PHY.
LEMMA ChToSound ==
  ASSUME NEW n, NEW h, NEW r \in Calm(n, h)
  PROVE  /\ r.phy = "SEARCHING" => ChTo(r, "WIFS") \in Sound(n, h)
         /\ r.phy = "SEARCHING" => ChTo(r, "noCSNAV") \in Sound(n, h)
         /\ r.phy # "SEARCHING" => ChTo(r, "CSnoNAV") \in Sound(n, h)
         /\ r.phy # "SEARCHING" => ChTo(r, "CSNAV") \in Sound(n, h)
<1>1. /\ \A c \in {"WIFS", "noCSNAV", "CSnoNAV", "CSNAV"} : c \in ChannelStates \ {"noCSnoNAV"}
      /\ "TXing" \in PhyStates
  BY DEF ChannelStates, PhyStates
<1>2. \A c \in {"WIFS", "noCSNAV", "CSnoNAV", "CSNAV"} :
        (r.phy = "SEARCHING" <=> c \in {"noCSNAV", "WIFS"}) => ChTo(r, c) \in Sound(n, h)
  BY <1>1, CalmUpdate, Zenon DEF ChTo
<1> QED BY <1>2

\* Where a timer operation is made off the idle channel, no backoff runs.
LEMMA TimerCalm ==
  ASSUME NEW n, NEW h, NEW s \in Sound(n, h), s.ch # "noCSnoNAV",
         NEW t \in Timers \ {"bk"}, NEW d \in Nat
  PROVE  /\ Sched(s, t, d) \in Calm(n, h) /\ Sched(s, t, d).phy = s.phy
         /\ StopIFS(Sched(s, t, d)) \in Calm(n, h) /\ StopIFS(Sched(s, t, d)).phy = s.phy
<1>1. s \in Station /\ "ifs" \in Timers
  BY DEF Sound, Timers, MacTimers
<1>2. /\ Sched(s, t, d) \in Sound(n, h) /\ Sched(s, t, d).phy = s.phy
      /\ Sched(s, t, d).ch = s.ch
  BY <1>1, SchedSound, TimerKeeps
<1>3. /\ StopIFS(Sched(s, t, d)) \in Sound(n, h) /\ StopIFS(Sched(s, t, d)).phy = s.phy
      /\ StopIFS(Sched(s, t, d)).ch = s.ch
  <2>1. Sched(s, t, d) \in Station
    BY <1>2 DEF Sound
  <2> QED BY <1>1, <1>2, <2>1, CancelSound, TimerKeeps DEF StopIFS
<1> QED BY <1>2, <1>3, SoundCalm

\* ChannelStateMgr::handleSetNAV.
LEMMA SetNAVSound ==
  ASSUME NEW n, NEW h, NEW s \in Sound(n, h), NEW t \in Nat, NEW in
  PROVE  HandleSetNAV(s, t, in) \in Sound(n, h)
<1>0. /\ s \in Station /\ s.ch \in ChannelStates /\ "nav" \in Timers \ {"bk"}
      /\ s.phy = "SEARCHING" <=> s.ch \in {"noCSnoNAV", "noCSNAV", "WIFS"}
  BY DEF Sound, Station, Timers, MacTimers
<1>1. CASE s.ch = "noCSnoNAV"
  <2>1. HandleSetNAV(s, t, in) = ChTo(HandleCSBUSY(Sched(s, "nav", t), in), "noCSNAV")
    BY <1>1 DEF HandleSetNAV, ChTo
  <2>2. Sched(s, "nav", t) \in Sound(n, h) /\ Sched(s, "nav", t).phy = s.phy
    BY <1>0, SchedSound, TimerKeeps
  <2>3. /\ HandleCSBUSY(Sched(s, "nav", t), in) \in Calm(n, h)
        /\ HandleCSBUSY(Sched(s, "nav", t), in).phy = s.phy
    BY <2>2, CSBusyCalm
  <2> QED BY <1>0, <1>1, <2>1, <2>3, ChToSound
<1>2. CASE s.ch = "CSnoNAV"
  <2>1. HandleSetNAV(s, t, in) = ChTo(Sched(s, "nav", t), "CSNAV")
    BY <1>2 DEF HandleSetNAV, ChTo
  <2>2. Sched(s, "nav", t) \in Calm(n, h) /\ Sched(s, "nav", t).phy = s.phy
    BY <1>0, <1>2, TimerCalm
  <2> QED BY <1>0, <1>2, <2>1, <2>2, ChToSound
<1>3. CASE s.ch \in {"noCSNAV", "CSNAV"}
  <2>1. HandleSetNAV(s, t, in) \in {s, Sched(Cancel(s, "nav"), "nav", t)}
    BY <1>3 DEF HandleSetNAV
  <2>2. Sched(Cancel(s, "nav"), "nav", t) \in Sound(n, h)
    BY <1>0, CancelSound, SchedSound
  <2> QED BY <2>1, <2>2
<1>4. CASE s.ch = "WIFS"
  <2>1. HandleSetNAV(s, t, in) = ChTo(StopIFS(Sched(s, "nav", t)), "noCSNAV")
    BY <1>4 DEF HandleSetNAV, ChTo
  <2>2. /\ StopIFS(Sched(s, "nav", t)) \in Calm(n, h)
        /\ StopIFS(Sched(s, "nav", t)).phy = s.phy
    BY <1>0, <1>4, TimerCalm
  <2> QED BY <1>0, <1>4, <2>1, <2>2, ChToSound
<1> QED BY <1>0, <1>1, <1>2, <1>3, <1>4 DEF ChannelStates

\* ChannelStateMgr::handleNAVTimer.
LEMMA NAVTimerSound ==
  ASSUME NEW n, NEW h, NEW s \in Sound(n, h)
  PROVE  HandleNAVTimer(s) \in Sound(n, h)
<1>0. /\ s \in Station /\ s.ifsValue \in Nat /\ "ifs" \in Timers \ {"bk"}
      /\ s.phy = "SEARCHING" <=> s.ch \in {"noCSnoNAV", "noCSNAV", "WIFS"}
  BY DEF Sound, Station, Timers, MacTimers
<1>1. CASE s.ch = "noCSNAV"
  <2>1. HandleNAVTimer(s) = ChTo(Sched(s, "ifs", s.ifsValue), "WIFS")
    BY <1>1 DEF HandleNAVTimer, ChTo
  <2>2. /\ Sched(s, "ifs", s.ifsValue) \in Calm(n, h)
        /\ Sched(s, "ifs", s.ifsValue).phy = s.phy
    BY <1>0, <1>1, TimerCalm
  <2> QED BY <1>0, <1>1, <2>1, <2>2, ChToSound
<1>2. CASE s.ch = "CSNAV"
  <2>1. HandleNAVTimer(s) = ChTo(s, "CSnoNAV")
    BY <1>2 DEF HandleNAVTimer, ChTo
  <2> QED BY <1>0, <1>2, <2>1, SoundCalm, ChToSound
<1>3. CASE s.ch \notin {"noCSNAV", "CSNAV"}
  BY <1>3, ExitSound DEF HandleNAVTimer
<1> QED BY <1>1, <1>2, <1>3

-----------------------------------------------------------------------------
(* The PHY *)

\* The switch at the head of WirelessPhy::sendDown.
LEMMA AbortSound ==
  ASSUME NEW n, NEW h, NEW s \in Sound(n, h)
  PROVE  AbortReception(s) \in Sound(n, h)
<1>1. "rX" \in Timers /\ "preRX" \in Timers
  BY DEF Timers, PhyTimers
<1>2. ASSUME NEW u \in Sound(n, h)
      PROVE  [u EXCEPT !.pktRX = NoFrame] \in Sound(n, h)
  BY NoFrameType, ZenonT(60) DEF Sound, Station, Pending
<1>3. \A u \in Sound(n, h) : Free(u, "pktRX") \in Sound(n, h)
  BY AllocFreeSound, SlotsType
<1> QED BY <1>1, <1>2, <1>3, CancelSound DEF AbortReception

\* WirelessPhy::sendDown.
LEMMA SendDownSound ==
  ASSUME NEW n, NEW h, NEW s \in Sound(n, h), NEW p \in Frame, NEW in
  PROVE  SendDown(s, p, in) \in Sound(n, h)
<1> DEFINE d == TxTime(p.len) + PropagationDelay(p)
           v == Sched(SetState(AbortReception(s), "TXing", in), "tX", d)
           u == PoolCall(v, "send", "sent")
<1>1. d \in Nat
  <2>1. p.len \in Nat
    BY FrameFields
  <2> QED BY <2>1, AirTime, DelayType
<1>2. "tX" \in Timers \ {"bk"} /\ "TXing" \in PhyStates
  BY DEF Timers, PhyTimers, PhyStates
<1>3. u \in Sound(n, h)
  <2>1. v \in Sound(n, h)
    <3> HIDE DEF d
    <3> QED BY <1>1, <1>2, AbortSound, SetStateSound, SchedSound
  <2> HIDE DEF v
  <2> QED BY <2>1, SlotsType, PoolCallSound
<1>4. [u EXCEPT !.out = p] \in Sound(n, h)
  <2> HIDE DEF u
  <2> QED BY <1>3, ZenonT(60) DEF Sound, Station, Pending
<1> QED BY <1>4, ExitSound DEF SendDown

\* The frame being received may be set at any time.
LEMMA PktSound ==
  ASSUME NEW n, NEW h, NEW s \in Sound(n, h), NEW p \in Frame
  PROVE  [s EXCEPT !.pktRX = p, !.rxError = FALSE] \in Sound(n, h)
BY ZenonT(60) DEF Sound, Station, Pending

\* WirelessPhy::sendUp.
LEMMA SendUpSound ==
  ASSUME NEW n, NEW h, NEW s \in Sound(n, h), NEW p \in Frame, NEW in
  PROVE  SendUp(s, p, in) \in Sound(n, h)
<1> DEFINE u == [Alloc(s, "pktRX") EXCEPT !.pktRX = p, !.rxError = FALSE]
<1>1. u \in Sound(n, h)
  <2>1. Alloc(s, "pktRX") \in Sound(n, h)
    BY AllocFreeSound, SlotsType
  <2> QED BY <2>1, PktSound, Zenon
<1>2. "preRX" \in Timers \ {"bk"} /\ "PreRXing" \in PhyStates /\ HeaderDuration \in Nat
  BY TimingAssumption DEF Timers, PhyTimers, PhyStates
<1>3. Sched(SetState(u, "PreRXing", in), "preRX", HeaderDuration) \in Sound(n, h)
  <2> HIDE DEF u
  <2> QED BY <1>1, <1>2, SetStateSound, SchedSound
<1>4. [s EXCEPT !.rxError = TRUE] \in Sound(n, h)
  BY ZenonT(60) DEF Sound, Station, Pending
<1>5. s.phy \in PhyStates
  BY DEF Sound, Station
<1>6. Free(s, "arrived") \in Sound(n, h) /\ Free([s EXCEPT !.rxError = TRUE], "arrived") \in Sound(n, h)
  BY <1>4, AllocFreeSound, SlotsType
<1> QED BY <1>3, <1>5, <1>6 DEF SendUp, PhyStates

\* WirelessPhy::recv, case UP.
LEMMA RecvSound ==
  ASSUME NEW n, NEW h, NEW s \in Sound(n, h), NEW p \in Frame, NEW in
  PROVE  Recv(s, p, in) \in Sound(n, h)
BY SendUpSound, AllocFreeSound, SlotsType DEF Recv

\* WirelessPhy::handle_PreRXtimeout.
LEMMA PreRXSound ==
  ASSUME NEW n, NEW h, NEW s \in Sound(n, h), NEW in
  PROVE  HandlePreRXtimeout(s, in) \in Sound(n, h)
<1>1. s.pktRX.len \in Nat
  BY FrameFields DEF Sound, Station
<1>2. "rX" \in Timers \ {"bk"} /\ "RXing" \in PhyStates
  BY DEF Timers, PhyTimers, PhyStates
<1>3. TxTime(s.pktRX.len) - HeaderDuration \in Nat
  BY <1>1, AirTime
<1>4. Sched(SetState(s, "RXing", in), "rX", TxTime(s.pktRX.len) - HeaderDuration) \in Sound(n, h)
  BY <1>2, <1>3, SetStateSound, SchedSound
<1> QED BY <1>4, ExitSound DEF HandlePreRXtimeout

-----------------------------------------------------------------------------
(* Backoff *)

\* What every event leaves open, for any bound of the random integers.
AnyInput == [draw : Int, dst : Destinations, size : Sizes, below : BOOLEAN]

\* The bounded inputs are inputs.
LEMMA InputsType ==
  ASSUME NEW d \in Int
  PROVE  Inputs(d) \subseteq AnyInput
BY DEF Inputs, AnyInput

\* Mac802_11::transmit.
LEMMA TransmitSound ==
  ASSUME NEW n, NEW h, NEW s \in Sound(n, h), NEW p \in Frame,
         NEW who \in {"TXC", "RXC"}, NEW in
  PROVE  Transmit(s, p, who, in) \in Sound(n, h)
<1>1. [s EXCEPT !.confirm = who] \in Sound(n, h)
  BY ZenonT(60) DEF Sound, Station, Pending
<1>2. Alloc([s EXCEPT !.confirm = who], "sent") \in Sound(n, h)
  BY <1>1, AllocFreeSound, SlotsType
<1> QED BY <1>2, SendDownSound, ExitSound DEF Transmit

\* The state of TXC may be set at any time.
LEMMA TxcSound ==
  ASSUME NEW n, NEW h, NEW s \in Sound(n, h), NEW c \in TXCStates
  PROVE  [s EXCEPT !.txc = c] \in Sound(n, h)
BY ZenonT(60) DEF Sound, Station, Pending

\* TXC::handleBKDone.
LEMMA BKDoneSound ==
  ASSUME NEW n, NEW h, NEW s \in Sound(n, h), NEW in
  PROVE  HandleBKDone(s, in) \in Sound(n, h)
<1>1. s.pRTS \in Frame /\ s.pDATA \in Frame
  BY DEF Sound, Station
<1>2. Transmit(s, s.pRTS, "TXC", in) \in Sound(n, h) /\ Transmit(s, s.pDATA, "TXC", in) \in Sound(n, h)
  BY <1>1, TransmitSound
<1>3. "wait_RTSsent" \in TXCStates /\ "wait_PDUsent" \in TXCStates
  BY DEF TXCStates
<1>4. /\ [Transmit(s, s.pRTS, "TXC", in) EXCEPT !.txc = "wait_RTSsent"] \in Sound(n, h)
      /\ [Transmit(s, s.pDATA, "TXC", in) EXCEPT !.txc = "wait_PDUsent"] \in Sound(n, h)
  BY <1>2, <1>3, TxcSound, Zenon
<1> QED BY <1>4, LogicErrorSound DEF HandleBKDone

\* BackoffMgr::handleBackoffTimer, in a state that is sound but for the slots
\* and the backoff state.
LEMMA BackoffDoneSound ==
  ASSUME NEW n, NEW h, NEW s, s.bk = "BackoffRunning", NEW in,
         [s EXCEPT !.bk = "noBackoff"] \in Sound(n, h)
  PROVE  HandleBackoffTimer(s, in) \in Sound(n, h)
BY BKDoneSound DEF HandleBackoffTimer

\* A backoff that is over has no slots left and does not run.
LEMMA NoSlotsSound ==
  ASSUME NEW n, NEW h, NEW s \in Sound(n, h), ~Pending(s, "bk")
  PROVE  /\ [[s EXCEPT !.slots = -1] EXCEPT !.bk = "noBackoff"] \in Sound(n, h)
         /\ [s EXCEPT !.slots = -1].bk = s.bk
<1> DEFINE u == [s EXCEPT !.slots = -1]
           v == [u EXCEPT !.bk = "noBackoff"]
<1>0. s \in Station /\ -1 \in Int /\ "noBackoff" \in BackoffStates
  BY DEF Sound, BackoffStates
<1>1. u \in Station
  BY <1>0 DEF Station
<1>2. /\ u.id = s.id /\ u.phy = s.phy /\ u.ch = s.ch /\ u.bk = s.bk /\ u.timer = s.timer
  BY <1>0 DEF Station
<1> HIDE DEF u
<1>3. v \in Station
  BY <1>0, <1>1 DEF Station
<1>4. /\ v.id = u.id /\ v.phy = u.phy /\ v.ch = u.ch /\ v.bk = "noBackoff"
      /\ v.timer = u.timer
  BY <1>1 DEF Station
<1> HIDE DEF v
<1>5. v \in Sound(n, h)
  BY <1>2, <1>3, <1>4 DEF Sound, Pending
<1> QED BY <1>2, <1>5 DEF u, v

\* BackoffTimer_t::expire.
LEMMA BackoffExpireSound ==
  ASSUME NEW n, NEW h, NEW s \in Sound(n, h), ~Pending(s, "bk"),
         s.bk = "BackoffRunning", NEW in
  PROVE  BackoffTimerExpire(s, in) \in Sound(n, h)
BY NoSlotsSound, BackoffDoneSound DEF BackoffTimerExpire

\* BackoffTimer_t::run.
LEMMA BackoffRunSound ==
  ASSUME NEW n, NEW h, NEW s \in Sound(n, h), ~Pending(s, "bk"),
         s.bk = "BackoffRunning", NEW in
  PROVE  BackoffTimerRun(s, in) \in Sound(n, h)
<1>1. CASE s.slots = 0
  BY <1>1, NoSlotsSound, BackoffDoneSound DEF BackoffTimerRun
<1>2. CASE s.slots # 0
  <2> DEFINE r == [s EXCEPT !.started = TRUE]
             d == s.slots * SlotTime
             u == [r EXCEPT !.timer["bk"] = d]
  <2>1. s \in Station /\ "bk" \in Timers /\ s.slots \in Nat
    BY DEF Sound, Station, Timers, MacTimers
  <2>2. d \in Nat
    BY <2>1, TimingAssumption
  <2>3. r \in Sound(n, h) /\ r \in Station
    BY ZenonT(60) DEF Sound, Station, Pending
  <2>4. /\ r.id = s.id /\ r.phy = s.phy /\ r.ch = s.ch /\ r.bk = s.bk
        /\ r.slots = s.slots /\ r.started = TRUE /\ r.timer = s.timer
    BY <2>1 DEF Station
  <2> HIDE DEF r, d
  <2>5. /\ u \in Station
        /\ \A k \in Timers : u.timer[k] = IF k = "bk" THEN d ELSE r.timer[k]
        /\ u.id = r.id /\ u.phy = r.phy /\ u.ch = r.ch /\ u.bk = r.bk
        /\ u.slots = r.slots /\ u.started = r.started
    BY <2>1, <2>2, <2>3, TimerUpdate
  <2>6. u \in Sound(n, h)
    <3> HIDE DEF u
    <3> QED BY <2>1, <2>2, <2>4, <2>5 DEF Sound, Pending, TimerIdle
  <2>7. Sched(r, "bk", d) \in Sound(n, h)
    BY <2>3, <2>6, ExitSound DEF Sched
  <2> QED BY <1>2, <2>7 DEF BackoffTimerRun, r, d
<1> QED BY <1>1, <1>2

\* BackoffMgr::handleCSIDLE, as the channel becomes idle.
LEMMA CSIdleSound ==
  ASSUME NEW n, NEW h, NEW s \in Calm(n, h), s.ch = "noCSnoNAV",
         s.phy = "SEARCHING", NEW in
  PROVE  HandleCSIDLE(s, in) \in Sound(n, h)
<1>0. s \in Station /\ s.bk \in {"noBackoff", "BackoffPause"}
  BY DEF Calm, Station, BackoffStates
<1>1. CASE s.bk = "noBackoff"
  <2>1. s \in Sound(n, h)
    BY <1>1 DEF Calm, Sound
  <2> QED BY <1>1, <2>1 DEF HandleCSIDLE
<1>2. CASE s.bk = "BackoffPause"
  <2> DEFINE u == [s EXCEPT !.bk = "BackoffRunning"]
  <2>1. u \in Station
    BY <1>0 DEF Station, BackoffStates
  <2>2. /\ u.id = s.id /\ u.phy = s.phy /\ u.ch = s.ch /\ u.bk = "BackoffRunning"
        /\ u.slots = s.slots /\ u.timer = s.timer
    BY <1>0 DEF Station
  <2> HIDE DEF u
  <2>3. u \in Sound(n, h) /\ ~Pending(u, "bk")
    BY <1>2, <2>1, <2>2 DEF Calm, Sound, Pending
  <2>4. BackoffTimerRun(u, in) \in Sound(n, h)
    BY <2>2, <2>3, BackoffRunSound
  <2> QED BY <1>2, <2>4 DEF HandleCSIDLE, u
<1> QED BY <1>0, <1>1, <1>2

\* ChannelStateMgr::handleIFSTimer.
LEMMA IFSTimerSound ==
  ASSUME NEW n, NEW h, NEW s \in Sound(n, h), NEW in
  PROVE  HandleIFSTimer(s, in) \in Sound(n, h)
<1>1. CASE s.ch = "WIFS"
  <2> DEFINE u == [s EXCEPT !.ch = "noCSnoNAV"]
  <2>1. s \in Station /\ s \in Calm(n, h) /\ s.phy = "SEARCHING"
    BY <1>1, SoundCalm DEF Sound
  <2>2. u \in Station
    BY <2>1 DEF Station, ChannelStates
  <2>3. /\ u.id = s.id /\ u.phy = s.phy /\ u.ch = "noCSnoNAV" /\ u.bk = s.bk
        /\ u.slots = s.slots /\ u.timer = s.timer
    BY <2>1 DEF Station
  <2> HIDE DEF u
  <2>4. u \in Calm(n, h)
    BY <2>1, <2>2, <2>3 DEF Calm, Pending
  <2>5. HandleCSIDLE(u, in) \in Sound(n, h)
    BY <2>1, <2>3, <2>4, CSIdleSound
  <2> QED BY <1>1, <2>5 DEF HandleIFSTimer, u
<1>2. CASE s.ch # "WIFS"
  BY <1>2, ExitSound DEF HandleIFSTimer
<1> QED BY <1>1, <1>2

\* BackoffMgr::handleBKStart.
LEMMA BKStartSound ==
  ASSUME NEW n, NEW h, NEW s \in Sound(n, h), NEW in \in AnyInput
  PROVE  HandleBKStart(s, in) \in Sound(n, h)
<1>1. CASE s.bk # "noBackoff"
  BY <1>1 DEF HandleBKStart
<1>2. CASE s.bk = "noBackoff"
  <2> DEFINE k == in.draw % (s.cw + 1)
             t == [s EXCEPT !.slots = k, !.started = FALSE]
             q == [t EXCEPT !.bk = "BackoffPause"]
             r == [t EXCEPT !.bk = "BackoffRunning"]
  <2>1. s \in Station /\ s.cw \in Nat /\ in.draw \in Int
    BY DEF Sound, Station, AnyInput
  <2>2. k \in Nat /\ k \in Int
    BY <2>1
  <2>3. BackoffTimerInit(s, in) = t
    BY DEF BackoffTimerInit
  <2> HIDE DEF k
  <2>4. /\ t \in Station /\ t.id = s.id /\ t.phy = s.phy /\ t.ch = s.ch
        /\ t.bk = s.bk /\ t.slots = k /\ t.timer = s.timer
    BY <2>1, <2>2, SlotsUpdate, Zenon
  <2> HIDE DEF t
  <2>5. t \in Sound(n, h) /\ ~Pending(t, "bk")
    BY <1>2, <2>2, <2>4 DEF Sound, Pending
  <2>6. q \in Station /\ r \in Station
    BY <2>4 DEF Station, BackoffStates
  <2>7. /\ q.id = t.id /\ q.phy = t.phy /\ q.ch = t.ch /\ q.bk = "BackoffPause"
        /\ q.slots = t.slots /\ q.timer = t.timer
    BY <2>4 DEF Station
  <2>8. /\ r.id = t.id /\ r.phy = t.phy /\ r.ch = t.ch /\ r.bk = "BackoffRunning"
        /\ r.slots = t.slots /\ r.timer = t.timer
    BY <2>4 DEF Station
  <2> HIDE DEF q, r
  <2>9. s.ch # "noCSnoNAV" => q \in Sound(n, h)
    BY <2>2, <2>4, <2>5, <2>6, <2>7 DEF Sound, Pending
  <2>10. s.ch = "noCSnoNAV" => r \in Sound(n, h) /\ ~Pending(r, "bk")
    BY <2>2, <2>4, <2>5, <2>6, <2>8 DEF Sound, Pending
  <2>11. s.ch = "noCSnoNAV" => BackoffTimerRun(r, in) \in Sound(n, h)
    BY <2>8, <2>10, BackoffRunSound
  <2>12. HandleBKDone(t, in) \in Sound(n, h)
    BY <2>5, BKDoneSound
  <2> QED BY <1>2, <2>3, <2>9, <2>11, <2>12 DEF HandleBKStart, q, r
<1> QED BY <1>1, <1>2

-----------------------------------------------------------------------------
(* The transmission side *)

\* TXC::prepareMPDU.
LEMMA PrepareSound ==
  ASSUME NEW n \in Nodes, NEW h, NEW s \in Sound(n, h), NEW in \in AnyInput
  PROVE  PrepareMPDU(s, in) \in Sound(n, h)
<1> DEFINE p == DataFrame(s.id, in.dst, in.size, s.seqno)
           q == (s.seqno + 1) % SeqMod
<1>1. /\ s \in Station /\ s.id = n /\ s.seqno \in 0 .. SeqMod - 1
      /\ in.dst \in Addresses /\ in.size \in Sizes
  BY AddressAssumption DEF Sound, Station, AnyInput
<1>2. p \in Frame
  BY <1>1, DataFrameType
<1>3. q \in 0 .. SeqMod - 1
  BY <1>1, SizeAssumption
<1> DEFINE r == Alloc(s, "pDATA")
<1>4. PrepareMPDU(s, in) = [r EXCEPT !.pDATA = p, !.seqno = q]
  <2>1. r.seqno = s.seqno
    BY <1>1 DEF Alloc, PoolCall, Station
  <2> QED BY <2>1, Zenon DEF PrepareMPDU
<1>6. r \in Sound(n, h)
  BY AllocFreeSound, SlotsType
<1>5. [r EXCEPT !.pDATA = p, !.seqno = q] \in Sound(n, h)
  <2> HIDE DEF p, q, r
  <2> QED BY <1>2, <1>3, <1>6, ZenonT(60) DEF Sound, Station, Pending
<1> QED BY <1>4, <1>5

\* A transmission of a held frame, and the state TXC waits in after it.
LEMMA SendHeldSound ==
  ASSUME NEW n, NEW h, NEW s \in Sound(n, h), NEW in
  PROVE  /\ [Transmit(s, s.pRTS, "TXC", in) EXCEPT !.txc = "wait_RTSsent"] \in Sound(n, h)
         /\ [Transmit(s, s.pDATA, "TXC", in) EXCEPT !.txc = "wait_PDUsent"] \in Sound(n, h)
<1>1. s.pRTS \in Frame /\ s.pDATA \in Frame
  BY DEF Sound, Station
<1>2. Transmit(s, s.pRTS, "TXC", in) \in Sound(n, h) /\ Transmit(s, s.pDATA, "TXC", in) \in Sound(n, h)
  BY <1>1, TransmitSound
<1>3. "wait_RTSsent" \in TXCStates /\ "wait_PDUsent" \in TXCStates
  BY DEF TXCStates
<1> QED BY <1>2, <1>3, TxcSound, Zenon

\* The end of TXC::handleMsgFromUp.
LEMMA StartServiceSound ==
  ASSUME NEW n, NEW h, NEW s \in Sound(n, h), NEW in \in AnyInput
  PROVE  StartService(s, in) \in Sound(n, h)
<1> DEFINE pending == IF s.pRTS # NoFrame THEN "RTS_pending" ELSE "DATA_pending"
           u == [s EXCEPT !.txc = pending]
<1>1. pending \in TXCStates
  BY DEF TXCStates
<1>2. u \in Sound(n, h)
  <2> HIDE DEF pending
  <2> QED BY <1>1, TxcSound, Zenon
<1>3. HandleBKStart(u, in) \in Sound(n, h)
  <2> HIDE DEF u
  <2> QED BY <1>2, BKStartSound
<1> QED BY <1>2, <1>3, SendHeldSound DEF StartService

\* TXC::handleMsgFromUp.
LEMMA MsgFromUpSound ==
  ASSUME NEW n \in Nodes, NEW h, NEW s \in Sound(n, h), NEW in \in AnyInput
  PROVE  HandleMsgFromUp(s, in) \in Sound(n, h)
<1> DEFINE p == PrepareMPDU([s EXCEPT !.callback = TRUE], in)
           a == Alloc(p, "pRTS")
           u == [a EXCEPT !.pRTS = RTSFrame(p.id, p.pDATA)]
<1>1. [s EXCEPT !.callback = TRUE] \in Sound(n, h)
  BY ZenonT(60) DEF Sound, Station, Pending
<1>2. p \in Sound(n, h)
  BY <1>1, PrepareSound
<1> HIDE DEF p
<1>3. RTSFrame(p.id, p.pDATA) \in Frame
  <2>1. p.id = n /\ p.pDATA \in Frame
    BY <1>2 DEF Sound, Station
  <2> QED BY <2>1, RTSFrameType
<1>4. u \in Sound(n, h)
  <2>1. a \in Sound(n, h)
    BY <1>2, AllocFreeSound, SlotsType
  <2> HIDE DEF a
  <2> QED BY <1>3, <2>1, ZenonT(60) DEF Sound, Station, Pending
<1>5. StartService(u, in) \in Sound(n, h) /\ StartService(p, in) \in Sound(n, h)
  <2> HIDE DEF u
  <2> QED BY <1>2, <1>4, StartServiceSound
<1>6. HandleMsgFromUp(s, in) = StartService(IF NeedsRTS(p.pDATA) THEN u ELSE p, in)
  BY DEF HandleMsgFromUp, p
<1> QED BY <1>5, <1>6

\* TXC::checkQueue.
LEMMA CheckQueueSound ==
  ASSUME NEW n \in Nodes, NEW h, NEW s \in Sound(n, h), NEW in \in AnyInput
  PROVE  CheckQueue(s, in) \in Sound(n, h)
<1> DEFINE idle == [s EXCEPT !.txc = "Idle", !.callback = FALSE]
<1>1. idle \in Sound(n, h)
  <2>1. "Idle" \in TXCStates
    BY DEF TXCStates
  <2> QED BY <2>1, ZenonT(60) DEF Sound, Station, Pending
<1>2. HandleMsgFromUp(idle, in) \in Sound(n, h)
  <2> HIDE DEF idle
  <2> QED BY <1>1, MsgFromUpSound
<1> QED BY <1>1, <1>2 DEF CheckQueue

\* Traffic::start and Traffic::stop.
LEMMA TrafficSound ==
  ASSUME NEW n \in Nodes, NEW h, NEW s \in Sound(n, h), NEW in \in AnyInput
  PROVE  TrafficStart(s, in) \in Sound(n, h) /\ TrafficStop(s) \in Sound(n, h)
<1>1. [s EXCEPT !.active = TRUE] \in Sound(n, h)
  BY ZenonT(60) DEF Sound, Station, Pending
<1>2. [s EXCEPT !.active = FALSE] \in Sound(n, h)
  BY ZenonT(60) DEF Sound, Station, Pending
<1> QED BY <1>1, <1>2, MsgFromUpSound DEF TrafficStart, TrafficStop

\* Mac802_11::inc_cw.
LEMMA IncCWSound ==
  ASSUME NEW n, NEW h, NEW s \in Sound(n, h)
  PROVE  IncCW(s) \in Sound(n, h)
<1> DEFINE w == IF 2 * s.cw + 1 > CWMax THEN CWMax ELSE 2 * s.cw + 1
<1>1. s \in Station /\ s.cw \in Nat
  BY DEF Sound, Station
<1>2. w \in Nat
  BY <1>1, MibAssumption
<1>3. [s EXCEPT !.cw = w] \in Sound(n, h)
  <2> HIDE DEF w
  <2> QED BY <1>2, ZenonT(60) DEF Sound, Station, Pending
<1>4. IncCW(s) = [s EXCEPT !.cw = w]
  BY <1>1 DEF IncCW, Station
<1> QED BY <1>3, <1>4

\* TXC::handleTXConfirm.
LEMMA TXConfirmSound ==
  ASSUME NEW n \in Nodes, NEW h, NEW s \in Sound(n, h), NEW in \in AnyInput
  PROVE  HandleTXConfirm(s, in) \in Sound(n, h)
<1> DEFINE r == Free(s, "pDATA")
           u == [r EXCEPT !.pDATA = NoFrame, !.done = "sent"]
<1>1. "txcACK" \in Timers \ {"bk"} /\ "txcCTS" \in Timers \ {"bk"}
  BY DEF Timers, MacTimers
<1>2. Sched(s, "txcACK", ACKTimeout) \in Sound(n, h) /\ Sched(s, "txcCTS", CTSTimeout) \in Sound(n, h)
  BY <1>1, TimeoutType, SchedSound
<1>3. "wait_ACK" \in TXCStates /\ "wait_CTS" \in TXCStates
  BY DEF TXCStates
<1>4. /\ [Sched(s, "txcACK", ACKTimeout) EXCEPT !.txc = "wait_ACK"] \in Sound(n, h)
      /\ [Sched(s, "txcCTS", CTSTimeout) EXCEPT !.txc = "wait_CTS"] \in Sound(n, h)
  BY <1>2, <1>3, TxcSound, Zenon
<1>5. u \in Sound(n, h)
  <2>1. r \in Sound(n, h)
    BY AllocFreeSound, SlotsType
  <2> HIDE DEF r
  <2> QED BY <2>1, NoFrameType, ZenonT(150) DEF Sound, Station, Pending
<1>6. CheckQueue(HandleBKStart(u, in), in) \in Sound(n, h)
  <2> HIDE DEF u
  <2> QED BY <1>5, BKStartSound, CheckQueueSound
<1> QED BY <1>4, <1>6, ExitSound, LogicErrorSound DEF HandleTXConfirm

\* TXC::handleCTSIndication.
LEMMA CTSIndicationSound ==
  ASSUME NEW n, NEW h, NEW s \in Sound(n, h)
  PROVE  HandleCTSIndication(s) \in Sound(n, h)
<1> DEFINE c == Cancel(Free(s, "pRTS"), "txcCTS")
           u == [c EXCEPT !.pRTS = NoFrame, !.short = 0, !.txc = "wait_SIFS"]
<1>1. "txcCTS" \in Timers /\ "txcSIFS" \in Timers \ {"bk"} /\ SIFS \in Nat
  BY TimingAssumption DEF Timers, MacTimers
<1>2. c \in Sound(n, h)
  BY <1>1, AllocFreeSound, SlotsType, CancelSound
<1>3. u \in Sound(n, h)
  <2> HIDE DEF c
  <2>1. "wait_SIFS" \in TXCStates
    BY DEF TXCStates
  <2> QED BY <1>2, <2>1, NoFrameType, ZenonT(60) DEF Sound, Station, Pending
<1>4. Sched(u, "txcSIFS", SIFS) \in Sound(n, h)
  <2> HIDE DEF u
  <2> QED BY <1>1, <1>3, SchedSound
<1> QED BY <1>4, LogicErrorSound DEF HandleCTSIndication

\* The common end of a packet.
LEMMA FinishSound ==
  ASSUME NEW n \in Nodes, NEW h, NEW s \in Sound(n, h),
         NEW how \in {"acked", "dropped"}, NEW in \in AnyInput
  PROVE  FinishPacket(s, how, in) \in Sound(n, h)
<1> DEFINE r == Free(s, "pDATA")
           u == [r EXCEPT !.pDATA = NoFrame, !.short = 0, !.long = 0,
                          !.cw = CWMin, !.done = how]
<1>0. r \in Sound(n, h)
  BY AllocFreeSound, SlotsType
<1>1. u \in Sound(n, h)
  <2> HIDE DEF r
  <2> QED BY <1>0, NoFrameType, MibAssumption, ZenonT(150) DEF Sound, Station, Pending
<1>2. CheckQueue(HandleBKStart(u, in), in) \in Sound(n, h)
  <2> HIDE DEF u
  <2> QED BY <1>1, BKStartSound, CheckQueueSound
<1> QED BY <1>2, ExitSound DEF FinishPacket

\* TXC::handleTCTStimeout.
LEMMA TCTSTimeoutSound ==
  ASSUME NEW n \in Nodes, NEW h, NEW s \in Sound(n, h), NEW in \in AnyInput
  PROVE  HandleTCTStimeout(s, in) \in Sound(n, h)
<1> DEFINE t == IncCW([s EXCEPT !.short = @ + 1])
           r == Free(t, "pRTS")
           u == [r EXCEPT !.pRTS = NoFrame]
           v == [t EXCEPT !.txc = "RTS_pending"]
<1>1. s.short + 1 \in Nat
  BY DEF Sound, Station
<1>2. [s EXCEPT !.short = s.short + 1] \in Sound(n, h)
  BY <1>1, ZenonT(60) DEF Sound, Station, Pending
<1>3. t \in Sound(n, h)
  BY <1>2, IncCWSound
<1> HIDE DEF t
<1>4. u \in Sound(n, h)
  <2>1. r \in Sound(n, h)
    BY <1>3, AllocFreeSound, SlotsType
  <2> HIDE DEF r
  <2> QED BY <2>1, NoFrameType, ZenonT(60) DEF Sound, Station, Pending
<1>5. v \in Sound(n, h)
  <2>1. "RTS_pending" \in TXCStates
    BY DEF TXCStates
  <2> QED BY <1>3, <2>1, TxcSound, Zenon
<1> HIDE DEF u, v
<1>6. FinishPacket(u, "dropped", in) \in Sound(n, h) /\ HandleBKStart(v, in) \in Sound(n, h)
  BY <1>4, <1>5, FinishSound, BKStartSound
<1> QED BY <1>6, LogicErrorSound DEF HandleTCTStimeout, t, u, v

\* TXC::handleSIFStimeout.
LEMMA TXCSIFSSound ==
  ASSUME NEW n, NEW h, NEW s \in Sound(n, h), NEW in
  PROVE  HandleTXCSIFStimeout(s, in) \in Sound(n, h)
BY SendHeldSound, LogicErrorSound DEF HandleTXCSIFStimeout

\* TXC::handleTACKtimeout.
LEMMA TACKTimeoutSound ==
  ASSUME NEW n \in Nodes, NEW h, NEW s \in Sound(n, h), NEW in \in AnyInput
  PROVE  HandleTACKtimeout(s, in) \in Sound(n, h)
<1> DEFINE long == s.pDATA.len > RTSThreshold
           t == IncCW(IF long THEN [s EXCEPT !.long = @ + 1]
                              ELSE [s EXCEPT !.short = @ + 1])
           r == RTSFrame(s.id, s.pDATA)
           a == Alloc(t, "pRTS")
           w == [a EXCEPT !.pRTS = r]
           u == [a EXCEPT !.pRTS = r, !.txc = "RTS_pending"]
           v == [t EXCEPT !.txc = "DATA_pending"]
<1>1. s.short + 1 \in Nat /\ s.long + 1 \in Nat /\ s.id = n /\ s.pDATA \in Frame
  BY DEF Sound, Station
<1>2. [s EXCEPT !.short = s.short + 1] \in Sound(n, h)
  BY <1>1, ZenonT(60) DEF Sound, Station, Pending
<1>3. [s EXCEPT !.long = s.long + 1] \in Sound(n, h)
  BY <1>1, ZenonT(60) DEF Sound, Station, Pending
<1>4. t \in Sound(n, h)
  BY <1>2, <1>3, IncCWSound
<1>5. r \in Frame
  BY <1>1, RTSFrameType
<1>6. "RTS_pending" \in TXCStates /\ "DATA_pending" \in TXCStates
  BY DEF TXCStates
<1> HIDE DEF t, r
<1>7. u \in Sound(n, h)
  <2>0. a \in Sound(n, h)
    BY <1>4, AllocFreeSound, SlotsType
  <2> HIDE DEF a
  <2>1. w \in Sound(n, h)
    BY <1>5, <2>0, ZenonT(60) DEF Sound, Station, Pending
  <2>2. u = [w EXCEPT !.txc = "RTS_pending"]
    BY <2>0 DEF Sound, Station
  <2> HIDE DEF w, u
  <2> QED BY <2>1, <2>2, <1>6, TxcSound
<1>8. v \in Sound(n, h)
  BY <1>4, <1>6, TxcSound
<1> HIDE DEF u, v
<1>9. /\ FinishPacket(t, "dropped", in) \in Sound(n, h)
      /\ HandleBKStart(u, in) \in Sound(n, h) /\ HandleBKStart(v, in) \in Sound(n, h)
  BY <1>4, <1>7, <1>8, FinishSound, BKStartSound
<1>10. HandleTACKtimeout(s, in) \in
         { LogicError(s), FinishPacket(t, "dropped", in),
           HandleBKStart(u, in), HandleBKStart(v, in) }
  BY DEF HandleTACKtimeout, t, u, v, r
<1> QED BY <1>9, <1>10, LogicErrorSound

\* TXC::handleACKIndication.
LEMMA ACKIndicationSound ==
  ASSUME NEW n \in Nodes, NEW h, NEW s \in Sound(n, h), NEW in \in AnyInput
  PROVE  HandleACKIndication(s, in) \in Sound(n, h)
<1>1. "txcACK" \in Timers
  BY DEF Timers, MacTimers
<1> QED BY <1>1, CancelSound, FinishSound, LogicErrorSound DEF HandleACKIndication

-----------------------------------------------------------------------------
(* The reception side *)

\* Mac802_11::recvDATA.
LEMMA RecvDATASound ==
  ASSUME NEW n, NEW h, NEW s \in Sound(n, h), NEW p \in Frame
  PROVE  RecvDATA(s, p) \in Sound(n, h)
<1> DEFINE c == IF p.dst = Broadcast THEN s.cache ELSE [s.cache EXCEPT ![p.src] = p.seq]
<1>1. s \in Station /\ s.cache \in [Nodes -> 0 .. SeqMod - 1] /\ p.seq \in 0 .. SeqMod - 1
  BY FrameFields DEF Sound, Station
<1>2. c \in [Nodes -> 0 .. SeqMod - 1]
  BY <1>1
<1> DEFINE r == Free(s, "pktRX")
           u == [r EXCEPT !.up = p, !.cache = c]
<1>5. r \in Sound(n, h) /\ r.cache = s.cache
  BY <1>1, AllocFreeSound, SlotsType DEF Free, PoolCall, Station
<1>3. u \in Sound(n, h)
  <2> HIDE DEF c, r
  <2> QED BY <1>2, <1>5, ZenonT(60) DEF Sound, Station, Pending
<1>4. RecvDATA(s, p) \in {r, u}
  <2> HIDE DEF r
  <2>1. r \in Station
    BY <1>5 DEF Sound
  <2>2. RecvDATA(s, p) \in
          {r, [r EXCEPT !.up = p, !.cache = IF p.dst = Broadcast THEN @ ELSE [@ EXCEPT ![p.src] = p.seq]]}
    BY DEF RecvDATA, r
  <2>3. [r EXCEPT !.up = p, !.cache = IF p.dst = Broadcast THEN @ ELSE [@ EXCEPT ![p.src] = p.seq]] = u
    BY <1>5, <2>1 DEF Station
  <2> QED BY <2>2, <2>3
<1> QED BY <1>3, <1>4, <1>5

\* The state of RXC may be set at any time.
LEMMA RxcSound ==
  ASSUME NEW n, NEW h, NEW s \in Sound(n, h), NEW c \in RXCStates
  PROVE  [s EXCEPT !.rxc = c] \in Sound(n, h)
BY ZenonT(60) DEF Sound, Station, Pending

\* RXC prepares an answer.
LEMMA AnswerSound ==
  ASSUME NEW n, NEW h, NEW s \in Sound(n, h), NEW p \in Frame
  PROVE  LET a == [Alloc(s, "pCTRL") EXCEPT !.pCTRL = p]
         IN  /\ Sched(a, "rxcSIFS", SIFS) \in Sound(n, h)
             /\ Sched(Free(a, "pktRX"), "rxcSIFS", SIFS) \in Sound(n, h)
<1> DEFINE r == Alloc(s, "pCTRL")
           a == [r EXCEPT !.pCTRL = p]
<1>1. a \in Sound(n, h)
  <2>1. r \in Sound(n, h)
    BY AllocFreeSound, SlotsType
  <2> HIDE DEF r
  <2> QED BY <2>1, ZenonT(60) DEF Sound, Station, Pending
<1>2. "rxcSIFS" \in Timers \ {"bk"} /\ SIFS \in Nat
  BY TimingAssumption DEF Timers, MacTimers
<1> HIDE DEF a
<1>3. Free(a, "pktRX") \in Sound(n, h)
  BY <1>1, AllocFreeSound, SlotsType
<1>4. Sched(a, "rxcSIFS", SIFS) \in Sound(n, h) /\ Sched(Free(a, "pktRX"), "rxcSIFS", SIFS) \in Sound(n, h)
  BY <1>1, <1>2, <1>3, SchedSound
<1> QED BY <1>4 DEF a, r

\* RXC::handleMsgFromBelow.
LEMMA MsgFromBelowSound ==
  ASSUME NEW n \in Nodes, NEW h, NEW s \in Sound(n, h), NEW p \in Frame,
         NEW in \in AnyInput
  PROVE  HandleMsgFromBelow(s, p, in) \in Sound(n, h)
<1>0. s.id = n /\ "Idle" \in RXCStates /\ "wait_SIFS" \in RXCStates
  BY DEF Sound, RXCStates
<1>1. [Free(HandleACKIndication(s, in), "pktRX") EXCEPT !.rxc = "Idle"] \in Sound(n, h)
  <2>1. Free(HandleACKIndication(s, in), "pktRX") \in Sound(n, h)
    BY ACKIndicationSound, AllocFreeSound, SlotsType
  <2> QED BY <1>0, <2>1, RxcSound, Zenon
<1>2. [Free(HandleCTSIndication(s), "pktRX") EXCEPT !.rxc = "Idle"] \in Sound(n, h)
  <2>1. Free(HandleCTSIndication(s), "pktRX") \in Sound(n, h)
    BY CTSIndicationSound, AllocFreeSound, SlotsType
  <2> QED BY <1>0, <2>1, RxcSound, Zenon
<1>3. ReceiveRTS(s, p) \in Sound(n, h)
  <2> DEFINE f == CTSFrame(s.id, p)
             u == Sched(Free([Alloc(s, "pCTRL") EXCEPT !.pCTRL = f], "pktRX"), "rxcSIFS", SIFS)
             v == Free(s, "pktRX")
  <2>1. f \in Frame
    BY <1>0, CTSFrameType
  <2>2. u \in Sound(n, h)
    <3> HIDE DEF f
    <3> QED BY <2>1, AnswerSound, Zenon
  <2>3. [u EXCEPT !.rxc = "wait_SIFS"] \in Sound(n, h) /\ [v EXCEPT !.rxc = "Idle"] \in Sound(n, h)
    <3>1. v \in Sound(n, h)
      BY AllocFreeSound, SlotsType
    <3> HIDE DEF u, v
    <3> QED BY <1>0, <2>2, <3>1, RxcSound, Zenon
  <2> QED BY <2>3 DEF ReceiveRTS
<1>4. ReceiveDATA(s, p) \in Sound(n, h)
  <2> DEFINE f == ACKFrame(s.id, p)
             u == Sched([Alloc(s, "pCTRL") EXCEPT !.pCTRL = f], "rxcSIFS", SIFS)
             v == RecvDATA(u, p)
             w == RecvDATA(s, p)
  <2>1. f \in Frame
    BY <1>0, ACKFrameType
  <2>2. u \in Sound(n, h)
    <3> HIDE DEF f
    <3> QED BY <2>1, AnswerSound, Zenon
  <2>3. v \in Sound(n, h) /\ w \in Sound(n, h)
    <3> HIDE DEF u
    <3> QED BY <2>2, RecvDATASound
  <2>4. [v EXCEPT !.rxc = "wait_SIFS"] \in Sound(n, h) /\ [w EXCEPT !.rxc = "Idle"] \in Sound(n, h)
    <3> HIDE DEF v, w
    <3> QED BY <1>0, <2>3, RxcSound, Zenon
  <2> QED BY <2>4 DEF ReceiveDATA
<1> QED BY <1>1, <1>2, <1>3, <1>4, LogicErrorSound DEF HandleMsgFromBelow

\* RXC::handleSIFStimeout.
LEMMA RXCSIFSSound ==
  ASSUME NEW n, NEW h, NEW s \in Sound(n, h), NEW in
  PROVE  HandleRXCSIFStimeout(s, in) \in Sound(n, h)
<1> DEFINE u == IF s.pCTRL # NoFrame THEN Transmit(s, s.pCTRL, "RXC", in) ELSE s
<1>1. s.pCTRL \in Frame
  BY DEF Sound, Station
<1>2. u \in Sound(n, h)
  BY <1>1, TransmitSound
<1>3. "wait_sent" \in RXCStates
  BY DEF RXCStates
<1>4. [u EXCEPT !.rxc = "wait_sent"] \in Sound(n, h)
  <2> HIDE DEF u
  <2> QED BY <1>2, <1>3, RxcSound, Zenon
<1> QED BY <1>4 DEF HandleRXCSIFStimeout

\* RXC::handleTXConfirm.
LEMMA RXCTXConfirmSound ==
  ASSUME NEW n, NEW h, NEW s \in Sound(n, h)
  PROVE  HandleRXCTXConfirm(s) \in Sound(n, h)
<1> DEFINE r == Free(s, "pCTRL")
<1>1. [r EXCEPT !.pCTRL = NoFrame, !.rxc = "Idle"] \in Sound(n, h)
  <2>1. "Idle" \in RXCStates /\ r \in Sound(n, h)
    BY AllocFreeSound, SlotsType DEF RXCStates
  <2> HIDE DEF r
  <2> QED BY <2>1, NoFrameType, ZenonT(60) DEF Sound, Station, Pending
<1> QED BY <1>1, ExitSound DEF HandleRXCTXConfirm

\* Mac802_11::handleRXEndIndication.
LEMMA RXEndSound ==
  ASSUME NEW n \in Nodes, NEW h, NEW s \in Sound(n, h), NEW p \in Frame,
         NEW error, NEW in \in AnyInput
  PROVE  HandleRXEndIndication(s, p, error, in) \in Sound(n, h)
<1>1. SetIFS(s, EIFS) \in Sound(n, h) /\ SetIFS(s, DIFS) \in Sound(n, h)
  BY IfsType, SetIFSSound
<1>2. SetIFS(Free(SetIFS(s, DIFS), "pktRX"), EIFS) \in Sound(n, h)
  BY <1>1, IfsType, SetIFSSound, AllocFreeSound, SlotsType
<1>3. HandleMsgFromBelow(SetIFS(s, DIFS), p, in) \in Sound(n, h)
  BY <1>1, MsgFromBelowSound
<1>4. Free(HandleSetNAV(SetIFS(s, DIFS), p.dur, in), "pktRX") \in Sound(n, h)
  <2>1. p.dur \in Nat
    BY FrameFields
  <2> QED BY <1>1, <2>1, SetNAVSound, AllocFreeSound, SlotsType
<1> QED BY <1>1, <1>2, <1>3, <1>4 DEF HandleRXEndIndication

\* WirelessPhy::handle_RXtimeout.
LEMMA RXtimeoutSound ==
  ASSUME NEW n \in Nodes, NEW h, NEW s \in Sound(n, h), NEW in \in AnyInput
  PROVE  HandleRXtimeout(s, in) \in Sound(n, h)
<1> DEFINE idle == SetState(s, "SEARCHING", in)
           u == HandleRXEndIndication(IF s.rxError THEN Free(idle, "pktRX") ELSE idle,
                                      s.pktRX, s.rxError, in)
<1>1. s.pktRX \in Frame /\ "SEARCHING" \in PhyStates
  BY DEF Sound, Station, PhyStates
<1>2. u \in Sound(n, h)
  <2>1. idle \in Sound(n, h) /\ Free(idle, "pktRX") \in Sound(n, h)
    BY <1>1, SetStateSound, AllocFreeSound, SlotsType
  <2> HIDE DEF idle
  <2> QED BY <1>1, <2>1, RXEndSound
<1>3. [u EXCEPT !.pktRX = NoFrame, !.rxError = FALSE] \in Sound(n, h)
  <2> HIDE DEF u
  <2> QED BY <1>2, NoFrameType, PktSound, Zenon
<1> QED BY <1>3, ExitSound DEF HandleRXtimeout

\* WirelessPhy::handle_TXtimeout.
LEMMA TXtimeoutSound ==
  ASSUME NEW n \in Nodes, NEW h, NEW s \in Sound(n, h), NEW in \in AnyInput
  PROVE  HandleTXtimeout(s, in) \in Sound(n, h)
<1> DEFINE u == IF s.confirm = "TXC" THEN HandleTXConfirm(s, in) ELSE HandleRXCTXConfirm(s)
<1>1. u \in Sound(n, h)
  BY TXConfirmSound, RXCTXConfirmSound
<1>2. SetState(u, "SEARCHING", in) \in Sound(n, h)
  <2>1. "SEARCHING" \in PhyStates
    BY DEF PhyStates
  <2> HIDE DEF u
  <2> QED BY <1>1, <2>1, SetStateSound
<1> QED BY <1>2, ExitSound DEF HandleTXtimeout

-----------------------------------------------------------------------------
(* Events *)

\* The constructors build a sound station.
LEMMA InitSound ==
  ASSUME NEW n \in Nodes
  PROVE  InitStation(n) \in Sound(n, {})
<1> DEFINE s == InitStation(n)
<1>1. /\ EIFS \in Nat /\ CWMin \in Nat /\ 0 \in 0 .. SeqMod - 1 /\ 1 \in 0 .. SeqMod - 1
      /\ [m \in Nodes |-> 0] \in [Nodes -> 0 .. SeqMod - 1]
      /\ [t \in Timers |-> TimerIdle] \in [Timers -> Int]
      /\ <<>> \in Seq(PoolCalls)
  BY IfsType, MibAssumption, SizeAssumption DEF TimerIdle
<1>2. s \in Station
  BY <1>1, NoFrameType
  DEF InitStation, Station, PhyStates, ChannelStates, BackoffStates, TXCStates, RXCStates
<1>3. /\ s.id = n /\ s.phy = "SEARCHING" /\ s.ch = "noCSnoNAV" /\ s.bk = "noBackoff"
      /\ s.timer = [t \in Timers |-> TimerIdle]
  BY DEF InitStation
<1>4. "bk" \in Timers
  BY DEF Timers, MacTimers
<1> HIDE DEF s
<1>5. s \in Sound(n, {})
  BY <1>2, <1>3, <1>4 DEF Sound, Pending, TimerIdle
<1> QED BY <1>5 DEF s

\* What the last step handed out may be forgotten.
LEMMA ForgetSound ==
  ASSUME NEW n, NEW h, NEW s \in Sound(n, h)
  PROVE  /\ [s EXCEPT !.out = NoFrame, !.up = NoFrame] \in Sound(n, h)
         /\ [s EXCEPT !.done = "none", !.fault = "none"] \in Sound(n, h)
         /\ [s EXCEPT !.out = NoFrame, !.up = NoFrame, !.done = "none",
                      !.fault = "none"] \in Sound(n, h)
<1>1. [s EXCEPT !.out = NoFrame, !.up = NoFrame] \in Sound(n, h)
  BY NoFrameType, ZenonT(60) DEF Sound, Station, Pending
<1>2. [s EXCEPT !.done = "none", !.fault = "none"] \in Sound(n, h)
  BY ZenonT(60) DEF Sound, Station, Pending
<1>3. [s EXCEPT !.out = NoFrame, !.up = NoFrame, !.done = "none",
                !.fault = "none"] \in Sound(n, h)
  BY NoFrameType, ZenonT(60) DEF Sound, Station, Pending
<1> QED BY <1>1, <1>2, <1>3

\* The clock moves on, not past a pending timer.
LEMMA ElapseSound ==
  ASSUME NEW n, NEW h, NEW s \in Sound(n, h), NEW dt \in Int,
         dt <= 0 \/ \A t \in Timers : Pending(s, t) => dt <= s.timer[t]
  PROVE  Elapse(s, dt) \in Sound(n, h)
<1> DEFINE c == [t \in Timers |-> IF s.timer[t] >= 0 THEN s.timer[t] - dt ELSE s.timer[t]]
           u == [s EXCEPT !.timer = c, !.calls = <<>>]
<1>1. s \in Station /\ s.timer \in [Timers -> Int] /\ "bk" \in Timers
  BY DEF Sound, Station, Timers, MacTimers
<1>2. c \in [Timers -> Int]
  BY <1>1
<1>3. \A t \in Timers : /\ s.timer[t] >= 0 => c[t] >= 0
                        /\ s.timer[t] < 0 => c[t] = s.timer[t]
  BY <1>1 DEF Pending
<1>4. Elapse(s, dt) = u
  BY <1>1 DEF Elapse, Station
<1> HIDE DEF c
<1>5. u \in Station
  <2>1. <<>> \in Seq(PoolCalls)
    OBVIOUS
  <2> QED BY <1>1, <1>2, <2>1, ZenonT(60) DEF Station
<1>6. /\ u.id = s.id /\ u.phy = s.phy /\ u.ch = s.ch /\ u.bk = s.bk
      /\ u.slots = s.slots /\ u.started = s.started /\ u.timer = c
  BY <1>1 DEF Station
<1> HIDE DEF u
<1>7. \A t \in Timers : \/ c[t] >= TimerIdle
                        \/ t \in h /\ c[t] = TimerHandling
  <2> TAKE t \in Timers
  <2>1. /\ s.timer[t] \in Int /\ c[t] \in Int
        /\ s.timer[t] >= TimerIdle \/ (t \in h /\ s.timer[t] = TimerHandling)
    BY <1>1, <1>2 DEF Sound
  <2>2. CASE s.timer[t] >= 0
    BY <1>3, <2>1, <2>2 DEF TimerIdle
  <2>3. CASE s.timer[t] < 0
    BY <1>3, <2>1, <2>3
  <2> QED BY <2>1, <2>2, <2>3
<1>8. c["bk"] >= 0 => s.timer["bk"] >= 0
  BY <1>1, <1>3
<1>9. u \in Sound(n, h)
  BY <1>5, <1>6, <1>7, <1>8 DEF Sound, Pending
<1> QED BY <1>4, <1>9

\* TimerHandler::handle up to the call of expire.
LEMMA BeginSound ==
  ASSUME NEW n, NEW s \in Sound(n, {}), NEW t \in Timers
  PROVE  LET b == BeginExpire(s, t)
         IN  /\ b \in Sound(n, {t}) /\ b.bk = s.bk
             /\ b.timer[t] = TimerHandling
<1> DEFINE u == [s EXCEPT !.timer[t] = TimerHandling]
           v == [u EXCEPT !.out = NoFrame, !.up = NoFrame, !.done = "none", !.fault = "none"]
<1>1. s \in Station /\ TimerHandling \in Int /\ "bk" \in Timers
  BY DEF Sound, TimerHandling, Timers, MacTimers
<1>2. BeginExpire(s, t) = v
  BY <1>1 DEF BeginExpire
<1>3. /\ u \in Station
      /\ \A k \in Timers : u.timer[k] = IF k = t THEN TimerHandling ELSE s.timer[k]
      /\ u.id = s.id /\ u.phy = s.phy /\ u.ch = s.ch /\ u.bk = s.bk
      /\ u.slots = s.slots /\ u.started = s.started
  BY <1>1, TimerUpdate, Zenon
<1> HIDE DEF u
<1>4. u \in Sound(n, {t})
  BY <1>1, <1>3 DEF Sound, Pending, TimerHandling, TimerIdle
<1>5. v \in Sound(n, {t})
  BY <1>4, ForgetSound, Zenon
<1>6. v.bk = u.bk /\ v.timer = u.timer
  BY <1>3 DEF Station
<1> HIDE DEF v
<1> QED BY <1>2, <1>3, <1>5, <1>6

\* What the expire function of a timer does is sound.
LEMMA ExpireSound ==
  ASSUME NEW n \in Nodes, NEW h, NEW s \in Sound(n, h), NEW t \in Timers,
         t = "bk" => ~Pending(s, "bk") /\ s.bk = "BackoffRunning",
         NEW in \in AnyInput
  PROVE  Expire(s, t, in) \in Sound(n, h)
<1>1. CASE t \in PhyTimers
  BY <1>1, TXtimeoutSound, RXtimeoutSound, PreRXSound DEF Expire, PhyTimers
<1>2. CASE t \in {"ifs", "nav", "bk"}
  BY <1>2, IFSTimerSound, NAVTimerSound, BackoffExpireSound DEF Expire
<1>3. CASE t \in {"txcCTS", "txcSIFS", "txcACK", "rxcSIFS"}
  BY <1>3, TCTSTimeoutSound, TXCSIFSSound, TACKTimeoutSound, RXCSIFSSound DEF Expire
<1> QED BY <1>1, <1>2, <1>3 DEF Timers, MacTimers

\* TimerHandler::handle returns with the timer idle or pending again.
LEMMA EndSound ==
  ASSUME NEW n, NEW t \in Timers, NEW s \in Sound(n, {t})
  PROVE  EndExpire(s, t) \in Sound(n, {})
<1> DEFINE u == [s EXCEPT !.timer[t] = TimerIdle]
<1>0. TimerIdle \in Int /\ TimerIdle >= TimerIdle
  BY DEF TimerIdle
<1>1. u \in Sound(n, {t}) /\ s \in Station
  <2>1. s \in Station
    BY DEF Sound
  <2> QED BY <1>0, <2>1, PutTimer, Zenon
<1>2. \A k \in Timers : u.timer[k] = IF k = t THEN TimerIdle ELSE s.timer[k]
  BY <1>0, <1>1, TimerUpdate, Zenon
<1> HIDE DEF u
<1>3. CASE s.timer[t] = TimerHandling
  <2>1. u \in Sound(n, {})
    BY <1>1, <1>2 DEF Sound, TimerIdle
  <2> QED BY <1>3, <2>1 DEF EndExpire, u
<1>4. CASE s.timer[t] # TimerHandling
  BY <1>4 DEF EndExpire, Sound
<1> QED BY <1>3, <1>4

\* A timer that expires leaves the station sound.
LEMMA HandleTimerSound ==
  ASSUME NEW n \in Nodes, NEW s \in Sound(n, {}), NEW t \in Timers, Pending(s, t),
         NEW in \in AnyInput
  PROVE  HandleTimer(s, t, in) \in Sound(n, {})
<1>1. /\ BeginExpire(s, t) \in Sound(n, {t}) /\ BeginExpire(s, t).bk = s.bk
      /\ BeginExpire(s, t).timer[t] = TimerHandling
  BY BeginSound
<1>2. t = "bk" => /\ ~Pending(BeginExpire(s, t), "bk")
                  /\ BeginExpire(s, t).bk = "BackoffRunning"
  BY <1>1 DEF Sound, Pending, TimerHandling
<1>3. Expire(BeginExpire(s, t), t, in) \in Sound(n, {t})
  BY <1>1, <1>2, ExpireSound
<1> QED BY <1>3, EndSound DEF HandleTimer

-----------------------------------------------------------------------------
(* What each member function changes and what it leaves.  Sound holds        *)
(* wherever it is called; the lemmas from here on say, for the states the    *)
(* callers are in, which fields and timers change, that the timers of PHY    *)
(* and channel still match their states, and that no call of exit is         *)
(* reached.                                                                  *)

\* The fields of a station but its timers.
Fields == { "id", "phy", "pktRX", "rxError", "ch", "ifsValue", "bk", "slots", "started",
            "txc", "pRTS", "pDATA", "short", "long", "rxc", "pCTRL", "confirm", "cw",
            "seqno", "cache", "callback", "active", "out", "up", "done", "calls", "fault" }

\* From s to u only the fields F and the timers T change.
Touches(s, u, F, T) ==
    /\ u \in Station
    /\ \A f \in Fields \ F : u[f] = s[f]
    /\ \A t \in Timers \ T : u.timer[t] = s.timer[t]

\* What two steps in a row touch, their composition touches.
LEMMA TouchesThen ==
  ASSUME NEW s, NEW u, NEW v, NEW F, NEW G, NEW S, NEW T,
         Touches(s, u, F, S), Touches(u, v, G, T)
  PROVE  Touches(s, v, F \cup G, S \cup T)
BY DEF Touches

\* What a step touches may be stated more generously.
LEMMA TouchesMore ==
  ASSUME NEW s, NEW u, NEW F, NEW G, NEW S, NEW T,
         Touches(s, u, F, S), F \subseteq G, S \subseteq T
  PROVE  Touches(s, u, G, T)
BY DEF Touches

\* An update of a timer touches that timer only.
LEMMA TimerEffect ==
  ASSUME NEW s \in Station, NEW t \in Timers, NEW d \in Int
  PROVE  LET u == [s EXCEPT !.timer[t] = d]
         IN  Touches(s, u, {}, {t}) /\ u.timer[t] = d
<1> DEFINE u == [s EXCEPT !.timer[t] = d]
<1>1. u \in Station
  BY DEF Station
<1>2. \A f \in Fields : u[f] = s[f]
  BY DEF Station, Fields
<1>3. \A k \in Timers : u.timer[k] = IF k = t THEN d ELSE s.timer[k]
  BY TimerUpdate
<1> QED BY <1>1, <1>2, <1>3 DEF Touches

\* A timer that is neither handled nor pending is idle.
LEMMA NotPending ==
  ASSUME NEW n, NEW h, NEW s \in Sound(n, h), NEW t \in Timers \ h, ~Pending(s, t)
  PROVE  s.timer[t] = TimerIdle
<1>1. s.timer[t] >= TimerIdle /\ ~(s.timer[t] >= 0)
  BY DEF Sound, Pending
<1>2. s.timer[t] \in Int
  BY DEF Sound, Station
<1> QED BY <1>1, <1>2 DEF TimerIdle

\* TimerHandler::sched of an idle timer.
LEMMA SchedEffect ==
  ASSUME NEW s \in Station, NEW t \in Timers, NEW d \in Int, s.timer[t] = TimerIdle
  PROVE  Touches(s, Sched(s, t, d), {}, {t}) /\ Sched(s, t, d).timer[t] = d
BY TimerEffect DEF Sched

\* TimerHandler::cancel of a pending timer.
LEMMA CancelEffect ==
  ASSUME NEW s \in Station, NEW t \in Timers, Pending(s, t)
  PROVE  Touches(s, Cancel(s, t), {}, {t}) /\ Cancel(s, t).timer[t] = TimerIdle
BY TimerEffect DEF Cancel, TimerIdle

\* A call of the packet pool touches only the record of such calls.
LEMMA PoolEffect ==
  ASSUME NEW s \in Station, NEW op \in {"alloc", "free", "send"}, NEW slot \in Slots
  PROVE  Touches(s, PoolCall(s, op, slot), {"calls"}, {})
<1> DEFINE q == Append(s.calls, <<op, slot>>)
           u == [s EXCEPT !.calls = q]
<1>1. s.calls \in Seq(PoolCalls) /\ <<op, slot>> \in PoolCalls
  BY DEF Station, PoolCalls
<1>2. q \in Seq(PoolCalls)
  BY <1>1
<1>3. PoolCall(s, op, slot) = u
  BY DEF PoolCall
<1> HIDE DEF q
<1>4. Touches(s, u, {"calls"}, {})
  BY <1>2 DEF Touches, Fields, Station
<1> QED BY <1>3, <1>4

\* Soundness depends on six fields and the timers.
LEMMA SoundKept ==
  ASSUME NEW n, NEW h, NEW s \in Sound(n, h), NEW u, NEW F, Touches(s, u, F, {}),
         F \cap {"id", "phy", "ch", "bk", "slots", "started"} = {}
  PROVE  u \in Sound(n, h)
<1>1. /\ u.id = s.id /\ u.phy = s.phy /\ u.ch = s.ch /\ u.bk = s.bk
      /\ u.slots = s.slots /\ u.started = s.started
  BY DEF Touches, Fields
<1>2. \A t \in Timers : u.timer[t] = s.timer[t]
  BY DEF Touches
<1>3. "bk" \in Timers /\ u \in Station
  BY DEF Touches, Timers, MacTimers
<1> QED BY <1>1, <1>2, <1>3 DEF Sound, Pending

\* An update of PHY state, channel state or IFS value.
LEMMA ChEffect ==
  ASSUME NEW s \in Station, NEW c \in ChannelStates
  PROVE  LET u == [s EXCEPT !.ch = c]
         IN  Touches(s, u, {"ch"}, {}) /\ u.ch = c
BY DEF Touches, Fields, Station

\* An update of the PHY state.
LEMMA PhyEffect ==
  ASSUME NEW s \in Station, NEW p \in PhyStates
  PROVE  LET u == [s EXCEPT !.phy = p]
         IN  Touches(s, u, {"phy"}, {}) /\ u.phy = p
BY DEF Touches, Fields, Station

\* An update of the state of the backoff.
LEMMA BkEffect ==
  ASSUME NEW s \in Station, NEW b \in BackoffStates
  PROVE  LET u == [s EXCEPT !.bk = b]
         IN  Touches(s, u, {"bk"}, {}) /\ u.bk = b
BY DEF Touches, Fields, Station

\* An update of the IFS value.
LEMMA IfsEffect ==
  ASSUME NEW s \in Station, NEW d \in Nat
  PROVE  LET u == [s EXCEPT !.ifsValue = d]
         IN  Touches(s, u, {"ifsValue"}, {}) /\ u.ifsValue = d
BY DEF Touches, Fields, Station

\* A new number of slots, the backoff timer not started.
LEMMA SlotsEffect ==
  ASSUME NEW s \in Station, NEW k \in Int
  PROVE  LET u == [s EXCEPT !.slots = k, !.started = FALSE]
         IN  Touches(s, u, {"slots", "started"}, {}) /\ u.slots = k /\ u.started = FALSE
BY DEF Touches, Fields, Station

-----------------------------------------------------------------------------
(* Carrier sense *)

\* The timers of ChannelStateMgr and BackoffMgr but those in h run exactly in
\* the states that wait for them.
ChannelTimed(s, h) ==
    /\ "ifs" \notin h => (Pending(s, "ifs") <=> s.ch = "WIFS")
    /\ "nav" \notin h => (Pending(s, "nav") <=> s.ch \in {"noCSNAV", "CSNAV"})
    /\ "bk" \notin h => (Pending(s, "bk") <=> s.bk = "BackoffRunning")
    /\ "bk" \in h => s.bk # "BackoffRunning"
    /\ s.bk = "BackoffRunning" => s.started
    /\ s.ifsValue >= DIFS

\* BackoffTimer_t::pause of a running backoff, which never exits.
LEMMA PauseEffect ==
  ASSUME NEW n, NEW h, NEW s \in Sound(n, h), NEW in, ChannelTimed(s, h),
         s.bk = "BackoffRunning"
  PROVE  LET u == BackoffTimerPause(s, in)
         IN  Touches(s, u, {"slots", "started"}, {"bk"}) /\ ~Pending(u, "bk")
<1>1. Pending(s, "bk") /\ s \in Station /\ "bk" \in Timers
  BY DEF ChannelTimed, Sound, Timers, MacTimers
<1>2. PICK k \in Nat : BackoffTimerPause(s, in) = Paused(s, k)
  BY <1>1, PauseSound
<1> DEFINE r == [s EXCEPT !.slots = k, !.started = FALSE]
<1>3. Touches(s, r, {"slots", "started"}, {})
  <2>1. k \in Int
    OBVIOUS
  <2> QED BY <1>1, <2>1, SlotsEffect, Zenon
<1>4. Paused(s, k) = Cancel(r, "bk")
  BY DEF Paused
<1> HIDE DEF r
<1>5. r \in Station /\ Pending(r, "bk")
  BY <1>1, <1>3 DEF Touches, Pending
<1>6. Touches(r, Cancel(r, "bk"), {}, {"bk"}) /\ Cancel(r, "bk").timer["bk"] = TimerIdle
  BY <1>1, <1>5, CancelEffect
<1>7. Touches(s, Cancel(r, "bk"), {"slots", "started"}, {"bk"})
  BY <1>3, <1>6 DEF Touches
<1> QED BY <1>2, <1>4, <1>6, <1>7 DEF Pending, TimerIdle

\* BackoffMgr::handleCSBUSY leaves no backoff running.
LEMMA CSBusyEffect ==
  ASSUME NEW n, NEW h, NEW s \in Sound(n, h), NEW in, ChannelTimed(s, h)
  PROVE  LET u == HandleCSBUSY(s, in)
         IN  /\ Touches(s, u, {"slots", "started", "bk"}, {"bk"})
             /\ ~Pending(u, "bk") /\ u.bk # "BackoffRunning"
             /\ u.bk = "noBackoff" <=> s.bk = "noBackoff"
<1>0. s \in Station
  BY DEF Sound
<1>1. CASE s.bk = "BackoffRunning"
  <2> DEFINE p == BackoffTimerPause(s, in)
             u == [p EXCEPT !.bk = "BackoffPause"]
  <2>1. Touches(s, p, {"slots", "started"}, {"bk"}) /\ ~Pending(p, "bk")
    BY <1>1, PauseEffect
  <2>2. HandleCSBUSY(s, in) = u
    BY <1>1 DEF HandleCSBUSY
  <2> HIDE DEF p
  <2>3. Touches(p, u, {"bk"}, {}) /\ u.bk = "BackoffPause"
    BY <2>1, BkEffect DEF Touches, BackoffStates
  <2> HIDE DEF u
  <2>4. Touches(s, u, {"slots", "started", "bk"}, {"bk"})
    BY <2>1, <2>3 DEF Touches
  <2> QED BY <1>1, <2>1, <2>2, <2>3, <2>4 DEF Touches, Timers, MacTimers, Pending
<1>2. CASE s.bk # "BackoffRunning"
  BY <1>0, <1>2 DEF HandleCSBUSY, Sound, Touches
<1> QED BY <1>1, <1>2

\* The IFS wait is stopped if there is one.
LEMMA StopIFSEffect ==
  ASSUME NEW s \in Station
  PROVE  LET u == StopIFS(s)
         IN  Touches(s, u, {}, {"ifs"}) /\ ~Pending(u, "ifs")
<1>1. "ifs" \in Timers
  BY DEF Timers, MacTimers
<1>2. CASE Pending(s, "ifs")
  BY <1>1, <1>2, CancelEffect DEF StopIFS, Pending, TimerIdle
<1>3. CASE ~Pending(s, "ifs")
  BY <1>3 DEF StopIFS, Touches
<1> QED BY <1>2, <1>3

\* handlePHYBusyIndication on a channel that is idle for the PHY.
LEMMA PHYBusyEffect ==
  ASSUME NEW n, NEW h, NEW s \in Sound(n, h), NEW in, ChannelTimed(s, h),
         s.phy = "SEARCHING", "ifs" \in h => s.ch # "WIFS"
  PROVE  LET u == HandlePHYBusyIndication(s, in)
         IN  /\ Touches(s, u, {"ch", "slots", "started", "bk"}, {"bk", "ifs"})
             /\ u.ch \in {"CSnoNAV", "CSNAV"} /\ ChannelTimed(u, h)
             /\ u.bk # "BackoffRunning"
             /\ u.bk = "noBackoff" <=> s.bk = "noBackoff"
<1>0. /\ s \in Station /\ "bk" \in Timers /\ "ifs" \in Timers /\ "nav" \in Timers
      /\ "CSNAV" \in ChannelStates /\ "CSnoNAV" \in ChannelStates
      /\ s.ch \in {"noCSnoNAV", "noCSNAV", "WIFS"}
  BY DEF Sound, Timers, MacTimers, ChannelStates
<1>1. CASE s.ch = "noCSnoNAV"
  <2> DEFINE b == HandleCSBUSY(s, in)
             u == [b EXCEPT !.ch = "CSnoNAV"]
  <2>1. /\ Touches(s, b, {"slots", "started", "bk"}, {"bk"})
        /\ ~Pending(b, "bk") /\ b.bk # "BackoffRunning"
        /\ b.bk = "noBackoff" <=> s.bk = "noBackoff"
    BY CSBusyEffect
  <2>2. HandlePHYBusyIndication(s, in) = u
    BY <1>1 DEF HandlePHYBusyIndication
  <2> HIDE DEF b
  <2>3. Touches(b, u, {"ch"}, {}) /\ u.ch = "CSnoNAV"
    BY <1>0, <2>1, ChEffect DEF Touches
  <2> HIDE DEF u
  <2> QED BY <1>0, <1>1, <2>1, <2>2, <2>3 DEF Touches, Fields, ChannelTimed, Pending
<1>2. CASE s.ch = "noCSNAV"
  <2> DEFINE u == [s EXCEPT !.ch = "CSNAV"]
  <2>1. HandlePHYBusyIndication(s, in) = u
    BY <1>2 DEF HandlePHYBusyIndication
  <2>2. Touches(s, u, {"ch"}, {}) /\ u.ch = "CSNAV"
    BY <1>0, ChEffect
  <2> HIDE DEF u
  <2> QED BY <1>0, <1>2, <2>1, <2>2 DEF Touches, Fields, ChannelTimed, Pending, Sound
<1>3. CASE s.ch = "WIFS"
  <2> DEFINE i == StopIFS(s)
             u == [i EXCEPT !.ch = "CSnoNAV"]
  <2>1. HandlePHYBusyIndication(s, in) = u
    BY <1>3 DEF HandlePHYBusyIndication
  <2>2. Touches(s, i, {}, {"ifs"}) /\ ~Pending(i, "ifs")
    BY <1>0, StopIFSEffect
  <2> HIDE DEF i
  <2>3. Touches(i, u, {"ch"}, {}) /\ u.ch = "CSnoNAV"
    BY <1>0, <2>2, ChEffect DEF Touches
  <2> HIDE DEF u
  <2> QED BY <1>0, <1>3, <2>1, <2>2, <2>3 DEF Touches, Fields, ChannelTimed, Pending, Sound
<1> QED BY <1>0, <1>1, <1>2, <1>3

\* SetState to a busy state.
LEMMA BusyEffect ==
  ASSUME NEW n, NEW h, NEW s \in Sound(n, h), NEW in, ChannelTimed(s, h),
         NEW new \in PhyStates \ {"SEARCHING"}, "ifs" \in h => s.ch # "WIFS"
  PROVE  LET u == SetState(s, new, in)
         IN  /\ Touches(s, u, {"phy", "ch", "slots", "started", "bk"}, {"bk", "ifs"})
             /\ u \in Sound(n, h) /\ u.phy = new /\ ChannelTimed(u, h)
             /\ u.ch \in {"CSnoNAV", "CSNAV"}
             /\ u.bk = "noBackoff" <=> s.bk = "noBackoff"
<1>0. /\ s \in Station /\ SetState(s, new, in) \in Sound(n, h)
      /\ "bk" \in Timers /\ "ifs" \in Timers /\ "nav" \in Timers
  BY SetStateSound DEF Sound, Timers, MacTimers
<1>1. CASE s.phy = "SEARCHING"
  <2> DEFINE b == HandlePHYBusyIndication(s, in)
             u == [b EXCEPT !.phy = new]
  <2>1. /\ Touches(s, b, {"ch", "slots", "started", "bk"}, {"bk", "ifs"})
        /\ b.ch \in {"CSnoNAV", "CSNAV"} /\ ChannelTimed(b, h)
        /\ b.bk = "noBackoff" <=> s.bk = "noBackoff"
    BY <1>1, PHYBusyEffect
  <2>2. SetState(s, new, in) = u
    BY <1>1 DEF SetState
  <2> HIDE DEF b
  <2>3. Touches(b, u, {"phy"}, {}) /\ u.phy = new
    BY <2>1, PhyEffect DEF Touches
  <2> HIDE DEF u
  <2> QED BY <1>0, <2>1, <2>2, <2>3 DEF Touches, Fields, ChannelTimed, Pending
<1>2. CASE s.phy # "SEARCHING"
  <2> DEFINE u == [s EXCEPT !.phy = new]
  <2>1. SetState(s, new, in) = u
    BY <1>2 DEF SetState
  <2>2. Touches(s, u, {"phy"}, {}) /\ u.phy = new
    BY <1>0, PhyEffect
  <2>3. s.ch \in {"CSnoNAV", "CSNAV"}
    BY <1>2 DEF Sound, Station, ChannelStates
  <2> HIDE DEF u
  <2> QED BY <1>0, <2>1, <2>2, <2>3 DEF Touches, Fields, ChannelTimed, Pending
<1> QED BY <1>1, <1>2

\* SetState back to SEARCHING.
LEMMA IdleEffect ==
  ASSUME NEW n, NEW h, NEW s \in Sound(n, h), NEW in, ChannelTimed(s, h),
         s.phy # "SEARCHING", "ifs" \notin h
  PROVE  LET u == SetState(s, "SEARCHING", in)
         IN  /\ Touches(s, u, {"phy", "ch"}, {"ifs"})
             /\ u \in Sound(n, h) /\ u.phy = "SEARCHING" /\ ChannelTimed(u, h)
             /\ u.ch \in {"WIFS", "noCSNAV"}
             /\ u.ch = "WIFS" => u.timer["ifs"] >= DIFS
<1> DEFINE i == HandlePHYIdleIndication(s)
           u == [i EXCEPT !.phy = "SEARCHING"]
<1>0. /\ s \in Station /\ SetState(s, "SEARCHING", in) \in Sound(n, h)
      /\ "bk" \in Timers /\ "ifs" \in Timers /\ "nav" \in Timers
      /\ "WIFS" \in ChannelStates /\ "noCSNAV" \in ChannelStates /\ "SEARCHING" \in PhyStates
  BY SetStateSound DEF Sound, Timers, MacTimers, PhyStates, ChannelStates
<1>a. s.ch \in {"CSnoNAV", "CSNAV"}
  BY DEF Sound, Station, ChannelStates
<1>1. SetState(s, "SEARCHING", in) = u
  BY DEF SetState
<1>2. /\ Touches(s, i, {"ch"}, {"ifs"}) /\ i.ch \in {"WIFS", "noCSNAV"}
      /\ i.ch = "WIFS" => s.ch = "CSnoNAV" /\ i.timer["ifs"] = s.ifsValue
      /\ i.ch = "noCSNAV" => s.ch = "CSNAV" /\ i.timer["ifs"] = s.timer["ifs"]
  <2>1. CASE s.ch = "CSnoNAV"
    <3> DEFINE d == Sched(s, "ifs", s.ifsValue)
               r == [d EXCEPT !.ch = "WIFS"]
    <3>1. s.timer["ifs"] = TimerIdle
      BY <1>0, <2>1, NotPending DEF ChannelTimed
    <3>2. s.ifsValue \in Int
      BY <1>0 DEF Station
    <3>3. Touches(s, d, {}, {"ifs"}) /\ d.timer["ifs"] = s.ifsValue
      BY <1>0, <3>1, <3>2, SchedEffect
    <3>4. i = r
      BY <2>1 DEF HandlePHYIdleIndication
    <3> HIDE DEF d
    <3>5. Touches(d, r, {"ch"}, {}) /\ r.ch = "WIFS"
      BY <1>0, <3>3, ChEffect DEF Touches
    <3> HIDE DEF r, i
    <3> QED BY <1>0, <2>1, <3>3, <3>4, <3>5 DEF Touches, Fields
  <2>2. CASE s.ch = "CSNAV"
    <3> DEFINE r == [s EXCEPT !.ch = "noCSNAV"]
    <3>1. i = r
      BY <2>2 DEF HandlePHYIdleIndication
    <3>2. Touches(s, r, {"ch"}, {}) /\ r.ch = "noCSNAV"
      BY <1>0, ChEffect
    <3> HIDE DEF r, i
    <3> QED BY <1>0, <2>2, <3>1, <3>2 DEF Touches, Fields
  <2> QED BY <1>a, <2>1, <2>2
<1> HIDE DEF i
<1>3. Touches(i, u, {"phy"}, {}) /\ u.phy = "SEARCHING"
  BY <1>0, <1>2, PhyEffect DEF Touches
<1> HIDE DEF u
<1>4. s.ifsValue \in Nat /\ DIFS \in Nat
  BY <1>0, IfsType DEF Station
<1>5. Touches(s, u, {"phy", "ch"}, {"ifs"})
  BY <1>2, <1>3 DEF Touches
<1> QED BY <1>0, <1>1, <1>2, <1>3, <1>4, <1>5 DEF Touches, Fields, ChannelTimed, Pending

\* HandleSetNAV with the PHY idle again, but for the first IFS.
LEMMA NAVEffect ==
  ASSUME NEW n, NEW h, NEW s \in Sound(n, h), NEW d \in Nat, NEW in, ChannelTimed(s, h),
         "ifs" \notin h, "nav" \notin h, s.ch \in {"WIFS", "noCSNAV"}
  PROVE  LET u == HandleSetNAV(s, d, in)
         IN  /\ Touches(s, u, {"ch"}, {"ifs", "nav"})
             /\ u.ch = "noCSNAV" /\ ChannelTimed(u, h)
<1>0. /\ s \in Station /\ "bk" \in Timers /\ "ifs" \in Timers /\ "nav" \in Timers
      /\ "noCSNAV" \in ChannelStates /\ d \in Int
  BY DEF Sound, Timers, MacTimers, ChannelStates
<1>1. CASE s.ch = "WIFS"
  <2> DEFINE d1 == Sched(s, "nav", d)
             i == StopIFS(d1)
             u == [i EXCEPT !.ch = "noCSNAV"]
  <2>1. HandleSetNAV(s, d, in) = u
    BY <1>1 DEF HandleSetNAV
  <2>2. s.timer["nav"] = TimerIdle
    BY <1>0, <1>1, NotPending DEF ChannelTimed
  <2>3. Touches(s, d1, {}, {"nav"}) /\ d1.timer["nav"] = d
    BY <1>0, <2>2, SchedEffect
  <2> HIDE DEF d1
  <2>4. Touches(d1, i, {}, {"ifs"}) /\ ~Pending(i, "ifs")
    BY <2>3, StopIFSEffect DEF Touches
  <2> HIDE DEF i
  <2>5. Touches(i, u, {"ch"}, {}) /\ u.ch = "noCSNAV"
    BY <1>0, <2>4, ChEffect DEF Touches
  <2> HIDE DEF u
  <2>6. Touches(s, u, {"ch"}, {"ifs", "nav"})
    BY <2>3, <2>4, <2>5 DEF Touches
  <2> QED BY <1>0, <1>1, <2>1, <2>3, <2>4, <2>5, <2>6 DEF Touches, Fields, ChannelTimed, Pending
<1>2. CASE s.ch = "noCSNAV" /\ d > s.timer["nav"]
  <2> DEFINE c == Cancel(s, "nav")
             u == Sched(c, "nav", d)
  <2>1. HandleSetNAV(s, d, in) = u
    BY <1>2 DEF HandleSetNAV
  <2>2. Pending(s, "nav")
    BY <1>2 DEF ChannelTimed
  <2>3. Touches(s, c, {}, {"nav"}) /\ c.timer["nav"] = TimerIdle
    BY <1>0, <2>2, CancelEffect
  <2> HIDE DEF c
  <2>4. Touches(c, u, {}, {"nav"}) /\ u.timer["nav"] = d
    BY <1>0, <2>3, SchedEffect DEF Touches
  <2> HIDE DEF u
  <2>5. Touches(s, u, {}, {"nav"})
    BY <2>3, <2>4 DEF Touches
  <2> QED BY <1>0, <1>2, <2>1, <2>4, <2>5 DEF Touches, Fields, ChannelTimed, Pending
<1>3. CASE s.ch = "noCSNAV" /\ ~(d > s.timer["nav"])
  <2>1. HandleSetNAV(s, d, in) = s
    BY <1>3 DEF HandleSetNAV
  <2> QED BY <1>0, <1>3, <2>1 DEF Touches
<1> QED BY <1>1, <1>2, <1>3

\* SetIFS.
LEMMA SetIFSEffect ==
  ASSUME NEW n, NEW h, NEW s \in Sound(n, h), NEW d \in Nat, ChannelTimed(s, h),
         d >= DIFS, "ifs" \notin h
  PROVE  LET u == SetIFS(s, d)
         IN  /\ Touches(s, u, {"ifsValue"}, {"ifs"}) /\ ChannelTimed(u, h)
             /\ u.ch = "WIFS" => u.timer["ifs"] = d
<1>0. s \in Station /\ "bk" \in Timers /\ "ifs" \in Timers /\ "nav" \in Timers /\ d \in Int
  BY DEF Sound, Timers, MacTimers
<1> DEFINE i == [s EXCEPT !.ifsValue = d]
<1>1. Touches(s, i, {"ifsValue"}, {}) /\ i.ifsValue = d
  BY <1>0, IfsEffect
<1>2. CASE Pending(s, "ifs")
  <2> DEFINE c == Cancel(i, "ifs")
             u == Sched(c, "ifs", d)
  <2>1. SetIFS(s, d) = u
    BY <1>2 DEF SetIFS
  <2> HIDE DEF i
  <2>2. i \in Station /\ Pending(i, "ifs")
    BY <1>0, <1>1, <1>2 DEF Touches, Pending
  <2>3. Touches(i, c, {}, {"ifs"}) /\ c.timer["ifs"] = TimerIdle
    BY <1>0, <2>2, CancelEffect
  <2> HIDE DEF c
  <2>4. Touches(c, u, {}, {"ifs"}) /\ u.timer["ifs"] = d
    BY <1>0, <2>3, SchedEffect DEF Touches
  <2> HIDE DEF u
  <2>5. Touches(s, u, {"ifsValue"}, {"ifs"}) /\ u.ifsValue = d
    BY <1>1, <2>3, <2>4 DEF Touches, Fields
  <2> QED BY <1>0, <1>2, <2>1, <2>4, <2>5 DEF Touches, Fields, ChannelTimed, Pending
<1>3. CASE ~Pending(s, "ifs")
  <2>1. SetIFS(s, d) = i
    BY <1>3 DEF SetIFS
  <2> HIDE DEF i
  <2> QED BY <1>0, <1>1, <1>3, <2>1 DEF Touches, Fields, ChannelTimed, Pending
<1> QED BY <1>2, <1>3

-----------------------------------------------------------------------------
(* The PHY *)

\* The timers of WirelessPhy but those in h run exactly in the states that
\* wait for them.
PhyTimed(s, h) ==
    /\ "tX" \notin h => (Pending(s, "tX") <=> s.phy = "TXing")
    /\ "rX" \notin h => (Pending(s, "rX") <=> s.phy = "RXing")
    /\ "preRX" \notin h => (Pending(s, "preRX") <=> s.phy = "PreRXing")

\* A packet is held exactly while one is received.
Receives(s) == s.pktRX # NoFrame <=> s.phy \in {"PreRXing", "RXing"}

\* The PHY lets go of its packet.
LEMMA PktEffect ==
  ASSUME NEW s \in Station
  PROVE  LET u == [s EXCEPT !.pktRX = NoFrame]
         IN  Touches(s, u, {"pktRX"}, {}) /\ u.pktRX = NoFrame
BY NoFrameType DEF Touches, Fields, Station

\* Packet::free and Packet::alloc by name.
LEMMA FreeEffect ==
  ASSUME NEW s \in Station, NEW slot \in Slots
  PROVE  Touches(s, Free(s, slot), {"calls"}, {}) /\ Touches(s, Alloc(s, slot), {"calls"}, {})
BY PoolEffect DEF Free, Alloc

\* After AbortReception the reception and its timers are over.
LEMMA AbortEffect ==
  ASSUME NEW n, NEW h, NEW s \in Sound(n, h), PhyTimed(s, h), h \cap PhyTimers = {},
         Receives(s), s.phy # "TXing"
  PROVE  LET u == AbortReception(s)
         IN  /\ Touches(s, u, {"pktRX", "calls"}, {"rX", "preRX"})
             /\ u.pktRX = NoFrame /\ \A t \in PhyTimers : u.timer[t] = TimerIdle
<1>0. /\ s \in Station /\ "rX" \in Timers /\ "preRX" \in Timers /\ "tX" \in Timers
      /\ "pktRX" \in Slots /\ PhyTimers = {"tX", "rX", "preRX"}
      /\ "rX" \notin h /\ "preRX" \notin h /\ "tX" \notin h
  BY SlotsType DEF Sound, Timers, PhyTimers
<1>1. s.phy \in {"SEARCHING", "PreRXing", "RXing"} /\ s.timer["tX"] = TimerIdle
  BY <1>0, NotPending DEF Sound, Station, PhyStates, PhyTimed
<1>2. CASE s.phy = "SEARCHING"
  <2>1. AbortReception(s) = s
    BY <1>2 DEF AbortReception
  <2>2. s.timer["rX"] = TimerIdle /\ s.timer["preRX"] = TimerIdle
    BY <1>0, <1>2, NotPending DEF PhyTimed
  <2> QED BY <1>0, <1>1, <1>2, <2>1, <2>2 DEF Touches, Receives
<1>3. ASSUME NEW t \in {"rX", "preRX"}, Pending(s, t),
             \A k \in {"rX", "preRX"} \ {t} : s.timer[k] = TimerIdle,
             AbortReception(s) = [Free(Cancel(s, t), "pktRX") EXCEPT !.pktRX = NoFrame]
      PROVE  LET u == AbortReception(s)
             IN  /\ Touches(s, u, {"pktRX", "calls"}, {"rX", "preRX"})
                 /\ u.pktRX = NoFrame /\ \A k \in PhyTimers : u.timer[k] = TimerIdle
  <2> DEFINE c == Cancel(s, t)
             f == Free(c, "pktRX")
             u == [f EXCEPT !.pktRX = NoFrame]
  <2>0. t \in Timers
    BY <1>0
  <2>1. Touches(s, c, {}, {t}) /\ c.timer[t] = TimerIdle
    BY <1>0, <1>3, <2>0, CancelEffect
  <2> HIDE DEF c
  <2>2. Touches(c, f, {"calls"}, {})
    BY <1>0, <2>1, FreeEffect DEF Touches
  <2> HIDE DEF f
  <2>3. Touches(f, u, {"pktRX"}, {}) /\ u.pktRX = NoFrame
    BY <2>2, PktEffect DEF Touches
  <2>4. AbortReception(s) = u
    BY <1>3 DEF c, f
  <2> HIDE DEF u
  <2>5. Touches(s, u, {"pktRX", "calls"}, {"rX", "preRX"})
    BY <2>1, <2>2, <2>3 DEF Touches
  <2>6. \A k \in PhyTimers : u.timer[k] = TimerIdle
    BY <1>0, <1>1, <1>3, <2>0, <2>1, <2>2, <2>3 DEF Touches
  <2> QED BY <2>3, <2>4, <2>5, <2>6
<1>4. CASE s.phy = "RXing"
  <2>1. Pending(s, "rX") /\ s.timer["preRX"] = TimerIdle
    BY <1>0, <1>4, NotPending DEF PhyTimed
  <2>2. AbortReception(s) = [Free(Cancel(s, "rX"), "pktRX") EXCEPT !.pktRX = NoFrame]
    BY <1>4 DEF AbortReception
  <2> QED BY <2>1, <2>2, <1>3
<1>5. CASE s.phy = "PreRXing"
  <2>1. Pending(s, "preRX") /\ s.timer["rX"] = TimerIdle
    BY <1>0, <1>5, NotPending DEF PhyTimed
  <2>2. AbortReception(s) = [Free(Cancel(s, "preRX"), "pktRX") EXCEPT !.pktRX = NoFrame]
    BY <1>5 DEF AbortReception
  <2> QED BY <2>1, <2>2, <1>3
<1> QED BY <1>1, <1>2, <1>4, <1>5

\* A frame is handed to the channel.
LEMMA OutEffect ==
  ASSUME NEW s \in Station, NEW p \in Frame
  PROVE  LET u == [s EXCEPT !.out = p]
         IN  Touches(s, u, {"out"}, {}) /\ u.out = p
BY DEF Touches, Fields, Station

\* The coordination whose transmission it is is noted.
LEMMA ConfirmEffect ==
  ASSUME NEW s \in Station, NEW who \in {"TXC", "RXC"}
  PROVE  LET u == [s EXCEPT !.confirm = who]
         IN  Touches(s, u, {"confirm"}, {}) /\ u.confirm = who
BY DEF Touches, Fields, Station

\* What a transmission changes: all of it belongs to PHY and channel access.
AirFields == {"phy", "ch", "slots", "started", "bk", "pktRX", "out", "calls"}
\* The timers a transmission touches.
AirTimers == {"tX", "rX", "preRX", "ifs", "bk"}

\* What holds of every state in which sendDown may be called.
MaySend(s, h) ==
    /\ PhyTimed(s, h) /\ ChannelTimed(s, h) /\ Receives(s)
    /\ s.phy # "TXing" /\ h \cap PhyTimers = {}
    /\ "ifs" \in h => s.ch # "WIFS"

\* What holds of every state right after.
Sends(s, h, p) ==
    /\ PhyTimed(s, h) /\ ChannelTimed(s, h)
    /\ s.phy = "TXing" /\ s.pktRX = NoFrame /\ s.out = p
    /\ s.ch \in {"CSnoNAV", "CSNAV"}

\* WirelessPhy::sendDown where it may be called.
LEMMA SendDownEffect ==
  ASSUME NEW n, NEW h, NEW s \in Sound(n, h), NEW p \in Frame, NEW in, MaySend(s, h)
  PROVE  LET u == SendDown(s, p, in)
         IN  /\ Touches(s, u, AirFields, AirTimers) /\ Sends(u, h, p)
             /\ u.bk = "noBackoff" <=> s.bk = "noBackoff"
<1>0. /\ s \in Station /\ "bk" \in Timers /\ "ifs" \in Timers /\ "nav" \in Timers
      /\ "rX" \in Timers /\ "preRX" \in Timers /\ "tX" \in Timers
      /\ PhyTimers = {"tX", "rX", "preRX"} /\ "sent" \in Slots
      /\ "TXing" \in PhyStates \ {"SEARCHING"}
  BY SlotsType DEF Sound, Timers, PhyTimers, MacTimers, PhyStates
<1>1. /\ PhyTimed(s, h) /\ ChannelTimed(s, h) /\ Receives(s) /\ s.phy # "TXing"
      /\ h \cap PhyTimers = {} /\ ("ifs" \in h => s.ch # "WIFS")
  BY DEF MaySend
<1> DEFINE d == TxTime(p.len) + PropagationDelay(p)
           a == AbortReception(s)
           b == SetState(a, "TXing", in)
           c == Sched(b, "tX", d)
           e == PoolCall(c, "send", "sent")
           u == [e EXCEPT !.out = p]
<1>2. d \in Nat
  <2>1. p.len \in Nat
    BY FrameFields
  <2>2. TxTime(p.len) \in Nat /\ PropagationDelay(p) \in Nat
    BY <2>1, AirTime, DelayType
  <2> QED BY <2>2
<1>3. SendDown(s, p, in) = u
  BY <1>1 DEF SendDown
<1> HIDE DEF d, u, e, c, b
<1>4a. Touches(s, a, {"pktRX", "calls"}, {"rX", "preRX"})
  BY <1>1, AbortEffect
<1>4b. a.pktRX = NoFrame /\ \A t \in PhyTimers : a.timer[t] = TimerIdle
  BY <1>1, AbortEffect
<1>4. a \in Sound(n, h)
  BY AbortSound
<1> HIDE DEF a
<1>5. ChannelTimed(a, h) /\ ("ifs" \in h => a.ch # "WIFS")
  <2>1. a.ch = s.ch /\ a.bk = s.bk /\ a.started = s.started /\ a.ifsValue = s.ifsValue
    BY <1>4a DEF Touches, Fields
  <2>2. /\ a.timer["ifs"] = s.timer["ifs"] /\ a.timer["nav"] = s.timer["nav"]
        /\ a.timer["bk"] = s.timer["bk"]
    BY <1>0, <1>4a DEF Touches
  <2> QED BY <1>1, <2>1, <2>2 DEF ChannelTimed, Pending
<1>6. /\ Touches(a, b, {"phy", "ch", "slots", "started", "bk"}, {"bk", "ifs"})
      /\ b \in Sound(n, h) /\ b.phy = "TXing" /\ ChannelTimed(b, h)
      /\ b.ch \in {"CSnoNAV", "CSNAV"}
      /\ b.bk = "noBackoff" <=> a.bk = "noBackoff"
  BY <1>0, <1>4, <1>5, BusyEffect DEF b
<1>7. b.timer["tX"] = TimerIdle /\ b.timer["rX"] = TimerIdle /\ b.timer["preRX"] = TimerIdle
  BY <1>0, <1>4b, <1>6 DEF Touches
<1>8. Touches(b, c, {}, {"tX"}) /\ c.timer["tX"] = d
  BY <1>0, <1>2, <1>6, <1>7, SchedEffect DEF Touches, c
<1>9. Touches(c, e, {"calls"}, {})
  BY <1>0, <1>8, PoolEffect DEF Touches, e
<1>10. Touches(e, u, {"out"}, {}) /\ u.out = p
  BY <1>9, OutEffect DEF Touches, u
<1>11. Touches(b, u, {"calls", "out"}, {"tX"}) /\ u.timer["tX"] = d
  BY <1>0, <1>8, <1>9, <1>10 DEF Touches
<1>12. Touches(s, u, AirFields, AirTimers)
  BY <1>4a, <1>6, <1>11 DEF Touches, AirFields, AirTimers
<1>13. /\ u.phy = "TXing" /\ u.pktRX = NoFrame /\ u.ch \in {"CSnoNAV", "CSNAV"}
       /\ u.bk = "noBackoff" <=> s.bk = "noBackoff"
  BY <1>4a, <1>4b, <1>6, <1>11 DEF Touches, Fields
<1>14. PhyTimed(u, h)
  BY <1>0, <1>2, <1>7, <1>11, <1>13 DEF Touches, PhyTimed, Pending, TimerIdle
<1>15. ChannelTimed(u, h)
  BY <1>0, <1>6, <1>11 DEF Touches, Fields, ChannelTimed, Pending
<1> QED BY <1>3, <1>10, <1>12, <1>13, <1>14, <1>15 DEF Sends

\* Mac802_11::transmit.
LEMMA TransmitEffect ==
  ASSUME NEW n, NEW h, NEW s \in Sound(n, h), NEW p \in Frame, p # NoFrame,
         NEW who \in {"TXC", "RXC"}, NEW in, MaySend(s, h)
  PROVE  LET u == Transmit(s, p, who, in)
         IN  /\ Touches(s, u, AirFields \cup {"confirm"}, AirTimers)
             /\ Sends(u, h, p) /\ u.confirm = who
             /\ u.bk = "noBackoff" <=> s.bk = "noBackoff"
<1>0. /\ s \in Station /\ "bk" \in Timers /\ "ifs" \in Timers /\ "nav" \in Timers
      /\ "rX" \in Timers /\ "preRX" \in Timers /\ "tX" \in Timers /\ "sent" \in Slots
  BY SlotsType DEF Sound, Timers, PhyTimers, MacTimers
<1> DEFINE c == [s EXCEPT !.confirm = who]
           a == Alloc(c, "sent")
           u == SendDown(a, p, in)
<1>1. Transmit(s, p, who, in) = u
  BY DEF Transmit
<1>2. Touches(s, c, {"confirm"}, {}) /\ c.confirm = who
  BY <1>0, ConfirmEffect
<1>3. c \in Sound(n, h)
  BY <1>2, ZenonT(60) DEF Sound, Station, Pending
<1> HIDE DEF c
<1>4. Touches(c, a, {"calls"}, {}) /\ a \in Sound(n, h)
  BY <1>0, <1>2, <1>3, FreeEffect, AllocFreeSound DEF Touches
<1> HIDE DEF a
<1>5. Touches(s, a, {"confirm", "calls"}, {}) /\ a.confirm = who
  BY <1>2, <1>4 DEF Touches, Fields
<1>6. MaySend(a, h)
  BY <1>0, <1>5 DEF MaySend, Touches, Fields, PhyTimed, ChannelTimed, Receives, Pending
<1>7. /\ Touches(a, u, AirFields, AirTimers) /\ Sends(u, h, p)
      /\ u.bk = "noBackoff" <=> a.bk = "noBackoff"
  BY <1>4, <1>6, SendDownEffect
<1> HIDE DEF u
<1>8. Touches(s, u, AirFields \cup {"confirm"}, AirTimers)
  BY <1>5, <1>7 DEF Touches, AirFields
<1> QED BY <1>1, <1>5, <1>7, <1>8 DEF Touches, Fields, AirFields

\* The PHY takes hold of a packet.
LEMMA HeldEffect ==
  ASSUME NEW s \in Station, NEW p \in Frame
  PROVE  LET u == [s EXCEPT !.pktRX = p, !.rxError = FALSE]
         IN  Touches(s, u, {"pktRX", "rxError"}, {}) /\ u.pktRX = p
BY DEF Touches, Fields, Station

\* The packet of the PHY is marked as damaged.
LEMMA ErrorEffect ==
  ASSUME NEW s \in Station
  PROVE  Touches(s, [s EXCEPT !.rxError = TRUE], {"rxError"}, {})
BY DEF Touches, Fields, Station

\* WirelessPhy::recv of a frame that arrives: only a PHY that searches begins
\* a reception, and its first timeout is a header away.
LEMMA RecvEffect ==
  ASSUME NEW n, NEW s \in Sound(n, {}), NEW p \in Frame, p # NoFrame, NEW in,
         PhyTimed(s, {}), ChannelTimed(s, {}), Receives(s)
  PROVE  LET u == Recv(s, p, in)
         IN  \/ /\ s.phy # "SEARCHING" /\ Touches(s, u, {"rxError", "calls"}, {})
             \/ /\ s.phy = "SEARCHING"
                /\ Touches(s, u, {"phy", "ch", "slots", "started", "bk", "pktRX", "rxError", "calls"},
                              {"bk", "ifs", "preRX"})
                /\ PhyTimed(u, {}) /\ ChannelTimed(u, {}) /\ Receives(u)
                /\ u.phy = "PreRXing" /\ u.timer["preRX"] = HeaderDuration
                /\ u.ch \in {"CSnoNAV", "CSNAV"}
                /\ u.bk = "noBackoff" <=> s.bk = "noBackoff"
<1>0. /\ s \in Station /\ "bk" \in Timers /\ "ifs" \in Timers /\ "nav" \in Timers
      /\ "rX" \in Timers /\ "preRX" \in Timers /\ "tX" \in Timers
      /\ "arrived" \in Slots /\ "pktRX" \in Slots
      /\ "PreRXing" \in PhyStates \ {"SEARCHING"}
  BY SlotsType DEF Sound, Timers, PhyTimers, MacTimers, PhyStates
<1> DEFINE r == SendUp(s, p, in)
<1>1. Recv(s, p, in) = Free(r, "arrived")
  BY DEF Recv
<1>2. r \in Station
  BY SendUpSound DEF Sound
<1>3. Touches(r, Free(r, "arrived"), {"calls"}, {})
  BY <1>0, <1>2, FreeEffect
<1> DEFINE v == Free(r, "arrived")
<1>4. CASE s.phy = "TXing"
  <2>1. r = Free(s, "arrived")
    BY <1>4 DEF SendUp
  <2>2. Touches(s, r, {"calls"}, {})
    BY <1>0, <2>1, FreeEffect
  <2> HIDE DEF r, v
  <2> QED BY <1>1, <1>3, <1>4, <2>2 DEF Touches, v
<1>5. CASE s.phy \in {"PreRXing", "RXing"}
  <2> DEFINE e == [s EXCEPT !.rxError = TRUE]
  <2>1. r = Free(e, "arrived")
    BY <1>5 DEF SendUp
  <2>2. Touches(s, e, {"rxError"}, {})
    BY <1>0, ErrorEffect
  <2> HIDE DEF e
  <2>3. Touches(e, Free(e, "arrived"), {"calls"}, {})
    BY <1>0, <2>2, FreeEffect DEF Touches
  <2>4. Touches(e, r, {"calls"}, {})
    BY <2>1, <2>3
  <2> HIDE DEF r, v
  <2> QED BY <1>1, <1>3, <1>5, <2>2, <2>4 DEF Touches, v
<1>6. CASE s.phy = "SEARCHING"
  <2> DEFINE a == Alloc(s, "pktRX")
             b == [a EXCEPT !.pktRX = p, !.rxError = FALSE]
             c == SetState(b, "PreRXing", in)
             d == Sched(c, "preRX", HeaderDuration)
  <2>1. r = d
    BY <1>6 DEF SendUp
  <2> HIDE DEF r, v, d, c, b
  <2>2. Touches(s, a, {"calls"}, {}) /\ a \in Sound(n, {})
    BY <1>0, FreeEffect, AllocFreeSound
  <2> HIDE DEF a
  <2>2a. a \in Station
    BY <2>2 DEF Sound
  <2>3. Touches(a, b, {"pktRX", "rxError"}, {}) /\ b.pktRX = p /\ b \in Sound(n, {})
    BY <2>2, <2>2a, HeldEffect, PktSound DEF b
  <2>4. Touches(s, b, {"pktRX", "rxError", "calls"}, {})
    BY <2>2, <2>3 DEF Touches
  <2>5. ChannelTimed(b, {})
    BY <1>0, <2>4 DEF ChannelTimed, Touches, Fields, Pending
  <2>6. /\ Touches(b, c, {"phy", "ch", "slots", "started", "bk"}, {"bk", "ifs"})
        /\ c \in Sound(n, {}) /\ c.phy = "PreRXing" /\ ChannelTimed(c, {})
        /\ c.ch \in {"CSnoNAV", "CSNAV"}
        /\ c.bk = "noBackoff" <=> b.bk = "noBackoff"
    BY <1>0, <2>3, <2>5, BusyEffect DEF c
  <2>7. Touches(s, c, {"phy", "ch", "slots", "started", "bk", "pktRX", "rxError", "calls"}, {"bk", "ifs"})
    BY <2>4, <2>6 DEF Touches
  <2>8. s.timer["preRX"] = TimerIdle /\ ~Pending(s, "rX") /\ ~Pending(s, "tX")
    BY <1>0, <1>6, NotPending DEF PhyTimed
  <2>9. c.timer["preRX"] = TimerIdle /\ ~Pending(c, "rX") /\ ~Pending(c, "tX") /\ c.pktRX = p
    BY <1>0, <2>3, <2>6, <2>7, <2>8 DEF Touches, Fields, Pending
  <2>10. HeaderDuration \in Nat /\ HeaderDuration \in Int
    BY TimingAssumption
  <2>11. Touches(c, d, {}, {"preRX"}) /\ d.timer["preRX"] = HeaderDuration
    BY <1>0, <2>6, <2>9, <2>10, SchedEffect DEF Touches, d
  <2>12. Touches(c, v, {"calls"}, {"preRX"}) /\ v.timer["preRX"] = HeaderDuration
    BY <1>0, <1>3, <2>1, <2>11 DEF Touches, v
  <2>13. Touches(s, v, {"phy", "ch", "slots", "started", "bk", "pktRX", "rxError", "calls"},
                       {"bk", "ifs", "preRX"})
    BY <2>7, <2>12 DEF Touches
  <2>14. /\ v.phy = "PreRXing" /\ v.pktRX = p /\ v.ch \in {"CSnoNAV", "CSNAV"}
         /\ v.bk = "noBackoff" <=> s.bk = "noBackoff"
    BY <2>4, <2>6, <2>9, <2>12 DEF Touches, Fields
  <2>15. PhyTimed(v, {}) /\ Receives(v)
    BY <1>0, <2>9, <2>10, <2>12, <2>14 DEF PhyTimed, Receives, Touches, Pending
  <2>16. ChannelTimed(v, {})
    BY <1>0, <2>6, <2>12 DEF Touches, Fields, ChannelTimed, Pending
  <2> QED BY <1>1, <1>6, <2>12, <2>13, <2>14, <2>15, <2>16 DEF v
<1> QED BY <1>4, <1>5, <1>6 DEF Sound, Station, PhyStates

\* handle_PreRXtimeout of a PHY that has the header.
LEMMA PreRXEffect ==
  ASSUME NEW n, NEW s \in Sound(n, {"preRX"}), NEW in, s.phy = "PreRXing",
         PhyTimed(s, {"preRX"}), ChannelTimed(s, {"preRX"}), Receives(s)
  PROVE  LET u == HandlePreRXtimeout(s, in)
         IN  /\ Touches(s, u, {"phy", "ch", "slots", "started", "bk"}, {"bk", "ifs", "rX"})
             /\ PhyTimed(u, {"preRX"}) /\ ChannelTimed(u, {"preRX"}) /\ Receives(u)
             /\ u.phy = "RXing"
             /\ u.bk = "noBackoff" <=> s.bk = "noBackoff"
<1>0. /\ s \in Station /\ "bk" \in Timers /\ "ifs" \in Timers /\ "nav" \in Timers
      /\ "rX" \in Timers /\ "preRX" \in Timers /\ "tX" \in Timers
      /\ "RXing" \in PhyStates \ {"SEARCHING"} /\ "ifs" \notin {"preRX"}
  BY DEF Sound, Timers, PhyTimers, MacTimers, PhyStates
<1> DEFINE c == SetState(s, "RXing", in)
           t == TxTime(s.pktRX.len) - HeaderDuration
           u == Sched(c, "rX", t)
<1>1. HandlePreRXtimeout(s, in) = u
  BY DEF HandlePreRXtimeout, Receives
<1>2. t \in Nat
  <2>1. s.pktRX.len \in Nat
    BY <1>0, FrameFields DEF Station
  <2> QED BY <2>1, AirTime
<1>3. /\ Touches(s, c, {"phy", "ch", "slots", "started", "bk"}, {"bk", "ifs"})
      /\ c \in Sound(n, {"preRX"}) /\ c.phy = "RXing" /\ ChannelTimed(c, {"preRX"})
      /\ c.bk = "noBackoff" <=> s.bk = "noBackoff"
  BY <1>0, BusyEffect
<1> HIDE DEF c, t
<1>4. s.timer["rX"] = TimerIdle /\ ~Pending(s, "tX")
  BY <1>0, NotPending DEF PhyTimed
<1>5. c.timer["rX"] = TimerIdle /\ ~Pending(c, "tX") /\ c.pktRX = s.pktRX
  BY <1>0, <1>3, <1>4 DEF Touches, Fields, Pending
<1>6. Touches(c, u, {}, {"rX"}) /\ u.timer["rX"] = t
  BY <1>0, <1>2, <1>3, <1>5, SchedEffect DEF Touches
<1> HIDE DEF u
<1>7. Touches(s, u, {"phy", "ch", "slots", "started", "bk"}, {"bk", "ifs", "rX"})
  BY <1>3, <1>6 DEF Touches
<1>8. u.phy = "RXing" /\ (u.bk = "noBackoff" <=> s.bk = "noBackoff") /\ Receives(u)
  BY <1>3, <1>5, <1>6 DEF Touches, Fields, Receives
<1>9. PhyTimed(u, {"preRX"})
  BY <1>0, <1>2, <1>5, <1>6, <1>8 DEF PhyTimed, Touches, Pending
<1>10. ChannelTimed(u, {"preRX"})
  BY <1>0, <1>3, <1>6 DEF Touches, Fields, ChannelTimed, Pending
<1> QED BY <1>1, <1>7, <1>8, <1>9, <1>10

-----------------------------------------------------------------------------
(* Backoff *)

\* An update of the state of TXC.
LEMMA TxcEffect ==
  ASSUME NEW s \in Station, NEW c \in TXCStates
  PROVE  LET u == [s EXCEPT !.txc = c]
         IN  Touches(s, u, {"txc"}, {}) /\ u.txc = c
BY DEF Touches, Fields, Station

\* A frame of TXC goes out: the fields G of TXC may have changed before.
TxcSends(s, u, h, G) ==
    /\ Touches(s, u, AirFields \cup {"confirm", "txc"} \cup G, AirTimers)
    /\ Sends(u, h, u.out) /\ u.confirm = "TXC"
    /\ u.bk = "noBackoff"

\* The two transmissions TXC starts when its backoff is over.
LEMMA SendHeldEffect ==
  ASSUME NEW n, NEW h, NEW s \in Sound(n, h), NEW p \in Frame, p # NoFrame, NEW in,
         NEW c \in TXCStates, MaySend(s, h), s.bk = "noBackoff"
  PROVE  LET u == [Transmit(s, p, "TXC", in) EXCEPT !.txc = c]
         IN  TxcSends(s, u, h, {}) /\ u.txc = c
<1> DEFINE a == Transmit(s, p, "TXC", in)
           u == [a EXCEPT !.txc = c]
<1>1. /\ Touches(s, a, AirFields \cup {"confirm"}, AirTimers)
      /\ Sends(a, h, p) /\ a.confirm = "TXC" /\ a.bk = "noBackoff"
  BY TransmitEffect
<1> HIDE DEF a
<1>2. Touches(a, u, {"txc"}, {}) /\ u.txc = c
  BY <1>1, TxcEffect DEF Touches
<1> HIDE DEF u
<1>3. Touches(s, u, AirFields \cup {"confirm", "txc"}, AirTimers)
  BY <1>1, <1>2 DEF Touches
<1>4. u.confirm = "TXC" /\ u.bk = "noBackoff" /\ u.out = p
  BY <1>1, <1>2 DEF Touches, Fields, Sends
<1>5. /\ "bk" \in Timers /\ "ifs" \in Timers /\ "nav" \in Timers
      /\ "rX" \in Timers /\ "preRX" \in Timers /\ "tX" \in Timers
  BY DEF Timers, PhyTimers, MacTimers
<1>6. Sends(u, h, u.out)
  BY <1>1, <1>2, <1>4, <1>5 DEF Sends, Touches, Fields, PhyTimed, ChannelTimed, Pending
<1>7. TxcSends(s, u, h, {})
  BY <1>3, <1>4, <1>6 DEF TxcSends
<1> QED BY <1>2, <1>7 DEF u, a

\* The frame a pending transmission sends.
HeldFrame(s) == IF s.txc = "RTS_pending" THEN s.pRTS ELSE s.pDATA
\* The state TXC sends in after a pending one.
Sending(c) == IF c = "RTS_pending" THEN "wait_RTSsent" ELSE "wait_PDUsent"
\* The states in which TXC waits for its backoff.
PendingStates == {"RTS_pending", "DATA_pending"}

\* handleBKDone of a pending transmission sends it.
LEMMA BKDoneEffect ==
  ASSUME NEW n, NEW h, NEW s \in Sound(n, h), NEW in, MaySend(s, h),
         s.bk = "noBackoff", s.txc \in PendingStates, HeldFrame(s) # NoFrame
  PROVE  LET u == HandleBKDone(s, in)
         IN  TxcSends(s, u, h, {}) /\ u.txc = Sending(s.txc)
<1>1. s.pRTS \in Frame /\ s.pDATA \in Frame
  BY DEF Sound, Station
<1>2. "wait_RTSsent" \in TXCStates /\ "wait_PDUsent" \in TXCStates
  BY DEF TXCStates
<1>3. CASE s.txc = "RTS_pending"
  <2>1. HandleBKDone(s, in) = [Transmit(s, s.pRTS, "TXC", in) EXCEPT !.txc = "wait_RTSsent"]
    BY <1>3 DEF HandleBKDone
  <2> QED BY <1>1, <1>2, <1>3, <2>1, SendHeldEffect DEF HeldFrame, Sending
<1>4. CASE s.txc = "DATA_pending"
  <2>1. HandleBKDone(s, in) = [Transmit(s, s.pDATA, "TXC", in) EXCEPT !.txc = "wait_PDUsent"]
    BY <1>4 DEF HandleBKDone
  <2> QED BY <1>1, <1>2, <1>4, <2>1, SendHeldEffect DEF HeldFrame, Sending
<1> QED BY <1>3, <1>4 DEF PendingStates

\* The start time of the backoff timer is set.
LEMMA StartedEffect ==
  ASSUME NEW s \in Station
  PROVE  LET u == [s EXCEPT !.started = TRUE]
         IN  Touches(s, u, {"started"}, {}) /\ u.started
BY DEF Touches, Fields, Station

\* run of a backoff that has slots left.
LEMMA RunEffect ==
  ASSUME NEW s \in Station, NEW in, s.slots \in Nat \ {0}, s.timer["bk"] = TimerIdle
  PROVE  LET u == BackoffTimerRun(s, in)
         IN  Touches(s, u, {"started"}, {"bk"}) /\ u.started /\ Pending(u, "bk")
<1> DEFINE a == [s EXCEPT !.started = TRUE]
           d == s.slots * SlotTime
           u == Sched(a, "bk", d)
<1>0. "bk" \in Timers
  BY DEF Timers, MacTimers
<1>1. BackoffTimerRun(s, in) = u
  BY DEF BackoffTimerRun
<1>2. d \in Nat /\ d \in Int
  BY TimingAssumption
<1>3. Touches(s, a, {"started"}, {}) /\ a.started
  BY StartedEffect
<1> HIDE DEF a, d
<1>4. a.timer["bk"] = TimerIdle
  BY <1>0, <1>3 DEF Touches
<1>5. Touches(a, u, {}, {"bk"}) /\ u.timer["bk"] = d
  BY <1>0, <1>2, <1>3, <1>4, SchedEffect DEF Touches
<1> HIDE DEF u
<1>6. Touches(s, u, {"started"}, {"bk"})
  BY <1>3, <1>5 DEF Touches
<1>7. u.started
  BY <1>3, <1>5 DEF Touches, Fields
<1> QED BY <1>1, <1>2, <1>5, <1>6, <1>7 DEF Pending

\* BackoffTimer_t::init draws a natural number of slots.
LEMMA DrawEffect ==
  ASSUME NEW s \in Station, NEW in \in AnyInput
  PROVE  LET u == BackoffTimerInit(s, in)
         IN  Touches(s, u, {"slots", "started"}, {}) /\ u.slots \in Nat
<1> DEFINE k == in.draw % (s.cw + 1)
<1>1. k \in Nat
  <2>1. s.cw \in Nat /\ in.draw \in Int
    BY DEF Station, AnyInput
  <2> QED BY <2>1
<1>2. BackoffTimerInit(s, in) = [s EXCEPT !.slots = k, !.started = FALSE]
  BY DEF BackoffTimerInit
<1> HIDE DEF k
<1>3. k \in Int
  BY <1>1
<1> QED BY <1>1, <1>2, <1>3, SlotsEffect, Zenon

\* No frame goes out, at most the backoff is started.
Contends(s, u, h) ==
    Touches(s, u, {"bk", "slots", "started"}, {"bk"}) /\ ChannelTimed(u, h)

\* handleBKStart up to the end of a backoff of no slots.
LEMMA BKStartCases ==
  ASSUME NEW n, NEW h, NEW s \in Sound(n, h), NEW in \in AnyInput, ChannelTimed(s, h),
         "bk" \notin h
  PROVE  LET u == HandleBKStart(s, in)
             t == BackoffTimerInit(s, in)
         IN  \/ Contends(s, u, h) /\ u.bk # "noBackoff"
             \/ /\ s.ch = "noCSnoNAV" /\ s.bk = "noBackoff"
                /\ u = HandleBKDone(t, in)
                /\ Touches(s, t, {"slots", "started"}, {}) /\ t \in Sound(n, h)
<1>0. /\ s \in Station /\ "bk" \in Timers /\ "ifs" \in Timers /\ "nav" \in Timers
      /\ "BackoffPause" \in BackoffStates /\ "BackoffRunning" \in BackoffStates
  BY DEF Sound, Timers, MacTimers, BackoffStates
<1> DEFINE t == BackoffTimerInit(s, in)
           u == HandleBKStart(s, in)
<1>1. Touches(s, t, {"slots", "started"}, {}) /\ t.slots \in Nat
  BY <1>0, DrawEffect
<1>2. CASE s.bk # "noBackoff"
  <2>1. u = s
    BY <1>2 DEF HandleBKStart
  <2> HIDE DEF u
  <2> QED BY <1>0, <1>2, <2>1 DEF Contends, Touches, u
<1>3. CASE s.bk = "noBackoff" /\ s.ch # "noCSnoNAV"
  <2> DEFINE p == [t EXCEPT !.bk = "BackoffPause"]
  <2>1. u = p
    BY <1>3 DEF HandleBKStart
  <2> HIDE DEF u, t
  <2>2. Touches(t, p, {"bk"}, {}) /\ p.bk = "BackoffPause"
    BY <1>0, <1>1, BkEffect DEF Touches
  <2> HIDE DEF p
  <2>3. Touches(s, p, {"bk", "slots", "started"}, {"bk"})
    BY <1>1, <2>2 DEF Touches
  <2>4. ChannelTimed(p, h)
    BY <1>0, <1>1, <1>3, <2>2 DEF Touches, Fields, ChannelTimed, Pending
  <2> QED BY <2>1, <2>2, <2>3, <2>4 DEF Contends, u
<1>4. CASE s.bk = "noBackoff" /\ s.ch = "noCSnoNAV" /\ t.slots = 0
  <2>1. u = HandleBKDone(t, in)
    BY <1>4 DEF HandleBKStart
  <2>2. t \in Sound(n, h)
    <3> HIDE DEF t
    <3> QED BY <1>0, <1>1, <1>4 DEF Touches, Fields, Sound, Pending
  <2> QED BY <1>1, <1>4, <2>1, <2>2
<1>5. CASE s.bk = "noBackoff" /\ s.ch = "noCSnoNAV" /\ t.slots # 0
  <2> DEFINE r == [t EXCEPT !.bk = "BackoffRunning"]
  <2>1. u = BackoffTimerRun(r, in)
    BY <1>5 DEF HandleBKStart
  <2> HIDE DEF u, t
  <2>2. Touches(t, r, {"bk"}, {}) /\ r.bk = "BackoffRunning"
    BY <1>0, <1>1, BkEffect DEF Touches
  <2> HIDE DEF r
  <2>3. s.timer["bk"] = TimerIdle
    BY <1>0, <1>5, NotPending DEF ChannelTimed
  <2>4. r.slots \in Nat \ {0} /\ r.timer["bk"] = TimerIdle /\ r \in Station
    BY <1>0, <1>1, <1>5, <2>2, <2>3 DEF Touches, Fields
  <2>5. Touches(r, u, {"started"}, {"bk"}) /\ u.started /\ Pending(u, "bk")
    BY <2>1, <2>4, RunEffect
  <2>6. Touches(s, u, {"bk", "slots", "started"}, {"bk"}) /\ u.bk = "BackoffRunning"
    BY <1>1, <2>2, <2>5 DEF Touches, Fields
  <2>7. ChannelTimed(u, h)
    BY <1>0, <2>5, <2>6 DEF Touches, Fields, ChannelTimed, Pending
  <2> QED BY <2>6, <2>7 DEF Contends, u
<1> QED BY <1>2, <1>3, <1>4, <1>5

\* handleBKStart while TXC has nothing to send: no frame goes out.
LEMMA PostBackoffEffect ==
  ASSUME NEW n, NEW h, NEW s \in Sound(n, h), NEW in \in AnyInput, ChannelTimed(s, h),
         "bk" \notin h,
         s.ch = "noCSnoNAV" => s.txc \in {"Idle", "wait_CTS", "wait_ACK"}
  PROVE  LET u == HandleBKStart(s, in)
         IN  Contends(s, u, h) /\ (s.ch # "noCSnoNAV" => u.bk # "noBackoff")
<1> DEFINE t == BackoffTimerInit(s, in)
           u == HandleBKStart(s, in)
<1>1. CASE Contends(s, u, h) /\ u.bk # "noBackoff"
  BY <1>1
<1>2. CASE /\ s.ch = "noCSnoNAV" /\ s.bk = "noBackoff"
           /\ u = HandleBKDone(t, in)
           /\ Touches(s, t, {"slots", "started"}, {}) /\ t \in Sound(n, h)
  <2> HIDE DEF u, t
  <2>1. t.txc = s.txc /\ t.txc \in {"Idle", "wait_CTS", "wait_ACK"}
    BY <1>2 DEF Touches, Fields
  <2>2. u = t
    BY <1>2, <2>1 DEF HandleBKDone
  <2>3. "bk" \in Timers /\ "ifs" \in Timers /\ "nav" \in Timers
    BY DEF Timers, MacTimers
  <2>4. ChannelTimed(t, h)
    BY <1>2, <2>3 DEF Touches, Fields, ChannelTimed, Pending
  <2>5. Touches(s, t, {"bk", "slots", "started"}, {"bk"})
    BY <1>2 DEF Touches
  <2> QED BY <1>2, <2>2, <2>4, <2>5 DEF Contends, u
<1> QED BY <1>1, <1>2, BKStartCases

\* handleBKStart for a pending transmission: it waits for a backoff, or goes
\* out on an idle channel.
LEMMA RetryBackoffEffect ==
  ASSUME NEW n, NEW h, NEW s \in Sound(n, h), NEW in \in AnyInput, ChannelTimed(s, h),
         "bk" \notin h, s.txc \in PendingStates, HeldFrame(s) # NoFrame,
         s.ch = "noCSnoNAV" => MaySend(s, h)
  PROVE  LET u == HandleBKStart(s, in)
         IN  \/ Contends(s, u, h) /\ u.bk # "noBackoff"
             \/ /\ s.ch = "noCSnoNAV" /\ TxcSends(s, u, h, {})
                /\ u.txc = Sending(s.txc)
<1> DEFINE t == BackoffTimerInit(s, in)
           u == HandleBKStart(s, in)
<1>1. CASE Contends(s, u, h) /\ u.bk # "noBackoff"
  BY <1>1
<1>2. CASE /\ s.ch = "noCSnoNAV" /\ s.bk = "noBackoff"
           /\ u = HandleBKDone(t, in)
           /\ Touches(s, t, {"slots", "started"}, {}) /\ t \in Sound(n, h)
  <2> HIDE DEF u, t
  <2>1. t.txc = s.txc /\ HeldFrame(t) = HeldFrame(s) /\ t.bk = "noBackoff"
    BY <1>2 DEF Touches, Fields, HeldFrame
  <2>2. /\ "bk" \in Timers /\ "ifs" \in Timers /\ "nav" \in Timers
        /\ "rX" \in Timers /\ "preRX" \in Timers /\ "tX" \in Timers
    BY DEF Timers, PhyTimers, MacTimers
  <2>3. MaySend(t, h)
    <3>1. MaySend(s, h)
      BY <1>2
    <3>2. PhyTimed(t, h) /\ Receives(t)
      BY <1>2, <2>2, <3>1 DEF Touches, Fields, MaySend, PhyTimed, Receives, Pending
    <3>3. ChannelTimed(t, h)
      BY <1>2, <2>2, <3>1 DEF Touches, Fields, MaySend, ChannelTimed, Pending
    <3> QED BY <1>2, <3>1, <3>2, <3>3 DEF Touches, Fields, MaySend
  <2>4. TxcSends(t, u, h, {}) /\ u.txc = Sending(t.txc)
    BY <1>2, <2>1, <2>3, BKDoneEffect
  <2>5. TxcSends(s, u, h, {})
    BY <1>2, <2>4 DEF TxcSends, Touches, AirFields
  <2> QED BY <1>2, <2>1, <2>4, <2>5 DEF u
<1> QED BY <1>1, <1>2, BKStartCases

-----------------------------------------------------------------------------
(* The service of a packet *)

\* What TXC changes when no frame goes out: its own fields, the traffic
\* source's, and the backoff.
TxcOwn == {"txc", "callback", "pDATA", "pRTS", "seqno", "calls", "short", "long", "cw",
           "done", "active"}
\* The fields TXC and its backoff may change.
TxcFields == TxcOwn \cup {"bk", "slots", "started"}

\* Without a change of PHY, channel and backoff, their timers still agree.
LEMMA ChannelKept ==
  ASSUME NEW s, NEW t, NEW h, Touches(s, t, TxcOwn, {}), ChannelTimed(s, h)
  PROVE  ChannelTimed(t, h)
<1>1. "bk" \in Timers /\ "ifs" \in Timers /\ "nav" \in Timers
  BY DEF Timers, MacTimers
<1>2. /\ t.ch = s.ch /\ t.bk = s.bk /\ t.started = s.started /\ t.ifsValue = s.ifsValue
  BY DEF Touches, Fields, TxcOwn
<1> QED BY <1>1, <1>2 DEF Touches, ChannelTimed, Pending

\* TXC does not take away the right to send.
LEMMA MaySendKept ==
  ASSUME NEW s, NEW t, NEW h, Touches(s, t, TxcFields, {"bk"}), ChannelTimed(t, h),
         MaySend(s, h)
  PROVE  MaySend(t, h)
<1>1. /\ "bk" \in Timers /\ "ifs" \in Timers /\ "nav" \in Timers
      /\ "rX" \in Timers /\ "preRX" \in Timers /\ "tX" \in Timers
  BY DEF Timers, PhyTimers, MacTimers
<1>2. t.phy = s.phy /\ t.ch = s.ch /\ t.pktRX = s.pktRX
  BY DEF Touches, Fields, TxcFields, TxcOwn
<1>3. PhyTimed(t, h) /\ Receives(t)
  BY <1>1, <1>2 DEF MaySend, PhyTimed, Receives, Touches, Pending
<1> QED BY <1>2, <1>3 DEF MaySend

\* The counters and the contention window of a packet that was not retried.
Fresh(s) == s.short = 0 /\ s.long = 0 /\ s.cw = CWMin

\* The states of TXC that only a unicast packet leads to.
Unicast == {"RTS_pending", "wait_RTSsent", "wait_CTS", "wait_SIFS", "wait_ACK"}

\* The state of TXC agrees with its packets, its counters and the backoff.
TxcOK(s) ==
    /\ s.pDATA # NoFrame <=> s.txc # "Idle"
    /\ s.pRTS # NoFrame <=> s.txc \in {"RTS_pending", "wait_RTSsent", "wait_CTS"}
    /\ s.txc \in Unicast => s.pDATA.dst # Broadcast
    /\ s.txc \in PendingStates => s.bk # "noBackoff"
    /\ s.bk # "noBackoff" => s.txc = "Idle" \/ s.txc \in PendingStates
    /\ s.short < ShortRetryLimit /\ s.long < LongRetryLimit /\ s.cw \in CWMin .. CWMax
    /\ s.pDATA.dst = Broadcast => Fresh(s)

\* TXC goes on: it waits for a backoff or for the next packet, or, from an
\* idle channel, a frame goes out.
Waits(s, u, h) ==
    /\ Touches(s, u, TxcFields, {"bk"}) /\ ChannelTimed(u, h)
    /\ u.txc = "Idle" \/ u.txc \in PendingStates
\* A frame of TXC goes out from the idle channel.
Goes(s, u, h) ==
    /\ s.ch = "noCSnoNAV" /\ TxcSends(s, u, h, TxcFields)
    /\ u.txc \in {"wait_RTSsent", "wait_PDUsent"}
\* What TXC does when it proceeds.
Proceeds(s, u, h) == TxcOK(u) /\ (Waits(s, u, h) \/ Goes(s, u, h))

\* A new packet has counters below their limits.
LEMMA FreshCounters ==
  ASSUME NEW s, Fresh(s)
  PROVE  s.short < ShortRetryLimit /\ s.long < LongRetryLimit /\ s.cw \in CWMin .. CWMax
BY MibAssumption DEF Fresh

\* What goes before a step of TXC does not matter to where it proceeds.
LEMMA ProceedsFrom ==
  ASSUME NEW s, NEW t, NEW u, NEW h, Touches(s, t, TxcFields, {"bk"}), Proceeds(t, u, h)
  PROVE  Proceeds(s, u, h)
<1>1. t.ch = s.ch
  BY DEF Touches, Fields, TxcFields, TxcOwn
<1>2. CASE Waits(t, u, h)
  <2>1. Touches(s, u, TxcFields, {"bk"})
    BY <1>2 DEF Waits, Touches
  <2> QED BY <1>2, <2>1 DEF Waits, Proceeds
<1>3. CASE Goes(t, u, h)
  <2>1. Touches(s, u, AirFields \cup {"confirm", "txc"} \cup TxcFields, AirTimers)
    BY <1>3 DEF Goes, TxcSends, Touches, AirTimers
  <2> QED BY <1>1, <1>3, <2>1 DEF Goes, TxcSends, Proceeds
<1> QED BY <1>2, <1>3 DEF Proceeds

\* A frame that goes out leaves TXC as the transmission that was pending.
LEMMA SentOK ==
  ASSUME NEW s, NEW u, NEW h, TxcSends(s, u, h, {}), s.pDATA # NoFrame,
         u.txc = IF s.pRTS # NoFrame THEN "wait_RTSsent" ELSE "wait_PDUsent",
         s.pRTS # NoFrame => s.pDATA.dst # Broadcast,
         s.short < ShortRetryLimit, s.long < LongRetryLimit, s.cw \in CWMin .. CWMax,
         s.pDATA.dst = Broadcast => Fresh(s)
  PROVE  TxcOK(u)
<1>1. /\ u.pDATA = s.pDATA /\ u.pRTS = s.pRTS /\ u.short = s.short /\ u.long = s.long
      /\ u.cw = s.cw /\ u.bk = "noBackoff"
  BY DEF TxcSends, Touches, Fields, AirFields
<1>2. Fresh(u) <=> Fresh(s)
  BY <1>1 DEF Fresh
<1> QED BY <1>1, <1>2 DEF TxcOK, Unicast, PendingStates

\* A pending transmission that waits for a backoff.
LEMMA WaitingOK ==
  ASSUME NEW s, NEW u, Touches(s, u, {"bk", "slots", "started", "txc"}, {"bk"}),
         s.pDATA # NoFrame, u.bk # "noBackoff",
         u.txc = IF s.pRTS # NoFrame THEN "RTS_pending" ELSE "DATA_pending",
         s.pRTS # NoFrame => s.pDATA.dst # Broadcast,
         s.short < ShortRetryLimit, s.long < LongRetryLimit, s.cw \in CWMin .. CWMax,
         s.pDATA.dst = Broadcast => Fresh(s)
  PROVE  TxcOK(u)
<1>1. /\ u.pDATA = s.pDATA /\ u.pRTS = s.pRTS /\ u.short = s.short /\ u.long = s.long
      /\ u.cw = s.cw
  BY DEF Touches, Fields
<1>2. Fresh(u) <=> Fresh(s)
  BY <1>1 DEF Fresh
<1> QED BY <1>1, <1>2 DEF TxcOK, Unicast, PendingStates

\* The packet being served, its RTS and its counters fit together.
InService(s) ==
    /\ s.pDATA # NoFrame
    /\ s.pRTS # NoFrame => s.pDATA.dst # Broadcast
    /\ s.short < ShortRetryLimit /\ s.long < LongRetryLimit /\ s.cw \in CWMin .. CWMax
    /\ s.pDATA.dst = Broadcast => Fresh(s)

\* The pending state for the packet in service.
PendingOf(s) == IF s.pRTS # NoFrame THEN "RTS_pending" ELSE "DATA_pending"

\* handleBKStart for the packet being served.
LEMMA RetryEffect ==
  ASSUME NEW n, NEW h, NEW s \in Sound(n, h), NEW in \in AnyInput, ChannelTimed(s, h),
         "bk" \notin h, InService(s), s.txc = PendingOf(s),
         s.ch = "noCSnoNAV" => MaySend(s, h)
  PROVE  Proceeds(s, HandleBKStart(s, in), h)
<1> DEFINE u == HandleBKStart(s, in)
<1>1. s.txc \in PendingStates /\ HeldFrame(s) # NoFrame
  BY DEF PendingOf, PendingStates, HeldFrame, InService
<1>2. \/ Contends(s, u, h) /\ u.bk # "noBackoff"
      \/ /\ s.ch = "noCSnoNAV" /\ TxcSends(s, u, h, {})
         /\ u.txc = Sending(s.txc)
  BY <1>1, RetryBackoffEffect
<1> HIDE DEF u
<1>3. CASE Contends(s, u, h) /\ u.bk # "noBackoff"
  <2>1. Touches(s, u, {"bk", "slots", "started", "txc"}, {"bk"}) /\ u.txc = s.txc
    BY <1>3 DEF Contends, Touches, Fields
  <2>2. TxcOK(u)
    BY <1>3, <2>1, WaitingOK DEF InService, PendingOf
  <2>3. Waits(s, u, h)
    BY <1>1, <1>3, <2>1 DEF Contends, Waits, Touches, TxcFields, TxcOwn
  <2> QED BY <2>2, <2>3 DEF Proceeds, u
<1>4. CASE s.ch = "noCSnoNAV" /\ TxcSends(s, u, h, {}) /\ u.txc = Sending(s.txc)
  <2>1. u.txc = IF s.pRTS # NoFrame THEN "wait_RTSsent" ELSE "wait_PDUsent"
    BY <1>4 DEF Sending, PendingOf
  <2>2. TxcOK(u)
    BY <1>4, <2>1, SentOK DEF InService
  <2>3. TxcSends(s, u, h, TxcFields)
    BY <1>4 DEF TxcSends, Touches
  <2> QED BY <1>4, <2>1, <2>2, <2>3 DEF Proceeds, Goes, u
<1> QED BY <1>2, <1>3, <1>4

\* The end of handleMsgFromUp.
LEMMA StartServiceEffect ==
  ASSUME NEW n, NEW h, NEW s \in Sound(n, h), NEW in \in AnyInput, ChannelTimed(s, h),
         "bk" \notin h, InService(s), s.ch = "noCSnoNAV" => MaySend(s, h)
  PROVE  Proceeds(s, StartService(s, in), h)
<1> DEFINE c == PendingOf(s)
           u == StartService(s, in)
           t == [s EXCEPT !.txc = c]
<1>0. /\ s \in Station /\ c \in TXCStates /\ s.pRTS \in Frame /\ s.pDATA \in Frame
      /\ "wait_RTSsent" \in TXCStates /\ "wait_PDUsent" \in TXCStates
  BY DEF Sound, Station, TXCStates, PendingOf
<1>1. Touches(s, t, {"txc"}, {}) /\ t.txc = c /\ t \in Sound(n, h)
  BY <1>0, TxcEffect, TxcSound
<1>2. CASE s.bk = "noBackoff" /\ s.ch = "noCSnoNAV"
  <2>1. MaySend(s, h)
    BY <1>2
  <2>2. TxcSends(s, u, h, {}) /\ u.txc = IF s.pRTS # NoFrame THEN "wait_RTSsent" ELSE "wait_PDUsent"
    <3>1. CASE s.pRTS # NoFrame
      <4>1. u = [Transmit(s, s.pRTS, "TXC", in) EXCEPT !.txc = "wait_RTSsent"]
        BY <1>2, <3>1 DEF StartService
      <4> HIDE DEF u
      <4> QED BY <1>0, <1>2, <2>1, <3>1, <4>1, SendHeldEffect
    <3>2. CASE s.pRTS = NoFrame
      <4>1. u = [Transmit(s, s.pDATA, "TXC", in) EXCEPT !.txc = "wait_PDUsent"]
        BY <1>2, <3>2 DEF StartService
      <4> HIDE DEF u
      <4> QED BY <1>0, <1>2, <2>1, <3>2, <4>1, SendHeldEffect DEF InService
    <3> QED BY <3>1, <3>2
  <2> HIDE DEF u
  <2>3. TxcOK(u)
    BY <2>2, SentOK DEF InService
  <2>4. TxcSends(s, u, h, TxcFields)
    BY <2>2 DEF TxcSends, Touches
  <2> QED BY <1>2, <2>2, <2>3, <2>4 DEF Proceeds, Goes, u
<1>3. CASE s.bk = "noBackoff" /\ s.ch # "noCSnoNAV"
  <2>1. u = HandleBKStart(t, in)
    BY <1>3 DEF StartService, PendingOf
  <2> HIDE DEF u, t
  <2>2. /\ t.pDATA = s.pDATA /\ t.pRTS = s.pRTS /\ t.short = s.short /\ t.long = s.long
        /\ t.cw = s.cw /\ t.ch = s.ch
    BY <1>1 DEF Touches, Fields
  <2>3. InService(t) /\ t.txc = PendingOf(t)
    BY <1>1, <2>2 DEF InService, PendingOf, Fresh
  <2>4. ChannelTimed(t, h)
    <3>1. Touches(s, t, TxcOwn, {})
      BY <1>1 DEF Touches, TxcOwn
    <3> QED BY <3>1, ChannelKept
  <2>5. Proceeds(t, u, h)
    BY <1>1, <1>3, <2>1, <2>2, <2>3, <2>4, RetryEffect
  <2>6. Touches(s, t, TxcFields, {"bk"})
    BY <1>1 DEF Touches, TxcFields, TxcOwn
  <2> QED BY <2>5, <2>6, ProceedsFrom DEF u
<1>4. CASE s.bk # "noBackoff"
  <2>1. u = t
    BY <1>4 DEF StartService, PendingOf
  <2> HIDE DEF u, t
  <2>2. u.bk = s.bk
    BY <1>1, <2>1 DEF Touches, Fields
  <2>3. Touches(s, u, {"bk", "slots", "started", "txc"}, {"bk"})
    BY <1>1, <2>1 DEF Touches
  <2>4. TxcOK(u)
    BY <1>1, <1>4, <2>1, <2>2, <2>3, WaitingOK DEF InService, PendingOf
  <2>5. ChannelTimed(u, h)
    <3>1. Touches(s, u, TxcOwn, {})
      BY <1>1, <2>1 DEF Touches, TxcOwn
    <3> QED BY <3>1, ChannelKept
  <2>6. u.txc \in PendingStates
    BY <1>1, <2>1 DEF PendingOf, PendingStates
  <2>7. Waits(s, u, h)
    BY <2>3, <2>5, <2>6 DEF Waits, Touches, TxcFields, TxcOwn
  <2> QED BY <2>4, <2>7 DEF Proceeds, u
<1> QED BY <1>2, <1>3, <1>4

\* Frames of the three kinds are not NoFrame.
LEMMA FramesAreSome ==
  ASSUME NEW a, NEW b, NEW c, NEW d
  PROVE  /\ DataFrame(a, b, c, d) # NoFrame /\ DataFrame(a, b, c, d).dst = b
         /\ RTSFrame(a, b) # NoFrame /\ CTSFrame(a, b) # NoFrame /\ ACKFrame(a, b) # NoFrame
<1>1. NoFrame.kind = "none"
  BY DEF NoFrame
<1>2. DataFrame(a, b, c, d).kind = "DATA" /\ DataFrame(a, b, c, d).dst = b
  BY DEF DataFrame
<1>3. RTSFrame(a, b).kind = "RTS" /\ CTSFrame(a, b).kind = "CTS" /\ ACKFrame(a, b).kind = "ACK"
  BY DEF RTSFrame, CTSFrame, ACKFrame
<1> QED BY <1>1, <1>2, <1>3

\* The handler of the upper layer is kept.
LEMMA CallbackEffect ==
  ASSUME NEW s \in Station
  PROVE  Touches(s, [s EXCEPT !.callback = TRUE], {"callback"}, {})
BY DEF Touches, Fields, Station

\* The packet to serve and the next sequence number are set.
LEMMA PacketEffect ==
  ASSUME NEW s \in Station, NEW p \in Frame, NEW q \in 0 .. SeqMod - 1
  PROVE  LET u == [s EXCEPT !.pDATA = p, !.seqno = q]
         IN  Touches(s, u, {"pDATA", "seqno"}, {}) /\ u.pDATA = p
BY DEF Touches, Fields, Station

\* The RTS of the packet in service is set.
LEMMA RTSEffect ==
  ASSUME NEW s \in Station, NEW p \in Frame
  PROVE  LET u == [s EXCEPT !.pRTS = p]
         IN  Touches(s, u, {"pRTS"}, {}) /\ u.pRTS = p
BY DEF Touches, Fields, Station

\* prepareMPDU.
LEMMA PrepareEffect ==
  ASSUME NEW n \in Nodes, NEW h, NEW s \in Sound(n, h), NEW in \in AnyInput
  PROVE  LET u == PrepareMPDU(s, in)
         IN  /\ Touches(s, u, {"pDATA", "seqno", "calls"}, {})
             /\ u.pDATA # NoFrame
<1> DEFINE a == Alloc(s, "pDATA")
           p == DataFrame(s.id, in.dst, in.size, s.seqno)
           q == (s.seqno + 1) % SeqMod
           u == [a EXCEPT !.pDATA = p, !.seqno = q]
<1>0. s \in Station /\ s.id = n /\ s.seqno \in 0 .. SeqMod - 1 /\ "pDATA" \in Slots
  BY SlotsType DEF Sound, Station
<1>1. p \in Frame /\ p # NoFrame
  <2>1. in.dst \in Addresses /\ in.size \in Sizes
    BY AddressAssumption DEF AnyInput
  <2> QED BY <1>0, <2>1, DataFrameType, FramesAreSome
<1>2. q \in 0 .. SeqMod - 1
  BY <1>0, SizeAssumption
<1>3. Touches(s, a, {"calls"}, {})
  BY <1>0, FreeEffect
<1>4. a.seqno = s.seqno /\ a.id = s.id
  BY <1>3 DEF Touches, Fields
<1>5. PrepareMPDU(s, in) = u
  BY <1>4 DEF PrepareMPDU
<1> HIDE DEF a, p, q
<1>6. Touches(a, u, {"pDATA", "seqno"}, {}) /\ u.pDATA = p
  <2>1. a \in Station
    BY <1>3 DEF Touches
  <2> QED BY <1>1, <1>2, <2>1, PacketEffect
<1> HIDE DEF u
<1>7. Touches(s, u, {"pDATA", "seqno", "calls"}, {})
  BY <1>3, <1>6 DEF Touches
<1> QED BY <1>1, <1>5, <1>6, <1>7

\* handleMsgFromUp of a TXC that is done with the packet before.
LEMMA MsgFromUpEffect ==
  ASSUME NEW n \in Nodes, NEW h, NEW s \in Sound(n, h), NEW in \in AnyInput,
         ChannelTimed(s, h), "bk" \notin h, Fresh(s), s.pRTS = NoFrame,
         s.ch = "noCSnoNAV" => MaySend(s, h)
  PROVE  Proceeds(s, HandleMsgFromUp(s, in), h)
<1> DEFINE c == [s EXCEPT !.callback = TRUE]
           p == PrepareMPDU(c, in)
           f == RTSFrame(p.id, p.pDATA)
           a == Alloc(p, "pRTS")
           r == [a EXCEPT !.pRTS = f]
           t == IF NeedsRTS(p.pDATA) THEN r ELSE p
           u == HandleMsgFromUp(s, in)
<1>1. u = StartService(t, in)
  BY DEF HandleMsgFromUp
<1> HIDE DEF u, t, r, a, f, p, c
<1>2. Touches(s, c, {"callback"}, {}) /\ c \in Sound(n, h)
  <2>1. c \in Sound(n, h)
    BY ZenonT(60) DEF Sound, Station, Pending, c
  <2> QED BY <2>1, CallbackEffect DEF Sound, c
<1>3. Touches(c, p, {"pDATA", "seqno", "calls"}, {}) /\ p.pDATA # NoFrame /\ p \in Sound(n, h)
  BY <1>2, PrepareEffect, PrepareSound DEF p
<1>4. Touches(s, p, TxcOwn, {}) /\ p.pRTS = NoFrame
  BY <1>2, <1>3 DEF Touches, Fields, TxcOwn
<1>5. f \in Frame /\ f # NoFrame
  <2>1. p.id = n /\ p.pDATA \in Frame
    BY <1>3 DEF Sound, Station
  <2> QED BY <2>1, RTSFrameType, FramesAreSome DEF f
<1>6. Touches(p, a, {"calls"}, {}) /\ a \in Sound(n, h)
  <2>1. p \in Station
    BY <1>3 DEF Sound
  <2> QED BY <1>3, <2>1, FreeEffect, AllocFreeSound, SlotsType DEF a
<1>7. Touches(a, r, {"pRTS"}, {}) /\ r.pRTS = f /\ r \in Sound(n, h)
  <2>1. Touches(a, r, {"pRTS"}, {}) /\ r.pRTS = f
    BY <1>5, <1>6, RTSEffect DEF Touches, r
  <2>2. r \in Sound(n, h)
    BY <1>5, <1>6, ZenonT(60) DEF Sound, Station, Pending, r
  <2> QED BY <2>1, <2>2
<1>8. /\ t \in Sound(n, h) /\ t.pDATA # NoFrame
      /\ t.pRTS # NoFrame => t.pDATA.dst # Broadcast
      /\ Touches(s, t, TxcOwn, {})
      /\ t.short = s.short /\ t.long = s.long /\ t.cw = s.cw
  <2>1. CASE NeedsRTS(p.pDATA)
    <3>1. t = r
      BY <2>1 DEF t
    <3>2. r.pDATA = p.pDATA /\ p.pDATA.dst # Broadcast
      BY <1>6, <1>7, <2>1 DEF Touches, Fields, NeedsRTS
    <3>3. Touches(s, r, TxcOwn, {})
      BY <1>4, <1>6, <1>7 DEF Touches, TxcOwn
    <3>4. r.short = s.short /\ r.long = s.long /\ r.cw = s.cw
      BY <1>2, <1>3, <1>6, <1>7 DEF Touches, Fields
    <3> QED BY <1>3, <1>7, <3>1, <3>2, <3>3, <3>4
  <2>2. CASE ~NeedsRTS(p.pDATA)
    <3>1. t = p
      BY <2>2 DEF t
    <3>2. p.short = s.short /\ p.long = s.long /\ p.cw = s.cw
      BY <1>2, <1>3 DEF Touches, Fields
    <3> QED BY <1>3, <1>4, <3>1, <3>2
  <2> QED BY <2>1, <2>2
<1>9. InService(t)
  BY <1>8, FreshCounters DEF InService, Fresh
<1>10. ChannelTimed(t, h)
  BY <1>8, ChannelKept
<1>11. Touches(s, t, TxcFields, {"bk"}) /\ t.ch = s.ch
  BY <1>8 DEF Touches, Fields, TxcFields, TxcOwn
<1>12. t.ch = "noCSnoNAV" => MaySend(t, h)
  BY <1>10, <1>11, MaySendKept
<1>13. Proceeds(t, u, h)
  BY <1>1, <1>8, <1>9, <1>10, <1>12, StartServiceEffect
<1> QED BY <1>11, <1>13, ProceedsFrom DEF u

\* checkQueue, before it calls the upper layer.
LEMMA IdleQueueEffect ==
  ASSUME NEW s \in Station
  PROVE  LET u == [s EXCEPT !.txc = "Idle", !.callback = FALSE]
         IN  Touches(s, u, {"txc", "callback"}, {}) /\ u.txc = "Idle"
BY DEF Touches, Fields, Station, TXCStates

\* checkQueue after the service of a packet.
LEMMA CheckQueueEffect ==
  ASSUME NEW n \in Nodes, NEW h, NEW s \in Sound(n, h), NEW in \in AnyInput,
         ChannelTimed(s, h), "bk" \notin h, Fresh(s), s.pRTS = NoFrame, s.pDATA = NoFrame,
         s.ch = "noCSnoNAV" => MaySend(s, h)
  PROVE  Proceeds(s, CheckQueue(s, in), h)
<1> DEFINE i == [s EXCEPT !.txc = "Idle", !.callback = FALSE]
           u == CheckQueue(s, in)
<1>1. Touches(s, i, {"txc", "callback"}, {}) /\ i.txc = "Idle" /\ i \in Sound(n, h)
  <2>1. i \in Sound(n, h)
    BY ZenonT(60) DEF Sound, Station, Pending, TXCStates
  <2> QED BY <2>1, IdleQueueEffect DEF Sound
<1>2. (s.callback /\ s.active /\ u = HandleMsgFromUp(i, in)) \/ u = i
  BY DEF CheckQueue
<1> HIDE DEF i, u
<1>3. /\ Touches(s, i, TxcOwn, {})
      /\ i.pRTS = NoFrame /\ i.pDATA = NoFrame /\ i.ch = s.ch
      /\ i.short = s.short /\ i.long = s.long /\ i.cw = s.cw
  BY <1>1 DEF Touches, Fields, TxcOwn
<1>4. ChannelTimed(i, h) /\ Fresh(i)
  BY <1>3, ChannelKept DEF Fresh
<1>5. Touches(s, i, TxcFields, {"bk"})
  BY <1>3 DEF Touches, TxcFields
<1>6. CASE u = HandleMsgFromUp(i, in)
  <2>1. i.ch = "noCSnoNAV" => MaySend(i, h)
    BY <1>3, <1>4, <1>5, MaySendKept
  <2>2. Proceeds(i, u, h)
    BY <1>1, <1>3, <1>4, <1>6, <2>1, MsgFromUpEffect
  <2> QED BY <1>5, <2>2, ProceedsFrom DEF u
<1>7. CASE u = i
  <2>1. TxcOK(i)
    BY <1>1, <1>3, <1>4, FreshCounters DEF TxcOK, Unicast, PendingStates
  <2>2. Waits(s, i, h)
    BY <1>1, <1>4, <1>5 DEF Waits
  <2> QED BY <1>7, <2>1, <2>2 DEF Proceeds, u
<1> QED BY <1>2, <1>6, <1>7

\* A packet is acknowledged or given up: counters and window start afresh.
LEMMA ServedEffect ==
  ASSUME NEW s \in Station, NEW how \in {"acked", "dropped"}
  PROVE  LET u == [s EXCEPT !.pDATA = NoFrame, !.short = 0, !.long = 0, !.cw = CWMin,
                            !.done = how]
         IN  /\ Touches(s, u, {"pDATA", "short", "long", "cw", "done"}, {})
             /\ u.pDATA = NoFrame /\ Fresh(u)
BY NoFrameType, MibAssumption DEF Touches, Fields, Station, Fresh

\* The common end of a packet that is acknowledged or given up.
LEMMA FinishEffect ==
  ASSUME NEW n \in Nodes, NEW h, NEW s \in Sound(n, h), NEW in \in AnyInput,
         NEW how \in {"acked", "dropped"},
         ChannelTimed(s, h), "bk" \notin h, s.pDATA # NoFrame, s.pRTS = NoFrame,
         s.txc \in {"wait_CTS", "wait_ACK"},
         s.ch = "noCSnoNAV" => MaySend(s, h)
  PROVE  Proceeds(s, FinishPacket(s, how, in), h)
<1> DEFINE f == Free(s, "pDATA")
           e == [f EXCEPT !.pDATA = NoFrame, !.short = 0, !.long = 0, !.cw = CWMin,
                          !.done = how]
           b == HandleBKStart(e, in)
           u == CheckQueue(b, in)
<1>0. "pDATA" \in Slots /\ s \in Station
  BY SlotsType DEF Sound
<1>1. FinishPacket(s, how, in) = u
  BY DEF FinishPacket
<1> HIDE DEF u, b, e, f
<1>2. Touches(s, f, {"calls"}, {}) /\ f \in Sound(n, h)
  BY <1>0, FreeEffect, AllocFreeSound DEF f
<1>3. f \in Station
  BY <1>2 DEF Sound
<1>4. /\ Touches(f, e, {"pDATA", "short", "long", "cw", "done"}, {})
      /\ e.pDATA = NoFrame /\ Fresh(e)
  BY <1>3, ServedEffect DEF e
<1>5. e \in Sound(n, h)
  BY <1>2, <1>4, SoundKept
<1>6. Touches(s, e, TxcOwn, {}) /\ e.txc = s.txc /\ e.ch = s.ch /\ e.pRTS = NoFrame
  BY <1>2, <1>4 DEF Touches, Fields, TxcOwn
<1>7. ChannelTimed(e, h)
  BY <1>6, ChannelKept
<1>8. Contends(e, b, h)
  BY <1>5, <1>6, <1>7, PostBackoffEffect DEF b
<1>9. b \in Sound(n, h)
  BY <1>5, BKStartSound DEF b
<1>10. /\ b.pDATA = NoFrame /\ b.pRTS = NoFrame /\ b.ch = s.ch /\ Fresh(b)
       /\ Touches(s, b, TxcFields, {"bk"}) /\ ChannelTimed(b, h)
  <2>1. b.pDATA = e.pDATA /\ b.pRTS = e.pRTS /\ b.ch = e.ch
    BY <1>8 DEF Contends, Touches, Fields
  <2>2. b.short = e.short /\ b.long = e.long /\ b.cw = e.cw
    BY <1>8 DEF Contends, Touches, Fields
  <2>3. Touches(s, b, TxcFields, {"bk"})
    BY <1>6, <1>8 DEF Contends, Touches, TxcFields
  <2> QED BY <1>4, <1>6, <1>8, <2>1, <2>2, <2>3 DEF Contends, Fresh
<1>11. b.ch = "noCSnoNAV" => MaySend(b, h)
  BY <1>10, MaySendKept
<1>12. Proceeds(b, u, h)
  BY <1>9, <1>10, <1>11, CheckQueueEffect DEF u
<1> QED BY <1>1, <1>10, <1>12, ProceedsFrom
=============================================================================
