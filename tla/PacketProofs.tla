--------------------------- MODULE PacketProofs ---------------------------
(***************************************************************************)
(* Every packet in use has one owner, in a network of any finite number of *)
(* stations.  First the books of a station: which of its pointers own a    *)
(* packet before and after each operator, along the calls the operator     *)
(* records.  Then the accounts of the pool, when it makes those calls, and *)
(* last the owners in the whole network, whose arrivals are told apart by  *)
(* their stations because a frame has arrived before the next one is sent. *)
(***************************************************************************)
EXTENDS NetworkProofs

-----------------------------------------------------------------------------
(* The books of a handler *)

\* A handler keeps books of the pointers that own a packet, and of whether it
\* has handed one to the channel.
Ledgers == [held : SUBSET Slots, sent : BOOLEAN]

\* What one call may do to them: a pointer that owns nothing is given a packet,
\* one that owns a packet gives it back, or the copy goes to the channel, once.
Legal(l, call, m) ==
    \/ call[1] = "alloc" /\ call[2] \notin l.held
       /\ m.held = l.held \cup {call[2]} /\ m.sent = l.sent
    \/ call[1] = "free" /\ call[2] \in l.held
       /\ m.held = l.held \ {call[2]} /\ m.sent = l.sent
    \/ call[1] = "send" /\ call[2] = "sent" /\ "sent" \in l.held /\ ~l.sent
       /\ m.held = l.held \ {"sent"} /\ m.sent = TRUE

\* The calls are legal one after the other and lead from the one ledger to the
\* other.
Books(l, calls, m) ==
    \E g \in [0 .. Len(calls) -> Ledgers] :
        /\ g[0] = l /\ g[Len(calls)] = m
        /\ \A k \in 1 .. Len(calls) : Legal(g[k - 1], calls[k], g[k])

\* Before the first call.
LEMMA BooksOpen ==
  ASSUME NEW l \in Ledgers
  PROVE  Books(l, <<>>, l)
<1> DEFINE g == [k \in 0 .. 0 |-> l]
<1>1. Len(<<>>) = 0
  OBVIOUS
<1>2. g \in [0 .. 0 -> Ledgers] /\ g[0] = l
  OBVIOUS
<1>3. \A k \in 1 .. 0 : FALSE
  OBVIOUS
<1> HIDE DEF g
<1> QED BY <1>1, <1>2, <1>3 DEF Books

\* One call more.
LEMMA BooksAdd ==
  ASSUME NEW l, NEW m, NEW calls \in Seq(PoolCalls), NEW c \in PoolCalls, NEW r \in Ledgers,
         Books(l, calls, m), Legal(m, c, r)
  PROVE  Books(l, Append(calls, c), r)
<1>1. PICK N \in Nat : N = Len(calls)
  OBVIOUS
<1>2. PICK q : q = Append(calls, c)
  OBVIOUS
<1>3. Len(q) = N + 1 /\ q[N + 1] = c /\ \A k \in 1 .. N : q[k] = calls[k]
  BY <1>1, <1>2
<1>4. PICK g \in [0 .. N -> Ledgers] :
        g[0] = l /\ g[N] = m /\ \A k \in 1 .. N : Legal(g[k - 1], calls[k], g[k])
  BY <1>1 DEF Books
<1> DEFINE f == [k \in 0 .. N + 1 |-> IF k = N + 1 THEN r ELSE g[k]]
<1>5. \A k \in 0 .. N + 1 : k # N + 1 => k \in 0 .. N
  BY <1>1
<1>6. f \in [0 .. N + 1 -> Ledgers]
  BY <1>4, <1>5
<1>7. \A k \in 0 .. N : k \in 0 .. N + 1 /\ k # N + 1 /\ f[k] = g[k]
  BY <1>1
<1>8. f[N + 1] = r /\ f[N] = m /\ f[0] = l
  BY <1>1, <1>4, <1>7
<1> HIDE DEF f
<1>9. ASSUME NEW k \in 1 .. N + 1
      PROVE  Legal(f[k - 1], q[k], f[k])
  <2>1. CASE k = N + 1
    <3>1. k - 1 = N
      BY <1>1, <2>1
    <3> QED BY <1>3, <1>8, <2>1, <3>1
  <2>2. CASE k # N + 1
    <3>1. k \in 1 .. N /\ k \in 0 .. N /\ k - 1 \in 0 .. N
      BY <1>1, <2>2
    <3> QED BY <1>3, <1>4, <1>7, <3>1
  <2> QED BY <2>1, <2>2
<1>10. Books(l, q, r)
  BY <1>3, <1>6, <1>8, <1>9 DEF Books
<1> QED BY <1>2, <1>10

-----------------------------------------------------------------------------
(* The pointers of a station *)

\* Its pointers that own a packet between two calls: those of TXC and RXC as
\* long as they are not null, that of the PHY as long as it receives.
Ours(s) ==
    { k \in Kept :
        \/ k = "pDATA" /\ s.pDATA # NoFrame
        \/ k = "pRTS" /\ s.pRTS # NoFrame
        \/ k = "pCTRL" /\ s.pCTRL # NoFrame
        \/ k = "pktRX" /\ s.phy \in {"PreRXing", "RXing"} }

\* A frame the station made is on the air for at least the time of an ACK.
Made(s, f) == f # NoFrame => f.src = s.id /\ f.len >= ACKlen

\* A frame has been handed to the channel, and its transmission lasts.
Launched(s) ==
    /\ s.phy = "TXing" /\ s.out.src = s.id /\ s.out.len >= ACKlen
    /\ s.timer["tX"] = TxTime(s.out.len) + PropagationDelay(s.out)

\* The ledger of a station with the further packets X.
Ledger(s, X) == [held |-> Ours(s) \cup X, sent |-> s.out # NoFrame]

\* The station at a point of a handler that began in o.  X are the packets the
\* handler has in its hands: allocated and not yet stored, or no longer stored
\* and not yet freed.
Tidy(o, X) ==
    { s \in Station :
        /\ Books([held |-> Ours(o), sent |-> FALSE], s.calls, Ledger(s, X))
        /\ Ours(s) \cap X = {} /\ X \subseteq Slots
        /\ Made(s, s.pDATA) /\ Made(s, s.pRTS) /\ Made(s, s.pCTRL)
        /\ s.phy # "TXing" => s.timer["tX"] = TimerIdle
        /\ s.out # NoFrame => Launched(s)
        /\ o.phy = "TXing" =>
             s.phy = "TXing" /\ s.timer["tX"] = o.timer["tX"] /\ s.out = NoFrame }

\* What the books are about.
Booked == {"id", "phy", "pDATA", "pRTS", "pCTRL", "calls", "out"}

\* Ledgers are made of slots.
LEMMA LedgerType ==
  ASSUME NEW s, NEW X, X \subseteq Slots
  PROVE  Ledger(s, X) \in Ledgers /\ Ours(s) \subseteq Kept /\ Kept \subseteq Slots
         /\ Ledger(s, X).held = Ours(s) \cup X /\ Ledger(s, X).sent = (s.out # NoFrame)
<1>1. Ours(s) \subseteq Kept /\ Kept \subseteq Slots
  BY DEF Ours, Kept, Slots
<1>2. (s.out # NoFrame) \in BOOLEAN
  OBVIOUS
<1> QED BY <1>1, <1>2 DEF Ledger, Ledgers

\* What touches none of it leaves the books as they are.
LEMMA TidyKept ==
  ASSUME NEW o, NEW X, NEW s \in Tidy(o, X), NEW u, NEW F, NEW T, Touches(s, u, F, T),
         F \cap Booked = {}, "tX" \notin T
  PROVE  u \in Tidy(o, X)
<1>1. /\ u.id = s.id /\ u.phy = s.phy /\ u.pDATA = s.pDATA /\ u.pRTS = s.pRTS
      /\ u.pCTRL = s.pCTRL /\ u.calls = s.calls /\ u.out = s.out /\ u \in Station
  BY DEF Touches, Fields, Booked
<1>2. u.timer["tX"] = s.timer["tX"]
  BY TimerNames DEF Touches
<1>3. Ours(u) = Ours(s)
  BY <1>1, Zenon DEF Ours
<1>4. Ledger(u, X) = Ledger(s, X)
  BY <1>1, <1>3, Zenon DEF Ledger
<1>5. Made(u, u.pDATA) /\ Made(u, u.pRTS) /\ Made(u, u.pCTRL)
  BY <1>1 DEF Tidy, Made
<1>6. u.out # NoFrame => Launched(u)
  BY <1>1, <1>2 DEF Tidy, Launched
<1> QED BY <1>1, <1>2, <1>3, <1>4, <1>5, <1>6, Zenon DEF Tidy

\* A legal call leaves them in order.
LEMMA TidyCall ==
  ASSUME NEW o, NEW X, NEW s \in Tidy(o, X), NEW u \in Station, NEW c \in PoolCalls,
         NEW Y \in SUBSET Slots,
         u.calls = Append(s.calls, c), Legal(Ledger(s, X), c, Ledger(u, Y)),
         Ours(u) \cap Y = {},
         Made(u, u.pDATA), Made(u, u.pRTS), Made(u, u.pCTRL),
         u.phy # "TXing" => u.timer["tX"] = TimerIdle,
         u.out # NoFrame => Launched(u),
         o.phy = "TXing" => u.phy = "TXing" /\ u.timer["tX"] = o.timer["tX"] /\ u.out = NoFrame
  PROVE  u \in Tidy(o, Y)
<1>1. s.calls \in Seq(PoolCalls)
  BY DEF Tidy, Station
<1>2. Books([held |-> Ours(o), sent |-> FALSE], s.calls, Ledger(s, X))
  BY Zenon DEF Tidy
<1>3. Books([held |-> Ours(o), sent |-> FALSE], u.calls, Ledger(u, Y))
  <2>1. Ledger(u, Y) \in Ledgers
    BY LedgerType
  <2>2. Books([held |-> Ours(o), sent |-> FALSE], Append(s.calls, c), Ledger(u, Y))
    BY <1>1, <1>2, <2>1, BooksAdd
  <2> QED BY <2>2
<1>4. Y \subseteq Slots
  OBVIOUS
<1> QED BY <1>3, <1>4, Zenon DEF Tidy

\* A step that has nothing to do with packets and the radio.
Spares(s, u) == Touches(s, u, Fields \ Booked, Timers \ {"tX"})

\* It leaves the books in order.
LEMMA TidySpared ==
  ASSUME NEW o, NEW X, NEW s \in Tidy(o, X), NEW u, Spares(s, u)
  PROVE  u \in Tidy(o, X)
<1>1. (Fields \ Booked) \cap Booked = {} /\ "tX" \notin Timers \ {"tX"}
  OBVIOUS
<1> QED BY <1>1, TidyKept, Zenon DEF Spares

\* Two of them are one.
LEMMA SparesThen ==
  ASSUME NEW s, NEW t, NEW u, Spares(s, t), Spares(t, u)
  PROVE  Spares(s, u)
BY DEF Spares, Touches

\* A step with a name for what it touches may be one of them.
LEMMA TouchesSpares ==
  ASSUME NEW s, NEW u, NEW F, NEW T, Touches(s, u, F, T), F \subseteq Fields \ Booked,
         "tX" \notin T
  PROVE  Spares(s, u)
BY DEF Spares, Touches

\* So are the calls of exit and of a logic error.
LEMMA FaultSpares ==
  ASSUME NEW s \in Station
  PROVE  Spares(s, s) /\ Spares(s, Exit(s)) /\ Spares(s, LogicError(s))
<1>1. Spares(s, s) /\ Spares(s, Exit(s))
  BY DEF Spares, Touches, Fields, Booked, Station, Exit
<1>2. Spares(s, LogicError(s))
  <2>1. PICK x \in {"none", "logic", "exit"} : x = IF s.fault = "exit" THEN s.fault ELSE "logic"
    BY DEF Station
  <2>2. LogicError(s) = [s EXCEPT !.fault = x]
    BY <2>1 DEF LogicError
  <2> DEFINE u == [s EXCEPT !.fault = x]
  <2>3. /\ u \in Station
        /\ \A f \in Fields \ {"fault"} : u[f] = s[f]
    <3>1. u \in Station
      BY <2>1 DEF Station
    <3>2. \A f \in Fields \ {"fault"} : u[f] = s[f]
      BY DEF Station, Fields
    <3> QED BY <3>1, <3>2
  <2>4. u.timer = s.timer
    BY DEF Station
  <2> HIDE DEF u
  <2>5. Spares(s, u)
    BY <2>3, <2>4 DEF Spares, Touches, Booked
  <2> QED BY <2>2, <2>5 DEF u
<1> QED BY <1>1, <1>2

\* And the operations on the timers other than that of a transmission.
LEMMA TimerSpares ==
  ASSUME NEW s \in Station, NEW t \in Timers \ {"tX"}, NEW d \in Int
  PROVE  Spares(s, Sched(s, t, d)) /\ Spares(s, Cancel(s, t))
<1>1. TimerIdle \in Int /\ {} \subseteq Fields \ Booked /\ "tX" \notin {t}
  BY DEF TimerIdle
<1>2. \A e \in Int : Spares(s, [s EXCEPT !.timer[t] = e])
  <2> SUFFICES ASSUME NEW e \in Int PROVE Spares(s, [s EXCEPT !.timer[t] = e])
    OBVIOUS
  <2> DEFINE u == [s EXCEPT !.timer[t] = e]
  <2>1. Touches(s, u, {}, {t})
    BY TimerEffect
  <2> HIDE DEF u
  <2>2. Spares(s, u)
    BY <2>1 DEF Spares, Touches
  <2> QED BY <2>2 DEF u
<1> QED BY <1>1, <1>2, FaultSpares DEF Sched, Cancel

\* And those on one field of channel access.
LEMMA FieldSpares ==
  ASSUME NEW s \in Station
  PROVE  /\ \A c \in ChannelStates : Spares(s, [s EXCEPT !.ch = c])
         /\ \A b \in BackoffStates : Spares(s, [s EXCEPT !.bk = b])
         /\ \A d \in Nat : Spares(s, [s EXCEPT !.ifsValue = d])
         /\ \A c \in TXCStates : Spares(s, [s EXCEPT !.txc = c])
         /\ \A c \in RXCStates : Spares(s, [s EXCEPT !.rxc = c])
         /\ Spares(s, [s EXCEPT !.started = TRUE])
         /\ \A k \in Int : Spares(s, [s EXCEPT !.slots = k, !.started = FALSE])
         /\ \A w \in {"TXC", "RXC"} : Spares(s, [s EXCEPT !.confirm = w])
         /\ Spares(s, [s EXCEPT !.rxError = TRUE])
<1>0. /\ {"ch"} \subseteq Fields \ Booked
      /\ {"bk"} \subseteq Fields \ Booked
      /\ {"ifsValue"} \subseteq Fields \ Booked
      /\ {"txc"} \subseteq Fields \ Booked
      /\ {"rxc"} \subseteq Fields \ Booked
      /\ {"started"} \subseteq Fields \ Booked
      /\ {"confirm"} \subseteq Fields \ Booked
      /\ {"rxError"} \subseteq Fields \ Booked
      /\ {"slots", "started"} \subseteq Fields \ Booked
  BY DEF Fields, Booked
<1>1. \A c \in ChannelStates : Spares(s, [s EXCEPT !.ch = c])
  <2> SUFFICES ASSUME NEW c \in ChannelStates PROVE Spares(s, [s EXCEPT !.ch = c])
    OBVIOUS
  <2> DEFINE u == [s EXCEPT !.ch = c]
  <2>1. Touches(s, u, {"ch"}, {})
    BY ChEffect
  <2> HIDE DEF u
  <2>2. Spares(s, u)
    BY <1>0, <2>1 DEF Spares, Touches
  <2> QED BY <2>2 DEF u
<1>2. \A b \in BackoffStates : Spares(s, [s EXCEPT !.bk = b])
  <2> SUFFICES ASSUME NEW b \in BackoffStates PROVE Spares(s, [s EXCEPT !.bk = b])
    OBVIOUS
  <2> DEFINE u == [s EXCEPT !.bk = b]
  <2>1. Touches(s, u, {"bk"}, {})
    BY BkEffect
  <2> HIDE DEF u
  <2>2. Spares(s, u)
    BY <1>0, <2>1 DEF Spares, Touches
  <2> QED BY <2>2 DEF u
<1>3. \A d \in Nat : Spares(s, [s EXCEPT !.ifsValue = d])
  <2> SUFFICES ASSUME NEW d \in Nat PROVE Spares(s, [s EXCEPT !.ifsValue = d])
    OBVIOUS
  <2> DEFINE u == [s EXCEPT !.ifsValue = d]
  <2>1. Touches(s, u, {"ifsValue"}, {})
    BY IfsEffect
  <2> HIDE DEF u
  <2>2. Spares(s, u)
    BY <1>0, <2>1 DEF Spares, Touches
  <2> QED BY <2>2 DEF u
<1>4. \A c \in TXCStates : Spares(s, [s EXCEPT !.txc = c])
  <2> SUFFICES ASSUME NEW c \in TXCStates PROVE Spares(s, [s EXCEPT !.txc = c])
    OBVIOUS
  <2> DEFINE u == [s EXCEPT !.txc = c]
  <2>1. Touches(s, u, {"txc"}, {})
    BY TxcEffect
  <2> HIDE DEF u
  <2>2. Spares(s, u)
    BY <1>0, <2>1 DEF Spares, Touches
  <2> QED BY <2>2 DEF u
<1>5. \A c \in RXCStates : Spares(s, [s EXCEPT !.rxc = c])
  <2> SUFFICES ASSUME NEW c \in RXCStates PROVE Spares(s, [s EXCEPT !.rxc = c])
    OBVIOUS
  <2> DEFINE u == [s EXCEPT !.rxc = c]
  <2>1. Touches(s, u, {"rxc"}, {})
    BY RxcEffect
  <2> HIDE DEF u
  <2>2. Spares(s, u)
    BY <1>0, <2>1 DEF Spares, Touches
  <2> QED BY <2>2 DEF u
<1>6. Spares(s, [s EXCEPT !.started = TRUE])
  <2> DEFINE u == [s EXCEPT !.started = TRUE]
  <2>1. Touches(s, u, {"started"}, {})
    BY StartedEffect
  <2> HIDE DEF u
  <2>2. Spares(s, u)
    BY <1>0, <2>1 DEF Spares, Touches
  <2> QED BY <2>2 DEF u
<1>7. \A k \in Int : Spares(s, [s EXCEPT !.slots = k, !.started = FALSE])
  <2> SUFFICES ASSUME NEW k \in Int PROVE Spares(s, [s EXCEPT !.slots = k, !.started = FALSE])
    OBVIOUS
  <2> DEFINE u == [s EXCEPT !.slots = k, !.started = FALSE]
  <2>1. Touches(s, u, {"slots", "started"}, {})
    BY SlotsEffect
  <2> HIDE DEF u
  <2>2. Spares(s, u)
    BY <1>0, <2>1 DEF Spares, Touches
  <2> QED BY <2>2 DEF u
<1>8. \A w \in {"TXC", "RXC"} : Spares(s, [s EXCEPT !.confirm = w])
  <2> SUFFICES ASSUME NEW w \in {"TXC", "RXC"} PROVE Spares(s, [s EXCEPT !.confirm = w])
    OBVIOUS
  <2> DEFINE u == [s EXCEPT !.confirm = w]
  <2>1. Touches(s, u, {"confirm"}, {})
    BY ConfirmEffect
  <2> HIDE DEF u
  <2>2. Spares(s, u)
    BY <1>0, <2>1 DEF Spares, Touches
  <2> QED BY <2>2 DEF u
<1>9. Spares(s, [s EXCEPT !.rxError = TRUE])
  <2> DEFINE u == [s EXCEPT !.rxError = TRUE]
  <2>1. Touches(s, u, {"rxError"}, {})
    BY ErrorEffect
  <2> HIDE DEF u
  <2>2. Spares(s, u)
    BY <1>0, <2>1 DEF Spares, Touches
  <2> QED BY <2>2 DEF u
<1> QED BY <1>1, <1>2, <1>3, <1>4, <1>5, <1>6, <1>7, <1>8, <1>9

-----------------------------------------------------------------------------
(* Carrier sense has no packets *)

\* BackoffMgr::handleCSBUSY.
LEMMA CSBusySpares ==
  ASSUME NEW s \in Station, NEW in
  PROVE  Spares(s, HandleCSBUSY(s, in))
<1>0. "bk" \in Timers \ {"tX"} /\ TimerIdle \in Int /\ "BackoffPause" \in BackoffStates
  BY DEF Timers, MacTimers, TimerIdle, BackoffStates
<1>1. CASE s.bk = "BackoffRunning"
  <2> DEFINE elapsed == s.slots * SlotTime - s.timer["bk"]
             whole   == elapsed \div SlotTime
             used    == IF elapsed % SlotTime = 0 /\ elapsed > 0 /\ in.below
                        THEN whole - 1 ELSE whole
             r == [s EXCEPT !.slots = @ - used, !.started = FALSE]
             p == BackoffTimerPause(s, in)
  <2>1. Spares(s, r)
    <3>1. s.slots \in Int /\ s.timer["bk"] \in Int
      BY <1>0 DEF Station
    <3>2. whole \in Int
      BY <3>1, TimingAssumption
    <3>3. s.slots - used \in Int
      <4> HIDE DEF whole
      <4> QED BY <3>1, <3>2
    <3>4. r = [s EXCEPT !.slots = s.slots - used, !.started = FALSE]
      OBVIOUS
    <3> HIDE DEF used, r
    <3> QED BY <3>3, <3>4, FieldSpares
  <2>2. p = Exit(s) \/ p = Cancel(r, "bk")
    BY DEF BackoffTimerPause
  <2>3. HandleCSBUSY(s, in) = [p EXCEPT !.bk = "BackoffPause"]
    BY <1>1 DEF HandleCSBUSY
  <2> HIDE DEF p, r
  <2>4. r \in Station
    BY <2>1 DEF Spares, Touches
  <2>5. Spares(s, p)
    BY <1>0, <2>1, <2>2, <2>4, FaultSpares, TimerSpares, SparesThen
  <2>6. p \in Station
    BY <2>5 DEF Spares, Touches
  <2>7. Spares(p, [p EXCEPT !.bk = "BackoffPause"])
    BY <1>0, <2>6, FieldSpares
  <2> QED BY <2>3, <2>5, <2>7, SparesThen
<1>2. CASE s.bk # "BackoffRunning"
  BY <1>2, FaultSpares DEF HandleCSBUSY
<1> QED BY <1>1, <1>2

\* A step of theirs and an assignment of the channel state.
LEMMA ChSpares ==
  ASSUME NEW s, NEW u, Spares(s, u), NEW c \in ChannelStates
  PROVE  Spares(s, [u EXCEPT !.ch = c])
<1>1. u \in Station
  BY DEF Spares, Touches
<1> QED BY <1>1, FieldSpares, SparesThen

\* ChannelStateMgr::stopIFS.
LEMMA StopIFSSpares ==
  ASSUME NEW s \in Station
  PROVE  Spares(s, StopIFS(s))
<1>1. "ifs" \in Timers \ {"tX"} /\ 0 \in Int
  BY DEF Timers, MacTimers
<1> QED BY <1>1, TimerSpares, FaultSpares DEF StopIFS

\* A step of the PHY changes its state, too.
Retunes(s, u) == Touches(s, u, (Fields \ Booked) \cup {"phy"}, Timers \ {"tX"})

\* WirelessPhy::setState changes the state of the PHY.
LEMMA SetStateSpares ==
  ASSUME NEW s \in Station, NEW new \in PhyStates, NEW in
  PROVE  Retunes(s, SetState(s, new, in)) /\ SetState(s, new, in).phy = new
<1>0. /\ s \in Station /\ s.ch \in ChannelStates /\ s.ifsValue \in Int
      /\ "ifs" \in Timers \ {"tX"}
      /\ \A c \in {"CSnoNAV", "CSNAV", "WIFS", "noCSNAV"} : c \in ChannelStates
  BY DEF Station, Timers, MacTimers, ChannelStates
<1>1. Spares(s, HandlePHYBusyIndication(s, in))
  <2>1. CASE s.ch = "noCSnoNAV"
    BY <1>0, <2>1, CSBusySpares, ChSpares DEF HandlePHYBusyIndication
  <2>2. CASE s.ch = "noCSNAV"
    BY <1>0, <2>2, FieldSpares DEF HandlePHYBusyIndication
  <2>3. CASE s.ch = "WIFS"
    BY <1>0, <2>3, StopIFSSpares, ChSpares DEF HandlePHYBusyIndication
  <2>4. CASE s.ch \notin {"noCSnoNAV", "noCSNAV", "WIFS"}
    BY <1>0, <2>4, FaultSpares DEF HandlePHYBusyIndication
  <2> QED BY <2>1, <2>2, <2>3, <2>4
<1>2. Spares(s, HandlePHYIdleIndication(s))
  <2>1. CASE s.ch = "CSnoNAV"
    BY <1>0, <2>1, TimerSpares, ChSpares DEF HandlePHYIdleIndication
  <2>2. CASE s.ch = "CSNAV"
    BY <1>0, <2>2, FieldSpares DEF HandlePHYIdleIndication
  <2>3. CASE s.ch \notin {"CSnoNAV", "CSNAV"}
    BY <1>0, <2>3, FaultSpares DEF HandlePHYIdleIndication
  <2> QED BY <2>1, <2>2, <2>3
<1>3. \E b : Spares(s, b) /\ SetState(s, new, in) = [b EXCEPT !.phy = new]
  BY <1>0, <1>1, <1>2, FaultSpares DEF SetState
<1>4. PICK b : Spares(s, b) /\ SetState(s, new, in) = [b EXCEPT !.phy = new]
  BY <1>3
<1>5. b \in Station
  BY <1>4 DEF Spares, Touches
<1> DEFINE u == [b EXCEPT !.phy = new]
<1>6. Touches(b, u, {"phy"}, {}) /\ u.phy = new
  BY <1>5, PhyEffect
<1> HIDE DEF u
<1>7. Retunes(s, u)
  BY <1>4, <1>6 DEF Retunes, Spares, Touches
<1> QED BY <1>4, <1>6, <1>7 DEF u

-----------------------------------------------------------------------------
(* Single calls *)

\* A call is put down.
LEMMA CallIs ==
  ASSUME NEW s \in Station, NEW op \in {"alloc", "free", "send"}, NEW slot \in Slots
  PROVE  LET u == PoolCall(s, op, slot)
         IN  /\ Touches(s, u, {"calls"}, {}) /\ u.calls = Append(s.calls, <<op, slot>>)
             /\ <<op, slot>> \in PoolCalls
<1>1. PoolCall(s, op, slot).calls = Append(s.calls, <<op, slot>>)
  BY DEF PoolCall, Station
<1> QED BY <1>1, PoolEffect DEF PoolCalls

\* The pointers of TXC and RXC are as before.
SamePackets(s, u) ==
    u.id = s.id /\ u.pDATA = s.pDATA /\ u.pRTS = s.pRTS /\ u.pCTRL = s.pCTRL

\* So they are after a step that touches none of them.
LEMMA SparesSame ==
  ASSUME NEW s, NEW u, Spares(s, u)
  PROVE  u \in Station /\ SamePackets(s, u) /\ u.phy = s.phy
BY DEF Spares, Touches, Fields, Booked, SamePackets

\* The fields that matter after a step that changes only some of them.
LEMMA BookedFields ==
  ASSUME NEW s, NEW u, NEW F, NEW T, Touches(s, u, F, T),
         F \subseteq (Fields \ Booked) \cup {"calls"}, "tX" \notin T
  PROVE  /\ u \in Station /\ u.id = s.id /\ u.phy = s.phy /\ u.pDATA = s.pDATA
         /\ u.pRTS = s.pRTS /\ u.pCTRL = s.pCTRL /\ u.out = s.out
         /\ u.timer["tX"] = s.timer["tX"] /\ Ours(u) = Ours(s)
<1>1. /\ u \in Station /\ u.id = s.id /\ u.phy = s.phy /\ u.pDATA = s.pDATA
      /\ u.pRTS = s.pRTS /\ u.pCTRL = s.pCTRL /\ u.out = s.out
      /\ u.timer["tX"] = s.timer["tX"]
  BY TimerNames DEF Touches, Fields, Booked
<1> QED BY <1>1, Zenon DEF Ours

\* What is left of Tidy where none of its other fields changes.
LEMMA TidyRest ==
  ASSUME NEW o, NEW X, NEW s \in Tidy(o, X), NEW u \in Station,
         u.id = s.id, u.phy = s.phy, u.pDATA = s.pDATA, u.pRTS = s.pRTS, u.pCTRL = s.pCTRL,
         u.out = s.out, u.timer["tX"] = s.timer["tX"]
  PROVE  /\ Made(u, u.pDATA) /\ Made(u, u.pRTS) /\ Made(u, u.pCTRL)
         /\ u.phy # "TXing" => u.timer["tX"] = TimerIdle
         /\ u.out # NoFrame => Launched(u)
         /\ o.phy = "TXing" =>
              u.phy = "TXing" /\ u.timer["tX"] = o.timer["tX"] /\ u.out = NoFrame
<1>1. Made(u, u.pDATA) /\ Made(u, u.pRTS) /\ Made(u, u.pCTRL)
  BY DEF Tidy, Made
<1>2. u.out # NoFrame => Launched(u)
  BY DEF Tidy, Launched
<1> QED BY <1>1, <1>2, Zenon DEF Tidy

\* The handler takes a packet into its hands.
LEMMA TidyAlloc ==
  ASSUME NEW o, NEW X, NEW s \in Tidy(o, X), NEW slot \in Slots,
         slot \notin Ours(s), slot \notin X
  PROVE  Alloc(s, slot) \in Tidy(o, X \cup {slot})
<1> DEFINE u == Alloc(s, slot)
           c == <<"alloc", slot>>
           Y == X \cup {slot}
<1>0. s \in Station /\ X \subseteq Slots
  BY Zenon DEF Tidy
<1>1. Touches(s, u, {"calls"}, {}) /\ u.calls = Append(s.calls, c) /\ c \in PoolCalls
  BY <1>0, CallIs DEF Alloc
<1>2. c[1] = "alloc" /\ c[2] = slot
  OBVIOUS
<1> HIDE DEF u, c
<1>3. /\ u \in Station /\ u.id = s.id /\ u.phy = s.phy /\ u.pDATA = s.pDATA
      /\ u.pRTS = s.pRTS /\ u.pCTRL = s.pCTRL /\ u.out = s.out
      /\ u.timer["tX"] = s.timer["tX"] /\ Ours(u) = Ours(s)
  <2>1. {"calls"} \subseteq (Fields \ Booked) \cup {"calls"} /\ "tX" \notin {}
    OBVIOUS
  <2> QED BY <1>1, <2>1, BookedFields, Zenon
<1>4. Y \in SUBSET Slots /\ Ours(u) \cap Y = {}
  BY <1>0, <1>3 DEF Tidy
<1>5. Legal(Ledger(s, X), c, Ledger(u, Y))
  BY <1>2, <1>3 DEF Legal, Ledger
<1>6. u \in Tidy(o, Y)
  BY <1>1, <1>3, <1>4, <1>5, TidyRest, TidyCall
<1> QED BY <1>6 DEF u

\* The handler frees one it has in its hands.
LEMMA TidyFree ==
  ASSUME NEW o, NEW X, NEW s \in Tidy(o, X), NEW slot \in X
  PROVE  Free(s, slot) \in Tidy(o, X \ {slot})
<1> DEFINE u == Free(s, slot)
           c == <<"free", slot>>
           Y == X \ {slot}
<1>0. s \in Station /\ X \subseteq Slots /\ Ours(s) \cap X = {}
  BY Zenon DEF Tidy
<1>a. slot \in Slots
  BY <1>0
<1>1. Touches(s, u, {"calls"}, {}) /\ u.calls = Append(s.calls, c) /\ c \in PoolCalls
  BY <1>0, <1>a, CallIs DEF Free
<1>2. c[1] = "free" /\ c[2] = slot
  OBVIOUS
<1> HIDE DEF u, c
<1>3. /\ u \in Station /\ u.id = s.id /\ u.phy = s.phy /\ u.pDATA = s.pDATA
      /\ u.pRTS = s.pRTS /\ u.pCTRL = s.pCTRL /\ u.out = s.out
      /\ u.timer["tX"] = s.timer["tX"] /\ Ours(u) = Ours(s)
  <2>1. {"calls"} \subseteq (Fields \ Booked) \cup {"calls"} /\ "tX" \notin {}
    OBVIOUS
  <2> QED BY <1>1, <2>1, BookedFields, Zenon
<1>4. Y \in SUBSET Slots /\ Ours(u) \cap Y = {}
  BY <1>0, <1>3
<1>5. Legal(Ledger(s, X), c, Ledger(u, Y))
  <2>1. Ours(u) \cup Y = (Ours(s) \cup X) \ {slot}
    BY <1>0, <1>3
  <2> QED BY <1>2, <1>3, <2>1 DEF Legal, Ledger
<1>6. u \in Tidy(o, Y)
  BY <1>1, <1>3, <1>4, <1>5, TidyRest, TidyCall
<1> QED BY <1>6 DEF u

-----------------------------------------------------------------------------
(* A transmission *)

\* WirelessPhy::setState to TXing after a reception was given up: the packet of
\* the PHY is freed.
LEMMA AbortTidy ==
  ASSUME NEW o, NEW X, NEW s \in Tidy(o, X), NEW in,
         s.phy # "TXing"
  PROVE  LET b == SetState(AbortReception(s), "TXing", in)
         IN  b \in Tidy(o, X) /\ b.phy = "TXing" /\ b.timer["tX"] = TimerIdle /\ SamePackets(s, b)
             /\ b.out = NoFrame
<1> DEFINE a == AbortReception(s)
           b == SetState(a, "TXing", in)
           c == <<"free", "pktRX">>
<1>0. /\ s \in Station /\ "rX" \in Timers \ {"tX"} /\ "preRX" \in Timers \ {"tX"} /\ 0 \in Int
      /\ "TXing" \in PhyStates /\ "pktRX" \in Slots /\ s.phy \in PhyStates
  BY SlotsType DEF Tidy, Station, Timers, PhyTimers, PhyStates
<1>2. ASSUME a \in Station
      PROVE  Touches(a, b, (Fields \ Booked) \cup {"phy"}, Timers \ {"tX"}) /\ b.phy = "TXing"
  <2>1. Retunes(a, b) /\ b.phy = "TXing"
    <3> HIDE DEF a
    <3> QED BY <1>0, <1>2, SetStateSpares
  <2> HIDE DEF b
  <2> QED BY <2>1 DEF Retunes
<1>3. o.phy # "TXing" /\ s.out = NoFrame /\ s.timer["tX"] = TimerIdle
  BY DEF Tidy, Launched
<1>4. CASE s.phy \in {"RXing", "PreRXing"}
  <2>1. ASSUME NEW t \in {"rX", "preRX"},
               a = [Free(Cancel(s, t), "pktRX") EXCEPT !.pktRX = NoFrame]
        PROVE  Touches(s, a, (Fields \ Booked) \cup {"calls"}, Timers \ {"tX"})
               /\ a.calls = Append(s.calls, c)
    <3> DEFINE k == Cancel(s, t)
               f == Free(k, "pktRX")
               r == [f EXCEPT !.pktRX = NoFrame]
    <3>1. Spares(s, k)
      BY <1>0, TimerSpares
    <3> HIDE DEF k
    <3>2. k \in Station /\ k.calls = s.calls
      BY <3>1 DEF Spares, Touches, Fields, Booked
    <3>3. Touches(k, f, {"calls"}, {}) /\ f.calls = Append(k.calls, c)
      BY <1>0, <3>2, CallIs DEF Free
    <3> HIDE DEF f, c
    <3>4. Touches(f, r, {"pktRX"}, {})
      BY <3>3, PktEffect DEF Touches
    <3>5. a = r
      BY <2>1 DEF f, k
    <3> HIDE DEF r, a
    <3>6. Touches(s, r, (Fields \ Booked) \cup {"calls"}, Timers \ {"tX"})
      BY <3>1, <3>3, <3>4 DEF Spares, Touches, Fields, Booked
    <3>7. r.calls = f.calls
      BY <3>4 DEF Touches, Fields
    <3> QED BY <3>2, <3>3, <3>5, <3>6, <3>7
  <2>2. Touches(s, a, (Fields \ Booked) \cup {"calls"}, Timers \ {"tX"})
        /\ a.calls = Append(s.calls, c)
    <3>1. CASE s.phy = "RXing"
      BY <2>1, <3>1 DEF AbortReception
    <3>2. CASE s.phy = "PreRXing"
      BY <2>1, <3>2 DEF AbortReception
    <3> QED BY <1>4, <3>1, <3>2
  <2> HIDE DEF a, b
  <2>9. Touches(a, b, (Fields \ Booked) \cup {"phy"}, Timers \ {"tX"}) /\ b.phy = "TXing"
    <3>1. a \in Station
      BY <2>2 DEF Touches
    <3> QED BY <1>2, <3>1
  <2>3. /\ b \in Station /\ b.id = s.id /\ b.pDATA = s.pDATA /\ b.pRTS = s.pRTS
        /\ b.pCTRL = s.pCTRL /\ b.out = s.out /\ b.timer["tX"] = s.timer["tX"]
        /\ b.calls = Append(s.calls, c)
    BY <2>9, <2>2, TimerNames DEF Touches, Fields, Booked
  <2>4. Ours(b) = Ours(s) \ {"pktRX"} /\ "pktRX" \in Ours(s)
    BY <2>9, <1>4, <2>3 DEF Ours, Kept
  <2>5. /\ c \in PoolCalls /\ c[1] = "free" /\ c[2] = "pktRX" /\ X \in SUBSET Slots
        /\ Ours(s) \cap X = {}
    BY <1>0 DEF PoolCalls, Tidy
  <2> HIDE DEF c
  <2>6. Legal(Ledger(s, X), c, Ledger(b, X)) /\ Ours(b) \cap X = {}
    BY <2>3, <2>4, <2>5 DEF Legal, Ledger
  <2>7. Made(b, b.pDATA) /\ Made(b, b.pRTS) /\ Made(b, b.pCTRL)
    BY <2>3 DEF Tidy, Made
  <2>8. b \in Tidy(o, X)
    BY <2>9, <1>3, <2>3, <2>5, <2>6, <2>7, TidyCall
  <2> QED BY <2>9, <1>3, <2>3, <2>8 DEF a, b, SamePackets
<1>5. CASE s.phy = "SEARCHING"
  <2>1. a = s
    BY <1>5 DEF AbortReception
  <2> HIDE DEF a, b
  <2>9. Touches(a, b, (Fields \ Booked) \cup {"phy"}, Timers \ {"tX"}) /\ b.phy = "TXing"
    <3>1. a \in Station
      BY <1>0, <2>1
    <3> QED BY <1>2, <3>1
  <2>2. /\ b \in Station /\ b.id = s.id /\ b.pDATA = s.pDATA /\ b.pRTS = s.pRTS
        /\ b.pCTRL = s.pCTRL /\ b.out = s.out /\ b.timer["tX"] = s.timer["tX"]
        /\ b.calls = s.calls
    BY <2>9, <2>1, TimerNames DEF Touches, Fields, Booked
  <2>3. Ours(b) = Ours(s)
    BY <2>9, <1>5, <2>2 DEF Ours
  <2>4. Ledger(b, X) = Ledger(s, X)
    BY <2>2, <2>3 DEF Ledger
  <2>5. Made(b, b.pDATA) /\ Made(b, b.pRTS) /\ Made(b, b.pCTRL)
    BY <2>2 DEF Tidy, Made
  <2>6. b \in Tidy(o, X)
    BY <2>9, <1>3, <2>2, <2>3, <2>4, <2>5, Zenon DEF Tidy
  <2> QED BY <2>9, <1>3, <2>2, <2>6 DEF a, b, SamePackets
<1> QED BY <1>0, <1>4, <1>5 DEF PhyStates

\* WirelessPhy::sendDown hands the copy to the channel.
LEMMA SendDownTidy ==
  ASSUME NEW o, NEW X, NEW s \in Tidy(o, X), NEW p \in Frame, p # NoFrame, NEW in,
         s.phy # "TXing", "sent" \in X, Made(s, p)
  PROVE  /\ SendDown(s, p, in) \in Tidy(o, X \ {"sent"})
         /\ SamePackets(s, SendDown(s, p, in))
<1> DEFINE d == TxTime(p.len) + PropagationDelay(p)
           b == SetState(AbortReception(s), "TXing", in)
           t == Sched(b, "tX", d)
           e == PoolCall(t, "send", "sent")
           u == [e EXCEPT !.out = p]
           c == <<"send", "sent">>
           Y == X \ {"sent"}
<1>0. "tX" \in Timers /\ "sent" \in Slots
  BY SlotsType DEF Timers, PhyTimers
<1>1. /\ b \in Tidy(o, X) /\ b.phy = "TXing" /\ b.timer["tX"] = TimerIdle /\ SamePackets(s, b)
      /\ b.out = NoFrame
  BY AbortTidy
<1>2. d \in Int
  <2>1. p.len \in Nat
    BY FrameFields
  <2>2. TxTime(p.len) \in Nat /\ PropagationDelay(p) \in Nat
    BY <2>1, AirTime, DelayType
  <2> QED BY <2>2
<1>3. SendDown(s, p, in) = u
  BY DEF SendDown
<1> HIDE DEF b
<1>4. b \in Station
  BY <1>1 DEF Tidy
<1>5. Touches(b, t, {}, {"tX"}) /\ t.timer["tX"] = d
  <2> HIDE DEF d
  <2> QED BY <1>0, <1>1, <1>2, <1>4, SchedEffect
<1> HIDE DEF t
<1>6. Touches(t, e, {"calls"}, {}) /\ e.calls = Append(t.calls, c) /\ c \in PoolCalls
  BY <1>0, <1>5, CallIs DEF Touches
<1>7. c[1] = "send" /\ c[2] = "sent"
  OBVIOUS
<1> HIDE DEF e, c
<1>8. Touches(e, u, {"out"}, {}) /\ u.out = p
  BY <1>6, OutEffect DEF Touches
<1> HIDE DEF u
<1>18. SamePackets(s, u)
  BY <1>1, <1>5, <1>6, <1>8 DEF Touches, Fields, SamePackets
<1>9. /\ u \in Station /\ u.id = s.id /\ u.phy = "TXing" /\ u.pDATA = b.pDATA
      /\ u.pRTS = b.pRTS /\ u.pCTRL = b.pCTRL /\ u.timer["tX"] = d
      /\ u.calls = Append(b.calls, c)
  BY <1>0, <1>1, <1>5, <1>6, <1>8 DEF Touches, Fields, SamePackets
<1>10. Ours(u) = Ours(b)
  BY <1>1, <1>9 DEF Ours
<1>11. Ours(b) \cap X = {} /\ X \subseteq Slots
  BY <1>1, Zenon DEF Tidy
<1>12. Y \in SUBSET Slots /\ Ours(u) \cap Y = {} /\ Ours(u) \cup Y = (Ours(b) \cup X) \ {"sent"}
  BY <1>10, <1>11
<1>13. Legal(Ledger(b, X), c, Ledger(u, Y))
  BY <1>1, <1>7, <1>8, <1>12 DEF Legal, Ledger
<1>14. Made(u, u.pDATA) /\ Made(u, u.pRTS) /\ Made(u, u.pCTRL)
  BY <1>1, <1>9 DEF Tidy, Made, SamePackets
<1>15. Launched(u)
  BY <1>8, <1>9 DEF Launched, Made
<1>16. o.phy # "TXing"
  BY DEF Tidy
<1>17. u \in Tidy(o, Y)
  BY <1>1, <1>6, <1>9, <1>12, <1>13, <1>14, <1>15, <1>16, TidyCall
<1> QED BY <1>3, <1>17, <1>18
\* Mac802_11::transmit.
LEMMA TransmitTidy ==
  ASSUME NEW o, NEW X, NEW s \in Tidy(o, X), NEW p \in Frame, p # NoFrame,
         NEW who \in {"TXC", "RXC"}, NEW in, s.phy # "TXing", "sent" \notin X, Made(s, p)
  PROVE  Transmit(s, p, who, in) \in Tidy(o, X) /\ SamePackets(s, Transmit(s, p, who, in))
<1> DEFINE r == [s EXCEPT !.confirm = who]
           a == Alloc(r, "sent")
           u == SendDown(a, p, in)
<1>0. s \in Station /\ "sent" \in Slots /\ "sent" \notin Kept
  BY SlotsType DEF Tidy, Kept
<1>1. Spares(s, r)
  BY <1>0, FieldSpares
<1>2. Transmit(s, p, who, in) = u
  BY DEF Transmit
<1> HIDE DEF r
<1>3. r \in Tidy(o, X) /\ r \in Station /\ SamePackets(s, r) /\ r.phy = s.phy
  BY <1>1, TidySpared, SparesSame
<1>4. a \in Tidy(o, X \cup {"sent"})
  <2>1. "sent" \notin Ours(r)
    BY <1>0 DEF Ours
  <2> QED BY <1>0, <1>3, <2>1, TidyAlloc
<1>5. SamePackets(r, a) /\ a.phy = r.phy
  <2>1. Touches(r, a, {"calls"}, {})
    BY <1>0, <1>3, CallIs DEF Alloc
  <2> QED BY <2>1 DEF Touches, Fields, SamePackets
<1> HIDE DEF a
<1>6. Made(a, p)
  BY <1>3, <1>5 DEF Made, SamePackets
<1>7. a.phy # "TXing" /\ "sent" \in X \cup {"sent"} /\ (X \cup {"sent"}) \ {"sent"} = X
  BY <1>3, <1>5
<1>8. u \in Tidy(o, (X \cup {"sent"}) \ {"sent"}) /\ SamePackets(a, u)
  <2> DEFINE Y == X \cup {"sent"}
  <2>1. a \in Tidy(o, Y) /\ "sent" \in Y
    BY <1>4, <1>7
  <2> HIDE DEF Y
  <2>2. SendDown(a, p, in) \in Tidy(o, Y \ {"sent"}) /\ SamePackets(a, SendDown(a, p, in))
    BY <1>6, <1>7, <2>1, SendDownTidy
  <2> QED BY <2>2 DEF Y
<1>9. u \in Tidy(o, X)
  BY <1>7, <1>8
<1> QED BY <1>2, <1>3, <1>5, <1>8, <1>9 DEF SamePackets

-----------------------------------------------------------------------------
(* Backoff *)

\* On a channel that is idle, or will be, the PHY does not transmit.
Clear(s) == s.ch \in {"noCSnoNAV", "WIFS"} => s.phy # "TXing"

\* So it is wherever PHY and channel state agree.
LEMMA SoundClear ==
  ASSUME NEW n, NEW h, NEW s \in Sound(n, h)
  PROVE  Clear(s)
BY DEF Sound, Clear

\* A step that spares the books leaves them in order, and the pointers alone.
LEMMA SparedTidy ==
  ASSUME NEW o, NEW X, NEW s \in Tidy(o, X), NEW u, Spares(s, u)
  PROVE  u \in Tidy(o, X) /\ u \in Station /\ SamePackets(s, u) /\ u.phy = s.phy
BY TidySpared, SparesSame

\* Pointers that are the same twice.
LEMMA SameThen ==
  ASSUME NEW s, NEW t, NEW u, SamePackets(s, t), SamePackets(t, u)
  PROVE  SamePackets(s, u)
BY DEF SamePackets

\* Tidy stations are stations, of TXC and RXC frames.
LEMMA TidyType ==
  ASSUME NEW o, NEW X, NEW s \in Tidy(o, X)
  PROVE  /\ s \in Station /\ s.pDATA \in Frame /\ s.pRTS \in Frame /\ s.pCTRL \in Frame
         /\ Made(s, s.pDATA) /\ Made(s, s.pRTS) /\ Made(s, s.pCTRL)
<1>1. s \in Station /\ Made(s, s.pDATA) /\ Made(s, s.pRTS) /\ Made(s, s.pCTRL)
  BY Zenon DEF Tidy
<1> QED BY <1>1 DEF Station

\* Mac802_11::transmit of a packet TXC holds, or of the null pointer.
LEMMA SendHeldTidy ==
  ASSUME NEW o, NEW X, NEW s \in Tidy(o, X), NEW p \in {s.pDATA, s.pRTS}, NEW in,
         s.phy # "TXing", "sent" \notin X, NEW c \in TXCStates
  PROVE  LET u == [Transmit(s, p, "TXC", in) EXCEPT !.txc = c]
         IN  u \in Tidy(o, X) /\ SamePackets(s, u)
<1> DEFINE t == Transmit(s, p, "TXC", in)
           u == [t EXCEPT !.txc = c]
<1>0. s \in Station /\ p \in Frame /\ Made(s, p)
  BY TidyType
<1>1. t \in Tidy(o, X) /\ SamePackets(s, t)
  <2>1. CASE p = NoFrame
    <3>1. t = Exit(s)
      BY <2>1 DEF Transmit
    <3> HIDE DEF t
    <3> QED BY <1>0, <3>1, FaultSpares, SparedTidy
  <2>2. CASE p # NoFrame
    BY <1>0, <2>2, TransmitTidy
  <2> QED BY <2>1, <2>2
<1> HIDE DEF t
<1>2. t \in Station
  BY <1>1, TidyType
<1>3. Spares(t, u)
  BY <1>2, FieldSpares
<1> HIDE DEF u
<1>4. u \in Tidy(o, X) /\ SamePackets(s, u)
  BY <1>1, <1>3, SparedTidy, SameThen
<1> QED BY <1>4 DEF t, u

\* TXC::handleBKDone.
LEMMA BKDoneTidy ==
  ASSUME NEW o, NEW X, NEW s \in Tidy(o, X), NEW in, s.phy # "TXing", "sent" \notin X
  PROVE  HandleBKDone(s, in) \in Tidy(o, X) /\ SamePackets(s, HandleBKDone(s, in))
<1> DEFINE u == HandleBKDone(s, in)
<1>0. s \in Station
  BY TidyType
<1>1. CASE s.txc = "RTS_pending"
  <2>1. u = [Transmit(s, s.pRTS, "TXC", in) EXCEPT !.txc = "wait_RTSsent"]
    BY <1>1 DEF HandleBKDone
  <2>2. "wait_RTSsent" \in TXCStates
    BY DEF TXCStates
  <2> HIDE DEF u
  <2>3. u \in Tidy(o, X) /\ SamePackets(s, u)
    BY <2>1, <2>2, SendHeldTidy
  <2> QED BY <2>3 DEF u
<1>2. CASE s.txc = "DATA_pending"
  <2>1. u = [Transmit(s, s.pDATA, "TXC", in) EXCEPT !.txc = "wait_PDUsent"]
    BY <1>2 DEF HandleBKDone
  <2>2. "wait_PDUsent" \in TXCStates
    BY DEF TXCStates
  <2> HIDE DEF u
  <2>3. u \in Tidy(o, X) /\ SamePackets(s, u)
    BY <2>1, <2>2, SendHeldTidy
  <2> QED BY <2>3 DEF u
<1>3. CASE s.txc \notin {"RTS_pending", "DATA_pending"}
  <2>1. u = s \/ u = LogicError(s)
    BY <1>3 DEF HandleBKDone
  <2> HIDE DEF u
  <2>2. u \in Tidy(o, X) /\ SamePackets(s, u)
    BY <1>0, <2>1, FaultSpares, SparedTidy
  <2> QED BY <2>2 DEF u
<1> QED BY <1>1, <1>2, <1>3

\* The slots of the backoff timer are none of it.
LEMMA SlotsSpares ==
  ASSUME NEW s \in Station, NEW k \in Int
  PROVE  Spares(s, [s EXCEPT !.slots = k])
<1> DEFINE u == [s EXCEPT !.slots = k]
<1>1. u \in Station /\ u.timer = s.timer /\ \A f \in Fields \ {"slots"} : u[f] = s[f]
  BY DEF Station, Fields
<1> HIDE DEF u
<1>2. Spares(s, u)
  BY <1>1 DEF Spares, Touches, Fields, Booked
<1> QED BY <1>2 DEF u

\* BackoffMgr::handleBackoffTimer.
LEMMA BackoffTimerTidy ==
  ASSUME NEW o, NEW X, NEW s \in Tidy(o, X), NEW in, s.phy # "TXing", "sent" \notin X
  PROVE  HandleBackoffTimer(s, in) \in Tidy(o, X) /\ SamePackets(s, HandleBackoffTimer(s, in))
<1> DEFINE u == HandleBackoffTimer(s, in)
           r == [s EXCEPT !.bk = "noBackoff"]
<1>0. s \in Station /\ "noBackoff" \in BackoffStates
  BY TidyType DEF BackoffStates
<1>1. Spares(s, r)
  BY <1>0, FieldSpares
<1>2. u = HandleBKDone(r, in) \/ u = Exit(s)
  BY DEF HandleBackoffTimer
<1> HIDE DEF u, r
<1>3. u \in Tidy(o, X) /\ SamePackets(s, u)
  BY <1>0, <1>1, <1>2, FaultSpares, SparedTidy, BKDoneTidy, SameThen
<1> QED BY <1>3 DEF u

\* BackoffTimer_t::run and expire.
LEMMA BackoffRunTidy ==
  ASSUME NEW o, NEW X, NEW s \in Tidy(o, X), NEW in, s.phy # "TXing", "sent" \notin X
  PROVE  /\ BackoffTimerRun(s, in) \in Tidy(o, X) /\ SamePackets(s, BackoffTimerRun(s, in))
         /\ BackoffTimerExpire(s, in) \in Tidy(o, X) /\ SamePackets(s, BackoffTimerExpire(s, in))
<1> DEFINE u == HandleBackoffTimer([s EXCEPT !.slots = -1], in)
           r == [s EXCEPT !.slots = -1]
           b == [s EXCEPT !.started = TRUE]
           q == Sched(b, "bk", s.slots * SlotTime)
<1>0. s \in Station /\ -1 \in Int /\ "bk" \in Timers \ {"tX"} /\ s.slots * SlotTime \in Int
  <2>1. s \in Station /\ -1 \in Int /\ "bk" \in Timers \ {"tX"}
    BY TidyType DEF Timers, MacTimers
  <2>2. s.slots \in Int
    BY <2>1 DEF Station
  <2>3. s.slots * SlotTime \in Int
    BY <2>2, TimingAssumption
  <2> QED BY <2>1, <2>3
<1>1. Spares(s, r) /\ Spares(s, b)
  BY <1>0, FieldSpares, SlotsSpares
<1>2. u = HandleBackoffTimer(r, in)
  OBVIOUS
<1>3. /\ BackoffTimerRun(s, in) = u \/ BackoffTimerRun(s, in) = q
      /\ BackoffTimerExpire(s, in) = u
  BY DEF BackoffTimerRun, BackoffTimerExpire
<1> HIDE DEF u, r, b
<1>4. u \in Tidy(o, X) /\ SamePackets(s, u)
  BY <1>1, <1>2, SparedTidy, BackoffTimerTidy, SameThen
<1>5. Spares(s, q)
  BY <1>0, <1>1, SparesSame, TimerSpares, SparesThen
<1> HIDE DEF q
<1> QED BY <1>3, <1>4, <1>5, SparedTidy

\* BackoffMgr::handleCSIDLE.
LEMMA CSIdleTidy ==
  ASSUME NEW o, NEW X, NEW s \in Tidy(o, X), NEW in, s.phy # "TXing", "sent" \notin X
  PROVE  HandleCSIDLE(s, in) \in Tidy(o, X) /\ SamePackets(s, HandleCSIDLE(s, in))
<1> DEFINE u == HandleCSIDLE(s, in)
           r == [s EXCEPT !.bk = "BackoffRunning"]
<1>0. s \in Station /\ "BackoffRunning" \in BackoffStates
  BY TidyType DEF BackoffStates
<1>1. Spares(s, r)
  BY <1>0, FieldSpares
<1>2. u = BackoffTimerRun(r, in) \/ u = Exit(s) \/ u = s
  BY DEF HandleCSIDLE
<1> HIDE DEF u, r
<1>3. u \in Tidy(o, X) /\ SamePackets(s, u)
  BY <1>0, <1>1, <1>2, FaultSpares, SparedTidy, BackoffRunTidy, SameThen
<1> QED BY <1>3 DEF u

\* ChannelStateMgr::handleIFSTimer: in an IFS the PHY does not transmit.
LEMMA IFSTimerTidy ==
  ASSUME NEW o, NEW X, NEW s \in Tidy(o, X), NEW in, Clear(s), "sent" \notin X
  PROVE  HandleIFSTimer(s, in) \in Tidy(o, X) /\ SamePackets(s, HandleIFSTimer(s, in))
<1> DEFINE u == HandleIFSTimer(s, in)
           r == [s EXCEPT !.ch = "noCSnoNAV"]
<1>0. s \in Station /\ "noCSnoNAV" \in ChannelStates
  BY TidyType DEF ChannelStates
<1>1. Spares(s, r)
  BY <1>0, FieldSpares
<1>2. (u = HandleCSIDLE(r, in) /\ s.phy # "TXing") \/ u = Exit(s)
  BY DEF HandleIFSTimer, Clear
<1> HIDE DEF u, r
<1>3. u \in Tidy(o, X) /\ SamePackets(s, u)
  BY <1>0, <1>1, <1>2, FaultSpares, SparedTidy, CSIdleTidy, SameThen
<1> QED BY <1>3 DEF u

\* BackoffMgr::handleBKStart: on an idle channel the PHY does not transmit.
LEMMA BKStartTidy ==
  ASSUME NEW o, NEW X, NEW s \in Tidy(o, X), NEW in \in AnyInput, Clear(s), "sent" \notin X
  PROVE  HandleBKStart(s, in) \in Tidy(o, X) /\ SamePackets(s, HandleBKStart(s, in))
<1> DEFINE u == HandleBKStart(s, in)
           k == in.draw % (s.cw + 1)
           t == BackoffTimerInit(s, in)
           q == [t EXCEPT !.bk = "BackoffPause"]
           r == [t EXCEPT !.bk = "BackoffRunning"]
<1>0. s \in Station /\ "BackoffRunning" \in BackoffStates /\ "BackoffPause" \in BackoffStates
  BY TidyType DEF BackoffStates
<1>1. Spares(s, t)
  <2>1. k \in Int
    BY <1>0 DEF Station, AnyInput
  <2>2. t = [s EXCEPT !.slots = k, !.started = FALSE]
    BY DEF BackoffTimerInit
  <2> HIDE DEF k, t
  <2> QED BY <1>0, <2>1, <2>2, FieldSpares
<1>2. \/ u = s \/ u = q
      \/ s.phy # "TXing" /\ (u = HandleBKDone(t, in) \/ u = BackoffTimerRun(r, in))
  BY DEF HandleBKStart, Clear
<1> HIDE DEF t
<1>3. t \in Tidy(o, X) /\ t \in Station /\ SamePackets(s, t) /\ t.phy = s.phy
  BY <1>1, SparedTidy
<1>4. Spares(t, q) /\ Spares(t, r)
  BY <1>0, <1>3, FieldSpares
<1> HIDE DEF u, q, r
<1>5. CASE u = s
  <2>1. s \in Tidy(o, X) /\ SamePackets(s, s)
    BY DEF SamePackets
  <2> QED BY <1>5, <2>1 DEF u
<1>6. CASE u = q
  <2>1. u \in Tidy(o, X) /\ SamePackets(s, u)
    BY <1>3, <1>4, <1>6, SparedTidy, SameThen
  <2> QED BY <2>1 DEF u
<1>7. CASE s.phy # "TXing" /\ u = HandleBKDone(t, in)
  <2>1. u \in Tidy(o, X) /\ SamePackets(s, u)
    BY <1>3, <1>7, BKDoneTidy, SameThen
  <2> QED BY <2>1 DEF u
<1>8. CASE s.phy # "TXing" /\ u = BackoffTimerRun(r, in)
  <2>1. r \in Tidy(o, X) /\ SamePackets(s, r) /\ r.phy = s.phy
    BY <1>3, <1>4, SparedTidy, SameThen
  <2>2. u \in Tidy(o, X) /\ SamePackets(s, u)
    BY <1>8, <2>1, BackoffRunTidy, SameThen
  <2> QED BY <2>2 DEF u
<1> QED BY <1>2, <1>5, <1>6, <1>7, <1>8

-----------------------------------------------------------------------------
(* Pointers of TXC and RXC *)

\* The pointers of the two coordinations.
MacSlots == {"pDATA", "pRTS", "pCTRL"}

\* A step that sets one of them.
Assigns(s, u, k) == Touches(s, u, (Fields \ Booked) \cup {k, "calls"}, Timers \ {"tX"})

\* What it leaves alone.
LEMMA AssignsIs ==
  ASSUME NEW s, NEW u, NEW k \in MacSlots, Assigns(s, u, k)
  PROVE  /\ u \in Station /\ u.id = s.id /\ u.phy = s.phy /\ u.out = s.out
         /\ u.timer["tX"] = s.timer["tX"]
         /\ \A j \in MacSlots \ {k} : u[j] = s[j]
         /\ \A j \in Kept \ {k} : j \in Ours(u) <=> j \in Ours(s)
         /\ k \in Ours(u) <=> u[k] # NoFrame
         /\ k \in Ours(s) <=> s[k] # NoFrame
<1>1. /\ u \in Station /\ u.id = s.id /\ u.phy = s.phy /\ u.out = s.out
      /\ u.timer["tX"] = s.timer["tX"]
  BY TimerNames DEF Assigns, Touches, Fields, Booked, MacSlots
<1>2. \A j \in MacSlots \ {k} : u[j] = s[j]
  BY DEF Assigns, Touches, Fields, Booked, MacSlots
<1>3. \A j \in Kept \ {k} : j \in Ours(u) <=> j \in Ours(s)
  BY <1>1, <1>2 DEF Ours, Kept, MacSlots
<1>4. /\ k \in Ours(u) <=> u[k] # NoFrame
      /\ k \in Ours(s) <=> s[k] # NoFrame
  BY DEF Ours, Kept, MacSlots
<1> QED BY <1>1, <1>2, <1>3, <1>4

\* What remains of Tidy after it.
LEMMA AssignedTidy ==
  ASSUME NEW o, NEW X, NEW s \in Tidy(o, X), NEW u, NEW k \in MacSlots, Assigns(s, u, k),
         Made(u, u[k])
  PROVE  /\ Made(u, u.pDATA) /\ Made(u, u.pRTS) /\ Made(u, u.pCTRL)
         /\ u.phy # "TXing" => u.timer["tX"] = TimerIdle
         /\ u.out # NoFrame => Launched(u)
         /\ o.phy = "TXing" =>
              u.phy = "TXing" /\ u.timer["tX"] = o.timer["tX"] /\ u.out = NoFrame
<1>1. /\ u.id = s.id /\ u.phy = s.phy /\ u.out = s.out /\ u.timer["tX"] = s.timer["tX"]
      /\ \A j \in MacSlots \ {k} : u[j] = s[j]
  BY AssignsIs
<1>2. Made(s, s.pDATA) /\ Made(s, s.pRTS) /\ Made(s, s.pCTRL)
  BY TidyType
<1>3. Made(u, u.pDATA) /\ Made(u, u.pRTS) /\ Made(u, u.pCTRL)
  <2>1. \A j \in MacSlots : Made(u, u[j])
    <3> SUFFICES ASSUME NEW j \in MacSlots PROVE Made(u, u[j])
      OBVIOUS
    <3>1. CASE j = k
      BY <3>1
    <3>2. CASE j # k
      <4>1. u[j] = s[j] /\ Made(s, s[j])
        BY <1>1, <1>2, <3>2 DEF MacSlots
      <4> QED BY <1>1, <4>1 DEF Made
    <3> QED BY <3>1, <3>2
  <2>2. Made(u, u["pDATA"]) /\ Made(u, u["pRTS"]) /\ Made(u, u["pCTRL"])
    BY <2>1 DEF MacSlots
  <2> QED BY <2>2
<1>4. u.out # NoFrame => Launched(u)
  BY <1>1 DEF Tidy, Launched
<1> QED BY <1>1, <1>3, <1>4, Zenon DEF Tidy

\* A packet is allocated for a pointer that is null.
LEMMA TidyGain ==
  ASSUME NEW o, NEW X, NEW s \in Tidy(o, X), NEW u, NEW k \in MacSlots, Assigns(s, u, k),
         Made(u, u[k]), s[k] = NoFrame, u[k] # NoFrame, k \notin X,
         u.calls = Append(s.calls, <<"alloc", k>>)
  PROVE  u \in Tidy(o, X)
<1> DEFINE c == <<"alloc", k>>
<1>0. X \in SUBSET Slots /\ Ours(s) \cap X = {}
  BY Zenon DEF Tidy
<1>1. c \in PoolCalls /\ c[1] = "alloc" /\ c[2] = k /\ k \in Kept
  BY DEF PoolCalls, Slots, MacSlots, Kept
<1>2. Ours(u) = Ours(s) \cup {k} /\ k \notin Ours(s)
  <2>1. Ours(u) \subseteq Kept /\ Ours(s) \subseteq Kept
    BY LedgerType
  <2> QED BY <1>1, <2>1, AssignsIs
<1>3. Legal(Ledger(s, X), c, Ledger(u, X))
  <2>1. u.out = s.out
    BY AssignsIs
  <2>2. Ours(u) \cup X = (Ours(s) \cup X) \cup {k}
    BY <1>2
  <2> HIDE DEF c
  <2> QED BY <1>1, <1>2, <2>1, <2>2 DEF Legal, Ledger
<1>4. Ours(u) \cap X = {}
  BY <1>0, <1>2
<1>5. u \in Station /\ u.calls = Append(s.calls, c)
  BY AssignsIs
<1> HIDE DEF c
<1> QED BY <1>0, <1>1, <1>3, <1>4, <1>5, AssignedTidy, TidyCall

\* The packet of a pointer is freed, and the pointer set to null.
LEMMA TidyDrop ==
  ASSUME NEW o, NEW X, NEW s \in Tidy(o, X), NEW u, NEW k \in MacSlots, Assigns(s, u, k),
         s[k] # NoFrame, u[k] = NoFrame,
         u.calls = Append(s.calls, <<"free", k>>)
  PROVE  u \in Tidy(o, X)
<1> DEFINE c == <<"free", k>>
<1>0. X \in SUBSET Slots /\ Ours(s) \cap X = {}
  BY Zenon DEF Tidy
<1>1. c \in PoolCalls /\ c[1] = "free" /\ c[2] = k /\ k \in Kept
  BY DEF PoolCalls, Slots, MacSlots, Kept
<1>2. Ours(u) = Ours(s) \ {k} /\ k \in Ours(s)
  <2>1. Ours(u) \subseteq Kept /\ Ours(s) \subseteq Kept
    BY LedgerType
  <2> QED BY <1>1, <2>1, AssignsIs
<1>3. Legal(Ledger(s, X), c, Ledger(u, X))
  <2>1. u.out = s.out
    BY AssignsIs
  <2>2. Ours(u) \cup X = (Ours(s) \cup X) \ {k}
    BY <1>0, <1>2
  <2> HIDE DEF c
  <2> QED BY <1>1, <1>2, <2>1, <2>2 DEF Legal, Ledger
<1>4. Ours(u) \cap X = {}
  BY <1>0, <1>2
<1>5. u \in Station /\ u.calls = Append(s.calls, c)
  BY AssignsIs
<1>6. Made(u, u[k])
  BY DEF Made
<1> HIDE DEF c
<1> QED BY <1>0, <1>1, <1>3, <1>4, <1>5, <1>6, AssignedTidy, TidyCall

\* What is allocated for a pointer and then stored in it.
LEMMA AllocAssigns ==
  ASSUME NEW s \in Station, NEW k \in MacSlots, NEW u, NEW F, F \subseteq (Fields \ Booked) \cup {k},
         Touches(Alloc(s, k), u, F, {})
  PROVE  Assigns(s, u, k) /\ u.calls = Append(s.calls, <<"alloc", k>>)
<1> DEFINE a == Alloc(s, k)
<1>1. k \in Slots /\ k # "calls"
  BY DEF Slots, MacSlots
<1>2. Touches(s, a, {"calls"}, {}) /\ a.calls = Append(s.calls, <<"alloc", k>>)
  BY <1>1, CallIs DEF Alloc
<1>3. Touches(a, u, F, {})
  OBVIOUS
<1> HIDE DEF a
<1>4. u.calls = a.calls
  <2>1. "calls" \in Fields \ F
    BY <1>1 DEF Fields, Booked
  <2> QED BY <1>3, <2>1 DEF Touches
<1>5. Touches(s, u, F \cup {"calls"}, {})
  BY <1>2, <1>3 DEF Touches
<1>6. Assigns(s, u, k)
  <2>1. F \cup {"calls"} \subseteq (Fields \ Booked) \cup {k, "calls"} /\ {} \subseteq Timers \ {"tX"}
    OBVIOUS
  <2> QED BY <1>5, <2>1, TouchesMore DEF Assigns
<1> QED BY <1>2, <1>4, <1>6

\* The control frames a station makes are its own, and none is shorter than an ACK.
LEMMA FramesAreMade ==
  ASSUME NEW s, NEW p
  PROVE  Made(s, RTSFrame(s.id, p)) /\ Made(s, CTSFrame(s.id, p)) /\ Made(s, ACKFrame(s.id, p))
BY DEF Made, RTSFrame, CTSFrame, ACKFrame, RTSlen, CTSlen, ACKlen

-----------------------------------------------------------------------------
(* Service *)

\* TXC::prepareMPDU.
LEMMA PrepareTidy ==
  ASSUME NEW o, NEW X, NEW s \in Tidy(o, X), NEW in \in AnyInput, s.pDATA = NoFrame,
         "pDATA" \notin X
  PROVE  LET u == PrepareMPDU(s, in)
         IN  u \in Tidy(o, X) /\ Touches(s, u, {"pDATA", "seqno", "calls"}, {}) /\ u.pDATA # NoFrame
<1> DEFINE a == Alloc(s, "pDATA")
           p == DataFrame(s.id, in.dst, in.size, s.seqno)
           q == (s.seqno + 1) % SeqMod
           u == [a EXCEPT !.pDATA = p, !.seqno = q]
<1>0. s \in Station /\ s.id \in Nodes /\ s.seqno \in 0 .. SeqMod - 1 /\ "pDATA" \in Slots
      /\ "pDATA" \in MacSlots
  BY TidyType, SlotsType DEF Station, MacSlots
<1>1. p \in Frame /\ p # NoFrame /\ Made(s, p)
  <2>1. in.dst \in Addresses /\ in.size \in Sizes /\ in.size \in Nat
    BY AddressAssumption, SizeAssumption DEF AnyInput
  <2>2. Made(s, p)
    BY <2>1 DEF Made, DataFrame, HdrLen11, ACKlen
  <2>3. p # NoFrame
    BY FramesAreSome
  <2> QED BY <1>0, <2>1, <2>2, <2>3, DataFrameType
<1>2. q \in 0 .. SeqMod - 1
  BY <1>0, SizeAssumption
<1>3. Touches(s, a, {"calls"}, {})
  BY <1>0, FreeEffect
<1>4. a.seqno = s.seqno /\ a.id = s.id /\ a \in Station
  BY <1>3 DEF Touches, Fields
<1>5. PrepareMPDU(s, in) = u
  BY <1>4 DEF PrepareMPDU
<1> HIDE DEF p, q
<1>6. Touches(a, u, {"pDATA", "seqno"}, {}) /\ u.pDATA = p
  <2> HIDE DEF a
  <2> QED BY <1>1, <1>2, <1>4, PacketEffect
<1> HIDE DEF u
<1>7. Assigns(s, u, "pDATA") /\ u.calls = Append(s.calls, <<"alloc", "pDATA">>)
  <2>1. {"pDATA", "seqno"} \subseteq (Fields \ Booked) \cup {"pDATA"}
    BY DEF Fields, Booked
  <2> QED BY <1>0, <1>6, <2>1, AllocAssigns
<1> HIDE DEF a
<1>8. Touches(s, u, {"pDATA", "seqno", "calls"}, {})
  BY <1>3, <1>6 DEF Touches
<1>9. u.id = s.id
  BY <1>8 DEF Touches, Fields
<1>10. u \in Tidy(o, X)
  <2>1. Made(u, u["pDATA"]) /\ s["pDATA"] = NoFrame /\ u["pDATA"] # NoFrame
    BY <1>1, <1>6, <1>9 DEF Made
  <2> QED BY <1>0, <1>7, <2>1, TidyGain
<1> QED BY <1>1, <1>5, <1>6, <1>8, <1>10

\* The RTS of a packet is allocated and stored.
LEMMA RTSTidy ==
  ASSUME NEW o, NEW X, NEW s \in Tidy(o, X), NEW p \in Frame, s.pRTS = NoFrame, "pRTS" \notin X
  PROVE  LET u == [Alloc(s, "pRTS") EXCEPT !.pRTS = RTSFrame(s.id, p)]
         IN  u \in Tidy(o, X) /\ Touches(s, u, {"pRTS", "calls"}, {}) /\ u.pRTS # NoFrame
<1> DEFINE a == Alloc(s, "pRTS")
           f == RTSFrame(s.id, p)
           u == [a EXCEPT !.pRTS = f]
<1>0. s \in Station /\ s.id \in Nodes /\ "pRTS" \in Slots /\ "pRTS" \in MacSlots
  BY TidyType, SlotsType DEF Station, MacSlots
<1>1. f \in Frame /\ f # NoFrame /\ Made(s, f)
  <2> QED BY <1>0, RTSFrameType, FramesAreSome, FramesAreMade
<1>3. Touches(s, a, {"calls"}, {})
  BY <1>0, FreeEffect
<1>4. a \in Station
  BY <1>3 DEF Touches
<1> HIDE DEF f
<1>6. Touches(a, u, {"pRTS"}, {}) /\ u.pRTS = f
  <2> HIDE DEF a
  <2> QED BY <1>1, <1>4, RTSEffect
<1> HIDE DEF u
<1>7. Assigns(s, u, "pRTS") /\ u.calls = Append(s.calls, <<"alloc", "pRTS">>)
  <2>1. {"pRTS"} \subseteq (Fields \ Booked) \cup {"pRTS"}
    OBVIOUS
  <2> QED BY <1>0, <1>6, <2>1, AllocAssigns
<1> HIDE DEF a
<1>8. Touches(s, u, {"pRTS", "calls"}, {})
  BY <1>3, <1>6 DEF Touches
<1>9. u.id = s.id
  BY <1>8 DEF Touches, Fields
<1>10. u \in Tidy(o, X)
  <2>1. Made(u, u["pRTS"]) /\ s["pRTS"] = NoFrame /\ u["pRTS"] # NoFrame
    BY <1>1, <1>6, <1>9 DEF Made
  <2> QED BY <1>0, <1>7, <2>1, TidyGain
<1> QED BY <1>1, <1>6, <1>8, <1>10 DEF u, f, a

\* The end of TXC::handleMsgFromUp.
LEMMA StartServiceTidy ==
  ASSUME NEW o, NEW X, NEW s \in Tidy(o, X), NEW in \in AnyInput, Clear(s), "sent" \notin X
  PROVE  StartService(s, in) \in Tidy(o, X)
<1> DEFINE pending == IF s.pRTS # NoFrame THEN "RTS_pending" ELSE "DATA_pending"
           r == [s EXCEPT !.txc = pending]
           a == [Transmit(s, s.pRTS, "TXC", in) EXCEPT !.txc = "wait_RTSsent"]
           b == [Transmit(s, s.pDATA, "TXC", in) EXCEPT !.txc = "wait_PDUsent"]
           u == StartService(s, in)
<1>0. s \in Station /\ pending \in TXCStates /\ "wait_RTSsent" \in TXCStates
      /\ "wait_PDUsent" \in TXCStates
  BY TidyType DEF TXCStates
<1>1. \/ s.phy # "TXing" /\ (u = a \/ u = b)
      \/ u = HandleBKStart(r, in) \/ u = r
  BY DEF StartService, Clear
<1>2. Spares(s, r)
  <2> HIDE DEF pending
  <2> QED BY <1>0, FieldSpares
<1>3. r.ch = s.ch
  <2> HIDE DEF pending
  <2> QED BY <1>0, TxcEffect DEF Touches, Fields
<1> HIDE DEF r, u
<1>4. r \in Tidy(o, X) /\ Clear(r)
  BY <1>2, <1>3, SparedTidy DEF Clear
<1>5. HandleBKStart(r, in) \in Tidy(o, X)
  BY <1>4, BKStartTidy
<1>6. ASSUME s.phy # "TXing"
      PROVE  a \in Tidy(o, X) /\ b \in Tidy(o, X)
  BY <1>0, <1>6, SendHeldTidy
<1>7. u \in Tidy(o, X)
  BY <1>1, <1>4, <1>5, <1>6
<1> QED BY <1>7 DEF u

\* TXC::handleMsgFromUp.
LEMMA MsgFromUpTidy ==
  ASSUME NEW o, NEW X, NEW s \in Tidy(o, X), NEW in \in AnyInput, Clear(s),
         X \subseteq {"pktRX"}, s.pDATA = NoFrame, s.pRTS = NoFrame
  PROVE  HandleMsgFromUp(s, in) \in Tidy(o, X)
<1> DEFINE a == [s EXCEPT !.callback = TRUE]
           p == PrepareMPDU(a, in)
           r == [Alloc(p, "pRTS") EXCEPT !.pRTS = RTSFrame(p.id, p.pDATA)]
<1>0. s \in Station /\ "pDATA" \notin X /\ "pRTS" \notin X /\ "sent" \notin X
  BY TidyType
<1>1. Touches(s, a, {"callback"}, {})
  BY <1>0, CallbackEffect
<1>2. HandleMsgFromUp(s, in) = StartService(IF NeedsRTS(p.pDATA) THEN r ELSE p, in)
  BY DEF HandleMsgFromUp
<1> HIDE DEF a
<1>3. a \in Tidy(o, X) /\ a.pDATA = NoFrame /\ a.pRTS = NoFrame /\ Clear(a)
  <2>1. Spares(s, a)
    <3>1. {"callback"} \subseteq Fields \ Booked /\ "tX" \notin {}
      BY DEF Fields, Booked
    <3> QED BY <1>1, <3>1, TouchesSpares
  <2>2. a.pDATA = s.pDATA /\ a.pRTS = s.pRTS /\ a.ch = s.ch /\ a.phy = s.phy
    BY <1>1 DEF Touches, Fields
  <2> QED BY <2>1, <2>2, SparedTidy DEF Clear
<1>4. p \in Tidy(o, X) /\ Touches(a, p, {"pDATA", "seqno", "calls"}, {})
  BY <1>0, <1>3, PrepareTidy
<1> HIDE DEF p
<1>5. p.pRTS = NoFrame /\ Clear(p) /\ p.pDATA \in Frame
  <2>1. p.pRTS = a.pRTS /\ p.ch = a.ch /\ p.phy = a.phy
    BY <1>4 DEF Touches, Fields
  <2> QED BY <1>3, <1>4, <2>1, TidyType DEF Clear
<1>6. r \in Tidy(o, X) /\ Touches(p, r, {"pRTS", "calls"}, {})
  BY <1>0, <1>4, <1>5, RTSTidy
<1> HIDE DEF r
<1>7. Clear(r)
  <2>1. r.ch = p.ch /\ r.phy = p.phy
    BY <1>6 DEF Touches, Fields
  <2> QED BY <1>5, <2>1 DEF Clear
<1>8. StartService(r, in) \in Tidy(o, X) /\ StartService(p, in) \in Tidy(o, X)
  BY <1>0, <1>4, <1>5, <1>6, <1>7, StartServiceTidy
<1> QED BY <1>2, <1>8

\* TXC::checkQueue.
LEMMA CheckQueueTidy ==
  ASSUME NEW o, NEW X, NEW s \in Tidy(o, X), NEW in \in AnyInput, Clear(s),
         X \subseteq {"pktRX"}, s.pDATA = NoFrame, s.pRTS = NoFrame
  PROVE  CheckQueue(s, in) \in Tidy(o, X)
<1> DEFINE a == [s EXCEPT !.txc = "Idle", !.callback = FALSE]
<1>0. s \in Station
  BY TidyType
<1>1. Touches(s, a, {"txc", "callback"}, {})
  BY <1>0, IdleQueueEffect
<1>2. CheckQueue(s, in) = HandleMsgFromUp(a, in) \/ CheckQueue(s, in) = a
  BY DEF CheckQueue
<1> HIDE DEF a
<1>3. a \in Tidy(o, X) /\ a.pDATA = NoFrame /\ a.pRTS = NoFrame /\ Clear(a)
  <2>1. Spares(s, a)
    <3>1. {"txc", "callback"} \subseteq Fields \ Booked /\ "tX" \notin {}
      BY DEF Fields, Booked
    <3> QED BY <1>1, <3>1, TouchesSpares
  <2>2. a.pDATA = s.pDATA /\ a.pRTS = s.pRTS /\ a.ch = s.ch /\ a.phy = s.phy
    BY <1>1 DEF Touches, Fields
  <2> QED BY <2>1, <2>2, SparedTidy DEF Clear
<1> QED BY <1>2, <1>3, MsgFromUpTidy

\* Traffic::start.
LEMMA TrafficTidy ==
  ASSUME NEW o, NEW s \in Tidy(o, {}), NEW in \in AnyInput, Clear(s),
         s.pDATA = NoFrame, s.pRTS = NoFrame
  PROVE  TrafficStart(s, in) \in Tidy(o, {})
<1> DEFINE a == [s EXCEPT !.active = TRUE]
<1>0. s \in Station
  BY TidyType
<1>1. Touches(s, a, {"active"}, {})
  BY <1>0 DEF Touches, Fields, Station
<1>2. TrafficStart(s, in) = HandleMsgFromUp(a, in)
  BY DEF TrafficStart
<1> HIDE DEF a
<1>3. a \in Tidy(o, {}) /\ a.pDATA = NoFrame /\ a.pRTS = NoFrame /\ Clear(a)
  <2>1. Spares(s, a)
    <3>1. {"active"} \subseteq Fields \ Booked /\ "tX" \notin {}
      BY DEF Fields, Booked
    <3> QED BY <1>1, <3>1, TouchesSpares
  <2>2. a.pDATA = s.pDATA /\ a.pRTS = s.pRTS /\ a.ch = s.ch /\ a.phy = s.phy
    BY <1>1 DEF Touches, Fields
  <2> QED BY <2>1, <2>2, SparedTidy DEF Clear
<1>4. {} \subseteq {"pktRX"}
  OBVIOUS
<1> QED BY <1>2, <1>3, <1>4, MsgFromUpTidy

-----------------------------------------------------------------------------
(* The handlers of TXC *)

\* A packet is freed, other fields change, and its pointer is set to null.
LEMMA FreeAssigns ==
  ASSUME NEW s \in Station, NEW k \in MacSlots, NEW u, NEW F, NEW T,
         F \subseteq (Fields \ Booked) \cup {k}, "tX" \notin T, Touches(Free(s, k), u, F, T)
  PROVE  Assigns(s, u, k) /\ u.calls = Append(s.calls, <<"free", k>>)
<1> DEFINE a == Free(s, k)
<1>1. k \in Slots /\ k # "calls"
  BY DEF Slots, MacSlots
<1>2. Touches(s, a, {"calls"}, {}) /\ a.calls = Append(s.calls, <<"free", k>>)
  BY <1>1, CallIs DEF Free
<1>3. Touches(a, u, F, T)
  OBVIOUS
<1> HIDE DEF a
<1>4. u.calls = a.calls
  <2>1. "calls" \in Fields \ F
    BY <1>1 DEF Fields, Booked
  <2> QED BY <1>3, <2>1 DEF Touches
<1>5. Assigns(s, u, k)
  <2>1. Touches(s, u, F \cup {"calls"}, T)
    BY <1>2, <1>3 DEF Touches
  <2> QED BY <2>1 DEF Assigns, Touches
<1> QED BY <1>2, <1>4, <1>5

\* The end of a service: a post backoff, and the next packet.
LEMMA NextServiceTidy ==
  ASSUME NEW o, NEW X, NEW n, NEW h, NEW s \in Sound(n, h), s \in Tidy(o, X), NEW in \in AnyInput,
         X \subseteq {"pktRX"}, s.pDATA = NoFrame, s.pRTS = NoFrame
  PROVE  CheckQueue(HandleBKStart(s, in), in) \in Tidy(o, X)
<1> DEFINE b == HandleBKStart(s, in)
<1>1. b \in Tidy(o, X) /\ SamePackets(s, b)
  BY SoundClear, BKStartTidy
<1>2. Clear(b)
  BY BKStartSound, SoundClear
<1> HIDE DEF b
<1>3. b.pDATA = NoFrame /\ b.pRTS = NoFrame
  BY <1>1 DEF SamePackets
<1> QED BY <1>1, <1>2, <1>3, CheckQueueTidy DEF b

\* The packet in service is freed and its pointer set to null.
LEMMA ServedTidy ==
  ASSUME NEW o, NEW X, NEW n, NEW h, NEW s \in Sound(n, h), s \in Tidy(o, X), s.pDATA # NoFrame,
         NEW u, NEW F, Touches(Free(s, "pDATA"), u, F, {}),
         F \subseteq {"pDATA", "short", "long", "cw", "done"}, u.pDATA = NoFrame
  PROVE  u \in Sound(n, h) /\ u \in Tidy(o, X) /\ u.pRTS = s.pRTS
<1> DEFINE a == Free(s, "pDATA")
<1>0. s \in Station /\ "pDATA" \in MacSlots /\ "pDATA" \in Slots
  BY SlotsType DEF Sound, MacSlots
<1>1. Assigns(s, u, "pDATA") /\ u.calls = Append(s.calls, <<"free", "pDATA">>)
  <2>1. F \subseteq (Fields \ Booked) \cup {"pDATA"} /\ "tX" \notin {}
    BY DEF Fields, Booked
  <2> QED BY <1>0, <2>1, FreeAssigns
<1>2. u \in Sound(n, h)
  <2>1. a \in Sound(n, h)
    BY <1>0, AllocFreeSound
  <2>2. Touches(a, u, F, {}) /\ F \cap {"id", "phy", "ch", "bk", "slots", "started"} = {}
    OBVIOUS
  <2> HIDE DEF a
  <2> QED BY <2>1, <2>2, SoundKept
<1>3. u \in Tidy(o, X)
  <2>1. s["pDATA"] # NoFrame /\ u["pDATA"] = NoFrame
    OBVIOUS
  <2> QED BY <1>0, <1>1, <2>1, TidyDrop
<1>4. u["pRTS"] = s["pRTS"]
  BY <1>0, <1>1, AssignsIs DEF MacSlots
<1> QED BY <1>2, <1>3, <1>4

\* TXC is done with its packet.
LEMMA FinishTidy ==
  ASSUME NEW o, NEW X, NEW n, NEW h, NEW s \in Sound(n, h), s \in Tidy(o, X), NEW in \in AnyInput,
         NEW how \in {"acked", "dropped"}, X \subseteq {"pktRX"}, s.pRTS = NoFrame
  PROVE  FinishPacket(s, how, in) \in Tidy(o, X)
<1> DEFINE f == Free(s, "pDATA")
           e == [f EXCEPT !.pDATA = NoFrame, !.short = 0, !.long = 0, !.cw = CWMin,
                          !.done = how]
<1>0. s \in Station /\ f \in Station
  BY AllocFreeSound, SlotsType DEF Sound
<1>1. CASE s.pDATA = NoFrame
  BY <1>0, <1>1, FaultSpares, SparedTidy DEF FinishPacket
<1>2. CASE s.pDATA # NoFrame
  <2>1. FinishPacket(s, how, in) = CheckQueue(HandleBKStart(e, in), in)
    BY <1>2 DEF FinishPacket
  <2>2. Touches(f, e, {"pDATA", "short", "long", "cw", "done"}, {}) /\ e.pDATA = NoFrame
    <3> HIDE DEF f
    <3> QED BY <1>0, ServedEffect
  <2> HIDE DEF e
  <2>3. e \in Sound(n, h) /\ e \in Tidy(o, X) /\ e.pRTS = s.pRTS
    BY <1>2, <2>2, ServedTidy
  <2> QED BY <2>1, <2>2, <2>3, NextServiceTidy
<1> QED BY <1>1, <1>2

\* A response timer is scheduled, and the state of TXC set.
LEMMA AwaitSpares ==
  ASSUME NEW s \in Station, NEW t \in Timers \ {"tX"}, NEW d \in Int, NEW c \in TXCStates
  PROVE  Spares(s, [Sched(s, t, d) EXCEPT !.txc = c])
<1>1. Spares(s, Sched(s, t, d))
  BY TimerSpares
<1>2. Sched(s, t, d) \in Station
  BY <1>1, SparesSame
<1> QED BY <1>1, <1>2, FieldSpares, SparesThen

\* TXC::handleTXConfirm.
LEMMA TXConfirmTidy ==
  ASSUME NEW o, NEW n, NEW h, NEW s \in Sound(n, h), s \in Tidy(o, {}), NEW in \in AnyInput,
         TxcOK(s)
  PROVE  HandleTXConfirm(s, in) \in Tidy(o, {})
<1> DEFINE f == Free(s, "pDATA")
           e == [f EXCEPT !.pDATA = NoFrame, !.done = "sent"]
           u == HandleTXConfirm(s, in)
<1>0. /\ s \in Station /\ f \in Station /\ ACKTimeout \in Int /\ CTSTimeout \in Int
      /\ "txcACK" \in Timers \ {"tX"} /\ "txcCTS" \in Timers \ {"tX"}
      /\ "wait_ACK" \in TXCStates /\ "wait_CTS" \in TXCStates
  BY AllocFreeSound, SlotsType, TimeoutType DEF Sound, Timers, MacTimers, TXCStates
<1>1. \/ u = Exit(s) \/ u = LogicError(s)
      \/ u = [Sched(s, "txcACK", ACKTimeout) EXCEPT !.txc = "wait_ACK"]
      \/ u = [Sched(s, "txcCTS", CTSTimeout) EXCEPT !.txc = "wait_CTS"]
      \/ /\ s.txc = "wait_PDUsent" /\ s.pDATA # NoFrame
         /\ u = CheckQueue(HandleBKStart(e, in), in)
  <2>1. CASE s.pDATA = NoFrame
    <3>1. s.txc = "Idle"
      BY <2>1 DEF TxcOK
    <3>2. u = Exit(s)
      BY <2>1, <3>1 DEF HandleTXConfirm
    <3> QED BY <3>2
  <2>2. CASE s.pDATA # NoFrame /\ s.txc = "wait_PDUsent" /\ s.pDATA.dst # Broadcast
    BY <2>2 DEF HandleTXConfirm
  <2>3. CASE s.pDATA # NoFrame /\ s.txc = "wait_PDUsent" /\ s.pDATA.dst = Broadcast
    <3>1. u = CheckQueue(HandleBKStart(e, in), in)
      BY <2>3 DEF HandleTXConfirm
    <3> QED BY <2>3, <3>1
  <2>4. CASE s.pDATA # NoFrame /\ s.txc = "wait_RTSsent"
    BY <2>4 DEF HandleTXConfirm
  <2>5. CASE s.pDATA # NoFrame /\ s.txc \notin {"wait_PDUsent", "wait_RTSsent"}
    BY <2>5 DEF HandleTXConfirm
  <2> QED BY <2>1, <2>2, <2>3, <2>4, <2>5
<1>2. ASSUME Spares(s, u)
      PROVE  u \in Tidy(o, {})
  <2> HIDE DEF u
  <2> QED BY <1>2, SparedTidy
<1>3. CASE s.txc = "wait_PDUsent" /\ s.pDATA # NoFrame /\ u = CheckQueue(HandleBKStart(e, in), in)
  <2>1. Touches(f, e, {"pDATA", "done"}, {}) /\ e.pDATA = NoFrame
    <3> HIDE DEF f
    <3>1. e \in Station
      BY <1>0, NoFrameType DEF Station
    <3>2. e.pDATA = NoFrame /\ \A k \in Fields \ {"pDATA", "done"} : e[k] = f[k]
      BY <1>0 DEF Station, Fields
    <3>3. \A t \in Timers : e.timer[t] = f.timer[t]
      BY <1>0 DEF Station
    <3> HIDE DEF e
    <3> QED BY <3>1, <3>2, <3>3 DEF Touches
  <2> HIDE DEF e, u
  <2>2. e \in Sound(n, h) /\ e \in Tidy(o, {}) /\ e.pRTS = s.pRTS
    BY <1>3, <2>1, ServedTidy
  <2>3. s.pRTS = NoFrame
    BY <1>3 DEF TxcOK
  <2> QED BY <1>3, <2>1, <2>2, <2>3, NextServiceTidy DEF u
<1> HIDE DEF u
<1> QED BY <1>0, <1>1, <1>2, <1>3, FaultSpares, AwaitSpares DEF u

\* TXC::handleCTSIndication: the RTS has done its work.
LEMMA CTSIndicationTidy ==
  ASSUME NEW o, NEW X, NEW s \in Tidy(o, X), TxcOK(s)
  PROVE  HandleCTSIndication(s) \in Tidy(o, X)
<1> DEFINE f == Free(s, "pRTS")
           k == Cancel(f, "txcCTS")
           e == [k EXCEPT !.pRTS = NoFrame, !.short = 0, !.txc = "wait_SIFS"]
           u == HandleCTSIndication(s)
<1>0. /\ s \in Station /\ "txcCTS" \in Timers \ {"tX"} /\ "txcSIFS" \in Timers \ {"tX"}
      /\ SIFS \in Int /\ "pRTS" \in Slots /\ "pRTS" \in MacSlots /\ 0 \in Int
  BY TidyType, SlotsType, TimingAssumption DEF Timers, MacTimers, MacSlots
<1>1. CASE s.txc # "wait_CTS"
  BY <1>0, <1>1, FaultSpares, SparedTidy DEF HandleCTSIndication
<1>2. CASE s.txc = "wait_CTS"
  <2>1. u = Sched(e, "txcSIFS", SIFS) /\ s.pRTS # NoFrame
    BY <1>2 DEF HandleCTSIndication, TxcOK
  <2>2. f \in Station
    BY <1>0, FreeEffect DEF Touches
  <2>3. Spares(f, k)
    <3> HIDE DEF f
    <3> QED BY <1>0, <2>2, TimerSpares
  <2>4. k \in Station
    BY <2>3, SparesSame
  <2>5. Touches(k, e, {"pRTS", "short", "txc"}, {}) /\ e.pRTS = NoFrame
    <3> HIDE DEF k
    <3>1. e \in Station
      BY <2>4, NoFrameType DEF Station, TXCStates
    <3>2. e.pRTS = NoFrame /\ \A j \in Fields \ {"pRTS", "short", "txc"} : e[j] = k[j]
      BY <2>4 DEF Station, Fields
    <3>3. \A t \in Timers : e.timer[t] = k.timer[t]
      BY <2>4 DEF Station
    <3> HIDE DEF e
    <3> QED BY <3>1, <3>2, <3>3 DEF Touches
  <2> HIDE DEF e, k, u
  <2>6. Touches(f, e, (Fields \ Booked) \cup {"pRTS"}, Timers \ {"tX"})
    BY <2>3, <2>5 DEF Spares, Touches, Fields, Booked
  <2>7. Assigns(s, e, "pRTS") /\ e.calls = Append(s.calls, <<"free", "pRTS">>)
    <3> DEFINE F == (Fields \ Booked) \cup {"pRTS"}
               T == Timers \ {"tX"}
    <3>1. F \subseteq F /\ F = (Fields \ Booked) \cup {"pRTS"} /\ "tX" \notin T /\ Touches(f, e, F, T)
      BY <2>6
    <3> HIDE DEF F, T
    <3> QED BY <1>0, <3>1, FreeAssigns
  <2>8. e \in Tidy(o, X)
    <3>1. s["pRTS"] # NoFrame /\ e["pRTS"] = NoFrame
      BY <2>1, <2>5
    <3> QED BY <1>0, <2>7, <3>1, TidyDrop
  <2>9. u \in Tidy(o, X)
    BY <1>0, <2>1, <2>8, TidyType, TimerSpares, SparedTidy
  <2> QED BY <2>9 DEF u
<1> QED BY <1>1, <1>2

\* A failed try changes counters only.
LEMMA RetriesTidy ==
  ASSUME NEW o, NEW X, NEW n, NEW h, NEW s \in Sound(n, h), s \in Tidy(o, X), NEW t,
         Retries(s, t)
  PROVE  t \in Sound(n, h) /\ t \in Tidy(o, X) /\ SamePackets(s, t)
<1>1. Touches(s, t, {"short", "long", "cw"}, {})
  BY DEF Retries
<1>2. t \in Sound(n, h)
  <2>1. {"short", "long", "cw"} \cap {"id", "phy", "ch", "bk", "slots", "started"} = {}
    OBVIOUS
  <2> QED BY <1>1, <2>1, SoundKept
<1>3. Spares(s, t)
  <2>1. {"short", "long", "cw"} \subseteq Fields \ Booked /\ "tX" \notin {}
    BY DEF Fields, Booked
  <2> QED BY <1>1, <2>1, TouchesSpares
<1> QED BY <1>2, <1>3, SparedTidy

\* A packet is pending again: it waits for a backoff.
LEMMA RetryTidy ==
  ASSUME NEW o, NEW X, NEW n, NEW h, NEW s \in Sound(n, h), s \in Tidy(o, X),
         NEW in \in AnyInput, "sent" \notin X, NEW c \in TXCStates
  PROVE  HandleBKStart([s EXCEPT !.txc = c], in) \in Tidy(o, X)
<1> DEFINE r == [s EXCEPT !.txc = c]
<1>0. s \in Station
  BY DEF Sound
<1>1. Spares(s, r) /\ r.ch = s.ch
  <2>1. Touches(s, r, {"txc"}, {})
    BY <1>0, TxcEffect
  <2>2. Spares(s, r)
    BY <1>0, FieldSpares
  <2> HIDE DEF r
  <2> QED BY <2>1, <2>2 DEF Touches, Fields
<1> HIDE DEF r
<1>2. r \in Tidy(o, X) /\ r.phy = s.phy
  BY <1>1, SparedTidy
<1>3. Clear(r)
  BY <1>1, <1>2, SoundClear DEF Clear
<1> QED BY <1>2, <1>3, BKStartTidy DEF r

\* TXC::handleTCTStimeout.
LEMMA TCTSTimeoutTidy ==
  ASSUME NEW o, NEW n, NEW h, NEW s \in Sound(n, h), s \in Tidy(o, {}), TxcOK(s),
         NEW in \in AnyInput
  PROVE  HandleTCTStimeout(s, in) \in Tidy(o, {})
<1> DEFINE t == IncCW([s EXCEPT !.short = @ + 1])
           f == Free(t, "pRTS")
           e == [f EXCEPT !.pRTS = NoFrame]
<1>0. s \in Station /\ "RTS_pending" \in TXCStates /\ "pRTS" \in MacSlots /\ "pRTS" \in Slots
  BY SlotsType DEF Sound, TXCStates, MacSlots
<1>1. CASE s.txc # "wait_CTS"
  BY <1>0, <1>1, FaultSpares, SparedTidy DEF HandleTCTStimeout
<1>2. CASE s.txc = "wait_CTS"
  <2>1. \/ HandleTCTStimeout(s, in) = FinishPacket(e, "dropped", in)
        \/ HandleTCTStimeout(s, in) = HandleBKStart([t EXCEPT !.txc = "RTS_pending"], in)
    BY <1>2 DEF HandleTCTStimeout
  <2>2. s.pRTS # NoFrame
    BY <1>2 DEF TxcOK
  <2>3. Retries(s, t)
    BY <1>0, ShortRetry DEF TxcOK
  <2> HIDE DEF t
  <2>4. t \in Sound(n, h) /\ t \in Tidy(o, {}) /\ t.pRTS # NoFrame /\ t \in Station
    BY <2>2, <2>3, RetriesTidy, TidyType DEF SamePackets
  <2>5. HandleBKStart([t EXCEPT !.txc = "RTS_pending"], in) \in Tidy(o, {})
    BY <1>0, <2>4, RetryTidy
  <2>6. Touches(t, e, {"pRTS", "calls"}, {}) /\ e.pRTS = NoFrame
    BY <2>4, DropRTS
  <2>7. Touches(f, e, {"pRTS"}, {})
    <3>1. f \in Station
      BY <1>0, <2>4, FreeEffect DEF Touches
    <3> HIDE DEF f
    <3> QED BY <3>1, RTSEffect, NoFrameType
  <2> HIDE DEF e
  <2>8. e \in Sound(n, h)
    <3>1. {"pRTS", "calls"} \cap {"id", "phy", "ch", "bk", "slots", "started"} = {}
      OBVIOUS
    <3> QED BY <2>4, <2>6, <3>1, SoundKept
  <2>9. Assigns(t, e, "pRTS") /\ e.calls = Append(t.calls, <<"free", "pRTS">>)
    <3>1. {"pRTS"} \subseteq (Fields \ Booked) \cup {"pRTS"} /\ "tX" \notin {}
      OBVIOUS
    <3> QED BY <1>0, <2>4, <2>7, <3>1, FreeAssigns
  <2>10. e \in Tidy(o, {})
    <3>1. t["pRTS"] # NoFrame /\ e["pRTS"] = NoFrame
      BY <2>4, <2>6
    <3> QED BY <1>0, <2>4, <2>9, <3>1, TidyDrop
  <2>11. FinishPacket(e, "dropped", in) \in Tidy(o, {})
    <3>1. {} \subseteq {"pktRX"}
      OBVIOUS
    <3> QED BY <2>6, <2>8, <2>10, <3>1, FinishTidy
  <2> QED BY <2>1, <2>5, <2>11
<1> QED BY <1>1, <1>2

\* TXC::handleTACKtimeout.
LEMMA TACKTimeoutTidy ==
  ASSUME NEW o, NEW n, NEW h, NEW s \in Sound(n, h), s \in Tidy(o, {}), TxcOK(s),
         NEW in \in AnyInput
  PROVE  HandleTACKtimeout(s, in) \in Tidy(o, {})
<1> DEFINE t == IncCW(IF s.pDATA.len > RTSThreshold THEN [s EXCEPT !.long = @ + 1]
                                                    ELSE [s EXCEPT !.short = @ + 1])
           f == RTSFrame(s.id, s.pDATA)
           b == [Alloc(t, "pRTS") EXCEPT !.pRTS = f]
           r == [Alloc(t, "pRTS") EXCEPT !.pRTS = f, !.txc = "RTS_pending"]
           u == HandleTACKtimeout(s, in)
<1>0. s \in Station /\ "RTS_pending" \in TXCStates /\ "DATA_pending" \in TXCStates
  BY DEF Sound, TXCStates
<1>1. CASE s.txc # "wait_ACK"
  BY <1>0, <1>1, FaultSpares, SparedTidy DEF HandleTACKtimeout
<1>2. CASE s.txc = "wait_ACK"
  <2>1. \/ u = FinishPacket(t, "dropped", in)
        \/ u = HandleBKStart(r, in)
        \/ u = HandleBKStart([t EXCEPT !.txc = "DATA_pending"], in)
    BY <1>2 DEF HandleTACKtimeout
  <2>2. s.pRTS = NoFrame
    BY <1>2 DEF TxcOK
  <2>3. Retries(s, t)
    BY <1>0, ShortRetry, LongRetry DEF TxcOK
  <2> HIDE DEF t, u
  <2>4. t \in Sound(n, h) /\ t \in Tidy(o, {}) /\ t.pRTS = NoFrame /\ t \in Station
        /\ t.id = s.id /\ t.pDATA = s.pDATA
    BY <2>2, <2>3, RetriesTidy, TidyType DEF SamePackets
  <2>5. HandleBKStart([t EXCEPT !.txc = "DATA_pending"], in) \in Tidy(o, {})
    BY <1>0, <2>4, RetryTidy
  <2>6. FinishPacket(t, "dropped", in) \in Tidy(o, {})
    <3>1. {} \subseteq {"pktRX"}
      OBVIOUS
    <3> QED BY <2>4, <3>1, FinishTidy
  <2>7. b \in Tidy(o, {}) /\ Touches(t, b, {"pRTS", "calls"}, {})
    <3>1. b = [Alloc(t, "pRTS") EXCEPT !.pRTS = RTSFrame(t.id, t.pDATA)]
      BY <2>4
    <3>2. t.pDATA \in Frame
      BY <2>4 DEF Station
    <3> HIDE DEF b
    <3> QED BY <2>4, <3>1, <3>2, RTSTidy
  <2>8. b \in Sound(n, h)
    <3>1. {"pRTS", "calls"} \cap {"id", "phy", "ch", "bk", "slots", "started"} = {}
      OBVIOUS
    <3> HIDE DEF b
    <3> QED BY <2>4, <2>7, <3>1, SoundKept
  <2>9. r = [b EXCEPT !.txc = "RTS_pending"]
    <3>1. Alloc(t, "pRTS") \in Station
      BY <2>4, FreeEffect, SlotsType DEF Touches
    <3> HIDE DEF f
    <3> QED BY <3>1 DEF Station
  <2> HIDE DEF b, r
  <2>10. HandleBKStart(r, in) \in Tidy(o, {})
    BY <1>0, <2>7, <2>8, <2>9, RetryTidy
  <2> QED BY <2>1, <2>5, <2>6, <2>10 DEF u
<1> QED BY <1>1, <1>2

\* TXC::handleSIFStimeout.
LEMMA TXCSIFSTidy ==
  ASSUME NEW o, NEW s \in Tidy(o, {}), Confirms(s), NEW in
  PROVE  HandleTXCSIFStimeout(s, in) \in Tidy(o, {})
<1>0. s \in Station /\ "wait_PDUsent" \in TXCStates
  BY TidyType DEF TXCStates
<1>1. CASE s.txc # "wait_SIFS"
  BY <1>0, <1>1, FaultSpares, SparedTidy DEF HandleTXCSIFStimeout
<1>2. CASE s.txc = "wait_SIFS"
  <2>1. s.phy # "TXing"
    BY <1>2 DEF Confirms, Senders
  <2> QED BY <1>0, <1>2, <2>1, SendHeldTidy DEF HandleTXCSIFStimeout
<1> QED BY <1>1, <1>2

\* TXC::handleACKIndication.
LEMMA ACKIndicationTidy ==
  ASSUME NEW o, NEW X, NEW n, NEW h, NEW s \in Sound(n, h), s \in Tidy(o, X), TxcOK(s),
         NEW in \in AnyInput, X \subseteq {"pktRX"}
  PROVE  HandleACKIndication(s, in) \in Tidy(o, X)
<1> DEFINE c == Cancel(s, "txcACK")
<1>0. s \in Station /\ "txcACK" \in Timers \ {"tX"} /\ 0 \in Int
  BY DEF Sound, Timers, MacTimers
<1>1. CASE s.txc # "wait_ACK"
  BY <1>0, <1>1, FaultSpares, SparedTidy DEF HandleACKIndication
<1>2. CASE s.txc = "wait_ACK"
  <2>1. HandleACKIndication(s, in) = FinishPacket(c, "acked", in)
    BY <1>2 DEF HandleACKIndication
  <2>2. c \in Sound(n, h)
    BY <1>0, CancelSound
  <2>3. Spares(s, c)
    BY <1>0, TimerSpares
  <2> HIDE DEF c
  <2>4. c \in Tidy(o, X) /\ c.pRTS = NoFrame
    BY <1>2, <2>3, SparedTidy DEF SamePackets, TxcOK
  <2> QED BY <2>1, <2>2, <2>4, FinishTidy
<1> QED BY <1>1, <1>2

-----------------------------------------------------------------------------
(* The end of a reception *)

\* ChannelStateMgr::setIFS.
LEMMA SetIFSSpares ==
  ASSUME NEW s \in Station, NEW d \in Nat
  PROVE  Spares(s, SetIFS(s, d))
<1> DEFINE r == [s EXCEPT !.ifsValue = d]
           c == Cancel(r, "ifs")
<1>0. "ifs" \in Timers \ {"tX"} /\ d \in Int /\ 0 \in Int
  BY DEF Timers, MacTimers
<1>1. Spares(s, r)
  BY FieldSpares
<1>2. SetIFS(s, d) = r \/ SetIFS(s, d) = Sched(c, "ifs", d)
  BY DEF SetIFS
<1> HIDE DEF r
<1>3. Spares(r, c)
  BY <1>0, <1>1, SparesSame, TimerSpares
<1> HIDE DEF c
<1>4. Spares(c, Sched(c, "ifs", d))
  BY <1>0, <1>3, SparesSame, TimerSpares
<1> QED BY <1>1, <1>2, <1>3, <1>4, SparesThen

\* ChannelStateMgr::handleSetNAV.
LEMMA SetNAVSpares ==
  ASSUME NEW s \in Station, NEW d \in Nat, NEW in
  PROVE  Spares(s, HandleSetNAV(s, d, in))
<1> DEFINE n == Sched(s, "nav", d)
           c == Cancel(s, "nav")
           q == Sched(c, "nav", d)
           b == HandleCSBUSY(n, in)
           i == StopIFS(n)
           u == HandleSetNAV(s, d, in)
<1>0. /\ "nav" \in Timers \ {"tX"} /\ d \in Int /\ 0 \in Int /\ s.ch \in ChannelStates
      /\ "noCSNAV" \in ChannelStates /\ "CSNAV" \in ChannelStates
  BY DEF Timers, MacTimers, Station, ChannelStates
<1>1. \/ u = [b EXCEPT !.ch = "noCSNAV"] \/ u = [n EXCEPT !.ch = "CSNAV"]
      \/ u = q \/ u = s \/ u = [i EXCEPT !.ch = "noCSNAV"]
  BY <1>0 DEF HandleSetNAV, ChannelStates
<1>2. Spares(s, n) /\ Spares(s, c)
  BY <1>0, TimerSpares
<1> HIDE DEF n, c, u
<1>3. Spares(n, b) /\ Spares(n, i) /\ Spares(c, q)
  BY <1>0, <1>2, SparesSame, CSBusySpares, StopIFSSpares, TimerSpares
<1> HIDE DEF b, i, q
<1>4. Spares(s, b) /\ Spares(s, i) /\ Spares(s, q) /\ Spares(s, s)
  BY <1>2, <1>3, SparesThen, FaultSpares
<1>5. Spares(s, u)
  BY <1>0, <1>1, <1>2, <1>4, ChSpares
<1> QED BY <1>5 DEF u

\* ChannelStateMgr::handleNAVTimer.
LEMMA NAVTimerSpares ==
  ASSUME NEW s \in Station
  PROVE  Spares(s, HandleNAVTimer(s))
<1> DEFINE i == Sched(s, "ifs", s.ifsValue)
<1>0. /\ "ifs" \in Timers \ {"tX"} /\ s.ifsValue \in Int
      /\ "WIFS" \in ChannelStates /\ "CSnoNAV" \in ChannelStates
  BY DEF Timers, MacTimers, Station, ChannelStates
<1>1. \/ HandleNAVTimer(s) = [i EXCEPT !.ch = "WIFS"]
      \/ HandleNAVTimer(s) = [s EXCEPT !.ch = "CSnoNAV"] \/ HandleNAVTimer(s) = Exit(s)
  BY DEF HandleNAVTimer
<1>2. Spares(s, i) /\ Spares(s, s) /\ Spares(s, Exit(s))
  BY <1>0, TimerSpares, FaultSpares
<1> HIDE DEF i
<1> QED BY <1>0, <1>1, <1>2, ChSpares

\* The packet that was received is freed.
LEMMA ReceivedFreed ==
  ASSUME NEW o, NEW s \in Tidy(o, {"pktRX"})
  PROVE  Free(s, "pktRX") \in Tidy(o, {})
<1>1. "pktRX" \in {"pktRX"} /\ {"pktRX"} \ {"pktRX"} = {}
  OBVIOUS
<1>2. Free(s, "pktRX") \in Tidy(o, {"pktRX"} \ {"pktRX"})
  BY <1>1, TidyFree, Zenon
<1> QED BY <1>1, <1>2

\* The state of RXC is set.
LEMMA RxcTidy ==
  ASSUME NEW o, NEW X, NEW s \in Tidy(o, X), NEW c \in RXCStates
  PROVE  [s EXCEPT !.rxc = c] \in Tidy(o, X)
<1>1. s \in Station
  BY TidyType
<1>2. Spares(s, [s EXCEPT !.rxc = c])
  BY <1>1, FieldSpares
<1> QED BY <1>2, TidySpared

\* Mac802_11::recvDATA.
LEMMA RecvDATATidy ==
  ASSUME NEW o, NEW n, NEW h, NEW s \in Sound(n, h), s \in Tidy(o, {"pktRX"}), NEW p \in Frame
  PROVE  RecvDATA(s, p) \in Tidy(o, {})
<1> DEFINE f == Free(s, "pktRX")
           u == RecvDATA(s, p)
<1>0. s \in Station
  BY DEF Sound
<1>1. f \in Tidy(o, {}) /\ f \in Station
  BY ReceivedFreed, TidyType
<1>2. u \in Station
  <2>1. u \in Sound(n, h)
    BY RecvDATASound
  <2> HIDE DEF u
  <2> QED BY <2>1 DEF Sound
<1> HIDE DEF f
<1>3. \/ u = f
      \/ u = [f EXCEPT !.up = p,
                       !.cache = IF p.dst = Broadcast THEN @ ELSE [@ EXCEPT ![p.src] = p.seq]]
  BY DEF RecvDATA, f
<1> HIDE DEF u
<1>4. /\ \A k \in Fields \ {"up", "cache"} : u[k] = f[k]
      /\ \A t \in Timers : u.timer[t] = f.timer[t]
  BY <1>1, <1>3 DEF Station, Fields
<1>5. Touches(f, u, {"up", "cache"}, {})
  BY <1>2, <1>4 DEF Touches
<1>6. Spares(f, u)
  <2>1. {"up", "cache"} \subseteq Fields \ Booked /\ "tX" \notin {}
    BY DEF Fields, Booked
  <2> QED BY <1>5, <2>1, TouchesSpares
<1>7. u \in Tidy(o, {})
  BY <1>1, <1>6, TidySpared
<1> QED BY <1>7 DEF u

\* An answer is allocated and stored.
LEMMA AnswerTidy ==
  ASSUME NEW o, NEW X, NEW s \in Tidy(o, X), NEW p \in Frame, p # NoFrame, Made(s, p),
         s.pCTRL = NoFrame, "pCTRL" \notin X
  PROVE  [Alloc(s, "pCTRL") EXCEPT !.pCTRL = p] \in Tidy(o, X)
<1> DEFINE a == Alloc(s, "pCTRL")
           u == [a EXCEPT !.pCTRL = p]
<1>0. s \in Station /\ "pCTRL" \in Slots /\ "pCTRL" \in MacSlots
  BY TidyType, SlotsType DEF MacSlots
<1>1. Touches(s, a, {"calls"}, {}) /\ a \in Station
  BY <1>0, FreeEffect DEF Touches
<1>2. Touches(a, u, {"pCTRL"}, {}) /\ u.pCTRL = p
  <2> HIDE DEF a
  <2>1. u \in Station
    BY <1>1 DEF Station
  <2>2. u.pCTRL = p /\ \A k \in Fields \ {"pCTRL"} : u[k] = a[k]
    BY <1>1 DEF Station, Fields
  <2>3. \A t \in Timers : u.timer[t] = a.timer[t]
    BY <1>1 DEF Station
  <2> HIDE DEF u
  <2> QED BY <2>1, <2>2, <2>3 DEF Touches
<1> HIDE DEF u
<1>3. Assigns(s, u, "pCTRL") /\ u.calls = Append(s.calls, <<"alloc", "pCTRL">>)
  <2>1. {"pCTRL"} \subseteq (Fields \ Booked) \cup {"pCTRL"}
    OBVIOUS
  <2> QED BY <1>0, <1>2, <2>1, AllocAssigns
<1> HIDE DEF a
<1>4. u.id = s.id
  BY <1>1, <1>2 DEF Touches, Fields
<1>5. u \in Tidy(o, X)
  <2>1. Made(u, u["pCTRL"]) /\ s["pCTRL"] = NoFrame /\ u["pCTRL"] # NoFrame
    BY <1>2, <1>4 DEF Made
  <2> QED BY <1>0, <1>3, <2>1, TidyGain
<1> QED BY <1>5 DEF u, a

\* RXC::handleMsgFromBelow, case RTS.
LEMMA ReceiveRTSTidy ==
  ASSUME NEW o, NEW s \in Tidy(o, {"pktRX"}), s.pCTRL = NoFrame, NEW p \in Frame
  PROVE  ReceiveRTS(s, p) \in Tidy(o, {})
<1> DEFINE a == [Alloc(s, "pCTRL") EXCEPT !.pCTRL = CTSFrame(s.id, p)]
           f == Free(a, "pktRX")
           t == Sched(f, "rxcSIFS", SIFS)
<1>a. s \in Station
  BY TidyType
<1>0. /\ s \in Station /\ s.id \in Nodes /\ "rxcSIFS" \in Timers \ {"tX"} /\ SIFS \in Int
      /\ "Idle" \in RXCStates /\ "wait_SIFS" \in RXCStates /\ "pCTRL" \notin {"pktRX"}
  BY <1>a, TimingAssumption DEF Station, Timers, MacTimers, RXCStates
<1>1. CASE s.ch \in {"CSNAV", "noCSNAV"}
  BY <1>0, <1>1, ReceivedFreed, RxcTidy DEF ReceiveRTS
<1>2. CASE s.ch \notin {"CSNAV", "noCSNAV"}
  <2>1. ReceiveRTS(s, p) = [t EXCEPT !.rxc = "wait_SIFS"]
    BY <1>2 DEF ReceiveRTS
  <2>2. CTSFrame(s.id, p) \in Frame /\ CTSFrame(s.id, p) # NoFrame /\ Made(s, CTSFrame(s.id, p))
    BY <1>0, CTSFrameType, FramesAreSome, FramesAreMade
  <2>3. a \in Tidy(o, {"pktRX"})
    BY <1>0, <2>2, AnswerTidy
  <2> HIDE DEF a
  <2>4. f \in Tidy(o, {})
    BY <2>3, ReceivedFreed
  <2> HIDE DEF f
  <2>5. t \in Tidy(o, {})
    BY <1>0, <2>4, TidyType, TimerSpares, TidySpared
  <2> HIDE DEF t
  <2> QED BY <1>0, <2>1, <2>5, RxcTidy
<1> QED BY <1>1, <1>2

\* RXC::handleMsgFromBelow, case DATA.
LEMMA ReceiveDATATidy ==
  ASSUME NEW o, NEW n, NEW h, NEW s \in Sound(n, h), s \in Tidy(o, {"pktRX"}),
         s.pCTRL = NoFrame, NEW p \in Frame
  PROVE  ReceiveDATA(s, p) \in Tidy(o, {})
<1> DEFINE a == [Alloc(s, "pCTRL") EXCEPT !.pCTRL = ACKFrame(s.id, p)]
           t == Sched(a, "rxcSIFS", SIFS)
           r == RecvDATA(t, p)
<1>a. s \in Station
  BY TidyType
<1>0. /\ s \in Station /\ s.id \in Nodes /\ "rxcSIFS" \in Timers \ {"tX"} /\ SIFS \in Int
      /\ "Idle" \in RXCStates /\ "wait_SIFS" \in RXCStates /\ "pCTRL" \notin {"pktRX"}
  BY <1>a, TimingAssumption DEF Station, Timers, MacTimers, RXCStates
<1>1. CASE p.dst # s.id
  <2>1. ReceiveDATA(s, p) = [RecvDATA(s, p) EXCEPT !.rxc = "Idle"]
    BY <1>1 DEF ReceiveDATA
  <2> QED BY <1>0, <2>1, RecvDATATidy, RxcTidy
<1>2. CASE p.dst = s.id
  <2>1. ReceiveDATA(s, p) = [r EXCEPT !.rxc = "wait_SIFS"]
    BY <1>2 DEF ReceiveDATA
  <2>2. ACKFrame(s.id, p) \in Frame /\ ACKFrame(s.id, p) # NoFrame /\ Made(s, ACKFrame(s.id, p))
    BY <1>0, ACKFrameType, FramesAreSome, FramesAreMade
  <2>3. a \in Tidy(o, {"pktRX"})
    BY <1>0, <2>2, AnswerTidy
  <2>4. t \in Sound(n, h)
    BY <2>2, AnswerSound
  <2> HIDE DEF a
  <2>5. t \in Tidy(o, {"pktRX"})
    BY <1>0, <2>3, TidyType, TimerSpares, TidySpared
  <2> HIDE DEF t
  <2>6. r \in Tidy(o, {})
    BY <2>4, <2>5, RecvDATATidy
  <2> HIDE DEF r
  <2> QED BY <1>0, <2>1, <2>6, RxcTidy
<1> QED BY <1>1, <1>2

\* RXC::handleMsgFromBelow frees the packet, whatever it is.
LEMMA MsgFromBelowTidy ==
  ASSUME NEW o, NEW n, NEW s \in Listening(n), s \in Tidy(o, {"pktRX"}), NEW p \in Frame,
         p # NoFrame, NEW in \in AnyInput
  PROVE  HandleMsgFromBelow(s, p, in) \in Tidy(o, {})
<1>0. /\ s \in Sound(n, {"rX"}) /\ TxcOK(s) /\ s.pCTRL = NoFrame /\ "Idle" \in RXCStates
      /\ {"pktRX"} \subseteq {"pktRX"}
  BY DEF Listening, Steady, RxcOK, RXCStates
<1>1. CASE p.kind = "ACK"
  <2>1. HandleACKIndication(s, in) \in Tidy(o, {"pktRX"})
    BY <1>0, ACKIndicationTidy
  <2> QED BY <1>0, <1>1, <2>1, ReceivedFreed, RxcTidy DEF HandleMsgFromBelow
<1>2. CASE p.kind = "CTS"
  <2>1. HandleCTSIndication(s) \in Tidy(o, {"pktRX"})
    BY <1>0, CTSIndicationTidy
  <2> QED BY <1>0, <1>2, <2>1, ReceivedFreed, RxcTidy DEF HandleMsgFromBelow
<1>3. CASE p.kind = "RTS"
  BY <1>0, <1>3, ReceiveRTSTidy DEF HandleMsgFromBelow
<1>4. CASE p.kind = "DATA"
  BY <1>0, <1>4, ReceiveDATATidy DEF HandleMsgFromBelow
<1> QED BY <1>1, <1>2, <1>3, <1>4, FrameFields DEF Kinds

\* Mac802_11::handleRXEndIndication: only a damaged packet was freed before.
LEMMA RXEndTidy ==
  ASSUME NEW o, NEW n, NEW s \in Listening(n), NEW error \in BOOLEAN,
         s \in Tidy(o, IF error THEN {} ELSE {"pktRX"}), NEW p \in Frame, p # NoFrame,
         NEW in \in AnyInput
  PROVE  HandleRXEndIndication(s, p, error, in) \in Tidy(o, {})
<1> DEFINE t == SetIFS(s, DIFS)
           f == Free(t, "pktRX")
           v == HandleSetNAV(t, p.dur, in)
<1>0. s \in Station /\ DIFS \in Nat /\ EIFS \in Nat /\ p.dur \in Nat /\ DIFS >= DIFS
  BY TidyType, IfsType, FrameFields, TimingAssumption DEF DIFS
<1>1. CASE error
  BY <1>0, <1>1, SetIFSSpares, TidySpared DEF HandleRXEndIndication
<1>2. CASE ~error
  <2>1. t \in Tidy(o, {"pktRX"}) /\ t \in Listening(n) /\ t \in Station
    BY <1>0, <1>2, SetIFSSpares, SparedTidy, ListeningIFS
  <2>2. HandleRXEndIndication(s, p, error, in)
          = IF p.kind = "DATA" /\ p.bad THEN SetIFS(f, EIFS)
            ELSE IF p.dst \in {s.id, Broadcast} THEN HandleMsgFromBelow(t, p, in)
            ELSE Free(v, "pktRX")
    BY <1>2 DEF HandleRXEndIndication
  <2> HIDE DEF t
  <2>3. f \in Tidy(o, {}) /\ f \in Station
    BY <2>1, ReceivedFreed, TidyType
  <2>4. v \in Tidy(o, {"pktRX"})
    BY <1>0, <2>1, SetNAVSpares, TidySpared
  <2> HIDE DEF f, v
  <2>5. SetIFS(f, EIFS) \in Tidy(o, {})
    BY <1>0, <2>3, SetIFSSpares, TidySpared
  <2>6. Free(v, "pktRX") \in Tidy(o, {})
    BY <2>4, ReceivedFreed
  <2>7. HandleMsgFromBelow(t, p, in) \in Tidy(o, {})
    BY <2>1, MsgFromBelowTidy
  <2> QED BY <2>2, <2>5, <2>6, <2>7
<1> QED BY <1>1, <1>2

\* A step of the PHY that is no transmission leaves the books in order, the
\* packet of the PHY counted as it is now held.
LEMMA RetunedTidy ==
  ASSUME NEW o, NEW X, NEW s \in Tidy(o, X), NEW u, Retunes(s, u), s.phy # "TXing",
         u.phy # "TXing", NEW Y \in SUBSET Slots, Ours(u) \cup Y = Ours(s) \cup X,
         Ours(u) \cap Y = {}
  PROVE  u \in Tidy(o, Y)
<1>1. /\ u \in Station /\ u.id = s.id /\ u.pDATA = s.pDATA /\ u.pRTS = s.pRTS
      /\ u.pCTRL = s.pCTRL /\ u.calls = s.calls /\ u.out = s.out
      /\ u.timer["tX"] = s.timer["tX"]
  BY TimerNames DEF Retunes, Touches, Fields, Booked
<1>2. s.out = NoFrame /\ o.phy # "TXing" /\ s.timer["tX"] = TimerIdle
  BY DEF Tidy, Launched
<1>3. Ledger(u, Y) = Ledger(s, X)
  BY <1>1 DEF Ledger
<1>4. Made(u, u.pDATA) /\ Made(u, u.pRTS) /\ Made(u, u.pCTRL)
  BY <1>1 DEF Tidy, Made
<1>5. Books([held |-> Ours(o), sent |-> FALSE], u.calls, Ledger(u, Y))
  BY <1>1, <1>3, Zenon DEF Tidy
<1>6. Y \subseteq Slots
  OBVIOUS
<1> QED BY <1>1, <1>2, <1>4, <1>5, <1>6, Zenon DEF Tidy

\* The packets of the MAC are Ours in every state of the PHY.
LEMMA RetunedOurs ==
  ASSUME NEW s, NEW u, Retunes(s, u)
  PROVE  /\ u.phy \notin {"PreRXing", "RXing"} => Ours(u) = Ours(s) \ {"pktRX"}
         /\ u.phy \in {"PreRXing", "RXing"} => Ours(u) = Ours(s) \cup {"pktRX"}
         /\ s.phy \in {"PreRXing", "RXing"} <=> "pktRX" \in Ours(s)
<1>1. u.pDATA = s.pDATA /\ u.pRTS = s.pRTS /\ u.pCTRL = s.pCTRL
  BY DEF Retunes, Touches, Fields, Booked
<1> QED BY <1>1 DEF Ours, Kept

\* WirelessPhy::handle_RXtimeout.
LEMMA RXtimeoutTidy ==
  ASSUME NEW o, NEW n, NEW s \in Good(n, {"rX"}), s.phy = "RXing", s \in Tidy(o, {}),
         NEW in \in AnyInput
  PROVE  HandleRXtimeout(s, in) \in Tidy(o, {})
<1> DEFINE i == SetState(s, "SEARCHING", in)
           j == IF s.rxError THEN Free(i, "pktRX") ELSE i
           v == HandleRXEndIndication(j, s.pktRX, s.rxError, in)
           u == [v EXCEPT !.pktRX = NoFrame, !.rxError = FALSE]
<1>0. /\ s \in Station /\ s.pktRX \in Frame /\ s.pktRX # NoFrame /\ s.rxError \in BOOLEAN
      /\ "SEARCHING" \in PhyStates /\ "pktRX" \in Slots
  <2>1. s \in Station
    BY TidyType
  <2> QED BY <2>1, SlotsType DEF Good, Receives, Station, PhyStates
<1>1. HandleRXtimeout(s, in) = u
  BY DEF HandleRXtimeout
<1>2. Retunes(s, i) /\ i.phy = "SEARCHING"
  BY <1>0, SetStateSpares
<1>3. i \in Listening(n)
  BY IdleListens
<1> HIDE DEF i
<1>4. Ours(i) = Ours(s) \ {"pktRX"} /\ "pktRX" \in Ours(s)
  BY <1>2, RetunedOurs
<1>5. i \in Tidy(o, {"pktRX"})
  <2>1. /\ {"pktRX"} \in SUBSET Slots /\ Ours(i) \cap {"pktRX"} = {}
        /\ Ours(i) \cup {"pktRX"} = Ours(s) \cup {}
    BY <1>0, <1>4
  <2> QED BY <1>2, <2>1, RetunedTidy
<1>6. j \in Listening(n) /\ j \in Tidy(o, IF s.rxError THEN {} ELSE {"pktRX"})
  BY <1>0, <1>3, <1>5, ReceivedFreed, ListeningFree
<1> HIDE DEF j
<1>7. v \in Tidy(o, {}) /\ v \in Station
  BY <1>0, <1>6, RXEndTidy, TidyType
<1> HIDE DEF v
<1>8. Touches(v, u, {"pktRX", "rxError"}, {})
  BY <1>7, ReleaseEffect
<1>9. {"pktRX", "rxError"} \subseteq Fields \ Booked /\ "tX" \notin {}
  BY DEF Fields, Booked
<1> HIDE DEF u
<1>10. Spares(v, u)
  BY <1>8, <1>9, TouchesSpares
<1> QED BY <1>1, <1>7, <1>10, TidySpared

\* WirelessPhy::handle_PreRXtimeout: the PHY keeps its packet.
LEMMA PreRXTidy ==
  ASSUME NEW o, NEW s \in Tidy(o, {}), s.phy = "PreRXing", NEW in
  PROVE  HandlePreRXtimeout(s, in) \in Tidy(o, {})
<1> DEFINE i == SetState(s, "RXing", in)
           d == TxTime(s.pktRX.len) - HeaderDuration
<1>0. s \in Station /\ "RXing" \in PhyStates /\ "rX" \in Timers \ {"tX"}
  BY TidyType DEF PhyStates, Timers, PhyTimers
<1>1. CASE s.pktRX = NoFrame
  BY <1>0, <1>1, FaultSpares, TidySpared DEF HandlePreRXtimeout
<1>2. CASE s.pktRX # NoFrame
  <2>1. HandlePreRXtimeout(s, in) = Sched(i, "rX", d)
    BY <1>2 DEF HandlePreRXtimeout
  <2>2. d \in Int
    <3>1. s.pktRX \in Frame
      BY <1>0 DEF Station
    <3>2. s.pktRX.len \in Nat
      BY <3>1, FrameFields
    <3>3. TxTime(s.pktRX.len) \in Nat
      BY <3>2, AirTime
    <3> QED BY <3>3, TimingAssumption
  <2>3. Retunes(s, i) /\ i.phy = "RXing"
    BY <1>0, SetStateSpares
  <2> HIDE DEF i, d
  <2>4. Ours(i) = Ours(s)
    BY <2>3, RetunedOurs
  <2>5. i \in Tidy(o, {}) /\ i \in Station
    <3>1. {} \in SUBSET Slots /\ Ours(i) \cap {} = {} /\ Ours(i) \cup {} = Ours(s) \cup {}
      BY <2>4
    <3> QED BY <2>3, <3>1, RetunedTidy, TidyType
  <2>6. Spares(i, Sched(i, "rX", d))
    BY <1>0, <2>2, <2>5, TimerSpares
  <2> QED BY <2>1, <2>5, <2>6, TidySpared
<1> QED BY <1>1, <1>2

\* RXC::handleSIFStimeout.
LEMMA RXCSIFSTidy ==
  ASSUME NEW o, NEW s \in Tidy(o, {}), s.phy # "TXing", NEW in
  PROVE  HandleRXCSIFStimeout(s, in) \in Tidy(o, {})
<1> DEFINE t == IF s.pCTRL # NoFrame THEN Transmit(s, s.pCTRL, "RXC", in) ELSE s
<1>1. t \in Tidy(o, {})
  <2>1. "sent" \notin {} /\ s.pCTRL \in Frame /\ Made(s, s.pCTRL)
    BY TidyType
  <2> QED BY <2>1, TransmitTidy
<1>2. "wait_sent" \in RXCStates
  BY DEF RXCStates
<1>3. HandleRXCSIFStimeout(s, in) = [t EXCEPT !.rxc = "wait_sent"]
  BY DEF HandleRXCSIFStimeout
<1> HIDE DEF t
<1> QED BY <1>1, <1>2, <1>3, RxcTidy

\* RXC::handleTXConfirm frees its frame.
LEMMA RXCTXConfirmTidy ==
  ASSUME NEW o, NEW s \in Tidy(o, {})
  PROVE  HandleRXCTXConfirm(s) \in Tidy(o, {})
<1> DEFINE f == Free(s, "pCTRL")
           u == [f EXCEPT !.pCTRL = NoFrame, !.rxc = "Idle"]
<1>0. s \in Station /\ "pCTRL" \in MacSlots /\ "pCTRL" \in Slots
  BY TidyType, SlotsType DEF MacSlots
<1>1. CASE s.pCTRL = NoFrame
  BY <1>0, <1>1, FaultSpares, TidySpared DEF HandleRXCTXConfirm
<1>2. CASE s.pCTRL # NoFrame
  <2>1. HandleRXCTXConfirm(s) = u
    BY <1>2 DEF HandleRXCTXConfirm
  <2>2. f \in Station
    BY <1>0, FreeEffect DEF Touches
  <2>3. Touches(f, u, {"pCTRL", "rxc"}, {}) /\ u.pCTRL = NoFrame
    <3> HIDE DEF f
    <3>1. u \in Station
      BY <2>2, NoFrameType DEF Station, RXCStates
    <3>2. u.pCTRL = NoFrame /\ \A k \in Fields \ {"pCTRL", "rxc"} : u[k] = f[k]
      BY <2>2 DEF Station, Fields
    <3>3. \A t \in Timers : u.timer[t] = f.timer[t]
      BY <2>2 DEF Station
    <3> HIDE DEF u
    <3> QED BY <3>1, <3>2, <3>3 DEF Touches
  <2> HIDE DEF u
  <2>4. {"pCTRL", "rxc"} \subseteq (Fields \ Booked) \cup {"pCTRL"} /\ "tX" \notin {}
    BY DEF Fields, Booked
  <2>5. Assigns(s, u, "pCTRL") /\ u.calls = Append(s.calls, <<"free", "pCTRL">>)
    BY <1>0, <2>3, <2>4, FreeAssigns
  <2> HIDE DEF f
  <2>6. u \in Tidy(o, {})
    <3>1. s["pCTRL"] # NoFrame /\ u["pCTRL"] = NoFrame
      BY <1>2, <2>3
    <3> QED BY <1>0, <2>5, <3>1, TidyDrop
  <2> QED BY <2>1, <2>6
<1> QED BY <1>1, <1>2

-----------------------------------------------------------------------------
(* The events of a station *)

\* After an event that began in o nothing is left in the hands of the handlers;
\* a frame that was handed to the channel is on the air, where none was before.
Settled(o, u) ==
    /\ u \in Station
    /\ Books([held |-> Ours(o), sent |-> FALSE], u.calls, Ledger(u, {}))
    /\ Made(u, u.pDATA) /\ Made(u, u.pRTS) /\ Made(u, u.pCTRL)
    /\ u.out # NoFrame => o.phy # "TXing" /\ Launched(u)

\* Tidy says so where the transmission, if there is one, goes on.
LEMMA TidySettled ==
  ASSUME NEW o, NEW u \in Tidy(o, {})
  PROVE  /\ Settled(o, u)
         /\ o.phy = "TXing" => u.phy = "TXing" /\ u.timer["tX"] = o.timer["tX"]
BY Zenon DEF Tidy, Settled

\* WirelessPhy::handle_TXtimeout.
LEMMA TXtimeoutSettled ==
  ASSUME NEW o, NEW n, NEW s \in Good(n, {"tX"}), s.phy = "TXing", o.phy = "TXing",
         s \in Tidy(o, {}), NEW in \in AnyInput
  PROVE  Settled(o, HandleTXtimeout(s, in)) /\ HandleTXtimeout(s, in).out = NoFrame
<1> DEFINE v == IF s.confirm = "TXC" THEN HandleTXConfirm(s, in) ELSE HandleRXCTXConfirm(s)
           u == SetState(v, "SEARCHING", in)
<1>1. HandleTXtimeout(s, in) = u
  BY DEF HandleTXtimeout
<1>2. v \in Tidy(o, {})
  <2>1. s \in Sound(n, {"tX"}) /\ TxcOK(s)
    BY DEF Good, Steady
  <2> QED BY <2>1, TXConfirmTidy, RXCTXConfirmTidy
<1> HIDE DEF v
<1>3. v \in Station /\ v.phy = "TXing" /\ v.out = NoFrame /\ "SEARCHING" \in PhyStates
  BY <1>2 DEF Tidy, PhyStates
<1>4. Retunes(v, u) /\ u.phy = "SEARCHING"
  BY <1>3, SetStateSpares
<1> HIDE DEF u
<1>5. /\ u \in Station /\ u.id = v.id /\ u.pDATA = v.pDATA /\ u.pRTS = v.pRTS
      /\ u.pCTRL = v.pCTRL /\ u.calls = v.calls /\ u.out = v.out
  BY <1>4 DEF Retunes, Touches, Fields, Booked
<1>6. Ours(u) = Ours(v)
  BY <1>3, <1>4, RetunedOurs
<1>7. Ledger(u, {}) = Ledger(v, {})
  BY <1>5, <1>6 DEF Ledger
<1>8. Made(u, u.pDATA) /\ Made(u, u.pRTS) /\ Made(u, u.pCTRL)
  BY <1>2, <1>5 DEF Tidy, Made
<1>9. Books([held |-> Ours(o), sent |-> FALSE], u.calls, Ledger(u, {}))
  BY <1>2, <1>5, <1>7, Zenon DEF Tidy
<1>10. Settled(o, u)
  BY <1>3, <1>5, <1>8, <1>9, Zenon DEF Settled
<1> QED BY <1>1, <1>3, <1>5, <1>10

\* The expire function of every timer but that of a transmission.
LEMMA ExpireTidy ==
  ASSUME NEW o, NEW n \in Nodes, NEW t \in Timers \ {"bk", "tX"}, NEW s \in Good(n, {t}),
         t \in Awaited(s), s \in Tidy(o, {}), NEW in \in AnyInput
  PROVE  Expire(s, t, in) \in Tidy(o, {})
<1>0. /\ s \in Sound(n, {t}) /\ TxcOK(s) /\ RxcOK(s) /\ Confirms(s) /\ s \in Station /\ "sent" \notin {}
  BY DEF Good, Steady, Sound
<1>1. CASE t = "ifs"
  BY <1>0, <1>1, SoundClear, IFSTimerTidy DEF Expire
<1>2. CASE t = "rX"
  <2>1. s.phy = "RXing"
    BY <1>2 DEF Awaited
  <2> QED BY <1>2, <2>1, RXtimeoutTidy DEF Expire
<1>3. CASE t = "preRX"
  <2>1. s.phy = "PreRXing"
    BY <1>3 DEF Awaited
  <2> QED BY <1>3, <2>1, PreRXTidy DEF Expire
<1>4. CASE t = "nav"
  BY <1>0, <1>4, NAVTimerSpares, TidySpared DEF Expire
<1>5. CASE t = "txcCTS"
  BY <1>0, <1>5, TCTSTimeoutTidy DEF Expire
<1>6. CASE t = "txcSIFS"
  BY <1>0, <1>6, TXCSIFSTidy DEF Expire
<1>7. CASE t = "txcACK"
  BY <1>0, <1>7, TACKTimeoutTidy DEF Expire
<1>8. CASE t = "rxcSIFS"
  <2>1. s.rxc = "wait_SIFS"
    BY <1>8 DEF Awaited
  <2>2. s.phy # "TXing"
    BY <1>0, <2>1 DEF Confirms
  <2> QED BY <1>8, <2>2, RXCSIFSTidy DEF Expire
<1> QED BY <1>1, <1>2, <1>3, <1>4, <1>5, <1>6, <1>7, <1>8, TimerNames

\* The station at the beginning of an event.
LEMMA Opens ==
  ASSUME NEW s \in Station, s.calls = <<>>, s.out = NoFrame,
         Made(s, s.pDATA), Made(s, s.pRTS), Made(s, s.pCTRL),
         s.phy # "TXing" => s.timer["tX"] = TimerIdle
  PROVE  s \in Tidy(s, {})
<1>1. Ledger(s, {}) \in Ledgers /\ Ledger(s, {}) = [held |-> Ours(s), sent |-> FALSE]
  <2>1. {} \subseteq Slots
    OBVIOUS
  <2> QED BY <2>1, LedgerType DEF Ledger
<1>2. Books([held |-> Ours(s), sent |-> FALSE], s.calls, Ledger(s, {}))
  BY <1>1, BooksOpen
<1>3. Ours(s) \cap {} = {} /\ {} \subseteq Slots
  OBVIOUS
<1> QED BY <1>2, <1>3, Zenon DEF Tidy

\* TimerHandler::handle before the call of expire.
LEMMA BeginTidy ==
  ASSUME NEW n, NEW s \in Good(n, {}), NEW t \in Timers, s.timer[t] = 0, s.calls = <<>>,
         Made(s, s.pDATA), Made(s, s.pRTS), Made(s, s.pCTRL)
  PROVE  LET b == BeginExpire(s, t)
         IN  /\ b \in Tidy(b, {}) /\ Ours(b) = Ours(s) /\ b.phy = s.phy
             /\ t # "tX" => b.timer["tX"] = s.timer["tX"]
             /\ t = "tX" => s.phy = "TXing"
<1> DEFINE b == BeginExpire(s, t)
<1>0. s \in Sound(n, {}) /\ PhyTimed(s, {}) /\ "tX" \in Timers
  BY TimerNames DEF Good, Steady
<1>1. Touches(s, b, {"out", "up", "done", "fault"}, {t}) /\ b.out = NoFrame
  BY <1>0, BeginEffect
<1> HIDE DEF b
<1>2. /\ b \in Station /\ b.id = s.id /\ b.phy = s.phy /\ b.pDATA = s.pDATA /\ b.pRTS = s.pRTS
      /\ b.pCTRL = s.pCTRL /\ b.calls = s.calls
      /\ t # "tX" => b.timer["tX"] = s.timer["tX"]
  BY <1>0, <1>1 DEF Touches, Fields
<1>3. Ours(b) = Ours(s)
  BY <1>2, Zenon DEF Ours
<1>4. t = "tX" => s.phy = "TXing"
  BY <1>0 DEF PhyTimed, Pending
<1>5. s.phy # "TXing" => s.timer["tX"] = TimerIdle
  BY <1>0, NotPending DEF PhyTimed
<1>6. Made(b, b.pDATA) /\ Made(b, b.pRTS) /\ Made(b, b.pCTRL)
  BY <1>2 DEF Made
<1>7. b \in Tidy(b, {})
  BY <1>1, <1>2, <1>4, <1>5, <1>6, Opens
<1> QED BY <1>2, <1>3, <1>4, <1>7 DEF b

\* Settled is about what the event found, not what TimerHandler noted first.
LEMMA SettledFrom ==
  ASSUME NEW o, NEW b, Ours(b) = Ours(o), b.phy = o.phy, NEW u, Settled(b, u)
  PROVE  Settled(o, u)
BY DEF Settled

\* A timer expires: the event is settled, and a transmission that goes on ends
\* when it would have ended.
LEMMA HandleTimerSettled ==
  ASSUME NEW n \in Nodes, NEW s \in Good(n, {}), NEW t \in Timers, s.timer[t] = 0,
         s.calls = <<>>, Made(s, s.pDATA), Made(s, s.pRTS), Made(s, s.pCTRL),
         NEW in \in AnyInput
  PROVE  LET u == HandleTimer(s, t, in)
         IN  /\ Settled(s, u)
             /\ t # "tX" /\ s.phy = "TXing" => u.phy = "TXing" /\ u.timer["tX"] = s.timer["tX"]
<1> DEFINE b == BeginExpire(s, t)
           e == Expire(b, t, in)
           u == EndExpire(e, t)
<1>0. s \in Sound(n, {}) /\ HandleTimer(s, t, in) = u /\ ChannelTimed(s, {})
  BY DEF Good, Steady, HandleTimer
<1>1. /\ b \in Tidy(b, {}) /\ Ours(b) = Ours(s) /\ b.phy = s.phy
      /\ t # "tX" => b.timer["tX"] = s.timer["tX"]
      /\ t = "tX" => s.phy = "TXing"
  BY BeginTidy
<1>2. t # "bk" => b \in Good(n, {t}) /\ t \in Awaited(b)
  BY BeginGood
<1>3. b.timer[t] = TimerHandling
  BY <1>0, BeginEffect
<1>4. t = "bk" => s.phy # "TXing"
  BY <1>0, TimerNames DEF ChannelTimed, Pending, Sound
<1> HIDE DEF b
<1>5. e \in Good(n, {t}) /\ t \notin Awaited(e) /\ ~Pending(e, t)
  <2>1. CASE t = "bk"
    <3>1. e = BackoffTimerExpire(b, in)
      BY <2>1 DEF Expire
    <3> QED BY <2>1, <3>1, BackoffExpireGood DEF b
  <2>2. CASE t # "bk"
    BY <1>2, <1>3, <2>2, ExpireGood
  <2> QED BY <2>1, <2>2
<1>6. CASE t = "tX"
  <2>1. e = HandleTXtimeout(b, in)
    BY <1>6 DEF Expire
  <2>2. Settled(b, e) /\ e.out = NoFrame
    BY <1>1, <1>2, <1>6, <2>1, TXtimeoutSettled
  <2> HIDE DEF e
  <2>3. Touches(e, u, {}, {t})
    BY <1>5, EndGood
  <2> HIDE DEF u
  <2>4. /\ u \in Station /\ u.id = e.id /\ u.pDATA = e.pDATA /\ u.pRTS = e.pRTS
        /\ u.pCTRL = e.pCTRL /\ u.calls = e.calls /\ u.out = e.out /\ u.phy = e.phy
    BY <2>3 DEF Touches, Fields
  <2>5. Ours(u) = Ours(e)
    BY <2>4, Zenon DEF Ours
  <2>6. Ledger(u, {}) = Ledger(e, {})
    BY <2>4, <2>5 DEF Ledger
  <2>7. Made(u, u.pDATA) /\ Made(u, u.pRTS) /\ Made(u, u.pCTRL)
    BY <2>2, <2>4 DEF Settled, Made
  <2>8. Settled(b, u)
    BY <2>2, <2>4, <2>6, <2>7 DEF Settled
  <2> QED BY <1>0, <1>1, <1>6, <2>8, SettledFrom DEF u
<1>7. CASE t # "tX"
  <2>1. e \in Tidy(b, {})
    <3>1. CASE t = "bk"
      <4>1. e = BackoffTimerExpire(b, in) /\ "sent" \notin {} /\ b.phy # "TXing"
        BY <1>1, <1>4, <3>1 DEF Expire
      <4> QED BY <1>1, <4>1, BackoffRunTidy
    <3>2. CASE t # "bk"
      BY <1>1, <1>2, <1>7, <3>2, ExpireTidy
    <3> QED BY <3>1, <3>2
  <2> HIDE DEF e
  <2>2. Touches(e, u, {}, {t})
    BY <1>5, EndGood
  <2> HIDE DEF u
  <2>3. {} \cap Booked = {} /\ "tX" \notin {t}
    BY <1>7
  <2>4. u \in Tidy(b, {})
    BY <2>1, <2>2, <2>3, TidyKept
  <2>5. Settled(b, u) /\ (b.phy = "TXing" => u.phy = "TXing" /\ u.timer["tX"] = b.timer["tX"])
    BY <2>4, TidySettled
  <2> QED BY <1>0, <1>1, <1>7, <2>5, SettledFrom DEF u
<1> QED BY <1>6, <1>7

\* So does Node::run.
LEMMA TrafficStartSettled ==
  ASSUME NEW n \in Nodes, NEW s \in Good(n, {}), s.txc = "Idle", s.calls = <<>>,
         s.out = NoFrame, Made(s, s.pDATA), Made(s, s.pRTS), Made(s, s.pCTRL),
         NEW in \in AnyInput
  PROVE  LET u == TrafficStart(s, in)
         IN  /\ Settled(s, u)
             /\ s.phy = "TXing" => u.phy = "TXing" /\ u.timer["tX"] = s.timer["tX"]
<1>0. s \in Sound(n, {}) /\ s \in Station /\ PhyTimed(s, {}) /\ TxcOK(s) /\ "tX" \in Timers
  BY TimerNames DEF Good, Steady, Sound
<1>1. s.phy # "TXing" => s.timer["tX"] = TimerIdle
  BY <1>0, NotPending DEF PhyTimed
<1>2. s \in Tidy(s, {})
  BY <1>0, <1>1, Opens
<1>3. Clear(s) /\ s.pDATA = NoFrame /\ s.pRTS = NoFrame
  BY <1>0, SoundClear DEF TxcOK
<1>4. TrafficStart(s, in) \in Tidy(s, {})
  BY <1>2, <1>3, TrafficTidy
<1> QED BY <1>4, TidySettled

\* The two calls for an arrived packet that is not received, and those for one
\* that is.
Discards(calls) ==
    Len(calls) = 2 /\ calls[1] = <<"free", "arrived">> /\ calls[2] = <<"free", "arrived">>
Accepts(calls) ==
    Len(calls) = 2 /\ calls[1] = <<"alloc", "pktRX">> /\ calls[2] = <<"free", "arrived">>

\* One call after another.
LEMMA TwoCalls ==
  ASSUME NEW c \in PoolCalls, NEW d \in PoolCalls, NEW q, q = Append(Append(<<>>, c), d)
  PROVE  Len(q) = 2 /\ q[1] = c /\ q[2] = d
<1>1. PICK r : r = Append(<<>>, c)
  OBVIOUS
<1>2. r \in Seq(PoolCalls) /\ Len(r) = 1 /\ r[1] = c
  BY <1>1
<1>3. q = Append(r, d)
  BY <1>1
<1> QED BY <1>2, <1>3

\* A packet is freed, and the station is as before.
LEMMA FreedIs ==
  ASSUME NEW s \in Station, NEW slot \in Slots
  PROVE  LET u == Free(s, slot)
         IN  /\ u \in Station /\ SamePackets(s, u) /\ u.phy = s.phy /\ u.out = s.out
             /\ u.timer["tX"] = s.timer["tX"] /\ Ours(u) = Ours(s)
             /\ u.calls = Append(s.calls, <<"free", slot>>)
<1> DEFINE u == Free(s, slot)
<1>1. Touches(s, u, {"calls"}, {}) /\ u.calls = Append(s.calls, <<"free", slot>>)
  BY CallIs DEF Free
<1>2. {"calls"} \subseteq (Fields \ Booked) \cup {"calls"} /\ "tX" \notin {}
  OBVIOUS
<1> HIDE DEF u
<1>3. /\ u \in Station /\ u.id = s.id /\ u.phy = s.phy /\ u.pDATA = s.pDATA
      /\ u.pRTS = s.pRTS /\ u.pCTRL = s.pCTRL /\ u.out = s.out
      /\ u.timer["tX"] = s.timer["tX"] /\ Ours(u) = Ours(s)
  BY <1>1, <1>2, BookedFields, Zenon
<1> QED BY <1>1, <1>3 DEF SamePackets, u

\* WirelessPhy::recv of a packet: of its two calls of free one is for a packet
\* that is free already, unless the packet is received.
LEMMA RecvCalls ==
  ASSUME NEW s \in Station, s.calls = <<>>, NEW p \in Frame, NEW in
  PROVE  LET u == Recv(s, p, in)
         IN  /\ u \in Station /\ SamePackets(s, u) /\ u.out = s.out
             /\ s.phy = "TXing" => u.phy = "TXing" /\ u.timer["tX"] = s.timer["tX"]
             /\ \/ Discards(u.calls) /\ Ours(u) = Ours(s)
                \/ /\ Accepts(u.calls) /\ Ours(u) = Ours(s) \cup {"pktRX"}
                   /\ "pktRX" \notin Ours(s)
<1> DEFINE u == Recv(s, p, in)
           x == [s EXCEPT !.rxError = TRUE]
<1>0. /\ "arrived" \in Slots /\ "pktRX" \in Slots /\ s.phy \in PhyStates /\ "PreRXing" \in PhyStates
      /\ "preRX" \in Timers \ {"tX"} /\ HeaderDuration \in Int
  BY TimingAssumption DEF Slots, Station, PhyStates, Timers, PhyTimers
<1>1. ASSUME NEW t \in Station, t.calls = <<>>
      PROVE  Discards(Free(Free(t, "arrived"), "arrived").calls)
  <2> DEFINE f == Free(t, "arrived")
             c == <<"free", "arrived">>
  <2>1. f \in Station /\ f.calls = Append(<<>>, c)
    BY <1>0, <1>1, FreedIs
  <2> HIDE DEF f
  <2>2. Free(f, "arrived").calls = Append(f.calls, c)
    BY <1>0, <2>1, FreedIs
  <2>3. c \in PoolCalls
    BY DEF PoolCalls, Slots
  <2> HIDE DEF c
  <2>4. PICK q : q = Free(f, "arrived").calls
    OBVIOUS
  <2>a. q = Append(Append(<<>>, c), c)
    BY <2>1, <2>2, <2>4
  <2>5. Len(q) = 2 /\ q[1] = c /\ q[2] = c
    BY ONLY <2>3, <2>a, TwoCalls
  <2>6. Discards(q)
    BY <2>5 DEF c, Discards
  <2> QED BY <2>4, <2>6 DEF f
<1>2. ASSUME NEW t \in Station, t.calls = <<>>, SamePackets(s, t), t.phy = s.phy,
             t.out = s.out, t.timer["tX"] = s.timer["tX"], Ours(t) = Ours(s),
             u = Free(Free(t, "arrived"), "arrived")
      PROVE  /\ u \in Station /\ SamePackets(s, u) /\ u.out = s.out
             /\ s.phy = "TXing" => u.phy = "TXing" /\ u.timer["tX"] = s.timer["tX"]
             /\ Discards(u.calls) /\ Ours(u) = Ours(s)
  <2> DEFINE f == Free(t, "arrived")
             g == Free(f, "arrived")
  <2>1. Discards(g.calls)
    BY <1>1, <1>2
  <2>2. /\ f \in Station /\ SamePackets(t, f) /\ f.phy = t.phy /\ f.out = t.out
        /\ f.timer["tX"] = t.timer["tX"] /\ Ours(f) = Ours(t)
    BY <1>0, FreedIs
  <2>a. u = g
    BY <1>2
  <2> HIDE DEF f
  <2>3. /\ g \in Station /\ SamePackets(f, g) /\ g.phy = f.phy /\ g.out = f.out
        /\ g.timer["tX"] = f.timer["tX"] /\ Ours(g) = Ours(f)
    BY <1>0, <2>2, FreedIs
  <2> HIDE DEF g, u
  <2> QED BY <1>2, <2>1, <2>2, <2>3, <2>a DEF SamePackets
<1>3. CASE s.phy = "TXing"
  <2>1. u = Free(Free(s, "arrived"), "arrived") /\ SamePackets(s, s)
    BY <1>3 DEF Recv, SendUp, SamePackets
  <2> QED BY <1>2, <2>1
<1>4. CASE s.phy \in {"PreRXing", "RXing"}
  <2>1. u = Free(Free(x, "arrived"), "arrived")
    BY <1>4 DEF Recv, SendUp
  <2>2. Touches(s, x, {"rxError"}, {})
    BY ErrorEffect
  <2> HIDE DEF x
  <2>3. {"rxError"} \subseteq (Fields \ Booked) \cup {"calls"} /\ "tX" \notin {}
    BY DEF Fields, Booked
  <2>4. /\ x \in Station /\ x.id = s.id /\ x.phy = s.phy /\ x.pDATA = s.pDATA
        /\ x.pRTS = s.pRTS /\ x.pCTRL = s.pCTRL /\ x.out = s.out
        /\ x.timer["tX"] = s.timer["tX"] /\ Ours(x) = Ours(s)
    BY <2>2, <2>3, BookedFields, Zenon
  <2>5. x.calls = <<>> /\ SamePackets(s, x)
    BY <2>2, <2>4 DEF Touches, Fields, SamePackets
  <2> HIDE DEF u
  <2> QED BY <1>2, <2>1, <2>4, <2>5 DEF u
<1>5. CASE s.phy = "SEARCHING"
  <2> DEFINE a == Alloc(s, "pktRX")
             h == [a EXCEPT !.pktRX = p, !.rxError = FALSE]
             i == SetState(h, "PreRXing", in)
             j == Sched(i, "preRX", HeaderDuration)
             c == <<"alloc", "pktRX">>
             d == <<"free", "arrived">>
  <2>1. u = Free(j, "arrived")
    BY <1>5 DEF Recv, SendUp
  <2>2. Touches(s, a, {"calls"}, {}) /\ a.calls = Append(<<>>, c)
    BY <1>0, CallIs DEF Alloc
  <2> HIDE DEF a
  <2>3. Touches(a, h, {"pktRX", "rxError"}, {})
    <3>1. a \in Station
      BY <2>2 DEF Touches
    <3> QED BY <3>1, HeldEffect
  <2> HIDE DEF h
  <2>4. Retunes(h, i) /\ i.phy = "PreRXing"
    <3>1. h \in Station
      BY <2>3 DEF Touches
    <3> QED BY <1>0, <3>1, SetStateSpares
  <2> HIDE DEF i
  <2>5. Spares(i, j)
    <3>1. i \in Station
      BY <2>4 DEF Retunes, Touches
    <3> QED BY <1>0, <3>1, TimerSpares
  <2> HIDE DEF j
  <2>6. /\ j \in Station /\ j.id = s.id /\ j.pDATA = s.pDATA /\ j.pRTS = s.pRTS
        /\ j.pCTRL = s.pCTRL /\ j.out = s.out /\ j.phy = "PreRXing" /\ j.calls = a.calls
    BY <2>2, <2>3, <2>4, <2>5 DEF Spares, Retunes, Touches, Fields, Booked
  <2>7. Ours(j) = Ours(s) \cup {"pktRX"} /\ "pktRX" \notin Ours(s)
    BY <1>5, <2>6 DEF Ours, Kept
  <2>8. /\ u \in Station /\ SamePackets(j, u) /\ u.phy = j.phy /\ u.out = j.out
        /\ Ours(u) = Ours(j) /\ u.calls = Append(j.calls, d)
    BY <1>0, <2>1, <2>6, FreedIs
  <2>9. c \in PoolCalls /\ d \in PoolCalls
    BY DEF PoolCalls, Slots
  <2> HIDE DEF u, c, d
  <2>10. Accepts(u.calls)
    <3>1. Len(u.calls) = 2 /\ u.calls[1] = c /\ u.calls[2] = d
      BY <2>2, <2>6, <2>8, <2>9, TwoCalls
    <3> QED BY <3>1 DEF Accepts, c, d
  <2> QED BY <1>5, <2>6, <2>7, <2>8, <2>10 DEF SamePackets, u
<1> QED BY <1>0, <1>3, <1>4, <1>5 DEF PhyStates


-----------------------------------------------------------------------------
(* The accounts of the pool while the calls of a handler are made *)

\* What holds of the first index and goes from each to the next holds of all.
LEMMA Stepwise ==
  ASSUME NEW N \in Nat, NEW S, 0 \in S, \A k \in 1 .. N : k - 1 \in S => k \in S
  PROVE  \A k \in 0 .. N : k \in S
<1> DEFINE Bad == {k \in 0 .. N : k \notin S}
<1>1. SUFFICES ASSUME Bad # {} PROVE FALSE
  OBVIOUS
<1>2. PICK k \in Bad : \A j \in Bad : k <= j
  <2>1. Bad \in SUBSET Nat
    OBVIOUS
  <2> HIDE DEF Bad
  <2> QED BY <1>1, <2>1, Least
<1>3. k \in 0 .. N /\ k \notin S /\ k # 0
  OBVIOUS
<1>4. k \in 1 .. N /\ k - 1 \in 0 .. N /\ ~(k <= k - 1)
  BY <1>3
<1>5. k - 1 \in S
  BY <1>2, <1>4
<1> QED BY <1>3, <1>4, <1>5

\* The packets in use, U, are those of others, O, and without repetition those
\* that the slots H point to and those sent to the stations D; the packets in
\* the event queue, V, are those of others that are, Q, and the ones sent.
Balance(U, V, points, sent, H, D, O, Q) ==
    /\ H \subseteq Slots /\ D \subseteq Nodes
    /\ Q \subseteq O
    /\ \A p : p \in U <=> \/ p \in O
                          \/ \E k \in H : points[k] = p
                          \/ \E to \in D : sent[to] = p
    /\ \A p : p \in V <=> p \in Q \/ \E to \in D : sent[to] = p
    /\ \A k \in H : points[k] \notin O
    /\ \A to \in D : sent[to] \notin O
    /\ \A j, k \in H : points[j] = points[k] => j = k
    /\ \A k \in H, to \in D : points[k] # sent[to]
    /\ \A to, o \in D : sent[to] = sent[o] => to = o
    /\ \A to \in Nodes \ D : sent[to] = 0

\* A packet that is not in use may go to a slot that owns none,
LEMMA BalanceAlloc ==
  ASSUME NEW U, NEW V, NEW P \in [Slots -> Nat], NEW S, NEW H, NEW D, NEW O, NEW Q,
         Balance(U, V, P, S, H, D, O, Q), NEW p, p \notin U, NEW slot \in Slots, slot \notin H
  PROVE  Balance(U \cup {p}, V, [P EXCEPT ![slot] = p], S, H \cup {slot}, D, O, Q)
<1> DEFINE R == [P EXCEPT ![slot] = p]
<1>1. /\ H \subseteq Slots /\ D \subseteq Nodes /\ Q \subseteq O
      /\ \A x : x \in U <=> x \in O \/ (\E k \in H : P[k] = x) \/ \E to \in D : S[to] = x
      /\ \A x : x \in V <=> x \in Q \/ \E to \in D : S[to] = x
      /\ \A k \in H : P[k] \notin O
      /\ \A to \in D : S[to] \notin O
      /\ \A j, k \in H : P[j] = P[k] => j = k
      /\ \A k \in H, to \in D : P[k] # S[to]
      /\ \A to, o \in D : S[to] = S[o] => to = o
      /\ \A to \in Nodes \ D : S[to] = 0
  BY DEF Balance
<1>2. R[slot] = p /\ \A k \in H : R[k] = P[k] /\ k # slot
  BY <1>1
<1> HIDE DEF R
<1>3. p \notin O /\ (\A k \in H : P[k] # p) /\ \A to \in D : S[to] # p
  BY <1>1
<1>4. \A x : x \in U \cup {p} <=> \/ x \in O
                                  \/ \E k \in H \cup {slot} : R[k] = x
                                  \/ \E to \in D : S[to] = x
  BY <1>1, <1>2
<1>5. \A j, k \in H \cup {slot} : R[j] = R[k] => j = k
  BY <1>1, <1>2, <1>3
<1>6. \A k \in H \cup {slot} : R[k] \notin O /\ \A to \in D : R[k] # S[to]
  BY <1>1, <1>2, <1>3
<1> QED BY <1>1, <1>4, <1>5, <1>6 DEF Balance, R

\* a slot that owns one may give it back, which is then not in the queue,
LEMMA BalanceFree ==
  ASSUME NEW U, NEW V, NEW P, NEW S, NEW H, NEW D, NEW O, NEW Q,
         Balance(U, V, P, S, H, D, O, Q), NEW slot \in H
  PROVE  /\ P[slot] \in U /\ P[slot] \notin V
         /\ Balance(U \ {P[slot]}, V, P, S, H \ {slot}, D, O, Q)
<1>1. /\ H \subseteq Slots /\ D \subseteq Nodes /\ Q \subseteq O
      /\ \A x : x \in U <=> x \in O \/ (\E k \in H : P[k] = x) \/ \E to \in D : S[to] = x
      /\ \A x : x \in V <=> x \in Q \/ \E to \in D : S[to] = x
      /\ \A k \in H : P[k] \notin O
      /\ \A to \in D : S[to] \notin O
      /\ \A j, k \in H : P[j] = P[k] => j = k
      /\ \A k \in H, to \in D : P[k] # S[to]
      /\ \A to, o \in D : S[to] = S[o] => to = o
      /\ \A to \in Nodes \ D : S[to] = 0
  BY DEF Balance
<1>2. P[slot] \in U /\ P[slot] \notin V
  BY <1>1
<1>3. \A x : x \in U \ {P[slot]} <=> \/ x \in O
                                     \/ \E k \in H \ {slot} : P[k] = x
                                     \/ \E to \in D : S[to] = x
  BY <1>1
<1>4. H \ {slot} \subseteq H
  OBVIOUS
<1> QED BY <1>1, <1>2, <1>3, <1>4 DEF Balance

\* and it may be sent to a station that was sent none.
LEMMA BalanceCopy ==
  ASSUME NEW U, NEW V, NEW P, NEW S \in [Nodes -> Nat], NEW H, NEW D, NEW O, NEW Q,
         Balance(U, V, P, S, H, D, O, Q), NEW p, p \notin U, NEW to \in Nodes, to \notin D
  PROVE  /\ p \notin V
         /\ Balance(U \cup {p}, V \cup {p}, P, [S EXCEPT ![to] = p], H, D \cup {to}, O, Q)
<1> DEFINE R == [S EXCEPT ![to] = p]
<1>1. /\ H \subseteq Slots /\ D \subseteq Nodes /\ Q \subseteq O
      /\ \A x : x \in U <=> x \in O \/ (\E k \in H : P[k] = x) \/ \E o \in D : S[o] = x
      /\ \A x : x \in V <=> x \in Q \/ \E o \in D : S[o] = x
      /\ \A k \in H : P[k] \notin O
      /\ \A o \in D : S[o] \notin O
      /\ \A j, k \in H : P[j] = P[k] => j = k
      /\ \A k \in H, o \in D : P[k] # S[o]
      /\ \A d, o \in D : S[d] = S[o] => d = o
      /\ \A o \in Nodes \ D : S[o] = 0
  BY DEF Balance
<1>2. R[to] = p /\ \A o \in Nodes : o # to => R[o] = S[o]
  OBVIOUS
<1> HIDE DEF R
<1>3. p \notin O /\ (\A k \in H : P[k] # p) /\ (\A o \in D : S[o] # p) /\ p \notin V
  BY <1>1
<1>4. \A o \in D : R[o] = S[o] /\ o # to
  BY <1>1, <1>2
<1>5. \A x : x \in U \cup {p} <=> \/ x \in O
                                  \/ \E k \in H : P[k] = x
                                  \/ \E o \in D \cup {to} : R[o] = x
  BY <1>1, <1>2, <1>4
<1>6. \A x : x \in V \cup {p} <=> x \in Q \/ \E o \in D \cup {to} : R[o] = x
  BY <1>1, <1>2, <1>4
<1>7. \A d, o \in D \cup {to} : R[d] = R[o] => d = o
  BY <1>1, <1>2, <1>3, <1>4
<1>8. \A o \in D \cup {to} : R[o] \notin O /\ \A k \in H : P[k] # R[o]
  BY <1>1, <1>2, <1>3, <1>4
<1>9. \A o \in Nodes \ (D \cup {to}) : R[o] = 0
  BY <1>1, <1>2
<1> QED BY <1>1, <1>3, <1>5, <1>6, <1>7, <1>8, <1>9 DEF Balance, R

\* What the operations of the pool do to the packets in use and in the queue.
LEMMA AllocParts ==
  ASSUME NEW q \in SoundPools, q.queued \subseteq q.used
  PROVE  /\ AllocPacket(q).used = q.used \cup {Allocated(q)}
         /\ AllocPacket(q).queued = q.queued
         /\ AllocPacket(q).failed = q.failed
<1> DEFINE p == Allocated(q)
           r == AllocPacket(q)
<1>1. p \notin q.used
  BY AllocatedIs
<1>2. q \in Pool /\ q.failed \in BOOLEAN
  BY DEF SoundPools, Pool
<1>3. r = IF q.free = <<>>
          THEN [q EXCEPT !.made = p, !.used = @ \cup {p}]
          ELSE [q EXCEPT !.free = Tail(@), !.used = @ \cup {p}, !.queued = @ \ {p},
                         !.failed = @ \/ p \in q.used]
  BY Zenon DEF AllocPacket
<1> HIDE DEF p, r
<1>4. PICK U, V, F : U = q.used \cup {p} /\ V = q.queued \ {p} /\ F = Tail(q.free)
  OBVIOUS
<1>5. (q.failed \/ p \in q.used) = q.failed /\ V = q.queued
  BY <1>1, <1>2, <1>4
<1>6. r = IF q.free = <<>> THEN [q EXCEPT !.made = p, !.used = U]
          ELSE [q EXCEPT !.free = F, !.used = U, !.queued = V, !.failed = q.failed]
  BY <1>3, <1>4, <1>5
<1>7. CASE q.free = <<>>
  <2>1. r.used = U /\ r.queued = q.queued /\ r.failed = q.failed
    BY <1>2, <1>6, <1>7 DEF Pool
  <2> QED BY <1>4, <2>1 DEF p, r
<1>8. CASE q.free # <<>>
  <2>1. r.used = U /\ r.queued = V /\ r.failed = q.failed
    BY <1>2, <1>6, <1>8 DEF Pool
  <2> QED BY <1>4, <1>5, <2>1 DEF p, r
<1> QED BY <1>7, <1>8

\* Packet::free of a packet in use that is not in the queue fails no assertion.
LEMMA FreeParts ==
  ASSUME NEW q \in SoundPools, NEW p, p \in q.used, p \notin q.queued
  PROVE  /\ FreePacket(q, p).used = q.used \ {p}
         /\ FreePacket(q, p).queued = q.queued
         /\ FreePacket(q, p).failed = q.failed
<1>1. q \in Pool /\ q.failed \in BOOLEAN
  BY DEF SoundPools, Pool
<1>2. PICK U, F, r : U = q.used \ {p} /\ F = <<p>> \o q.free /\ r = FreePacket(q, p)
  OBVIOUS
<1>3. (q.failed \/ p \in q.queued) = q.failed
  BY <1>1
<1>4. r = [q EXCEPT !.free = F, !.used = U, !.failed = q.failed]
  BY <1>2, <1>3 DEF FreePacket
<1>5. r.used = U /\ r.queued = q.queued /\ r.failed = q.failed
  BY <1>1, <1>4 DEF Pool
<1> QED BY <1>2, <1>5

\* Scheduler::schedule of a packet that is not in the queue fails none either.
LEMMA EnqueueParts ==
  ASSUME NEW q \in SoundPools, NEW p, p \notin q.queued
  PROVE  /\ Enqueue(q, p).used = q.used
         /\ Enqueue(q, p).queued = q.queued \cup {p}
         /\ Enqueue(q, p).failed = q.failed
<1>1. q \in Pool /\ q.failed \in BOOLEAN
  BY DEF SoundPools, Pool
<1>2. PICK V, r : V = q.queued \cup {p} /\ r = Enqueue(q, p)
  OBVIOUS
<1>3. (q.failed \/ p \in q.queued) = q.failed
  BY <1>1
<1>4. r = [q EXCEPT !.queued = V, !.failed = q.failed]
  BY <1>2, <1>3 DEF Enqueue
<1>5. r.used = q.used /\ r.queued = V /\ r.failed = q.failed
  BY <1>1, <1>4 DEF Pool
<1> QED BY <1>2, <1>5

\* The accounts balance and no assertion has failed.
Balanced(m, H, D, O, Q) ==
    /\ m \in Memories /\ ~m.pool.failed
    /\ Balance(m.pool.used, m.pool.queued, m.points, m.sent, H, D, O, Q)

\* What is in the queue is in use.
LEMMA BalancedParts ==
  ASSUME NEW m, NEW H, NEW D, NEW O, NEW Q, Balanced(m, H, D, O, Q)
  PROVE  /\ m \in Memories /\ m.pool \in SoundPools /\ m.points \in [Slots -> Nat]
         /\ m.sent \in [Nodes -> Nat] /\ m.pool.queued \subseteq m.pool.used
         /\ m = [pool |-> m.pool, points |-> m.points, sent |-> m.sent]
<1>1. m \in Memories /\ Balance(m.pool.used, m.pool.queued, m.points, m.sent, H, D, O, Q)
  BY Zenon DEF Balanced
<1>2. \A p \in m.pool.queued : p \in m.pool.used
  BY <1>1 DEF Balance
<1> QED BY <1>1, <1>2, MemoryFields

\* They do after each call of Packet::alloc,
LEMMA BalancedAlloc ==
  ASSUME NEW n, NEW m, NEW H, NEW D, NEW O, NEW Q, Balanced(m, H, D, O, Q),
         NEW call, call[1] = "alloc", call[2] \in Slots, call[2] \notin H
  PROVE  Balanced(Perform(n, m, call), H \cup {call[2]}, D, O, Q)
<1> DEFINE slot == call[2]
<1>0. /\ m \in Memories /\ m.pool \in SoundPools /\ m.points \in [Slots -> Nat]
      /\ m.sent \in [Nodes -> Nat] /\ m.pool.queued \subseteq m.pool.used
      /\ m = [pool |-> m.pool, points |-> m.points, sent |-> m.sent]
  BY BalancedParts
<1>1. PICK q, p, P : /\ q = AllocPacket(m.pool) /\ p = Allocated(m.pool)
                     /\ P = [m.points EXCEPT ![slot] = p]
  OBVIOUS
<1>2. PICK r : r = [m EXCEPT !.pool = q, !.points = P]
  OBVIOUS
<1>3. Perform(n, m, call) = r
  BY <1>0, <1>1, <1>2 DEF Perform
<1>4. r.pool = q /\ r.points = P /\ r.sent = m.sent /\ r = [pool |-> q, points |-> P, sent |-> m.sent]
  BY <1>0, <1>2
<1>5. q \in SoundPools /\ p \in Packets /\ p \notin m.pool.used
  BY <1>0, <1>1, AllocatedIs
<1>6. q.used = m.pool.used \cup {p} /\ q.queued = m.pool.queued /\ q.failed = m.pool.failed
  BY <1>0, <1>1, AllocParts
<1>7. P \in [Slots -> Nat]
  BY <1>0, <1>1, <1>5 DEF Packets
<1>8. r \in Memories
  BY <1>0, <1>4, <1>5, <1>7, Zenon DEF Memories
<1>9. Balance(m.pool.used, m.pool.queued, m.points, m.sent, H, D, O, Q) /\ ~m.pool.failed
  BY Zenon DEF Balanced
<1>10. Balance(q.used, q.queued, P, m.sent, H \cup {slot}, D, O, Q)
  BY <1>0, <1>1, <1>5, <1>6, <1>9, BalanceAlloc
<1> QED BY <1>3, <1>4, <1>6, <1>8, <1>9, <1>10, Zenon DEF Balanced

\* after each of Packet::free for a slot that owns a packet,
LEMMA BalancedFree ==
  ASSUME NEW m, NEW H, NEW D, NEW O, NEW Q, Balanced(m, H, D, O, Q), NEW slot \in H
  PROVE  Balanced([m EXCEPT !.pool = FreePacket(@, m.points[slot])], H \ {slot}, D, O, Q)
<1>0. /\ m \in Memories /\ m.pool \in SoundPools /\ m.points \in [Slots -> Nat]
      /\ m.sent \in [Nodes -> Nat] /\ m.pool.queued \subseteq m.pool.used
      /\ m = [pool |-> m.pool, points |-> m.points, sent |-> m.sent]
  BY BalancedParts
<1>1. PICK q, p : p = m.points[slot] /\ q = FreePacket(m.pool, p)
  OBVIOUS
<1>2. PICK r : r = [m EXCEPT !.pool = q]
  OBVIOUS
<1>3. [m EXCEPT !.pool = FreePacket(@, m.points[slot])] = r
  BY <1>1, <1>2
<1>4. r.pool = q /\ r.points = m.points /\ r.sent = m.sent
      /\ r = [pool |-> q, points |-> m.points, sent |-> m.sent]
  BY <1>0, <1>2
<1>5. q \in SoundPools
  BY <1>0, <1>1, FreeIs
<1>6. Balance(m.pool.used, m.pool.queued, m.points, m.sent, H, D, O, Q) /\ ~m.pool.failed
  BY Zenon DEF Balanced
<1>7. /\ p \in m.pool.used /\ p \notin m.pool.queued
      /\ Balance(m.pool.used \ {p}, m.pool.queued, m.points, m.sent, H \ {slot}, D, O, Q)
  BY <1>1, <1>6, BalanceFree
<1>8. q.used = m.pool.used \ {p} /\ q.queued = m.pool.queued /\ q.failed = m.pool.failed
  BY <1>0, <1>1, <1>7, FreeParts
<1>9. r \in Memories
  BY <1>0, <1>4, <1>5, Zenon DEF Memories
<1>10. Balance(q.used, q.queued, m.points, m.sent, H \ {slot}, D, O, Q)
  BY <1>7, <1>8, Zenon
<1> QED BY <1>3, <1>4, <1>6, <1>8, <1>9, <1>10, Zenon DEF Balanced

\* after each copy of Channel::sendUp,
LEMMA BalancedCopy ==
  ASSUME NEW m, NEW H, NEW D, NEW O, NEW Q, Balanced(m, H, D, O, Q),
         NEW to \in Nodes, to \notin D
  PROVE  /\ Balanced(SendUpCopy(m, to), H, D \cup {to}, O, Q)
         /\ SendUpCopy(m, to).points = m.points
<1>0. /\ m \in Memories /\ m.pool \in SoundPools /\ m.points \in [Slots -> Nat]
      /\ m.sent \in [Nodes -> Nat] /\ m.pool.queued \subseteq m.pool.used
      /\ m = [pool |-> m.pool, points |-> m.points, sent |-> m.sent]
  BY BalancedParts
<1>1. PICK a, q, p, S : /\ a = AllocPacket(m.pool) /\ p = Allocated(m.pool)
                        /\ q = Enqueue(a, p) /\ S = [m.sent EXCEPT ![to] = p]
  OBVIOUS
<1>2. PICK r : r = [m EXCEPT !.pool = q, !.sent = S]
  OBVIOUS
<1>3. SendUpCopy(m, to) = r
  BY <1>0, <1>1, <1>2 DEF SendUpCopy
<1>4. r.pool = q /\ r.points = m.points /\ r.sent = S
      /\ r = [pool |-> q, points |-> m.points, sent |-> S]
  BY <1>0, <1>2
<1>5. a \in SoundPools /\ p \in Packets /\ p \notin m.pool.used
  BY <1>0, <1>1, AllocatedIs
<1>6. a.used = m.pool.used \cup {p} /\ a.queued = m.pool.queued /\ a.failed = m.pool.failed
  BY <1>0, <1>1, AllocParts
<1>7. q \in SoundPools
  BY <1>1, <1>5, QueueIs
<1>8. Balance(m.pool.used, m.pool.queued, m.points, m.sent, H, D, O, Q) /\ ~m.pool.failed
  BY Zenon DEF Balanced
<1>9. /\ p \notin m.pool.queued
      /\ Balance(m.pool.used \cup {p}, m.pool.queued \cup {p}, m.points, S, H, D \cup {to}, O, Q)
  BY <1>0, <1>1, <1>5, <1>8, BalanceCopy
<1>10. q.used = a.used /\ q.queued = a.queued \cup {p} /\ q.failed = a.failed
  BY <1>1, <1>5, <1>6, <1>9, EnqueueParts
<1>11. S \in [Nodes -> Nat]
  BY <1>0, <1>1, <1>5 DEF Packets
<1>12. r \in Memories
  BY <1>0, <1>4, <1>7, <1>11, Zenon DEF Memories
<1>13. Balance(q.used, q.queued, m.points, S, H, D \cup {to}, O, Q)
  BY <1>6, <1>9, <1>10, Zenon
<1> QED BY <1>3, <1>4, <1>6, <1>8, <1>10, <1>12, <1>13, Zenon DEF Balanced

\* The list of the other interfaces names each of them, once.
LEMMA InterfacesAre ==
  ASSUME NEW n \in Nodes
  PROVE  LET q == SX!SetToSeq(Nodes \ {n})
         IN  /\ \A k \in 1 .. Len(q) : q[k] \in Nodes \ {n}
             /\ \A j, k \in 1 .. Len(q) : q[j] = q[k] => j = k
             /\ \A to \in Nodes \ {n} : \E k \in 1 .. Len(q) : q[k] = to
<1> DEFINE S == Nodes \ {n}
           N == Cardinality(S)
           q == SX!SetToSeq(S)
<1>1. IsFiniteSet(S)
  BY NodesAssumption, FS_Subset
<1>2. N \in Nat /\ ExistsBijection(1 .. N, S)
  BY <1>1, FS_CardinalityType
<1>3. \E f \in [1 .. N -> S] : SX!IsInjective(f)
  <2>1. PICK f \in Bijection(1 .. N, S) : TRUE
    BY <1>2 DEF ExistsBijection
  <2>2. f \in [1 .. N -> S] /\ \A a, b \in 1 .. N : f[a] = f[b] => a = b
    BY <2>1 DEF Bijection, Injection, IsInjective
  <2>3. DOMAIN f = 1 .. N
    BY <2>2
  <2>4. SX!IsInjective(f)
    BY <2>2, <2>3, Zenon DEF SX!IsInjective
  <2> QED BY <2>2, <2>4
<1>4. q \in [1 .. N -> S] /\ SX!IsInjective(q)
  <2>1. q = CHOOSE f \in [1 .. N -> S] : SX!IsInjective(f)
    <3>1. SX!Cardinality(S) = Cardinality(S)
      BY Zenon DEF SX!Cardinality, Cardinality
    <3> QED BY <3>1, Zenon DEF SX!SetToSeq
  <2> HIDE DEF q, S, N
  <2> QED BY <1>3, <2>1, Zenon
<1> HIDE DEF q, S, N
<1>5. Len(q) = N /\ DOMAIN q = 1 .. N
  BY <1>2, <1>4
<1>6. \A j, k \in 1 .. N : q[j] = q[k] => j = k
  BY <1>4, <1>5, Zenon DEF SX!IsInjective
<1>7. q \in Injection(1 .. N, S)
  BY <1>4, <1>5, <1>6, Zenon DEF Injection, IsInjective
<1>8. Cardinality(1 .. N) = N
  <2>1. 1 \in Int /\ N \in Int
    BY <1>2
  <2>2. Cardinality(1 .. N) = IF 1 > N THEN 0 ELSE N - 1 + 1
    BY <2>1, FS_Interval
  <2> QED BY <1>2, <2>2
<1>9. q \in Surjection(1 .. N, S)
  <2>1. Cardinality(1 .. N) = Cardinality(S)
    BY <1>8 DEF N
  <2> QED BY <1>1, <1>7, <2>1, FS_Injection
<1>10. \A to \in S : \E k \in 1 .. N : q[k] = to
  BY <1>9 DEF Surjection
<1>11. \A k \in 1 .. N : q[k] \in S
  BY <1>4
<1> QED BY <1>5, <1>6, <1>10, <1>11 DEF q, S

\* after Channel::sendUp,
LEMMA BalancedSend ==
  ASSUME NEW n \in Nodes, NEW m, NEW H, NEW O, NEW Q, Balanced(m, H, {}, O, Q), "sent" \in H
  PROVE  Balanced(ChannelSendUp(m, Nodes \ {n}), H \ {"sent"}, Nodes \ {n}, O, Q)
<1> DEFINE q == SX!SetToSeq(Nodes \ {n})
           N == Len(q)
           c == SX!FoldLeft(SendUpCopy, m, q)
<1>0. m \in Memories
  BY Zenon DEF Balanced
<1>1. PICK h \in [0 .. N -> Memories] :
        /\ h[0] = m /\ h[N] = c
        /\ \A k \in 1 .. N : h[k] = SendUpCopy(h[k - 1], q[k])
  BY <1>0, CopiesAre
<1>2. ChannelSendUp(m, Nodes \ {n}) = [c EXCEPT !.pool = FreePacket(@, m.points["sent"])]
  BY DEF ChannelSendUp
<1>3. /\ \A k \in 1 .. N : q[k] \in Nodes \ {n}
      /\ \A j, k \in 1 .. N : q[j] = q[k] => j = k
      /\ \A to \in Nodes \ {n} : \E k \in 1 .. N : q[k] = to
  BY InterfacesAre
<1>4. N \in Nat
  BY InterfacesIs
<1> HIDE DEF q, c, N
<1> DEFINE D(k) == {q[j] : j \in 1 .. k}
           S == {k \in 0 .. N : Balanced(h[k], H, D(k), O, Q) /\ h[k].points = m.points}
<1>5. 0 \in S
  <2>1. D(0) = {}
    OBVIOUS
  <2>2. 0 \in 0 .. N
    BY <1>4
  <2> HIDE DEF D
  <2> QED BY <1>1, <2>1, <2>2
<1>6. ASSUME NEW k \in 1 .. N, k - 1 \in S PROVE k \in S
  <2>1. k \in 0 .. N /\ k - 1 \in 0 .. N /\ k \in Nat
    BY <1>4
  <2>2. Balanced(h[k - 1], H, D(k - 1), O, Q) /\ h[k - 1].points = m.points
    BY <1>6
  <2>3. q[k] \in Nodes /\ q[k] \notin D(k - 1)
    <3>1. \A j \in 1 .. k - 1 : j \in 1 .. N /\ j # k
      BY <2>1, <1>4
    <3> QED BY <1>3, <3>1
  <2>4. D(k) = D(k - 1) \cup {q[k]}
    <3>1. \A j : j \in 1 .. k <=> j \in 1 .. k - 1 \/ j = k
      BY <2>1
    <3>2. \A x : x \in D(k) <=> x \in D(k - 1) \cup {q[k]}
      BY <3>1
    <3> HIDE DEF D
    <3> QED BY <3>2
  <2>5. h[k] = SendUpCopy(h[k - 1], q[k])
    BY <1>1
  <2> HIDE DEF D
  <2>6. Balanced(h[k], H, D(k), O, Q) /\ h[k].points = m.points
    BY <2>2, <2>3, <2>4, <2>5, BalancedCopy
  <2> QED BY <2>1, <2>6
<1>7. N \in S
  <2>1. N \in 0 .. N
    BY <1>4
  <2> HIDE DEF S
  <2> QED BY ONLY <1>4, <1>5, <1>6, <2>1, Stepwise
<1>8. D(N) = Nodes \ {n}
  <2>1. \A x : x \in D(N) <=> x \in Nodes \ {n}
    BY <1>3
  <2> HIDE DEF D
  <2> QED BY <2>1
<1>9. Balanced(c, H, Nodes \ {n}, O, Q) /\ c.points = m.points
  <2>1. Balanced(h[N], H, D(N), O, Q) /\ h[N].points = m.points
    BY <1>7
  <2> HIDE DEF D, S
  <2> QED BY <1>1, <1>8, <2>1
<1>10. Balanced([c EXCEPT !.pool = FreePacket(@, c.points["sent"])], H \ {"sent"}, Nodes \ {n}, O, Q)
  BY <1>9, BalancedFree
<1> QED BY <1>2, <1>9, <1>10

\* The stations a handler has sent its packet to.
Sent(n, l) == IF l.sent THEN Nodes \ {n} ELSE {}

\* after each call that its books allow,
LEMMA BalancedLegal ==
  ASSUME NEW n \in Nodes, NEW m, NEW l \in Ledgers, NEW r \in Ledgers, NEW O, NEW Q,
         Balanced(m, l.held, Sent(n, l), O, Q), NEW call \in PoolCalls, Legal(l, call, r)
  PROVE  Balanced(Perform(n, m, call), r.held, Sent(n, r), O, Q)
<1>0. call[2] \in Slots
  BY DEF PoolCalls
<1>1. CASE call[1] = "alloc" /\ call[2] \notin l.held /\ r.held = l.held \cup {call[2]}
           /\ r.sent = l.sent
  BY <1>0, <1>1, BalancedAlloc DEF Sent
<1>2. CASE call[1] = "free" /\ call[2] \in l.held /\ r.held = l.held \ {call[2]}
           /\ r.sent = l.sent
  <2>1. Perform(n, m, call) = [m EXCEPT !.pool = FreePacket(@, m.points[call[2]])]
    BY <1>2 DEF Perform
  <2> QED BY <1>2, <2>1, BalancedFree DEF Sent
<1>3. CASE call[1] = "send" /\ "sent" \in l.held /\ ~l.sent /\ r.held = l.held \ {"sent"}
           /\ r.sent = TRUE
  <2>1. Perform(n, m, call) = ChannelSendUp(m, Nodes \ {n})
    BY <1>3 DEF Perform
  <2>2. Sent(n, l) = {} /\ Sent(n, r) = Nodes \ {n}
    BY <1>3 DEF Sent
  <2>3. PICK H : H = l.held
    OBVIOUS
  <2>4. Balanced(m, H, {}, O, Q) /\ "sent" \in H
    BY <1>3, <2>2, <2>3
  <2>5. Balanced(ChannelSendUp(m, Nodes \ {n}), H \ {"sent"}, Nodes \ {n}, O, Q)
    BY <2>4, BalancedSend
  <2> QED BY <1>3, <2>1, <2>2, <2>3, <2>5
<1> QED BY <1>1, <1>2, <1>3 DEF Legal

\* and after all of them.
LEMMA BalancedBooks ==
  ASSUME NEW n \in Nodes, NEW m, NEW l \in Ledgers, NEW r \in Ledgers, NEW O, NEW Q,
         Balanced(m, l.held, Sent(n, l), O, Q), NEW calls \in Seq(PoolCalls), Books(l, calls, r)
  PROVE  Balanced(Performed(n, m, calls), r.held, Sent(n, r), O, Q)
<1>0. m \in Memories
  BY Zenon DEF Balanced
<1>1. PICK N \in Nat : N = Len(calls)
  OBVIOUS
<1>2. PICK h \in [0 .. N -> Memories] :
        /\ h[0] = m /\ h[N] = Performed(n, m, calls)
        /\ \A k \in 1 .. N : h[k] = Perform(n, h[k - 1], calls[k])
  BY <1>0, <1>1, PerformedAre
<1>3. PICK g \in [0 .. N -> Ledgers] :
        g[0] = l /\ g[N] = r /\ \A k \in 1 .. N : Legal(g[k - 1], calls[k], g[k])
  BY <1>1 DEF Books
<1> DEFINE S == {k \in 0 .. N : Balanced(h[k], g[k].held, Sent(n, g[k]), O, Q)}
<1>4. 0 \in S
  <2>1. 0 \in 0 .. N
    BY <1>1
  <2> QED BY <1>2, <1>3, <2>1
<1>5. ASSUME NEW k \in 1 .. N, k - 1 \in S PROVE k \in S
  <2>1. k \in 0 .. N /\ k - 1 \in 0 .. N /\ calls[k] \in PoolCalls
    BY <1>1
  <2>2. Balanced(h[k - 1], g[k - 1].held, Sent(n, g[k - 1]), O, Q)
    BY <1>5
  <2>3. g[k - 1] \in Ledgers /\ g[k] \in Ledgers
    BY <1>3, <2>1
  <2>4. Legal(g[k - 1], calls[k], g[k]) /\ h[k] = Perform(n, h[k - 1], calls[k])
    BY <1>2, <1>3
  <2>5. Balanced(h[k], g[k].held, Sent(n, g[k]), O, Q)
    BY <2>1, <2>2, <2>3, <2>4, BalancedLegal
  <2> QED BY <2>1, <2>5
<1>6. N \in S
  <2>1. N \in 0 .. N
    BY <1>1
  <2> HIDE DEF S
  <2> QED BY ONLY <1>1, <1>4, <1>5, <2>1, Stepwise
<1>7. Balanced(h[N], g[N].held, Sent(n, g[N]), O, Q)
  BY <1>6
<1> QED BY <1>2, <1>3, <1>7

\* A packet freed a second time stays as it is.
LEMMA FreedTwice ==
  ASSUME NEW m, NEW H, NEW D, NEW O, NEW Q, Balanced(m, H, D, O, Q), NEW slot \in H,
         NEW n, NEW call, call = <<"free", slot>>, NEW r, r = Perform(n, m, call)
  PROVE  Perform(n, r, call) = r
<1>0. /\ m \in Memories /\ m.pool \in SoundPools /\ m.points \in [Slots -> Nat]
      /\ m.sent \in [Nodes -> Nat] /\ m.pool.queued \subseteq m.pool.used
      /\ m = [pool |-> m.pool, points |-> m.points, sent |-> m.sent]
  BY BalancedParts
<1>1. PICK q, p : p = m.points[slot] /\ q = FreePacket(m.pool, p)
  OBVIOUS
<1>2. PICK u : u = [m EXCEPT !.pool = q]
  OBVIOUS
<1>3. u.pool = q /\ u.points = m.points /\ u.sent = m.sent
      /\ u = [pool |-> q, points |-> m.points, sent |-> m.sent]
  BY <1>0, <1>2
<1>4. r = u
  BY <1>1, <1>2 DEF Perform
<1>5. p \in m.pool.used /\ p \notin m.pool.queued
  <2>1. PICK U, V, P, S : /\ U = m.pool.used /\ V = m.pool.queued /\ P = m.points /\ S = m.sent
                          /\ Balance(U, V, P, S, H, D, O, Q)
    BY Zenon DEF Balanced
  <2>2. P[slot] \in U /\ P[slot] \notin V
    <3>1. /\ \A x : x \in U <=> x \in O \/ (\E k \in H : P[k] = x) \/ \E to \in D : S[to] = x
          /\ \A x : x \in V <=> x \in Q \/ \E to \in D : S[to] = x
          /\ Q \subseteq O /\ P[slot] \notin O /\ \A to \in D : P[slot] # S[to]
      BY <2>1 DEF Balance
    <3> QED BY <3>1
  <2> QED BY <1>1, <2>1, <2>2
<1>6. q.used = m.pool.used \ {p}
  BY <1>0, <1>1, <1>5, FreeParts
<1>7. FreePacket(u.pool, u.points[slot]) = u.pool
  BY <1>1, <1>3, <1>6 DEF FreePacket
<1>8. Perform(n, u, call) = [u EXCEPT !.pool = FreePacket(@, u.points[slot])]
  BY DEF Perform
<1>9. [u EXCEPT !.pool = FreePacket(@, u.points[slot])] = u
  BY <1>3, <1>7
<1> QED BY <1>4, <1>8, <1>9

\* WirelessPhy::recv when it takes no packet: the packet that arrived is freed
\* twice, and that is as if it were freed once.
LEMMA BalancedDiscards ==
  ASSUME NEW n \in Nodes, NEW m, NEW H, NEW O, NEW Q,
         Balanced(m, H \cup {"arrived"}, {}, O, Q), "arrived" \notin H,
         NEW calls \in Seq(PoolCalls), Discards(calls)
  PROVE  Balanced(Performed(n, m, calls), H, {}, O, Q)
<1>0. m \in Memories
  BY Zenon DEF Balanced
<1>1. Len(calls) = 2 /\ calls[1] = <<"free", "arrived">> /\ calls[2] = <<"free", "arrived">>
  BY DEF Discards
<1>2. PICK h \in [0 .. 2 -> Memories] :
        /\ h[0] = m /\ h[2] = Performed(n, m, calls)
        /\ \A k \in 1 .. 2 : h[k] = Perform(n, h[k - 1], calls[k])
  BY <1>0, <1>1, PerformedAre
<1>3. h[1] = Perform(n, m, <<"free", "arrived">>)
  <2>1. 1 \in 1 .. 2 /\ 1 - 1 = 0
    OBVIOUS
  <2> QED BY <1>1, <1>2, <2>1
<1>4. h[2] = Perform(n, h[1], <<"free", "arrived">>)
  <2>1. 2 \in 1 .. 2 /\ 2 - 1 = 1
    OBVIOUS
  <2> QED BY <1>1, <1>2, <2>1
<1>5. PICK G : G = H \cup {"arrived"} /\ "arrived" \in G /\ G \ {"arrived"} = H
  OBVIOUS
<1>6. Balanced(h[1], H, {}, O, Q)
  <2>1. Perform(n, m, <<"free", "arrived">>)
          = [m EXCEPT !.pool = FreePacket(@, m.points["arrived"])]
    BY DEF Perform
  <2>2. Balanced([m EXCEPT !.pool = FreePacket(@, m.points["arrived"])], G \ {"arrived"}, {}, O, Q)
    BY <1>5, BalancedFree
  <2> QED BY <1>3, <1>5, <2>1, <2>2
<1>7. h[2] = h[1]
  <2>1. PICK call, r : call = <<"free", "arrived">> /\ r = h[1]
    OBVIOUS
  <2>2. Balanced(m, G, {}, O, Q) /\ r = Perform(n, m, call)
    BY <1>3, <1>5, <2>1
  <2>3. Perform(n, r, call) = r
    BY ONLY <1>5, <2>1, <2>2, FreedTwice
  <2> QED BY <1>4, <2>1, <2>3
<1> QED BY <1>2, <1>6, <1>7

\* And when it takes one: it keeps a copy and frees what arrived.
LEMMA BalancedAccepts ==
  ASSUME NEW n \in Nodes, NEW m, NEW H, NEW O, NEW Q,
         Balanced(m, H \cup {"arrived"}, {}, O, Q), "arrived" \notin H, "pktRX" \notin H,
         NEW calls \in Seq(PoolCalls), Accepts(calls)
  PROVE  Balanced(Performed(n, m, calls), H \cup {"pktRX"}, {}, O, Q)
<1>0. m \in Memories
  BY Zenon DEF Balanced
<1>1. Len(calls) = 2 /\ calls[1] = <<"alloc", "pktRX">> /\ calls[2] = <<"free", "arrived">>
  BY DEF Accepts
<1>2. PICK h \in [0 .. 2 -> Memories] :
        /\ h[0] = m /\ h[2] = Performed(n, m, calls)
        /\ \A k \in 1 .. 2 : h[k] = Perform(n, h[k - 1], calls[k])
  BY <1>0, <1>1, PerformedAre
<1>3. PICK c : c = <<"alloc", "pktRX">> /\ h[1] = Perform(n, m, c)
  <2>1. 1 \in 1 .. 2 /\ 1 - 1 = 0
    OBVIOUS
  <2> QED BY <1>1, <1>2, <2>1
<1>4. h[2] = Perform(n, h[1], <<"free", "arrived">>)
  <2>1. 2 \in 1 .. 2 /\ 2 - 1 = 1
    OBVIOUS
  <2> QED BY <1>1, <1>2, <2>1
<1>5. PICK G : G = H \cup {"arrived"} /\ "pktRX" \notin G
  OBVIOUS
<1>6. PICK K, J : K = G \cup {"pktRX"} /\ "arrived" \in K /\ J = K \ {"arrived"}
                  /\ J = H \cup {"pktRX"}
  BY <1>5
<1>7. Balanced(h[1], K, {}, O, Q)
  <2>1. Balanced(m, G, {}, O, Q)
    BY <1>5
  <2>2. c[1] = "alloc" /\ c[2] = "pktRX" /\ "pktRX" \in Slots
    BY <1>3 DEF Slots
  <2>3. Balanced(Perform(n, m, c), G \cup {c[2]}, {}, O, Q)
    BY <1>5, <2>1, <2>2, BalancedAlloc
  <2> QED BY <1>3, <1>6, <2>2, <2>3
<1>8. Balanced(h[2], J, {}, O, Q)
  <2>1. Perform(n, h[1], <<"free", "arrived">>)
          = [h[1] EXCEPT !.pool = FreePacket(@, h[1].points["arrived"])]
    BY DEF Perform
  <2>2. PICK x : x = h[1]
    OBVIOUS
  <2>3. Balanced([x EXCEPT !.pool = FreePacket(@, x.points["arrived"])], K \ {"arrived"}, {}, O, Q)
    BY <1>6, <1>7, <2>2, BalancedFree
  <2>4. Balanced([x EXCEPT !.pool = FreePacket(@, x.points["arrived"])], J, {}, O, Q)
    BY <1>6, <2>3
  <2> QED BY <1>4, <2>1, <2>2, <2>4
<1> QED BY <1>2, <1>6, <1>8


-----------------------------------------------------------------------------
(* The owners of the packets *)

\* f says which packet each of the owners has: no two the same, together those
\* in use, and those of the scheduled arrivals the ones in the queue.
OneOwner(owners, scheduled, f, used, queued) ==
    /\ scheduled \subseteq owners
    /\ \A o, q \in owners : f[o] = f[q] => o = q
    /\ \A p : p \in used <=> \E o \in owners : f[o] = p
    /\ \A p : p \in queued <=> \E o \in scheduled : f[o] = p

\* The packets of some owners.
Image(f, owners) == {f[o] : o \in owners}

\* Of the owners a handler holds the packets of some, w, in its slots H, the
\* others, R, keep theirs; A is the arrival that is dispatched, if one is, RS are
\* the other ones, and the queue holds its packet no longer: W.
InHand(owners, scheduled, f, R, RS, A, H, w, P, queued, W) ==
    /\ \A o : o \in owners <=> o \in R \/ \E k \in H : w[k] = o
    /\ \A k \in H : w[k] \notin R /\ P[k] = f[w[k]]
    /\ \A j, k \in H : w[j] = w[k] => j = k
    /\ \A o : o \in scheduled <=> o \in RS \/ o \in A
    /\ RS \subseteq R /\ \A o \in A : o \notin R
    /\ \A p : p \in W <=> p \in queued /\ ~\E o \in A : f[o] = p

\* The accounts that a handler begins with.
LEMMA Opening ==
  ASSUME NEW Ow, NEW Sc, NEW f, NEW U, NEW V, OneOwner(Ow, Sc, f, U, V),
         NEW R, NEW RS, NEW A, NEW H \in SUBSET Slots, NEW w, NEW P, NEW W,
         InHand(Ow, Sc, f, R, RS, A, H, w, P, V, W),
         NEW S, \A to \in Nodes : S[to] = 0
  PROVE  Balance(U, W, P, S, H, {}, Image(f, R), Image(f, RS))
<1> DEFINE O == Image(f, R)
           Q == Image(f, RS)
<1>0. /\ \A o : o \in Ow <=> o \in R \/ \E k \in H : w[k] = o
      /\ \A k \in H : w[k] \notin R /\ P[k] = f[w[k]]
      /\ \A j, k \in H : w[j] = w[k] => j = k
      /\ \A o : o \in Sc <=> o \in RS \/ o \in A
      /\ RS \subseteq R /\ \A o \in A : o \notin R
      /\ \A p : p \in W <=> p \in V /\ ~\E o \in A : f[o] = p
      /\ \A p : p \in O <=> \E o \in R : f[o] = p
      /\ \A p : p \in Q <=> \E o \in RS : f[o] = p
  BY DEF InHand, Image
<1> HIDE DEF O, Q
<1>1. /\ Sc \subseteq Ow
      /\ \A o, q \in Ow : f[o] = f[q] => o = q
      /\ \A p : p \in U <=> \E o \in Ow : f[o] = p
      /\ \A p : p \in V <=> \E o \in Sc : f[o] = p
  BY DEF OneOwner
<1>2. \A p : p \in U <=> p \in O \/ \E k \in H : P[k] = p
  <2> TAKE p
  <2>1. p \in U => p \in O \/ \E k \in H : P[k] = p
    BY <1>0, <1>1
  <2>2. p \in O => p \in U
    BY <1>0, <1>1
  <2>3. \A k \in H : P[k] \in U
    BY <1>0, <1>1
  <2> QED BY <2>1, <2>2, <2>3
<1>3. \A p : p \in W <=> p \in Q
  <2> TAKE p
  <2>1. p \in W => p \in Q
    BY <1>0, <1>1
  <2>2. ASSUME NEW o \in RS, f[o] = p PROVE p \in W
    <3>1. p \in V /\ o \in Ow
      BY <1>0, <1>1, <2>2
    <3>2. \A a \in A : a \in Ow /\ a # o
      BY <1>0, <1>1
    <3>3. \A a \in A : f[a] # p
      BY <1>0, <1>1, <2>2, <3>1, <3>2
    <3> QED BY <1>0, <3>1, <3>3
  <2> QED BY <1>0, <2>1, <2>2
<1>4. \A k \in H : P[k] \notin O
  <2> SUFFICES ASSUME NEW k \in H, P[k] \in O PROVE FALSE
    OBVIOUS
  <2>1. PICK o \in R : f[o] = P[k]
    BY <1>0
  <2>2. o \in Ow /\ w[k] \in Ow /\ f[o] = f[w[k]]
    BY <1>0, <2>1
  <2>3. o = w[k]
    BY <1>0, <1>1, <2>2
  <2> QED BY <1>0, <2>3
<1>5. \A j, k \in H : P[j] = P[k] => j = k
  <2> SUFFICES ASSUME NEW j \in H, NEW k \in H, P[j] = P[k] PROVE j = k
    OBVIOUS
  <2>1. w[j] \in Ow /\ w[k] \in Ow /\ f[w[j]] = f[w[k]]
    BY <1>0
  <2>2. w[j] = w[k]
    BY <1>0, <1>1, <2>1
  <2> QED BY <1>0, <2>2
<1>6. Q \subseteq O
  BY <1>0
<1> QED BY <1>0, <1>2, <1>3, <1>4, <1>5, <1>6 DEF Balance, O, Q

\* After it the slots H are owners again, and so are the copies it sent to D.
Returned(owners, scheduled, f, g, R, RS, H, D, w, v, P, S) ==
    /\ RS \subseteq R
    /\ \A o, q \in R : f[o] = f[q] => o = q
    /\ \A o : o \in owners <=> \/ o \in R
                               \/ \E k \in H : w[k] = o
                               \/ \E to \in D : v[to] = o
    /\ \A o : o \in scheduled <=> o \in RS \/ \E to \in D : v[to] = o
    /\ \A o \in R : g[o] = f[o]
    /\ \A k \in H : g[w[k]] = P[k]
    /\ \A to \in D : g[v[to]] = S[to]

\* If its accounts balance the owners are right.
LEMMA Closing ==
  ASSUME NEW U, NEW V, NEW P, NEW S, NEW H, NEW D, NEW f, NEW R, NEW RS,
         Balance(U, V, P, S, H, D, Image(f, R), Image(f, RS)),
         NEW Ow, NEW Sc, NEW g, NEW w, NEW v,
         Returned(Ow, Sc, f, g, R, RS, H, D, w, v, P, S)
  PROVE  OneOwner(Ow, Sc, g, U, V)
<1> DEFINE O == Image(f, R)
           Q == Image(f, RS)
<1>0. /\ RS \subseteq R
      /\ \A o, q \in R : f[o] = f[q] => o = q
      /\ \A p : p \in O <=> \E o \in R : f[o] = p
      /\ \A p : p \in Q <=> \E o \in RS : f[o] = p
      /\ \A o : o \in Ow <=> \/ o \in R
                             \/ \E k \in H : w[k] = o
                             \/ \E to \in D : v[to] = o
      /\ \A o : o \in Sc <=> o \in RS \/ \E to \in D : v[to] = o
      /\ \A o \in R : g[o] = f[o]
      /\ \A k \in H : g[w[k]] = P[k]
      /\ \A to \in D : g[v[to]] = S[to]
  BY DEF Returned, Image
<1> HIDE DEF O, Q
<1>1. /\ \A p : p \in U <=> \/ p \in O
                            \/ \E k \in H : P[k] = p
                            \/ \E to \in D : S[to] = p
      /\ \A p : p \in V <=> p \in Q \/ \E to \in D : S[to] = p
      /\ \A k \in H : P[k] \notin O
      /\ \A to \in D : S[to] \notin O
      /\ \A j, k \in H : P[j] = P[k] => j = k
      /\ \A k \in H, to \in D : P[k] # S[to]
      /\ \A to, o \in D : S[to] = S[o] => to = o
  BY DEF Balance, O, Q
<1>2. Sc \subseteq Ow
  BY <1>0
<1>3. \A o \in R : g[o] \in O /\ g[o] = f[o]
  BY <1>0
<1>4. \A o \in Ow : \/ o \in R
                    \/ \E k \in H : o = w[k] /\ g[o] = P[k]
                    \/ \E to \in D : o = v[to] /\ g[o] = S[to]
  BY <1>0
<1>5. ASSUME NEW o \in Ow, NEW q \in Ow, g[o] = g[q] PROVE o = q
  <2>1. CASE o \in R
    <3>1. g[q] \in O
      BY <1>0, <1>3, <1>5, <2>1
    <3>2. q \in R
      BY <1>0, <1>1, <1>4, <3>1
    <3> QED BY <1>0, <1>3, <1>5, <2>1, <3>2
  <2>2. CASE \E k \in H : o = w[k] /\ g[o] = P[k]
    <3>1. PICK k \in H : o = w[k] /\ g[o] = P[k]
      BY <2>2
    <3>2. g[q] = P[k] /\ q \notin R
      BY <1>0, <1>1, <1>3, <1>5, <3>1
    <3>3. PICK j \in H : q = w[j] /\ g[q] = P[j]
      BY <1>0, <1>1, <1>4, <3>2
    <3>4. j = k
      BY <1>0, <1>1, <3>2, <3>3
    <3> QED BY <3>1, <3>3, <3>4
  <2>3. CASE \E to \in D : o = v[to] /\ g[o] = S[to]
    <3>1. PICK to \in D : o = v[to] /\ g[o] = S[to]
      BY <2>3
    <3>2. g[q] = S[to] /\ q \notin R
      BY <1>0, <1>1, <1>3, <1>5, <3>1
    <3>3. PICK d \in D : q = v[d] /\ g[q] = S[d]
      BY <1>0, <1>1, <1>4, <3>2
    <3>4. d = to
      BY <1>0, <1>1, <3>2, <3>3
    <3> QED BY <3>1, <3>3, <3>4
  <2> QED BY <1>4, <2>1, <2>2, <2>3
<1>6. \A p : p \in U <=> \E o \in Ow : g[o] = p
  <2> TAKE p
  <2>1. p \in O => \E o \in Ow : g[o] = p
    BY <1>0
  <2>2. \A k \in H : w[k] \in Ow /\ g[w[k]] = P[k]
    BY <1>0
  <2>3. \A to \in D : v[to] \in Ow /\ g[v[to]] = S[to]
    BY <1>0
  <2>4. p \in U => \E o \in Ow : g[o] = p
    BY <1>0, <1>1, <2>1, <2>2, <2>3
  <2>5. \A o \in Ow : g[o] \in U
    BY <1>0, <1>1, <1>3, <1>4
  <2> QED BY <2>4, <2>5
<1>7. \A p : p \in V <=> \E o \in Sc : g[o] = p
  <2> TAKE p
  <2>1. p \in Q => \E o \in Sc : g[o] = p
    BY <1>0
  <2>2. \A to \in D : v[to] \in Sc /\ g[v[to]] = S[to]
    BY <1>0
  <2>3. p \in V => \E o \in Sc : g[o] = p
    BY <1>0, <1>1, <2>1, <2>2
  <2>4. \A o \in RS : g[o] \in Q
    BY <1>0
  <2>5. \A o \in Sc : o \in RS \/ \E to \in D : o = v[to] /\ g[o] = S[to]
    BY <1>0
  <2>6. \A o \in Sc : g[o] \in V
    BY <1>0, <1>1, <2>4, <2>5
  <2> QED BY <2>3, <2>6
<1> QED BY <1>2, <1>5, <1>6, <1>7 DEF OneOwner

\* What every owner points to, a pointer or the arrival at one station from
\* another.
Points == [o \in Pointers \cup Flights |-> PacketOf(o)]

\* The two kinds of owners are not confused.
LEMMA PointsAre ==
  /\ \A n \in Nodes, k \in Kept : /\ Points[<<n, k>>] = pointer[n][k]
                                  /\ Points'[<<n, k>>] = pointer'[n][k]
  /\ \A n, m \in Nodes : /\ Points[<<n, m>>] = flight[n][m]
                         /\ Points'[<<n, m>>] = flight'[n][m]
<1>1. ASSUME NEW n \in Nodes, NEW k \in Kept
      PROVE  Points[<<n, k>>] = pointer[n][k] /\ Points'[<<n, k>>] = pointer'[n][k]
  <2>1. <<n, k>> \in Pointers \cup Flights
    BY DEF Pointers
  <2> QED BY <2>1 DEF Points, PacketOf
<1>2. ASSUME NEW n \in Nodes, NEW m \in Nodes
      PROVE  Points[<<n, m>>] = flight[n][m] /\ Points'[<<n, m>>] = flight'[n][m]
  <2>1. <<n, m>> \in Pointers \cup Flights /\ m \notin Kept
    BY AddressesAreNoPointers DEF Flights
  <2> QED BY <2>1 DEF Points, PacketOf
<1> QED BY <1>1, <1>2

\* A station's pointers are not null where they own a packet.
LEMMA NullIs ==
  ASSUME NEW n, NEW s \in Good(n, {}), NEW k \in Kept
  PROVE  ~Null(s, k) <=> k \in Ours(s)
<1>1. s.pktRX # NoFrame <=> s.phy \in {"PreRXing", "RXing"}
  BY DEF Good, Receives
<1> QED BY <1>1 DEF Null, Held, Kept, Ours

\* The invariant: the owners own the packets of the pool.
Owned == OneOwner(Owners, Scheduled, Points, pool.used, pool.queued) /\ ~pool.failed

\* It says what the properties say.
LEMMA OwnedIs == Owned => PacketsHaveOneOwner /\ PoolAssertionsHold
<1> SUFFICES ASSUME Owned PROVE PacketsHaveOneOwner /\ PoolAssertionsHold
  OBVIOUS
<1>1. /\ Scheduled \subseteq Owners
      /\ \A o, q \in Owners : Points[o] = Points[q] => o = q
      /\ \A p : p \in pool.used <=> \E o \in Owners : Points[o] = p
      /\ \A p : p \in pool.queued <=> \E o \in Scheduled : Points[o] = p
  BY DEF Owned, OneOwner
<1>2. \A o \in Owners : Points[o] = PacketOf(o)
  <2>1. \A o \in Owners : o \in Pointers \cup Flights
    BY DEF Owners, Scheduled
  <2> QED BY <2>1 DEF Points
<1> HIDE DEF Owners
<1>3. { PacketOf(o) : o \in Owners } = pool.used
  <2>1. \A p : p \in { PacketOf(o) : o \in Owners } <=> p \in pool.used
    BY <1>1, <1>2
  <2> QED BY <2>1
<1>4. { PacketOf(o) : o \in Scheduled } = pool.queued
  <2>1. \A p : p \in { PacketOf(o) : o \in Scheduled } <=> p \in pool.queued
    BY <1>1, <1>2
  <2> QED BY <2>1
<1>5. \A o, q \in Owners : PacketOf(o) = PacketOf(q) => o = q
  BY <1>1, <1>2
<1> QED BY <1>3, <1>4, <1>5 DEF PacketsHaveOneOwner, PoolAssertionsHold, Owned

\* What the owners are: the pointers that own a packet and the arrivals.
OwnersKnown ==
    /\ \A n \in Nodes, k \in Kept : <<n, k>> \in Owners <=> k \in Ours(stations[n])
    /\ \A n, m \in Nodes : <<n, m>> \in Owners <=> <<n, m>> \in Scheduled
    /\ \A o \in Owners : \/ \E n \in Nodes, k \in Kept : o = <<n, k>>
                         \/ \E n, m \in Nodes : o = <<n, m>>
    /\ \A o \in Scheduled : o \in Owners /\ \E n, m \in Nodes : o = <<n, m>>

\* Null pointers own none.
LEMMA OwnersAre == Inv => OwnersKnown
<1> SUFFICES ASSUME Inv PROVE OwnersKnown
  OBVIOUS
<1>1. ASSUME NEW n \in Nodes, NEW k \in Kept
      PROVE  <<n, k>> \in Owners <=> k \in Ours(stations[n])
  <2>1. <<n, k>> \notin Scheduled /\ <<n, k>> \in Pointers
    BY AddressesAreNoPointers DEF Scheduled, Flights, Pointers
  <2>2. stations[n] \in Good(n, {})
    BY DEF Inv
  <2>3. ~Null(stations[n], k) <=> k \in Ours(stations[n])
    BY <2>2, NullIs
  <2> QED BY <2>1, <2>3 DEF Owners
<1>2. ASSUME NEW n \in Nodes, NEW m \in Nodes
      PROVE  <<n, m>> \in Owners <=> <<n, m>> \in Scheduled
  <2>1. <<n, m>> \notin Pointers
    BY AddressesAreNoPointers DEF Pointers
  <2> QED BY <2>1 DEF Owners
<1>3. \A o \in Scheduled : o \in Owners /\ \E n, m \in Nodes : o = <<n, m>>
  BY DEF Owners, Scheduled, Flights
<1>4. \A o \in Owners : \/ \E n \in Nodes, k \in Kept : o = <<n, k>>
                        \/ \E n, m \in Nodes : o = <<n, m>>
  BY <1>3 DEF Owners, Pointers
<1> QED BY <1>1, <1>2, <1>3, <1>4 DEF OwnersKnown

\* Nor after the next step.
LEMMA OwnersAreNext == Inv' => OwnersKnown'
BY OwnersAre, PTL

\* The owners, and the arrivals, that an event at station n does not touch; A
\* is the arrival that is dispatched, if one is.
Others(n, A) == {o \in Owners : o \notin A /\ \A k \in Kept : o # <<n, k>>}
OtherArrivals(A) == Scheduled \ A

\* What the calls of the event begin with.
Begin(n, p) ==
    [ pool   |-> Dequeue(pool, p),
      points |-> [k \in Slots |-> IF k \in Kept THEN pointer[n][k]
                                  ELSE IF k = "arrived" THEN p ELSE 0],
      sent   |-> [to \in Nodes |-> 0] ]

\* The event is that of a packet that arrived, p, or of none.
Arriving(n, p, A, X) ==
    \/ A = {} /\ X = {} /\ p = 0
    \/ X = {"arrived"} /\ \E m \in Nodes : A = {<<n, m>>} /\ <<n, m>> \in Scheduled
                                          /\ p = flight[n][m]

\* The station's pointers and the packet that arrived are in its hands.
LEMMA CallsOpen ==
  ASSUME Inv, MemoryInv, Owned, NEW n \in Nodes, NEW p, NEW A, NEW X, Arriving(n, p, A, X)
  PROVE  Balanced(Begin(n, p), Ours(stations[n]) \cup X, {}, Image(Points, Others(n, A)),
                  Image(Points, OtherArrivals(A)))
<1> DEFINE s == Begin(n, p)
           H == Ours(stations[n]) \cup X
           P == [k \in Slots |-> IF k \in Kept THEN pointer[n][k]
                                 ELSE IF k = "arrived" THEN p ELSE 0]
           S == [to \in Nodes |-> 0]
           R == Others(n, A)
           RS == OtherArrivals(A)
<1>1. /\ Ours(stations[n]) \subseteq Kept /\ Kept \subseteq Slots /\ X \subseteq {"arrived"}
      /\ "arrived" \in Slots /\ "arrived" \notin Kept /\ X \subseteq Slots
  BY DEF Arriving, Ours, Kept, Slots
<1>2. p \in Nat
  <2>1. flight \in [Nodes -> [Nodes -> Nat]]
    BY DEF MemoryInv
  <2>2. \A m \in Nodes : flight[n][m] \in Nat
    BY <2>1
  <2>3. p = 0 \/ \E m \in Nodes : p = flight[n][m]
    BY DEF Arriving
  <2> QED BY <2>2, <2>3
<1>3. s \in Memories /\ s.pool = Dequeue(pool, p) /\ s.points = P /\ s.sent = S
  <2>1. P \in [Slots -> Nat] /\ S \in [Nodes -> Nat]
    BY <1>1, <1>2 DEF MemoryInv
  <2>2. Dequeue(pool, p) \in SoundPools
    BY QueueIs DEF MemoryInv
  <2>3. s = [pool |-> Dequeue(pool, p), points |-> P, sent |-> S]
    BY DEF Begin
  <2> HIDE DEF P, S, s
  <2> QED BY <2>1, <2>2, <2>3 DEF Memories
<1>4. PICK u : u = Dequeue(pool, p)
  OBVIOUS
<1>5. /\ u.used = pool.used /\ u.failed = pool.failed /\ u.queued = pool.queued \ {p}
      /\ 0 \notin pool.queued
  <2>1. pool \in Pool
    BY DEF MemoryInv, SoundPools
  <2>2. 0 \notin pool.queued
    BY <2>1 DEF Pool, Packets
  <2> QED BY <1>4, <2>1, <2>2 DEF Pool, Dequeue
<1>6. PICK m \in Nodes :
        \/ A = {}
        \/ A = {<<n, m>>} /\ <<n, m>> \in Scheduled /\ p = flight[n][m]
  <2>1. CASE A = {}
    BY <2>1
  <2>2. CASE A # {}
    BY <2>2 DEF Arriving
  <2> QED BY <2>1, <2>2
<1>7. (A = {} /\ X = {} /\ p = 0) \/ (A = {<<n, m>>} /\ X = {"arrived"})
  BY <1>6 DEF Arriving
<1>8. m \notin Kept
  BY AddressesAreNoPointers
<1> DEFINE w == [k \in Slots |-> IF k \in Kept THEN <<n, k>> ELSE <<n, m>>]
<1>9. OneOwner(Owners, Scheduled, Points, pool.used, pool.queued) /\ ~pool.failed
  BY Zenon DEF Owned
<1>10. /\ \A k \in Kept : w[k] = <<n, k>> /\ P[k] = pointer[n][k]
       /\ w["arrived"] = <<n, m>> /\ P["arrived"] = p
  BY <1>1
<1>11. \A o : o \in R <=> o \in Owners /\ o \notin A /\ \A k \in Kept : o # <<n, k>>
  BY DEF Others
<1>12. \A o : o \in RS <=> o \in Scheduled /\ o \notin A
  BY DEF OtherArrivals
<1>14. /\ \A j \in Nodes, k \in Kept : <<j, k>> \in Owners <=> k \in Ours(stations[j])
       /\ \A j, k \in Nodes : <<j, k>> \in Owners <=> <<j, k>> \in Scheduled
       /\ \A o \in Scheduled : o \in Owners /\ \E j, k \in Nodes : o = <<j, k>>
  BY OwnersAre DEF OwnersKnown
<1> HIDE DEF s, w, P, S, R, RS
<1>15. H \in SUBSET Slots /\ \A k : k \in H <=> k \in Ours(stations[n]) \/ k \in X
  BY <1>1
<1> HIDE DEF H
<1>16. \A o : o \in Owners <=> o \in R \/ \E k \in H : w[k] = o
  <2> TAKE o
  <2>1. ASSUME o \in Owners, o \notin R PROVE \E k \in H : w[k] = o
    <3>1. CASE o \in A
      <4>1. o = <<n, m>> /\ "arrived" \in H
        BY <1>7, <1>15, <3>1
      <4> QED BY <1>10, <4>1
    <3>2. CASE \E k \in Kept : o = <<n, k>>
      <4>1. PICK k \in Kept : o = <<n, k>>
        BY <3>2
      <4>2. k \in H
        BY <1>14, <1>15, <2>1, <4>1
      <4> QED BY <1>10, <4>1, <4>2
    <3> QED BY <1>11, <2>1, <3>1, <3>2
  <2>2. ASSUME NEW k \in H PROVE w[k] \in Owners
    <3>1. CASE k \in Ours(stations[n])
      BY <1>1, <1>10, <1>14, <3>1
    <3>2. CASE k \in X
      <4>1. k = "arrived" /\ <<n, m>> \in Scheduled
        BY <1>1, <1>6, <1>7, <3>2
      <4> QED BY <1>10, <1>14, <4>1
    <3> QED BY <1>15, <3>1, <3>2
  <2> QED BY <1>11, <2>1, <2>2
<1>17. \A k \in H : w[k] \notin R /\ P[k] = Points[w[k]]
  <2> TAKE k \in H
  <2>1. CASE k \in Kept
    <3>1. Points[<<n, k>>] = pointer[n][k]
      BY <2>1, PointsAre
    <3> QED BY <1>10, <1>11, <2>1, <3>1
  <2>2. CASE k \notin Kept
    <3>1. k = "arrived" /\ A = {<<n, m>>} /\ p = flight[n][m]
      BY <1>1, <1>6, <1>7, <1>15, <2>2
    <3>2. Points[<<n, m>>] = flight[n][m]
      BY PointsAre
    <3> QED BY <1>10, <1>11, <3>1, <3>2
  <2> QED BY <2>1, <2>2
<1>18. \A j, k \in H : w[j] = w[k] => j = k
  <2>1. \A k \in H : k \in Kept \/ k = "arrived"
    BY <1>1, <1>15
  <2> QED BY <1>8, <1>10, <2>1
<1>19. \A o : o \in Scheduled <=> o \in RS \/ o \in A
  BY <1>6, <1>12
<1>20. RS \subseteq R /\ \A o \in A : o \notin R
  <2>1. \A o \in Scheduled, k \in Kept : o # <<n, k>>
    BY <1>14, AddressesAreNoPointers
  <2> QED BY <1>11, <1>12, <1>14, <2>1
<1>21. \A x : x \in u.queued <=> x \in pool.queued /\ ~\E o \in A : Points[o] = x
  <2>1. CASE A = {}
    BY <1>5, <1>7, <2>1
  <2>2. CASE A = {<<n, m>>} /\ p = flight[n][m]
    BY <1>5, <2>2, PointsAre
  <2> QED BY <1>6, <2>1, <2>2
<1>22. \A to \in Nodes : S[to] = 0
  BY DEF S
<1>23. InHand(Owners, Scheduled, Points, R, RS, A, H, w, P, pool.queued, u.queued)
  BY <1>16, <1>17, <1>18, <1>19, <1>20, <1>21 DEF InHand
<1>24. Balance(pool.used, u.queued, P, S, H, {}, Image(Points, R), Image(Points, RS))
  BY ONLY <1>9, <1>15, <1>22, <1>23, Opening
<1>25. Balanced(s, H, {}, Image(Points, R), Image(Points, RS))
  BY <1>3, <1>4, <1>5, <1>9, <1>24, Zenon DEF Balanced
<1> QED BY <1>25 DEF s, H, R, RS

\* What the event leaves to the network: which arrivals are scheduled after it,
\* those of the frame it sent, to D, and the ones there were but that of A; and
\* the pointers of the other stations.
Leaves(n, A, D) ==
    /\ D = {} \/ (D = Nodes \ {n} /\ \A to \in Nodes : <<to, n>> \notin Scheduled)
    /\ \A m \in Nodes : m # n => Ours(stations'[m]) = Ours(stations[m])
    /\ \A to, m \in Nodes :
         <<to, m>> \in Scheduled' <=> \/ <<to, m>> \in Scheduled /\ <<to, m>> \notin A
                                      \/ m = n /\ to \in D

\* Its calls leave every pointer and every arrival with the packet it owns.
LEMMA CallsClose ==
  ASSUME Inv, Inv', MemoryInv, Owned, NEW n \in Nodes, NEW p, NEW A, NEW X,
         Arriving(n, p, A, X), Calls(n, p), NEW D, Leaves(n, A, D),
         Balanced(Performed(n, Begin(n, p), stations'[n].calls), Ours(stations'[n]), D,
                  Image(Points, Others(n, A)), Image(Points, OtherArrivals(A)))
  PROVE  Owned'
<1> DEFINE u == stations'[n]
           H == Ours(u)
           end == Performed(n, Begin(n, p), u.calls)
           R == Others(n, A)
           RS == OtherArrivals(A)
           w == [k \in Kept |-> <<n, k>>]
           v == [to \in Nodes |-> <<to, n>>]
<1>1. /\ pool' = end.pool
      /\ pointer' = [pointer EXCEPT ![n] =
                       [k \in Kept |-> IF Null(u, k) THEN 0 ELSE end.points[k]]]
      /\ flight' = [to \in Nodes |-> [m \in Nodes |->
                      IF m = n /\ end.sent[to] # 0 THEN end.sent[to]
                      ELSE IF to = n /\ p # 0 /\ flight[to][m] = p THEN 0
                      ELSE flight[to][m]]]
  BY Zenon DEF Calls, Begin
<1>2. /\ Balance(end.pool.used, end.pool.queued, end.points, end.sent, H, D,
                 Image(Points, R), Image(Points, RS))
      /\ end \in Memories /\ ~end.pool.failed
  BY Zenon DEF Balanced
<1>3. H \subseteq Kept /\ \A k \in Kept : ~Null(u, k) <=> k \in H
  <2>1. u \in Good(n, {})
    BY DEF Inv
  <2> QED BY <2>1, NullIs DEF Ours
<1>4. \A o : o \in R <=> o \in Owners /\ o \notin A /\ \A k \in Kept : o # <<n, k>>
  BY DEF Others
<1>5. \A o : o \in RS <=> o \in Scheduled /\ o \notin A
  BY DEF OtherArrivals
<1>6. OwnersKnown /\ OwnersKnown'
  BY OwnersAre, OwnersAreNext
<1>7. /\ \A j \in Nodes, k \in Kept : <<j, k>> \in Owners <=> k \in Ours(stations[j])
      /\ \A j, k \in Nodes : <<j, k>> \in Owners <=> <<j, k>> \in Scheduled
      /\ \A o \in Owners : \/ \E j \in Nodes, k \in Kept : o = <<j, k>>
                           \/ \E j, k \in Nodes : o = <<j, k>>
      /\ \A o \in Scheduled : o \in Owners /\ \E j, k \in Nodes : o = <<j, k>>
  BY <1>6 DEF OwnersKnown
<1>8. /\ \A j \in Nodes, k \in Kept : <<j, k>> \in Owners' <=> k \in Ours(stations'[j])
      /\ \A j, k \in Nodes : <<j, k>> \in Owners' <=> <<j, k>> \in Scheduled'
      /\ \A o \in Owners' : \/ \E j \in Nodes, k \in Kept : o = <<j, k>>
                            \/ \E j, k \in Nodes : o = <<j, k>>
      /\ \A o \in Scheduled' : o \in Owners' /\ \E j, k \in Nodes : o = <<j, k>>
  BY <1>6, Zenon DEF OwnersKnown
<1>9. Nodes \cap Kept = {}
  BY AddressesAreNoPointers
<1>10. /\ D = {} \/ (D = Nodes \ {n} /\ \A to \in Nodes : <<to, n>> \notin Scheduled)
       /\ \A m \in Nodes : m # n => Ours(stations'[m]) = Ours(stations[m])
       /\ \A to, m \in Nodes :
            <<to, m>> \in Scheduled' <=> \/ <<to, m>> \in Scheduled /\ <<to, m>> \notin A
                                         \/ m = n /\ to \in D
  BY Zenon DEF Leaves
<1>11. \/ A = {} /\ p = 0
       \/ \E m \in Nodes : A = {<<n, m>>} /\ <<n, m>> \in Scheduled /\ p = flight[n][m]
  BY DEF Arriving
<1>12. \A o, q \in Owners : Points[o] = Points[q] => o = q
  BY DEF Owned, OneOwner
<1> HIDE DEF H, end, R, RS, u
<1>13. PICK P, S, U, V : P = end.points /\ S = end.sent /\ U = end.pool.used /\ V = end.pool.queued
  OBVIOUS
<1>14. D \subseteq Nodes /\ (\A to \in D : S[to] # 0) /\ \A to \in Nodes \ D : S[to] = 0
  <2>1. 0 \notin U
    <3>1. end.pool \in SoundPools
      BY <1>2, MemoryFields
    <3> QED BY <1>13, <3>1 DEF SoundPools, Pool, Packets
  <2>2. Balance(U, V, P, S, H, D, Image(Points, R), Image(Points, RS))
    BY <1>2, <1>13
  <2>3. D \subseteq Nodes /\ (\A to \in D : S[to] \in U) /\ \A to \in Nodes \ D : S[to] = 0
    BY <2>2 DEF Balance
  <2> QED BY <2>1, <2>3
<1>15. /\ \A m \in Nodes, k \in Kept : m # n => pointer'[m][k] = pointer[m][k]
       /\ \A k \in H : pointer'[n][k] = P[k]
  BY <1>1, <1>3, <1>13 DEF MemoryInv
<1>16. \A to, m \in Nodes :
          flight'[to][m] = IF m = n /\ S[to] # 0 THEN S[to]
                           ELSE IF to = n /\ p # 0 /\ flight[to][m] = p THEN 0
                           ELSE flight[to][m]
  BY <1>1, <1>13, Zenon
<1>17. RS \subseteq R
  BY <1>4, <1>5, <1>7, <1>9
<1>18. \A o, q \in R : Points[o] = Points[q] => o = q
  BY <1>4, <1>12
<1>19. ASSUME NEW o \in R PROVE Points'[o] = Points[o] /\ o \in Owners'
  <2>1. o \in Owners /\ o \notin A /\ \A k \in Kept : o # <<n, k>>
    BY <1>4
  <2>2. CASE \E j \in Nodes, k \in Kept : o = <<j, k>>
    <3>1. PICK j \in Nodes, k \in Kept : o = <<j, k>>
      BY <2>2
    <3>2. j # n
      BY <2>1, <3>1
    <3>3. Points[o] = pointer[j][k] /\ Points'[o] = pointer'[j][k]
      BY <3>1, PointsAre
    <3>4. <<j, k>> \in Owners'
      BY <1>7, <1>8, <1>10, <2>1, <3>1, <3>2
    <3> QED BY <1>15, <3>1, <3>2, <3>3, <3>4
  <2>3. CASE \E j, k \in Nodes : o = <<j, k>>
    <3>1. PICK j \in Nodes, k \in Nodes : o = <<j, k>>
      BY <2>3
    <3>2. Points[o] = flight[j][k] /\ Points'[o] = flight'[j][k]
      BY <3>1, PointsAre
    <3>3. <<j, k>> \in Scheduled
      BY <1>7, <2>1, <3>1
    <3>4. <<j, k>> \in Owners'
      BY <1>8, <1>10, <2>1, <3>1, <3>3
    <3>5. k = n => S[j] = 0
      BY <1>10, <1>14, <3>1, <3>3
    <3>6. ~(j = n /\ p # 0 /\ flight[j][k] = p)
      <4> SUFFICES ASSUME p # 0, flight[j][k] = p PROVE FALSE
        OBVIOUS
      <4>1. PICK m \in Nodes : A = {<<n, m>>} /\ <<n, m>> \in Scheduled /\ p = flight[n][m]
        BY <1>11
      <4>2. Points[<<n, m>>] = flight[n][m]
        BY PointsAre
      <4>3. <<n, m>> \in Owners
        BY <1>7, <4>1
      <4>4. o = <<n, m>>
        BY <1>12, <2>1, <3>2, <4>1, <4>2, <4>3
      <4> QED BY <2>1, <4>1, <4>4
    <3> QED BY <1>16, <3>1, <3>2, <3>4, <3>5, <3>6
  <2> QED BY <1>7, <2>1, <2>2, <2>3
<1>20. /\ \A k \in H : w[k] = <<n, k>> /\ w[k] \in Owners' /\ Points'[w[k]] = P[k]
       /\ \A to \in D : v[to] = <<to, n>> /\ v[to] \in Scheduled' /\ Points'[v[to]] = S[to]
  <2>1. ASSUME NEW k \in H
        PROVE  w[k] = <<n, k>> /\ w[k] \in Owners' /\ Points'[w[k]] = P[k]
    <3>1. k \in Kept /\ w[k] = <<n, k>>
      BY <1>3
    <3>2. Points'[<<n, k>>] = pointer'[n][k]
      BY <3>1, PointsAre
    <3>3. <<n, k>> \in Owners'
      BY <1>8, <3>1 DEF H, u
    <3> QED BY <1>15, <3>1, <3>2, <3>3
  <2>2. ASSUME NEW to \in D
        PROVE  v[to] = <<to, n>> /\ v[to] \in Scheduled' /\ Points'[v[to]] = S[to]
    <3>1. to \in Nodes /\ v[to] = <<to, n>>
      BY <1>14
    <3>2. Points'[<<to, n>>] = flight'[to][n]
      BY <3>1, PointsAre
    <3>3. <<to, n>> \in Scheduled'
      BY <1>10, <3>1
    <3> QED BY <1>14, <1>16, <3>1, <3>2, <3>3
  <2> QED BY <2>1, <2>2
<1>21. ASSUME NEW o \in Scheduled' PROVE o \in RS \/ \E to \in D : v[to] = o
  <2>1. PICK j \in Nodes, k \in Nodes : o = <<j, k>>
    BY <1>8
  <2>2. <<j, k>> \in RS \/ (k = n /\ j \in D)
    BY <1>5, <1>10, <2>1
  <2> QED BY <1>20, <2>1, <2>2
<1>22. \A o \in RS : o \in Scheduled'
  <2> TAKE o \in RS
  <2>1. o \in Scheduled /\ o \notin A
    BY <1>5
  <2>2. PICK j \in Nodes, k \in Nodes : o = <<j, k>>
    BY <1>7, <2>1
  <2> QED BY <1>10, <2>1, <2>2
<1>23. ASSUME NEW o \in Owners'
       PROVE  o \in R \/ (\E k \in H : w[k] = o) \/ \E to \in D : v[to] = o
  <2>1. CASE \E j \in Nodes, k \in Kept : o = <<j, k>>
    <3>1. PICK j \in Nodes, k \in Kept : o = <<j, k>>
      BY <2>1
    <3>2. k \in Ours(stations'[j])
      BY <1>8, <3>1
    <3>3. CASE j = n
      <4>1. k \in H
        BY <3>2, <3>3 DEF H, u
      <4> QED BY <1>20, <3>1, <3>3, <4>1
    <3>4. CASE j # n
      <4>1. o \in Owners
        BY <1>7, <1>10, <3>1, <3>2, <3>4
      <4>2. o \notin A
        BY <1>9, <1>11, <3>1
      <4> QED BY <1>4, <3>1, <3>4, <4>1, <4>2
    <3> QED BY <3>3, <3>4
  <2>2. CASE \E j, k \in Nodes : o = <<j, k>>
    <3>1. o \in Scheduled'
      BY <1>8, <2>2
    <3> QED BY <1>17, <1>21, <3>1
  <2> QED BY <1>8, <2>1, <2>2
<1>24. Returned(Owners', Scheduled', Points, Points', R, RS, H, D, w, v, P, S)
  <2>1. \A o : o \in Owners' <=> \/ o \in R
                                 \/ \E k \in H : w[k] = o
                                 \/ \E to \in D : v[to] = o
    BY <1>8, <1>19, <1>20, <1>23
  <2>2. \A o : o \in Scheduled' <=> o \in RS \/ \E to \in D : v[to] = o
    BY <1>20, <1>21, <1>22
  <2> HIDE DEF w, v
  <2> QED BY <1>17, <1>18, <1>19, <1>20, <2>1, <2>2 DEF Returned
<1> HIDE DEF w, v
<1>25. Balance(U, V, P, S, H, D, Image(Points, R), Image(Points, RS))
  BY <1>2, <1>13
<1>26. OneOwner(Owners', Scheduled', Points', U, V)
  BY ONLY <1>24, <1>25, Closing
<1>27. U = pool'.used /\ V = pool'.queued /\ ~pool'.failed
  BY <1>1, <1>2, <1>13
<1> QED BY <1>26, <1>27, Zenon DEF Owned

-----------------------------------------------------------------------------
(* The frames on the air *)

\* Whether what station s holds and has not yet sent is its own.
Own(s) == Made(s, s.pDATA) /\ Made(s, s.pRTS) /\ Made(s, s.pCTRL)

\* The invariant: a frame arrives before its transmission ends, so that one
\* station never has two arrivals from another, and none from itself.
AirInv ==
    /\ \A n \in Nodes : Own(stations[n]) /\ stations[n].out = NoFrame
    /\ \A n \in toStart : stations[n].calls = <<>>
    /\ \A x \in air : /\ x.to # x.frame.src
                      /\ stations[x.frame.src].phy = "TXing"
                      /\ x.left < stations[x.frame.src].timer["tX"]
    /\ \A x, y \in air : x.to = y.to /\ x.frame.src = y.frame.src => x = y

\* At first nothing is.
LEMMA AirInit == Init => AirInv
<1> SUFFICES ASSUME Init PROVE AirInv
  OBVIOUS
<1>1. \A n \in Nodes : stations[n] = InitStation(n)
  BY DEF Init
<1>2. \A n \in Nodes : Own(stations[n]) /\ stations[n].out = NoFrame /\ stations[n].calls = <<>>
  <2> TAKE n \in Nodes
  <2>1. PICK s : s = stations[n]
    OBVIOUS
  <2>2. s = InitStation(n)
    BY <1>1, <2>1
  <2>4. s.pDATA = NoFrame /\ s.pRTS = NoFrame /\ s.pCTRL = NoFrame /\ s.out = NoFrame
    BY ONLY <2>2 DEF InitStation
  <2>5. s.calls = <<>>
    BY ONLY <2>2 DEF InitStation
  <2>3. Own(s)
    BY <2>4 DEF Own, Made
  <2> QED BY <2>1, <2>3, <2>4, <2>5
<1>3. air = {} /\ toStart = Nodes
  BY DEF Init
<1> QED BY <1>2, <1>3, Zenon DEF AirInv

\* An arrival is at a station, from a station, of a frame.
LEMMA ArrivalIs ==
  ASSUME Inv, NEW x \in air
  PROVE  x \in Arrival /\ x.to \in Nodes /\ x.frame \in Frame /\ x.frame # NoFrame
         /\ x.frame.src \in Nodes /\ x.left \in Nat
<1>1. x \in Arrival /\ x.frame # NoFrame
  BY DEF Inv
<1>2. x.to \in Nodes /\ x.frame \in Frame /\ x.left \in Nat
  BY <1>1 DEF Arrival
<1>3. x.frame.src \in Nodes
  BY <1>1, <1>2 DEF Frame
<1> QED BY <1>1, <1>2, <1>3

\* The arrivals left when the clock has moved by dt, and those of the frame
\* that was sent.
Later(x, dt) == [x EXCEPT !.left = @ - dt]
Damaged(f, e) == [f EXCEPT !.bad = e]

\* Only their time is another one.
LEMMA LaterIs ==
  ASSUME NEW x \in Arrival, NEW dt
  PROVE  Later(x, dt).to = x.to /\ Later(x, dt).frame = x.frame /\ Later(x, dt).left = x.left - dt
BY DEF Later, Arrival

\* A frame is the sender's, and arrives within its transmission.
LEMMA CopiesLaunched ==
  ASSUME NEW n \in Nodes, NEW s \in Station, s.id = n, s.out # NoFrame, Launched(s),
         NEW e \in BOOLEAN
  PROVE  \A y \in Copies(Damaged(s.out, e), n) :
            /\ y.to \in Nodes \ {n} /\ y.frame.src = n
            /\ y.left < s.timer["tX"]
            /\ y = [to |-> y.to, frame |-> Damaged(s.out, e),
                    left |-> ChannelDelay + PropagationDelay(Damaged(s.out, e))]
<1> DEFINE f == Damaged(s.out, e)
<1>1. s.out \in Frame /\ f = [s.out EXCEPT !.bad = e]
  BY DEF Station, Damaged
<1>2. f.src = n /\ f.kind = s.out.kind /\ s.out.len \in Nat
  <2>1. PICK o : o = s.out
    OBVIOUS
  <2>2. o \in [kind : Kinds, src : Nodes, dst : Addresses,
               seq : 0 .. SeqMod - 1, dur : Nat, len : Nat, bad : BOOLEAN]
    BY <1>1, <2>1 DEF Frame
  <2>3. f = [o EXCEPT !.bad = e] /\ o.src = n
    BY <1>1, <2>1 DEF Launched
  <2>4. f.src = o.src /\ f.kind = o.kind /\ o.len \in Nat
    BY ONLY <2>2, <2>3
  <2> QED BY <2>1, <2>3, <2>4
<1>3. PropagationDelay(f) = PropagationDelay(s.out) /\ PropagationDelay(s.out) \in Nat
  BY <1>1, <1>2, DelayType DEF PropagationDelay
<1> HIDE DEF f
<1>4. TxTime(ACKlen) <= TxTime(s.out.len) /\ TxTime(s.out.len) \in Int /\ TxTime(ACKlen) \in Int
  <2>1. s.out.len >= ACKlen
    BY DEF Launched
  <2> QED BY <1>2, <2>1, TimingAssumption DEF TxTime, ByteTime, ACKlen
<1>5. ChannelDelay + PropagationDelay(f) < s.timer["tX"]
  <2>1. s.timer["tX"] = TxTime(s.out.len) + PropagationDelay(s.out)
    BY DEF Launched
  <2> QED BY <1>3, <1>4, <2>1, DelayAssumption, NetworkAssumption
<1>6. ASSUME NEW y \in Copies(f, n)
      PROVE  /\ y.to \in Nodes \ {n} /\ y.frame.src = n /\ y.left < s.timer["tX"]
             /\ y = [to |-> y.to, frame |-> f, left |-> ChannelDelay + PropagationDelay(f)]
  <2>1. PICK m \in Nodes \ {n} :
          y = [to |-> m, frame |-> f, left |-> ChannelDelay + PropagationDelay(f)]
    BY DEF Copies
  <2> QED BY <1>2, <1>5, <2>1
<1> QED BY <1>6 DEF f

\* After an event at station n, which became s, the arrivals of rest and those of
\* its transmission are scheduled, and every station has the pointers it had.
Departed(n, s, rest) ==
    /\ AirInv'
    /\ \A to, m \in Nodes :
         <<to, m>> \in Scheduled' <=>
           \/ \E x \in rest : x.to = to /\ x.frame.src = m
           \/ m = n /\ to \in (IF s.out = NoFrame THEN {} ELSE Nodes \ {n})
    /\ \A m \in Nodes : m # n => Ours(stations'[m]) = Ours(stations[m])
    /\ Ours(stations'[n]) = Ours(s) /\ stations'[n].calls = s.calls

\* What an event at station n leaves on the air.  rest are the arrivals that are
\* still scheduled, dt the time to the event and s what its handler makes of the
\* station.
LEMMA CommitAir ==
  ASSUME Inv, AirInv, NEW n \in Nodes, NEW before, NEW s \in Station, s.id = n, NEW dt \in Nat,
         NotDueBefore(dt) \/ dt = 0, NEW rest, rest \subseteq air, \A x \in rest : dt <= x.left,
         Commit(n, before, s, dt, rest), toStart' \subseteq toStart \ {n}, Own(s),
         s.out # NoFrame => Launched(s) /\ \A x \in air : x.frame.src # n,
         \A x \in rest : x.frame.src = n =>
            s.phy = "TXing" /\ s.timer["tX"] = stations[n].timer["tX"] - dt
  PROVE  Departed(n, s, rest)
<1> DEFINE u == [s EXCEPT !.out = NoFrame, !.up = NoFrame]
<1>1. \A m \in Nodes : stations'[m] = IF m = n THEN u ELSE Elapse(stations[m], dt)
  BY DEF Commit
<1>2. /\ u.id = s.id /\ u.phy = s.phy /\ u.pDATA = s.pDATA /\ u.pRTS = s.pRTS
      /\ u.pCTRL = s.pCTRL /\ u.calls = s.calls /\ u.out = NoFrame
      /\ u.timer["tX"] = s.timer["tX"]
  BY DEF Station
<1> HIDE DEF u
<1>3. Own(u) /\ Ours(u) = Ours(s)
  <2>1. Own(u)
    BY <1>2 DEF Own, Made
  <2>2. Ours(u) = Ours(s)
    BY <1>2, Zenon DEF Ours
  <2> QED BY <2>1, <2>2
<1>4. ASSUME NEW m \in Nodes, m # n
      PROVE  LET e == Elapse(stations[m], dt)
             IN  /\ Own(e) /\ e.out = NoFrame /\ Ours(e) = Ours(stations[m]) /\ e.calls = <<>>
                 /\ e.phy = stations[m].phy
                 /\ stations[m].timer["tX"] > 0 =>
                      e.timer["tX"] = stations[m].timer["tX"] - dt
  <2> DEFINE r == stations[m]
             e == Elapse(r, dt)
  <2>1. r \in Station /\ Own(r) /\ r.out = NoFrame
    BY DEF Inv, AirInv
  <2> HIDE DEF r
  <2>2. /\ e.id = r.id /\ e.phy = r.phy /\ e.pDATA = r.pDATA /\ e.pRTS = r.pRTS
        /\ e.pCTRL = r.pCTRL /\ e.calls = <<>> /\ e.out = r.out
    BY <2>1 DEF Elapse, Station
  <2>3. e.timer["tX"] = IF r.timer["tX"] >= 0 THEN r.timer["tX"] - dt ELSE r.timer["tX"]
    BY <2>1, TimerNames DEF Elapse, Station
  <2>4. r.timer["tX"] \in Int
    BY <2>1, TimerNames DEF Station
  <2> HIDE DEF e
  <2>5. Own(e)
    BY <2>1, <2>2 DEF Own, Made
  <2>6. Ours(e) = Ours(r)
    BY <2>2, Zenon DEF Ours
  <2> QED BY <2>1, <2>2, <2>3, <2>4, <2>5, <2>6 DEF e, r
<1>5. PICK e \in BOOLEAN :
        air' = {[x EXCEPT !.left = @ - dt] : x \in rest}
               \cup (IF s.out = NoFrame THEN {} ELSE Copies([s.out EXCEPT !.bad = e], n))
  <2>1. Errors(s.out) \subseteq BOOLEAN
    BY DEF Errors
  <2> QED BY <2>1 DEF Commit
<1> DEFINE C == IF s.out = NoFrame THEN {} ELSE Copies(Damaged(s.out, e), n)
<1>6. \A y : y \in air' <=> (\E x \in rest : y = Later(x, dt)) \/ y \in C
  BY <1>5 DEF Later, Damaged
<1>7. \A x \in rest : x \in air /\ x \in Arrival /\ x.to \in Nodes /\ x.frame.src \in Nodes
                      /\ x.left \in Nat
  BY ArrivalIs
<1>8. \A x \in rest : Later(x, dt).to = x.to /\ Later(x, dt).frame = x.frame
                      /\ Later(x, dt).left = x.left - dt
  BY <1>7, LaterIs
<1>9. \A y \in C : /\ s.out # NoFrame /\ y.to \in Nodes \ {n} /\ y.frame.src = n
                   /\ y.left < s.timer["tX"] /\ Launched(s)
                   /\ y = [to |-> y.to, frame |-> Damaged(s.out, e),
                           left |-> ChannelDelay + PropagationDelay(Damaged(s.out, e))]
  BY CopiesLaunched
<1>10. s.out # NoFrame => \A to \in Nodes \ {n} : \E y \in C : y.to = to
  <2> SUFFICES ASSUME s.out # NoFrame, NEW to \in Nodes \ {n} PROVE \E y \in C : y.to = to
    OBVIOUS
  <2> DEFINE y == [to |-> to, frame |-> Damaged(s.out, e),
                   left |-> ChannelDelay + PropagationDelay(Damaged(s.out, e))]
  <2>1. y \in C /\ y.to = to
    BY DEF Copies
  <2> QED BY <2>1
<1> HIDE DEF C
<1>11. ASSUME NEW x \in rest
       PROVE  LET r == stations'[x.frame.src]
              IN  r.phy = "TXing" /\ x.left - dt < r.timer["tX"]
  <2>1. /\ x.frame.src \in Nodes /\ stations[x.frame.src].phy = "TXing"
        /\ x.left < stations[x.frame.src].timer["tX"] /\ x.left \in Nat
    BY <1>7 DEF AirInv
  <2>2. stations[x.frame.src].timer["tX"] \in Int
    <3>1. PICK m, r : m = x.frame.src /\ r = stations[m]
      OBVIOUS
    <3>2. r \in Sound(m, {}) /\ "tX" \in Timers
      BY <2>1, <3>1, TimerNames DEF Inv, Good, Steady
    <3>3. r.timer["tX"] \in Int
      BY <3>2, TimerValues
    <3> QED BY <3>1, <3>3
  <2>3. CASE x.frame.src = n
    BY <1>1, <1>2, <2>1, <2>2, <2>3
  <2>4. CASE x.frame.src # n
    BY <1>1, <1>4, <2>1, <2>2, <2>4
  <2> QED BY <2>3, <2>4
<1>12. \A m \in Nodes : Own(stations'[m]) /\ stations'[m].out = NoFrame
  BY <1>1, <1>2, <1>3, <1>4
<1>13. \A m \in toStart' : stations'[m].calls = <<>>
  <2> TAKE m \in toStart'
  <2>1. m \in Nodes /\ m # n
    BY DEF Inv
  <2> QED BY <1>1, <1>4, <2>1
<1>14. ASSUME NEW y \in air'
       PROVE  /\ y.to # y.frame.src /\ stations'[y.frame.src].phy = "TXing"
              /\ y.left < stations'[y.frame.src].timer["tX"]
  <2>1. ASSUME NEW x \in rest, y = Later(x, dt)
        PROVE  /\ y.to # y.frame.src /\ stations'[y.frame.src].phy = "TXing"
               /\ y.left < stations'[y.frame.src].timer["tX"]
    <3>1. x.to # x.frame.src
      BY <1>7 DEF AirInv
    <3> QED BY <1>8, <1>11, <2>1, <3>1
  <2>2. CASE y \in C
    <3>1. s.phy = "TXing"
      BY <1>9, <2>2 DEF Launched
    <3> QED BY <1>1, <1>2, <1>9, <2>2, <3>1
  <2> QED BY <1>6, <2>1, <2>2
<1>15. ASSUME NEW x \in air', NEW y \in air', x.to = y.to, x.frame.src = y.frame.src
       PROVE  x = y
  <2>1. C # {} => \A a \in rest : Later(a, dt).frame.src # n
    BY <1>7, <1>8, <1>9
  <2>2. CASE x \in C \/ y \in C
    <3>1. x \in C /\ y \in C
      BY <1>6, <1>9, <1>15, <2>1, <2>2
    <3> QED BY <1>9, <1>15, <3>1
  <2>3. CASE x \notin C /\ y \notin C
    <3>1. PICK a \in rest, b \in rest : x = Later(a, dt) /\ y = Later(b, dt)
      BY <1>6, <2>3
    <3>2. a.to = b.to /\ a.frame.src = b.frame.src
      BY <1>8, <1>15, <3>1
    <3>3. a = b
      BY <1>7, <3>2 DEF AirInv
    <3> QED BY <3>1, <3>3
  <2> QED BY <2>2, <2>3
<1>16. AirInv'
  BY <1>12, <1>13, <1>14, <1>15 DEF AirInv
<1>17. ASSUME NEW to \in Nodes, NEW m \in Nodes
       PROVE  <<to, m>> \in Scheduled' <=>
                \/ \E x \in rest : x.to = to /\ x.frame.src = m
                \/ m = n /\ to \in (IF s.out = NoFrame THEN {} ELSE Nodes \ {n})
  <2>1. <<to, m>> \in Scheduled' <=> \E y \in air' : y.to = to /\ y.frame.src = m
    BY DEF Scheduled, Flights
  <2>2. (\E y \in C : y.to = to /\ y.frame.src = m)
          <=> m = n /\ to \in (IF s.out = NoFrame THEN {} ELSE Nodes \ {n})
    BY <1>9, <1>10
  <2>3. (\E y \in air' : y.to = to /\ y.frame.src = m)
          <=> \/ \E x \in rest : x.to = to /\ x.frame.src = m
              \/ \E y \in C : y.to = to /\ y.frame.src = m
    BY <1>6, <1>8
  <2> QED BY <2>1, <2>2, <2>3
<1>18. /\ \A m \in Nodes : m # n => Ours(stations'[m]) = Ours(stations[m])
       /\ Ours(stations'[n]) = Ours(s) /\ stations'[n].calls = s.calls
  BY <1>1, <1>2, <1>3, <1>4
<1> QED BY <1>16, <1>17, <1>18, Zenon DEF Departed

-----------------------------------------------------------------------------
(* The events *)

\* An event whose handler is settled: those of the timers, and the start of a
\* node.
LEMMA SettledOwned ==
  ASSUME Inv, Inv', MemoryInv, AirInv, Owned, NEW n \in Nodes, NEW dt \in Nat,
         NotDueBefore(dt) \/ dt = 0, \A x \in air : dt <= x.left,
         NEW o, Ours(o) = Ours(stations[n]), o.phy = stations[n].phy,
         NEW s, Settled(o, s), s.id = n,
         Commit(n, stations[n], s, dt, air), toStart' \subseteq toStart \ {n}, Calls(n, 0),
         \A x \in air : x.frame.src = n =>
            s.phy = "TXing" /\ s.timer["tX"] = stations[n].timer["tX"] - dt
  PROVE  AirInv' /\ Owned'
<1> DEFINE D == IF s.out = NoFrame THEN {} ELSE Nodes \ {n}
           calls == s.calls
<1>1. /\ s \in Station /\ Own(s)
      /\ Books([held |-> Ours(o), sent |-> FALSE], calls, Ledger(s, {}))
      /\ s.out # NoFrame => o.phy # "TXing" /\ Launched(s)
  BY Zenon DEF Settled, Own
<1>2. s.out # NoFrame => Launched(s) /\ \A x \in air : x.frame.src # n
  BY <1>1 DEF AirInv
<1>3. PICK R : R = air
  OBVIOUS
<1>4. /\ AirInv'
      /\ \A to, m \in Nodes :
           <<to, m>> \in Scheduled' <=>
             \/ \E x \in air : x.to = to /\ x.frame.src = m
             \/ m = n /\ to \in D
      /\ \A m \in Nodes : m # n => Ours(stations'[m]) = Ours(stations[m])
      /\ Ours(stations'[n]) = Ours(s) /\ stations'[n].calls = calls
  <2>1. /\ s \in Station /\ s.id = n /\ Own(s) /\ R \subseteq air
        /\ \A x \in R : dt <= x.left
        /\ Commit(n, stations[n], s, dt, R)
    BY <1>1, <1>3
  <2>2. \A x \in R : x.frame.src = n =>
           s.phy = "TXing" /\ s.timer["tX"] = stations[n].timer["tX"] - dt
    BY <1>3
  <2>3. Departed(n, s, R)
    BY <1>2, <2>1, <2>2, CommitAir
  <2> QED BY <1>3, <2>3 DEF Departed
<1>5. calls \in Seq(PoolCalls)
  BY <1>1 DEF Station
<1> HIDE DEF D, calls
<1>6. \A to, m \in Nodes : <<to, m>> \in Scheduled <=> \E x \in air : x.to = to /\ x.frame.src = m
  BY DEF Scheduled, Flights
<1>7. Leaves(n, {}, D)
  <2>1. D = {} \/ (D = Nodes \ {n} /\ \A to \in Nodes : <<to, n>> \notin Scheduled)
    BY <1>2, <1>6 DEF D
  <2> QED BY <1>4, <1>6, <2>1 DEF Leaves
<1>8. Arriving(n, 0, {}, {})
  BY DEF Arriving
<1>9. PICK l, r, O, Q : /\ l = [held |-> Ours(o), sent |-> FALSE] /\ r = Ledger(s, {})
                        /\ O = Image(Points, Others(n, {}))
                        /\ Q = Image(Points, OtherArrivals({}))
  OBVIOUS
<1>10. /\ l \in Ledgers /\ r \in Ledgers /\ l.held = Ours(stations[n]) /\ Sent(n, l) = {}
       /\ r.held = Ours(s) /\ Sent(n, r) = D
  <2>1. {} \subseteq Slots
    OBVIOUS
  <2>2. r \in Ledgers /\ r.held = Ours(s) \cup {} /\ r.sent = (s.out # NoFrame)
    BY <1>9, <2>1, LedgerType
  <2>3. Ours(o) \in SUBSET Slots
    BY <2>1, LedgerType
  <2>4. l \in Ledgers /\ l.held = Ours(o) /\ l.sent = FALSE
    BY <1>9, <2>3 DEF Ledgers
  <2>5. Ours(s) \cup {} = Ours(s)
    OBVIOUS
  <2> QED BY <2>2, <2>4, <2>5 DEF Sent, D
<1>11. Balanced(Begin(n, 0), l.held, Sent(n, l), O, Q)
  <2>1. Balanced(Begin(n, 0), Ours(stations[n]) \cup {}, {}, O, Q)
    BY <1>8, <1>9, CallsOpen
  <2>2. Ours(stations[n]) \cup {} = Ours(stations[n])
    OBVIOUS
  <2> QED BY <1>10, <2>1, <2>2
<1>12. Balanced(Performed(n, Begin(n, 0), calls), r.held, Sent(n, r), O, Q)
  BY <1>1, <1>5, <1>9, <1>10, <1>11, BalancedBooks
<1>13. Balanced(Performed(n, Begin(n, 0), stations'[n].calls), Ours(stations'[n]), D, O, Q)
  BY <1>4, <1>10, <1>12
<1>14. Owned'
  BY <1>7, <1>8, <1>9, <1>13, CallsClose
<1> QED BY <1>4, <1>14

\* Node::run.
LEMMA StartOwned ==
  ASSUME Inv, Inv', MemoryInv, AirInv, Owned, NEW n \in Nodes, Start(n), Calls(n, 0)
  PROVE  AirInv' /\ Owned'
<1> DEFINE o == stations[n]
<1>1. PICK in \in Inputs(MaxDraw) : Commit(n, o, TrafficStart(o, in), 0, air)
  BY DEF Start
<1>2. in \in AnyInput
  BY NetworkAssumption, InputsType
<1>3. PICK s : s = TrafficStart(o, in)
  OBVIOUS
<1>4. n \in toStart /\ toStart' \subseteq toStart \ {n}
  BY DEF Start
<1>5. /\ o \in Good(n, {}) /\ o.txc = "Idle" /\ o.calls = <<>> /\ o.out = NoFrame
      /\ Made(o, o.pDATA) /\ Made(o, o.pRTS) /\ Made(o, o.pCTRL)
  BY <1>4 DEF Inv, AirInv, Own
<1>6. Settled(o, s) /\ (o.phy = "TXing" => s.phy = "TXing" /\ s.timer["tX"] = o.timer["tX"])
  <2> HIDE DEF o
  <2> QED BY <1>2, <1>3, <1>5, TrafficStartSettled
<1>7. s.id = n
  <2>1. s \in Good(n, {})
    BY <1>2, <1>3, <1>5, TrafficStartGood
  <2> QED BY <2>1 DEF Good, Steady, Sound
<1>8. \A x \in air : 0 <= x.left
  <2> TAKE x \in air
  <2>1. x.left \in Nat
    BY ArrivalIs
  <2> QED BY <2>1
<1>9. ASSUME NEW x \in air, x.frame.src = n
      PROVE  s.phy = "TXing" /\ s.timer["tX"] = o.timer["tX"] - 0
  <2>1. o.phy = "TXing"
    BY <1>9 DEF AirInv
  <2>2. o.timer["tX"] \in Int
    <3>1. o \in Sound(n, {}) /\ "tX" \in Timers
      BY <1>5, TimerNames DEF Good, Steady
    <3> QED BY <3>1, TimerValues
  <2> QED BY <1>6, <2>1, <2>2
<1> QED BY <1>1, <1>3, <1>4, <1>6, <1>7, <1>8, <1>9, SettledOwned

\* What the clock leaves of station n at its event.
LEMMA ElapsedIs ==
  ASSUME Inv, AirInv, NEW n \in Nodes, NEW dt \in Nat, NotDueBefore(dt)
  PROVE  LET e == Elapse(stations[n], dt)
         IN  /\ e \in Good(n, {}) /\ e \in Station /\ e.calls = <<>> /\ e.out = NoFrame
             /\ Own(e) /\ Ours(e) = Ours(stations[n]) /\ e.phy = stations[n].phy
             /\ stations[n].phy = "TXing" => e.timer["tX"] = stations[n].timer["tX"] - dt
<1> DEFINE r == stations[n]
           e == Elapse(r, dt)
<1>1. r \in Station /\ Own(r) /\ r.out = NoFrame /\ r \in Good(n, {})
  BY DEF Inv, AirInv
<1>2. e \in Good(n, {})
  BY OthersElapse
<1>3. r.phy = "TXing" => r.timer["tX"] >= 0
  BY <1>1 DEF Good, Steady, PhyTimed, Pending
<1> HIDE DEF r
<1>4. /\ e.id = r.id /\ e.phy = r.phy /\ e.pDATA = r.pDATA /\ e.pRTS = r.pRTS
      /\ e.pCTRL = r.pCTRL /\ e.calls = <<>> /\ e.out = r.out
  BY <1>1 DEF Elapse, Station
<1>5. e.timer["tX"] = IF r.timer["tX"] >= 0 THEN r.timer["tX"] - dt ELSE r.timer["tX"]
  BY <1>1, TimerNames DEF Elapse, Station
<1> HIDE DEF e
<1>6. Own(e)
  BY <1>1, <1>4 DEF Own, Made
<1>7. Ours(e) = Ours(r)
  BY <1>4, Zenon DEF Ours
<1>8. e \in Station
  BY <1>2 DEF Good, Steady, Sound
<1> QED BY <1>1, <1>2, <1>3, <1>4, <1>5, <1>6, <1>7, <1>8 DEF e, r

\* The expiry of a timer.
LEMMA DispatchOwned ==
  ASSUME Inv, Inv', MemoryInv, AirInv, Owned, NEW n \in Nodes, NEW t \in Timers,
         Dispatch(n, t), Calls(n, 0)
  PROVE  AirInv' /\ Owned'
<1> DEFINE dt == stations[n].timer[t]
           e == Elapse(stations[n], dt)
<1>1. PICK in \in Inputs(MaxDraw) :
        NotDueBefore(dt) /\ Commit(n, stations[n], HandleTimer(e, t, in), dt, air)
  BY DEF Dispatch
<1>2. in \in AnyInput
  BY NetworkAssumption, InputsType
<1>3. Pending(stations[n], t) /\ dt \in Nat
  <2>1. stations[n] \in Good(n, {}) /\ Pending(stations[n], t) /\ dt >= 0
    BY DEF Inv, Dispatch, Pending
  <2>2. dt \in Int
    BY <2>1, TimerValues DEF Good, Steady
  <2> QED BY <2>1, <2>2
<1>4. e.timer[t] = 0
  <2>1. PICK d : d = dt
    OBVIOUS
  <2>2. Elapse(stations[n], d).timer[t] = stations[n].timer[t] - d
    BY <1>1, <1>3, <2>1, OthersElapse
  <2> QED BY <1>3, <2>1, <2>2
<1>5. dt = stations[n].timer[t]
  OBVIOUS
<1> HIDE DEF dt
<1>6. /\ e \in Good(n, {}) /\ e.calls = <<>> /\ Own(e)
      /\ Ours(e) = Ours(stations[n]) /\ e.phy = stations[n].phy
      /\ stations[n].phy = "TXing" => e.timer["tX"] = stations[n].timer["tX"] - dt
  BY <1>1, <1>3, ElapsedIs
<1> HIDE DEF e
<1>7. PICK s : s = HandleTimer(e, t, in)
  OBVIOUS
<1>8. /\ Settled(e, s)
      /\ t # "tX" /\ e.phy = "TXing" => s.phy = "TXing" /\ s.timer["tX"] = e.timer["tX"]
  BY <1>2, <1>4, <1>6, <1>7, HandleTimerSettled DEF Own
<1>9. s.id = n
  <2>1. s \in Good(n, {})
    BY <1>2, <1>4, <1>6, <1>7, HandleTimerGood
  <2> QED BY <2>1 DEF Good, Steady, Sound
<1>10. \A x \in air : dt <= x.left
  BY <1>1 DEF NotDueBefore
<1>11. ASSUME NEW x \in air, x.frame.src = n
       PROVE  s.phy = "TXing" /\ s.timer["tX"] = stations[n].timer["tX"] - dt
  <2>1. stations[n].phy = "TXing" /\ x.left < stations[n].timer["tX"]
    BY <1>11 DEF AirInv
  <2>2. t # "tX"
    <3>1. x.left \in Nat /\ dt <= x.left
      BY <1>10, ArrivalIs
    <3> QED BY <1>3, <1>5, <2>1, <3>1
  <2> QED BY <1>6, <1>8, <2>1, <2>2
<1>12. toStart' \subseteq toStart \ {n}
  BY DEF Dispatch
<1> QED BY <1>1, <1>3, <1>6, <1>7, <1>8, <1>9, <1>10, <1>11, <1>12, SettledOwned

\* The arrival of a frame: its packet is the one of the arrival, which is no
\* longer scheduled.
LEMMA ArriveOwned ==
  ASSUME Inv, Inv', MemoryInv, AirInv, Owned, NEW a \in air, Arrive(a),
         Calls(a.to, flight[a.to][a.frame.src])
  PROVE  AirInv' /\ Owned'
<1> DEFINE n == a.to
           src == a.frame.src
           p == flight[n][src]
           dt == a.left
           e == Elapse(stations[n], dt)
           here == [e EXCEPT !.done = "none", !.fault = "none"]
           A == {<<n, src>>}
           X == {"arrived"}
           rest == air \ {a}
<1>1. /\ n \in Nodes /\ src \in Nodes /\ dt \in Nat /\ a.frame \in Frame
  BY ArrivalIs
<1>2. NotDueBefore(dt) /\ toStart = {} /\ toStart' = toStart
  BY DEF Arrive
<1>3. PICK in \in Inputs(0) : Commit(n, stations[n], Recv(here, a.frame, in), dt, rest)
  BY DEF Arrive
<1>4. /\ e \in Station /\ e.calls = <<>> /\ e.out = NoFrame /\ e \in Good(n, {})
      /\ Own(e) /\ Ours(e) = Ours(stations[n]) /\ e.phy = stations[n].phy
      /\ stations[n].phy = "TXing" => e.timer["tX"] = stations[n].timer["tX"] - dt
  BY <1>1, <1>2, ElapsedIs
<1> HIDE DEF e
<1>5. /\ here \in Station /\ here.calls = <<>> /\ here.out = NoFrame /\ here.id = n
      /\ here.pDATA = e.pDATA /\ here.pRTS = e.pRTS /\ here.pCTRL = e.pCTRL
      /\ here.phy = e.phy /\ here.timer = e.timer
  <2>1. e.id = n
    BY <1>4 DEF Good, Steady, Sound
  <2> QED BY <1>4, <2>1 DEF Station
<1> HIDE DEF here
<1>6. Own(here) /\ Ours(here) = Ours(stations[n])
  <2>1. e.id = n
    BY <1>4 DEF Good, Steady, Sound
  <2>2. Own(here)
    BY <1>4, <1>5, <2>1 DEF Own, Made
  <2>3. Ours(here) = Ours(e)
    BY <1>5, Zenon DEF Ours
  <2> QED BY <1>4, <2>2, <2>3
<1>7. PICK s : s = Recv(here, a.frame, in)
  OBVIOUS
<1>8. /\ s \in Station /\ SamePackets(here, s) /\ s.out = here.out
      /\ here.phy = "TXing" => s.phy = "TXing" /\ s.timer["tX"] = here.timer["tX"]
      /\ \/ Discards(s.calls) /\ Ours(s) = Ours(here)
         \/ /\ Accepts(s.calls) /\ Ours(s) = Ours(here) \cup {"pktRX"}
            /\ "pktRX" \notin Ours(here)
  BY <1>1, <1>5, <1>7, RecvCalls
<1>9. s.id = n /\ Own(s) /\ s.out = NoFrame
  BY <1>5, <1>6, <1>8 DEF SamePackets, Own, Made
<1>10. rest \subseteq air /\ (\A x \in rest : dt <= x.left) /\ toStart' \subseteq toStart \ {n}
  BY <1>2 DEF NotDueBefore
<1>11. ASSUME NEW x \in rest, x.frame.src = n
       PROVE  s.phy = "TXing" /\ s.timer["tX"] = stations[n].timer["tX"] - dt
  <2>1. stations[n].phy = "TXing"
    BY <1>11 DEF AirInv
  <2> QED BY <1>4, <1>5, <1>8, <2>1
<1>12. Commit(n, stations[n], s, dt, rest)
  BY <1>3, <1>7
<1>13. PICK N, R, d, P : N = n /\ R = rest /\ d = dt /\ P = p
  OBVIOUS
<1>14. /\ AirInv'
       /\ \A to, m \in Nodes :
            <<to, m>> \in Scheduled' <=>
              \/ \E x \in R : x.to = to /\ x.frame.src = m
              \/ m = N /\ to \in (IF s.out = NoFrame THEN {} ELSE Nodes \ {N})
       /\ \A m \in Nodes : m # N => Ours(stations'[m]) = Ours(stations[m])
       /\ Ours(stations'[N]) = Ours(s) /\ stations'[N].calls = s.calls
  <2>1. N \in Nodes /\ d \in Nat /\ NotDueBefore(d) /\ R \subseteq air /\ s.id = N
        /\ (\A x \in R : d <= x.left) /\ toStart' \subseteq toStart \ {N}
        /\ Commit(N, stations[N], s, d, R)
    BY <1>1, <1>2, <1>9, <1>10, <1>12, <1>13
  <2>2. \A x \in R : x.frame.src = N =>
           s.phy = "TXing" /\ s.timer["tX"] = stations[N].timer["tX"] - d
    BY <1>11, <1>13
  <2>3. Departed(N, s, R)
    BY <1>8, <1>9, <2>1, <2>2, CommitAir
  <2> QED BY <2>3 DEF Departed
<1>15. \A to, m \in Nodes : <<to, m>> \in Scheduled <=> \E x \in air : x.to = to /\ x.frame.src = m
  BY DEF Scheduled, Flights
<1>16. ASSUME NEW to \in Nodes, NEW m \in Nodes
       PROVE  (\E x \in R : x.to = to /\ x.frame.src = m)
                <=> <<to, m>> \in Scheduled /\ <<to, m>> \notin A
  <2>1. <<to, m>> \in A <=> to = a.to /\ m = a.frame.src
    OBVIOUS
  <2>2. \A x \in air : x.to = a.to /\ x.frame.src = a.frame.src => x = a
    BY DEF AirInv
  <2>3. \A x : x \in R <=> x \in air /\ x # a
    BY <1>13
  <2> QED BY <1>15, <2>1, <2>2, <2>3
<1>17. Leaves(N, A, {})
  <2>1. ASSUME NEW to \in Nodes, NEW m \in Nodes
        PROVE  <<to, m>> \in Scheduled' <=> \/ <<to, m>> \in Scheduled /\ <<to, m>> \notin A
                                            \/ m = N /\ to \in {}
    <3>1. <<to, m>> \in Scheduled' <=>
            \/ \E x \in R : x.to = to /\ x.frame.src = m
            \/ m = N /\ to \in (IF s.out = NoFrame THEN {} ELSE Nodes \ {N})
      BY <1>14
    <3>2. (IF s.out = NoFrame THEN {} ELSE Nodes \ {N}) = {}
      BY <1>9
    <3>3. (\E x \in R : x.to = to /\ x.frame.src = m)
            <=> <<to, m>> \in Scheduled /\ <<to, m>> \notin A
      BY <1>16
    <3> HIDE DEF A
    <3> QED BY <3>1, <3>2, <3>3
  <2> QED BY <1>14, <2>1 DEF Leaves
<1>18. Arriving(N, P, A, X)
  <2>1. <<n, src>> \in Scheduled
    BY <1>1, <1>15
  <2> QED BY <1>1, <1>13, <2>1 DEF Arriving
<1> DEFINE H == Ours(stations[N])
           O == Image(Points, Others(N, A))
           Q == Image(Points, OtherArrivals(A))
<1>19. Balanced(Begin(N, P), H \cup {"arrived"}, {}, O, Q)
  BY <1>1, <1>13, <1>18, CallsOpen
<1>20. "arrived" \notin H /\ s.calls \in Seq(PoolCalls)
  BY <1>8 DEF Ours, Kept, Station
<1>21. H = Ours(here)
  BY <1>6, <1>13
<1> HIDE DEF H, O, Q
<1>22. Balanced(Performed(N, Begin(N, P), s.calls), Ours(s), {}, O, Q)
  <2>1. CASE Discards(s.calls) /\ Ours(s) = Ours(here)
    BY <1>1, <1>13, <1>19, <1>20, <1>21, <2>1, BalancedDiscards
  <2>2. CASE /\ Accepts(s.calls) /\ Ours(s) = Ours(here) \cup {"pktRX"}
             /\ "pktRX" \notin Ours(here)
    <3>1. Balanced(Performed(N, Begin(N, P), s.calls), H \cup {"pktRX"}, {}, O, Q)
      BY <1>1, <1>13, <1>19, <1>20, <1>21, <2>2, BalancedAccepts
    <3> QED BY <1>21, <2>2, <3>1
  <2> QED BY <1>8, <2>1, <2>2
<1>23. Balanced(Performed(N, Begin(N, P), stations'[N].calls), Ours(stations'[N]), {}, O, Q)
  BY <1>14, <1>22
<1>24. N \in Nodes /\ Calls(N, P)
  BY <1>1, <1>13
<1>25. Owned'
  BY <1>17, <1>18, <1>23, <1>24, CallsClose DEF O, Q
<1> QED BY <1>14, <1>25

\* The end of the simulation concerns no packet.
LEMMA StopOwned ==
  ASSUME Inv, AirInv, Owned, StopSimulation, UNCHANGED memory
  PROVE  AirInv' /\ Owned'
<1>1. /\ stations' = [n \in Nodes |-> TrafficStop(stations[n])]
      /\ air' = air /\ toStart' = {}
  BY DEF StopSimulation
<1>2. ASSUME NEW n \in Nodes
      PROVE  /\ Own(stations'[n]) /\ stations'[n].out = NoFrame
             /\ stations'[n].phy = stations[n].phy /\ stations'[n].timer = stations[n].timer
             /\ \A k : Null(stations'[n], k) = Null(stations[n], k)
  <2>1. PICK r, u : r = stations[n] /\ u = [r EXCEPT !.active = FALSE]
    OBVIOUS
  <2>2. r \in Station /\ Own(r) /\ r.out = NoFrame /\ stations'[n] = u
    BY <1>1, <2>1 DEF Inv, AirInv, TrafficStop
  <2>3. /\ u.id = r.id /\ u.pDATA = r.pDATA /\ u.pRTS = r.pRTS /\ u.pCTRL = r.pCTRL
        /\ u.pktRX = r.pktRX /\ u.out = r.out /\ u.phy = r.phy /\ u.timer = r.timer
    BY <2>1, <2>2 DEF Station
  <2>4. Own(u)
    BY <2>2, <2>3 DEF Own, Made
  <2>5. \A k : Null(u, k) = Null(r, k)
    BY <2>3, Zenon DEF Null, Held
  <2> QED BY <2>1, <2>2, <2>3, <2>4, <2>5
<1>3. AirInv'
  <2>1. \A x \in air : x.frame.src \in Nodes
    BY ArrivalIs
  <2> QED BY <1>1, <1>2, <2>1 DEF AirInv
<1>4. Scheduled' = Scheduled
  BY <1>1 DEF Scheduled
<1>5. Owners' = Owners
  <2>1. \A o \in Pointers : Null(stations'[o[1]], o[2]) = Null(stations[o[1]], o[2])
    BY <1>2 DEF Pointers
  <2> QED BY <1>4, <2>1 DEF Owners
<1>6. Points' = Points /\ pool' = pool
  BY DEF Points, PacketOf, memory
<1> QED BY <1>3, <1>4, <1>5, <1>6 DEF Owned

\* Every step keeps the owners.
LEMMA OwnedNext ==
  Inv /\ Inv' /\ MemoryInv /\ AirInv /\ Owned /\ [MemoryNext]_allVars => AirInv' /\ Owned'
<1> SUFFICES ASSUME Inv, Inv', MemoryInv, AirInv, Owned, [MemoryNext]_allVars
             PROVE  AirInv' /\ Owned'
  OBVIOUS
<1>1. ASSUME NEW n \in Nodes, Start(n), Calls(n, 0) PROVE AirInv' /\ Owned'
  BY <1>1, StartOwned
<1>2. ASSUME NEW n \in Nodes, NEW t \in Timers, Dispatch(n, t), Calls(n, 0)
      PROVE  AirInv' /\ Owned'
  BY <1>2, DispatchOwned
<1>3. ASSUME NEW a \in air, Arrive(a), Calls(a.to, flight[a.to][a.frame.src])
      PROVE  AirInv' /\ Owned'
  BY <1>3, ArriveOwned
<1>4. CASE StopSimulation /\ UNCHANGED memory
  BY <1>4, StopOwned
<1>5. CASE UNCHANGED allVars
  <2>1. UNCHANGED <<stations, air, toStart, pool, pointer, flight>>
    BY <1>5 DEF allVars, vars, memory
  <2>2. AirInv'
    BY <2>1 DEF AirInv
  <2>3. Owners' = Owners /\ Scheduled' = Scheduled
    BY <2>1 DEF Owners, Scheduled
  <2>4. Points' = Points
    BY <2>1 DEF Points, PacketOf
  <2> QED BY <2>1, <2>2, <2>3, <2>4 DEF Owned
<1>6. Return /\ UNCHANGED memory => UNCHANGED allVars
  BY DEF Return, allVars
<1> QED BY <1>1, <1>2, <1>3, <1>4, <1>5, <1>6 DEF MemoryNext

\* At first no packet exists and every pointer is null.
LEMMA OwnedInit == MemoryInit => Owned
<1> SUFFICES ASSUME MemoryInit PROVE Owned
  OBVIOUS
<1>1. Inv /\ air = {} /\ pool = EmptyPool /\ \A n \in Nodes : stations[n] = InitStation(n)
  BY InvInit DEF MemoryInit, Init
<1>2. Scheduled = {}
  BY <1>1 DEF Scheduled
<1>3. Owners = {}
  <2>1. \A n \in Nodes, k \in Kept : Null(stations[n], k)
    <3> TAKE n \in Nodes, k \in Kept
    <3>1. PICK s : s = InitStation(n) /\ s = stations[n]
      BY <1>1
    <3>2. s.pDATA = NoFrame /\ s.pRTS = NoFrame /\ s.pCTRL = NoFrame /\ s.pktRX = NoFrame
      BY ONLY <3>1 DEF InitStation
    <3> QED BY <3>1, <3>2 DEF Kept, Null, Held
  <2> QED BY <1>2, <2>1 DEF Owners, Pointers
<1>4. pool.used = {} /\ pool.queued = {} /\ ~pool.failed
  BY <1>1 DEF EmptyPool
<1> QED BY <1>2, <1>3, <1>4 DEF Owned, OneOwner

\* The whole invariant.
LEMMA OwnedAlways == MemorySpec => []Owned
<1>1. MemoryInit => Inv /\ MemoryInv /\ AirInv /\ Owned
  BY InvInit, MemoryInvInit, AirInit, OwnedInit DEF MemoryInit
<1>2. (Inv /\ MemoryInv /\ AirInv /\ Owned) /\ [MemoryNext]_allVars
        => (Inv /\ MemoryInv /\ AirInv /\ Owned)'
  BY MemoryNextIs, InvNext, MemoryInvNext, OwnedNext
<1> QED BY <1>1, <1>2, PTL DEF MemorySpec

\* Between two events every packet in use belongs to exactly one pointer or
\* scheduled arrival, each of those has a packet in use, and the event queue
\* holds those of the arrivals, in a network of any finite number of stations:
\* nothing leaks, is shared or points to a freed packet, though
\* WirelessPhy::recv frees some packets twice.
THEOREM Ownership == MemorySpec => []PacketsHaveOneOwner
BY OwnedAlways, OwnedIs, PTL

\* No assertion of Packet::alloc or Packet::free ever fails, and no packet is
\* scheduled that the event queue holds already, whatever the stations do.
THEOREM NoPoolAssertion == MemorySpec => []PoolAssertionsHold
BY OwnedAlways, OwnedIs, PTL
=============================================================================
