---------------------------- MODULE PacketMemory ----------------------------
(***************************************************************************)
(* The packets of the network: Network, whose stations record the calls of *)
(* the packet pool each of their handlers makes, with the pool those calls *)
(* act on.  Ownership is by convention in the program: a packet belongs to *)
(* the pointer it was allocated for until that pointer frees it, and the   *)
(* channel's copies belong to the event queue.                             *)
(***************************************************************************)
EXTENDS Network, PacketPool, FiniteSets

\* A simulation has finitely many nodes.
ASSUME NodesAssumption == IsFiniteSet(Nodes)

\* A frame has arrived everywhere before the station that sent it can send the
\* next one: there is at most one arrival at one station from another.  The
\* program builds its channel with a delay of 0 (simulator.cc:58, channel.h:28).
ASSUME DelayAssumption == ChannelDelay < TxTime(ACKlen)

SX == INSTANCE SequencesExt

VARIABLES
    pool,      \* the packet pool
    pointer,   \* [Nodes -> [Kept -> packet or 0]]: what the pointers point to
    flight     \* [Nodes -> [Nodes -> packet or 0]]: the scheduled arrival at
               \* the first from the second

memory == <<pool, pointer, flight>>
allVars == <<vars, memory>>

\* The pointers that outlive a handler, and the ones that are null.
Kept == {"pDATA", "pRTS", "pCTRL", "pktRX"}
Held(s, slot) ==
    CASE slot = "pDATA" -> s.pDATA [] slot = "pRTS"  -> s.pRTS
      [] slot = "pCTRL" -> s.pCTRL [] slot = "pktRX" -> s.pktRX
Null(s, slot) == Held(s, slot) = NoFrame

\* An address is not the name of a pointer.
ASSUME AddressesAreNoPointers == Nodes \cap Kept = {}

MemoryInit ==
    /\ Init
    /\ pool = EmptyPool
    /\ pointer = [n \in Nodes |-> [k \in Kept |-> 0]]
    /\ flight = [n \in Nodes |-> [m \in Nodes |-> 0]]

-----------------------------------------------------------------------------
(* The calls of one handler.  m is the pool, the pointers of the station at  *)
(* work and the copies that its transmission puts in flight.                 *)

\* Faulty variant: every interface is handed the packet itself.
SendUpCopy_shares(m, to) ==
    [m EXCEPT !.pool = Enqueue(@, m.points["sent"]), !.sent[to] = m.points["sent"]]

\* Channel::sendUp for one of the other interfaces.
SendUpCopy(m, to) ==
    [m EXCEPT !.pool = Enqueue(AllocPacket(@), Allocated(@)),
              !.sent[to] = Allocated(m.pool)]

\* Channel::sendUp: the copies are scheduled, the packet is freed.
ChannelSendUp(m, others) ==
    LET copied == SX!FoldLeft(SendUpCopy, m, SX!SetToSeq(others))
    IN  [copied EXCEPT !.pool = FreePacket(@, m.points["sent"])]

\* One call, made by station n.
Perform(n, m, call) ==
    CASE call[1] = "alloc" ->
            [m EXCEPT !.pool = AllocPacket(@), !.points[call[2]] = Allocated(m.pool)]
      [] call[1] = "free" -> [m EXCEPT !.pool = FreePacket(@, m.points[call[2]])]
      [] call[1] = "send" -> ChannelSendUp(m, Nodes \ {n})

\* The calls one after the other.
Performed(n, start, calls) ==
    SX!FoldLeft(LAMBDA m, call : Perform(n, m, call), start, calls)

\* The step of the network was one of station n, which handled the arrival of
\* packet p, or no arrival (0): its calls are made, in their order.
Calls(n, p) ==
    LET start == [ pool   |-> Dequeue(pool, p),
                   points |-> [k \in Slots |-> IF k \in Kept THEN pointer[n][k]
                                               ELSE IF k = "arrived" THEN p ELSE 0],
                   sent   |-> [to \in Nodes |-> 0] ]
        end   == Performed(n, start, stations'[n].calls)
    IN  /\ pool' = end.pool
        /\ pointer' = [pointer EXCEPT ![n] =
                         [k \in Kept |-> IF Null(stations'[n], k) THEN 0
                                         ELSE end.points[k]]]
        /\ flight' = [to \in Nodes |-> [m \in Nodes |->
                        IF m = n /\ end.sent[to] # 0 THEN end.sent[to]
                        ELSE IF to = n /\ p # 0 /\ flight[to][m] = p THEN 0
                        ELSE flight[to][m]]]

MemoryNext ==
    \/ \E n \in Nodes : Start(n) /\ Calls(n, 0)
    \/ \E n \in Nodes, t \in Timers : Dispatch(n, t) /\ Calls(n, 0)
    \/ \E a \in air : Arrive(a) /\ Calls(a.to, flight[a.to][a.frame.src])
    \/ (StopSimulation \/ Return) /\ UNCHANGED memory

MemorySpec == MemoryInit /\ [][MemoryNext]_allVars

-----------------------------------------------------------------------------
(* Properties *)

Pointers == Nodes \X Kept
Flights == Nodes \X Nodes
PacketOf(o) == IF o[2] \in Kept THEN pointer[o[1]][o[2]] ELSE flight[o[1]][o[2]]

\* The arrivals that are scheduled, and with them the pointers that are not
\* null.
Scheduled == { o \in Flights : \E a \in air : a.to = o[1] /\ a.frame.src = o[2] }
Owners == { o \in Pointers : ~Null(stations[o[1]], o[2]) } \cup Scheduled

\* Between two events every packet in use belongs to exactly one pointer or
\* scheduled arrival, and each of those has a packet in use: nothing leaks,
\* nothing is shared, nothing points to a packet that was freed - although
\* WirelessPhy::recv frees some packets twice (packet.cc:69).  The event queue
\* holds those of the arrivals and no other.
PacketsHaveOneOwner ==
    /\ \A o, q \in Owners : PacketOf(o) = PacketOf(q) => o = q
    /\ { PacketOf(o) : o \in Owners } = pool.used
    /\ { PacketOf(o) : o \in Scheduled } = pool.queued

\* The free list holds exactly the packets that are not in use, each once: no
\* two allocations return the same packet.
FreeListIsSound ==
    /\ pool \in Pool /\ pool.used \subseteq 1 .. pool.made
    /\ SX!IsInjective(pool.free)
    /\ SX!ToSet(pool.free) = (1 .. pool.made) \ pool.used

\* The assertions of Packet::alloc and Packet::free hold, and no packet is
\* scheduled that the event queue holds already (scheduler.cc:50).
PoolAssertionsHold == ~pool.failed
=============================================================================
