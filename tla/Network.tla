------------------------------- MODULE Network -------------------------------
(***************************************************************************)
(* The simulated network: stations on one Channel, driven by one           *)
(* scheduler.  A step is the dispatch of one event - a timer of a station, *)
(* the arrival of a frame at a station, the end of the simulation - with   *)
(* everything the program does before it returns to Scheduler::run.  The   *)
(* clock is relative: a step lets the time to the dispatched event elapse  *)
(* everywhere, so only the times still to wait are part of the state.      *)
(***************************************************************************)
EXTENDS RxCoordination

CONSTANTS
    MaxDraw,        \* bound of the random integers
    ChannelDelay,   \* Channel::delay_
    BitErrors,      \* may the error draw of the channel hit a DATA frame?
    MaxPackets      \* bound of the packets a station serves in a run

ASSUME NetworkAssumption ==
    /\ MaxDraw \in Nat /\ ChannelDelay \in Nat /\ BitErrors \in BOOLEAN
    /\ MaxPackets \in Nat

VARIABLES
    stations,   \* [Nodes -> Station]
    air,        \* the arrivals the channel has scheduled
    toStart,    \* the nodes Simulator::run has not yet started
    stopped,    \* Simulator::stopSimulation has run
    got         \* per sender, how often its packet in service was passed up

vars == <<stations, air, toStart, stopped, got>>

Arrival == [to : Nodes, frame : Frame, left : Nat]

Init ==
    /\ stations = [n \in Nodes |-> InitStation(n)]
    /\ air = {}
    /\ toStart = Nodes
    /\ stopped = FALSE
    /\ got = [n \in Nodes |-> 0]

-----------------------------------------------------------------------------
\* Channel::sendUp: one copy for every other interface, all of them with the
\* same error draw.
Copies(f, n) ==
    {[to |-> m, frame |-> f, left |-> ChannelDelay + PropagationDelay(f)] :
        m \in Nodes \ {n}}
Errors(f) == IF BitErrors /\ f.kind = "DATA" THEN BOOLEAN ELSE {FALSE}

\* The program goes on until one of its calls ends it.
Alive == \A n \in Nodes : stations[n].fault # "exit"

\* Faulty variant: the timers are looked at, the arrivals are not.
NotDueBefore_timersOnly(dt) ==
    \A n \in Nodes, t \in Timers : Pending(stations[n], t) => dt <= stations[n].timer[t]

\* Nothing the scheduler holds is due before dt.
NotDueBefore(dt) ==
    /\ \A n \in Nodes, t \in Timers :
         Pending(stations[n], t) => dt <= stations[n].timer[t]
    /\ \A a \in air : dt <= a.left

\* Whether the packet s serves is another one than before, or none.
NextPacket(before, s) == s.pDATA # before.pDATA

\* Station n goes from before to s after the clock moved by dt; rest are the
\* arrivals still scheduled.
Commit(n, before, s, dt, rest) ==
    /\ s.seqno <= MaxPackets + 1     \* sequence numbers start at 1
    /\ stations' = [m \in Nodes |->
                      IF m = n THEN [s EXCEPT !.out = NoFrame, !.up = NoFrame]
                               ELSE Elapse(stations[m], dt)]
    /\ \E e \in Errors(s.out) :
         air' = {[a EXCEPT !.left = @ - dt] : a \in rest}
                \cup (IF s.out = NoFrame THEN {}
                      ELSE Copies([s.out EXCEPT !.bad = e], n))
    /\ got' = [m \in Nodes |->
                 IF m = n /\ NextPacket(before, s) THEN 0
                 ELSE IF s.up # NoFrame /\ s.up.dst # Broadcast /\ s.up.src = m
                 THEN IF got[m] = 2 THEN 2 ELSE got[m] + 1   \* counted up to 2
                 ELSE got[m]]

\* Node::run, called for every node before the scheduler runs.
Start(n) ==
    /\ Alive /\ n \in toStart
    /\ toStart' = toStart \ {n}
    /\ \E in \in Inputs(MaxDraw) :
         /\ in.dst # n
         /\ Commit(n, stations[n], TrafficStart(stations[n], in), 0, air)
    /\ UNCHANGED stopped

\* A timer of a station expires.
Dispatch(n, t) ==
    /\ Alive /\ toStart = {} /\ Pending(stations[n], t)
    /\ LET dt == stations[n].timer[t]
       IN  /\ NotDueBefore(dt)
           /\ \E in \in Inputs(MaxDraw) :
                /\ in.dst # n
                /\ Commit(n, stations[n], HandleTimer(Elapse(stations[n], dt), t, in),
                          dt, air)
    /\ UNCHANGED <<toStart, stopped>>

\* A frame arrives at an interface: WirelessPhy::recv, case UP.
Arrive(a) ==
    /\ Alive /\ toStart = {} /\ NotDueBefore(a.left)
    /\ LET here == [Elapse(stations[a.to], a.left) EXCEPT !.done = "none",
                                                          !.fault = "none"]
       IN  \E in \in Inputs(0) :
              /\ in.dst # a.to
              /\ Commit(a.to, stations[a.to], Recv(here, a.frame, in), a.left,
                        air \ {a})
    /\ UNCHANGED <<toStart, stopped>>

\* Simulator::stopSimulation comes at the latest before a station serves more
\* than MaxPackets packets.  It is an event scheduled long before it is
\* due, and stops every source.
StopSimulation ==
    /\ Alive /\ toStart = {} /\ ~stopped
    /\ stopped' = TRUE
    /\ stations' = [n \in Nodes |-> TrafficStop(stations[n])]
    /\ UNCHANGED <<air, toStart, got>>

\* Scheduler::run returns when no event is left.
Quiet ==
    /\ toStart = {} /\ air = {} /\ stopped
    /\ \A n \in Nodes, t \in Timers : ~Pending(stations[n], t)
Return == Quiet /\ UNCHANGED vars

Next ==
    \/ \E n \in Nodes : Start(n)
    \/ \E n \in Nodes, t \in Timers : Dispatch(n, t)
    \/ \E a \in air : Arrive(a)
    \/ StopSimulation
    \/ Return

Spec == Init /\ [][Next]_vars

\* Scheduler::run takes events as long as there is one.  This is WF_vars(Next)
\* with the enabling condition written out: every state but a Quiet one has a
\* step (checked as the absence of deadlock), and every step is one of Next.
FairSpec == Spec /\ ([]<>Quiet \/ []<><<TRUE>>_vars)

-----------------------------------------------------------------------------
(* Properties *)

\* Type invariant.
TypeOK ==
    /\ stations \in [Nodes -> Station]
    /\ \A n \in Nodes : stations[n].id = n
    /\ \A a \in air : a \in Arrival
    /\ toStart \subseteq Nodes /\ stopped \in BOOLEAN
    /\ got \in [Nodes -> 0 .. 2]

\* In a network no station ends the program: wireless-phy.h:68.
NeverHalts == Alive

\* No handler prints a logic error: no ACK, CTS or end of backoff reaches a
\* coordination that does not wait for it.
NoLogicErrors == \A n \in Nodes : stations[n].fault # "logic"

\* n's transmission goes on past this instant.
OnAir(n) == stations[n].phy = "TXing" /\ stations[n].timer["tX"] > 0

Responding(n) ==
    \/ stations[n].rxc = "wait_SIFS"
    \/ stations[n].phy = "TXing" /\ stations[n].confirm = "RXC"

\* From the end of a frame to the end of the response to it nobody else is on
\* the air: IFS and NAV keep every other station silent.
ResponsesAreAlone ==
    \A m, n \in Nodes :
        Responding(m) /\ n # m => ~OnAir(n)

\* While a station transmits and its frame has arrived at another one, that
\* one neither searches nor takes the channel for idle, up to the instant
\* in which the frame ends.
EveryFrameIsHeard ==
    \A m, n \in Nodes :
        /\ m # n /\ OnAir(m)
        /\ \A a \in air : ~(a.to = n /\ a.frame.src = m)
        => stations[n].phy # "SEARCHING"

\* The packet in service reaches the receiver at most once.
AtMostOnce == \A n \in Nodes : got[n] <= 1

\* A packet that was passed up is not given up, and one that is acknowledged
\* was passed up: sender and receiver agree on every packet.
VerdictIsTrue ==
    [][\A n \in Nodes :
          /\ stations[n].pDATA # NoFrame
          /\ stations'[n].pDATA # stations[n].pDATA
          => (stations'[n].done = "acked" <=> got[n] = 1)]_vars

\* An RTS that is received undamaged is answered: no NAV, set by an exchange
\* that is over, keeps a station silent (mac-802_11.cc:970) and makes the sender
\* retry for nothing.
CleanRTSIsAnswered ==
    [][\A m \in Nodes :
          /\ stations[m].phy = "RXing" /\ ~stations[m].rxError
          /\ stations[m].pktRX.kind = "RTS" /\ stations[m].pktRX.dst = m
          /\ stations'[m].phy = "SEARCHING"
          => stations'[m].rxc = "wait_SIFS"]_vars

\* The link service, ReliableLink, as this network provides it.
Link == INSTANCE ReliableLink WITH
            Senders <- Nodes,
            busy    <- [n \in Nodes |-> stations[n].pDATA # NoFrame],
            verdict <- [n \in Nodes |-> stations[n].done]
LinkSpec == Link!Spec

\* A source that is active has its packet served, over and over: acknowledged,
\* broadcast or given up.  The end of the simulation ends no service, so that a
\* station that waits for ever, or that does not go on to its next packet, is
\* noticed whether or not the simulation ends.
SourcesAreServed ==
    \A n \in Nodes : stations[n].active ~> stations[n].done # "none"

\* After the end of the simulation the stations finish the packets they have
\* and the event queue runs empty, so that Simulator::run returns.
Drains == stopped ~> (Quiet /\ \A n \in Nodes : stations[n].txc = "Idle")
=============================================================================
