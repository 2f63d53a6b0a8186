---------------------------- MODULE SimulationRun ----------------------------
(***************************************************************************)
(* Simulator::run and the statistics (simulator.cc, traffic.cc): the       *)
(* at-events that open and close the batches and stop the sources, between *)
(* the events of the network, in one event queue.  The network is what     *)
(* ReliableLink says of it: every packet is in service for some time, and  *)
(* is passed up at its destination or given up.                            *)
(***************************************************************************)
EXTENDS Topology, Functions

CONSTANTS
    BatchCounts,   \* Simulator::batch_
    Time,          \* Simulator::time_, the length of a batch
    WarmUp,        \* the time before each batch, 30 in the program
    CoolDown,      \* the time after the last one, 10 in the program
    MaxService,    \* bound of the time a packet is in service
    MaxRuns        \* bound of the runs of one simulation

ASSUME RunAssumption ==
    /\ BatchCounts \subseteq Nat \ {0}
    /\ Time \in Nat \ {0} /\ WarmUp \in Nat \ {0} /\ CoolDown \in Nat
    /\ MaxService \in Nat \ {0} /\ MaxRuns \in Nat

VARIABLES
    batch,         \* Simulator::batch_
    queue,         \* the event queue, in the order of dispatch
    clock,         \* Scheduler::clock_, counted from the call of run
    started,       \* how many sources run has started
    drawing,       \* the node whose genPacket draws a destination, or 0
    active,        \* Traffic::active_ of every node
    totalpacket,   \* Traffic::totalpacket_ of every node
    throughput,    \* Simulator::throughput_ in packets, <<>> before run
    curbatch,      \* Simulator::curbatch_
    delay,         \* Simulator::delay_: a number or not a number
    report,        \* what stopSimulation writes to the log file
    overrun,       \* throughput_ was written out of its bounds
    runs,          \* how often run was called
    heard          \* the packets passed up in the window of each batch

statistics == <<totalpacket, throughput, curbatch, delay, report, overrun>>
run == <<batch, queue, clock, started, drawing, active, runs, heard>>
vars == <<topology, statistics, run>>

Numeric == {"number", "NaN"}
NoReport == [delay |-> "none", interval |-> "none"]

\* An event is its time, what it is, and for the end of a service the node
\* that sends and the address it sends to.
AtEvent(time, what) == [time |-> time, what |-> what, node |-> 0, dst |-> 0]
Service(time, node, dst) == [time |-> time, what |-> "service", node |-> node, dst |-> dst]

\* Faulty variant: events are kept in the order they were scheduled.
Scheduled_last(q, e) == Append(q, e)

\* Scheduler::schedule: behind the events of the same time.
Scheduled(q, e) ==
    LET k == CHOOSE k \in 0 .. Len(q) :
                 /\ \A j \in 1 .. k : q[j].time <= e.time
                 /\ \A j \in k + 1 .. Len(q) : q[j].time > e.time
    IN  SubSeq(q, 1, k) \o <<e>> \o SubSeq(q, k + 1, Len(q))

\* The window of a batch.
Opens(i) == i * WarmUp + (i - 1) * Time
Closes(i) == Opens(i) + Time

Init ==
    /\ TopologyInit
    /\ batch = 0 /\ queue = <<>> /\ clock = 0 /\ started = 0 /\ drawing = 0
    /\ active = <<>> /\ totalpacket = <<>>
    /\ throughput = <<>> /\ curbatch = 0 /\ delay = "number"
    /\ report = NoReport /\ overrun = FALSE
    /\ runs = 0 /\ heard = <<>>

-----------------------------------------------------------------------------
\* Simulator::Simulator: everything is as in Init again, and set gives the
\* batches.
Construct(n, b) ==
    /\ NewSimulator(n)
    /\ batch' = b
    /\ active' = [i \in 1 .. n |-> FALSE]
    /\ totalpacket' = [i \in 1 .. n |-> 0]
    /\ UNCHANGED <<queue, clock, throughput, report, runs, started, drawing, curbatch,
                   delay, overrun, heard>>

Build == NewNode /\ UNCHANGED <<statistics, run>>

\* The loop over the batches: duration after i rounds, and the at-events that
\* they schedule.
Duration[i \in Nat] == IF i = 0 THEN 0 ELSE Duration[i - 1] + WarmUp + Time

AtEvents[i \in Nat] ==
    IF i = 0 THEN <<>>
    ELSE AtEvents[i - 1] \o << AtEvent(Duration[i - 1] + WarmUp, "startStatistic"),
                               AtEvent(Duration[i], "stopStatistic") >>

\* Simulator::run up to the start of the sources.
Run ==
    /\ phase \in {"ready", "returned"} /\ runs < MaxRuns
    /\ phase' = "starting" /\ runs' = runs + 1 /\ clock' = 0
    /\ queue' = Append(AtEvents[batch], AtEvent(Duration[batch] + CoolDown, "stopSimulation"))
    /\ throughput' = [i \in 1 .. batch |-> 0]
    /\ curbatch' = 0 /\ delay' = "number" /\ report' = NoReport
    /\ started' = 0
    /\ heard' = [i \in 1 .. batch |-> 0]
    /\ UNCHANGED <<index, nodenum, interfacenum, channel, nodes, built, batch,
                   drawing, active, totalpacket, overrun>>

\* Node::run and Traffic::start of the next node.
StartSource ==
    /\ phase = "starting" /\ drawing = 0 /\ started < Len(nodes)
    /\ started' = started + 1 /\ drawing' = started + 1
    /\ active' = [active EXCEPT ![started + 1] = TRUE]
    /\ UNCHANGED <<topology, statistics, batch, queue, clock, runs, heard>>

\* Simulator::run calls Scheduler::run.
StartEvents ==
    /\ phase = "starting" /\ drawing = 0 /\ started = Len(nodes)
    /\ phase' = "running"
    /\ UNCHANGED <<index, nodenum, interfacenum, channel, nodes, built, statistics, run>>

\* Faulty variant: one destination less.
Draws_offByOne == 0 .. interfacenum - 2

\* What Random::integer may return for genPacket.
Draws == 0 .. interfacenum - 1

\* The loop of Traffic::genPacket: a destination that is the host itself is
\* drawn again.
Redraw ==
    /\ drawing # 0 /\ Address(drawing) \in Draws
    /\ UNCHANGED vars

\* The loop ends with another destination, and the MAC takes the packet: it
\* is in service until an event to come.
Draw ==
    /\ drawing # 0
    /\ \E d \in Draws \ {Address(drawing)}, length \in 1 .. MaxService :
          queue' = Scheduled(queue, Service(clock + length, drawing, d))
    /\ drawing' = 0
    /\ UNCHANGED <<topology, statistics, batch, clock, started, active, runs, heard>>

-----------------------------------------------------------------------------
(* Scheduler::run.  A step dispatches the first event; the rest of its handler *)
(* is one of the operators that follow.                                        *)

Dispatched(what) ==
    /\ phase = "running" /\ drawing = 0
    /\ queue # <<>> /\ Head(queue).what = what
    /\ queue' = Tail(queue) /\ clock' = Head(queue).time
    /\ UNCHANGED <<topology, batch, started, runs>>

\* Faulty variant: only the first node's source is reset.
ResetTotals_first == [totalpacket EXCEPT ![1] = 0]

\* Traffic::reset of every source.
ResetTotals == [i \in DOMAIN totalpacket |-> 0]

StartStatistic ==
    /\ Dispatched("startStatistic")
    /\ totalpacket' = ResetTotals
    /\ UNCHANGED <<throughput, curbatch, delay, report, overrun, drawing, active, heard>>

Total == FoldFunction(+, 0, totalpacket)

\* The quotient of the delays and the packets of a batch.
Quotient(packets) == IF packets = 0 THEN "NaN" ELSE "number"

\* Faulty variant: a batch without packets is left out.
NextBatch_skipsEmpty == IF Total = 0 THEN curbatch ELSE curbatch + 1

NextBatch == curbatch + 1

\* Simulator::stopStatistic.  A sum with something that is not a number stays so.
StopStatistic ==
    /\ Dispatched("stopStatistic")
    /\ IF curbatch < batch
       THEN throughput' = [throughput EXCEPT ![curbatch + 1] = @ + Total]
            /\ UNCHANGED overrun
       ELSE overrun' = TRUE /\ UNCHANGED throughput
    /\ curbatch' = NextBatch
    /\ delay' = IF delay = "NaN" THEN "NaN" ELSE Quotient(Total)
    /\ UNCHANGED <<totalpacket, report, drawing, active, heard>>

\* Traffic::stop of every node.
Stopped == [i \in DOMAIN active |-> FALSE]

\* Simulator::stopSimulation: the confidence interval divides by the number of
\* batches but one.
StopSimulation ==
    /\ Dispatched("stopSimulation")
    /\ active' = Stopped
    /\ report' = [delay |-> delay, interval |-> Quotient(batch - 1)]
    /\ UNCHANGED <<totalpacket, throughput, curbatch, delay, overrun, drawing, heard>>

\* Traffic::recv of a packet, at the node that has the address.
Receive(address) ==
    /\ totalpacket' = [totalpacket EXCEPT ![At(address)] = @ + 1]
    /\ heard' = [i \in DOMAIN heard |->
                   heard[i] + (IF Opens(i) <= clock' /\ clock' < Closes(i) THEN 1 ELSE 0)]

\* The end of a service: the packet was passed up or given up, and the source
\* is called back, which draws the next one when it is active.  The two calls
\* of Traffic::recv, the receiver's with the packet and the sender's without
\* one, come a SIFS and an ACK apart; they are one step here: the first only
\* counts, the second only draws, and nothing below compares their times.
EndService ==
    /\ Dispatched("service")
    /\ Receive(Head(queue).dst) \/ UNCHANGED <<totalpacket, heard>>
    /\ drawing' = IF active[Head(queue).node] THEN Head(queue).node ELSE 0
    /\ UNCHANGED <<throughput, curbatch, delay, report, overrun, active>>

\* Scheduler::run and Simulator::run return when no event is left.
Return ==
    /\ phase = "running" /\ drawing = 0 /\ queue = <<>>
    /\ phase' = "returned"
    /\ UNCHANGED <<index, nodenum, interfacenum, channel, nodes, built, statistics, run>>

\* The simulation goes out of scope in main, and its members with it.  Only
\* after run, which main always calls: before it the destructor would delete
\* throughput_ (simulator.cc:73), which the constructor leaves unset.
Delete ==
    /\ phase = "returned"
    /\ phase' = "deleting"
    /\ totalpacket' = <<>> /\ throughput' = <<>> /\ curbatch' = 0
    /\ delay' = "number" /\ report' = NoReport
    /\ clock' = 0 /\ started' = 0 /\ active' = <<>> /\ runs' = 0
    /\ heard' = <<>>
    /\ UNCHANGED <<index, nodenum, interfacenum, channel, nodes, built, overrun,
                   batch, queue, drawing>>

TakeDown == (DeleteNode \/ DeleteChannel) /\ UNCHANGED <<statistics, run>>

\* main returns after its last simulation.
Exit == phase = "none" /\ built = Lifetimes /\ UNCHANGED vars

Next ==
    \/ \E n \in NodeCounts, b \in BatchCounts : Construct(n, b)
    \/ Build \/ Run \/ StartSource \/ StartEvents \/ Redraw \/ Draw
    \/ StartStatistic \/ StopStatistic \/ StopSimulation \/ EndService
    \/ Return \/ Delete \/ TakeDown \/ Exit

Spec == Init /\ [][Next]_vars

\* The program goes on by itself from run to its return, and genPacket, which
\* draws again and again, draws another destination at last.
Progress ==
    \/ StartSource \/ StartEvents
    \/ StartStatistic \/ StopStatistic \/ StopSimulation \/ EndService \/ Return
FairSpec == Spec /\ WF_vars(Progress) /\ WF_vars(Draw)

-----------------------------------------------------------------------------
(* Properties *)

\* Type invariant.
TypeOK ==
    /\ TopologyTypeOK
    /\ batch \in Nat /\ clock \in Nat /\ started \in 0 .. nodenum /\ drawing \in 0 .. nodenum
    /\ \A k \in DOMAIN queue : queue[k].time >= clock
    /\ active \in Seq(BOOLEAN) /\ totalpacket \in Seq(Nat)
    /\ throughput \in Seq(Nat) /\ heard \in Seq(Nat) /\ curbatch \in Nat
    /\ delay \in Numeric
    /\ report.delay \in Numeric \cup {"none"} /\ report.interval \in Numeric \cup {"none"}

\* The throughput of every finished batch counts exactly the packets that were
\* passed up from its start to its end, the first instant included and the
\* last one not, in whichever run: simulator.cc:148-182.
BatchesCountTheirWindow ==
    phase \in {"running", "returned"} =>
        \A i \in 1 .. batch : throughput[i] = IF i <= curbatch THEN heard[i] ELSE 0

\* throughput_ is written within its bounds, once for each batch, and all of
\* it is written before the mean is formed (simulator.cc:124, 177).
EveryBatchIsWrittenOnce ==
    /\ ~overrun
    /\ report # NoReport => curbatch = batch

\* The delay in the log file is a number exactly when a packet was passed up
\* in every batch (simulator.cc:179), and the confidence intervals are when
\* there was more than one (simulator.cc:29).
ReportIsNumeric ==
    report # NoReport =>
        /\ (report.delay = "number") <=> \A i \in 1 .. batch : heard[i] > 0
        /\ (report.interval = "number") <=> batch > 1

\* run returns: every source finds a destination (traffic.cc:66), and after
\* stopSimulation the event queue runs empty.
RunReturns == phase = "starting" ~> phase = "returned"
=============================================================================
