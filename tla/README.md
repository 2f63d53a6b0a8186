# Verification of the wireless network simulator

TLA+ models, model-checking runs and machine-checked proofs for the 802.11
simulator in `src/`: a single-threaded discrete-event program in the style of
ns-2 that simulates stations with saturated sources, the 802.11 DCF (basic
access and RTS/CTS), a four-state radio, and one broadcast channel.

Nothing in the program runs in parallel, but all of it is interleaved: ten
timers per station and the arrivals of frames are events of one queue, every
handler is a chain of synchronous calls through up to six classes, and the
order of events at the same microsecond is decided by rounding errors. That is
what a unit test hardly reaches and what these models are about.

## 1. Inventory

| Component (source) | State | Operations | Talks to |
|---|---|---|---|
| `Scheduler`, `CalendarScheduler` (`scheduler.*`) | `clock_`, buckets, `width_`, `lastbucket_`, `cal_clock_`, three counts | `schedule`, `cancel`, `run`/`deque`/`dispatch`, `resize` | calls every handler |
| `TimerHandler` (`timer-handler.*`) | idle, pending, handling | `sched`, `cancel`, `handle` (`resched`, `force_cancel`: unused) | scheduler; `expire` of ten subclasses |
| `Channel` (`channel.*`) | interfaces, `delay_` | `recv`/`sendUp`: one copy per other interface | scheduler, `WirelessPhy::recv` |
| `WirelessPhy` (`wireless-phy.*`) | SEARCHING, PreRXing, RXing, TXing; packet in reception; three timers | `sendDown`, `sendUp`, three timeouts | channel below, MAC above |
| `ChannelStateMgr` (`mac-802_11.*`) | five channel states, IFS value, IFS and NAV timers | PHY busy/idle, `handleSetNAV`, `setIFS`, two timeouts | `BackoffMgr` |
| `BackoffMgr`, `BackoffTimer_t` | three states, remaining slots, timer | `handleBKStart`, `handleCSIDLE`, `handleCSBUSY`, timeout | `TXC` |
| `TXC` | eight states, `pDATA`, `pRTS`, two retry counters, three timers | packet from above, backoff done, end of transmission, CTS, ACK, three timeouts | PHY below, source above |
| `RXC`, `Mac802_11` | three states, `pCTRL`, duplicate cache, `cw_`, `sta_seqno_` | `handleRXEndIndication`, `handleMsgFromBelow`, `recvDATA`, timeout, end of transmission | all of the MAC |
| `Traffic`, `Node` (`traffic.*`, `node.*`) | `active_`, received totals, static index counters | constructors and destructors, `addInterface`, `start`, `stop`, `genPacket`, `recv` | MAC |
| `Simulator` (`simulator.*`, `main.cc`) | nodes, channels, batches, totals | constructor and destructor, `set`, `run`, `startStatistic`, `stopStatistic`, `stopSimulation` | scheduler (at-events), nodes, sources |
| `Packet` (`packet.*`) | free list, `fflag_`, `uid_` (`ref_count_` and `data_`: always 0) | `alloc`, `free`, `copy` | all |
| `RNG`, `Random` (`rng.*`, `random.*`) | `Cg_`, `Bg_`, `Ig_`, `anti_`, `inc_prec_`, the package's `next_seed_` | seeds, draws, resets, substreams, `advance_state` | `genPacket`, backoff, channel |

`resched`, `force_cancel`, `lookup`, `dumpq` and `halted_` are used by nobody. `PowerMonitor` is
commented out. `conf`, `db`, `hooks`, `locks`, `format` and `README.txt` belong to
a Subversion server, not to the program.

**What is hard.** Several timers of one station at one instant; a response that
cuts off a reception; a NAV or a busy channel while an IFS or a backoff runs;
the end of a backoff inside the call that asked for it; the next packet handed
down while the previous one is still being finished; ACKs that lose the race
with their timeout; collisions; bit errors; a calendar that is rebuilt while an
event is on its way out of it; packets passed on by bare pointers and freed
twice on some paths; statistics events among the events they count; counters that
outlive a simulation; 64-bit arithmetic in doubles. `PROJECT.json` lists the hazards line by line.

**What makes each part correct.** Timers: pending exactly when a state waits for
them. PHY: the MAC never transmits during a transmission (`wireless-phy.h:68`).
Carrier sense: agrees with the PHY. Backoff: counts down exactly on an idle
channel. TXC: holds the packets its state is about, each service starts with
fresh counters and ends. RXC: answers before anybody contends. Sender and
receiver: agree on what was delivered, each packet at most once. Calendar:
events come out by time, then in the order they were scheduled. Packet pool: every
packet in use has one owner. Simulator: the addresses are those `genPacket` draws
from, a batch counts exactly what was received in its window, `run` returns.
Generator: any jump is as many single steps.

## 2. Modules

    MacFrames <- StationState <- ChannelAccess <- WirelessPhy
       <- TxCoordination <- RxCoordination <- Station   (one station, any environment)
                                           <- Network   (stations, channel, scheduler)
    ReliableLink       what the MAC promises about unicast packets; Network implements it
    EventQueue         what the scheduler promises;  CalendarScheduler implements it
    PacketPool         Packet::alloc, copy and free
    Network, PacketPool <- PacketMemory              (who owns which packet)
    Topology <- SimulationRun                        (construction, run, batches)
    RandomStream       the generator
    MCStation, MCNetwork, MCCalendar, MCPackets, MCSimulation, MCRandom   values for TLC
    StationLemmas <- StationHandlers <- StationProofs
    PacketMemory, StationHandlers <- NetworkProofs <- PacketProofs
                                                     (the network and its memory)
    SimulationProofs;  CalendarProofs;  RandomProofs

* **MacFrames**: frames, air times, duration fields (with their 16 bits),
  timeouts. Time is in microseconds; every duration of the program is a whole
  number of them, and the runs use the program's own values.
* **StationState**: one station as a record, whose fields are named after the
  members they stand for, and `TimerHandler`. A timer is idle, handling, or
  the time left.
* **ChannelAccess**, **WirelessPhy**, **TxCoordination**, **RxCoordination**: one
  operator per C++ member function, from the record before the call to the
  record after it. The order of assignments and calls is that of the code, so
  that a re-entrant chain (a timer, the MAC, the PHY, the channel; or the end
  of a packet, the source, the next packet) is one step, as it is in the
  program. Calls of `exit`, `abort` and failed assertions set `fault` to `"exit"`,
  printed logic errors to `"logic"`. The split follows the calls: what can
  start a transmission is in TxCoordination, whatever class it belongs to.
* **Station**: the record in an arbitrary environment. Steps are `Node::run`,
  the stop, the expiry of a timer, and the arrival of any frame a peer can send,
  at any time.
* **Network**: several stations, the arrivals the channel has scheduled, and the
  scheduler's choice of the next event. `got` is a history variable: how often
  the receiver passed up the packet in service.
* **ReliableLink**: Offer, Deliver, Finish. Delivered at most once; finished as
  acknowledged only if delivered.
* **CalendarScheduler**: the calendar queue with its buckets, counts and resizes;
  `schedule`, `cancel` and a round of `run` are the actions. **EventQueue** is a set of
  pending events with a clock.
* **PacketPool**, **PacketMemory**: packets are numbers; the pool has the free list, the
  packets with `fflag_` and those with a positive `uid_`. The operators of the
  station modules append every call of `alloc`, `free` and `Channel::recv` to the field
  `calls`, with the pointer it is made for. PacketMemory is Network with a pool: after
  each step it makes the calls that the step recorded, in their order.
* **Topology**, **SimulationRun**: what the constructors and destructors do to the static
  counters, one action per object, and `Simulator::run` with its at-events in one
  queue with the ends of services. Here the network is only what ReliableLink says of
  it: a packet is in service for some time and is then passed up or given up. The
  call of `genPacket` is a loop with a step for every draw, `heard` is a history
  variable: the packets passed up in each batch's window.
* **RandomStream**: the two recurrences, `MultModM` with the split of a factor and the
  rounding of doubles, the matrix powers, and every operation on a stream. `U01` and
  `U01d` round `norm` and every product, sum and difference to the nearest double, of
  two the even one: a double is an integer, the number 1 is `One`, which has as many
  binary places as the smallest double that occurs needs (`Bits`). Moduli,
  coefficients, tables and the bounds of exact arithmetic are constants. `history` says how
  many single steps from which seed each of the states should be.

## 3. Runs

| Run | Question | Bounds |
|---|---|---|
| `station_dcf` | can any sequence of arrivals and timers make a station exit, disagree with itself, answer late or access a busy channel? | 3 arrivals from one peer (data, broadcast, bit errors, RTS, CTS, ACK, addressed to it or others) at gaps 0, 15 and 300 |
| `station_rts` | the same with RTS/CTS, for the packets held, pending frames and counters | as above, unicast, threshold 1000 |
| `network_dcf` | do three contending stations respond alone, hear every frame, and agree on every packet? | 3 stations, 2 packets each, window 1, limits 2, bit errors |
| `network_rts` | the same with RTS/CTS; is an RTS that reaches a free station answered? | 3 stations, 1 packet each |
| `network_delay` | what holds when an ACK and its timeout fall in one instant: does every source get its service, and does the run end? | 2 stations, 2 packets, channel delay of 1 |
| `packets` | does every packet have one owner, with all frees, double ones included, with copies and with late frames? | 2 stations, 2 packets, channel delay of 1 |
| `simulation` | do the batches count their windows, is each written once, is what is logged a number, does `run` return? | 2 nodes, 1 or 2 batches of length 2, 2 runs, 2 simulations, services of 1 to 3 |
| `random` | do jumps, resets, seeds and draws in any order agree with single steps? | moduli 11 and 7, positions up to 20 |
| `calendar` | does the calendar implement the event queue? | times 0 to 9, a pair of equal times, widths 1 and 2 |
| `duplicate` | finding 1 | `SeqMod` 2, delay 1 |
| `carrier_sense` | finding 2 | delay 30 |
| `random_range` | finding 3 | as `random` |

**Why the bounds are enough.** A station needs three arrivals for each of its
known conflicts: a frame that sets an IFS or a NAV, one that is being received,
and one that collides or asks for a response. The gaps put an arrival at the
same instant as another event (0), between a frame and its SIFS response or IFS
(15), and past the PHY header (300). In the networks the contention window
of two or four slots makes both a collision and its resolution happen, the
limits are reached, and a second packet inherits whatever the first one left
behind. Two-station runs have hidden no behaviour of the MAC from the three-station
ones but the NAV of a third party, which is in `network_dcf` and `network_rts`. Nine
distinct times double the four buckets; dispatching them halves them again;
both widths make the year wrap. In `packets` the delay makes frames
arrive in every state of the PHY, and what the second packet does with recycled
memory is what every later one does. In `simulation` a service may be longer than a
batch (no packet in it), end at the same instant as an at-event before or behind it in
the queue, and be under way from one batch to the next and past `stopSimulation`; a
second run and a second simulation meet what the first left. In `random` a factor of
four bits is split after the first, and doubles are exact to six: the proportions
of 35, 17 and 53 bits. `m1 + 1` is no power of two, so that `norm` is rounded as the
program's is, and 1/8, the weight of a second number, is more than the distance of two
numbers, as 2^-24 is: from both seeds the draws reach equal components and the smallest
differences of `U01d`. The real tables of the program cannot be multiplied by TLC.

**Names of the bounds.** `MaxArrivals`, `Gaps`, `Peers`, `MaxDraw`, `MaxPackets`,
`MaxTime`, `MaxTied`, `Widths`, `NodeCounts`, `Lifetimes`,
`BatchCounts`, `MaxService`, `MaxRuns`, `Seeds`, `Jumps`, `MaxMoves`, and `got`, which is counted up to 2. `MaxPackets` bounds
a network by bringing the end of the simulation (`stopSimulation`) before more
packets are served; it may come at any earlier time too. `SeqMod` is
2^16 wherever the number of packets matters; 2 makes the wrap reachable
in `duplicate`, and in the station runs, where it only stands for equal and
different numbers.

**Choices left open.** Random draws; destinations; the error draw of a frame; the
rounding of the slot quotient in `BackoffTimer_t::pause`; which of the events at
one instant comes first: their times are sums of doubles that are equal on paper
only, and the model takes every order. The last one makes the models allow more
than one build of the program does. The MAC's broadcast branch is driven
although `Traffic` makes unicast packets only.

**Fairness.** `FairSpec` says that the program does not stop while it has events:
`Scheduler::run` is a loop that takes the next event. It is `WF_vars(Next)`, with
the enabling condition written out as `~Quiet` (TLC's deadlock check of the same
network confirms that every state but a quiet one has a step; quiet states have
the stuttering step `Return`). Nothing is assumed of the random draws: retries are
bounded, so that even the worst draws end. `network_delay` therefore checks
that every source is served (`SourcesAreServed`: its packet is acknowledged or given up,
or nobody could tell a station that waits for ever), not that its packets arrive. The end
of the simulation is no way out of it: a packet in service is finished after
`stopSimulation` too, and the queue then runs empty (`Drains`). In SimulationRun,
`FairSpec` is `WF_vars(Progress)`, the same loop together with the calls of `run` before it, and
`WF_vars(Draw)`: the generator does not return one and the same address for ever, because
its recurrence has full period. Without two interfaces `Draw` is never enabled, and
`genPacket` never returns (`traffic.cc:66`); `main` builds 20.

The two station configurations turn the deadlock check off: a station whose
arrivals are used up and whose source has stopped has nothing left to do.

## 4. What the runs show

With the program's timing and no channel delay, no call of `exit` or `abort` is
reachable, waits and timers agree, responses are alone on the air, sender and
receiver agree on every packet, and the run ends after the sources stop. With a
delay of 1 an ACK reaches the end of its reception at the very instant of its timeout, and
either may come first: the stations still never halt, serve every source and implement
ReliableLink, but printed logic errors happen.
The calendar implements the event queue through all resizes.

The second `free` of a packet in `WirelessPhy::recv` is harmless, because nothing is
allocated between the two: each packet in use has exactly one owner, none is lost, the
free list has no duplicates. A packet received at the very instant at which a batch
begins counts for it, and one received at the instant at which it ends does not: at-events
are scheduled before the sources start, so they come first among the events of one
instant. `ReportIsNumeric` states exactly when the log has numbers: the average delay is not a
number as soon as one batch received nothing, and the confidence intervals are not when
there is one batch only. `main` takes two long ones. After any number of
simulations the counters are back at their start.

**Findings.**

1. `duplicate`: the filter at `mac-802_11.cc:526` takes sequence number 0 for "nothing
   received"; `sta_seqno_` wraps to 0 after 65535 packets, and that packet is passed
   up again when it is retransmitted. `mac-802_11.h:448` promises that
   duplicates are discarded. It needs a delayed or lost ACK, that is a channel delay.
2. `carrier_sense`: the PHY says "idle" when its own transmission or reception ends
   (`wireless-phy.cc:195`, `:200`), although another frame may still be arriving;
   `mac-802_11.h:217` expects it to stay busy until the signal is gone. Without a
   channel delay (`network_dcf`) this cannot be observed: `EveryFrameIsHeard` holds.
3. `random_range`: with increased precision and antithetic numbers, `U01d` may subtract a
   little too much and then adds 1 (`rng.cc:785`); when the difference is about -2^-56,
   the sum is rounded to 1 exactly. `rand_int(0, MAXINT)` then returns `MAXINT + 1`,
   which `rng.h:235` and `:244` exclude. A first step with equal components and a second
   one with a combined value just below 2^24 lead there. `DrawsAreInRange` states that
   nothing else does: all other numbers are below 1, and 0 needs increased precision.

## 5. Proofs

All for every value of the constants (any number of nodes, any timing, any limits
that satisfy the named assumptions), checked by TLAPS.

* **StationProofs**: every invariant and the action property of a station, in any
  environment: `TypeCorrect`, `CarrierSense`, `Backoff`, `NoHalt`, `TimersMatch`,
  `ResponseFirst`, `PendingBackoff`, `PacketsMatch`, `FreshStart` and `ChannelAccessed`.
  The inductive invariant is `Good(n, h)` in StationHandlers: the states of station `n`
  while the handlers of the timers in `h` are running (`h` is empty between two events;
  a timer is neither pending nor idle in its own handler). Its parts are
  * `Sound`: the type, the range of every timer, the agreement of PHY, channel state
    and backoff. The timers stay natural numbers only because a pending backoff timer
    implies a running backoff with at least 0 slots left (otherwise a pause could leave a
    negative count, and `run` would schedule the timer into the past);
  * `PhyTimed`, `ChannelTimed`, `ResponseTimed`: each timer but those in `h` is pending
    exactly in the states that wait for it;
  * `TxcOK`, `RxcOK`, `Receives`: state, packets, retry counters and window of TXC fit
    together, RXC and the PHY hold a packet exactly when their state is about one;
  * `Confirms`: the PHY transmits for the one coordination that waits for the end
    of it, and the other one is in no state from which it could transmit;
  * `Undisturbed`: while a SIFS is waited for, no reception is past its header, and an
    IFS that runs ends later than the SIFS.

  None is inductive alone. `NeverHalts` needs to know that the PHY is not transmitting
  when a SIFS or a backoff ends: the backoff is `Sound`'s business, the SIFS is
  `Undisturbed`'s, which rests on `TimingAssumption` (a PHY header lasts longer than a
  SIFS) and on `Confirms`. `Undisturbed` in turn needs `ResponseTimed`, because the
  timers are compared, and those are kept because no handler is called in a state that
  it does not expect, which is `NeverHalts`. A step is one operator applied to another,
  so there is one lemma per operator, in the order of the calls. The first half
  of StationLemmas maps `Sound` to `Sound` (`Calm` describes the moments between two
  assignments of `setState`); the second says what each operator changes (`Touches(s,
  u, fields, timers)`) and what it makes of the timers; StationHandlers joins the two,
  one lemma for each timer and each received frame.
* **NetworkProofs**: `TypeCorrect` and `NoHalt` for any number of stations, any channel
  delay and any bit errors. The same lemmas; the new part is that the dispatch of the
  earliest event leaves every other timer and arrival in the present or the future.

  `FreeList` is about PacketMemory, for any finite number of stations: the free list and
  the packets in use are always a partition of those ever made. `SoundPools` is kept by
  `alloc`, by `copy` and by any `free`, one of a packet that is free included
  (`FreeIs`): that is what `fflag_` is for. It remains to show that every call a
  handler records names a packet that was made. `PerformedAre` follows the calls of a
  handler one by one, `CopiesAre` the copies of a frame over the other interfaces, and
  the station's invariant says that the sender of each frame is a node. `FoldLeft` is a
  recursive function over sets of indices; `FoldingExists` and `FoldingKeeps` show by
  least counterexample that there is one, and that it keeps what its steps keep.
* **PacketProofs**: `Ownership` and `NoPoolAssertion`, for any finite number of stations
  and any channel delay shorter than the shortest frame: every packet in use has one
  owner, and no assertion of `alloc` or `free` fails. Neither property is inductive: between
  two calls of one handler a packet may have no owner, and what makes a second `free`
  harmless is that nothing was allocated since the first. The argument has three layers.
  * *The books of a handler.* A `Ledger` says which pointers own a packet and whether one
    was handed to the channel; `Legal` says what one call may do to it (`alloc` only to a
    pointer that owns nothing, `free` and `send` only by one that owns something, `send`
    once), and `Books(l, calls, m)` that the recorded calls are legal one after the other and
    lead from `l` to `m`. `Tidy(o, X)` are the stations whose books, from those of `o` on,
    now show the packets that the fields of the record show, and the local ones `X`. There
    is one lemma for each operator of the model, from `AbortTidy` to `ExpireTidy`, in the order
    of the calls; `Spares` covers the operators that touch no packet. The one handler that
    does not keep books is `WirelessPhy::recv`: `RecvCalls` shows that its calls are either
    two frees of the arrived packet, with nothing between them that could allocate
    (`Discards`), or those of an accepted one (`Accepts`).
  * *The accounts of the pool.* `Balanced(m, H, D, O, Q)`: while the calls are made, the
    packets in use are those of the pointers `H`, the copies for the stations `D` and those
    of all others, `O`, without repetition, and the event queue holds the copies and `Q`.
    `BalancedBooks` follows the books call by call, `BalancedSend` the copies of a
    frame, `BalancedDiscards` the free that comes twice (`FreedTwice`).
  * *The owners.* `Owned`, the inductive invariant, is the property with the assertions.
    `CallsOpen` takes what a handler finds from it to balanced accounts and `CallsClose` takes the
    balanced accounts of its end back to it. It needs `AirInv`: there is at most one
    arrival at one station from another, because a station whose frame has not
    arrived everywhere is transmitting, and its transmission ends after the arrival
    (`CommitAir`). This is where the channel delay matters.
* **SimulationProofs** begins with `Addresses`, for any number of simulations of any
  sizes. The invariant `Inv` adds to the property that outside a simulation all counters
  are where the program started them, and inside all of them but the channel's equal the
  number of nodes: without it nothing would be known of the second simulation. Its
  channel must have index 1, or `addInterface` would return without an interface.
  Then come `RunTypeCorrect`, `BatchesCounted`, `WrittenOnce`, `ReportNumeric`, for any
  number of batches, nodes, runs and simulations, and any lengths. The invariant
  `RunInv` says that some number `d` of at-events has been dispatched, and then
  * `QueueInv(d)`: the queue is in the order of dispatch, at-events come before services
    of the same time, and the at-events behind the first `d` are in it, each once and in
    their order;
  * `CountsInv(d)`: `curbatch_` is half of `d`; the batches before it are in the books,
    those whose window is to come have heard nothing, and between a `startStatistic` and
    its `stopStatistic` the totals of the sources add up to what was heard.

  The second needs the first: only the order of the queue tells that the clock of a
  reception lies in the window of the batch that is open (`WindowOfClock`). Three data
  arguments are made by least counterexample (`Least`), since the induction theorems
  of the library cannot be used: that the accumulated `Duration` is the end of a
  window, that the loop schedules `AtEvents` in their order, and where a service falls
  in. The sum over the sources is the number of received items (`SumCountsItems`): one
  more at one place is one more in all.
* **CalendarProofs**: `CalendarIsQueue`: the calendar implements the event queue, for any
  times, any number of events at one instant, and any widths that its resizes choose;
  with it `CalendarTypes`, `CalendarCounts` and `CalendarForwards`. The invariant of the
  calendar is `Inv`:
  * `BucketsOK`: each bucket is a list in the order of dispatch (`Ordered`), holds only
    times that are hashed to it, and counts each of them once;
  * `CountsOK`: the counts of the whole calendar are those of its events;
  * `Sound` adds that there are four buckets or more and that `lastbucket_` is the bucket
    of `cal_clock_`; `Inv` adds that `cal_clock_` is the clock and that no event is past.

  `InsertSound`, `CancelSound`, `DequeSound` and `ResizeSound` map sound calendars to sound
  ones and say which events are in them. An event's time is looked for in two neighbours
  only, or in one: that is enough because the list is in order. `resize` files every event
  anew with `insert2`, which puts it *before* those of its time: `TailsFirstIs` and `AllFiled`
  show that the order survives because the buckets are emptied from their tails.
  `LimitIsThisYear` is about the scan of `head`: with four buckets or more, the shorter
  limits for the first two buckets still tell exactly which heads are of this year, and
  `HeadIsNext` concludes that the bucket found has the event that is due next, in the
  search of all buckets too. The folds of the model, `FoldLeft` and `FlattenSeq`, are
  recursive functions; that they are well defined, and what they compute, is shown by
  least counterexample.
* **RandomProofs**: the three invariants of the generator, `StreamTypes`,
  `JumpsAreSteps` and `NumbersInRange`. The argument has four parts:
  * `MultModMIs`: `MultModM` returns the remainder of `a * s + c`. A product beyond `two53`
    has been rounded, but then the factor is split, and each part of the sum stays below
    `two53`; a product that is exactly `two53` in size is where the rounding and the test
    have to agree. `RestIs` shows that cutting off the quotient and adding `m` to a
    negative rest gives the remainder.
  * `MatVecIs`, `MatMatIs`, `MatMatVec`: the products of matrices are those modulo `m`, and
    a product of two moves a state as both do one after the other.
  * `TwoPowMoves`, `PowMoves`, `AdvancedMoves`: `Moves(T, d, o, m)` says that `T` takes each
    state of the orbit `o` to the one `d` steps on. Squaring doubles `d`; a round of
    `MatPowModM` keeps `w * n + b`, where `W` moves by `w` and `B` by `b` (`RoundReaches`), and
    ends with `n = 0`. The orbit is defined by recursion in both directions; `OrbitIs`
    shows that there is one, from the uniqueness of the state before a step, which is the
    product with the inverse matrix (`BeforeIs`).
  * `NeverZero`: a component that were ever zero would have been zero at the seed,
    because a matrix leads back there.

  The inductive invariant `Inv` says that each state is the one of the orbit at the position
  in `history`. `NumberIs` bounds the numbers of both precisions, antithetic or not, with
  every rounding on the way: `NearestIs` says that a double is off by half the distance
  of its neighbours at most, and that what lies between two doubles is rounded to
  between them (0 and `One` are doubles), `ErrorIs` how much that is. So `rand_int` stays
  within its bounds but for the case of finding 3 (`RandIntIs`).

Assumptions: those named `...Assumption` in the modules. Six are more than types.
`TimingAssumption`: the PHY header lasts longer than a SIFS. `DelayAssumption`: the
channel delay is shorter than an ACK, the shortest frame; the program's is 0
(`simulator.cc:58`, `channel.h:28`). It concerns PacketMemory only and is cited by
PacketProofs only, where `AddressesAreNoPointers` says besides that no node is called like a
pointer. `PrecisionAssumption`: `2 * two17 * m1 <= two53` and `m1 * m1 <= two53 * two17`, that is 2^50 and 2^64 against 2^53
and 2^70 in `rng.cc`. `InverseAssumption`: `InvA1` and `InvA2` are what their comment says
(`rng.cc:559`), the inverses of the matrices of one step; for the numbers in the source
this is a calculation of a few products, for instance `1403580 - 810728 * 184888585 =
0` and `-810728 * 1945170933 = 1` modulo `m1`. `TableAssumption`: the tables `A1p76`,
`A2p76`, `A1p127` and `A2p127` are what their comment says (`rng.cc:555`), powers of the
matrices of one step; the numbers in the source have been compared with the 76 and 127
squarings, and so have the two inverses with the products above. `RoundingAssumption`:
`norm` has more binary places than a double needs for `m1`, and `One` has room for the
smallest double that occurs; with the numbers in the source that is `Bits` of 109
or more, 32 for `m1 + 1`, 53 for a double and 24 for `fact`. TLC evaluates all of them for the constants
of the runs.

**Model-checked only.** Liveness (`SourcesAreServed`, `Drains`, `RunReturns`: out of the
prover's reach). What relates several stations in time (`NoLogicErrors`,
`ResponsesAreAlone`, `EveryFrameIsHeard`, `VerdictIsTrue`): true only of the concrete
timing and of a short channel delay. The refinement of ReliableLink, for the same
reason: an ACK that is delayed beyond the next packet would be taken for that
packet's. All of these would take an invariant that relates the timers of every pair of
stations to each other, and most of them hold only where all data frames have one size.

The memory model has room for one frame under way from one station to another, which is
all there is as long as `DelayAssumption` holds; for longer delays the variable would be
too small, not the code wrong.

## 6. Not modelled

* The floating-point formulas of the statistics: only whether their result is a number.
  Bits, delays and transmissions are summed beside the packets in the same places, and
  `totalpacket` stands for the four.
* Of the generator: the non-uniform distributions, the seeds from the clock and from a
  table, the self-test, and the code under `OLD_RNG`, which is not compiled. In the
  other models every draw is open.
* Packet data and reference counts: `allocdata` and `refcopy` have no callers.
* `newwidth` and the search counters of the calendar: any width of a small set.
* A simulation that is deleted before it has run: its destructor deletes `throughput_`
  (`simulator.cc:73`), which only `run` sets. `main` always runs what it builds.
* The time between the receiver's call of `Traffic::recv` and the sender's, a SIFS and
  an ACK, in SimulationRun only: there the end of a service is one step. In Network
  they are steps of two stations.
* Logging, wording of messages, frame bits that nobody reads, and the failure
  callback `xmit_failure_`, which nobody sets.

## 7. Plan

1. Done: frames, station, network, link, calendar, packet pool, construction and run of
   a simulation, generator; the runs and the proofs above.
2. Done: the ownership of packets, with one lemma for each operator of a station.
3. Left: the properties that relate stations in time, for any number of stations without
   a channel delay; a network of mixed frame sizes, some with and some without RTS/CTS.
